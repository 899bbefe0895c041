-------------------------- MODULE MCRemoteMessages --------------------------
(***************************************************************************)
(* A window that shows two documents, a renderer that may go once, two     *)
(* messages of the client and four calls of THRUST.remote by the pages.   *)
(***************************************************************************)
EXTENDS RemoteMessages
=============================================================================
