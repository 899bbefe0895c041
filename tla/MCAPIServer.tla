---------------------------- MODULE MCAPIServer ----------------------------
(* Instances of APIServer for TLC.  Three types are enough: an object      *)
(* invokes remote methods and is deleted last (a session), or lets a call  *)
(* wait (a menu), or neither.  And the framing of two messages of up to    *)
(* three bytes, a boundary of three.                                       *)
EXTENDS APIServer

MCTypes == {"session", "window", "menu"}

Framing == INSTANCE Framing WITH
             kSocketBoundary <- <<"b", "c", "b">>, Newline <- "n"

ReadsInPieces == Framing!ActionsArrive({"x", "b", "c", "n"}, "x", 2, 2..5)

(* As long as the client is served, what it writes is what is performed,   *)
(* however the reads of the handler thread cut it (ProcessChunk).          *)
ActionsArrive == client = "running" => ReadsInPieces
=============================================================================
