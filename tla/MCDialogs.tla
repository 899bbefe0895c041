----------------------------- MODULE MCDialogs -----------------------------
(***************************************************************************)
(* Two web contents and three requests, on each platform; and the file     *)
(* choosers over two files and two folders, some of them without a path.   *)
(***************************************************************************)
EXTENDS Dialogs

MCEntries ==
  {[name |-> n, dir |-> d, local |-> l] :
     n \in {"a", "b"}, d \in BOOLEAN, l \in BOOLEAN}
=============================================================================
