---------------------------- MODULE VisitedLinks ----------------------------
(***************************************************************************)
(* What the database of visited links promises: a set of links, and what   *)
(* is left of it after a crash.  VisitedLinkMaster is shown to implement   *)
(* this specification.                                                     *)
(*                                                                         *)
(* The promise about crashes: what a later start finds is either nothing,  *)
(* or a set the database held at some time, up to an operation that the    *)
(* crash cut in the middle.  It is never a mixture, such as an old set     *)
(* without a link that both it and its successors held.  It is off as long *)
(* as the file holds a mixture for want of memory for a new table.         *)
(***************************************************************************)
CONSTANT Fingerprints

VARIABLES
  up,             \* whether the database is open
  visited,        \* the links marked visited ({} when it is not open)
  recoverable,    \* the sets a start may find
  spoiled         \* the promise is off

Init == up = FALSE /\ visited = {} /\ recoverable = {{}} /\ spoiled = FALSE

(***************************************************************************)
(* An operation adds links or removes links.  What could be recovered may  *)
(* still be, and so may any set that the operation passes through.         *)
(***************************************************************************)
PassedThrough ==
  {U \in SUBSET (visited \union visited') : visited \intersect visited' \subseteq U}

Change ==
  /\ up /\ UNCHANGED up
  /\ visited' \subseteq Fingerprints
  /\ visited \subseteq visited' \/ visited' \subseteq visited
  /\ recoverable' \subseteq recoverable \union {{}} \union PassedThrough

(* The writes under way reach the disk, or are lost with the process.      *)
Settle == UNCHANGED <<up, visited>> /\ recoverable' \subseteq recoverable

Close ==
  /\ up /\ up' = FALSE
  /\ visited' = {}
  /\ recoverable' \subseteq recoverable

Open ==
  /\ ~up /\ up' = TRUE
  /\ visited' \in recoverable
  /\ recoverable' \subseteq recoverable

Next ==
  \/ spoiled \/ spoiled'
  \/ (Change \/ Settle \/ Close \/ Open) /\ UNCHANGED spoiled

Spec == Init /\ [][Next]_<<up, visited, recoverable, spoiled>>
=============================================================================
