-------------------------- MODULE VisitedLinkTable --------------------------
(***************************************************************************)
(* The open-addressed table of visitedlink_common.cc and                   *)
(* visitedlink_master.cc, as operators.                                    *)
(*                                                                         *)
(* A table T of n slots is a function on 0 .. n-1.  Its values are         *)
(* fingerprints, positive integers; 0 is null_fingerprint_.  Collisions    *)
(* are resolved by linear probing.                                         *)
(***************************************************************************)
EXTENDS Naturals, Sequences, FiniteSets

Empty(n) == [i \in 0..(n - 1) |-> 0]

HashFingerprint(fp, n) == fp % n

(* The slot d steps after h, wrapping around. *)
After(h, d, n) == IF h + d < n THEN h + d ELSE h + d - n

(* The d-th slot of the probe sequence of fp. *)
Probe(fp, d, n) == After(HashFingerprint(fp, n), d, n)

(* Probing for fp stops at the d-th slot: it is the first that is empty or *)
(* holds fp.                                                               *)
StopsAt(T, n, fp, d) ==
  /\ T[Probe(fp, d, n)] \in {0, fp}
  /\ \A e \in 0..(n - 1) : e < d => T[Probe(fp, e, n)] \notin {0, fp}

(* VisitedLinkCommon::IsVisited. *)
IsVisited(T, n, fp) ==
  \E d \in 0..(n - 1) : StopsAt(T, n, fp, d) /\ T[Probe(fp, d, n)] = fp

(* VisitedLinkMaster::AddFingerprint puts fp in the empty slot where the   *)
(* probing stops; there is none if fp is there already or the table is     *)
(* full.                                                                   *)
FreeSlot(T, n, fp) ==
  {Probe(fp, d, n) :
     d \in {e \in 0..(n - 1) : StopsAt(T, n, fp, e) /\ T[Probe(fp, e, n)] = 0}}

AddFingerprint(T, n, fp) ==
  IF FreeSlot(T, n, fp) = {} THEN T
  ELSE [T EXCEPT ![CHOOSE i \in FreeSlot(T, n, fp) : TRUE] = fp]

Members(T) == {T[i] : i \in DOMAIN T} \ {0}

UsedSlots(T) == {i \in DOMAIN T : T[i] # 0}
-----------------------------------------------------------------------------
(***************************************************************************)
(* Deletion empties the run of non-empty slots that starts at the home     *)
(* slot h of the fingerprint, and adds again what it held besides, in the  *)
(* order of the slots.  When the run is the whole table (RunLength is n)   *)
(* the loop over it does nothing.                                          *)
(***************************************************************************)
InRun_NoWrap(T, n, h, d) ==
  h + d < n /\ \A e \in 0..(n - 1) : e <= d => T[After(h, e, n)] # 0

InRun(T, n, h, d) == \A e \in 0..(n - 1) : e <= d => T[After(h, e, n)] # 0

RunLength(T, n, h) == Cardinality({d \in 0..(n - 1) : InRun(T, n, h, d)})

Cleared(T, n, h) ==
  IF RunLength(T, n, h) = n THEN {}
  ELSE {After(h, d, n) : d \in 0..(RunLength(T, n, h) - 1)}

ClearRun(T, n, h) ==
  LET C == Cleared(T, n, h)
  IN  [i \in 0..(n - 1) |-> IF i \in C THEN 0 ELSE T[i]]

(* The slots of the run that hold other fingerprints. *)
Moved(T, n, fp) == {i \in Cleared(T, n, HashFingerprint(fp, n)) : T[i] # fp}

(* What is put back: the contents of the run, with 0 in place of fp. *)
Shuffled(T, n, fp) ==
  LET h == HashFingerprint(fp, n)
  IN  [d \in 1..Cardinality(Cleared(T, n, h)) |->
         IF T[After(h, d - 1, n)] = fp THEN 0 ELSE T[After(h, d - 1, n)]]
-----------------------------------------------------------------------------
(* Every fingerprint of the table is found by probing, and sits in one     *)
(* slot only.                                                              *)
NoOrphans(T, n) == \A i \in 0..(n - 1) : T[i] # 0 => IsVisited(T, n, T[i])

NoDuplicates(T, n) ==
  \A i, j \in 0..(n - 1) : T[i] # 0 /\ T[i] = T[j] => i = j
=============================================================================
