------------------------ MODULE MCVisitedLinkMaster ------------------------
(* Instances of VisitedLinkMaster for TLC.  Of the links, 4 and 9 share    *)
(* their home slot, the last one, in the table of 5 slots, where their     *)
(* probing wraps around; 4 and 15 do in the table of 11 slots.             *)
EXTENDS VisitedLinkMaster

MCSizes == <<5, 11>>
ShellOperations == {"AddURL", "DeleteAllURLs"}
AllOperations == {"AddURL", "AddURLs", "DeleteURLs", "DeleteAllURLs"}

Probing == INSTANCE VisitedLinkProbing

(* Whatever calls, rebuilds, failures and crashes made of the table, a      *)
(* renderer may look links up while the next deletion empties and refills a *)
(* run of it, in a slot at a time.  No table escapes by being looked at only *)
(* when nothing waits to be written: the writes do not change it.           *)
LookupsDuringDeletion ==
  running /\ master.io = <<>> /\ ~master.mixed =>
    Probing!LookupsRight(master.table, Length(master), Fingerprints \union {1})
=============================================================================
