------------------------- MODULE VisitedLinkMaster -------------------------
(***************************************************************************)
(* src/browser/visitedlink/visitedlink_master.cc: the table of visited     *)
(* links of a session, its file, and what a crash leaves of them.          *)
(*                                                                         *)
(* The UI thread changes the table in memory and posts the writes; a       *)
(* worker performs them later, in order.  Everything the UI thread does in *)
(* one call is one step.  A crash may come between any two writes; each    *)
(* write is taken as atomic.                                               *)
(*                                                                         *)
(* The header is the table length and the count of used items; the salt,   *)
(* which only changes when the table starts afresh, is left out.           *)
(***************************************************************************)
EXTENDS Integers, Sequences, FiniteSets, VisitedLinkTable

CONSTANTS
  Fingerprints,   \* the fingerprints of the links in play
  TableSizes,     \* the sizes of NewTableSizeForCount, increasing
  BigDelete,      \* kBigDeleteThreshold
  Operations,     \* the public methods the embedder calls
  MayFail,        \* whether shared memory may be refused
  MaxOps,         \* bound on the calls
  MaxCrashes      \* bound on the crashes

ASSUME SizesAssumption ==
  /\ Fingerprints \subseteq Nat \ {0}
  /\ IsFiniteSet(Fingerprints) /\ Fingerprints # {}
  /\ TableSizes \in Seq(Nat \ {0}) /\ Len(TableSizes) > 0
  /\ \A i \in DOMAIN TableSizes : TableSizes[i] % 2 = 1
  /\ BigDelete \in Nat /\ MaxOps \in Nat /\ MaxCrashes \in Nat
  /\ MayFail \in BOOLEAN
  /\ Operations \subseteq {"AddURL", "AddURLs", "DeleteURLs", "DeleteAllURLs"}

(* No table gets full: each is large enough for the sanity check of       *)
(* TryToAddURL to leave a slot empty, as those of the code are, or there   *)
(* are fewer links than slots.                                             *)
ASSUME RoomAssumption ==
  \/ \A i \in DOMAIN TableSizes : TableSizes[i] >= 150
  \/ /\ \A i \in DOMAIN TableSizes : TableSizes[i] > Cardinality(Fingerprints)
     /\ \E i \in DOMAIN TableSizes : TableSizes[i] > 3 * Cardinality(Fingerprints)

VARIABLES
  running,        \* whether the VisitedLinkMaster exists
  master,         \* its members, see Members below
  closing,        \* tasks of the destroyed master not yet performed
  disk,           \* the file
  ops, crashes    \* calls and crashes so far

masterVars == <<running, master, closing, disk, ops, crashes>>

DefaultTableSize == TableSizes[1]

(***************************************************************************)
(* The members of the master.                                              *)
(*   table     hash_table_, table_length_ being the size of its domain     *)
(*   used      used_items_                                                 *)
(*   building  table_builder_ is set                                       *)
(*   added, deleted  added_since_rebuild_ and deleted_since_rebuild_       *)
(*   opened    file_ is set                                                *)
(*   io        the tasks posted to the worker and not yet performed        *)
(*   told      what the last call told the listener                        *)
(*   unsaved   the table was changed and nothing was posted to write that; *)
(*             when a resize is refused memory its callers take the new    *)
(*             table to be written, and this remains                       *)
(*   mixed     the table goes back to a file into which entries of another *)
(*             table had been written, and was not cleared since           *)
(* The last three are not in the code.                                     *)
(***************************************************************************)
Scratch ==
  [table |-> Empty(DefaultTableSize), used |-> 0, building |-> TRUE,
   added |-> {}, deleted |-> {}, opened |-> FALSE, io |-> <<>>, told |-> <<>>,
   unsaved |-> FALSE, mixed |-> FALSE]

Length(m) == Cardinality(DOMAIN m.table)

Slots(m) == [i \in 1..Length(m) |-> m.table[i - 1]]

Tell(m, call, fp) ==
  [m EXCEPT !.told = Append(@, [call |-> call, link |-> fp])]

-----------------------------------------------------------------------------
(***************************************************************************)
(* The file.  Length 0 stands for a file without a valid header, or none.  *)
(* It is mixed when a count or entries went into it one by one that belong *)
(* to a table it was never given.                                          *)
(***************************************************************************)
NoFile == [length |-> 0, used |-> 0, data |-> <<>>, mixed |-> FALSE]

Open            == [op |-> "open"]
Header(len, u)  == [op |-> "header", length |-> len, used |-> u]
Table(m)        == [op |-> "table", slots |-> Slots(m), mixed |-> m.mixed]
Data(m, a, s)   == [op |-> "data", first |-> a, slots |-> s,
                    mixed |-> m.unsaved \/ m.mixed]
Used(m)         == [op |-> "used", used |-> m.used,
                    mixed |-> m.unsaved \/ m.mixed]
Truncate(len)   == [op |-> "truncate", length |-> len]

(* Writing past the end of the file extends it. *)
Overwrite(data, first, s) ==
  [i \in 1..(IF Len(data) < first + Len(s) THEN first + Len(s) ELSE Len(data)) |->
     IF i \in (first + 1)..(first + Len(s)) THEN s[i - first]
     ELSE IF i <= Len(data) THEN data[i] ELSE 0]

(* AsyncOpen, AsyncWrite and AsyncTruncate.  The current position that the *)
(* file is truncated to is the end of the whole table, written just before.*)
Perform(f, task) ==
  CASE task.op = "open"     -> NoFile
    [] task.op = "header"   -> [f EXCEPT !.length = task.length,
                                         !.used = task.used]
    [] task.op = "used"     -> [f EXCEPT !.used = task.used,
                                         !.mixed = @ \/ task.mixed]
    [] task.op = "data"     -> [f EXCEPT !.data =
                                           Overwrite(@, task.first, task.slots),
                                         !.mixed = @ \/ task.mixed]
    [] task.op = "table"    -> [f EXCEPT !.data = Overwrite(@, 0, task.slots),
                                         !.mixed = task.mixed]
    [] task.op = "truncate" -> [f EXCEPT !.data = SubSeq(@, 1, task.length)]

PostIOTasks(m, tasks) == [m EXCEPT !.io = @ \o tasks]

WriteUsedItemCountToFile(m) ==
  IF m.opened THEN PostIOTasks(m, <<Used(m)>>) ELSE m

(* A range that wraps is written in two parts, the first of which is one   *)
(* entry too long: what follows the table in memory is written too.        *)
WriteHashRangeToFile_Split(m, first, last) ==
  LET n == Length(m)
      Part(a, b) == [i \in 1..(b - a + 1) |->
                       IF a + i <= n THEN m.table[a + i - 1] ELSE 0]
  IN  IF ~m.opened \/ last < first THEN m
      ELSE PostIOTasks(m, <<Data(m, first, Part(first, last))>>)

WriteHashRangeToFile(m, first, last) ==
  LET n == Length(m)
      Part(a, b) == [i \in 1..(b - a + 1) |->
                       IF a + i <= n THEN m.table[a + i - 1] ELSE 0]
  IN  IF ~m.opened THEN m
      ELSE IF last < first
        THEN PostIOTasks(m, <<Data(m, first, Part(first, n)),
                              Data(m, 0, Part(0, last))>>)
        ELSE PostIOTasks(m, <<Data(m, first, Part(first, last))>>)

WriteFullTable(m) ==
  PostIOTasks([m EXCEPT !.opened = TRUE, !.unsaved = FALSE],
    (IF m.opened THEN <<>> ELSE <<Open>>)
      \o <<Header(Length(m), m.used), Table(m), Truncate(Length(m))>>)

-----------------------------------------------------------------------------
(***************************************************************************)
(* The table.                                                              *)
(***************************************************************************)
Insert(m, fp) ==
  [m EXCEPT !.table = AddFingerprint(m.table, Length(m), fp),
            !.used = @ + Cardinality(FreeSlot(m.table, Length(m), fp))]

(* A 0 among them stands for nothing. *)
InsertAll(m, fps) ==
  LET done[k \in 0..Len(fps)] ==
        IF k = 0 THEN m
        ELSE IF fps[k] = 0 THEN done[k - 1] ELSE Insert(done[k - 1], fps[k])
  IN  done[Len(fps)]

Ascending(S) ==
  CHOOSE s \in [1..Cardinality(S) -> S] :
    \A i, j \in 1..Cardinality(S) : i < j => s[i] < s[j]

NewTableSizeForCount(count) ==
  LET Fit == {i \in DOMAIN TableSizes : TableSizes[i] > 3 * count}
  IN  IF Fit = {} THEN 2 * count - 1
      ELSE TableSizes[CHOOSE i \in Fit : \A j \in Fit : i <= j]

(* Loads of one half and one fifth; a refused table leaves the old one. *)
MustResize(m) ==
  ~ /\ 2 * m.used < Length(m)
    /\ Length(m) <= DefaultTableSize \/ 5 * m.used > Length(m)

BeginReplaceURLTable(m, size) ==
  [m EXCEPT !.table = Empty(size), !.used = 0, !.unsaved = TRUE]

ResizeTable(m, granted) ==
  IF ~granted THEN m
  ELSE LET blank == BeginReplaceURLTable(m, NewTableSizeForCount(m.used))
       IN  WriteFullTable(Tell(InsertAll(blank, Slots(m)), "NewTable", 0))

ResizeTableIfNecessary(m, granted) ==
  IF MustResize(m) THEN ResizeTable(m, granted) ELSE m

(* Writes what changed to the file if updateFile is set. *)
DeleteFingerprint(m, fp, updateFile) ==
  LET n == Length(m)
      h == HashFingerprint(fp, n)
      counted == [m EXCEPT !.used = @ - 1]
      headed  == IF updateFile THEN WriteUsedItemCountToFile(counted)
                 ELSE counted
      emptied == [headed EXCEPT !.table = ClearRun(m.table, n, h),
                                !.used = @ - Cardinality(Moved(m.table, n, fp))]
      moved   == InsertAll(emptied, Shuffled(m.table, n, fp))
  IN  IF ~IsVisited(m.table, n, fp) THEN m
      ELSE IF updateFile
        THEN WriteHashRangeToFile(moved, h,
                                  After(h, RunLength(m.table, n, h) - 1, n))
        ELSE [moved EXCEPT !.unsaved = TRUE]

DeleteAll(m, fps, updateFile) ==
  LET left[k \in 0..Len(fps)] ==
        IF k = 0 THEN m ELSE DeleteFingerprint(left[k - 1], fps[k], updateFile)
  IN  left[Len(fps)]

DeleteFingerprintsFromCurrentTable(m, S, granted) ==
  LET bulk == Cardinality(S) > BigDelete
      pruned == DeleteAll(m, Ascending(S), ~bulk)
  IN  IF MustResize(pruned) THEN ResizeTable(pruned, granted)
      ELSE IF bulk THEN WriteFullTable(pruned) ELSE pruned

(***************************************************************************)
(* TryToAddURL.  No link is added to a table more than 80% full, in        *)
(* integer arithmetic; but it is remembered if a rebuild is under way.     *)
(***************************************************************************)
Remember_KeepsDeletion(m, fp) ==
  IF m.building THEN [m EXCEPT !.added = @ \union {fp}] ELSE m

Remember(m, fp) ==
  IF m.building THEN [m EXCEPT !.deleted = @ \ {fp}, !.added = @ \union {fp}]
  ELSE m

IsNew(m, fp) ==
  /\ m.used \div 8 <= Length(m) \div 10
  /\ FreeSlot(m.table, Length(m), fp) # {}

TryToAddURL(m, fp) ==
  IF IsNew(m, fp)
  THEN [Tell(Insert(Remember(m, fp), fp), "Add", fp)
          EXCEPT !.unsaved = @ \/ m.building]
  ELSE Remember(m, fp)

-----------------------------------------------------------------------------
(***************************************************************************)
(* The calls.                                                              *)
(***************************************************************************)
MasterInit ==
  /\ running = FALSE /\ master = Scratch /\ closing = <<>>
  /\ disk = NoFile
  /\ ops = 0 /\ crashes = 0

Granted == IF MayFail THEN BOOLEAN ELSE {TRUE}

Silent(m) == [m EXCEPT !.told = <<>>]

Call(operation) ==
  /\ running /\ operation \in Operations
  /\ ops < MaxOps /\ ops' = ops + 1
  /\ UNCHANGED <<running, closing, disk, crashes>>

AddURL ==
  /\ Call("AddURL")
  /\ \E fp \in Fingerprints :
       LET m == TryToAddURL(Silent(master), fp)
           i == CHOOSE s \in FreeSlot(master.table, Length(master), fp) : TRUE
       IN  master' \in
             IF master.building \/ ~IsNew(master, fp) THEN {m}
             ELSE {ResizeTableIfNecessary(
                     WriteHashRangeToFile(WriteUsedItemCountToFile(m), i, i),
                     granted) : granted \in Granted}

AddOne(m, fp, granted) ==
  IF m.building \/ ~IsNew(m, fp) THEN TryToAddURL(m, fp)
  ELSE ResizeTableIfNecessary(TryToAddURL(m, fp), granted)

AddAll(m, fps, granted) ==
  LET done[k \in 0..Len(fps)] ==
        IF k = 0 THEN m ELSE AddOne(done[k - 1], fps[k], granted)
  IN  done[Len(fps)]

AddURLs ==
  /\ Call("AddURLs")
  /\ \E S \in SUBSET Fingerprints, granted \in Granted :
       LET m == AddAll(Silent(master), Ascending(S), granted)
       IN  master' = IF m.building THEN m ELSE WriteFullTable(m)

DeleteAllURLs ==
  /\ Call("DeleteAllURLs")
  /\ LET m == [Silent(master) EXCEPT !.added = {}, !.deleted = {}, !.used = 0,
                                    !.table = Empty(Length(master)),
                                    !.unsaved = TRUE, !.mixed = FALSE]
     IN  master' \in {Tell(IF MustResize(m) THEN ResizeTable(m, granted)
                           ELSE WriteFullTable(m), "Reset", 0) :
                        granted \in Granted}

(* The listener is told before anything is deleted. *)
DeleteURLs ==
  /\ Call("DeleteURLs")
  /\ \E S \in SUBSET Fingerprints \ {{}} :
       LET m == Tell(Silent(master), "Reset", 0)
           noted == [m EXCEPT !.deleted = @ \union S, !.added = @ \ S]
       IN  master' \in
             IF master.building
               THEN {DeleteAll(noted, Ascending(S), FALSE)}
               ELSE {DeleteFingerprintsFromCurrentTable(m, S, granted) :
                       granted \in Granted}

(***************************************************************************)
(* OnTableRebuildComplete.  The session's delegate completes the rebuild   *)
(* with no link at all: the master is the only store of visited links.     *)
(***************************************************************************)
History == {}

OnTableRebuildComplete ==
  /\ running /\ master.building
  /\ \E granted \in Granted :
       LET m == Silent(master)
           fresh == [BeginReplaceURLTable(m, NewTableSizeForCount(
                       Cardinality(History) + Cardinality(m.added)))
                     EXCEPT !.added = {}, !.deleted = {}]
           filled == InsertAll(fresh, Ascending(History) \o Ascending(m.added))
           pruned == DeleteFingerprintsFromCurrentTable(filled, m.deleted,
                                                        granted)
           done == IF granted THEN WriteFullTable(Tell(pruned, "NewTable", 0))
                   ELSE m
       IN  master' = [done EXCEPT !.building = FALSE]
  /\ UNCHANGED <<running, closing, disk, ops, crashes>>

-----------------------------------------------------------------------------
(***************************************************************************)
(* The life of the master: Init, the destructor, a crash of the process.   *)
(***************************************************************************)

(* InitFromFile and ReadFileHeader. *)
Loads_LongerFile(f) ==
  f.length > 0 /\ Len(f.data) >= f.length /\ f.used <= f.length

Loads(f) == f.length > 0 /\ Len(f.data) = f.length /\ f.used <= f.length

LoadedTable(f) == [i \in 0..(f.length - 1) |-> f.data[i + 1]]

Start ==
  /\ ~running /\ closing = <<>>
  /\ running' = TRUE
  /\ master' = IF Loads(disk)
                 THEN [Scratch EXCEPT !.table = LoadedTable(disk),
                                      !.used = disk.used,
                                      !.building = FALSE, !.opened = TRUE,
                                      !.mixed = disk.mixed]
                 ELSE Scratch
  /\ UNCHANGED <<closing, disk, ops, crashes>>

Destroy ==
  /\ running /\ closing = <<>>
  /\ running' = FALSE
  /\ master' = Scratch
  /\ closing' = master.io
  /\ UNCHANGED <<disk, ops, crashes>>

Crash ==
  /\ running \/ closing # <<>>
  /\ crashes < MaxCrashes /\ crashes' = crashes + 1
  /\ running' = FALSE /\ master' = Scratch /\ closing' = <<>>
  /\ UNCHANGED <<disk, ops>>

(* The worker performs the oldest task of either sequence. *)
Write ==
  /\ master.io # <<>>
  /\ disk' = Perform(disk, Head(master.io))
  /\ master' = [Silent(master) EXCEPT !.io = Tail(@)]
  /\ UNCHANGED <<running, closing, ops, crashes>>

WriteClosing ==
  /\ closing # <<>>
  /\ disk' = Perform(disk, Head(closing))
  /\ closing' = Tail(closing)
  /\ master' = Silent(master)
  /\ UNCHANGED <<running, ops, crashes>>

MasterNext ==
  \/ AddURL \/ AddURLs \/ DeleteAllURLs \/ DeleteURLs
  \/ OnTableRebuildComplete
  \/ Start \/ Destroy \/ Crash
  \/ Write \/ WriteClosing

MasterSpec == MasterInit /\ [][MasterNext]_masterVars
-----------------------------------------------------------------------------
(***************************************************************************)
(* Properties.                                                             *)
(***************************************************************************)
FileTasks == [op : {"open"}] \union [op : {"truncate"}, length : Nat]
         \union [op : {"used"}, used : Int, mixed : BOOLEAN]
         \union [op : {"header"}, length : Nat, used : Int]
         \union [op : {"data"}, first : Nat, slots : Seq(Fingerprints \union {0}),
                 mixed : BOOLEAN]
         \union [op : {"table"}, slots : Seq(Fingerprints \union {0}),
                 mixed : BOOLEAN]

(* The members have the types of the header file; a count may be negative  *)
(* after a crash.  A write is posted only once the opening of the file is. *)
MasterTypeOK ==
  /\ running \in BOOLEAN
  /\ master.table \in [0..(Length(master) - 1) -> Fingerprints \union {0}]
  /\ master.used \in Int
  /\ master.building \in BOOLEAN /\ master.opened \in BOOLEAN
  /\ master.unsaved \in BOOLEAN /\ master.mixed \in BOOLEAN
  /\ master.added \subseteq Fingerprints /\ master.deleted \subseteq Fingerprints
  /\ master.io \in Seq(FileTasks) /\ closing \in Seq(FileTasks)
  /\ master.io # <<>> => master.opened
  /\ disk.length \in Nat /\ disk.used \in Int
  /\ disk.data \in Seq(Fingerprints \union {0}) /\ disk.mixed \in BOOLEAN
  /\ ops \in 0..MaxOps /\ crashes \in 0..MaxCrashes

(* Whatever was added, deleted, moved to a table of another size or read   *)
(* back after a crash, probing finds every fingerprint of the table, and   *)
(* in one slot only.                                                       *)
ProbesComplete ==
  /\ NoOrphans(master.table, Length(master))
  /\ NoDuplicates(master.table, Length(master))

(* used_items_ counts the used slots as long as no crash cut an update of  *)
(* the file in two: it is what the resizing relies on.                     *)
CountsUsed ==
  crashes = 0 => master.used = Cardinality(UsedSlots(master.table))

(* A rebuild that completes neither undoes a deletion made meanwhile, nor  *)
(* loses an addition, whatever was added and deleted in which order; it    *)
(* may only add what the full table had refused.                           *)
RebuildKeepsChanges ==
  [][OnTableRebuildComplete =>
       /\ Members(master.table) \subseteq Members(master'.table)
       /\ Members(master'.table) \subseteq
            Members(master.table) \union master.added]_masterVars

(* Once the worker has caught up, header and entries of the file are those *)
(* of the table, unless it was changed and left unsaved on purpose or for  *)
(* want of memory; what may be wrong is an entry after them                *)
(* (WrapIsHandled).                                                        *)
SavedWhenQuiet ==
  running /\ master.opened /\ master.io = <<>>
    /\ ~master.unsaved /\ ~master.mixed =>
    /\ disk.length = Length(master) /\ disk.used = master.used
    /\ SubSeq(disk.data, 1, disk.length) = Slots(master)

(* The listener is told of every link that becomes visited, and of a reset *)
(* (or a rebuilt table) whenever a link is no longer visited.              *)
ListenerTold ==
  [][running /\ running' =>
       LET before == Members(master.table)
           later  == Members(master'.table)
           Told(call, fp) == \E i \in DOMAIN master'.told :
                               master'.told[i] = [call |-> call, link |-> fp]
       IN  /\ \A fp \in later \ before : Told("Add", fp) \/ Told("NewTable", 0)
           /\ before \subseteq later \/ Told("Reset", 0)]_masterVars

(***************************************************************************)
(* The promise of VisitedLinks.                                            *)
(***************************************************************************)
Pending == closing \o master.io

LoadedLinks(f) == IF Loads(f) THEN Members(LoadedTable(f)) ELSE {}

(* The one sequence of files that the first k pending tasks make of the    *)
(* file.                                                                   *)
Files[k \in 0..Len(Pending)] ==
  IF k = 0 THEN {<<disk>>}
  ELSE {Append(files, Perform(files[k], Pending[k])) : files \in Files[k - 1]}

Recoverable == UNION {{LoadedLinks(files[i]) : i \in DOMAIN files} :
                        files \in Files[Len(Pending)]}

(* The file is mixed, or is about to be. *)
Spoiled ==
  \/ master.mixed \/ disk.mixed
  \/ \E i \in DOMAIN Pending :
       Pending[i].op \in {"data", "used", "table"} /\ Pending[i].mixed

Promise == INSTANCE VisitedLinks
  WITH up <- running,
       visited <- IF running THEN Members(master.table) ELSE {},
       recoverable <- Recoverable,
       spoiled <- Spoiled

(* What a start finds after a crash is nothing, or a set of links the      *)
(* database held, or passed through in an operation that was cut.          *)
Durable == Promise!Spec

(* The table in memory is sound whatever the calls, resizes, rebuilds,     *)
(* crashes and restarts: it has its type, probing reaches every entry, the *)
(* count is exact.  Only a table read from a mixed file need not be.       *)
TableSound == MasterTypeOK /\ (~master.mixed => ProbesComplete /\ CountsUsed)

(* No change is lost by a rebuild, and none is made without telling.       *)
ChangesKeptAndTold == RebuildKeepsChanges /\ ListenerTold

-----------------------------------------------------------------------------
(***************************************************************************)
(* What comments of the source say and the code does not do.               *)
(***************************************************************************)

(* "The range can wrap around at 0 and this function will handle it."      *)
(* (visitedlink_master.h:237): once written, the file loads.               *)
WrapIsHandled ==
  running /\ ~master.building /\ master.opened /\ master.io = <<>> =>
    Loads(disk)
=============================================================================
