---------------------------- MODULE FileDialogs ----------------------------
(***************************************************************************)
(* File choosers of the pages: what a page is given for each mode it may   *)
(* ask for, on the three platforms.  The dialog is modal and runs inside   *)
(* the request.  An entry of the disk is a record; what a toolkit lets the *)
(* user select under the options it is given is external.                  *)
(***************************************************************************)
EXTENDS FiniteSets

CONSTANT Entries  \* records [name, dir, local]: local if it has a path

ASSUME EntriesAssumption ==
  /\ IsFiniteSet(Entries)
  /\ \A e \in Entries : {e.dir, e.local} \subseteq BOOLEAN

Modes == {"Open", "OpenMultiple", "UploadFolder", "Save"}

\* The flags of RunFileChooser; the case of OpenMultiple falls through.
Flags_NoFallThrough(mode) ==
  {"CREATE_DIRECTORY"} \cup
  CASE mode = "OpenMultiple" -> {"MULTI_SELECTIONS"}
    [] mode = "Open" -> {"OPEN_FILE"}
    [] mode = "UploadFolder" -> {"OPEN_DIRECTORY"}

Flags(mode) ==
  {"CREATE_DIRECTORY"} \cup
  CASE mode = "OpenMultiple" -> {"MULTI_SELECTIONS", "OPEN_FILE"}
    [] mode = "Open" -> {"OPEN_FILE"}
    [] mode = "UploadFolder" -> {"OPEN_DIRECTORY"}

-----------------------------------------------------------------------------
(* What may be selected: the kinds, whether several, whether anything that *)
(* is not in the file system.                                              *)

Selections(kinds, several, remote) ==
  {S \in SUBSET Entries :
     /\ S # {} /\ (several \/ Cardinality(S) = 1)
     /\ \A e \in S : e.dir \in kinds /\ (remote \/ e.local)}

\* GTK_FILE_CHOOSER_ACTION_SELECT_FOLDER or _OPEN; local only by default.
GtkOptions(flags) ==
  Selections({"OPEN_DIRECTORY" \in flags}, "MULTI_SELECTIONS" \in flags, FALSE)

\* FOS_PICKFOLDERS, FOS_ALLOWMULTISELECT, FOS_FORCEFILESYSTEM.
WinOptions(flags) ==
  Selections({"OPEN_DIRECTORY" \in flags}, "MULTI_SELECTIONS" \in flags, FALSE)

\* setCanChooseFiles:, setCanChooseDirectories:, setAllowsMultipleSelection:
SetupDialogForProperties(flags) ==
  Selections({d \in BOOLEAN : IF d THEN "OPEN_DIRECTORY" \in flags
                                   ELSE "OPEN_FILE" \in flags},
             "MULTI_SELECTIONS" \in flags, TRUE)

ReadDialogPaths(S) == {e \in S : e.local}

\* An item without a path makes the whole of Windows' answer a refusal.
GetResults(S) == IF \E e \in S : ~e.local THEN {} ELSE S

ShowOpenDialog(p, flags) ==
  CASE p = "gtk" -> GtkOptions(flags)
    [] p = "win" -> {GetResults(S) : S \in WinOptions(flags)}
    [] p = "mac" -> {ReadDialogPaths(S) : S \in SetupDialogForProperties(flags)}

\* A name for a new file, in a place that has a path or not.
ShowSaveDialog(p) ==
  {IF p = "mac" /\ ~e.local THEN {} ELSE {e} :
     e \in {x \in Entries : ~x.dir /\ (p = "mac" \/ x.local)}}

\* What FilesSelectedInChooser may be called with: nothing if the user cancels.
RunFileChooser(p, mode) ==
  {{}} \cup IF mode = "Save" THEN ShowSaveDialog(p)
            ELSE ShowOpenDialog(p, Flags(mode))

-----------------------------------------------------------------------------
(* Where the dialog starts: the folder and the name that it proposes.      *)

\* A default path is empty, the name alone of something in the working folder
\* or a full path; absentFolder ends in a separator.
Paths ==
  [full : {FALSE}, leaf : {"empty"}] \cup
  [full : BOOLEAN, leaf : {"folder", "file", "absent", "absentFolder"}]

DirName(path) == IF path.full THEN "parent" ELSE "working"

BaseName(path) == IF path.leaf = "empty" THEN "none" ELSE "base"

Start(folder, name) == [folder |-> folder, name |-> name]

\* gtk_file_chooser_set_filename goes to the folder of the file, and selects
\* the file only if there is one.
SetFilename(path) ==
  Start(DirName(path), IF path.leaf = "file" THEN BaseName(path) ELSE "none")

GtkStart(path) ==
  CASE path.leaf = "empty" -> Start("default", "none")
    [] path.leaf = "folder" -> Start("itself", "none")
    [] OTHER -> SetFilename(path)

MacStart(path) ==
  CASE path.leaf = "empty" -> Start("default", "none")
    [] path.leaf = "folder" -> Start("itself", "none")
    [] OTHER -> Start(DirName(path), BaseName(path))

\* What is not there is a folder if it ends in a separator.
IsDirectory(path) == path.leaf \in {"folder", "absentFolder"}

\* The shell has no item for a folder that is not there, nor for one whose
\* path is not full.
SetDefaultFolder(path) ==
  IF ~path.full \/ path.leaf = "absentFolder" THEN "default"
  ELSE IF path.leaf = "folder" THEN "itself" ELSE DirName(path)

WinStart(path) ==
  Start(SetDefaultFolder(path), IF IsDirectory(path) THEN "none" ELSE BaseName(path))

-----------------------------------------------------------------------------

Wanted(mode) ==
  LET of(dir) == {e \in Entries : e.dir = dir /\ e.local} IN
  CASE mode \in {"Open", "Save"} -> {{}} \cup {{e} : e \in of(FALSE)}
    [] mode = "OpenMultiple" -> SUBSET of(FALSE)
    [] mode = "UploadFolder" -> {{}} \cup {{e} : e \in of(TRUE)}

\* Where the dialog starts on p is where it does on OS X, but that GTK leaves
\* out the name of what does not exist, and Windows the folder if it cannot
\* find it by the path alone, and the name of a missing folder.
StartsAsOnMac(p, path) ==
  LET start == IF p = "gtk" THEN GtkStart(path)
               ELSE IF p = "win" THEN WinStart(path) ELSE MacStart(path)
      lost  == path.leaf = "absentFolder"
  IN  /\ start.folder = IF p = "win" /\ (lost \/ ~path.full) THEN "default"
                        ELSE MacStart(path).folder
      /\ start.name = IF \/ p = "gtk" /\ (lost \/ path.leaf = "absent")
                         \/ p = "win" /\ lost
                      THEN "none" ELSE MacStart(path).name

\* The platforms on which a page may be given exactly what the mode it asked
\* for means: one file, any number of files, one folder, never something
\* without a path; and on which the dialog proposes the folder and the name of
\* OS X or, in the cases of StartsAsOnMac, none.
Fitting ==
  {p \in {"gtk", "win", "mac"} :
     /\ \A mode \in Modes : RunFileChooser(p, mode) = Wanted(mode)
     /\ \A path \in Paths : StartsAsOnMac(p, path)}
=============================================================================
