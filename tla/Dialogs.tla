------------------------------ MODULE Dialogs ------------------------------
(***************************************************************************)
(* The dialogs that a page asks for: colour choosers, which outlive the    *)
(* request, and file choosers, which are modal.                            *)
(***************************************************************************)
EXTENDS ColorChoosers, FileDialogs

Toolkit == IF platform = "aura" THEN "gtk" ELSE platform

(* On the platform that runs, over every choice a user can make: the page  *)
(* gets what the mode it asked for means (RunFileChooser, in FileDialogs), *)
(* and the dialog proposes the folder and the name that the one of OS X    *)
(* does, but for what the toolkits do not show (StartsAsOnMac).            *)
FilesFitTheMode == Toolkit \in Fitting
=============================================================================
