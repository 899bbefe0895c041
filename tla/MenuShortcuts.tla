--------------------------- MODULE MenuShortcuts ---------------------------
(***************************************************************************)
(* The menus with the accelerators that the client gives to their items.   *)
(***************************************************************************)
EXTENDS Menus, Accelerators

\* The menus that a client makes mean by an accelerator what its tokens say,
\* whatever their order (accelerator_util).
AcceleratorsAgree == workload = "menus" => OrderIsNothing /\ ShiftedIsShift
=============================================================================
