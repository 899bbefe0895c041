------------------------------ MODULE MCMenus ------------------------------
(***************************************************************************)
(* Three menus of two items, two windows, a registrar that comes and goes; *)
(* and the accelerators of up to three tokens, with a function key whose   *)
(* code is that of no key and one beyond the last there is.                *)
(***************************************************************************)
EXTENDS MenuShortcuts

MCTokens ==
  {Char("a"), Char("1"), Char("!"), Char("?"), Named(VKEY_TAB),
   Modifier("control"), Modifier("cmdorctrl"), Modifier("shift"),
   Modifier("alt"), FunctionKey(-111), FunctionKey(99), Invalid}
=============================================================================
