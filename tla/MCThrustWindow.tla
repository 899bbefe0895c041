--------------------------- MODULE MCThrustWindow ---------------------------
(* Two windows on either platform, and every method of their binding; the  *)
(* geometry over a small screen.                                           *)
EXTENDS WindowGeometry

AllMethods == NativeMethods \union ContentMethods
=============================================================================
