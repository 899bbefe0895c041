----------------------- MODULE MCVisitedLinkListener -----------------------
(* Instances of VisitedLinkListener for TLC. *)
EXTENDS VisitedLinkListener

AllOperations == {"AddURL", "DeleteAllURLs", "DeleteURLs", "Rebuild"}
=============================================================================
