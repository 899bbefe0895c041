------------------------------ MODULE MCWebView ------------------------------
(* One element, two addresses and two guests one after the other. *)
EXTENDS WebViewElement
=============================================================================
