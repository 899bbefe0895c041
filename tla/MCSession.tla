----------------------------- MODULE MCSession -----------------------------
(* Instances of SessionServices for TLC: what is asked of a session in one *)
(* behaviour is one of these.                                              *)
EXTENDS SessionServices

MCWorkloads == {{"cookies"}, {"proxy"}, {"downloads"}}
ProxyWorkload == {{"proxy"}}
=============================================================================
