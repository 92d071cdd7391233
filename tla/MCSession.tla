----------------------------- MODULE MCSession -----------------------------
(* Session for TLC: the configurations fix the PII mode and the provider. *)
EXTENDS Session
=============================================================================
