----------------------------- MODULE MCConnect -----------------------------
(***************************************************************************)
(* Connect for TLC. "api" is intercepted; "web" is not, but /etc/hosts     *)
(* still maps it to loopback; "dev" resolves to loopback publicly.         *)
(***************************************************************************)
EXTENDS Connect

MCAnswer == [h \in {"api", "web", "dev"} |->
  IF h = "dev" THEN <<[type |-> "A", ip |-> "loopback"]>>
  ELSE <<[type |-> "CNAME", ip |-> "alias"], [type |-> "A", ip |-> "remote"],
         [type |-> "A", ip |-> "loopback"]>>]
=============================================================================
