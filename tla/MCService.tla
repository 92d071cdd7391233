----------------------------- MODULE MCService -----------------------------
(* Service for TLC: one domain; foreign lines in /etc/hosts and, around a filter
   anchor, in pf.conf, one of them with a printf conversion. *)
EXTENDS Service

Plain(t)    == [tagged |-> FALSE, text |-> t, filter |-> FALSE]
MCDomains   == <<"api">>
MCHostsFile == <<Plain("localhost"), Plain("percent")>>
MCPfConf    == <<Plain("percent"), [tagged |-> FALSE, text |-> "anchor", filter |-> TRUE]>>
=============================================================================
