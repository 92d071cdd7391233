------------------------------- MODULE Tunnel -------------------------------
(***************************************************************************)
(* What a listener promises the client of a connection, in either mode:    *)
(* a tunnel is opened for a name; its client is told so only once the      *)
(* upstream is linked; it then carries an intercepted session exactly for  *)
(* the configured names and raw bytes for the others, and an intercepted   *)
(* session only after a certificate of the requested name was shown.       *)
(***************************************************************************)
CONSTANTS Conns, Hosts, Intercepted, None

VARIABLES
  phase,   \* conn -> "idle", "opening", "intercepted", "bridged" or "closed"
  target,  \* conn -> name the client asks for, None before it is known
  linked,  \* conn -> there is a connection to the upstream of target
  asks,    \* conn -> the client asks for the tunnel and waits to be told
  told,    \* conn -> the client was told that the tunnel stands
  shown    \* conn -> name on the certificate shown to the client, or None

vars == <<phase, target, linked, asks, told, shown>>

Init ==
  /\ phase  = [c \in Conns |-> "idle"]
  /\ target = [c \in Conns |-> None]
  /\ linked = [c \in Conns |-> FALSE]
  /\ asks   = [c \in Conns |-> FALSE]
  /\ told   = [c \in Conns |-> FALSE]
  /\ shown  = [c \in Conns |-> None]

Open(c) ==
  /\ phase[c] = "idle"
  /\ phase' = [phase EXCEPT ![c] = "opening"]
  /\ \E b \in BOOLEAN : asks' = [asks EXCEPT ![c] = b]
  /\ UNCHANGED <<target, linked, told, shown>>

Name(c, h) ==
  /\ phase[c] = "opening" /\ target[c] = None
  /\ target' = [target EXCEPT ![c] = h]
  /\ UNCHANGED <<phase, linked, asks, told, shown>>

Link(c) ==
  /\ phase[c] = "opening" /\ target[c] /= None /\ ~linked[c]
  /\ linked' = [linked EXCEPT ![c] = TRUE]
  /\ UNCHANGED <<phase, target, asks, told, shown>>

Tell(c) ==
  /\ phase[c] = "opening" /\ asks[c] /\ linked[c] /\ ~told[c]
  /\ told' = [told EXCEPT ![c] = TRUE]
  /\ UNCHANGED <<phase, target, linked, asks, shown>>

Show(c) ==
  /\ phase[c] = "opening" /\ target[c] \in Intercepted /\ shown[c] = None
  /\ shown' = [shown EXCEPT ![c] = target[c]]
  /\ UNCHANGED <<phase, target, linked, asks, told>>

\* Where no client waits to be told, the tunnel stands as soon as its link does.
Stand(c, p) ==
  /\ phase[c] = "opening"
  /\ asks[c] => linked[c] /\ told[c]
  /\ phase' = [phase EXCEPT ![c] = p]
  /\ linked' = [linked EXCEPT ![c] = TRUE]
  /\ UNCHANGED <<target, asks, told, shown>>

Intercept(c) == target[c] \in Intercepted /\ shown[c] = target[c] /\ Stand(c, "intercepted")

Bridge(c) == target[c] \in Hosts \ Intercepted /\ Stand(c, "bridged")

\* A tunnel may end in any phase, and its last link with it.
Close(c) ==
  /\ phase[c] \notin {"idle", "closed"}
  /\ phase' = [phase EXCEPT ![c] = "closed"]
  /\ UNCHANGED <<target, linked, asks, told, shown>>

Next == \E c \in Conns : \/ Open(c) \/ Link(c) \/ Tell(c) \/ Show(c)
                         \/ Intercept(c) \/ Bridge(c) \/ Close(c)
                         \/ \E h \in Hosts : Name(c, h)

Spec == Init /\ [][Next]_vars
=============================================================================
