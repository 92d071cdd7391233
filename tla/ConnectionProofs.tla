-------------------------- MODULE ConnectionProofs --------------------------
(***************************************************************************)
(* Proofs about what happens on one connection: how it is set up (Connect, *)
(* for any connections, names and answers of the resolver), and how the    *)
(* messages on it are found in its bytes (Framing, for any requests and    *)
(* responses that the handlers are written for).                           *)
(***************************************************************************)
EXTENDS Connect, Framing, SubsequenceProofs, FiniteSetTheorems

\* What the peek at a ClientHello finds, and where the task goes with it.
Peeked(c, h) ==
  /\ host' = [host EXCEPT ![c] = h]
  /\ pc' = [pc EXCEPT ![c] = IF h = None THEN "closed" ELSE IF is_intercepted(h) THEN "key" ELSE "resolve1"]

\* A connection without a usable hello keeps its unknown name and is closed.
LEMMA PeekedName ==
  ASSUME TypeOK, NEW c \in Conns, host[c] = None, handle_network(c)
  PROVE  \E h \in Hosts \cup {None} : Peeked(c, h)
  <1>1. CASE pc' = [pc EXCEPT ![c] = "closed"] /\ host' = host
    <2>1. host = [host EXCEPT ![c] = None]
      BY DEF TypeOK
    <2> QED
      BY <1>1, <2>1 DEF Peeked
  <1>2. CASE \E b \in HelloOf(c) : /\ host' = [host EXCEPT ![c] = peek_sni(b)]
                                   /\ pc' = [pc EXCEPT ![c] = IF peek_sni(b) = None THEN "closed"
                                              ELSE IF is_intercepted(peek_sni(b)) THEN "key" ELSE "resolve1"]
    <2>1. PICK b \in HelloOf(c) : Peeked(c, peek_sni(b))
      BY <1>2 DEF Peeked
    <2>2. \A x \in Conns : host[x] \in Hosts \cup {None}
      BY DEF TypeOK
    <2>3. peer[c] \in Conns \cup {Client}
      BY DEF TypeOK
    <2>4. b.sni \in Hosts \cup {None}
      BY <2>1, <2>2, <2>3 DEF HelloOf, Hellos
    <2> QED
      BY <2>1, <2>4 DEF peek_sni
  <1> QED
    BY <1>1, <1>2 DEF handle_network, Goto

\* Every step keeps the types; a name is known where a certificate is made for it.
LEMMA TypeStep == TypeOK /\ Progress /\ [Next]_vars => TypeOK'
  <1> SUFFICES ASSUME TypeOK, Progress, [Next]_vars PROVE TypeOK'
    OBVIOUS
  <1> USE HostAssumption DEF TypeOK, States, cacheVars
  <1>0. ASSUME NEW c \in Conns, NEW s \in States, Goto(c, s)
        PROVE  pc' \in [Conns -> States] /\ due' \in [Conns -> BOOLEAN]
    BY <1>0 DEF Goto
  <1>1. ASSUME NEW c \in Conns, run_connect(c) PROVE TypeOK'
    BY <1>0, <1>1 DEF run_connect, Accept, FirstState
  <1>2. ASSUME NEW c \in Conns, run_network(c) PROVE TypeOK'
    BY <1>0, <1>2 DEF run_network, Accept, FirstState
  <1>3. ASSUME NEW c \in Conns, ClientCloses(c) PROVE TypeOK'
    BY <1>3 DEF ClientCloses
  <1>4. ASSUME NEW c \in Conns, ReadLine(c) PROVE TypeOK'
    BY <1>0, <1>4 DEF ReadLine
  <1>5. ASSUME NEW c \in Conns, DrainHeader(c) \/ HeadersEnd(c) PROVE TypeOK'
    BY <1>0, <1>5 DEF DrainHeader, HeadersEnd
  <1>6. ASSUME NEW c \in Conns, handle_connect(c) PROVE TypeOK'
    BY <1>0, <1>6 DEF handle_connect
  <1>7. ASSUME NEW c \in Conns, handle_network(c) PROVE TypeOK'
    <2>0. host[c] = None
      BY <1>7 DEF handle_network, Progress, Placed
    <2>1. PICK h \in Hosts \cup {None} : Peeked(c, h)
      BY <1>7, <2>0, PeekedName
    <2> QED
      BY <1>0, <1>7, <2>1 DEF Peeked, handle_network
  <1>8. ASSUME NEW c \in Conns, resolve_bypass_hosts(c) PROVE TypeOK'
    BY <1>0, <1>8 DEF resolve_bypass_hosts
  <1>9. ASSUME NEW c \in Conns, ConnectUpstream(c) PROVE TypeOK'
    BY <1>0, <1>9 DEF ConnectUpstream, Connected
  <1>10. ASSUME NEW c \in Conns, ConnectSelf(c) PROVE TypeOK'
    BY <1>0, <1>10 DEF ConnectSelf, Connected
  <1>11. ASSUME NEW c \in Conns, UpstreamTls(c) PROVE TypeOK'
    BY <1>0, <1>11 DEF UpstreamTls
  <1>12. ASSUME NEW c \in Conns, UpstreamFails(c) PROVE TypeOK'
    BY <1>0, <1>12 DEF UpstreamFails
  <1>13. ASSUME NEW c \in Conns, Timeout(c) \/ Tick(c) PROVE TypeOK'
    BY <1>0, <1>13 DEF Timeout, Tick, Timed
  <1>14. ASSUME NEW c \in Conns, Reply(c) PROVE TypeOK'
    BY <1>0, <1>14 DEF Reply
  <1>15. ASSUME NEW c \in Conns, AfterReply(c) PROVE TypeOK'
    BY <1>0, <1>15 DEF AfterReply
  <1>16. ASSUME NEW c \in Conns, get_or_create(c) PROVE TypeOK'
    BY <1>0, <1>16 DEF get_or_create, Present, Progress, Placed, Opened, Shown
  <1>17. ASSUME NEW c \in Conns, get_or_create_key_inner(c) PROVE TypeOK'
    BY <1>0, <1>17 DEF get_or_create_key_inner, Present, AfterKey, Progress, Placed, Opened, Shown
  <1>18. ASSUME NEW c \in Conns, build_certified_key(c) PROVE TypeOK'
    BY <1>0, <1>18 DEF build_certified_key, Present, AfterKey, Release, Progress, Placed, Opened, Shown
  <1>19. ASSUME NEW c \in Conns, BuildFails(c) PROVE TypeOK'
    BY <1>0, <1>19 DEF BuildFails, Release
  <1>20. ASSUME NEW c \in Conns, InstallAcceptor(c) PROVE TypeOK'
    BY <1>0, <1>20 DEF InstallAcceptor, Release, Progress, Placed, Opened, Shown
  <1>21. ASSUME NEW c \in Conns, AcceptTls(c) PROVE TypeOK'
    BY <1>0, <1>21 DEF AcceptTls
  <1>22. ASSUME NEW c \in Conns, TunnelEnds(c) PROVE TypeOK'
    BY <1>0, <1>22 DEF TunnelEnds
  <1>23. CASE UNCHANGED vars
    BY <1>23, SMTT(30) DEF vars
  <1> QED
    BY <1>1, <1>2, <1>3, <1>4, <1>5, <1>6, <1>7, <1>8, <1>9, <1>10, <1>11, <1>12, <1>13, <1>14,
       <1>15, <1>16, <1>17, <1>18, <1>19, <1>20, <1>21, <1>22, <1>23 DEF Next, OwnStep,
       Finished

\* Every step keeps what the places of the tasks say of their connections.
LEMMA ProgressStep == TypeOK /\ Progress /\ [Next]_vars => Progress'
  <1> SUFFICES ASSUME TypeOK, Progress, [Next]_vars, NEW d \in Conns PROVE Placed(d)'
    BY DEF Progress
  <1>0. Placed(d) /\ \A c \in Conns : Placed(c)
    BY DEF Progress
    <1> USE HostAssumption DEF TypeOK, Goto, States, cacheVars, Placed, Silent, Opened, Shown, Stands,
     is_intercepted
  <1>1. ASSUME NEW c \in Conns, run_connect(c) PROVE Placed(d)'
    BY <1>0, <1>1 DEF run_connect, Accept, FirstState
  <1>2. ASSUME NEW c \in Conns, run_network(c) PROVE Placed(d)'
    BY <1>0, <1>2 DEF run_network, Accept, FirstState
  <1>3. ASSUME NEW c \in Conns, ClientCloses(c) PROVE Placed(d)'
    BY <1>0, <1>3 DEF ClientCloses
  <1>4. ASSUME NEW c \in Conns, ReadLine(c) PROVE Placed(d)'
    BY <1>0, <1>4 DEF ReadLine
  <1>5. ASSUME NEW c \in Conns, DrainHeader(c) \/ HeadersEnd(c) PROVE Placed(d)'
    BY <1>0, <1>5 DEF DrainHeader, HeadersEnd
  <1>6. ASSUME NEW c \in Conns, handle_connect(c) PROVE Placed(d)'
    BY <1>0, <1>6 DEF handle_connect
  <1>7. ASSUME NEW c \in Conns, handle_network(c) PROVE Placed(d)'
    <2>0. host[c] = None
      BY <1>0, <1>7 DEF handle_network
    <2>1. PICK h \in Hosts \cup {None} : Peeked(c, h)
      BY <1>7, <2>0, PeekedName
    <2>2. mode[c] = "network" /\ link[c] = "none" /\ ~told[c] /\ presented[c] = None
      BY <1>0, <1>7 DEF handle_network
    <2> QED
      BY <1>0, <1>7, <2>1, <2>2 DEF Peeked, handle_network
  <1>8. ASSUME NEW c \in Conns, resolve_bypass_hosts(c) PROVE Placed(d)'
    BY <1>0, <1>8 DEF resolve_bypass_hosts
  <1>9. ASSUME NEW c \in Conns, ConnectUpstream(c) PROVE Placed(d)'
    BY <1>0, <1>9 DEF ConnectUpstream, Connected
  <1>10. ASSUME NEW c \in Conns, ConnectSelf(c) PROVE Placed(d)'
    BY <1>0, <1>10 DEF ConnectSelf, Connected
  <1>11. ASSUME NEW c \in Conns, UpstreamTls(c) PROVE Placed(d)'
    BY <1>0, <1>11 DEF UpstreamTls
  <1>12. ASSUME NEW c \in Conns, UpstreamFails(c) PROVE Placed(d)'
    BY <1>0, <1>12 DEF UpstreamFails
  <1>13. ASSUME NEW c \in Conns, Timeout(c) \/ Tick(c) PROVE Placed(d)'
    BY <1>0, <1>13 DEF Timeout, Tick, Timed, TimedStates
  <1>14. ASSUME NEW c \in Conns, Reply(c) PROVE Placed(d)'
    BY <1>0, <1>14 DEF Reply
  <1>15. ASSUME NEW c \in Conns, AfterReply(c) PROVE Placed(d)'
    BY <1>0, <1>15 DEF AfterReply
  <1>16. ASSUME NEW c \in Conns, get_or_create(c) PROVE Placed(d)'
    BY <1>0, <1>16 DEF get_or_create, Present
  <1>17. ASSUME NEW c \in Conns, get_or_create_key_inner(c) PROVE Placed(d)'
    BY <1>0, <1>17 DEF get_or_create_key_inner, Present, AfterKey
  <1>18. ASSUME NEW c \in Conns, build_certified_key(c) PROVE Placed(d)'
    BY <1>0, <1>18 DEF build_certified_key, Present, AfterKey, Release
  <1>19. ASSUME NEW c \in Conns, BuildFails(c) PROVE Placed(d)'
    BY <1>0, <1>19 DEF BuildFails, Release
  <1>20. ASSUME NEW c \in Conns, InstallAcceptor(c) PROVE Placed(d)'
    BY <1>0, <1>20 DEF InstallAcceptor, Release
  <1>21. ASSUME NEW c \in Conns, AcceptTls(c) PROVE Placed(d)'
    BY <1>0, <1>21 DEF AcceptTls
  <1>22. ASSUME NEW c \in Conns, TunnelEnds(c) PROVE Placed(d)'
    BY <1>0, <1>22 DEF TunnelEnds
  <1>23. CASE UNCHANGED vars
    BY <1>0, <1>23 DEF vars
  <1> QED
    BY <1>1, <1>2, <1>3, <1>4, <1>5, <1>6, <1>7, <1>8, <1>9, <1>10, <1>11, <1>12, <1>13, <1>14,
       <1>15, <1>16, <1>17, <1>18, <1>19, <1>20, <1>21, <1>22, <1>23 DEF Next, OwnStep,
       Finished

\* Every step keeps the two caches in agreement: the key of a name is built once, under key_lock.
LEMMA KeysStep == ConnectInv /\ [Next]_vars => BuildsLocked' /\ KeysAgree'
  <1> SUFFICES ASSUME ConnectInv, [Next]_vars PROVE BuildsLocked' /\ KeysAgree'
    OBVIOUS
  <1>0. TypeOK /\ Progress /\ BuildsLocked /\ KeysAgree
    BY DEF ConnectInv
  <1> USE <1>0, HostAssumption DEF TypeOK, Goto, States, cacheVars, BuildsLocked, KeysAgree
  <1>1. ASSUME NEW c \in Conns, run_connect(c) PROVE BuildsLocked' /\ KeysAgree'
    BY <1>1 DEF run_connect, Accept, FirstState
  <1>2. ASSUME NEW c \in Conns, run_network(c) PROVE BuildsLocked' /\ KeysAgree'
    BY <1>2 DEF run_network, Accept, FirstState
  <1>3. ASSUME NEW c \in Conns, ClientCloses(c) PROVE BuildsLocked' /\ KeysAgree'
    BY <1>3 DEF ClientCloses
  <1>4. ASSUME NEW c \in Conns, ReadLine(c) PROVE BuildsLocked' /\ KeysAgree'
    BY <1>4 DEF ReadLine, Progress, Placed, Opened, Shown
  <1>5. ASSUME NEW c \in Conns, DrainHeader(c) \/ HeadersEnd(c) PROVE BuildsLocked' /\ KeysAgree'
    BY <1>5 DEF DrainHeader, HeadersEnd
  <1>6. ASSUME NEW c \in Conns, handle_connect(c) PROVE BuildsLocked' /\ KeysAgree'
    BY <1>6 DEF handle_connect
  <1>7. ASSUME NEW c \in Conns, handle_network(c) PROVE BuildsLocked' /\ KeysAgree'
    BY <1>7 DEF handle_network, Progress, Placed, Opened, Shown
  <1>8. ASSUME NEW c \in Conns, resolve_bypass_hosts(c) PROVE BuildsLocked' /\ KeysAgree'
    BY <1>8 DEF resolve_bypass_hosts
  <1>9. ASSUME NEW c \in Conns, ConnectUpstream(c) PROVE BuildsLocked' /\ KeysAgree'
    BY <1>9 DEF ConnectUpstream, Connected
  <1>10. ASSUME NEW c \in Conns, ConnectSelf(c) PROVE BuildsLocked' /\ KeysAgree'
    BY <1>10 DEF ConnectSelf, Connected
  <1>11. ASSUME NEW c \in Conns, UpstreamTls(c) PROVE BuildsLocked' /\ KeysAgree'
    BY <1>11 DEF UpstreamTls
  <1>12. ASSUME NEW c \in Conns, UpstreamFails(c) PROVE BuildsLocked' /\ KeysAgree'
    BY <1>12 DEF UpstreamFails
  <1>13. ASSUME NEW c \in Conns, Timeout(c) \/ Tick(c) PROVE BuildsLocked' /\ KeysAgree'
    BY <1>13 DEF Timeout, Tick, Timed, TimedStates
  <1>14. ASSUME NEW c \in Conns, Reply(c) PROVE BuildsLocked' /\ KeysAgree'
    BY <1>14 DEF Reply
  <1>15. ASSUME NEW c \in Conns, AfterReply(c) PROVE BuildsLocked' /\ KeysAgree'
    BY <1>15 DEF AfterReply
  <1>16. ASSUME NEW c \in Conns, get_or_create(c) PROVE BuildsLocked' /\ KeysAgree'
    BY <1>16 DEF get_or_create, Present, Progress, Placed, Opened, Shown
  <1>17. ASSUME NEW c \in Conns, get_or_create_key_inner(c) PROVE BuildsLocked' /\ KeysAgree'
    BY <1>17 DEF get_or_create_key_inner, Present, AfterKey, Progress, Placed, Opened, Shown
  <1>18. ASSUME NEW c \in Conns, build_certified_key(c) PROVE BuildsLocked' /\ KeysAgree'
    BY <1>18 DEF build_certified_key, Present, AfterKey, Release, Progress, Placed, Opened, Shown
  <1>19. ASSUME NEW c \in Conns, BuildFails(c) PROVE BuildsLocked' /\ KeysAgree'
    BY <1>19 DEF BuildFails, Release
  <1>20. ASSUME NEW c \in Conns, InstallAcceptor(c) PROVE BuildsLocked' /\ KeysAgree'
    BY <1>20 DEF InstallAcceptor, Release, Progress, Placed, Opened, Shown
  <1>21. ASSUME NEW c \in Conns, AcceptTls(c) PROVE BuildsLocked' /\ KeysAgree'
    BY <1>21 DEF AcceptTls
  <1>22. ASSUME NEW c \in Conns, TunnelEnds(c) PROVE BuildsLocked' /\ KeysAgree'
    BY <1>22 DEF TunnelEnds
  <1>23. CASE UNCHANGED vars
    BY <1>23 DEF vars
  <1> QED
    BY <1>1, <1>2, <1>3, <1>4, <1>5, <1>6, <1>7, <1>8, <1>9, <1>10, <1>11, <1>12, <1>13, <1>14,
       <1>15, <1>16, <1>17, <1>18, <1>19, <1>20, <1>21, <1>22, <1>23 DEF Next, OwnStep,
       Finished

\* The inductive invariant holds in every reachable state.
THEOREM ConnectInvariant == Spec => []ConnectInv
  <1>1. Init => ConnectInv
    BY HostAssumption
    DEF Init, ConnectInv, TypeOK, States, Progress, Placed, Silent, Opened, Shown, Stands, BuildsLocked, KeysAgree
  <1>2. ConnectInv /\ [Next]_vars => ConnectInv'
    BY TypeStep, ProgressStep, KeysStep DEF ConnectInv
  <1> QED
    BY <1>1, <1>2, PTL DEF Spec

\* Two connections for one name are shown the same certificate, whatever listener took them:
\* CertCache keeps key_lock from the miss to the insert of a key.
THEOREM OneKeyPerHostHolds == Spec => []OneKeyPerHost
  <1>1. ConnectInv => OneKeyPerHost
    BY DEF ConnectInv, KeysAgree, OneKeyPerHost
  <1> QED
    BY <1>1, ConnectInvariant, PTL

-----------------------------------------------------------------------------
(* Connect implements Tunnel. The lemmas say which step of Tunnel a change of pc is. *)

\* A task goes from one place to another.
Moves(c, s) == pc[c] /= "idle" /\ s /= "idle" /\ pc' = [pc EXCEPT ![c] = s] /\ mode' = mode

\* A move changes the phase of its connection alone, and no client starts or stops asking.
LEMMA MoveMapped ==
  ASSUME TypeOK, NEW c \in Conns, NEW s, Moves(c, s)
  PROVE  phase' = [phase EXCEPT ![c] = PhaseOf(s)] /\ asks' = asks
  BY DEF TypeOK, Moves, phase, asks

\* A move between two places of the set-up changes no phase.
LEMMA OpeningStays ==
  ASSUME TypeOK, NEW c \in Conns, NEW s, Moves(c, s), PhaseOf(s) = "opening", PhaseOf(pc[c]) = "opening"
  PROVE  phase[c] = "opening" /\ phase' = phase /\ asks' = asks
  <1>1. phase[c] = "opening" /\ phase = [phase EXCEPT ![c] = "opening"]
    BY DEF phase
  <1> QED
    BY <1>1, MoveMapped

\* A place of the same phase, and nothing else that Tunnel sees: a stuttering step.
LEMMA Stutters ==
  ASSUME TypeOK, NEW c \in Conns, NEW s, Moves(c, s), PhaseOf(s) = PhaseOf(pc[c]),
         UNCHANGED <<host, link, told, presented>>
  PROVE  UNCHANGED Abstract!vars
  <1>1. phase' = phase
    BY MoveMapped DEF phase
  <1>2. linked' = linked /\ shown' = shown
    BY DEF linked, shown, Stands
  <1> QED
    BY <1>1, <1>2, MoveMapped DEF Abstract!vars

\* The end of a task in any place is Close.
LEMMA Closes ==
  ASSUME TypeOK, NEW c \in Conns, Moves(c, "closed"), pc[c] /= "closed",
         UNCHANGED <<host, link, told, presented>>
  PROVE  Abstract!Next
  <1>1. phase' = [phase EXCEPT ![c] = "closed"] /\ asks' = asks
    BY MoveMapped DEF PhaseOf
  <1>2. phase[c] \notin {"idle", "closed"}
    BY DEF phase, PhaseOf, Moves, TypeOK, States
  <1>3. linked' = linked /\ shown' = shown
    BY DEF linked, shown, Stands
  <1> QED
    BY <1>1, <1>2, <1>3 DEF Abstract!Next, Abstract!Close

\* A name that becomes known is Name.
LEMMA Names ==
  ASSUME TypeOK, Progress, NEW c \in Conns, NEW s, Moves(c, s), pc[c] \in {"line", "peek"},
         PhaseOf(s) = "opening", NEW h \in Hosts, host' = [host EXCEPT ![c] = h],
         UNCHANGED <<link, told, presented>>
  PROVE  Abstract!Next
  <1>0. PhaseOf(pc[c]) = "opening" /\ PhaseOf(s) = "opening"
    BY DEF PhaseOf
  <1>1. phase[c] = "opening" /\ phase' = phase /\ asks' = asks
    BY <1>0, OpeningStays
  <1>2. host[c] = None /\ link[c] = "none"
    BY DEF Progress, Placed
  <1>3. linked' = linked /\ shown' = shown
    BY <1>2 DEF linked, shown, Stands, TypeOK
  <1> QED
    BY <1>1, <1>2, <1>3 DEF Abstract!Next, Abstract!Name

\* A certificate that is shown is Show.
LEMMA Shows ==
  ASSUME TypeOK, Progress, NEW c \in Conns, NEW s \in {"install", "ctls"}, Moves(c, s),
         pc[c] \in {"acceptor", "key", "build"}, NEW k, Present(c, k), UNCHANGED <<host, link, told>>,
         k \in Nat
  PROVE  Abstract!Next
  <1>0. PhaseOf(pc[c]) = "opening" /\ PhaseOf(s) = "opening"
    BY DEF PhaseOf
  <1>1. phase[c] = "opening" /\ phase' = phase /\ asks' = asks
    BY <1>0, OpeningStays
  <1>2. host[c] \in Intercepted /\ presented[c] = None
    BY DEF Progress, Placed, Opened
  <1>3. shown[c] = None /\ shown' = [shown EXCEPT ![c] = host[c]]
    <2>1. [host |-> host[c], key |-> k] /= None
      BY <1>2, HostAssumption
    <2>2. presented'[c].host = host[c] /\ presented'[c] /= None
      BY <2>1 DEF Present, TypeOK
    <2>3. \A d \in Conns : d /= c => presented'[d] = presented[d]
      BY DEF Present, TypeOK
    <2> QED
      BY <1>2, <2>2, <2>3 DEF shown, ShownOf
  <1>4. linked' = linked
    BY DEF linked, Stands
  <1> QED
    BY <1>1, <1>2, <1>3, <1>4 DEF Abstract!Next, Abstract!Show

\* An upstream connection is no step yet for a name that is intercepted, it is Link where a client
\* waits for the answer, and Bridge in transparent mode.
LEMMA Connects ==
  ASSUME TypeOK, Progress, NEW c \in Conns, pc[c] = "tcp", Moves(c, Connected(c)),
         link' = [link EXCEPT ![c] = "tcp"], UNCHANGED <<host, told, presented>>
  PROVE  Abstract!Next \/ UNCHANGED Abstract!vars
  <1>0. host[c] \in Hosts /\ link[c] = "none" /\ ~told[c]
    BY DEF Progress, Placed
  <1>1. phase[c] = "opening" /\ phase' = [phase EXCEPT ![c] = PhaseOf(Connected(c))] /\ asks' = asks
    BY MoveMapped DEF phase, PhaseOf
  <1>2. shown' = shown
    BY DEF shown
  <1>3. linked[c] = FALSE /\ linked' = [linked EXCEPT ![c] = ~is_intercepted(host[c])]
    BY <1>0 DEF linked, Stands, TypeOK
  <1>4. CASE is_intercepted(host[c])
    <2>1. phase' = phase /\ linked' = linked
      BY <1>1, <1>3, <1>4 DEF phase, linked, Connected, PhaseOf
    <2> QED
      BY <1>1, <1>2, <2>1 DEF Abstract!vars
  <1>5. CASE ~is_intercepted(host[c]) /\ mode[c] = "connect"
    <2>1. phase' = phase
      BY <1>1, <1>5 DEF phase, Connected, PhaseOf
    <2> QED
      BY <1>0, <1>1, <1>2, <1>3, <1>5, <2>1, HostAssumption DEF Abstract!Next, Abstract!Link
  <1>6. CASE ~is_intercepted(host[c]) /\ mode[c] = "network"
    <2>1. phase' = [phase EXCEPT ![c] = "bridged"] /\ asks[c] = FALSE
      BY <1>1, <1>6 DEF Connected, PhaseOf, asks
    <2> QED
      BY <1>0, <1>1, <1>2, <1>3, <1>6, <2>1
      DEF Abstract!Next, Abstract!Bridge, Abstract!Stand, is_intercepted
  <1> QED
    BY <1>4, <1>5, <1>6 DEF TypeOK

\* An accepted connection is Open: the client of a CONNECT waits to be told.
LEMMA Opens ==
  ASSUME TypeOK, Progress, NEW c \in Conns, NEW m \in {"connect", "network"}, NEW p, Accept(c, m, p)
  PROVE  Abstract!Next
  <1> USE DEF Accept, Goto, TypeOK
  <1>1. phase[c] = "idle" /\ phase' = [phase EXCEPT ![c] = "opening"]
    BY DEF phase, PhaseOf, FirstState
  <1>2. asks' = [asks EXCEPT ![c] = (m = "connect")]
    BY DEF asks, FirstState
  <1>3. UNCHANGED <<host, linked, told, shown>>
    BY DEF linked, shown, Stands
  <1>4. (m = "connect") \in BOOLEAN
    OBVIOUS
  <1>5. \E b \in BOOLEAN : asks' = [asks EXCEPT ![c] = b]
    BY <1>2, <1>4, Zenon
  <1>6. Abstract!Open(c)
    BY <1>1, <1>3, <1>5 DEF Abstract!Open
  <1> QED
    BY <1>6 DEF Abstract!Next

\* Once its link stands and its client was told, a session or a copy begins: Intercept or Bridge.
LEMMA Begins ==
  ASSUME TypeOK, Progress, NEW c \in Conns, NEW s \in {"session", "bridge"}, Moves(c, s),
         PhaseOf(pc[c]) = "opening", host[c] \in Hosts, link' = [link EXCEPT ![c] = link'[c]],
         Stands(c)', mode[c] = "connect" => Stands(c) /\ told[c],
         s = "session" => is_intercepted(host[c]) /\ Shown(c),
         s = "bridge" => ~is_intercepted(host[c]), UNCHANGED <<host, told, presented>>
  PROVE  Abstract!Next
  <1>1. phase[c] = "opening" /\ phase' = [phase EXCEPT ![c] = PhaseOf(s)] /\ asks' = asks
    BY MoveMapped DEF phase
  <1>2. shown' = shown
    BY DEF shown
  <1>3. linked' = [linked EXCEPT ![c] = TRUE]
    <2>1. \A d \in Conns : d /= c => link'[d] = link[d]
      BY DEF TypeOK
    <2> QED
      BY <2>1 DEF linked, Stands
  <1>4. asks[c] => linked[c] /\ told[c]
    BY DEF asks, linked
  <1>5. CASE s = "session"
    <2>1. PhaseOf(s) = "intercepted"
      BY <1>5 DEF PhaseOf
    <2>2. shown[c] = host[c] /\ host[c] \in Intercepted
      BY <1>5 DEF shown, ShownOf, Shown, is_intercepted
    <2>3. Abstract!Intercept(c)
      BY <1>1, <1>2, <1>3, <1>4, <2>1, <2>2 DEF Abstract!Intercept, Abstract!Stand
    <2> QED
      BY <2>3 DEF Abstract!Next
  <1>6. CASE s = "bridge"
    <2>1. PhaseOf(s) = "bridged"
      BY <1>6 DEF PhaseOf
    <2>2. Abstract!Bridge(c)
      BY <1>1, <1>2, <1>3, <1>4, <1>6, <2>1 DEF Abstract!Bridge, Abstract!Stand, is_intercepted
    <2> QED
      BY <2>2 DEF Abstract!Next
  <1> QED
    BY <1>5, <1>6

\* Every step of a listener's task is a step of Tunnel or invisible to it.
LEMMA TunnelStep == ConnectInv /\ [Next]_vars => [Abstract!Next]_(Abstract!vars)
  <1> DEFINE Mapped == Abstract!Next \/ UNCHANGED Abstract!vars
  <1> SUFFICES ASSUME ConnectInv, [Next]_vars PROVE Mapped
    OBVIOUS
  <1>0. TypeOK /\ Progress
    BY DEF ConnectInv
  <1> USE <1>0
  <1>1. ASSUME NEW c \in Conns, run_connect(c) PROVE Mapped
    BY <1>1, Opens DEF run_connect
  <1>2. ASSUME NEW c \in Conns, run_network(c) PROVE Mapped
    BY <1>2, Opens DEF run_network
  <1>3. ASSUME NEW c \in Conns, ClientCloses(c) \/ Tick(c) PROVE Mapped
    BY <1>3 DEF ClientCloses, Tick, Abstract!vars, phase, linked, asks, shown, Stands
  <1>4. ASSUME NEW c \in Conns, ReadLine(c) PROVE Mapped
    <2>1. pc[c] = "line" /\ PhaseOf("headers") = "opening" /\ PhaseOf(pc[c]) = "opening"
      BY <1>4 DEF ReadLine, PhaseOf
    <2>2. mode' = mode /\ UNCHANGED <<link, told, presented>>
      BY <1>4 DEF ReadLine
    <2>3. CASE host' = host /\ Goto(c, "closed")
      <3>1. Moves(c, "closed")
        BY <2>1, <2>2, <2>3 DEF Moves, Goto
      <3> QED
        BY <2>1, <2>2, <2>3, <3>1, Closes
    <2>4. CASE (\E h \in Hosts \cup {None} : host' = [host EXCEPT ![c] = h]) /\ Goto(c, "headers")
      <3>1. PICK h \in Hosts \cup {None} : host' = [host EXCEPT ![c] = h]
        BY <2>4
      <3>2. Moves(c, "headers")
        BY <2>1, <2>2, <2>4 DEF Moves, Goto
      <3>3. CASE h \in Hosts
        BY <2>1, <2>2, <3>1, <3>2, <3>3, Names
      <3>4. CASE h = None
        <4>1. host' = host
          BY <2>1, <3>1, <3>4 DEF Progress, Placed, TypeOK
        <4> QED
          BY <2>1, <2>2, <3>2, <4>1, Stutters
      <3> QED
        BY <3>3, <3>4
    <2> QED
      BY <1>4, <2>3, <2>4 DEF ReadLine
  <1>5. ASSUME NEW c \in Conns, DrainHeader(c) \/ HeadersEnd(c) PROVE Mapped
    <2>1. PICK s \in {"headers", "dispatch", "closed"} : Moves(c, s)
      BY <1>5 DEF DrainHeader, HeadersEnd, Moves, Goto
    <2>2. pc[c] = "headers" /\ UNCHANGED <<host, link, told, presented>>
      BY <1>5 DEF DrainHeader, HeadersEnd
    <2>3. s /= "closed" => PhaseOf(s) = PhaseOf(pc[c])
      BY <2>2 DEF PhaseOf
    <2> QED
      BY <2>1, <2>2, <2>3, Stutters, Closes
  <1>6. ASSUME NEW c \in Conns, handle_connect(c) PROVE Mapped
    <2>1. PICK s \in {"closed", "resolve1", "tcp"} : Moves(c, s)
      BY <1>6 DEF handle_connect, Moves, Goto
    <2>2. pc[c] = "dispatch" /\ UNCHANGED <<host, link, told, presented>>
      BY <1>6 DEF handle_connect
    <2>3. s /= "closed" => PhaseOf(s) = PhaseOf(pc[c])
      BY <2>2 DEF PhaseOf
    <2> QED
      BY <2>1, <2>2, <2>3, Stutters, Closes
  <1>7. ASSUME NEW c \in Conns, handle_network(c) PROVE Mapped
    <2>1. pc[c] = "peek" /\ mode' = mode /\ UNCHANGED <<link, told, presented>>
      BY <1>7 DEF handle_network
    <2>2. host[c] = None
      BY <2>1 DEF Progress, Placed
    <2>3. PICK h \in Hosts \cup {None} : Peeked(c, h)
      BY <1>7, <2>2, PeekedName
    <2>4. CASE h = None
      <3>1. host' = host
        BY <2>2, <2>3, <2>4 DEF Peeked, TypeOK
      <3>2. Moves(c, "closed")
        BY <2>1, <2>3, <2>4 DEF Peeked, Moves
      <3> QED
        BY <2>1, <3>1, <3>2, Closes
    <2>5. CASE h /= None
      <3>1. PICK s \in {"key", "resolve1"} : Moves(c, s)
        BY <2>1, <2>3, <2>5 DEF Peeked, Moves
      <3>2. PhaseOf(s) = "opening"
        BY DEF PhaseOf
      <3>3. h \in Hosts /\ host' = [host EXCEPT ![c] = h]
        BY <2>3, <2>5 DEF Peeked
      <3> QED
        BY <2>1, <3>1, <3>2, <3>3, Names
    <2> QED
      BY <2>4, <2>5
  <1>8. ASSUME NEW c \in Conns, resolve_bypass_hosts(c) PROVE Mapped
    <2>1. PICK s \in {"closed", "resolve2", "tcp"} : Moves(c, s)
      BY <1>8 DEF resolve_bypass_hosts, Moves, Goto
    <2>2. pc[c] \in {"resolve1", "resolve2"} /\ UNCHANGED <<host, link, told, presented>>
      BY <1>8 DEF resolve_bypass_hosts
    <2>3. s /= "closed" => PhaseOf(s) = PhaseOf(pc[c])
      BY <2>2 DEF PhaseOf
    <2> QED
      BY <2>1, <2>2, <2>3, Stutters, Closes
  <1>9. ASSUME NEW c \in Conns, ConnectUpstream(c) \/ ConnectSelf(c) PROVE Mapped
    <2>1. Moves(c, Connected(c))
      BY <1>9 DEF ConnectUpstream, ConnectSelf, Moves, Goto, Connected
    <2> QED
      BY <1>9, <2>1, Connects DEF ConnectUpstream, ConnectSelf
  <1>10. ASSUME NEW c \in Conns, UpstreamTls(c) PROVE Mapped
    <2>1. pc[c] = "utls" /\ link' = [link EXCEPT ![c] = "tls"] /\ UNCHANGED <<host, told, presented>>
      BY <1>10 DEF UpstreamTls
    <2>2. host[c] \in Hosts /\ is_intercepted(host[c]) /\ link[c] = "tcp" /\ PhaseOf(pc[c]) = "opening"
      BY <2>1 DEF Progress, Placed, PhaseOf
    <2>3. link'[c] = "tls" /\ Stands(c)' /\ ~Stands(c)
      BY <2>1, <2>2 DEF TypeOK, Stands
    <2>4. CASE mode[c] = "connect"
      <3>1. Moves(c, "reply") /\ PhaseOf("reply") = "opening"
        BY <1>10, <2>1, <2>4 DEF UpstreamTls, Goto, Moves, PhaseOf
      <3>2. phase[c] = "opening" /\ phase' = phase /\ asks' = asks
        BY <2>2, <3>1, OpeningStays
      <3>3. ~linked[c] /\ linked' = [linked EXCEPT ![c] = TRUE] /\ shown' = shown
        BY <2>1, <2>3 DEF linked, Stands, shown, TypeOK
      <3>4. host[c] /= None
        BY <2>2, HostAssumption
      <3>5. Abstract!Link(c)
        BY <2>1, <3>2, <3>3, <3>4 DEF Abstract!Link
      <3> QED
        BY <3>5 DEF Abstract!Next
    <2>5. CASE mode[c] = "network"
      <3>1. Moves(c, "session") /\ Shown(c)
        BY <1>10, <2>1, <2>2, <2>5 DEF UpstreamTls, Goto, Moves, Progress, Placed
      <3> QED
        BY <2>1, <2>2, <2>3, <2>5, <3>1, Begins
    <2> QED
      BY <2>4, <2>5 DEF TypeOK
  <1>11. ASSUME NEW c \in Conns, UpstreamFails(c) \/ Timeout(c) \/ BuildFails(c) \/ TunnelEnds(c) PROVE Mapped
    <2>1. Moves(c, "closed") /\ pc[c] /= "closed" /\ UNCHANGED <<host, link, told, presented>>
      BY <1>11 DEF UpstreamFails, Timeout, Timed, TimedStates, BuildFails, TunnelEnds, Moves, Goto
    <2> QED
      BY <2>1, Closes
  <1>12. ASSUME NEW c \in Conns, Reply(c) PROVE Mapped
    <2>1. pc[c] = "reply" /\ mode' = mode /\ UNCHANGED <<host, link, presented>>
      BY <1>12 DEF Reply
    <2>2. Stands(c) /\ ~told[c] /\ mode[c] = "connect" /\ PhaseOf(pc[c]) = "opening"
      BY <2>1 DEF Progress, Placed, Silent, PhaseOf
    <2>3. CASE told' = [told EXCEPT ![c] = TRUE] /\ Goto(c, "told")
      <3>1. Moves(c, "told") /\ PhaseOf("told") = "opening"
        BY <2>1, <2>3 DEF Goto, Moves, PhaseOf
      <3>2. phase[c] = "opening" /\ phase' = phase /\ asks' = asks
        BY <2>2, <3>1, OpeningStays
      <3>3. asks[c] /\ linked[c] /\ linked' = linked /\ shown' = shown
        BY <2>1, <2>2 DEF asks, linked, Stands, shown
      <3>4. Abstract!Tell(c)
        BY <2>1, <2>2, <2>3, <3>2, <3>3 DEF Abstract!Tell
      <3> QED
        BY <3>4 DEF Abstract!Next
    <2>4. CASE told' = told /\ Goto(c, "closed")
      <3>1. Moves(c, "closed")
        BY <2>1, <2>4 DEF Goto, Moves
      <3> QED
        BY <2>1, <2>4, <3>1, Closes
    <2> QED
      BY <1>12, <2>3, <2>4 DEF Reply
  <1>13. ASSUME NEW c \in Conns, AfterReply(c) PROVE Mapped
    <2>1. pc[c] = "told" /\ mode' = mode /\ UNCHANGED <<host, link, told, presented>>
      BY <1>13 DEF AfterReply
    <2>2. host[c] \in Hosts /\ Stands(c) /\ told[c] /\ PhaseOf(pc[c]) = "opening"
      BY <2>1 DEF Progress, Placed, PhaseOf
    <2>3. CASE is_intercepted(host[c])
      <3>1. Moves(c, "acceptor") /\ PhaseOf("acceptor") = "opening"
        BY <1>13, <2>1, <2>3 DEF AfterReply, Goto, Moves, PhaseOf
      <3> QED
        BY <2>1, <2>2, <3>1, Stutters
    <2>4. CASE ~is_intercepted(host[c])
      <3>1. Moves(c, "bridge")
        BY <1>13, <2>1, <2>4 DEF AfterReply, Goto, Moves
      <3>2. Stands(c)' /\ link' = [link EXCEPT ![c] = link'[c]]
        BY <2>1, <2>2 DEF Stands, TypeOK
      <3> QED
        BY <2>1, <2>2, <2>4, <3>1, <3>2, Begins
    <2> QED
      BY <2>3, <2>4
  <1>14. ASSUME NEW c \in Conns, get_or_create(c) PROVE Mapped
    <2>1. pc[c] = "acceptor" /\ mode' = mode /\ UNCHANGED <<host, link, told>>
      BY <1>14 DEF get_or_create
    <2>2. host[c] \in Hosts /\ acceptor_cache[host[c]] \in Nat
      BY <2>1, HostAssumption DEF Progress, Placed, Opened, TypeOK
    <2>3. CASE Present(c, acceptor_cache[host[c]]) /\ Goto(c, "ctls")
      <3>1. Moves(c, "ctls")
        BY <2>1, <2>3 DEF Goto, Moves
      <3> QED
        BY <2>1, <2>2, <2>3, <3>1, Shows
    <2>4. CASE presented' = presented /\ Goto(c, "key")
      <3>1. Moves(c, "key") /\ PhaseOf("key") = PhaseOf(pc[c])
        BY <2>1, <2>4 DEF Goto, Moves, PhaseOf
      <3> QED
        BY <2>1, <2>4, <3>1, Stutters
    <2> QED
      BY <1>14, <2>3, <2>4 DEF get_or_create
  <1>15. ASSUME NEW c \in Conns, get_or_create_key_inner(c) PROVE Mapped
    <2>1. pc[c] = "key" /\ mode' = mode /\ UNCHANGED <<host, link, told>>
      BY <1>15 DEF get_or_create_key_inner
    <2>2. host[c] \in Hosts /\ key_cache[host[c]] \in Nat
      BY <2>1, HostAssumption DEF Progress, Placed, Opened, TypeOK
    <2>3. CASE Present(c, key_cache[host[c]]) /\ Goto(c, AfterKey(c))
      <3>1. Moves(c, AfterKey(c)) /\ AfterKey(c) \in {"install", "ctls"}
        BY <2>1, <2>3 DEF Goto, Moves, AfterKey
      <3> QED
        BY <2>1, <2>2, <2>3, <3>1, Shows
    <2>4. CASE presented' = presented /\ Goto(c, "build")
      <3>1. Moves(c, "build") /\ PhaseOf("build") = PhaseOf(pc[c])
        BY <2>1, <2>4 DEF Goto, Moves, PhaseOf
      <3> QED
        BY <2>1, <2>4, <3>1, Stutters
    <2> QED
      BY <1>15, <2>3, <2>4 DEF get_or_create_key_inner
  <1>16. ASSUME NEW c \in Conns, build_certified_key(c) PROVE Mapped
    <2>1. pc[c] = "build" /\ UNCHANGED <<host, link, told>> /\ Present(c, built + 1)
      BY <1>16 DEF build_certified_key
    <2>2. Moves(c, AfterKey(c)) /\ AfterKey(c) \in {"install", "ctls"} /\ built + 1 \in Nat
      BY <1>16 DEF build_certified_key, Goto, Moves, AfterKey, TypeOK
    <2> QED
      BY <2>1, <2>2, Shows
  <1>17. ASSUME NEW c \in Conns, InstallAcceptor(c) PROVE Mapped
    <2>1. Moves(c, "ctls") /\ PhaseOf("ctls") = PhaseOf(pc[c])
      BY <1>17 DEF InstallAcceptor, Goto, Moves, PhaseOf
    <2> QED
      BY <1>17, <2>1, Stutters DEF InstallAcceptor
  <1>18. ASSUME NEW c \in Conns, AcceptTls(c) PROVE Mapped
    <2>1. pc[c] = "ctls" /\ mode' = mode /\ UNCHANGED <<host, link, told, presented>>
      BY <1>18 DEF AcceptTls
    <2>2. Opened(c) /\ Shown(c) /\ PhaseOf(pc[c]) = "opening"
      BY <2>1 DEF Progress, Placed, PhaseOf
    <2>3. CASE Goto(c, "session") /\ mode[c] = "connect"
      <3>1. Moves(c, "session")
        BY <2>1, <2>3 DEF Goto, Moves
      <3>2. host[c] \in Hosts /\ is_intercepted(host[c]) /\ Stands(c) /\ told[c]
        BY <2>2, <2>3, HostAssumption DEF Opened, Stands, is_intercepted
      <3>3. Stands(c)' /\ link' = [link EXCEPT ![c] = link'[c]]
        BY <2>1, <3>2 DEF Stands, TypeOK
      <3> QED
        BY <2>1, <2>2, <2>3, <3>1, <3>2, <3>3, Begins
    <2>4. CASE Goto(c, "resolve1")
      <3>1. Moves(c, "resolve1") /\ PhaseOf("resolve1") = "opening"
        BY <2>1, <2>4 DEF Goto, Moves, PhaseOf
      <3> QED
        BY <2>1, <2>2, <3>1, Stutters
    <2>5. CASE Goto(c, "closed")
      <3>1. Moves(c, "closed")
        BY <2>1, <2>5 DEF Goto, Moves
      <3> QED
        BY <2>1, <3>1, Closes
    <2> QED
      BY <1>18, <2>3, <2>4, <2>5 DEF AcceptTls
  <1>19. CASE UNCHANGED vars
    BY <1>19 DEF vars, Abstract!vars, phase, linked, asks, shown, Stands
  <1> QED
    BY <1>1, <1>2, <1>3, <1>4, <1>5, <1>6, <1>7, <1>8, <1>9, <1>10, <1>11, <1>12, <1>13, <1>14,
       <1>15, <1>16, <1>17, <1>18, <1>19 DEF Next, OwnStep, Finished

\* Both listeners keep what Tunnel promises a client: told only once the upstream stands, and an
\* intercepted session exactly for the configured names, under a certificate of the asked name.
THEOREM TunnelImplemented == Spec => ImplementsTunnel
  <1>1. Init => Abstract!Init
    BY DEF Init, Abstract!Init, phase, PhaseOf, linked, Stands, asks, shown, ShownOf
  <1> QED
    BY <1>1, TunnelStep, ConnectInvariant, PTL DEF Spec, ImplementsTunnel, Abstract!Spec

-----------------------------------------------------------------------------
(* No redirect loop *)

\* What the proxy's own traffic may meet: no public answer for an intercepted name is a loopback
\* address. For other names the code checks.
PublicAnswers == \A h \in Intercepted : parse_first_a_record(Answer[h]) /= "loopback"

\* An accepted connection of CONNECT mode.
FromConnect(c) == pc[c] /= "idle" /\ mode[c] = "connect"

\* Only such a connection is about to connect to loopback, waits to be accepted, or has been.
LoopInv ==
  /\ ip = [c \in Conns |-> ip[c]]
  /\ \A c \in Conns : pc[c] = "tcp" /\ ip[c] = "loopback" => FromConnect(c)
  /\ \A c \in backlog : FromConnect(c)
  /\ \A c \in Conns : peer[c] /= Client => FromConnect(peer[c])

\* A task that does not get to the upstream connection changes none of it.
LEMMA LoopMoves ==
  ASSUME TypeOK, LoopInv, NEW c \in Conns, NEW s, Moves(c, s), s /= "tcp", UNCHANGED <<peer, backlog, ip>>
  PROVE  LoopInv'
  <1>1. \A d \in Conns : (FromConnect(d) => FromConnect(d)') /\ (pc'[d] = "tcp" => pc[d] = "tcp")
    BY DEF TypeOK, Moves, FromConnect
  <1>2. backlog \subseteq Conns /\ \A d \in Conns : peer[d] /= Client => peer[d] \in Conns
    BY DEF TypeOK
  <1>3. (ip = [d \in Conns |-> ip[d]])'
    BY DEF LoopInv
  <1>4. \A d \in Conns : (pc[d] = "tcp" /\ ip[d] = "loopback" => FromConnect(d))'
    BY <1>1 DEF LoopInv
  <1>5. \A d \in backlog' : FromConnect(d)'
    BY <1>1, <1>2 DEF LoopInv
  <1>6. \A d \in Conns : (peer[d] /= Client => FromConnect(peer[d]))'
    BY <1>1, <1>2 DEF LoopInv
  <1> QED
    BY <1>3, <1>4, <1>5, <1>6 DEF LoopInv

\* The listeners: a connection from the backlog has a peer of CONNECT mode.
LEMMA LoopAccepts ==
  ASSUME TypeOK, LoopInv, NEW c \in Conns, run_connect(c) \/ run_network(c)
  PROVE  LoopInv'
  <1>1. PICK m \in {"connect", "network"}, p \in Conns \cup {Client} :
          /\ Accept(c, m, p) /\ backlog' \subseteq backlog
          /\ p /= Client => p \in backlog
    BY DEF run_connect, run_network, TypeOK
  <1>2. /\ pc[c] = "idle" /\ pc' = [pc EXCEPT ![c] = FirstState(m)] /\ UNCHANGED ip
        /\ mode' = [mode EXCEPT ![c] = m] /\ peer' = [peer EXCEPT ![c] = p]
    BY <1>1 DEF Accept, Goto
  <1>3. FirstState(m) \in {"line", "peek"}
    BY DEF FirstState
  <1>4. \A d \in Conns : (FromConnect(d) => FromConnect(d)') /\ (pc'[d] = "tcp" => pc[d] = "tcp")
    BY <1>2, <1>3 DEF TypeOK, FromConnect
  <1>5. backlog \subseteq Conns /\ \A d \in Conns : peer[d] /= Client => peer[d] \in Conns
    BY DEF TypeOK
  <1>6. (ip = [d \in Conns |-> ip[d]])'
    BY <1>2 DEF LoopInv
  <1>7. \A d \in Conns : (pc[d] = "tcp" /\ ip[d] = "loopback" => FromConnect(d))'
    BY <1>2, <1>4 DEF LoopInv
  <1>8. \A d \in backlog' : FromConnect(d)'
    BY <1>1, <1>4, <1>5 DEF LoopInv
  <1>9. \A d \in Conns : (peer[d] /= Client => FromConnect(peer[d]))'
    <2> SUFFICES ASSUME NEW d \in Conns, peer'[d] /= Client PROVE peer'[d] \in Conns /\ FromConnect(peer'[d])
      BY <1>4 DEF FromConnect
    <2>1. CASE d = c
      BY <1>1, <1>2, <1>5, <2>1 DEF LoopInv, TypeOK
    <2>2. CASE d /= c
      BY <1>2, <1>5, <2>2 DEF LoopInv, TypeOK
    <2> QED
      BY <2>1, <2>2
  <1> QED
    BY <1>6, <1>7, <1>8, <1>9 DEF LoopInv

\* A name gets its address: the transparent listener drops loopback, and no public answer for an
\* intercepted name is one.
LEMMA LoopResolves ==
  ASSUME TypeOK, Progress, LoopInv, PublicAnswers, NEW c \in Conns, handle_connect(c) \/ resolve_bypass_hosts(c)
  PROVE  LoopInv'
  <1>0. pc[c] /= "idle" /\ UNCHANGED <<mode, peer, backlog>>
    BY DEF handle_connect, resolve_bypass_hosts
  <1>1. PICK s \in {"closed", "tcp", "resolve1", "resolve2"} : pc' = [pc EXCEPT ![c] = s]
    BY DEF handle_connect, resolve_bypass_hosts, Goto
  <1>2. \/ s /= "tcp" /\ UNCHANGED ip
        \/ \E a : ip' = [ip EXCEPT ![c] = a] /\ (s = "tcp" /\ a = "loopback" => mode[c] = "connect")
    <2>1. CASE handle_connect(c)
      <3>1. mode[c] = "connect"
        BY <2>1 DEF handle_connect, Progress, Placed
      <3>2. (UNCHANGED ip /\ pc'[c] \in {"closed", "resolve1"}) \/ \E a : ip' = [ip EXCEPT ![c] = a]
        BY <2>1 DEF handle_connect, Goto, TypeOK
      <3>3. pc'[c] = s
        BY <1>1 DEF TypeOK
      <3> QED
        BY <3>1, <3>2, <3>3
    <2>2. CASE resolve_bypass_hosts(c)
      <3>1. PICK a \in {parse_first_a_record(Answer[host[c]]), NoIp} :
              \/ ip' = ip /\ pc'[c] /= "tcp"
              \/ /\ a /= NoIp /\ ip' = [ip EXCEPT ![c] = a]
                 /\ pc' = [pc EXCEPT ![c] = IF LoopbackDrop(c, a) THEN "closed" ELSE "tcp"]
        BY <2>2 DEF resolve_bypass_hosts, Goto, TypeOK
      <3>2. pc'[c] = s
        BY <1>1 DEF TypeOK
      <3>3. CASE ip' = ip /\ pc'[c] /= "tcp"
        BY <3>2, <3>3
      <3>4. CASE /\ a /= NoIp /\ ip' = [ip EXCEPT ![c] = a]
                 /\ pc' = [pc EXCEPT ![c] = IF LoopbackDrop(c, a) THEN "closed" ELSE "tcp"]
        <4>1. ASSUME s = "tcp", a = "loopback" PROVE mode[c] = "connect"
          <5>1. ~LoopbackDrop(c, a)
            BY <3>2, <3>4, <4>1 DEF TypeOK
          <5>2. a = parse_first_a_record(Answer[host[c]])
            BY <3>1, <3>4
          <5>3. ~is_intercepted(host[c])
            BY <4>1, <5>2 DEF PublicAnswers, is_intercepted
          <5> QED
            BY <4>1, <5>1, <5>3 DEF LoopbackDrop, TypeOK
        <4> QED
          BY <3>4, <4>1
      <3> QED
        BY <3>1, <3>3, <3>4
    <2> QED
      BY <2>1, <2>2
  <1>3. \A d \in Conns : (FromConnect(d) => FromConnect(d)') /\ (d /= c => pc'[d] = pc[d]) /\ pc'[c] = s
    BY <1>0, <1>1 DEF TypeOK, FromConnect
  <1>4. backlog \subseteq Conns /\ \A d \in Conns : peer[d] /= Client => peer[d] \in Conns
    BY DEF TypeOK
  <1>5. (ip = [d \in Conns |-> ip[d]])' /\ \A d \in Conns : d /= c => ip'[d] = ip[d]
    BY <1>2 DEF LoopInv
  <1>6. \A d \in Conns : (pc[d] = "tcp" /\ ip[d] = "loopback" => FromConnect(d))'
    <2>1. (pc[c] = "tcp" /\ ip[c] = "loopback" => FromConnect(c))'
      <3> SUFFICES ASSUME s = "tcp", ip'[c] = "loopback" PROVE FromConnect(c)'
        BY <1>3
      <3>1. mode[c] = "connect"
        BY <1>2 DEF LoopInv
      <3> QED
        BY <1>0, <1>3, <3>1 DEF FromConnect
    <2> QED
      BY <1>3, <1>5, <2>1 DEF LoopInv
  <1>7. \A d \in backlog' : FromConnect(d)'
    BY <1>0, <1>3, <1>4 DEF LoopInv
  <1>8. \A d \in Conns : (peer[d] /= Client => FromConnect(peer[d]))'
    BY <1>0, <1>3, <1>4 DEF LoopInv
  <1> QED
    BY <1>5, <1>6, <1>7, <1>8 DEF LoopInv

\* Any step.
LEMMA LoopStep ==
  ASSUME ConnectInv, LoopInv, PublicAnswers, [Next]_vars
  PROVE  LoopInv'
  <1>0. TypeOK /\ Progress
    BY DEF ConnectInv
  <1>1. CASE UNCHANGED vars
    BY <1>1 DEF vars, LoopInv, FromConnect
  <1>2. ASSUME NEW c \in Conns, ClientCloses(c) \/ Tick(c) PROVE LoopInv'
    BY <1>2 DEF ClientCloses, Tick, LoopInv, FromConnect
  <1>3. ASSUME NEW c \in Conns, ConnectSelf(c) PROVE LoopInv'
    <2>1. /\ pc[c] = "tcp" /\ ip[c] = "loopback" /\ pc' = [pc EXCEPT ![c] = Connected(c)]
          /\ backlog' = backlog \cup {c} /\ UNCHANGED <<mode, peer, ip>>
      BY <1>3 DEF ConnectSelf, Goto
    <2>2. Connected(c) \in {"utls", "reply", "bridge"}
      BY DEF Connected
    <2>3. \A d \in Conns : (FromConnect(d) => FromConnect(d)') /\ (pc'[d] = "tcp" => pc[d] = "tcp")
      BY <1>0, <2>1, <2>2 DEF TypeOK, FromConnect
    <2>4. FromConnect(c)
      BY <2>1 DEF LoopInv
    <2>5. backlog \subseteq Conns /\ \A d \in Conns : peer[d] /= Client => peer[d] \in Conns
      BY <1>0 DEF TypeOK
    <2> QED
      BY <2>1, <2>3, <2>4, <2>5 DEF LoopInv
  <1>4. ASSUME NEW c \in Conns,
               \/ ReadLine(c) \/ DrainHeader(c) \/ HeadersEnd(c) \/ handle_network(c) \/ ConnectUpstream(c) \/ UpstreamTls(c)
               \/ UpstreamFails(c) \/ Timeout(c) \/ Reply(c) \/ AfterReply(c) \/ get_or_create(c)
               \/ get_or_create_key_inner(c) \/ build_certified_key(c) \/ BuildFails(c) \/ InstallAcceptor(c)
               \/ AcceptTls(c) \/ TunnelEnds(c)
        PROVE  LoopInv'
    <2>1. UNCHANGED <<mode, peer, backlog, ip>> /\ pc[c] /= "idle"
      BY <1>4 DEF ReadLine, DrainHeader, HeadersEnd, handle_network, ConnectUpstream, UpstreamTls, UpstreamFails, Timeout, Timed, TimedStates,
                  Reply, AfterReply, get_or_create, get_or_create_key_inner, build_certified_key, BuildFails,
                  InstallAcceptor, AcceptTls, TunnelEnds
    <2>2. \E s \in States \ {"idle", "tcp"} : pc' = [pc EXCEPT ![c] = s]
      BY <1>0, <1>4 DEF TypeOK, States, Goto, ReadLine, DrainHeader, HeadersEnd, handle_network, ConnectUpstream, Connected, UpstreamTls,
                  UpstreamFails, Timeout, Timed, Reply, AfterReply, get_or_create, get_or_create_key_inner, AfterKey,
                  build_certified_key, BuildFails, InstallAcceptor, AcceptTls, TunnelEnds
    <2>3. PICK s \in States \ {"idle", "tcp"} : Moves(c, s)
      BY <2>1, <2>2 DEF Moves
    <2> QED
      BY <1>0, <2>1, <2>3, LoopMoves
  <1> QED
    BY <1>0, <1>1, <1>2, <1>3, <1>4, LoopAccepts, LoopResolves DEF Next, OwnStep, Finished

\* The proxy meets its own upstream connection at most once on a path, however /etc/hosts has been
\* left and whatever names resolve to, as long as no public answer for an intercepted name is a
\* loopback address.
THEOREM NoRedirectLoopHolds == PublicAnswers /\ Spec => []NoRedirectLoop
  <1>1. Init => LoopInv
    BY DEF Init, LoopInv
  <1>2. PublicAnswers /\ ConnectInv /\ LoopInv /\ [Next]_vars => LoopInv'
    BY LoopStep
  <1>3. LoopInv => NoRedirectLoop
    BY DEF LoopInv, FromConnect, NoRedirectLoop
  <1>4. SUFFICES ASSUME PublicAnswers PROVE Spec => []NoRedirectLoop
    OBVIOUS
  <1> QED
    BY <1>1, <1>2, <1>3, <1>4, ConnectInvariant, PTL DEF Spec

-----------------------------------------------------------------------------
(***************************************************************************)
(* Framing: sequences, lines, headers, the chunk decoder and the event     *)
(* parser, each taken one read at a time.                                  *)
(***************************************************************************)

-----------------------------------------------------------------------------
(* Bytes *)

\* The length of a run of bytes is a number.
LEMMA BytesLen ==
  ASSUME NEW s \in Bytes
  PROVE  Len(s) \in Nat /\ \A i \in 1..Len(s) : s[i] \in Int
BY DEF Bytes

\* Two runs with the same bytes are the same.
LEMMA SameBytes ==
  ASSUME NEW s \in Bytes, NEW t \in Bytes, Len(s) = Len(t), \A i \in 1..Len(s) : s[i] = t[i]
  PROVE  s = t
BY SeqEqual DEF Bytes

\* Two runs in a row.
LEMMA RowProps ==
  ASSUME NEW s \in Bytes, NEW t \in Bytes
  PROVE  /\ s \o t \in Bytes
         /\ Len(s \o t) = Len(s) + Len(t)
         /\ \A i \in 1..Len(s) : (s \o t)[i] = s[i]
         /\ \A i \in 1..Len(t) : (s \o t)[Len(s) + i] = t[i]
BY ConcatProperties DEF Bytes

\* Runs in a row may be joined in any order.
LEMMA RowAssoc ==
  ASSUME NEW s \in Bytes, NEW t \in Bytes, NEW u \in Bytes
  PROVE  (s \o t) \o u = s \o (t \o u)
BY ConcatAssociative DEF Bytes

\* The empty run does nothing.
LEMMA RowEmpty ==
  /\ <<>> \in Bytes /\ Len(<<>>) = 0
  /\ \A s \in Bytes : <<>> \o s = s /\ s \o <<>> = s /\ (Len(s) = 0 => s = <<>>)
<1>1. <<>> \in Bytes /\ Len(<<>>) = 0
  BY EmptySeq DEF Bytes
<1>2. \A s \in Bytes : <<>> \o s = s /\ s \o <<>> = s
  BY ConcatEmptySeq DEF Bytes
<1>3. \A s \in Bytes : Len(s) = 0 => s = <<>>
  BY EmptySeq DEF Bytes
<1> QED
  BY <1>1, <1>2, <1>3

\* A piece of a run.
LEMMA CutProps ==
  ASSUME NEW s \in Bytes, NEW i \in 1..(Len(s) + 1), NEW j \in (i - 1)..Len(s)
  PROVE  /\ SubSeq(s, i, j) \in Bytes
         /\ Len(SubSeq(s, i, j)) = j - i + 1
         /\ \A n \in 1..(j - i + 1) : SubSeq(s, i, j)[n] = s[i + n - 1]
BY DEF Bytes

\* The first bytes of a run.
LEMMA TakeProps ==
  ASSUME NEW s \in Bytes, NEW n \in 0..Len(s)
  PROVE  Take(s, n) \in Bytes /\ Len(Take(s, n)) = n /\ \A i \in 1..n : Take(s, n)[i] = s[i]
<1>1. 1 \in 1..(Len(s) + 1) /\ n \in (1 - 1)..Len(s) /\ n - 1 + 1 = n /\ \A i \in 1..n : 1 + i - 1 = i
  BY BytesLen
<1>2. SubSeq(s, 1, n) \in Bytes /\ Len(SubSeq(s, 1, n)) = n - 1 + 1 /\ \A i \in 1..(n - 1 + 1) : SubSeq(s, 1, n)[i] = s[1 + i - 1]
  BY <1>1, CutProps
<1> QED
  BY <1>1, <1>2 DEF Take

\* The bytes behind them.
LEMMA DropProps ==
  ASSUME NEW s \in Bytes, NEW n \in 0..Len(s)
  PROVE  Drop(s, n) \in Bytes /\ Len(Drop(s, n)) = Len(s) - n /\ \A i \in 1..(Len(s) - n) : Drop(s, n)[i] = s[n + i]
<1>1. Len(s) \in Nat
  BY BytesLen
<1>2. n + 1 \in 1..(Len(s) + 1) /\ Len(s) \in (n + 1 - 1)..Len(s) /\ Len(s) - (n + 1) + 1 = Len(s) - n
      /\ \A i \in 1..(Len(s) - n) : n + 1 + i - 1 = n + i
  BY <1>1
<1> DEFINE m == n + 1
           d == SubSeq(s, m, Len(s))
<1>3. m \in 1..(Len(s) + 1) /\ Len(s) \in (m - 1)..Len(s)
  BY <1>2
<1> HIDE DEF m
<1>4. d \in Bytes /\ Len(d) = Len(s) - m + 1 /\ \A i \in 1..(Len(s) - m + 1) : d[i] = s[m + i - 1]
  BY <1>3, CutProps
<1> HIDE DEF d
<1>5. d \in Bytes /\ Len(d) = Len(s) - n /\ \A i \in 1..(Len(s) - n) : d[i] = s[n + i]
  BY <1>2, <1>4 DEF m
<1> QED
  BY <1>5 DEF d, m, Drop

\* Both together are the run.
LEMMA TakeDrop ==
  ASSUME NEW s \in Bytes, NEW n \in 0..Len(s)
  PROVE  Take(s, n) \o Drop(s, n) = s
<1> DEFINE a == Take(s, n)
           b == Drop(s, n)
           c == a \o b
<1>0. Len(s) \in Nat
  BY BytesLen
<1>1. a \in Bytes /\ Len(a) = n /\ \A i \in 1..n : a[i] = s[i]
  BY TakeProps
<1>2. b \in Bytes /\ Len(b) = Len(s) - n /\ \A i \in 1..(Len(s) - n) : b[i] = s[n + i]
  BY DropProps
<1> HIDE DEF a, b
<1>3. c \in Bytes /\ Len(c) = Len(a) + Len(b) /\ (\A i \in 1..Len(a) : c[i] = a[i]) /\ \A i \in 1..Len(b) : c[Len(a) + i] = b[i]
  BY <1>1, <1>2, RowProps
<1> HIDE DEF c
<1>4. ASSUME NEW i \in 1..Len(s) PROVE c[i] = s[i]
  <2>1. CASE i <= n
    <3>1. i \in 1..n
      BY <1>0, <2>1
    <3> QED
      BY <1>1, <1>3, <3>1
  <2>2. CASE i > n
    <3>1. i - n \in 1..(Len(s) - n) /\ n + (i - n) = i
      BY <1>0, <2>2
    <3>2. c[Len(a) + (i - n)] = b[i - n]
      BY <1>2, <1>3, <3>1
    <3>3. b[i - n] = s[n + (i - n)]
      BY <1>2, <3>1
    <3> QED
      BY <1>1, <3>1, <3>2, <3>3
  <2> QED
    BY <1>0, <2>1, <2>2
<1>5. Len(c) = Len(s)
  BY <1>0, <1>1, <1>2, <1>3
<1>6. c = s
  BY <1>3, <1>4, <1>5, SameBytes
<1> QED
  BY <1>6 DEF a, b, c

\* Two runs in a row, taken apart again.
LEMMA TakeRow ==
  ASSUME NEW s \in Bytes, NEW t \in Bytes
  PROVE  Take(s \o t, Len(s)) = s /\ Drop(s \o t, Len(s)) = t
<1> DEFINE u == s \o t
           a == Take(u, Len(s))
           b == Drop(u, Len(s))
<1>0. Len(s) \in Nat /\ Len(t) \in Nat
  BY BytesLen
<1>1. u \in Bytes /\ Len(u) = Len(s) + Len(t) /\ (\A i \in 1..Len(s) : u[i] = s[i]) /\ \A i \in 1..Len(t) : u[Len(s) + i] = t[i]
  BY RowProps
<1> HIDE DEF u
<1>2. Len(s) \in 0..Len(u) /\ Len(u) - Len(s) = Len(t)
  BY <1>0, <1>1
<1>3. a \in Bytes /\ Len(a) = Len(s) /\ \A i \in 1..Len(s) : a[i] = u[i]
  BY <1>1, <1>2, TakeProps
<1>4. b \in Bytes /\ Len(b) = Len(t) /\ \A i \in 1..Len(t) : b[i] = u[Len(s) + i]
  BY <1>1, <1>2, DropProps
<1> HIDE DEF a, b
<1>5. \A i \in 1..Len(a) : a[i] = s[i]
  BY <1>1, <1>3
<1>6. \A i \in 1..Len(b) : b[i] = t[i]
  BY <1>1, <1>4
<1>7. a = s
  BY <1>3, <1>5, SameBytes
<1>8. b = t
  BY <1>4, <1>6, SameBytes
<1> QED
  BY <1>7, <1>8 DEF a, b, u

\* One row of bytes, divided in two ways.
Meet(a, b, c, d) == a \o b = c \o d

\* One row of bytes, divided in two ways: the longer first part begins with the shorter one.
LEMMA Divide ==
  ASSUME NEW a \in Bytes, NEW b \in Bytes, NEW c \in Bytes, NEW d \in Bytes,
         Meet(a, b, c, d), Len(c) <= Len(a)
  PROVE  /\ a = c \o Drop(a, Len(c)) /\ Drop(a, Len(c)) \o b = d
         /\ Take(a, Len(c)) = c /\ Drop(a, Len(c)) \in Bytes /\ Len(Drop(a, Len(c))) = Len(a) - Len(c)
<1> DEFINE u == a \o b
           x == Drop(a, Len(c))
           y == Take(a, Len(c))
<1>0. Len(a) \in Nat /\ Len(b) \in Nat /\ Len(c) \in Nat /\ Len(d) \in Nat /\ Len(c) \in 0..Len(a)
  BY BytesLen
<1>1. x \in Bytes /\ Len(x) = Len(a) - Len(c)
  BY <1>0, DropProps
<1>2. y \in Bytes /\ Len(y) = Len(c) /\ \A i \in 1..Len(c) : y[i] = a[i]
  BY <1>0, TakeProps
<1>3. y \o x = a
  BY <1>0, TakeDrop
<1>4. \A i \in 1..Len(c) : y[i] = c[i]
  <2>1. \A i \in 1..Len(a) : u[i] = a[i]
    BY RowProps
  <2>2. \A i \in 1..Len(c) : (c \o d)[i] = c[i]
    BY RowProps
  <2> QED
    BY <1>0, <1>2, <2>1, <2>2 DEF Meet
<1> HIDE DEF x, y, u
<1>5. y = c
  BY <1>2, <1>4, SameBytes
<1>6. c \o (x \o b) = c \o d
  <2>1. (c \o x) \o b = c \o (x \o b)
    BY <1>1, RowAssoc, SMTT(30)
  <2> QED
    BY <1>3, <1>5, <2>1 DEF Meet
<1>7. x \o b \in Bytes
  BY <1>1, RowProps
<1>8. Drop(c \o (x \o b), Len(c)) = x \o b /\ Drop(c \o d, Len(c)) = d
  BY <1>7, TakeRow
<1>9. x \o b = d
  BY <1>6, <1>8
<1> QED
  BY <1>1, <1>3, <1>5, <1>9 DEF x, y

\* What follows the same bytes is the same.
LEMMA SameRest ==
  ASSUME NEW a \in Bytes, NEW b \in Bytes, NEW c \in Bytes, a \o b = a \o c
  PROVE  b = c
<1>1. Drop(a \o b, Len(a)) = b /\ Drop(a \o c, Len(a)) = c
  BY TakeRow
<1> QED
  BY <1>1

-----------------------------------------------------------------------------
(* Searching *)

\* s is in d at i.
HitAt(d, s, i) == i \in 1..(Len(d) - Len(s) + 1) /\ \A j \in 1..Len(s) : d[i + j - 1] = s[j]

\* The set that Index searches.
LEMMA Hits ==
  ASSUME NEW d \in Bytes, NEW s \in Bytes, NEW i \in 1..(Len(d) - Len(s) + 1), s # <<>>
  PROVE  SubSeq(d, i, i + Len(s) - 1) = s <=> HitAt(d, s, i)
<1> DEFINE p == SubSeq(d, i, i + Len(s) - 1)
<1>0. Len(d) \in Nat /\ Len(s) \in Nat /\ Len(s) # 0
  BY BytesLen, RowEmpty
<1>1. i \in 1..(Len(d) + 1) /\ i + Len(s) - 1 \in (i - 1)..Len(d) /\ i + Len(s) - 1 - i + 1 = Len(s)
  BY <1>0
<1>2. p \in Bytes /\ Len(p) = i + Len(s) - 1 - i + 1 /\ \A n \in 1..(i + Len(s) - 1 - i + 1) : p[n] = d[i + n - 1]
  BY <1>1, CutProps
<1> HIDE DEF p
<1>3. p \in Bytes /\ Len(p) = Len(s) /\ \A n \in 1..Len(s) : p[n] = d[i + n - 1]
  BY <1>1, <1>2
<1>4. (\A j \in 1..Len(s) : d[i + j - 1] = s[j]) => p = s
  BY <1>3, SameBytes
<1>5. p = s <=> HitAt(d, s, i)
  BY <1>3, <1>4 DEF HitAt
<1> QED
  BY <1>5 DEF p

\* Index is the first hit, or 0 if there is none.
LEMMA IndexProps ==
  ASSUME NEW d \in Bytes, NEW s \in Bytes, s # <<>>
  PROVE  /\ Index(d, s) \in 0..Len(d)
         /\ Index(d, s) = 0 => \A i : ~HitAt(d, s, i)
         /\ Index(d, s) # 0 => HitAt(d, s, Index(d, s)) /\ \A i : HitAt(d, s, i) => Index(d, s) <= i
<1> DEFINE D == 1..(Len(d) - Len(s) + 1)
           hits == {i \in D : SubSeq(d, i, i + Len(s) - 1) = s}
<1>0. Len(d) \in Nat /\ Len(s) \in Nat /\ Len(s) # 0
  BY BytesLen, RowEmpty
<1>1. \A i : i \in hits <=> HitAt(d, s, i)
  <2>1. \A i \in D : SubSeq(d, i, i + Len(s) - 1) = s <=> HitAt(d, s, i)
    BY Hits
  <2> QED
    BY <2>1 DEF HitAt
<1>2. hits \subseteq Nat /\ \A i \in hits : i \in 1..Len(d)
  BY <1>0
<1>3. Index(d, s) = IF hits = {} THEN 0 ELSE Min(hits)
  BY DEF Index
<1> HIDE DEF hits
<1>4. CASE hits = {}
  BY <1>0, <1>1, <1>3, <1>4
<1>5. CASE hits # {}
  <2>1. \E x \in hits : \A y \in hits : x <= y
    BY <1>2, <1>5, LeastNatural
  <2>2. Min(hits) \in hits /\ \A y \in hits : Min(hits) <= y
    BY <2>1 DEF Min
  <2>3. Index(d, s) = Min(hits) /\ Min(hits) \in 1..Len(d)
    BY <1>2, <1>3, <1>5, <2>2
  <2>4. Index(d, s) # 0 /\ Index(d, s) \in 0..Len(d)
    BY <2>3
  <2>5. HitAt(d, s, Index(d, s)) /\ \A i : HitAt(d, s, i) => Index(d, s) <= i
    BY <1>1, <2>2, <2>3
  <2> QED
    BY <2>4, <2>5
<1> QED
  BY <1>4, <1>5

\* A hit that no other one precedes is what Index gives.
LEMMA IndexIs ==
  ASSUME NEW d \in Bytes, NEW s \in Bytes, s # <<>>, NEW i \in Int, HitAt(d, s, i),
         \A j \in 1..(i - 1) : ~HitAt(d, s, j)
  PROVE  Index(d, s) = i
<1>0. Len(d) \in Nat /\ Len(s) \in Nat
  BY BytesLen
<1>1. Index(d, s) # 0 /\ Index(d, s) <= i
  BY IndexProps
<1>2. HitAt(d, s, Index(d, s)) /\ Index(d, s) \in 1..(Len(d) - Len(s) + 1)
  BY <1>1, IndexProps DEF HitAt
<1> QED
  BY <1>0, <1>1, <1>2

\* Hits in the beginning of a run are the hits of the run that end there.
LEMMA HitRow ==
  ASSUME NEW d \in Bytes, NEW e \in Bytes, NEW s \in Bytes, NEW i
  PROVE  HitAt(d, s, i) <=> HitAt(d \o e, s, i) /\ i + Len(s) - 1 <= Len(d)
<1> DEFINE u == d \o e
<1>0. Len(d) \in Nat /\ Len(e) \in Nat /\ Len(s) \in Nat
  BY BytesLen
<1>1. u \in Bytes /\ Len(u) = Len(d) + Len(e) /\ \A j \in 1..Len(d) : u[j] = d[j]
  BY RowProps
<1> HIDE DEF u
<1>2. ASSUME i \in 1..(Len(d) - Len(s) + 1), NEW j \in 1..Len(s) PROVE u[i + j - 1] = d[i + j - 1]
  <2>1. i + j - 1 \in 1..Len(d)
    BY <1>0, <1>2
  <2> QED
    BY <1>1, <2>1
<1>3. i \in 1..(Len(d) - Len(s) + 1) <=> i \in 1..(Len(u) - Len(s) + 1) /\ i + Len(s) - 1 <= Len(d)
  BY <1>0, <1>1
<1>4. HitAt(d, s, i) <=> HitAt(u, s, i) /\ i + Len(s) - 1 <= Len(d)
  BY <1>2, <1>3 DEF HitAt
<1> QED
  BY <1>4 DEF u

\* What Index finds in a run, it finds as well when more bytes follow.
LEMMA IndexMore ==
  ASSUME NEW d \in Bytes, NEW e \in Bytes, NEW s \in Bytes, s # <<>>
  PROVE  /\ Index(d, s) # 0 => Index(d \o e, s) = Index(d, s)
         /\ Index(d \o e, s) # 0 /\ Index(d \o e, s) + Len(s) - 1 <= Len(d) => Index(d, s) = Index(d \o e, s)
         /\ Index(d, s) # 0 => Index(d, s) + Len(s) - 1 <= Len(d)
<1> DEFINE u == d \o e
<1>0. Len(d) \in Nat /\ Len(e) \in Nat /\ Len(s) \in Nat /\ u \in Bytes
  BY BytesLen, RowProps
<1>1. \A i : HitAt(d, s, i) <=> HitAt(u, s, i) /\ i + Len(s) - 1 <= Len(d)
  BY HitRow
<1> HIDE DEF u
<1>2. ASSUME Index(d, s) # 0 PROVE Index(u, s) = Index(d, s) /\ Index(d, s) + Len(s) - 1 <= Len(d)
  <2>1. HitAt(d, s, Index(d, s)) /\ (\A i : HitAt(d, s, i) => Index(d, s) <= i) /\ Index(d, s) \in Int
    BY <1>2, IndexProps
  <2>2. HitAt(u, s, Index(d, s)) /\ Index(d, s) + Len(s) - 1 <= Len(d)
    BY <1>1, <2>1
  <2>3. ASSUME NEW j \in 1..(Index(d, s) - 1), HitAt(u, s, j) PROVE FALSE
    <3>1. j + Len(s) - 1 <= Len(d) /\ ~(Index(d, s) <= j)
      BY <1>0, <2>1, <2>2, <2>3
    <3> QED
      BY <1>1, <2>1, <2>3, <3>1
  <2> QED
    BY <1>0, <2>1, <2>2, <2>3, IndexIs
<1>3. ASSUME Index(u, s) # 0, Index(u, s) + Len(s) - 1 <= Len(d) PROVE Index(d, s) = Index(u, s)
  <2>1. HitAt(u, s, Index(u, s))
    BY <1>0, <1>3, IndexProps
  <2>2. HitAt(d, s, Index(u, s))
    BY <1>1, <1>3, <2>1
  <2>3. Index(d, s) # 0
    BY <2>2, IndexProps
  <2> QED
    BY <1>2, <2>3
<1> QED
  BY <1>2, <1>3 DEF u

-----------------------------------------------------------------------------
(* Rows of runs *)

\* One step of the recursion in FlattenSeq.
FlatStep(ss, f, i) == IF i = 1 THEN ss[i] ELSE f[i - 1] \o ss[i]

\* f flattens the first i runs of ss, for every i.
Flattens(f, ss) == f = [i \in 1..Len(ss) |-> FlatStep(ss, f, i)]

\* The first k runs of ss in a row.
FlatTo(ss) ==
  LET f == CHOOSE f : Flattens(f, ss)
  IN [k \in 0..Len(ss) |-> IF k = 0 THEN <<>> ELSE f[k]]

\* FlattenSeq is a solution of its recursive definition.
LEMMA FlattenDef ==
  ASSUME NEW ss, Len(ss) \in Nat
  PROVE  /\ Flattens(CHOOSE f : Flattens(f, ss), ss)
         /\ Len(ss) # 0 => FlattenSeq(ss) = (CHOOSE f : Flattens(f, ss))[Len(ss)]
<1> DEFINE Solved == {m \in Nat : \E f : f = [i \in 1..m |-> FlatStep(ss, f, i)]}
<1>1. 0 \in Solved
  <2> DEFINE g == [i \in 1..0 |-> <<>>]
  <2>1. g = [i \in 1..0 |-> FlatStep(ss, g, i)]
    OBVIOUS
  <2> QED
    BY <2>1
<1>2. \A m \in Nat : m \in Solved => m + 1 \in Solved
  <2> SUFFICES ASSUME NEW m \in Nat, m \in Solved PROVE m + 1 \in Solved
    OBVIOUS
  <2>1. PICK f : f = [i \in 1..m |-> FlatStep(ss, f, i)]
    OBVIOUS
  <2> DEFINE g == [i \in 1..(m + 1) |-> IF i <= m THEN f[i] ELSE FlatStep(ss, f, i)]
  <2>2. \A i \in 1..(m + 1) : FlatStep(ss, g, i) = FlatStep(ss, f, i)
    BY DEF FlatStep
  <2>3. \A i \in 1..(m + 1) : g[i] = FlatStep(ss, g, i)
    BY <2>1, <2>2
  <2>4. g = [i \in 1..(m + 1) |-> FlatStep(ss, g, i)]
    BY <2>3
  <2>5. \E h : h = [i \in 1..(m + 1) |-> FlatStep(ss, h, i)]
    BY <2>4, Zenon
  <2>6. m + 1 \in Nat
    OBVIOUS
  <2> QED
    BY <2>5, <2>6, Zenon
<1>3. Nat \subseteq Solved
  BY <1>1, <1>2, NatInductionSet, Zenon
<1>4. PICK f : Flattens(f, ss)
  BY <1>3 DEF Flattens
<1>5. Flattens(CHOOSE g : Flattens(g, ss), ss)
  BY <1>4, Zenon
<1>6. Len(ss) # 0 => FlattenSeq(ss) = (CHOOSE g : Flattens(g, ss))[Len(ss)]
  BY Zenon DEF FlattenSeq, Flattens, FlatStep
<1> QED
  BY <1>5, <1>6

\* A row of one, whatever it is.
LEMMA FlattenOne ==
  ASSUME NEW x
  PROVE  FlattenSeq([i \in 1..1 |-> x]) = x /\ FlattenSeq([i \in 1..0 |-> x]) = <<>>
<1> DEFINE ss == [i \in 1..1 |-> x]
           f == CHOOSE g : Flattens(g, ss)
<1>1. Len(ss) = 1 /\ ss[1] = x
  OBVIOUS
<1>2. Flattens(f, ss) /\ FlattenSeq(ss) = f[Len(ss)]
  BY <1>1, FlattenDef
<1> HIDE DEF ss, f
<1>3. f[1] = FlatStep(ss, f, 1)
  BY <1>1, <1>2 DEF Flattens
<1>4. FlattenSeq(ss) = x
  BY <1>1, <1>2, <1>3 DEF FlatStep
<1>5. FlattenSeq([i \in 1..0 |-> x]) = <<>>
  BY DEF FlattenSeq
<1> QED
  BY <1>4, <1>5 DEF ss

\* The first runs of a sequence of runs, one more at a time.
LEMMA FlatProps ==
  ASSUME NEW ss \in Seq(Bytes)
  PROVE  /\ FlatTo(ss)[0] = <<>>
         /\ \A k \in 0..Len(ss) : FlatTo(ss)[k] \in Bytes
         /\ \A k \in 1..Len(ss) : ss[k] \in Bytes /\ FlatTo(ss)[k] = FlatTo(ss)[k - 1] \o ss[k]
         /\ FlattenSeq(ss) = FlatTo(ss)[Len(ss)] /\ FlattenSeq(ss) \in Bytes
<1> DEFINE f == CHOOSE g : Flattens(g, ss)
           F == FlatTo(ss)
           n == Len(ss)
           T == {k \in Nat : k <= n => F[k] \in Bytes}
<1>0. n \in Nat /\ \A k \in 1..n : ss[k] \in Bytes
  OBVIOUS
<1>1. Flattens(f, ss) /\ (n # 0 => FlattenSeq(ss) = f[n])
  BY <1>0, FlattenDef
<1>2. F = [k \in 0..n |-> IF k = 0 THEN <<>> ELSE f[k]]
  BY DEF FlatTo
<1>a. n = 0 => FlattenSeq(ss) = <<>>
  BY EmptySeq DEF FlattenSeq
<1> HIDE DEF f, F, n
<1>3. F[0] = <<>> /\ \A k \in 1..n : F[k] = f[k]
  BY <1>0, <1>2
<1>4. \A k \in 1..n : f[k] = FlatStep(ss, f, k)
  BY <1>1 DEF Flattens, n
<1>5. ASSUME NEW k \in 1..n PROVE F[k] = F[k - 1] \o ss[k]
  <2>1. CASE k = 1
    <3>1. F[k] = ss[k] /\ F[k - 1] = <<>> /\ ss[k] \in Bytes
      BY <1>0, <1>3, <1>4, <2>1 DEF FlatStep
    <3> QED
      BY <3>1, RowEmpty
  <2>2. CASE k # 1
    <3>1. k - 1 \in 1..n
      BY <1>0, <2>2
    <3> QED
      BY <1>3, <1>4, <2>2, <3>1 DEF FlatStep
  <2> QED
    BY <2>1, <2>2
<1>6. 0 \in T
  BY <1>3, RowEmpty
<1>7. \A k \in Nat : k \in T => k + 1 \in T
  <2> SUFFICES ASSUME NEW k \in Nat, k \in T, k + 1 <= n PROVE F[k + 1] \in Bytes
    OBVIOUS
  <2>1. F[k] \in Bytes /\ k + 1 \in 1..n /\ k + 1 - 1 = k
    BY <1>0
  <2> DEFINE j == k + 1
  <2>a. j \in 1..n /\ j - 1 = k
    BY <2>1
  <2> HIDE DEF j, T
  <2>2. F[j] = F[j - 1] \o ss[j] /\ ss[j] \in Bytes
    BY <1>0, <1>5, <2>a
  <2>3. F[k + 1] = F[k] \o ss[k + 1] /\ ss[k + 1] \in Bytes
    BY <2>a, <2>2 DEF j
  <2> QED
    BY <2>1, <2>3, RowProps
<1>8. Nat \subseteq T
  BY <1>6, <1>7, NatInductionSet, Zenon
<1>9. \A k \in 0..n : F[k] \in Bytes
  BY <1>0, <1>8
<1>10. FlattenSeq(ss) = F[n]
  BY <1>0, <1>1, <1>3, <1>a
<1>11. \A k \in 1..n : ss[k] \in Bytes /\ F[k] = F[k - 1] \o ss[k]
  BY <1>0, <1>5
<1>12. F[n] \in Bytes
  BY <1>0, <1>9
<1> QED
  BY <1>3, <1>9, <1>10, <1>11, <1>12, Zenon DEF F, n

-----------------------------------------------------------------------------
(* Separators and chunks *)

\* A run of one byte.
LEMMA OneByte ==
  ASSUME NEW b \in Int
  PROVE  <<b>> \in Bytes /\ Len(<<b>>) = 1 /\ <<b>>[1] = b
BY DEF Bytes

\* The separators, byte by byte.
LEMMA Separators ==
  /\ CRLF \in Bytes /\ Len(CRLF) = 2 /\ CRLF[1] = CR /\ CRLF[2] = LF /\ CRLF # <<>>
  /\ Blank \in Bytes /\ Len(Blank) = 4 /\ Blank[1] = CR /\ Blank[2] = LF /\ Blank[3] = CR /\ Blank[4] = LF /\ Blank # <<>>
  /\ <<LF, LF>> \in Bytes /\ Len(<<LF, LF>>) = 2 /\ <<LF, LF>>[1] = LF /\ <<LF, LF>>[2] = LF /\ <<LF, LF>> # <<>>
  /\ LastChunk \in Bytes /\ Len(LastChunk) = 5 /\ LastChunk[1] = 0 /\ LastChunk[2] = CR /\ LastChunk[3] = LF
  /\ CR \in Int /\ LF \in Int /\ CR # LF /\ CR < 0 /\ LF < 0
<1>1. CR \in Int /\ LF \in Int /\ CR # LF /\ CR < 0 /\ LF < 0
  BY DEF CR, LF
<1>2. CRLF \in Bytes /\ Len(CRLF) = 2 /\ CRLF[1] = CR /\ CRLF[2] = LF /\ CRLF # <<>>
  BY <1>1 DEF CRLF, Bytes
<1>3. <<LF, LF>> \in Bytes /\ Len(<<LF, LF>>) = 2 /\ <<LF, LF>>[1] = LF /\ <<LF, LF>>[2] = LF /\ <<LF, LF>> # <<>>
  BY <1>1 DEF Bytes
<1>4. Blank = <<CR, LF, CR, LF>>
  <2>1. Blank \in Bytes /\ Len(Blank) = 4 /\ Blank[1] = CR /\ Blank[2] = LF /\ Blank[2 + 1] = CR /\ Blank[2 + 2] = LF
    <3>1. /\ CRLF \o CRLF \in Bytes /\ Len(CRLF \o CRLF) = Len(CRLF) + Len(CRLF)
          /\ (\A i \in 1..Len(CRLF) : (CRLF \o CRLF)[i] = CRLF[i])
          /\ \A i \in 1..Len(CRLF) : (CRLF \o CRLF)[Len(CRLF) + i] = CRLF[i]
      BY <1>2, RowProps
    <3>2. 1 \in 1..Len(CRLF) /\ 2 \in 1..Len(CRLF) /\ Len(CRLF) + 1 = 2 + 1 /\ Len(CRLF) + 2 = 2 + 2
      BY <1>2
    <3> QED
      BY <1>2, <3>1, <3>2 DEF Blank
  <2>2. <<CR, LF, CR, LF>> \in Bytes /\ Len(<<CR, LF, CR, LF>>) = 4
    BY <1>1 DEF Bytes
  <2> HIDE DEF CR, LF
  <2>3. \A i \in 1..4 : Blank[i] = <<CR, LF, CR, LF>>[i]
    BY <2>1
  <2> QED
    BY <2>1, <2>2, <2>3, SameBytes
<1>5. Blank \in Bytes /\ Len(Blank) = 4 /\ Blank[1] = CR /\ Blank[2] = LF /\ Blank[3] = CR /\ Blank[4] = LF /\ Blank # <<>>
  BY <1>1, <1>4 DEF Bytes
<1>6. <<0>> \in Bytes /\ Len(<<0>>) = 1 /\ <<0>>[1] = 0
  BY OneByte
<1>7. LastChunk \in Bytes /\ Len(LastChunk) = 5 /\ LastChunk[1] = 0 /\ LastChunk[1 + 1] = CR /\ LastChunk[1 + 2] = LF
  <2>1. /\ LastChunk \in Bytes /\ Len(LastChunk) = Len(<<0>>) + Len(Blank)
        /\ (\A i \in 1..Len(<<0>>) : LastChunk[i] = <<0>>[i])
        /\ \A i \in 1..Len(Blank) : LastChunk[Len(<<0>>) + i] = Blank[i]
    BY <1>5, <1>6, RowProps DEF LastChunk
  <2>2. 1 \in 1..Len(<<0>>) /\ 1 \in 1..Len(Blank) /\ 2 \in 1..Len(Blank)
    BY <1>5, <1>6
  <2> QED
    BY <1>5, <1>6, <2>1, <2>2
<1> QED
  BY <1>1, <1>2, <1>3, <1>5, <1>7

\* A chunk is its size, a line end, its data and another line end.
LEMMA ChunkProps ==
  ASSUME NEW d \in Bytes
  PROVE  /\ Chunk(d) \in Bytes /\ Len(Chunk(d)) = Len(d) + 5
         /\ d \o CRLF \in Bytes /\ CRLF \o (d \o CRLF) \in Bytes
         /\ Chunk(d) = <<Len(d)>> \o (CRLF \o (d \o CRLF))
<1>0. <<Len(d)>> \in Bytes /\ Len(<<Len(d)>>) = 1 /\ Len(d) \in Nat
  BY BytesLen, OneByte
<1>1. CRLF \in Bytes /\ Len(CRLF) = 2
  BY Separators
<1>2. d \o CRLF \in Bytes /\ Len(d \o CRLF) = Len(d) + 2
  <2>1. d \o CRLF \in Bytes /\ Len(d \o CRLF) = Len(d) + Len(CRLF)
    BY <1>1, RowProps
  <2> QED
    BY <1>1, <2>1
<1>3. CRLF \o (d \o CRLF) \in Bytes /\ Len(CRLF \o (d \o CRLF)) = 2 + (Len(d) + 2)
  BY <1>1, <1>2, RowProps
<1>4. <<Len(d)>> \o (CRLF \o (d \o CRLF)) \in Bytes /\ Len(<<Len(d)>> \o (CRLF \o (d \o CRLF))) = 1 + (2 + (Len(d) + 2))
  BY <1>0, <1>3, RowProps
<1>5. <<Len(d)>> \o CRLF \in Bytes
  BY <1>0, <1>1, RowProps
<1>6. ((<<Len(d)>> \o CRLF) \o d) \o CRLF = (<<Len(d)>> \o CRLF) \o (d \o CRLF)
  BY <1>1, <1>5, RowAssoc
<1>7. (<<Len(d)>> \o CRLF) \o (d \o CRLF) = <<Len(d)>> \o (CRLF \o (d \o CRLF))
  BY <1>0, <1>1, <1>2, RowAssoc
<1>8. Chunk(d) = <<Len(d)>> \o (CRLF \o (d \o CRLF))
  BY <1>6, <1>7 DEF Chunk
<1> QED
  BY <1>0, <1>2, <1>3, <1>4, <1>8

-----------------------------------------------------------------------------
(* Headers *)

\* A line has no carriage return and no line feed.
IsLine(l) == l \in Bytes /\ \A i \in 1..Len(l) : l[i] # CR /\ l[i] # LF

\* Three runs in a row, byte by byte.
LEMMA RowOfThree ==
  ASSUME NEW a \in Bytes, NEW b \in Bytes, NEW c \in Bytes
  PROVE  /\ a \o (b \o c) \in Bytes
         /\ Len(a \o (b \o c)) = Len(a) + Len(b) + Len(c)
         /\ \A i \in 1..Len(a) : (a \o (b \o c))[i] = a[i]
         /\ \A i \in 1..Len(b) : (a \o (b \o c))[Len(a) + i] = b[i]
         /\ \A i \in 1..Len(c) : (a \o (b \o c))[Len(a) + Len(b) + i] = c[i]
<1> DEFINE v == b \o c
           u == a \o v
<1>0. Len(a) \in Nat /\ Len(b) \in Nat /\ Len(c) \in Nat
  BY BytesLen
<1>1. v \in Bytes /\ Len(v) = Len(b) + Len(c) /\ (\A i \in 1..Len(b) : v[i] = b[i]) /\ \A i \in 1..Len(c) : v[Len(b) + i] = c[i]
  BY RowProps
<1> HIDE DEF v
<1>2. u \in Bytes /\ Len(u) = Len(a) + Len(v) /\ (\A i \in 1..Len(a) : u[i] = a[i]) /\ \A i \in 1..Len(v) : u[Len(a) + i] = v[i]
  BY <1>1, RowProps
<1> HIDE DEF u
<1>3. Len(u) = Len(a) + Len(b) + Len(c)
  BY <1>0, <1>1, <1>2
<1>4. \A i \in 1..Len(b) : u[Len(a) + i] = b[i]
  BY <1>0, <1>1, <1>2
<1>5. ASSUME NEW i \in 1..Len(c) PROVE u[Len(a) + Len(b) + i] = c[i]
  <2>1. Len(b) + i \in 1..Len(v) /\ Len(a) + Len(b) + i = Len(a) + (Len(b) + i)
    BY <1>0, <1>1
  <2>2. u[Len(a) + (Len(b) + i)] = v[Len(b) + i]
    BY <1>2, <2>1
  <2> QED
    BY <1>1, <2>1, <2>2
<1> QED
  BY <1>2, <1>3, <1>4, <1>5 DEF u, v

\* The length of a line with its end and of what is behind it.
LEMMA LineLen ==
  ASSUME NEW a \in Bytes, NEW c \in Bytes
  PROVE  a \o (CRLF \o c) \in Bytes /\ Len(a \o (CRLF \o c)) = Len(a) + 2 + Len(c)
<1>1. CRLF \in Bytes /\ Len(CRLF) = 2
  BY Separators
<1> DEFINE v == CRLF \o c
<1>2. v \in Bytes /\ Len(v) = Len(CRLF) + Len(c)
  BY <1>1, RowProps, Zenon
<1> HIDE DEF v
<1>3. a \o v \in Bytes /\ Len(a \o v) = Len(a) + Len(v)
  BY <1>2, RowProps, Zenon
<1>4. Len(a) \in Nat /\ Len(c) \in Nat
  BY BytesLen
<1>5. Len(a \o v) = Len(a) + 2 + Len(c)
  BY <1>1, <1>2, <1>3, <1>4
<1> QED
  BY <1>3, <1>5 DEF v

\* The first blank line is behind the first line that it follows.
LEMMA BlankHere ==
  ASSUME NEW l, IsLine(l), NEW t \in Bytes
  PROVE  Index(l \o (Blank \o t), Blank) = Len(l) + 1
<1> DEFINE u == l \o (Blank \o t)
           n == Len(l)
<1>0. l \in Bytes /\ n \in Nat /\ Len(t) \in Nat
  BY BytesLen DEF IsLine
<1>a. Blank \in Bytes /\ Len(Blank) = 4 /\ Blank # <<>> /\ Blank[1] = CR
  BY Separators
<1>1. /\ u \in Bytes /\ Len(u) = n + Len(Blank) + Len(t) /\ (\A i \in 1..n : u[i] = l[i])
      /\ (\A i \in 1..Len(Blank) : u[n + i] = Blank[i]) /\ \A i \in 1..Len(t) : u[n + Len(Blank) + i] = t[i]
  <2>1. l \in Bytes /\ Blank \in Bytes
    BY <1>0, <1>a
  <2> QED
    BY <2>1, RowOfThree, ZenonT(60)
<1> HIDE DEF u, n
<1>2. HitAt(u, Blank, n + 1)
  <2>1. \A j \in 1..Len(Blank) : (n + 1) + j - 1 = n + j
    BY <1>0, <1>a
  <2>2. n + 1 \in 1..(Len(u) - Len(Blank) + 1)
    BY <1>0, <1>a, <1>1
  <2> QED
    BY <1>1, <2>1, <2>2 DEF HitAt
<1>3. ASSUME NEW j \in 1..(n + 1 - 1), HitAt(u, Blank, j) PROVE FALSE
  <2>1. j \in 1..n /\ 1 \in 1..Len(Blank) /\ j + 1 - 1 = j
    BY <1>0, <1>a
  <2>2. u[j] = l[j] /\ u[j] = CR
    <3>1. u[j + 1 - 1] = Blank[1]
      BY <1>3, <2>1 DEF HitAt
    <3> QED
      BY <1>1, <1>a, <2>1, <3>1
  <2> QED
    BY <2>1, <2>2 DEF IsLine, n
<1> DEFINE m == n + 1
<1>4. m \in Int /\ HitAt(u, Blank, m) /\ \A j \in 1..(m - 1) : ~HitAt(u, Blank, j)
  BY <1>0, <1>2, <1>3
<1> HIDE DEF m
<1>5. Index(u, Blank) = m
  BY <1>1, <1>4, <1>a, IndexIs
<1> QED
  BY <1>5 DEF m, u, n

\* A line with another one behind it does not matter to the search.
LEMMA BlankBehind ==
  ASSUME NEW l, IsLine(l), NEW t \in Bytes, Index(t, Blank) # 0, t[1] # CR
  PROVE  Index(l \o (CRLF \o t), Blank) = Len(l) + 2 + Index(t, Blank)
<1> DEFINE u == l \o (CRLF \o t)
           n == Len(l)
           k == Index(t, Blank)
<1>0. l \in Bytes /\ n \in Nat /\ Len(t) \in Nat
  BY BytesLen DEF IsLine
<1>a. Blank \in Bytes /\ Len(Blank) = 4 /\ Blank # <<>> /\ Blank[1] = CR /\ Blank[3] = CR
  BY Separators
<1>b. CRLF \in Bytes /\ Len(CRLF) = 2 /\ CRLF[1] = CR /\ CRLF[2] = LF /\ CR # LF
  BY Separators
<1>1. /\ u \in Bytes /\ Len(u) = n + Len(CRLF) + Len(t) /\ (\A i \in 1..n : u[i] = l[i])
      /\ (\A i \in 1..Len(CRLF) : u[n + i] = CRLF[i]) /\ \A i \in 1..Len(t) : u[n + Len(CRLF) + i] = t[i]
  BY <1>0, <1>b, RowOfThree, ZenonT(60)
<1>c. k \in 0..Len(t) /\ HitAt(t, Blank, k) /\ \A i : HitAt(t, Blank, i) => k <= i
  BY <1>a, IndexProps
<1> HIDE DEF u, n, k
<1>2. Len(u) = n + 2 + Len(t) /\ u[n + 2] = LF /\ (\A i \in 1..Len(t) : u[n + 2 + i] = t[i])
  BY <1>b, <1>1
<1>3. k \in 1..(Len(t) - 4 + 1)
  BY <1>a, <1>c DEF HitAt
<1>4. ASSUME NEW i \in 1..(Len(t) - 3) PROVE HitAt(u, Blank, n + 2 + i) <=> HitAt(t, Blank, i)
  <2>1. ASSUME NEW j \in 1..Len(Blank) PROVE u[n + 2 + i + j - 1] = t[i + j - 1]
    <3>1. i + j - 1 \in 1..Len(t) /\ n + 2 + i + j - 1 = n + 2 + (i + j - 1)
      BY <1>0, <1>a
    <3> QED
      BY <1>2, <3>1
  <2>2. n + 2 + i \in 1..(Len(u) - Len(Blank) + 1) /\ i \in 1..(Len(t) - Len(Blank) + 1)
    BY <1>0, <1>2, <1>a
  <2> QED
    BY <2>1, <2>2 DEF HitAt
<1>5. HitAt(u, Blank, n + 2 + k)
  <2>1. k \in 1..(Len(t) - 3)
    BY <1>0, <1>3
  <2> QED
    BY <1>4, <1>c, <2>1
<1>6. ASSUME NEW j \in 1..(n + 2 + k - 1), HitAt(u, Blank, j) PROVE FALSE
  <2>0. u[j] = CR /\ u[j + 2] = CR
    <3>1. 1 \in 1..Len(Blank) /\ 3 \in 1..Len(Blank) /\ j + 1 - 1 = j /\ j + 3 - 1 = j + 2
      BY <1>a
    <3>2. u[j + 1 - 1] = Blank[1] /\ u[j + 3 - 1] = Blank[3]
      BY <1>6, <3>1 DEF HitAt
    <3> QED
      BY <1>a, <3>1, <3>2
  <2>1. CASE j \in 1..n
    BY <1>1, <2>0, <2>1 DEF IsLine, n
  <2>2. CASE j = n + 1
    <3>1. u[n + 2 + 1] = t[1] /\ j + 2 = n + 2 + 1
      BY <1>0, <1>2, <1>3, <2>2
    <3> QED
      BY <2>0, <3>1
  <2>3. CASE j = n + 2
    BY <1>2, <1>b, <2>0, <2>3
  <2>4. CASE j > n + 2
    <3>1. j - (n + 2) \in 1..(Len(t) - 3) /\ n + 2 + (j - (n + 2)) = j /\ j - (n + 2) < k
      BY <1>0, <1>3, <1>6, <2>4
    <3>2. HitAt(t, Blank, j - (n + 2))
      BY <1>4, <1>6, <3>1
    <3> QED
      BY <1>0, <1>3, <1>c, <3>1, <3>2
  <2> QED
    BY <1>0, <2>1, <2>2, <2>3, <2>4
<1> DEFINE m == n + 2 + k
<1>7. m \in Int /\ HitAt(u, Blank, m) /\ \A j \in 1..(m - 1) : ~HitAt(u, Blank, j)
  BY <1>0, <1>5, <1>6, <1>c
<1> HIDE DEF m
<1>8. Index(u, Blank) = m
  BY <1>1, <1>7, <1>a, IndexIs
<1> QED
  BY <1>8 DEF m, u, n, k

-----------------------------------------------------------------------------
(* What follows the first runs of a row *)

\* What is left of the runs of ss and of tail behind the first k runs.
RestOf(ss, tail, k) == Drop(FlattenSeq(ss) \o tail, Len(FlatTo(ss)[k]))

\* The rest begins with the next run, and in the end tail is left.
LEMMA RestProps ==
  ASSUME NEW ss \in Seq(Bytes), NEW tail \in Bytes
  PROVE  /\ RestOf(ss, tail, 0) = FlattenSeq(ss) \o tail
         /\ \A k \in 0..Len(ss) : RestOf(ss, tail, k) \in Bytes /\ FlatTo(ss)[k] \o RestOf(ss, tail, k) = FlattenSeq(ss) \o tail
         /\ \A k \in 1..Len(ss) : RestOf(ss, tail, k - 1) = ss[k] \o RestOf(ss, tail, k)
         /\ RestOf(ss, tail, Len(ss)) = tail
<1> DEFINE F == FlatTo(ss)
           W == FlattenSeq(ss) \o tail
           R(k) == RestOf(ss, tail, k)
           n == Len(ss)
           Ends(k) == \E r \in Bytes : F[k] \o r = W
           T == {j \in Nat : j <= n => Ends(n - j)}
<1>0. n \in Nat
  OBVIOUS
<1>1. /\ F[0] = <<>> /\ (\A k \in 0..n : F[k] \in Bytes)
      /\ (\A k \in 1..n : ss[k] \in Bytes /\ F[k] = F[k - 1] \o ss[k])
      /\ FlattenSeq(ss) = F[n] /\ FlattenSeq(ss) \in Bytes
  BY FlatProps
<1>2. W \in Bytes /\ F[n] \o tail = W
  BY <1>1, RowProps
<1>a. \A k : R(k) = Drop(W, Len(F[k]))
  BY DEF RestOf
<1> HIDE DEF F, W, n, R
<1>3. 0 \in T
  <2>1. n - 0 = n
    BY <1>0
  <2> QED
    BY <1>2, <2>1
<1>4. \A j \in Nat : j \in T => j + 1 \in T
  <2> HIDE DEF Ends
  <2>0. SUFFICES ASSUME NEW j \in Nat, j \in T, j + 1 <= n PROVE Ends(n - (j + 1))
    OBVIOUS
  <2> USE DEF Ends
  <2>a. j <= n
    BY <1>0, <2>0
  <2>1. PICK r \in Bytes : F[n - j] \o r = W
    BY <2>0, <2>a, Zenon
  <2> DEFINE k == n - j
  <2>2. k \in 1..n /\ k - 1 \in 0..n /\ n - (j + 1) = k - 1
    BY <1>0, <2>0
  <2>3. F[k] \o r = W
    BY <2>1
  <2> HIDE DEF k, T
  <2>4. F[k] = F[k - 1] \o ss[k] /\ ss[k] \in Bytes /\ F[k - 1] \in Bytes
    BY <1>1, <2>2
  <2>5. (F[k - 1] \o ss[k]) \o r = F[k - 1] \o (ss[k] \o r)
    BY <2>4, RowAssoc, Zenon
  <2>6. ss[k] \o r \in Bytes
    BY <2>4, RowProps, Zenon
  <2>7. F[k - 1] \o (ss[k] \o r) = W
    BY <2>3, <2>4, <2>5
  <2>8. Ends(k - 1)
    BY <2>6, <2>7, Zenon
  <2> QED
    BY <2>2, <2>8, Zenon
<1>5. Nat \subseteq T
  BY <1>3, <1>4, NatInductionSet, Zenon
<1>6. ASSUME NEW k \in 0..n PROVE R(k) \in Bytes /\ F[k] \o R(k) = W
  <2>1. n - k \in Nat /\ n - k <= n /\ n - (n - k) = k
    BY <1>0
  <2>2. PICK r \in Bytes : F[k] \o r = W
    BY <1>5, <2>1
  <2>3. Drop(F[k] \o r, Len(F[k])) = r
    BY <1>1, TakeRow
  <2> QED
    BY <1>a, <2>2, <2>3
<1>7. ASSUME NEW k \in 1..n PROVE R(k - 1) = ss[k] \o R(k)
  <2>1. k \in 0..n /\ k - 1 \in 0..n
    BY <1>0
  <2> DEFINE j == k - 1
  <2>2. F[j] \in Bytes /\ R(j) \in Bytes /\ F[j] \o R(j) = W
    BY <1>1, <1>6, <2>1
  <2>3. F[k] = F[j] \o ss[k] /\ ss[k] \in Bytes /\ R(k) \in Bytes /\ F[k] \o R(k) = W
    BY <1>1, <1>6, <2>1
  <2> HIDE DEF j
  <2>4. (F[j] \o ss[k]) \o R(k) = F[j] \o (ss[k] \o R(k))
    BY <2>2, <2>3, RowAssoc, Zenon
  <2>a. ss[k] \o R(k) \in Bytes
    BY <2>3, RowProps, Zenon
  <2>b. F[j] \o R(j) = F[j] \o (ss[k] \o R(k))
    BY <2>2, <2>3, <2>4
  <2>5. R(j) = ss[k] \o R(k)
    BY <2>2, <2>a, <2>b, SameRest, Zenon
  <2> QED
    BY <2>5 DEF j
<1>8. R(0) = W
  <2>1. F[0] \o R(0) = W /\ R(0) \in Bytes
    BY <1>0, <1>6
  <2> QED
    BY <1>1, <2>1, RowEmpty
<1>9. R(n) = tail
  <2>1. F[n] \o R(n) = W /\ R(n) \in Bytes /\ F[n] \in Bytes
    BY <1>0, <1>1, <1>6
  <2> QED
    BY <1>2, <2>1, SameRest
<1> QED
  BY <1>6, <1>7, <1>8, <1>9 DEF F, W, R, n

\* A drop behind the first of two runs.
LEMMA DropRow ==
  ASSUME NEW a \in Bytes, NEW d \in Bytes, NEW n \in 0..Len(d)
  PROVE  Drop(a \o d, Len(a) + n) = Drop(d, n)
<1> DEFINE u == a \o d
           m == Len(a) + n
           x == Drop(u, m)
           y == Drop(d, n)
<1>0. Len(a) \in Nat /\ Len(d) \in Nat
  BY BytesLen
<1>1. u \in Bytes /\ Len(u) = Len(a) + Len(d) /\ \A i \in 1..Len(d) : u[Len(a) + i] = d[i]
  BY RowProps
<1> HIDE DEF u
<1>2. m \in 0..Len(u)
  BY <1>0, <1>1
<1>a. m = Len(a) + n
  OBVIOUS
<1> HIDE DEF m
<1>3. x \in Bytes /\ Len(x) = Len(u) - m /\ \A i \in 1..(Len(u) - m) : x[i] = u[m + i]
  BY <1>1, <1>2, DropProps
<1>4. y \in Bytes /\ Len(y) = Len(d) - n /\ \A i \in 1..(Len(d) - n) : y[i] = d[n + i]
  BY DropProps
<1> HIDE DEF x, y
<1>5. Len(x) = Len(y) /\ Len(u) - m = Len(d) - n
  BY <1>0, <1>1, <1>3, <1>4, <1>a
<1>6. ASSUME NEW i \in 1..Len(x) PROVE x[i] = y[i]
  <2>1. i \in 1..(Len(d) - n) /\ n + i \in 1..Len(d) /\ Len(a) + (n + i) = m + i
    BY <1>0, <1>3, <1>5, <1>a
  <2>2. u[Len(a) + (n + i)] = d[n + i]
    BY <1>1, <2>1
  <2> QED
    BY <1>3, <1>4, <1>5, <2>1, <2>2
<1>7. x = y
  BY <1>3, <1>4, <1>5, <1>6, SameBytes
<1> QED
  BY <1>7 DEF x, y, u, m

\* A piece behind the first of two runs.
LEMMA CutRow ==
  ASSUME NEW a \in Bytes, NEW d \in Bytes, NEW i \in 1..(Len(d) + 1), NEW j \in (i - 1)..Len(d)
  PROVE  SubSeq(a \o d, Len(a) + i, Len(a) + j) = SubSeq(d, i, j)
<1> DEFINE u == a \o d
           i2 == Len(a) + i
           j2 == Len(a) + j
           x == SubSeq(u, i2, j2)
           y == SubSeq(d, i, j)
<1>0. Len(a) \in Nat /\ Len(d) \in Nat
  BY BytesLen
<1>1. u \in Bytes /\ Len(u) = Len(a) + Len(d) /\ \A k \in 1..Len(d) : u[Len(a) + k] = d[k]
  BY RowProps
<1> HIDE DEF u
<1>2. i2 \in 1..(Len(u) + 1) /\ j2 \in (i2 - 1)..Len(u) /\ j2 - i2 + 1 = j - i + 1
  BY <1>0, <1>1
<1>a. i2 = Len(a) + i
  OBVIOUS
<1> HIDE DEF i2, j2
<1>3. x \in Bytes /\ Len(x) = j2 - i2 + 1 /\ \A k \in 1..(j2 - i2 + 1) : x[k] = u[i2 + k - 1]
  BY <1>1, <1>2, CutProps
<1>4. y \in Bytes /\ Len(y) = j - i + 1 /\ \A k \in 1..(j - i + 1) : y[k] = d[i + k - 1]
  BY CutProps
<1> HIDE DEF x, y
<1>6. ASSUME NEW k \in 1..Len(x) PROVE x[k] = y[k]
  <2>1. k \in 1..(j - i + 1) /\ i + k - 1 \in 1..Len(d) /\ Len(a) + (i + k - 1) = i2 + k - 1
    BY <1>0, <1>2, <1>3, <1>a
  <2>2. u[Len(a) + (i + k - 1)] = d[i + k - 1]
    BY <1>1, <2>1
  <2>3. x[k] = u[i2 + k - 1]
    BY <1>2, <1>3, <2>1
  <2> QED
    BY <1>4, <2>1, <2>2, <2>3
<1>7. x = y
  BY <1>2, <1>3, <1>4, <1>6, SameBytes
<1> QED
  BY <1>7 DEF x, y, u, i2, j2

-----------------------------------------------------------------------------
(* Lines *)

\* The first line that is left from p on, where it ends with a line feed.
LineAt(d, p) == <<Unterminated(SubSeq(d, p, p + Index(Drop(d, p - 1), <<LF>>) - 2))>>

\* LinesFrom is a solution of its recursive definition.
LEMMA LinesDef ==
  ASSUME NEW d \in Bytes, NEW p \in 1..(Len(d) + 1)
  PROVE  LET i == Index(Drop(d, p - 1), <<LF>>)
         IN LinesFrom(d)[p] = IF i = 0 THEN <<Unterminated(Drop(d, p - 1))>> ELSE LineAt(d, p) \o LinesFrom(d)[p + i]
<1> DEFINE n == Len(d)
           At(q) == Index(Drop(d, q - 1), <<LF>>)
           S == {q \in 1..(n + 1) : At(q) = 0}
           base == [q \in 1..(n + 1) |-> <<Unterminated(Drop(d, q - 1))>>]
           piece == [q \in 1..(n + 1) |-> LineAt(d, q)]
           jump == [q \in 1..(n + 1) |-> q + At(q)]
           Piece(f, q) == IF At(q) = 0 THEN <<Unterminated(Drop(d, q - 1))>>
                          ELSE <<Unterminated(SubSeq(d, q, q + At(q) - 2))>> \o f[q + At(q)]
           F == LinesFrom(d)
<1>0. n \in Nat
  BY BytesLen
<1>1. \A q \in 1..(n + 1) : q \notin S => jump[q] \in (q + 1)..(n + 1)
  <2> SUFFICES ASSUME NEW q \in 1..(n + 1), q \notin S PROVE jump[q] \in (q + 1)..(n + 1)
    OBVIOUS
  <2>1. q - 1 \in 0..n
    BY <1>0
  <2> DEFINE e == Drop(d, q - 1)
  <2>2. e \in Bytes /\ Len(e) = n - (q - 1)
    BY <2>1, DropProps
  <2> HIDE DEF e
  <2>3. <<LF>> \in Bytes /\ <<LF>> # <<>>
    BY OneByte, Separators
  <2>4. Index(e, <<LF>>) \in 0..Len(e)
    BY <2>2, <2>3, IndexProps
  <2>5. Index(e, <<LF>>) # 0 /\ jump[q] = q + Index(e, <<LF>>)
    BY DEF e
  <2> HIDE DEF jump, S, n
  <2> QED
    BY <1>0, <2>2, <2>4, <2>5
<1>2. \A f : \A q \in 1..(n + 1) : Piece(f, q) = ScanStep(S, base, piece, jump, f, q)
  <2> SUFFICES ASSUME NEW f, NEW q \in 1..(n + 1) PROVE Piece(f, q) = ScanStep(S, base, piece, jump, f, q)
    BY Zenon
  <2>1. q \in S <=> At(q) = 0
    BY Zenon
  <2>2. base[q] = <<Unterminated(Drop(d, q - 1))>> /\ piece[q] = LineAt(d, q) /\ jump[q] = q + At(q)
    BY Zenon
  <2> QED
    BY <2>1, <2>2, Zenon DEF ScanStep, LineAt
<1> HIDE DEF Piece, S, base, piece, jump
<1>3. PICK f : Scans(f, n, S, base, piece, jump)
  BY <1>0, <1>1, ScanExists, Zenon
<1>4. f = [q \in 1..(n + 1) |-> Piece(f, q)]
  BY <1>2, <1>3 DEF Scans
<1>5. F = [q \in 1..(n + 1) |-> Piece(F, q)]
  BY <1>4, Zenon DEF LinesFrom, Piece
<1> HIDE DEF F
<1>6. F[p] = Piece(F, p)
  BY <1>5
<1> QED
  BY <1>6, Zenon DEF F, Piece, LineAt

\* The lines of the end of a run do not depend on what is before it.
LEMMA LinesBehind ==
  ASSUME NEW a \in Bytes, NEW d \in Bytes
  PROVE  \A p \in 1..(Len(d) + 1) : LinesFrom(a \o d)[Len(a) + p] = LinesFrom(d)[p]
<1> DEFINE u == a \o d
           n == Len(d)
           T == {j \in Nat : j <= n => LinesFrom(u)[Len(a) + (n + 1 - j)] = LinesFrom(d)[n + 1 - j]}
<1>0. Len(a) \in Nat /\ n \in Nat
  BY BytesLen
<1>1. u \in Bytes /\ Len(u) = Len(a) + n
  BY RowProps
<1>2. \A j \in Nat : (\A k \in 0..(j - 1) : k \in T) => j \in T
  <2>0. SUFFICES ASSUME NEW j \in Nat, \A k \in 0..(j - 1) : k \in T, j <= n
                 PROVE  LinesFrom(u)[Len(a) + (n + 1 - j)] = LinesFrom(d)[n + 1 - j]
    OBVIOUS
  <2> DEFINE p == n + 1 - j
             q == Len(a) + p
             e == Drop(d, p - 1)
             i == Index(e, <<LF>>)
  <2>1. p \in 1..(n + 1) /\ p - 1 \in 0..n /\ q \in 1..(Len(u) + 1) /\ q - 1 = Len(a) + (p - 1)
    BY <1>0, <1>1, <2>0
  <2>2. Drop(u, q - 1) = e
    BY <2>1, DropRow
  <2>3. e \in Bytes /\ Len(e) = n - (p - 1)
    BY <2>1, DropProps
  <2>4. i \in 0..Len(e)
    BY <2>3, IndexProps, OneByte, Separators
  <2>5. LinesFrom(d)[p] = IF i = 0 THEN <<Unterminated(e)>> ELSE LineAt(d, p) \o LinesFrom(d)[p + i]
    BY <2>1, LinesDef
  <2>6. LinesFrom(u)[q] = IF i = 0 THEN <<Unterminated(e)>> ELSE LineAt(u, q) \o LinesFrom(u)[q + i]
    BY <1>1, <2>1, <2>2, LinesDef
  <2>7. CASE i = 0
    BY <2>5, <2>6, <2>7
  <2>8. CASE i # 0
    <3>1. p + i - 2 \in (p - 1)..n /\ q + i - 2 = Len(a) + (p + i - 2)
      <4>1. i \in 1..(n - (p - 1)) /\ p \in 1..(n + 1) /\ n \in Nat /\ Len(a) \in Nat /\ q = Len(a) + p
        BY <1>0, <2>1, <2>3, <2>4, <2>8
      <4> HIDE DEF i, n, p, q
      <4> QED
        BY <4>1
    <3>2. SubSeq(u, q, q + i - 2) = SubSeq(d, p, p + i - 2)
      BY <2>1, <3>1, CutRow
    <3>3. LineAt(u, q) = LineAt(d, p)
      BY <2>2, <3>2, Zenon DEF LineAt
    <3>4. j - i \in 0..(j - 1) /\ p + i = n + 1 - (j - i) /\ q + i = Len(a) + (n + 1 - (j - i)) /\ j - i \in Nat /\ j - i <= n
      <4>1. i \in 1..(n - (p - 1))
        BY <2>3, <2>4, <2>8
      <4> HIDE DEF i, n
      <4> QED
        BY <1>0, <2>0, <4>1
    <3>5. LinesFrom(u)[q + i] = LinesFrom(d)[p + i]
      <4>1. j - i \in T
        BY <2>0, <3>4
      <4> HIDE DEF p, q, i, u, n
      <4> QED
        BY <3>4, <4>1
    <3> QED
      BY <2>5, <2>6, <2>8, <3>3, <3>5
  <2> QED
    BY <2>7, <2>8
<1>3. Nat \subseteq T
  BY <1>2, StrongInductionSet, Zenon
<1>4. ASSUME NEW p \in 1..(n + 1) PROVE LinesFrom(u)[Len(a) + p] = LinesFrom(d)[p]
  <2>1. n + 1 - p \in Nat /\ n + 1 - p <= n /\ n + 1 - (n + 1 - p) = p
    BY <1>0
  <2> HIDE DEF u, n
  <2> QED
    BY <1>3, <2>1
<1> QED
  BY <1>4

\* The first line feed is behind the first line.
LEMMA LineFeed ==
  ASSUME NEW l, IsLine(l), NEW t \in Bytes
  PROVE  /\ Index(l \o (CRLF \o t), <<LF>>) = Len(l) + 2
         /\ Unterminated(SubSeq(l \o (CRLF \o t), 1, Len(l) + 1)) = l
<1> DEFINE u == l \o (CRLF \o t)
           n == Len(l)
           L == <<LF>>
           x == SubSeq(u, 1, n + 1)
<1>0. l \in Bytes /\ n \in Nat /\ Len(t) \in Nat
  BY BytesLen DEF IsLine
<1>a. L \in Bytes /\ Len(L) = 1 /\ L # <<>> /\ L[1] = LF
  BY OneByte, Separators
<1>b. CRLF \in Bytes /\ Len(CRLF) = 2 /\ CRLF[1] = CR /\ CRLF[2] = LF /\ CR # LF
  BY Separators
<1>1. /\ u \in Bytes /\ Len(u) = n + Len(CRLF) + Len(t) /\ (\A i \in 1..n : u[i] = l[i])
      /\ (\A i \in 1..Len(CRLF) : u[n + i] = CRLF[i])
  BY <1>0, <1>b, RowOfThree, ZenonT(60)
<1>l. \A i \in 1..n : l[i] # LF /\ l[i] # CR
  BY DEF IsLine
<1> HIDE DEF u, n, L
<1>2. Len(u) = n + 2 + Len(t) /\ u[n + 2] = LF /\ u[n + 1] = CR
  BY <1>b, <1>1
<1>3. HitAt(u, L, n + 2)
  <2>1. n + 2 \in 1..(Len(u) - Len(L) + 1) /\ \A j \in 1..Len(L) : j = 1 /\ (n + 2) + j - 1 = n + 2
    BY <1>0, <1>2, <1>a
  <2> QED
    BY <1>2, <1>a, <2>1 DEF HitAt
<1>4. ASSUME NEW j \in 1..(n + 2 - 1), HitAt(u, L, j) PROVE FALSE
  <2>1. u[j] = LF
    <3>1. 1 \in 1..Len(L) /\ j + 1 - 1 = j
      BY <1>a
    <3>2. u[j + 1 - 1] = L[1]
      BY <1>4, <3>1 DEF HitAt
    <3> QED
      BY <1>a, <3>1, <3>2
  <2>2. CASE j \in 1..n
    BY <1>1, <1>l, <2>1, <2>2
  <2>3. CASE j = n + 1
    BY <1>2, <1>b, <2>1, <2>3
  <2> QED
    BY <1>0, <2>2, <2>3
<1> DEFINE m == n + 2
<1>5. m \in Int /\ HitAt(u, L, m) /\ \A j \in 1..(m - 1) : ~HitAt(u, L, j)
  BY <1>0, <1>3, <1>4
<1> HIDE DEF m
<1>6. Index(u, L) = m
  BY <1>1, <1>5, <1>a, IndexIs
<1>7. x \in Bytes /\ Len(x) = n + 1 /\ \A i \in 1..(n + 1) : x[i] = u[i]
  <2>1. n + 1 \in 0..Len(u)
    BY <1>0, <1>2
  <2> DEFINE k == n + 1
  <2> HIDE DEF k
  <2>2. Take(u, k) \in Bytes /\ Len(Take(u, k)) = k /\ \A i \in 1..k : Take(u, k)[i] = u[i]
    BY <1>1, <2>1, TakeProps DEF k
  <2> QED
    BY <2>2 DEF k, Take
<1> HIDE DEF x
<1>8. x # <<>> /\ Last(x) = CR
  <2>1. x[n + 1] = CR
    BY <1>0, <1>2, <1>7
  <2> QED
    BY <1>0, <1>7, <2>1, RowEmpty DEF Last
<1>9. Front(x) = l
  <2> DEFINE y == Take(x, n)
  <2>1. n \in 0..Len(x) /\ Len(x) - 1 = n
    BY <1>0, <1>7
  <2>2. y \in Bytes /\ Len(y) = n /\ \A i \in 1..n : y[i] = x[i]
    BY <1>7, <2>1, TakeProps
  <2>3. \A i \in 1..n : y[i] = l[i]
    BY <1>0, <1>1, <1>7, <2>2
  <2>4. Front(x) = y
    BY <2>1 DEF Front, Take
  <2> HIDE DEF y
  <2>5. y = l
    BY <1>0, <2>2, <2>3, SameBytes DEF n
  <2> QED
    BY <2>4, <2>5
<1>10. Unterminated(x) = l
  BY <1>8, <1>9 DEF Unterminated
<1> QED
  BY <1>6, <1>10 DEF m, L, u, n, x

\* The lines of a header, one at a time.
LEMMA LinesStep ==
  ASSUME NEW l, IsLine(l), NEW t \in Bytes
  PROVE  Lines(l \o (CRLF \o t)) = <<l>> \o Lines(t)
<1> DEFINE u == l \o (CRLF \o t)
           a == l \o CRLF
           n == Len(l)
<1>0. l \in Bytes /\ n \in Nat /\ Len(t) \in Nat
  BY BytesLen DEF IsLine
<1>b. CRLF \in Bytes /\ Len(CRLF) = 2
  BY Separators
<1>1. a \in Bytes /\ Len(a) = n + 2 /\ a \o t = u
  <2>1. a \in Bytes /\ Len(a) = n + Len(CRLF)
    BY <1>0, <1>b, RowProps, Zenon
  <2>2. a \o t = u
    BY <1>0, <1>b, RowAssoc, Zenon
  <2> QED
    BY <1>b, <2>1, <2>2
<1>2. u \in Bytes /\ Len(u) = n + 2 + Len(t)
  <2>1. a \o t \in Bytes /\ Len(a \o t) = Len(a) + Len(t)
    BY <1>1, RowProps, Zenon
  <2> HIDE DEF a, u
  <2> QED
    BY <1>1, <2>1
<1>3. Index(u, <<LF>>) = n + 2 /\ Unterminated(SubSeq(u, 1, n + 1)) = l
  BY LineFeed
<1> HIDE DEF u, a
<1>4. Drop(u, 1 - 1) = u
  <2>1. Take(u, 0) \o Drop(u, 0) = u /\ Take(u, 0) \in Bytes /\ Len(Take(u, 0)) = 0 /\ Drop(u, 0) \in Bytes
    <3>1. 0 \in 0..Len(u)
      BY <1>0, <1>2
    <3> QED
      BY <1>2, <3>1, TakeDrop, TakeProps, DropProps
  <2>2. Take(u, 0) = <<>>
    BY <2>1, RowEmpty, Zenon
  <2>3. <<>> \o Drop(u, 0) = Drop(u, 0)
    BY <2>1, RowEmpty, Zenon
  <2>4. Drop(u, 0) = u
    BY <2>1, <2>2, <2>3, Zenon
  <2>5. 1 - 1 = 0
    OBVIOUS
  <2> QED
    BY <2>4, <2>5, Zenon
<1>5. LinesFrom(u)[1] = LineAt(u, 1) \o LinesFrom(u)[1 + (n + 2)]
  <2>1. 1 \in 1..(Len(u) + 1) /\ n + 2 # 0
    BY <1>0, <1>2
  <2>2. LinesFrom(u)[1] = IF Index(Drop(u, 1 - 1), <<LF>>) = 0 THEN <<Unterminated(Drop(u, 1 - 1))>>
                          ELSE LineAt(u, 1) \o LinesFrom(u)[1 + Index(Drop(u, 1 - 1), <<LF>>)]
    BY <1>2, <2>1, LinesDef
  <2> QED
    BY <1>3, <1>4, <2>1, <2>2
<1>6. LineAt(u, 1) = <<l>>
  <2>1. 1 + (n + 2) - 2 = n + 1
    BY <1>0
  <2> QED
    BY <1>3, <1>4, <2>1 DEF LineAt
<1>7. LinesFrom(u)[1 + (n + 2)] = LinesFrom(t)[1]
  <2>1. 1 \in 1..(Len(t) + 1) /\ 1 + (n + 2) = Len(a) + 1
    BY <1>0, <1>1
  <2>2. LinesFrom(a \o t)[Len(a) + 1] = LinesFrom(t)[1]
    BY <1>1, <2>1, LinesBehind
  <2> QED
    BY <1>1, <2>1, <2>2
<1> QED
  BY <1>5, <1>6, <1>7 DEF Lines, u

\* Nothing is one empty line, and a line end is two.
LEMMA NoLines ==
  /\ Lines(<<>>) = <<<<>>>>
  /\ Lines(CRLF) = <<<<>>, <<>>>>
<1>1. <<>> \in Bytes /\ Len(<<>>) = 0
  BY RowEmpty
<1>2. Drop(<<>>, 1 - 1) = <<>>
  <2>1. 0 \in 0..Len(<<>>)
    BY <1>1
  <2>2. Drop(<<>>, 0) \in Bytes /\ Len(Drop(<<>>, 0)) = Len(<<>>) - 0
    BY <1>1, <2>1, DropProps
  <2> QED
    BY <1>1, <2>2, RowEmpty
<1>3. Index(<<>>, <<LF>>) = 0
  <2>1. Index(<<>>, <<LF>>) \in 0..Len(<<>>)
    BY <1>1, IndexProps, OneByte, Separators
  <2> QED
    BY <1>1, <2>1
<1>4. Lines(<<>>) = <<<<>>>>
  <2>1. LinesFrom(<<>>)[1] = IF Index(Drop(<<>>, 1 - 1), <<LF>>) = 0 THEN <<Unterminated(Drop(<<>>, 1 - 1))>>
                             ELSE LineAt(<<>>, 1) \o LinesFrom(<<>>)[1 + Index(Drop(<<>>, 1 - 1), <<LF>>)]
    BY <1>1, LinesDef
  <2>2. Unterminated(<<>>) = <<>>
    BY DEF Unterminated
  <2> QED
    BY <1>2, <1>3, <2>1, <2>2 DEF Lines
<1>5. IsLine(<<>>)
  BY <1>1 DEF IsLine
<1>6. Lines(<<>> \o (CRLF \o <<>>)) = <<<<>>>> \o Lines(<<>>)
  BY <1>1, <1>5, LinesStep
<1>7. <<>> \o (CRLF \o <<>>) = CRLF
  BY RowEmpty, Separators
<1> QED
  BY <1>4, <1>6, <1>7

-----------------------------------------------------------------------------
(* Headers *)

\* The lines of a header, each with its end.
Rows(ls) == [i \in DOMAIN ls |-> ls[i] \o CRLF]

\* A header has at least one line, and none that is empty.
AreLines(ls) == ls \in Seq(Bytes) /\ ls # <<>> /\ \A i \in 1..Len(ls) : IsLine(ls[i]) /\ ls[i] # <<>>

\* What is left of a header behind its first j lines.
LEMMA HeaderRest ==
  ASSUME NEW ls, AreLines(ls)
  PROVE  LET H(j) == RestOf(Rows(ls), CRLF, j)
             n == Len(ls)
         IN /\ H(0) = Header(ls) /\ Header(ls) \in Bytes
            /\ H(n) = CRLF
            /\ \A j \in 1..n : H(j) \in Bytes /\ H(j - 1) = ls[j] \o (CRLF \o H(j))
<1> DEFINE H(j) == RestOf(Rows(ls), CRLF, j)
           n == Len(ls)
           ss == Rows(ls)
<1>0. ls \in Seq(Bytes) /\ n \in Nat /\ DOMAIN ls = 1..n /\ \A j \in 1..n : ls[j] \in Bytes
  BY DEF AreLines
<1>a. CRLF \in Bytes
  BY Separators
<1>1. \A j \in 1..n : ls[j] \o CRLF \in Bytes
  BY <1>0, <1>a, RowProps
<1>2. ss \in Seq(Bytes) /\ Len(ss) = n /\ \A j \in 1..n : ss[j] = ls[j] \o CRLF
  BY <1>0, <1>1 DEF Rows
<1> HIDE DEF ss, n
<1>3. /\ RestOf(ss, CRLF, 0) = FlattenSeq(ss) \o CRLF
      /\ \A k \in 0..Len(ss) : RestOf(ss, CRLF, k) \in Bytes /\ FlatTo(ss)[k] \o RestOf(ss, CRLF, k) = FlattenSeq(ss) \o CRLF
      /\ \A k \in 1..Len(ss) : RestOf(ss, CRLF, k - 1) = ss[k] \o RestOf(ss, CRLF, k)
      /\ RestOf(ss, CRLF, Len(ss)) = CRLF
  BY <1>2, <1>a, RestProps
<1>4. H(0) = Header(ls)
  BY <1>3 DEF Header, ss, Rows
<1>5. \A k \in 0..n : H(k) \in Bytes
  BY <1>2, <1>3 DEF ss
<1>6. ASSUME NEW j \in 1..n PROVE H(j - 1) = ls[j] \o (CRLF \o H(j))
  <2>1. H(j) \in Bytes /\ ls[j] \in Bytes
    BY <1>0, <1>5
  <2>2. (ls[j] \o CRLF) \o H(j) = ls[j] \o (CRLF \o H(j))
    BY <1>a, <2>1, RowAssoc, Zenon
  <2>3. H(j - 1) = ss[j] \o H(j)
    BY <1>2, <1>3 DEF ss
  <2> QED
    BY <1>2, <2>2, <2>3
<1>7. H(n) = CRLF
  BY <1>2, <1>3 DEF ss
<1>8. 0 \in 0..n /\ \A j \in 1..n : j \in 0..n
  BY <1>0
<1> QED
  BY <1>4, <1>5, <1>6, <1>7, <1>8, Zenon DEF n

\* The first blank line of a message is the one that ends its header.
LEMMA HeaderEnd ==
  ASSUME NEW ls, AreLines(ls), NEW t \in Bytes
  PROVE  /\ Header(ls) \in Bytes /\ Len(Header(ls)) >= 4
         /\ Index(Header(ls) \o t, Blank) = Len(Header(ls)) - 3
         /\ FindHeaderEnd(Header(ls) \o t) = Len(Header(ls))
<1> DEFINE H(j) == RestOf(Rows(ls), CRLF, j)
           n == Len(ls)
           Claim(j) == Len(H(j)) >= 4 /\ Index(H(j) \o t, Blank) = Len(H(j)) - 3
           T == {k \in Nat : k + 1 <= n => Claim(n - (k + 1))}
<1>0. n \in Nat /\ n # 0 /\ \A j \in 1..n : IsLine(ls[j]) /\ ls[j] \in Bytes /\ Len(ls[j]) \in Nat \ {0}
  <2>1. ls \in Seq(Bytes) /\ ls # <<>> /\ \A j \in 1..n : IsLine(ls[j]) /\ ls[j] # <<>>
    BY DEF AreLines
  <2>2. n \in Nat /\ n # 0
    BY <2>1, EmptySeq
  <2>3. \A j \in 1..n : ls[j] \in Bytes
    BY <2>1 DEF IsLine
  <2>4. \A j \in 1..n : Len(ls[j]) \in Nat \ {0}
    BY <2>1, <2>3, BytesLen, RowEmpty
  <2> QED
    BY <2>1, <2>2, <2>3, <2>4
<1>1. /\ H(0) = Header(ls) /\ Header(ls) \in Bytes
      /\ H(n) = CRLF
      /\ \A j \in 1..n : H(j) \in Bytes /\ H(j - 1) = ls[j] \o (CRLF \o H(j))
  BY HeaderRest
<1>a. CRLF \in Bytes /\ Len(CRLF) = 2 /\ Blank \in Bytes /\ Len(Blank) = 4
  BY Separators
<1> HIDE DEF H, n
<1>b. \A j \in 0..n : H(j) \in Bytes /\ Len(H(j)) \in Nat
  <2>1. \A j \in 0..n : j = 0 \/ j \in 1..n
    BY <1>0
  <2> QED
    BY <1>1, <2>1, BytesLen
<1>2. ASSUME NEW j \in 1..n PROVE H(j - 1) \o t = ls[j] \o (CRLF \o (H(j) \o t)) /\ Len(H(j - 1)) = Len(ls[j]) + 2 + Len(H(j))
  <2>1. ls[j] \in Bytes /\ H(j) \in Bytes /\ CRLF \o H(j) \in Bytes /\ H(j - 1) = ls[j] \o (CRLF \o H(j))
    BY <1>0, <1>1, <1>a, RowProps
  <2>2. (ls[j] \o (CRLF \o H(j))) \o t = ls[j] \o ((CRLF \o H(j)) \o t)
    BY <2>1, RowAssoc, Zenon
  <2>3. (CRLF \o H(j)) \o t = CRLF \o (H(j) \o t)
    BY <1>a, <2>1, RowAssoc, Zenon
  <2>4. Len(ls[j] \o (CRLF \o H(j))) = Len(ls[j]) + 2 + Len(H(j))
    BY <2>1, LineLen, Zenon
  <2> QED
    BY <1>a, <2>1, <2>2, <2>3, <2>4
<1>3. 0 \in T
  <2>1. n \in 1..n /\ n - (0 + 1) = n - 1 /\ n - 1 \in 0..n
    BY <1>0
  <2> DEFINE l == ls[n]
             k == n - 1
  <2>2. H(k) \o t = l \o (CRLF \o (CRLF \o t)) /\ Len(H(k)) = Len(l) + 2 + 2
    BY <1>1, <1>2, <1>a, <2>1
  <2>3. CRLF \o (CRLF \o t) = Blank \o t
    BY <1>a, RowAssoc, Zenon DEF Blank
  <2>4. IsLine(l) /\ Len(l) \in Nat
    BY <1>0, <2>1
  <2> HIDE DEF l, k
  <2>5. Index(l \o (Blank \o t), Blank) = Len(l) + 1
    BY <2>4, BlankHere, Zenon
  <2>6. Claim(k)
    BY <2>2, <2>3, <2>4, <2>5
  <2> HIDE DEF Claim
  <2> QED
    BY <2>1, <2>6 DEF k
<1>4. \A k \in Nat : k \in T => k + 1 \in T
  <2> HIDE DEF Claim
  <2>0. SUFFICES ASSUME NEW k \in Nat, k \in T, k + 1 + 1 <= n PROVE Claim(n - (k + 1 + 1))
    OBVIOUS
  <2> DEFINE j == n - (k + 1)
             i == n - (k + 1 + 1)
  <2>1. j \in 1..n /\ j + 1 \in 1..n /\ i = j - 1 /\ k + 1 <= n
    BY <1>0, <2>0
  <2>2. Claim(j)
    BY <2>0, <2>1
  <2> DEFINE l == ls[j]
             v == H(j) \o t
  <2> HIDE DEF i, j
  <2>3. H(i) \o t = l \o (CRLF \o v) /\ Len(H(i)) = Len(l) + 2 + Len(H(j))
    BY <1>2, <2>1
  <2>4. v \in Bytes /\ v[1] # CR
    <3> DEFINE m == j + 1
               w == CRLF \o (H(m) \o t)
    <3>1. m \in 1..n /\ m - 1 = j
      BY <1>0, <2>1
    <3> HIDE DEF m
    <3>2. v = ls[m] \o w
      BY <1>2, <3>1
    <3>3. w \in Bytes /\ ls[m] \in Bytes
      <4>1. H(m) \in Bytes /\ ls[m] \in Bytes
        BY <1>0, <1>1, <3>1
      <4>2. H(m) \o t \in Bytes
        BY <4>1, RowProps, Zenon
      <4> QED
        BY <1>a, <4>1, <4>2, RowProps, Zenon
    <3> HIDE DEF w
    <3>4. 1 \in 1..Len(ls[m])
      BY <1>0, <3>1
    <3>5. (ls[m] \o w)[1] = ls[m][1] /\ ls[m] \o w \in Bytes
      BY <3>3, <3>4, RowProps
    <3>6. ls[m][1] # CR
      BY <1>0, <3>1, <3>4 DEF IsLine
    <3> HIDE DEF v
    <3> QED
      BY <3>2, <3>5, <3>6
  <2>5. Len(H(j)) >= 4 /\ Index(v, Blank) = Len(H(j)) - 3
    BY <2>2 DEF Claim
  <2>6. IsLine(l) /\ Len(l) \in Nat /\ Len(H(j)) \in Nat
    BY <1>0, <1>b, <2>1
  <2> HIDE DEF v, l
  <2>7. Index(v, Blank) # 0
    <3> DEFINE g == Len(H(j))
    <3>1. g \in Nat /\ g >= 4 /\ Index(v, Blank) = g - 3
      BY <2>5, <2>6
    <3> HIDE DEF g
    <3> QED
      BY <3>1
  <2>8. Index(l \o (CRLF \o v), Blank) = Len(l) + 2 + Index(v, Blank)
    BY <2>4, <2>6, <2>7, BlankBehind, Zenon
  <2>9. Claim(i)
    BY <2>3, <2>5, <2>6, <2>8 DEF Claim
  <2> QED
    BY <2>9 DEF i
<1>5. Nat \subseteq T
  BY <1>3, <1>4, NatInductionSet, Zenon
<1>6. Claim(0)
  <2>1. n - 1 \in Nat /\ (n - 1) + 1 <= n /\ n - ((n - 1) + 1) = 0
    BY <1>0
  <2> HIDE DEF Claim
  <2> QED
    BY <1>5, <2>1
<1>7. FindHeaderEnd(H(0) \o t) = Len(H(0))
  <2>1. Len(H(0)) - 3 # 0 /\ Len(H(0)) - 3 + 3 = Len(H(0))
    <3> DEFINE g == Len(H(0))
    <3>1. g \in Nat /\ g >= 4
      BY <1>0, <1>6, <1>b
    <3> HIDE DEF g
    <3>2. g - 3 # 0 /\ g - 3 + 3 = g
      BY <3>1
    <3> QED
      BY <3>2 DEF g
  <2> QED
    BY <1>6, <2>1 DEF FindHeaderEnd
<1> QED
  BY <1>1, <1>6, <1>7

\* The lines of a header are the ones it was made of, and two empty ones.
LEMMA HeaderLinesAre ==
  ASSUME NEW ls, AreLines(ls)
  PROVE  /\ Lines(Header(ls)) \in Seq(Bytes) /\ Len(Lines(Header(ls))) = Len(ls) + 2
         /\ \A i \in 1..Len(ls) : Lines(Header(ls))[i] = ls[i]
         /\ Lines(Header(ls))[Len(ls) + 1] = <<>> /\ Lines(Header(ls))[Len(ls) + 2] = <<>>
<1> DEFINE H(j) == RestOf(Rows(ls), CRLF, j)
           n == Len(ls)
           Claim(j) == /\ Lines(H(j)) \in Seq(Bytes) /\ Len(Lines(H(j))) = n - j + 2
                       /\ \A i \in 1..(n - j) : Lines(H(j))[i] = ls[j + i]
                       /\ Lines(H(j))[n - j + 1] = <<>> /\ Lines(H(j))[n - j + 2] = <<>>
           T == {k \in Nat : k <= n => Claim(n - k)}
<1>0. n \in Nat /\ \A j \in 1..n : IsLine(ls[j]) /\ ls[j] \in Bytes
  BY DEF AreLines
<1>1. /\ H(0) = Header(ls)
      /\ H(n) = CRLF
      /\ \A j \in 1..n : H(j) \in Bytes /\ H(j - 1) = ls[j] \o (CRLF \o H(j))
  BY HeaderRest
<1> HIDE DEF H, n
<1>2. 0 \in T
  <2>1. n - 0 = n /\ n - n = 0
    BY <1>0
  <2>2. Lines(H(n)) = <<<<>>, <<>>>>
    BY <1>1, NoLines
  <2>3. <<<<>>, <<>>>> \in Seq(Bytes) /\ Len(<<<<>>, <<>>>>) = 2 /\ <<<<>>, <<>>>>[1] = <<>> /\ <<<<>>, <<>>>>[2] = <<>>
    BY RowEmpty
  <2>4. Claim(n)
    BY <2>1, <2>2, <2>3
  <2> HIDE DEF Claim
  <2> QED
    BY <2>1, <2>4
<1>3. \A k \in Nat : k \in T => k + 1 \in T
  <2> HIDE DEF Claim
  <2>0. SUFFICES ASSUME NEW k \in Nat, k \in T, k + 1 <= n PROVE Claim(n - (k + 1))
    OBVIOUS
  <2> DEFINE j == n - k
             i == n - (k + 1)
             L == Lines(H(j))
             l == ls[j]
             M == <<l>> \o L
  <2>1. j \in 1..n /\ i = j - 1 /\ k <= n /\ n - i = n - j + 1
    BY <1>0, <2>0
  <2>2. Claim(j)
    BY <2>0, <2>1
  <2> HIDE DEF i, j
  <2>3. /\ L \in Seq(Bytes) /\ Len(L) = n - j + 2 /\ (\A m \in 1..(n - j) : L[m] = ls[j + m])
        /\ L[n - j + 1] = <<>> /\ L[n - j + 2] = <<>>
    BY <2>2 DEF Claim
  <2>4. H(i) = l \o (CRLF \o H(j)) /\ IsLine(l) /\ H(j) \in Bytes /\ l \in Bytes
    BY <1>0, <1>1, <2>1
  <2>5. Lines(H(i)) = M
    BY <2>4, LinesStep, Zenon
  <2> HIDE DEF L
  <2>a. l = ls[j]
    OBVIOUS
  <2> HIDE DEF l
  <2>6. /\ M \in Seq(Bytes) /\ Len(M) = 1 + Len(L) /\ M[1] = l /\ \A m \in 1..Len(L) : M[1 + m] = L[m]
    BY <2>3, <2>4
  <2> HIDE DEF M
  <2>7. Len(M) = n - i + 2
    BY <1>0, <2>1, <2>3, <2>6
  <2>8. ASSUME NEW m \in 1..(n - i) PROVE M[m] = ls[i + m]
    <3>1. CASE m = 1
      <4>1. i + m = j
        BY <1>0, <2>1, <3>1
      <4> QED
        BY <2>6, <2>a, <3>1, <4>1
    <3>2. CASE m # 1
      <4>1. m - 1 \in 1..(n - j) /\ m - 1 \in 1..Len(L) /\ 1 + (m - 1) = m /\ j + (m - 1) = i + m
        BY <1>0, <2>1, <2>3, <3>2
      <4>2. M[1 + (m - 1)] = L[m - 1] /\ L[m - 1] = ls[j + (m - 1)]
        BY <2>3, <2>6, <4>1
      <4> QED
        BY <4>1, <4>2
    <3> QED
      BY <3>1, <3>2
  <2>9. M[n - i + 1] = <<>> /\ M[n - i + 2] = <<>>
    <3>1. /\ n - j + 1 \in 1..Len(L) /\ n - j + 2 \in 1..Len(L)
          /\ 1 + (n - j + 1) = n - i + 1 /\ 1 + (n - j + 2) = n - i + 2
      BY <1>0, <2>1, <2>3
    <3>2. M[1 + (n - j + 1)] = L[n - j + 1] /\ M[1 + (n - j + 2)] = L[n - j + 2]
      BY <2>6, <3>1
    <3> QED
      BY <2>3, <3>1, <3>2
  <2>10. Claim(i)
    BY <2>5, <2>6, <2>7, <2>8, <2>9 DEF Claim
  <2> QED
    BY <2>10 DEF i
<1>4. Nat \subseteq T
  BY <1>2, <1>3, NatInductionSet, Zenon
<1>5. Claim(0)
  <2>1. n \in Nat /\ n <= n /\ n - n = 0
    BY <1>0
  <2> HIDE DEF Claim
  <2> QED
    BY <1>4, <2>1
<1>6. n - 0 = n /\ \A i \in 1..n : 0 + i = i
  BY <1>0
<1> QED
  BY <1>1, <1>5, <1>6 DEF n

\* A few things in a row.
LEMMA RowOfFew ==
  ASSUME NEW a, NEW b, NEW c, NEW d
  PROVE  /\ <<a, b>> \o <<>> \o <<>> = <<a, b>>
         /\ <<a, b>> \o <<c>> \o <<>> = <<a, b, c>>
         /\ <<a, b>> \o <<>> \o <<d>> = <<a, b, d>>
         /\ <<a, b>> \o <<c>> \o <<d>> = <<a, b, c, d>>
<1> DEFINE S == {a, b, c, d}
<1>0. a \in S /\ b \in S /\ c \in S /\ d \in S
  OBVIOUS
<1>1. <<a, b>> \o <<>> = <<a, b>>
  OBVIOUS
<1> HIDE DEF S
<1>2. <<a, b>> \o <<c>> = <<a, b, c>>
  <2> DEFINE x == <<a, b>> \o <<c>>
             y == <<a, b, c>>
  <2>1. x \in Seq(S) /\ Len(x) = 3 /\ \A i \in 1..3 : x[i] = y[i]
    BY <1>0
  <2>2. y \in Seq(S) /\ Len(y) = 3
    BY <1>0
  <2> HIDE DEF x, y
  <2>3. x = y
    BY <2>1, <2>2, SeqEqual
  <2> QED
    BY <2>3 DEF x, y
<1>3. <<a, b>> \o <<d>> = <<a, b, d>>
  <2> DEFINE x == <<a, b>> \o <<d>>
             y == <<a, b, d>>
  <2>1. x \in Seq(S) /\ Len(x) = 3 /\ \A i \in 1..3 : x[i] = y[i]
    BY <1>0
  <2>2. y \in Seq(S) /\ Len(y) = 3
    BY <1>0
  <2> HIDE DEF x, y
  <2>3. x = y
    BY <2>1, <2>2, SeqEqual
  <2> QED
    BY <2>3 DEF x, y
<1>4. <<a, b, c>> \o <<>> = <<a, b, c>>
  OBVIOUS
<1>5. <<a, b, c>> \o <<d>> = <<a, b, c, d>>
  <2> DEFINE x == <<a, b, c>> \o <<d>>
             y == <<a, b, c, d>>
  <2>1. x \in Seq(S) /\ Len(x) = 4 /\ \A i \in 1..4 : x[i] = y[i]
    BY <1>0
  <2>2. y \in Seq(S) /\ Len(y) = 4
    BY <1>0
  <2> HIDE DEF x, y
  <2>3. x = y
    BY <2>1, <2>2, SeqEqual
  <2> QED
    BY <2>3 DEF x, y
<1> QED
  BY <1>1, <1>2, <1>3, <1>4, <1>5, Zenon

\* b is one of the bytes of s.
Has(s, b) == \E i \in DOMAIN s : s[i] = b

\* The bytes of two runs in a row are the bytes of both.
LEMMA HasRow ==
  ASSUME NEW s \in Bytes, NEW t \in Bytes, NEW b
  PROVE  Has(s \o t, b) <=> Has(s, b) \/ Has(t, b)
<1> DEFINE u == s \o t
<1>0. Len(s) \in Nat /\ Len(t) \in Nat /\ DOMAIN s = 1..Len(s) /\ DOMAIN t = 1..Len(t)
  BY DEF Bytes
<1>1. /\ u \in Bytes /\ Len(u) = Len(s) + Len(t)
      /\ (\A i \in 1..Len(s) : u[i] = s[i]) /\ \A i \in 1..Len(t) : u[Len(s) + i] = t[i]
  BY RowProps
<1>2. DOMAIN u = 1..Len(u)
  BY <1>1 DEF Bytes
<1> HIDE DEF u
<1>3. ASSUME Has(s, b) PROVE Has(u, b)
  <2>1. PICK i \in 1..Len(s) : s[i] = b
    BY <1>0, <1>3 DEF Has
  <2>2. i \in 1..Len(u) /\ u[i] = b
    BY <1>0, <1>1, <2>1
  <2> QED
    BY <1>2, <2>2 DEF Has
<1>4. ASSUME Has(t, b) PROVE Has(u, b)
  <2>1. PICK i \in 1..Len(t) : t[i] = b
    BY <1>0, <1>4 DEF Has
  <2>2. Len(s) + i \in 1..Len(u) /\ u[Len(s) + i] = b
    BY <1>0, <1>1, <2>1
  <2> QED
    BY <1>2, <2>2 DEF Has
<1>5. ASSUME Has(u, b) PROVE Has(s, b) \/ Has(t, b)
  <2>1. PICK i \in 1..Len(u) : u[i] = b
    BY <1>2, <1>5 DEF Has
  <2>2. CASE i <= Len(s)
    <3>1. i \in 1..Len(s) /\ s[i] = b
      BY <1>0, <1>1, <2>1, <2>2
    <3> QED
      BY <1>0, <3>1 DEF Has
  <2>3. CASE i > Len(s)
    <3>1. i - Len(s) \in 1..Len(t) /\ Len(s) + (i - Len(s)) = i
      BY <1>0, <1>1, <2>1, <2>3
    <3>2. t[i - Len(s)] = b
      BY <1>1, <2>1, <3>1
    <3> QED
      BY <1>0, <3>1, <3>2 DEF Has
  <2> QED
    BY <1>0, <1>1, <2>1, <2>2, <2>3
<1> QED
  BY <1>3, <1>4, <1>5 DEF u

\* The bytes of a header are the ones of its lines.
LEMMA HeaderHas ==
  ASSUME NEW ls, AreLines(ls), NEW b, b # CR, b # LF
  PROVE  Has(Header(ls), b) <=> \E i \in 1..Len(ls) : Has(ls[i], b)
<1> DEFINE H(j) == RestOf(Rows(ls), CRLF, j)
           n == Len(ls)
           Claim(j) == Has(H(j), b) <=> \E i \in (j + 1)..n : Has(ls[i], b)
           T == {k \in Nat : k <= n => Claim(n - k)}
<1>0. n \in Nat /\ \A j \in 1..n : IsLine(ls[j]) /\ ls[j] \in Bytes
  BY DEF AreLines
<1>1. /\ H(0) = Header(ls)
      /\ H(n) = CRLF
      /\ \A j \in 1..n : H(j) \in Bytes /\ H(j - 1) = ls[j] \o (CRLF \o H(j))
  BY HeaderRest
<1>a. CRLF \in Bytes /\ ~Has(CRLF, b)
  <2>1. CRLF \in Bytes /\ Len(CRLF) = 2 /\ CRLF[1] = CR /\ CRLF[2] = LF
    BY Separators
  <2>2. DOMAIN CRLF = 1..2
    BY <2>1 DEF Bytes
  <2> QED
    BY <2>1, <2>2 DEF Has
<1> HIDE DEF H, n
<1>2. 0 \in T
  <2>1. n - 0 = n /\ (n + 1)..n = {}
    BY <1>0
  <2>2. Claim(n)
    BY <1>1, <1>a, <2>1
  <2> HIDE DEF Claim
  <2> QED
    BY <2>1, <2>2
<1>3. \A k \in Nat : k \in T => k + 1 \in T
  <2> HIDE DEF Claim
  <2>0. SUFFICES ASSUME NEW k \in Nat, k \in T, k + 1 <= n PROVE Claim(n - (k + 1))
    OBVIOUS
  <2> DEFINE j == n - k
             i == n - (k + 1)
             v == CRLF \o H(j)
  <2>1. j \in 1..n /\ i = j - 1 /\ k <= n /\ (i + 1)..n = {j} \cup ((j + 1)..n)
    BY <1>0, <2>0
  <2>2. Claim(j)
    BY <2>0, <2>1
  <2> HIDE DEF i, j
  <2>4. H(i) = ls[j] \o v /\ H(j) \in Bytes /\ ls[j] \in Bytes
    BY <1>0, <1>1, <2>1
  <2>5. v \in Bytes /\ (Has(v, b) <=> Has(CRLF, b) \/ Has(H(j), b))
    BY <1>a, <2>4, RowProps, HasRow, Zenon
  <2> HIDE DEF v
  <2>6. Has(ls[j] \o v, b) <=> Has(ls[j], b) \/ Has(v, b)
    BY <2>4, <2>5, HasRow, Zenon
  <2>7. Has(H(i), b) <=> Has(ls[j], b) \/ Has(H(j), b)
    BY <1>a, <2>4, <2>5, <2>6
  <2>8. Claim(i)
    BY <2>1, <2>2, <2>7 DEF Claim
  <2> QED
    BY <2>8 DEF i
<1>4. Nat \subseteq T
  BY <1>2, <1>3, NatInductionSet, Zenon
<1>5. Claim(0)
  <2>1. n \in Nat /\ n <= n /\ n - n = 0
    BY <1>0
  <2> HIDE DEF Claim
  <2> QED
    BY <1>4, <2>1
<1>6. (0 + 1)..n = 1..n
  BY <1>0
<1> QED
  BY <1>1, <1>5, <1>6 DEF n

\* The field that says how the body of m is framed.
Field(m) == IF m.framing = "length" THEN <<CL, Len(Body(m))>> ELSE <<TE>>

\* The lines that m is sent with.
LEMMA HeaderLinesOf ==
  ASSUME NEW m, m.sse \in BOOLEAN, m.framing \in {"length", "chunked", "none"}
  PROVE  HeaderLines(m) = IF m.sse THEN IF m.framing = "none" THEN <<<<LINE>>, <<AE>>, <<SSE>>>> ELSE <<<<LINE>>, <<AE>>, <<SSE>>, Field(m)>>
                          ELSE IF m.framing = "none" THEN <<<<LINE>>, <<AE>>>> ELSE <<<<LINE>>, <<AE>>, Field(m)>>
<1> DEFINE c == <<SSE>>
           d == Field(m)
           x == IF m.sse THEN <<c>> ELSE <<>>
           y == IF m.framing = "none" THEN <<>> ELSE <<d>>
           a == <<LINE>>
           b == <<AE>>
<1>1. HeaderLines(m) = <<a, b>> \o x \o y
  BY DEF HeaderLines, Field
<1>2. m.sse = TRUE \/ m.sse = FALSE
  OBVIOUS
<1> HIDE DEF a, b, c, d
<1>3. HeaderLines(m) = IF m.sse THEN IF m.framing = "none" THEN <<a, b, c>> ELSE <<a, b, c, d>>
                       ELSE IF m.framing = "none" THEN <<a, b>> ELSE <<a, b, d>>
  <2>1. CASE m.sse /\ m.framing = "none"
    BY <1>1, <2>1, RowOfFew
  <2>2. CASE m.sse /\ m.framing # "none"
    <3>1. HeaderLines(m) = <<a, b>> \o <<c>> \o <<d>>
      BY <1>1, <2>2
    <3>2. HeaderLines(m) = <<a, b, c, d>>
      <4>1. <<a, b>> \o <<c>> \o <<d>> = <<a, b, c, d>>
        BY RowOfFew
      <4> QED
        BY <3>1, <4>1, Zenon
    <3> QED
      BY <2>2, <3>2
  <2>3. CASE ~m.sse /\ m.framing = "none"
    BY <1>1, <2>3, RowOfFew
  <2>4. CASE ~m.sse /\ m.framing # "none"
    BY <1>1, <2>4, RowOfFew
  <2> QED
    BY <2>1, <2>2, <2>3, <2>4
<1> QED
  BY <1>3 DEF a, b, c, d

\* What they are.
LEMMA HeaderLinesProps ==
  ASSUME NEW m, m.sse \in BOOLEAN, m.framing \in {"length", "chunked", "none"}, Body(m) \in Bytes
  PROVE  LET ls == HeaderLines(m)
             ts == {<<LINE>>, <<AE>>} \cup (IF m.sse THEN {<<SSE>>} ELSE {}) \cup (IF m.framing = "none" THEN {} ELSE {Field(m)})
         IN /\ ls \in Seq(Bytes) /\ Len(ls) \in 2..4
            /\ (\A i \in 1..Len(ls) : ls[i] \in ts) /\ \A l \in ts : \E i \in 1..Len(ls) : ls[i] = l
<1> DEFINE ls == HeaderLines(m)
           a == <<LINE>>
           b == <<AE>>
           c == <<SSE>>
           d == Field(m)
           ts == {a, b} \cup (IF m.sse THEN {c} ELSE {}) \cup (IF m.framing = "none" THEN {} ELSE {d})
           Right == /\ ls \in Seq(Bytes) /\ Len(ls) \in 2..4
                    /\ (\A i \in 1..Len(ls) : ls[i] \in ts) /\ \A l \in ts : \E i \in 1..Len(ls) : ls[i] = l
<1>1. ls = IF m.sse THEN IF m.framing = "none" THEN <<a, b, c>> ELSE <<a, b, c, d>>
           ELSE IF m.framing = "none" THEN <<a, b>> ELSE <<a, b, d>>
  BY HeaderLinesOf
<1>2. a \in Bytes /\ b \in Bytes /\ c \in Bytes
  BY DEF Bytes, LINE, AE, SSE
<1>3. d \in Bytes
  <2>1. Len(Body(m)) \in Nat
    BY BytesLen
  <2> QED
    BY <2>1 DEF Field, Bytes, CL, TE
<1> HIDE DEF a, b, c, d, ls
<1>4. ASSUME m.sse, m.framing = "none" PROVE Right
  <2>1. ls = <<a, b, c>>
    BY <1>1, <1>4
  <2>2. ls \in Seq(Bytes) /\ Len(ls) = 3 /\ ls[1] = a /\ ls[2] = b /\ ls[3] = c
    BY <1>2, <2>1
  <2> QED
    BY <1>4, <2>2
<1>5. ASSUME m.sse, m.framing # "none" PROVE Right
  <2>1. ls = <<a, b, c, d>>
    BY <1>1, <1>5
  <2>2. ls \in Seq(Bytes) /\ Len(ls) = 4 /\ ls[1] = a /\ ls[2] = b /\ ls[3] = c /\ ls[4] = d
    BY <1>2, <1>3, <2>1
  <2> QED
    BY <1>5, <2>2
<1>6. ASSUME ~m.sse, m.framing = "none" PROVE Right
  <2>1. ls = <<a, b>>
    BY <1>1, <1>6
  <2>2. ls \in Seq(Bytes) /\ Len(ls) = 2 /\ ls[1] = a /\ ls[2] = b
    BY <1>2, <2>1
  <2> QED
    BY <1>6, <2>2
<1>7. ASSUME ~m.sse, m.framing # "none" PROVE Right
  <2>1. ls = <<a, b, d>>
    BY <1>1, <1>7
  <2>2. ls \in Seq(Bytes) /\ Len(ls) = 3 /\ ls[1] = a /\ ls[2] = b /\ ls[3] = d
    BY <1>2, <1>3, <2>1
  <2> QED
    BY <1>7, <2>2
<1> HIDE DEF Right
<1>8. Right
  BY <1>4, <1>5, <1>6, <1>7, Zenon
<1> QED
  BY <1>8, Zenon DEF Right, ts, a, b, c, d, ls

\* The least element of a set of numbers.
LEMMA MinProps ==
  ASSUME NEW I \in SUBSET Nat, I # {}
  PROVE  Min(I) \in I /\ \A y \in I : Min(I) <= y
<1>1. \E x \in I : \A y \in I : x <= y
  BY LeastNatural
<1> QED
  BY <1>1 DEF Min

\* A line of a header, by its first byte.
LEMMA HeaderLine ==
  ASSUME NEW m, Body(m) \in Bytes, NEW l \in {<<LINE>>, <<AE>>, <<SSE>>, <<TE>>, <<CL, Len(Body(m))>>}
  PROVE  /\ IsLine(l) /\ l # <<>>
         /\ Head(l) = TE <=> l = <<TE>>
         /\ Head(l) = CL <=> l = <<CL, Len(Body(m))>>
         /\ Has(l, SSE) <=> l = <<SSE>>
         /\ <<TE>> # <<CL, Len(Body(m))>> /\ <<SSE>> # <<TE>> /\ <<SSE>> # <<CL, Len(Body(m))>>
<1> DEFINE n == Len(Body(m))
           k == <<CL, n>>
<1>0. n \in Nat
  BY BytesLen
<1> HIDE DEF n
<1>1. ASSUME NEW b \in {LINE, AE, SSE, TE}, l = <<b>>
      PROVE  /\ IsLine(l) /\ l # <<>> /\ (Head(l) = TE <=> l = <<TE>>)
             /\ (Head(l) = CL <=> l = k) /\ (Has(l, SSE) <=> l = <<SSE>>)
  <2>1. Len(l) = 1 /\ l[1] = b /\ Head(l) = b /\ DOMAIN l = 1..1 /\ l # <<>> /\ b \in Int
    BY <1>1 DEF LINE, AE, SSE, TE
  <2>2. IsLine(l)
    BY <1>1, <2>1 DEF IsLine, Bytes, CR, LF, LINE, AE, SSE, TE
  <2>3. Head(l) = TE <=> l = <<TE>>
    BY <1>1, <2>1
  <2>4. Head(l) = CL <=> l = k
    <3>1. b # CL
      BY DEF LINE, AE, SSE, TE, CL
    <3>2. Len(k) = 2
      OBVIOUS
    <3> HIDE DEF k
    <3> QED
      BY <2>1, <3>1, <3>2
  <2>5. Has(l, SSE) <=> l = <<SSE>>
    BY <1>1, <2>1 DEF Has
  <2> QED
    BY <2>1, <2>2, <2>3, <2>4, <2>5
<1>2. ASSUME l = k
      PROVE  /\ IsLine(l) /\ l # <<>> /\ (Head(l) = TE <=> l = <<TE>>)
             /\ (Head(l) = CL <=> l = k) /\ (Has(l, SSE) <=> l = <<SSE>>)
  <2>1. Len(l) = 2 /\ l[1] = CL /\ l[2] = n /\ Head(l) = CL /\ DOMAIN l = 1..2 /\ l # <<>>
    BY <1>2
  <2>2. IsLine(l)
    <3>1. l \in Bytes
      BY <1>0, <1>2 DEF Bytes, CL
    <3>2. l[1] # CR /\ l[1] # LF /\ l[2] # CR /\ l[2] # LF
      BY <1>0, <2>1 DEF CL, CR, LF
    <3> QED
      BY <2>1, <3>1, <3>2 DEF IsLine
  <2>3. Head(l) = TE <=> l = <<TE>>
    BY <2>1 DEF CL, TE
  <2>4. l[1] # SSE /\ l[2] # SSE
    BY <1>0, <2>1 DEF CL, SSE
  <2>5. ~Has(l, SSE)
    BY <2>1, <2>4 DEF Has
  <2>6. l # <<SSE>>
    BY <2>1
  <2> QED
    BY <1>2, <2>1, <2>2, <2>3, <2>5, <2>6
<1>3. <<TE>> # k /\ <<SSE>> # <<TE>> /\ <<SSE>> # k
  BY DEF TE, SSE
<1>4. (\E b \in {LINE, AE, SSE, TE} : l = <<b>>) \/ l = k
  BY DEF n
<1>5. /\ IsLine(l) /\ l # <<>> /\ (Head(l) = TE <=> l = <<TE>>)
      /\ (Head(l) = CL <=> l = k) /\ (Has(l, SSE) <=> l = <<SSE>>)
  BY <1>1, <1>2, <1>4, Zenon
<1> QED
  BY <1>3, <1>5 DEF n

\* What the handlers take from the header of m is what m was framed with.
LEMMA HeaderParsed ==
  ASSUME NEW m, m.sse \in BOOLEAN, m.framing \in {"length", "chunked", "none"}, Body(m) \in Bytes
  PROVE  LET h == Header(HeaderLines(m))
         IN /\ AreLines(HeaderLines(m))
            /\ ParseContentLength(h) = IF m.framing = "length" THEN Len(Body(m)) ELSE Absent
            /\ IsChunkedEncoding(h) <=> m.framing = "chunked"
            /\ (\E i \in DOMAIN h : h[i] = SSE) <=> m.sse
<1> DEFINE ls == HeaderLines(m)
           h == Header(ls)
           L == Lines(h)
           n == Len(ls)
           k == <<CL, Len(Body(m))>>
           ts == {<<LINE>>, <<AE>>} \cup (IF m.sse THEN {<<SSE>>} ELSE {}) \cup (IF m.framing = "none" THEN {} ELSE {Field(m)})
           all == {<<LINE>>, <<AE>>, <<SSE>>, <<TE>>, k}
<1>1. /\ ls \in Seq(Bytes) /\ n \in 2..4
      /\ (\A i \in 1..n : ls[i] \in ts) /\ \A l \in ts : \E i \in 1..n : ls[i] = l
  BY HeaderLinesProps
<1>2. \A l \in ts : l \in all
  BY DEF Field
<1>3. \A l \in all : /\ IsLine(l) /\ l # <<>> /\ (Head(l) = TE <=> l = <<TE>>)
                     /\ (Head(l) = CL <=> l = k) /\ (Has(l, SSE) <=> l = <<SSE>>)
                     /\ <<TE>> # k /\ <<SSE>> # <<TE>> /\ <<SSE>> # k
  BY HeaderLine, Zenon
<1>a. /\ <<SSE>> \in ts <=> m.sse
      /\ <<TE>> \in ts <=> m.framing = "chunked"
      /\ k \in ts <=> m.framing = "length"
  <2>1. <<TE>> # k /\ <<SSE>> # <<TE>> /\ <<SSE>> # k
    BY <1>3
  <2>2. <<LINE>> # <<SSE>> /\ <<AE>> # <<SSE>> /\ <<LINE>> # <<TE>> /\ <<AE>> # <<TE>> /\ <<LINE>> # k /\ <<AE>> # k
    BY DEF LINE, AE, SSE, TE, CL
  <2>3. Field(m) = IF m.framing = "length" THEN k ELSE <<TE>>
    BY DEF Field
  <2> HIDE DEF k
  <2> QED
    BY <2>1, <2>2, <2>3
<1> HIDE DEF ts, all, k, ls
<1>4. AreLines(ls)
  <2>1. ls # <<>>
    <3>1. n \in 2..4
      BY <1>1, Zenon
    <3> HIDE DEF n
    <3>2. n # 0
      BY <3>1
    <3> QED
      BY <3>2, EmptySeq DEF n
  <2>2. \A i \in 1..n : IsLine(ls[i]) /\ ls[i] # <<>>
    BY <1>1, <1>2, <1>3
  <2> QED
    BY <1>1, <2>1, <2>2 DEF AreLines
<1>5. /\ L \in Seq(Bytes) /\ Len(L) = n + 2 /\ (\A i \in 1..n : L[i] = ls[i])
      /\ L[n + 1] = <<>> /\ L[n + 2] = <<>>
  BY <1>4, HeaderLinesAre
<1> HIDE DEF L, h
<1>6. \A b : Starting(h, b) = {i \in 1..n : Head(ls[i]) = b}
  <2> SUFFICES ASSUME NEW b PROVE Starting(h, b) = {i \in 1..n : Head(ls[i]) = b}
    BY Zenon
  <2>1. DOMAIN L = 1..(n + 2) /\ n \in Nat
    BY <1>1, <1>5
  <2>2. \A i \in 1..(n + 2) : i \in 1..n \/ i = n + 1 \/ i = n + 2
    BY <2>1
  <2>3. \A i \in 1..n : i \in 1..(n + 2) /\ L[i] = ls[i] /\ ls[i] # <<>>
    BY <1>1, <1>2, <1>3, <1>5, <2>1
  <2> HIDE DEF n
  <2>4. Starting(h, b) = {i \in 1..(n + 2) : L[i] # <<>> /\ Head(L[i]) = b}
    BY <2>1 DEF Starting, L
  <2> QED
    BY <1>5, <2>2, <2>3, <2>4
<1>7. IsChunkedEncoding(h) <=> m.framing = "chunked"
  <2>0. \A i \in 1..n : Head(ls[i]) = TE <=> ls[i] = <<TE>>
    BY <1>1, <1>2, <1>3
  <2>1. Starting(h, TE) # {} <=> \E i \in 1..n : ls[i] = <<TE>>
    BY <1>6, <2>0
  <2>2. (\E i \in 1..n : ls[i] = <<TE>>) <=> <<TE>> \in ts
    BY <1>1
  <2> QED
    BY <1>a, <2>1, <2>2 DEF IsChunkedEncoding
<1>8. ParseContentLength(h) = IF m.framing = "length" THEN Len(Body(m)) ELSE Absent
  <2> DEFINE I == Starting(h, CL)
  <2>1. I = {i \in 1..n : ls[i] = k}
    BY <1>1, <1>2, <1>3, <1>6
  <2>2. I # {} <=> m.framing = "length"
    BY <1>1, <1>a, <2>1
  <2>3. CASE m.framing = "length"
    <3>1. Min(I) \in I
      <4>1. I \in SUBSET Nat
        BY <2>1
      <4> HIDE DEF I
      <4> QED
        BY <2>2, <2>3, <4>1, MinProps
    <3>2. L[Min(I)] = k
      BY <1>5, <2>1, <3>1
    <3>3. k[2] = Len(Body(m))
      BY DEF k
    <3> QED
      BY <2>2, <2>3, <3>2, <3>3 DEF ParseContentLength, L
  <2>4. CASE m.framing # "length"
    BY <2>2, <2>4 DEF ParseContentLength
  <2> QED
    BY <2>3, <2>4
<1>9. Has(h, SSE) <=> m.sse
  <2>1. SSE # CR /\ SSE # LF
    BY DEF SSE, CR, LF
  <2>2. Has(h, SSE) <=> \E i \in 1..n : Has(ls[i], SSE)
    BY <1>4, <2>1, HeaderHas DEF h
  <2>3. (\E i \in 1..n : Has(ls[i], SSE)) <=> \E i \in 1..n : ls[i] = <<SSE>>
    BY <1>1, <1>2, <1>3
  <2>4. (\E i \in 1..n : ls[i] = <<SSE>>) <=> <<SSE>> \in ts
    BY <1>1
  <2> QED
    BY <1>a, <2>2, <2>3, <2>4
<1> QED
  BY <1>4, <1>7, <1>8, <1>9 DEF Has, h, ls

-----------------------------------------------------------------------------
(* Blocks of an event stream *)

\* Where the parser finds the separators.
LEMMA Newlines ==
  ASSUME NEW d \in Bytes
  PROVE  LET crs == Index(d, Blank)
             lfs == Index(d, <<LF, LF>>)
         IN /\ crs \in Nat /\ lfs \in Nat
            /\ crs # 0 => crs + 3 <= Len(d) /\ d[crs + 2] = CR
            /\ lfs # 0 => lfs + 1 <= Len(d) /\ d[lfs + 1] = LF
            /\ FindDoubleNewline(d) = IF crs = 0 /\ lfs = 0 THEN <<>>
                                      ELSE IF crs > 0 /\ (lfs = 0 \/ crs < lfs) THEN <<crs - 1, crs + 3>>
                                      ELSE <<lfs - 1, lfs + 1>>
<1> DEFINE crs == Index(d, Blank)
           two == <<LF, LF>>
           lfs == Index(d, two)
<1>0. Len(d) \in Nat
  BY BytesLen
<1>1. Blank \in Bytes /\ Len(Blank) = 4 /\ Blank # <<>> /\ Blank[3] = CR
  BY Separators
<1>2. two \in Bytes /\ Len(two) = 2 /\ two # <<>> /\ two[2] = LF
  BY Separators
<1> HIDE DEF two
<1>3. crs \in 0..Len(d) /\ (crs # 0 => HitAt(d, Blank, crs))
  BY <1>1, IndexProps
<1>4. lfs \in 0..Len(d) /\ (lfs # 0 => HitAt(d, two, lfs))
  BY <1>2, IndexProps
<1>5. FindDoubleNewline(d) = IF crs = 0 /\ lfs = 0 THEN <<>>
                             ELSE IF crs > 0 /\ (lfs = 0 \/ crs < lfs) THEN <<crs - 1, crs + 3>>
                             ELSE <<lfs - 1, lfs + 1>>
  BY <1>0, <1>3, <1>4 DEF FindDoubleNewline, two
<1> HIDE DEF crs, lfs
<1>6. ASSUME crs # 0 PROVE crs + 3 <= Len(d) /\ d[crs + 2] = CR
  <2>1. crs \in 1..(Len(d) - Len(Blank) + 1) /\ \A j \in 1..Len(Blank) : d[crs + j - 1] = Blank[j]
    BY <1>3, <1>6 DEF HitAt
  <2>2. d[crs + 3 - 1] = Blank[3] /\ crs + 3 - 1 = crs + 2
    BY <1>0, <1>1, <2>1
  <2> QED
    BY <1>0, <1>1, <2>1, <2>2
<1>7. ASSUME lfs # 0 PROVE lfs + 1 <= Len(d) /\ d[lfs + 1] = LF
  <2>1. lfs \in 1..(Len(d) - Len(two) + 1) /\ \A j \in 1..Len(two) : d[lfs + j - 1] = two[j]
    BY <1>4, <1>7 DEF HitAt
  <2>2. d[lfs + 2 - 1] = two[2] /\ lfs + 2 - 1 = lfs + 1
    BY <1>0, <1>2, <2>1
  <2> QED
    BY <1>0, <1>2, <2>1, <2>2
<1>8. crs \in Nat /\ lfs \in Nat
  BY <1>3, <1>4
<1> QED
  BY <1>5, <1>6, <1>7, <1>8 DEF crs, lfs, two

\* b ends with the first separator in it.
IsBlock(b) == b \in Bytes /\ FindDoubleNewline(b) # <<>> /\ FindDoubleNewline(b)[2] = Len(b)

\* What follows a block does not matter to the parser, and it finds nothing in a part of a block.
LEMMA BlockProps ==
  ASSUME NEW b, IsBlock(b)
  PROVE  /\ \A y \in Bytes : FindDoubleNewline(b \o y) = FindDoubleNewline(b)
         /\ \A x \in Bytes, w \in Bytes : x \o w = b /\ w # <<>> => FindDoubleNewline(x) = <<>>
         /\ FindDoubleNewline(b)[1] \in 0..Len(b)
<1> DEFINE two == <<LF, LF>>
           C(d) == Index(d, Blank)
           L(d) == Index(d, two)
           Crs(d) == C(d) > 0 /\ (L(d) = 0 \/ C(d) < L(d))
<1>0. b \in Bytes /\ Len(b) \in Nat /\ CR # LF
  BY BytesLen, Separators DEF IsBlock
<1>a. Blank \in Bytes /\ Len(Blank) = 4 /\ Blank # <<>>
  BY Separators
<1>b. two \in Bytes /\ Len(two) = 2 /\ two # <<>>
  BY Separators
<1>1. \A d \in Bytes : /\ C(d) \in Nat /\ L(d) \in Nat
                       /\ C(d) # 0 => C(d) + 3 <= Len(d) /\ d[C(d) + 2] = CR
                       /\ L(d) # 0 => L(d) + 1 <= Len(d) /\ d[L(d) + 1] = LF
                       /\ FindDoubleNewline(d) = IF C(d) = 0 /\ L(d) = 0 THEN <<>>
                                                 ELSE IF Crs(d) THEN <<C(d) - 1, C(d) + 3>>
                                                 ELSE <<L(d) - 1, L(d) + 1>>
  BY Newlines
<1>2. \A d, e \in Bytes : /\ C(d) # 0 => C(d \o e) = C(d)
                          /\ C(d \o e) # 0 /\ C(d \o e) + 3 <= Len(d) => C(d) = C(d \o e)
  <2> SUFFICES ASSUME NEW d \in Bytes, NEW e \in Bytes
               PROVE  /\ C(d) # 0 => C(d \o e) = C(d)
                      /\ C(d \o e) # 0 /\ C(d \o e) + 3 <= Len(d) => C(d) = C(d \o e)
    BY Zenon
  <2>1. /\ C(d) # 0 => C(d \o e) = C(d)
        /\ C(d \o e) # 0 /\ C(d \o e) + Len(Blank) - 1 <= Len(d) => C(d) = C(d \o e)
    BY <1>a, IndexMore
  <2>2. C(d \o e) \in Nat /\ C(d \o e) + Len(Blank) - 1 = C(d \o e) + 3
    <3>1. C(d \o e) \in Nat
      BY <1>1, RowProps
    <3> HIDE DEF C
    <3> QED
      BY <1>a, <3>1
  <2> HIDE DEF C
  <2> QED
    BY <2>1, <2>2
<1>3. \A d, e \in Bytes : /\ L(d) # 0 => L(d \o e) = L(d)
                          /\ L(d \o e) # 0 /\ L(d \o e) + 1 <= Len(d) => L(d) = L(d \o e)
  <2> SUFFICES ASSUME NEW d \in Bytes, NEW e \in Bytes
               PROVE  /\ L(d) # 0 => L(d \o e) = L(d)
                      /\ L(d \o e) # 0 /\ L(d \o e) + 1 <= Len(d) => L(d) = L(d \o e)
    BY Zenon
  <2> HIDE DEF two
  <2>1. /\ L(d) # 0 => L(d \o e) = L(d)
        /\ L(d \o e) # 0 /\ L(d \o e) + Len(two) - 1 <= Len(d) => L(d) = L(d \o e)
    BY <1>b, IndexMore
  <2>2. L(d \o e) \in Nat /\ L(d \o e) + Len(two) - 1 = L(d \o e) + 1
    <3>1. L(d \o e) \in Nat
      BY <1>1, RowProps
    <3> HIDE DEF L
    <3> QED
      BY <1>b, <3>1
  <2> HIDE DEF L
  <2> QED
    BY <2>1, <2>2
<1> HIDE DEF C, L
<1>4. \/ Crs(b) /\ C(b) + 3 = Len(b)
      \/ ~Crs(b) /\ L(b) # 0 /\ C(b) = 0 /\ L(b) + 1 = Len(b)
  <2>1. FindDoubleNewline(b) # <<>> /\ FindDoubleNewline(b)[2] = Len(b)
    BY DEF IsBlock
  <2>2. CASE Crs(b)
    <3>1. FindDoubleNewline(b) = <<C(b) - 1, C(b) + 3>>
      BY <1>0, <1>1, <2>2
    <3> QED
      BY <2>1, <2>2, <3>1
  <2>3. CASE ~Crs(b)
    <3>1. FindDoubleNewline(b) = <<L(b) - 1, L(b) + 1>> /\ ~(C(b) = 0 /\ L(b) = 0)
      BY <1>0, <1>1, <2>1, <2>3
    <3>2. L(b) + 1 = Len(b)
      BY <2>1, <3>1
    <3> QED
      BY <1>0, <1>1, <2>3, <3>1, <3>2
  <2> QED
    BY <2>2, <2>3
<1>5. ASSUME NEW y \in Bytes PROVE FindDoubleNewline(b \o y) = FindDoubleNewline(b)
  <2> DEFINE u == b \o y
  <2>1. u \in Bytes /\ Len(u) = Len(b) + Len(y) /\ \A i \in 1..Len(b) : u[i] = b[i]
    BY <1>0, RowProps
  <2>2. /\ C(b) # 0 => C(u) = C(b)
        /\ C(u) # 0 /\ C(u) + 3 <= Len(b) => C(b) = C(u)
        /\ L(b) # 0 => L(u) = L(b)
        /\ L(u) # 0 /\ L(u) + 1 <= Len(b) => L(b) = L(u)
    BY <1>0, <1>2, <1>3
  <2>3. /\ C(u) \in Nat /\ L(u) \in Nat /\ C(b) \in Nat /\ L(b) \in Nat
        /\ C(u) # 0 => u[C(u) + 2] = CR
        /\ L(u) # 0 => u[L(u) + 1] = LF
    BY <1>0, <1>1, <2>1
  <2> HIDE DEF u
  <2>4. CASE Crs(b) /\ C(b) + 3 = Len(b)
    <3>1. C(u) = C(b) /\ Crs(u)
      BY <1>0, <2>2, <2>3, <2>4
    <3>2. FindDoubleNewline(u) = <<C(u) - 1, C(u) + 3>> /\ FindDoubleNewline(b) = <<C(b) - 1, C(b) + 3>>
      BY <1>0, <1>1, <2>1, <2>4, <3>1
    <3> QED
      BY <3>1, <3>2 DEF u
  <2>5. CASE ~Crs(b) /\ L(b) # 0 /\ C(b) = 0 /\ L(b) + 1 = Len(b)
    <3>1. L(u) = L(b) /\ ~Crs(u)
      <4>1. L(u) = L(b)
        BY <2>2, <2>5
      <4>2. ASSUME C(u) > 0, C(u) < L(u) PROVE FALSE
        <5>1. C(u) + 2 = L(u) + 1
          BY <1>0, <2>2, <2>3, <2>5, <4>1, <4>2
        <5> QED
          BY <1>0, <2>3, <2>5, <4>1, <4>2, <5>1
      <4> QED
        BY <2>3, <2>5, <4>1, <4>2
    <3>2. FindDoubleNewline(u) = <<L(u) - 1, L(u) + 1>> /\ FindDoubleNewline(b) = <<L(b) - 1, L(b) + 1>>
      BY <1>0, <1>1, <2>1, <2>5, <3>1
    <3> QED
      BY <3>1, <3>2 DEF u
  <2> QED
    BY <1>4, <2>4, <2>5
<1>6. ASSUME NEW x \in Bytes, NEW w \in Bytes, x \o w = b, w # <<>> PROVE FindDoubleNewline(x) = <<>>
  <2>1. Len(b) = Len(x) + Len(w) /\ Len(w) # 0 /\ Len(w) \in Nat /\ Len(x) \in Nat
    BY <1>6, RowProps, RowEmpty, BytesLen
  <2>2. (C(x) # 0 => C(b) = C(x)) /\ (L(x) # 0 => L(b) = L(x))
    BY <1>2, <1>3, <1>6
  <2>3. /\ C(x) \in Nat /\ L(x) \in Nat /\ C(b) \in Nat /\ L(b) \in Nat
        /\ C(x) # 0 => C(x) + 3 <= Len(x)
        /\ L(x) # 0 => L(x) + 1 <= Len(x)
        /\ C(b) # 0 => b[C(b) + 2] = CR
        /\ L(b) # 0 => b[L(b) + 1] = LF
    BY <1>0, <1>1
  <2>4. CASE Crs(b) /\ C(b) + 3 = Len(b)
    <3>1. C(x) = 0
      BY <2>1, <2>2, <2>3, <2>4
    <3>2. ASSUME L(x) # 0 PROVE FALSE
      <4>1. C(b) + 2 = L(b) + 1
        BY <2>1, <2>2, <2>3, <2>4, <3>2
      <4> QED
        BY <1>0, <2>2, <2>3, <2>4, <3>2, <4>1
    <3> QED
      BY <1>1, <3>1, <3>2
  <2>5. CASE ~Crs(b) /\ L(b) # 0 /\ C(b) = 0 /\ L(b) + 1 = Len(b)
    <3>1. C(x) = 0 /\ L(x) = 0
      BY <2>1, <2>2, <2>3, <2>5
    <3> QED
      BY <1>1, <3>1
  <2> QED
    BY <1>4, <2>4, <2>5
<1>7. FindDoubleNewline(b)[1] \in 0..Len(b)
  <2>1. CASE Crs(b) /\ C(b) + 3 = Len(b)
    <3>1. FindDoubleNewline(b) = <<C(b) - 1, C(b) + 3>> /\ C(b) \in Nat
      BY <1>0, <1>1, <2>1
    <3> QED
      BY <1>0, <2>1, <3>1
  <2>2. CASE ~Crs(b) /\ L(b) # 0 /\ C(b) = 0 /\ L(b) + 1 = Len(b)
    <3>1. FindDoubleNewline(b) = <<L(b) - 1, L(b) + 1>> /\ L(b) \in Nat
      BY <1>0, <1>1, <2>2
    <3> QED
      BY <1>0, <2>2, <3>1
  <2> QED
    BY <1>4, <2>1, <2>2
<1> QED
  BY <1>5, <1>6, <1>7

-----------------------------------------------------------------------------
(* Chunks *)

\* What the first bytes of two runs in a row are.
LEMMA TakeOfRow ==
  ASSUME NEW a \in Bytes, NEW d \in Bytes, NEW n \in 0..Len(a)
  PROVE  Take(a \o d, n) = Take(a, n)
<1> DEFINE u == a \o d
           x == Take(u, n)
           y == Take(a, n)
<1>0. Len(a) \in Nat /\ Len(d) \in Nat
  BY BytesLen
<1>1. u \in Bytes /\ Len(u) = Len(a) + Len(d) /\ \A i \in 1..Len(a) : u[i] = a[i]
  BY RowProps
<1> HIDE DEF u
<1>2. n \in 0..Len(u)
  BY <1>0, <1>1
<1>3. x \in Bytes /\ Len(x) = n /\ \A i \in 1..n : x[i] = u[i]
  BY <1>1, <1>2, TakeProps
<1>4. y \in Bytes /\ Len(y) = n /\ \A i \in 1..n : y[i] = a[i]
  BY TakeProps
<1> HIDE DEF x, y
<1>5. \A i \in 1..Len(x) : x[i] = y[i]
  BY <1>0, <1>1, <1>3, <1>4
<1>6. x = y
  BY <1>3, <1>4, <1>5, SameBytes
<1> QED
  BY <1>6 DEF x, y, u

\* A run that is taken as a whole.
LEMMA TakeAll ==
  ASSUME NEW s \in Bytes
  PROVE  Take(s, Len(s)) = s /\ Drop(s, Len(s)) = <<>> /\ Drop(s, 0) = s
<1>0. Len(s) \in Nat /\ Len(s) \in 0..Len(s) /\ 0 \in 0..Len(s)
  BY BytesLen
<1>1. s \o <<>> = s /\ <<>> \in Bytes /\ <<>> \o s = s /\ Len(<<>>) = 0
  BY RowEmpty
<1>2. Take(s \o <<>>, Len(s)) = s /\ Drop(s \o <<>>, Len(s)) = <<>>
  BY <1>1, TakeRow
<1>3. Drop(<<>> \o s, Len(<<>>)) = s
  BY <1>1, TakeRow
<1> QED
  BY <1>1, <1>2, <1>3

\* The chunks of m as they are sent, and what is left behind the first k of them.
ChunkRows(m) == [i \in DOMAIN m.chunks |-> Chunk(m.chunks[i])]
ChunksLeft(m, k) == RestOf(ChunkRows(m), LastChunk, k)

\* The chunks of a message, one at a time.
LEMMA ChunkRest ==
  ASSUME NEW m, IsMessage(m), m.framing = "chunked"
  PROVE  LET n == Len(m.chunks)
         IN /\ n \in Nat /\ ChunksLeft(m, 0) = Payload(m) /\ Payload(m) \in Bytes
            /\ \A k \in 0..n : ChunksLeft(m, k) \in Bytes
            /\ \A k \in 1..n : /\ m.chunks[k] \in Bytes /\ Len(m.chunks[k]) \in Nat \ {0}
                               /\ ChunksLeft(m, k - 1) = <<Len(m.chunks[k])>> \o (CRLF \o (m.chunks[k] \o (CRLF \o ChunksLeft(m, k))))
            /\ ChunksLeft(m, n) = <<0>> \o (CRLF \o CRLF)
<1> DEFINE n == Len(m.chunks)
           ss == ChunkRows(m)
           R(k) == ChunksLeft(m, k)
<1>0. m.chunks \in Seq(Bytes) /\ n \in Nat /\ DOMAIN m.chunks = 1..n /\ \A k \in 1..n : m.chunks[k] \in Bytes /\ m.chunks[k] # <<>>
  BY DEF IsMessage
<1>a. CRLF \in Bytes /\ LastChunk \in Bytes
  BY Separators
<1>1. \A k \in 1..n : Chunk(m.chunks[k]) \in Bytes
  BY <1>0, ChunkProps
<1>2. ss \in Seq(Bytes) /\ Len(ss) = n /\ \A k \in 1..n : ss[k] = Chunk(m.chunks[k])
  BY <1>0, <1>1 DEF ChunkRows
<1> HIDE DEF n, ss
<1>3. /\ RestOf(ss, LastChunk, 0) = FlattenSeq(ss) \o LastChunk
      /\ \A k \in 0..Len(ss) : RestOf(ss, LastChunk, k) \in Bytes /\ FlatTo(ss)[k] \o RestOf(ss, LastChunk, k) = FlattenSeq(ss) \o LastChunk
      /\ \A k \in 1..Len(ss) : RestOf(ss, LastChunk, k - 1) = ss[k] \o RestOf(ss, LastChunk, k)
      /\ RestOf(ss, LastChunk, Len(ss)) = LastChunk
  BY <1>2, <1>a, RestProps
<1>4. R(0) = Payload(m)
  BY <1>3 DEF Payload, ss, ChunkRows, ChunksLeft, IsMessage
<1>5. \A k \in 0..n : R(k) \in Bytes
  BY <1>2, <1>3 DEF ChunksLeft, ss
<1>6. ASSUME NEW k \in 1..n
      PROVE  /\ m.chunks[k] \in Bytes /\ Len(m.chunks[k]) \in Nat \ {0}
             /\ R(k - 1) = <<Len(m.chunks[k])>> \o (CRLF \o (m.chunks[k] \o (CRLF \o R(k))))
  <2> DEFINE c == m.chunks[k]
             t == R(k)
             s == <<Len(c)>>
  <2>1. k \in 0..n /\ c \in Bytes /\ c # <<>>
    BY <1>0
  <2>2. t \in Bytes /\ s \in Bytes /\ Len(c) \in Nat \ {0}
    <3>1. Len(c) \in Nat /\ Len(c) # 0
      BY <2>1, BytesLen, RowEmpty
    <3> QED
      BY <1>5, <2>1, <3>1, OneByte
  <2>3. R(k - 1) = Chunk(c) \o t
    BY <1>2, <1>3 DEF ChunksLeft, ss
  <2> HIDE DEF c, t, s
  <2>4. Chunk(c) = s \o (CRLF \o (c \o CRLF)) /\ c \o CRLF \in Bytes /\ CRLF \o (c \o CRLF) \in Bytes
    BY <2>1, ChunkProps DEF s
  <2>5. (s \o (CRLF \o (c \o CRLF))) \o t = s \o ((CRLF \o (c \o CRLF)) \o t)
    BY <2>2, <2>4, RowAssoc, Zenon
  <2>6. (CRLF \o (c \o CRLF)) \o t = CRLF \o ((c \o CRLF) \o t)
    BY <1>a, <2>2, <2>4, RowAssoc, Zenon
  <2>7. (c \o CRLF) \o t = c \o (CRLF \o t)
    BY <1>a, <2>1, <2>2, RowAssoc, Zenon
  <2>8. R(k - 1) = s \o (CRLF \o (c \o (CRLF \o t)))
    BY <2>3, <2>4, <2>5, <2>6, <2>7
  <2> QED
    BY <2>1, <2>2, <2>8 DEF c, t, s
<1>7. R(n) = <<0>> \o (CRLF \o CRLF)
  BY <1>2, <1>3 DEF ChunksLeft, ss, LastChunk, Blank
<1>8. 0 \in 0..n
  BY <1>0
<1>9. Payload(m) \in Bytes
  BY <1>4, <1>5, <1>8
<1> QED
  BY <1>0, <1>4, <1>5, <1>6, <1>7, <1>9 DEF n

\* A size line with its end.
IsSizeLine(a, v) == a \in Bytes /\ Len(a) = 3 /\ a[1] = v /\ a[2] = CR /\ a[3] = LF

\* The size line of v, and what follows it.
LEMMA SizeLineIs ==
  ASSUME NEW v \in Nat, NEW t \in Bytes
  PROVE  IsSizeLine(<<v>> \o CRLF, v) /\ (<<v>> \o CRLF) \o t = <<v>> \o (CRLF \o t)
<1> DEFINE s == <<v>>
           a == s \o CRLF
<1>a. CRLF \in Bytes /\ Len(CRLF) = 2 /\ CRLF[1] = CR /\ CRLF[2] = LF
  BY Separators
<1>b. s \in Bytes /\ Len(s) = 1 /\ s[1] = v
  BY OneByte
<1> HIDE DEF s
<1>1. a \in Bytes /\ Len(a) = Len(s) + Len(CRLF) /\ (\A i \in 1..Len(s) : a[i] = s[i]) /\ \A i \in 1..Len(CRLF) : a[Len(s) + i] = CRLF[i]
  BY <1>a, <1>b, RowProps
<1>2. a \o t = s \o (CRLF \o t)
  BY <1>a, <1>b, RowAssoc
<1> HIDE DEF a
<1>3. Len(a) = 3 /\ a[1] = v /\ a[2] = CR /\ a[3] = LF
  <2>1. 1 \in 1..Len(s) /\ 1 \in 1..Len(CRLF) /\ 2 \in 1..Len(CRLF) /\ Len(s) + 1 = 2 /\ Len(s) + 2 = 3
    BY <1>a, <1>b
  <2>2. a[1] = s[1] /\ a[Len(s) + 1] = CRLF[1] /\ a[Len(s) + 2] = CRLF[2]
    BY <1>1, <2>1
  <2> QED
    BY <1>1, <1>a, <1>b, <2>1, <2>2
<1>4. IsSizeLine(a, v)
  BY <1>1, <1>3 DEF IsSizeLine
<1> QED
  BY <1>2, <1>4 DEF a, s

\* The size line of a chunk is found as soon as it is there.
LEMMA SizeFound ==
  ASSUME NEW buf \in Bytes, NEW w \in Bytes, NEW v \in Nat, NEW t \in Bytes,
         NEW a, IsSizeLine(a, v), Meet(buf, w, a, t)
  PROVE  LET i == Index(buf, CRLF)
         IN /\ i = 0 => w # <<>>
            /\ i # 0 => /\ i = 2 /\ SizeOf(Take(buf, 1)) = v /\ Len(Take(buf, 1)) = 1
                        /\ Drop(buf, 3) \o w = t /\ Drop(buf, 3) \in Bytes
<1> DEFINE u == a \o t
<1>0. Len(buf) \in Nat /\ Len(w) \in Nat /\ Len(t) \in Nat
  BY BytesLen
<1>a. CRLF \in Bytes /\ Len(CRLF) = 2 /\ CRLF # <<>> /\ CRLF[1] = CR /\ CRLF[2] = LF /\ CR < 0 /\ CR \in Int
  BY Separators
<1>b. a \in Bytes /\ Len(a) = 3 /\ a[1] = v /\ a[2] = CR /\ a[3] = LF
  BY DEF IsSizeLine
<1>1. u \in Bytes /\ Len(u) = Len(a) + Len(t) /\ \A i \in 1..Len(a) : u[i] = a[i]
  BY <1>b, RowProps
<1>2. buf \o w = u
  BY DEF Meet
<1>c. Len(a) <= Len(buf) => Drop(buf, Len(a)) \o w = t /\ Drop(buf, Len(a)) \in Bytes
  <2>1. a \in Bytes
    BY <1>b
  <2>2. SUFFICES ASSUME Len(a) <= Len(buf) PROVE Drop(buf, Len(a)) \o w = t /\ Drop(buf, Len(a)) \in Bytes
    OBVIOUS
  <2> QED
    BY <2>1, <2>2, Divide
<1> HIDE DEF u
<1>3. Len(u) = 3 + Len(t) /\ u[1] = v /\ u[2] = CR /\ u[3] = LF
  <2>1. 1 \in 1..Len(a) /\ 2 \in 1..Len(a) /\ 3 \in 1..Len(a)
    BY <1>b
  <2> QED
    BY <1>1, <1>b, <2>1
<1>4. Index(u, CRLF) = 2
  <2>1. HitAt(u, CRLF, 2)
    <3>1. 2 \in 1..(Len(u) - Len(CRLF) + 1)
      BY <1>0, <1>3, <1>a
    <3>2. \A j \in 1..Len(CRLF) : j = 1 \/ j = 2
      BY <1>a
    <3>3. u[2 + 1 - 1] = CRLF[1] /\ u[2 + 2 - 1] = CRLF[2]
      BY <1>3, <1>a
    <3> QED
      BY <3>1, <3>2, <3>3 DEF HitAt
  <2>2. ASSUME NEW j \in 1..(2 - 1), HitAt(u, CRLF, j) PROVE FALSE
    <3>1. j = 1 /\ 1 \in 1..Len(CRLF) /\ j + 1 - 1 = 1
      BY <1>a
    <3>2. u[j + 1 - 1] = CRLF[1]
      BY <2>2, <3>1 DEF HitAt
    <3> QED
      BY <1>3, <1>a, <3>1, <3>2
  <2> QED
    BY <1>1, <1>a, <2>1, <2>2, IndexIs
<1>5. /\ Index(buf, CRLF) # 0 => Index(u, CRLF) = Index(buf, CRLF)
      /\ Index(u, CRLF) # 0 /\ Index(u, CRLF) + Len(CRLF) - 1 <= Len(buf) => Index(buf, CRLF) = Index(u, CRLF)
      /\ Index(buf, CRLF) # 0 => Index(buf, CRLF) + Len(CRLF) - 1 <= Len(buf)
  BY <1>2, <1>a, IndexMore
<1>6. CASE Len(buf) < 3
  <2>1. Index(buf, CRLF) = 0
    BY <1>0, <1>4, <1>5, <1>6, <1>a
  <2>2. Len(u) = Len(buf) + Len(w)
    BY <1>2, RowProps
  <2>3. Len(w) # 0
    BY <1>0, <1>3, <1>6, <2>2
  <2> QED
    BY <1>6, <2>1, <2>3, RowEmpty
<1>7. CASE ~(Len(buf) < 3)
  <2>1. Index(buf, CRLF) = 2
    BY <1>0, <1>4, <1>5, <1>7, <1>a
  <2>2. 1 \in 0..Len(buf) /\ 1 \in 1..Len(buf)
    BY <1>0, <1>7
  <2>3. Take(buf, 1) \in Bytes /\ Len(Take(buf, 1)) = 1 /\ Take(buf, 1)[1] = buf[1]
    <3>1. Take(buf, 1) \in Bytes /\ Len(Take(buf, 1)) = 1 /\ \A i \in 1..1 : Take(buf, 1)[i] = buf[i]
      BY <2>2, TakeProps, Zenon
    <3>2. 1 \in 1..1
      OBVIOUS
    <3> QED
      BY <3>1, <3>2, Zenon
  <2>4. buf[1] = v
    <3>1. (buf \o w)[1] = buf[1]
      BY <2>2, RowProps
    <3> QED
      BY <1>2, <1>3, <3>1
  <2>5. SizeOf(Take(buf, 1)) = v
    <3> DEFINE x == Take(buf, 1)
    <3>1. x # <<>> /\ Head(x) = v
      <4>1. x # <<>>
        BY <2>3, RowEmpty
      <4>2. Head(x) = x[1]
        BY <2>3, <4>1 DEF Bytes
      <4> QED
        BY <2>3, <2>4, <4>1, <4>2
    <3> HIDE DEF x
    <3>2. SizeOf(x) = v
      BY <3>1 DEF SizeOf
    <3> QED
      BY <3>2 DEF x
  <2>6. Drop(buf, 3) \o w = t /\ Drop(buf, 3) \in Bytes
    <3>1. Len(a) <= Len(buf) /\ Len(a) = 3
      BY <1>0, <1>7, <1>b
    <3> QED
      BY <1>c, <3>1
  <2> QED
    BY <1>7, <2>1, <2>3, <2>5, <2>6
<1> QED
  BY <1>6, <1>7

-----------------------------------------------------------------------------
(***************************************************************************)
(* Framing: the phases of a response, and the steps between them.          *)
(***************************************************************************)

-----------------------------------------------------------------------------
(* The decoder and the parser *)

\* A run begins with its first part.
LEMMA PrefixOf ==
  ASSUME NEW a \in Bytes, NEW b \in Bytes
  PROVE  IsPrefix(a, a \o b) /\ IsPrefix(a, a)
<1> DEFINE u == a \o b
<1>1. Len(a) \in Nat /\ Len(b) \in Nat
  BY BytesLen
<1>2. Len(u) = Len(a) + Len(b)
  BY RowProps
<1>3. Take(u, Len(a)) = a
  BY TakeRow
<1>4. Take(a, Len(a)) = a
  BY TakeAll
<1> HIDE DEF u
<1>5. IsPrefix(a, u) /\ IsPrefix(a, a)
  BY <1>1, <1>2, <1>3, <1>4 DEF IsPrefix, Take
<1> QED
  BY <1>5 DEF u

\* The parser finds the block b as soon as it is there, and nothing else.
LEMMA ParseStep ==
  ASSUME NEW s \in Bytes, NEW v \in Bytes, NEW b, IsBlock(b), NEW t \in Bytes, Meet(s, v, b, t)
  PROVE  LET cut == FindDoubleNewline(s)
         IN /\ cut = <<>> => v # <<>>
            /\ cut # <<>> => /\ cut = FindDoubleNewline(b) /\ Take(s, cut[1]) = Take(b, cut[1])
                             /\ Drop(s, cut[2]) \o v = t /\ Drop(s, cut[2]) \in Bytes
<1> DEFINE cut == FindDoubleNewline(s)
<1>0. b \in Bytes /\ FindDoubleNewline(b) # <<>> /\ FindDoubleNewline(b)[2] = Len(b)
  BY DEF IsBlock
<1>1. Len(b) \in Nat /\ Len(s) \in Nat
  BY <1>0, BytesLen
<1>2. CASE Len(b) <= Len(s)
  <2> DEFINE x == Drop(s, Len(b))
  <2>1. s = b \o x /\ x \o v = t /\ x \in Bytes
    BY <1>0, <1>2, Divide
  <2> HIDE DEF x
  <2>2. FindDoubleNewline(b \o x) = FindDoubleNewline(b) /\ FindDoubleNewline(b)[1] \in 0..Len(b)
    BY <2>1, BlockProps
  <2>3. cut = FindDoubleNewline(b)
    BY <2>1, <2>2
  <2>4. Take(b \o x, FindDoubleNewline(b)[1]) = Take(b, FindDoubleNewline(b)[1])
    BY <1>0, <2>1, <2>2, TakeOfRow
  <2> QED
    BY <1>0, <2>1, <2>3, <2>4 DEF x
<1>3. CASE ~(Len(b) <= Len(s))
  <2> DEFINE x == Drop(b, Len(s))
  <2>1. Meet(b, t, s, v) /\ Len(s) <= Len(b)
    BY <1>1, <1>3 DEF Meet
  <2>2. b = s \o x /\ x \o t = v /\ x \in Bytes /\ Len(x) = Len(b) - Len(s)
    BY <1>0, <2>1, Divide
  <2> HIDE DEF x
  <2>3. x # <<>>
    BY <1>1, <1>3, <2>2, RowEmpty
  <2>4. cut = <<>>
    BY <2>2, <2>3, BlockProps
  <2>5. v # <<>>
    <3>1. Len(x \o t) = Len(x) + Len(t) /\ Len(t) \in Nat
      BY <2>2, RowProps, BytesLen
    <3>2. Len(v) # 0
      BY <1>1, <1>3, <2>2, <3>1
    <3> QED
      BY <3>2, RowEmpty
  <2> QED
    BY <2>4, <2>5
<1> QED
  BY <1>2, <1>3

\* A decoder, and what it still has to make of tape: rest of the body of m.
Decoder == [buf : Bytes, chunk_remaining : Nat, state : {"ReadingSize", "ReadingBody", "BodyTrail"}]
BodyLeft(m, k) == RestOf(m.chunks, <<>>, k)
Decoding(m, d, tape, rest) ==
  \E k \in 0..Len(m.chunks) :
    \/ d.state = "ReadingSize" /\ tape = ChunksLeft(m, k) /\ rest = BodyLeft(m, k)
    \/ d.state = "BodyTrail" /\ tape = CRLF \o ChunksLeft(m, k) /\ rest = BodyLeft(m, k)
    \/ /\ d.state = "ReadingBody"
       /\ \E c \in Bytes : /\ c # <<>> /\ d.chunk_remaining = Len(c)
                           /\ tape = c \o (CRLF \o ChunksLeft(m, k)) /\ rest = c \o BodyLeft(m, k)

DecoderAt(m, d, w, rest) == d \in Decoder /\ w \in Bytes /\ rest \in Bytes /\ Decoding(m, d, d.buf \o w, rest)

\* The body of a message, one chunk at a time.
LEMMA BodyRest ==
  ASSUME NEW m, IsMessage(m)
  PROVE  LET n == Len(m.chunks)
         IN /\ BodyLeft(m, 0) = Body(m) /\ Body(m) \in Bytes
            /\ BodyLeft(m, n) = <<>>
            /\ \A k \in 0..n : BodyLeft(m, k) \in Bytes
            /\ \A k \in 1..n : BodyLeft(m, k - 1) = m.chunks[k] \o BodyLeft(m, k)
<1> DEFINE ss == m.chunks
           tail == <<>>
<1>1. ss \in Seq(Bytes) /\ tail \in Bytes
  BY RowEmpty DEF IsMessage
<1>2. FlattenSeq(ss) \in Bytes
  BY <1>1, FlatProps
<1>3. FlattenSeq(ss) \o tail = FlattenSeq(ss)
  BY <1>2, RowEmpty
<1> HIDE DEF ss, tail
<1>4. /\ RestOf(ss, tail, 0) = FlattenSeq(ss) \o tail
      /\ \A k \in 0..Len(ss) : RestOf(ss, tail, k) \in Bytes
      /\ \A k \in 1..Len(ss) : RestOf(ss, tail, k - 1) = ss[k] \o RestOf(ss, tail, k)
      /\ RestOf(ss, tail, Len(ss)) = tail
  BY <1>1, RestProps
<1> QED
  BY <1>2, <1>3, <1>4 DEF ss, tail, BodyLeft, Body

\* A decoder that reads a size finds it, or there is more to read; the size is
\* 0 when nothing of the body is left.
LEMMA SizeStep ==
  ASSUME NEW m, IsMessage(m), m.framing = "chunked", NEW d, NEW w, NEW rest, d.state = "ReadingSize", DecoderAt(m, d, w, rest)
  PROVE  LET i == Index(d.buf, CRLF)
             line == Take(d.buf, i - 1)
             size == SizeOf(line)
             e == [buf |-> Drop(d.buf, Len(line) + 2), chunk_remaining |-> size, state |-> "ReadingBody"]
         IN /\ i = 0 => w # <<>>
            /\ i # 0 => /\ size \in Nat
                        /\ size = 0 => rest = <<>>
                        /\ size # 0 => DecoderAt(m, e, w, rest)
<1> DEFINE i == Index(d.buf, CRLF)
           line == Take(d.buf, i - 1)
           size == SizeOf(line)
           e == [buf |-> Drop(d.buf, Len(line) + 2), chunk_remaining |-> size, state |-> "ReadingBody"]
           n == Len(m.chunks)
           buf == d.buf
<1>0. buf \in Bytes /\ w \in Bytes /\ rest \in Bytes
  BY DEF Decoder, DecoderAt
<1>1. PICK k \in 0..n : buf \o w = ChunksLeft(m, k) /\ rest = BodyLeft(m, k)
  BY DEF Decoding, DecoderAt
<1>2. n \in Nat /\ CRLF \in Bytes
  BY Separators DEF IsMessage
<1>3. ChunksLeft(m, n) = <<0>> \o (CRLF \o CRLF)
  BY ChunkRest
<1>4. \A j \in 1..n : /\ m.chunks[j] \in Bytes /\ Len(m.chunks[j]) \in Nat \ {0}
                      /\ ChunksLeft(m, j - 1) = <<Len(m.chunks[j])>> \o (CRLF \o (m.chunks[j] \o (CRLF \o ChunksLeft(m, j))))
  BY ChunkRest
<1>5. \A j \in 0..n : ChunksLeft(m, j) \in Bytes
  BY ChunkRest
<1>6. BodyLeft(m, n) = <<>> /\ (\A j \in 0..n : BodyLeft(m, j) \in Bytes) /\ \A j \in 1..n : BodyLeft(m, j - 1) = m.chunks[j] \o BodyLeft(m, j)
  BY BodyRest
<1> HIDE DEF n, buf
<1>7. ASSUME NEW v \in Nat, NEW t \in Bytes, ChunksLeft(m, k) = <<v>> \o (CRLF \o t)
      PROVE  /\ i = 0 => w # <<>>
             /\ i # 0 => size = v /\ Drop(buf, Len(line) + 2) \o w = t /\ Drop(buf, Len(line) + 2) \in Bytes
  <2> DEFINE a == <<v>> \o CRLF
  <2>1. IsSizeLine(a, v) /\ a \o t = <<v>> \o (CRLF \o t)
    BY <1>7, SizeLineIs
  <2>2. Meet(buf, w, a, t)
    BY <1>1, <1>7, <2>1 DEF Meet
  <2> HIDE DEF a
  <2> DEFINE p == Index(buf, CRLF)
  <2>3. /\ p = 0 => w # <<>>
        /\ p # 0 => /\ p = 2 /\ SizeOf(Take(buf, 1)) = v /\ Len(Take(buf, 1)) = 1
                    /\ Drop(buf, 3) \o w = t /\ Drop(buf, 3) \in Bytes
    BY <1>0, <1>7, <2>1, <2>2, SizeFound
  <2>4. i = p /\ line = Take(buf, i - 1)
    BY DEF buf
  <2> HIDE DEF i, line, p
  <2>5. p # 0 => line = Take(buf, 1)
    BY <2>3, <2>4
  <2>a. p # 0 => Len(line) = 1 /\ SizeOf(line) = v
    BY <2>3, <2>5
  <2> HIDE DEF size
  <2>6. p # 0 => Len(line) + 2 = 3 /\ size = v
    <3>1. \A g : g = 1 => g + 2 = 3
      OBVIOUS
    <3>3. p # 0 => Len(line) + 2 = 3
      BY <2>a, <3>1, Zenon
    <3>2. p # 0 => size = v
      BY <2>a, Zenon DEF size
    <3> QED
      BY <3>2, <3>3
  <2>7. p # 0 => Drop(buf, Len(line) + 2) = Drop(buf, 3)
    BY <2>6
  <2> QED
    BY <2>3, <2>4, <2>6, <2>7
<1> DEFINE Goal == /\ i = 0 => w # <<>>
                   /\ i # 0 => /\ size \in Nat
                               /\ size = 0 => rest = <<>>
                               /\ size # 0 => DecoderAt(m, e, w, rest)
<1>8. Goal
  <2>8. CASE k = n
    <3>1. 0 \in Nat
      OBVIOUS
    <3>2. ChunksLeft(m, k) = <<0>> \o (CRLF \o CRLF)
      BY <1>3, <2>8
    <3>3. (i = 0 => w # <<>>) /\ (i # 0 => size = 0)
      BY <1>2, <1>7, <3>1, <3>2
    <3> HIDE DEF i, size
    <3> QED
      BY <1>1, <1>6, <2>8, <3>3
  <2>9. CASE k # n
    <3> DEFINE j == k + 1
               c == m.chunks[j]
               t == c \o (CRLF \o ChunksLeft(m, j))
    <3>1. j \in 1..n /\ j \in 0..n /\ j - 1 = k
      BY <1>2, <2>9
    <3> HIDE DEF j
    <3>2. c \in Bytes /\ Len(c) \in Nat \ {0} /\ ChunksLeft(m, k) = <<Len(c)>> \o (CRLF \o t)
      BY <1>4, <3>1
    <3>3. t \in Bytes
      <4>1. ChunksLeft(m, j) \in Bytes
        BY <1>5, <3>1
      <4>2. CRLF \o ChunksLeft(m, j) \in Bytes
        BY <1>2, <4>1, RowProps, Zenon
      <4> QED
        BY <3>2, <4>2, RowProps, Zenon
    <3> HIDE DEF t
    <3>4. (i = 0 => w # <<>>) /\ (i # 0 => size = Len(c) /\ Drop(buf, Len(line) + 2) \o w = t /\ Drop(buf, Len(line) + 2) \in Bytes)
      BY <1>7, <3>2, <3>3
    <3>5. rest = c \o BodyLeft(m, j) /\ c # <<>>
      BY <1>1, <1>6, <3>1, <3>2, RowEmpty
    <3> HIDE DEF c
    <3>6. ASSUME i # 0 PROVE DecoderAt(m, e, w, rest)
      <4>1. e.buf = Drop(buf, Len(line) + 2) /\ e.chunk_remaining = size /\ e.state = "ReadingBody"
        BY DEF buf
      <4>2. e \in Decoder
        BY <3>2, <3>4, <3>6 DEF Decoder, buf
      <4>3. e.buf \o w = c \o (CRLF \o ChunksLeft(m, j)) /\ e.chunk_remaining = Len(c)
        BY <3>4, <3>6, <4>1 DEF t
      <4> HIDE DEF e
      <4>4. Decoding(m, e, e.buf \o w, rest)
        BY <3>1, <3>2, <3>5, <4>1, <4>3 DEF Decoding, n
      <4> QED
        BY <1>0, <4>2, <4>4 DEF DecoderAt
    <3> HIDE DEF e, i, line, size
    <3> QED
      BY <3>2, <3>4, <3>6
  <2> QED
    BY <2>8, <2>9
<1> QED
  BY <1>8

\* The smaller one of two numbers.
LEMMA MinOfTwo ==
  ASSUME NEW a \in Nat, NEW b \in Nat
  PROVE  Min({a, b}) = IF a <= b THEN a ELSE b
<1>1. {a, b} \in SUBSET Nat /\ {a, b} # {}
  OBVIOUS
<1>2. Min({a, b}) \in {a, b} /\ \A y \in {a, b} : Min({a, b}) <= y
  BY <1>1, MinProps
<1> DEFINE x == Min({a, b})
<1>3. (x = a \/ x = b) /\ x <= a /\ x <= b
  BY <1>2
<1> HIDE DEF x
<1>4. x = IF a <= b THEN a ELSE b
  BY <1>3
<1> QED
  BY <1>4 DEF x

\* A decoder inside of a chunk passes on what it has of it.
LEMMA BodyStep ==
  ASSUME NEW m, IsMessage(m), m.framing = "chunked", NEW d, NEW w, NEW rest, d.state = "ReadingBody", DecoderAt(m, d, w, rest)
  PROVE  LET take == Min({d.chunk_remaining, Len(d.buf)})
             left == d.chunk_remaining - take
             e == [buf |-> Drop(d.buf, take), chunk_remaining |-> left,
                   state |-> IF left = 0 THEN "BodyTrail" ELSE "ReadingBody"]
         IN /\ Take(d.buf, take) \in Bytes
            /\ \E r \in Bytes : rest = Take(d.buf, take) \o r /\ DecoderAt(m, e, w, r)
            /\ left # 0 => w # <<>>
<1> DEFINE take == Min({d.chunk_remaining, Len(d.buf)})
           left == d.chunk_remaining - take
           e == [buf |-> Drop(d.buf, take), chunk_remaining |-> left,
                 state |-> IF left = 0 THEN "BodyTrail" ELSE "ReadingBody"]
           n == Len(m.chunks)
           buf == d.buf
           Goal == /\ Take(d.buf, take) \in Bytes
                   /\ \E r \in Bytes : rest = Take(d.buf, take) \o r /\ DecoderAt(m, e, w, r)
                   /\ left # 0 => w # <<>>
<1>0. buf \in Bytes /\ Len(buf) \in Nat /\ w \in Bytes /\ rest \in Bytes
  BY BytesLen DEF Decoder, DecoderAt
<1>1. PICK k \in 0..n, c \in Bytes : /\ c # <<>> /\ d.chunk_remaining = Len(c)
                                     /\ buf \o w = c \o (CRLF \o ChunksLeft(m, k)) /\ rest = c \o BodyLeft(m, k)
  BY DEF Decoding, DecoderAt
<1> DEFINE t == CRLF \o ChunksLeft(m, k)
           b == BodyLeft(m, k)
<1>2. t \in Bytes /\ b \in Bytes
  <2>1. ChunksLeft(m, k) \in Bytes /\ CRLF \in Bytes
    BY ChunkRest, Separators
  <2>2. b \in Bytes
    BY BodyRest
  <2> QED
    BY <2>1, <2>2, RowProps, Zenon
<1>3. Meet(buf, w, c, t) /\ rest = c \o b
  BY <1>1 DEF Meet
<1>4. Len(c) \in Nat /\ Len(c) # 0
  BY <1>1, BytesLen, RowEmpty
<1>5. take = IF Len(c) <= Len(buf) THEN Len(c) ELSE Len(buf)
  BY <1>0, <1>1, <1>4, MinOfTwo DEF buf
<1>6. left = Len(c) - take
  BY <1>1
<1>7. e.buf = Drop(buf, take) /\ e.chunk_remaining = left /\ e.state = IF left = 0 THEN "BodyTrail" ELSE "ReadingBody"
  BY DEF buf
<1>8. e = [buf |-> Drop(buf, take), chunk_remaining |-> left, state |-> IF left = 0 THEN "BodyTrail" ELSE "ReadingBody"]
  BY DEF buf
<1> HIDE DEF n, take, left, e, t, b, buf
<1>9. Goal
  <2>1. CASE Len(c) <= Len(buf)
    <3>1. take = Len(c) /\ left = 0
      BY <1>4, <1>5, <1>6, <2>1
    <3>2. Take(buf, Len(c)) = c /\ Drop(buf, Len(c)) \o w = t /\ Drop(buf, Len(c)) \in Bytes
      BY <1>0, <1>2, <1>3, <2>1, Divide
    <3>3. Take(buf, take) = c /\ e.buf \o w = t /\ e.buf \in Bytes /\ e.state = "BodyTrail"
      BY <1>7, <3>1, <3>2
    <3>4. Decoding(m, e, e.buf \o w, b)
      BY <3>3 DEF Decoding, n, t, b
    <3>5. e \in Decoder
      BY <1>7, <1>8, <3>1, <3>3 DEF Decoder
    <3>6. Take(buf, take) \in Bytes /\ rest = Take(buf, take) \o b
      BY <1>3, <3>3
    <3> QED
      BY <1>0, <1>2, <3>1, <3>4, <3>5, <3>6 DEF buf, DecoderAt
  <2>2. CASE ~(Len(c) <= Len(buf))
    <3> DEFINE x == Drop(c, Len(buf))
    <3>1. take = Len(buf) /\ left = Len(c) - Len(buf) /\ left \in Nat /\ left # 0 /\ Len(buf) <= Len(c)
      BY <1>0, <1>4, <1>5, <1>6, <2>2
    <3>2. Meet(c, t, buf, w)
      BY <1>3 DEF Meet
    <3>3. c = buf \o x /\ x \o t = w /\ x \in Bytes /\ Len(x) = Len(c) - Len(buf)
      <4>1. c \in Bytes /\ t \in Bytes /\ buf \in Bytes /\ w \in Bytes /\ Len(buf) <= Len(c)
        BY <1>0, <1>2, <3>1
      <4> QED
        BY <3>2, <4>1, Divide
    <3>4. Take(buf, Len(buf)) = buf /\ Drop(buf, Len(buf)) = <<>>
      BY <1>0, TakeAll
    <3>5. Take(buf, take) = buf /\ e.buf = <<>>
      BY <1>7, <3>1, <3>4
    <3> HIDE DEF x
    <3>6. x # <<>>
      BY <3>1, <3>3, RowEmpty
    <3>7. e.buf \o w = x \o t
      BY <3>3, <3>5, RowEmpty
    <3> DEFINE r == x \o b
    <3>8. rest = buf \o r /\ r \in Bytes
      <4>1. (buf \o x) \o b = buf \o (x \o b)
        <5>1. buf \in Bytes /\ x \in Bytes /\ b \in Bytes
          BY <1>0, <1>2, <3>3
        <5> QED
          BY <5>1, RowAssoc
      <4>2. r \in Bytes
        BY <1>2, <3>3, RowProps
      <4> QED
        BY <1>3, <3>3, <4>1, <4>2
    <3>9. Decoding(m, e, e.buf \o w, r)
      <4>1. e.state = "ReadingBody" /\ e.chunk_remaining = Len(x)
        BY <1>7, <3>1, <3>3
      <4> QED
        BY <3>3, <3>6, <3>7, <4>1 DEF Decoding, n, t, b
    <3> HIDE DEF r
    <3>10. e \in Decoder
      BY <1>8, <3>1, <3>5, <1>7, RowEmpty DEF Decoder
    <3>11. w # <<>>
      <4>1. Len(x \o t) = Len(x) + Len(t) /\ Len(t) \in Nat
        BY <1>2, <3>3, RowProps, BytesLen
      <4>2. Len(w) # 0
        BY <3>1, <3>3, <4>1
      <4> QED
        BY <4>2, RowEmpty
    <3> QED
      BY <1>0, <3>5, <3>8, <3>9, <3>10, <3>11 DEF buf, DecoderAt
  <2> QED
    BY <2>1, <2>2
<1> QED
  BY <1>9 DEF take, left, e

\* A decoder that goes on, field by field.
LEMMA DecoderIs ==
  ASSUME NEW d \in Decoder, NEW x
  PROVE  /\ [d EXCEPT !.buf = x, !.state = "ReadingSize"] = [buf |-> x, chunk_remaining |-> d.chunk_remaining, state |-> "ReadingSize"]
         /\ [d EXCEPT !.buf = x] = [buf |-> x, chunk_remaining |-> d.chunk_remaining, state |-> d.state]
         /\ x \in Bytes => [d EXCEPT !.buf = x] \in Decoder
<1> DEFINE g == [d EXCEPT !.buf = x]
           h == [d EXCEPT !.buf = x, !.state = "ReadingSize"]
           k == [buf |-> x, chunk_remaining |-> d.chunk_remaining, state |-> "ReadingSize"]
<1>1. g = [buf |-> x, chunk_remaining |-> d.chunk_remaining, state |-> d.state] /\ (x \in Bytes => g \in Decoder)
  BY DEF Decoder
<1>2. h = [g EXCEPT !.state = "ReadingSize"]
  BY DEF Decoder
<1> HIDE DEF g
<1>3. [g EXCEPT !.state = "ReadingSize"] = k
  BY <1>1
<1> QED
  BY <1>1, <1>2, <1>3 DEF g

\* A decoder at the end of a chunk waits for both of its bytes.
LEMMA TrailStep ==
  ASSUME NEW m, IsMessage(m), m.framing = "chunked", NEW d, NEW w, NEW rest, d.state = "BodyTrail", DecoderAt(m, d, w, rest)
  PROVE  LET e == [d EXCEPT !.buf = Drop(@, 2), !.state = "ReadingSize"]
         IN /\ Len(d.buf) < 2 => w # <<>>
            /\ ~(Len(d.buf) < 2) => DecoderAt(m, e, w, rest)
<1> DEFINE e == [d EXCEPT !.buf = Drop(@, 2), !.state = "ReadingSize"]
           buf == d.buf
<1>0. buf \in Bytes /\ Len(buf) \in Nat /\ w \in Bytes /\ rest \in Bytes
  BY BytesLen DEF Decoder, DecoderAt
<1>1. PICK k \in 0..Len(m.chunks) : buf \o w = CRLF \o ChunksLeft(m, k) /\ rest = BodyLeft(m, k)
  BY DEF Decoding, DecoderAt
<1> DEFINE t == ChunksLeft(m, k)
<1>2. t \in Bytes /\ CRLF \in Bytes /\ Len(CRLF) = 2 /\ Len(t) \in Nat /\ Len(w) \in Nat
  BY <1>0, ChunkRest, Separators, BytesLen
<1>3. Meet(buf, w, CRLF, t)
  BY <1>1 DEF Meet
<1>4. e.buf = Drop(buf, 2) /\ e.state = "ReadingSize" /\ e = [buf |-> Drop(buf, 2), chunk_remaining |-> d.chunk_remaining, state |-> "ReadingSize"]
  <2> DEFINE y == Drop(d.buf, 2)
  <2>1. [d EXCEPT !.buf = y, !.state = "ReadingSize"] = [buf |-> y, chunk_remaining |-> d.chunk_remaining, state |-> "ReadingSize"]
    BY DecoderIs DEF DecoderAt
  <2> QED
    BY <2>1
<1> HIDE DEF t, e, buf
<1>5. Len(buf) < 2 => w # <<>>
  <2>1. Len(buf \o w) = Len(buf) + Len(w) /\ Len(CRLF \o t) = Len(CRLF) + Len(t)
    BY <1>0, <1>2, RowProps
  <2>2. Len(buf) + Len(w) = 2 + Len(t)
    BY <1>2, <1>3, <2>1 DEF Meet
  <2>3. Len(buf) < 2 => Len(w) # 0
    BY <1>0, <1>2, <2>2
  <2> QED
    BY <2>3, RowEmpty
<1>6. ASSUME ~(Len(buf) < 2) PROVE DecoderAt(m, e, w, rest)
  <2>1. Len(CRLF) <= Len(buf)
    BY <1>0, <1>2, <1>6
  <2>2. Drop(buf, Len(CRLF)) \o w = t /\ Drop(buf, Len(CRLF)) \in Bytes
    <3>1. CRLF \in Bytes /\ t \in Bytes /\ buf \in Bytes /\ w \in Bytes
      BY <1>0, <1>2
    <3> QED
      BY <1>3, <2>1, <3>1, Divide
  <2>3. e.buf \o w = t /\ e.buf \in Bytes
    BY <1>2, <1>4, <2>2
  <2>4. e \in Decoder
    BY <1>4, <2>3 DEF Decoder, DecoderAt
  <2>5. Decoding(m, e, e.buf \o w, rest)
    BY <1>1, <1>4, <2>3 DEF Decoding, t
  <2> QED
    BY <1>0, <2>4, <2>5 DEF DecoderAt
<1> QED
  BY <1>5, <1>6 DEF e, buf

\* A decoder at its beginning.
Start == [buf |-> <<>>, chunk_remaining |-> 0, state |-> "ReadingSize"]

\* Bytes that are read go to the end of the buffer.
LEMMA DecoderReads ==
  ASSUME NEW m, NEW d, NEW b \in Bytes, NEW w \in Bytes, NEW rest, DecoderAt(m, d, b \o w, rest)
  PROVE  DecoderAt(m, [d EXCEPT !.buf = @ \o b], w, rest)
<1> DEFINE buf == d.buf
           x == buf \o b
           u == buf \o (b \o w)
           e == [d EXCEPT !.buf = x]
<1>1. d \in Decoder /\ buf \in Bytes /\ rest \in Bytes /\ Decoding(m, d, u, rest)
  BY DEF DecoderAt, Decoder
<1> HIDE DEF buf
<1>2. x \in Bytes /\ x \o w = u
  <2>1. buf \in Bytes
    BY <1>1
  <2>2. x \in Bytes
    BY <2>1, RowProps
  <2>3. (buf \o b) \o w = buf \o (b \o w)
    BY <2>1, RowAssoc
  <2> QED
    BY <2>2, <2>3
<1> HIDE DEF x, u
<1>3. e = [buf |-> x, chunk_remaining |-> d.chunk_remaining, state |-> d.state] /\ e \in Decoder
  BY <1>1, <1>2, DecoderIs
<1>4. e.buf \o w = u /\ e.chunk_remaining = d.chunk_remaining /\ e.state = d.state
  BY <1>2, <1>3
<1> HIDE DEF e
<1>5. Decoding(m, e, e.buf \o w, rest)
  BY <1>1, <1>4 DEF Decoding
<1>6. DecoderAt(m, e, w, rest)
  BY <1>1, <1>3, <1>5 DEF DecoderAt
<1> QED
  BY <1>6 DEF e, x, buf

\* The whole body is ahead of a decoder at its beginning.
LEMMA DecoderStarts ==
  ASSUME NEW m, IsMessage(m), m.framing = "chunked"
  PROVE  DecoderAt(m, Start, Payload(m), Body(m))
<1> DEFINE w == Payload(m)
           n == Len(m.chunks)
<1>1. n \in Nat /\ ChunksLeft(m, 0) = w /\ w \in Bytes
  BY ChunkRest
<1>2. BodyLeft(m, 0) = Body(m) /\ Body(m) \in Bytes
  BY BodyRest
<1> HIDE DEF w
<1>3. Start.buf = <<>> /\ Start.state = "ReadingSize" /\ Start \in Decoder
  BY RowEmpty DEF Start, Decoder
<1>4. Start.buf \o w = w
  BY <1>1, <1>3, RowEmpty
<1>5. 0 \in 0..n
  BY <1>1
<1>6. Decoding(m, Start, Start.buf \o w, Body(m))
  BY <1>1, <1>2, <1>3, <1>4, <1>5 DEF Decoding
<1> QED
  BY <1>1, <1>2, <1>3, <1>6 DEF DecoderAt, w

\* The body and the payload of a message are runs of bytes.
LEMMA MessageProps ==
  ASSUME NEW m, IsMessage(m)
  PROVE  LET h == Header(HeaderLines(m))
         IN /\ Body(m) \in Bytes /\ Payload(m) \in Bytes /\ h \in Bytes /\ Encoded(m) \in Bytes
            /\ Encoded(m) = h \o Payload(m)
            /\ FindHeaderEnd(Encoded(m)) = Len(h) /\ Index(Encoded(m), Blank) = Len(h) - 3 /\ Len(h) >= 4
            /\ ParseContentLength(h) = IF m.framing = "length" THEN Len(Body(m)) ELSE Absent
            /\ IsChunkedEncoding(h) <=> m.framing = "chunked"
            /\ (\E i \in DOMAIN h : h[i] = SSE) <=> m.sse
<1> DEFINE ls == HeaderLines(m)
           h == Header(ls)
           t == Payload(m)
<1>1. Body(m) \in Bytes /\ m.sse \in BOOLEAN /\ m.framing \in {"length", "chunked", "none"}
  BY BodyRest DEF IsMessage
<1>2. t \in Bytes
  BY <1>1, ChunkRest DEF Payload
<1>3. /\ AreLines(ls)
      /\ ParseContentLength(h) = IF m.framing = "length" THEN Len(Body(m)) ELSE Absent
      /\ IsChunkedEncoding(h) <=> m.framing = "chunked"
      /\ (\E i \in DOMAIN h : h[i] = SSE) <=> m.sse
  BY <1>1, HeaderParsed
<1>4. Encoded(m) = h \o t
  BY DEF Encoded
<1> HIDE DEF t, ls
<1>5. h \in Bytes /\ Len(h) >= 4 /\ Index(h \o t, Blank) = Len(h) - 3 /\ FindHeaderEnd(h \o t) = Len(h)
  BY <1>2, <1>3, HeaderEnd
<1> HIDE DEF h
<1>6. Encoded(m) \in Bytes
  BY <1>2, <1>4, <1>5, RowProps
<1> QED
  BY <1>1, <1>2, <1>3, <1>4, <1>5, <1>6 DEF h, t, ls

\* The header of a message is found as soon as it is there.
LEMMA HeaderArrives ==
  ASSUME NEW m, IsMessage(m), NEW r \in Bytes, NEW w \in Bytes, r \o w = Encoded(m)
  PROVE  LET h == Header(HeaderLines(m))
             e == FindHeaderEnd(r)
         IN /\ e = 0 => w # <<>>
            /\ e # 0 => /\ e = Len(h) /\ Take(r, e) = h /\ Drop(r, e) \in Bytes
                        /\ Drop(r, e) \o w = Payload(m) /\ Len(Drop(r, e)) = Len(r) - Len(h) /\ h \o Drop(r, e) = r
<1> DEFINE h == Header(HeaderLines(m))
           t == Payload(m)
           e == FindHeaderEnd(r)
           i == Index(r, Blank)
           j == Index(Encoded(m), Blank)
<1>1. t \in Bytes /\ h \in Bytes /\ Encoded(m) = h \o t /\ j = Len(h) - 3 /\ Len(h) >= 4
  BY MessageProps
<1>2. Blank \in Bytes /\ Blank # <<>> /\ Len(Blank) = 4
  BY Separators
<1>3. /\ i # 0 => j = i
      /\ j # 0 /\ j + Len(Blank) - 1 <= Len(r) => i = j
      /\ i # 0 => i + Len(Blank) - 1 <= Len(r)
  <2>1. /\ i # 0 => Index(r \o w, Blank) = i
        /\ Index(r \o w, Blank) # 0 /\ Index(r \o w, Blank) + Len(Blank) - 1 <= Len(r) => i = Index(r \o w, Blank)
        /\ i # 0 => i + Len(Blank) - 1 <= Len(r)
    BY <1>2, IndexMore
  <2>2. Index(r \o w, Blank) = j
    OBVIOUS
  <2> HIDE DEF i, j
  <2> QED
    BY <2>1, <2>2
<1>4. Len(r) \in Nat /\ Len(h) \in Nat /\ Len(w) \in Nat
  BY <1>1, BytesLen
<1>5. e = IF i = 0 THEN 0 ELSE i + 3
  BY DEF FindHeaderEnd
<1>6. Meet(r, w, h, t)
  BY <1>1 DEF Meet
<1>7. Len(h) <= Len(r) => r = h \o Drop(r, Len(h)) /\ Drop(r, Len(h)) \o w = t /\ Take(r, Len(h)) = h /\ Drop(r, Len(h)) \in Bytes /\ Len(Drop(r, Len(h))) = Len(r) - Len(h)
  <2>1. h \in Bytes /\ t \in Bytes
    BY <1>1
  <2> HIDE DEF h, t
  <2>2. SUFFICES ASSUME Len(h) <= Len(r) PROVE r = h \o Drop(r, Len(h)) /\ Drop(r, Len(h)) \o w = t /\ Take(r, Len(h)) = h /\ Drop(r, Len(h)) \in Bytes /\ Len(Drop(r, Len(h))) = Len(r) - Len(h)
    OBVIOUS
  <2> QED
    BY <1>6, <2>1, <2>2, Divide
<1>8. ~(Len(h) <= Len(r)) => w # <<>>
  <2>1. Len(r \o w) = Len(r) + Len(w) /\ Len(h \o t) = Len(h) + Len(t) /\ Len(t) \in Nat
    BY <1>1, RowProps, BytesLen
  <2>2. ~(Len(h) <= Len(r)) => Len(w) # 0
    BY <1>1, <1>4, <2>1
  <2> QED
    BY <2>2, RowEmpty
<1> HIDE DEF h, t, i, j
<1>9. (e = 0 /\ ~(Len(h) <= Len(r))) \/ (e = Len(h) /\ Len(h) <= Len(r) /\ e # 0)
  <2> DEFINE p == Len(h)
             q == Len(r)
             b == Len(Blank)
  <2>1. p \in Nat /\ q \in Nat /\ b = 4 /\ j = p - 3 /\ p >= 4
    BY <1>1, <1>2, <1>4
  <2>2. (i # 0 => j = i) /\ (j # 0 /\ j + b - 1 <= q => i = j) /\ (i # 0 => i + b - 1 <= q)
    BY <1>3
  <2> HIDE DEF p, q, b, e
  <2>3. (e = 0 /\ ~(p <= q)) \/ (e = p /\ p <= q /\ e # 0)
    BY <1>5, <2>1, <2>2
  <2> QED
    BY <2>3 DEF p, q
<1> HIDE DEF e
<1>10. /\ e = 0 => w # <<>>
       /\ e # 0 => /\ e = Len(h) /\ Take(r, e) = h /\ Drop(r, e) \in Bytes
                   /\ Drop(r, e) \o w = t /\ Len(Drop(r, e)) = Len(r) - Len(h) /\ h \o Drop(r, e) = r
  BY <1>7, <1>8, <1>9
<1> QED
  BY <1>10 DEF h, t, e

\* t ends with e.
Ending(t, e) == \E x \in Bytes : t = x \o e

\* So does whatever t ends.
LEMMA EndingRow ==
  ASSUME NEW a \in Bytes, NEW t, NEW e \in Bytes, Ending(t, e)
  PROVE  Ending(a \o t, e)
<1>1. PICK x \in Bytes : t = x \o e
  BY DEF Ending
<1> DEFINE y == a \o x
<1>2. y \in Bytes
  BY RowProps
<1>3. y \o e = a \o (x \o e)
  BY RowAssoc
<1> HIDE DEF y
<1> QED
  BY <1>1, <1>2, <1>3 DEF Ending

\* The end of a run is found in it.
LEMMA EndingFound ==
  ASSUME NEW t \in Bytes, NEW e \in Bytes, e # <<>>, Ending(t, e)
  PROVE  Index(t, e) # 0
<1>1. PICK x \in Bytes : t = x \o e
  BY DEF Ending
<1>2. Len(x) \in Nat /\ Len(e) \in Nat
  BY BytesLen
<1>3. Len(t) = Len(x) + Len(e) /\ \A i \in 1..Len(e) : t[Len(x) + i] = e[i]
  BY <1>1, RowProps
<1> DEFINE p == Len(x) + 1
<1>4. HitAt(t, e, p)
  <2>1. p \in 1..(Len(t) - Len(e) + 1)
    BY <1>2, <1>3
  <2>2. ASSUME NEW j \in 1..Len(e) PROVE t[p + j - 1] = e[j]
    <3>1. p + j - 1 = Len(x) + j
      BY <1>2
    <3> QED
      BY <1>3, <3>1
  <2> HIDE DEF p
  <2> QED
    BY <2>1, <2>2 DEF HitAt
<1> QED
  BY <1>4, IndexProps

\* The search for the last chunk and what precedes it.
LEMMA LastChunkEnd ==
  LET e == CRLF \o LastChunk
  IN e \in Bytes /\ Len(e) = 7 /\ e # <<>>
<1>1. CRLF \in Bytes /\ LastChunk \in Bytes /\ Len(CRLF) = 2 /\ Len(LastChunk) = 5
  BY Separators
<1> DEFINE e == CRLF \o LastChunk
<1>2. e \in Bytes /\ Len(e) = Len(CRLF) + Len(LastChunk)
  BY <1>1, RowProps
<1> HIDE DEF e
<1>3. Len(e) = 7
  BY <1>1, <1>2
<1>4. e # <<>>
  BY <1>3, RowEmpty
<1> QED
  BY <1>2, <1>3, <1>4 DEF e

\* A payload with chunks ends with the end of a chunk and the last one, and begins with a size.
LEMMA PayloadEnds ==
  ASSUME NEW m, IsMessage(m), m.framing = "chunked"
  PROVE  /\ Len(m.chunks) = 0 => Payload(m) = LastChunk
         /\ Len(m.chunks) # 0 => Ending(Payload(m), CRLF \o LastChunk) /\ Payload(m)[1] # 0
<1> DEFINE n == Len(m.chunks)
           R(k) == ChunksLeft(m, k)
           E == CRLF \o LastChunk
<1>1. n \in Nat /\ R(0) = Payload(m) /\ \A k \in 0..n : R(k) \in Bytes
  BY ChunkRest
<1>2. \A k \in 1..n : /\ m.chunks[k] \in Bytes /\ Len(m.chunks[k]) \in Nat \ {0}
                      /\ R(k - 1) = <<Len(m.chunks[k])>> \o (CRLF \o (m.chunks[k] \o (CRLF \o R(k))))
  BY ChunkRest
<1>3. R(n) = LastChunk
  BY ChunkRest DEF LastChunk, Blank
<1>4. E \in Bytes /\ CRLF \in Bytes
  BY LastChunkEnd, Separators
<1> HIDE DEF n, R, E
<1>5. CASE n = 0
  BY <1>1, <1>3, <1>5 DEF n
<1>6. CASE n # 0
  <2>1. ASSUME NEW k \in 1..n PROVE <<Len(m.chunks[k])>> \in Bytes /\ m.chunks[k] \in Bytes
    <3>0. m.chunks[k] \in Bytes
      BY <1>2, Zenon
    <3>1. m.chunks[k] \in Bytes /\ Len(m.chunks[k]) \in Int
      BY <3>0, BytesLen
    <3> QED
      BY <3>1, OneByte
  <2>2. n \in 1..n /\ n - 1 \in 0..n
    BY <1>1, <1>6
  <2>3. Ending(R(n - 1), E)
    <3> DEFINE c == m.chunks[n]
               s == <<Len(c)>>
               t == CRLF \o R(n)
    <3>1. s \in Bytes /\ c \in Bytes
      BY <2>1, <2>2
    <3>2. R(n - 1) = s \o (CRLF \o (c \o t))
      BY <1>2, <2>2
    <3>3. t = E
      BY <1>3 DEF E
    <3> HIDE DEF c, s, t
    <3>4. Ending(t, E)
      BY <1>4, <3>3, RowEmpty DEF Ending
    <3>5. Ending(c \o t, E)
      BY <1>4, <3>1, <3>4, EndingRow
    <3>6. Ending(CRLF \o (c \o t), E)
      BY <1>4, <3>5, EndingRow
    <3>7. Ending(s \o (CRLF \o (c \o t)), E)
      BY <1>4, <3>1, <3>6, EndingRow
    <3> QED
      BY <3>2, <3>7
  <2>4. ASSUME NEW k \in 1..n, Ending(R(k), E) PROVE Ending(R(k - 1), E)
    <3> DEFINE c == m.chunks[k]
               s == <<Len(c)>>
               t == R(k)
    <3>1. s \in Bytes /\ c \in Bytes
      BY <2>1
    <3>2. R(k - 1) = s \o (CRLF \o (c \o (CRLF \o t)))
      BY <1>2
    <3>3. Ending(t, E)
      BY <2>4
    <3> HIDE DEF c, s, t
    <3>4. Ending(CRLF \o t, E)
      BY <1>4, <3>3, EndingRow
    <3>5. Ending(c \o (CRLF \o t), E)
      BY <1>4, <3>1, <3>4, EndingRow
    <3>6. Ending(CRLF \o (c \o (CRLF \o t)), E)
      BY <1>4, <3>5, EndingRow
    <3>7. Ending(s \o (CRLF \o (c \o (CRLF \o t))), E)
      BY <1>4, <3>1, <3>6, EndingRow
    <3> QED
      BY <3>2, <3>7
  <2>5. \A j \in 0..(n - 1) : Ending(R(n - 1 - j), E)
    <3> DEFINE T == {j \in Nat : j <= n - 1 => Ending(R(n - 1 - j), E)}
    <3>1. 0 \in T
      BY <1>1, <2>3
    <3>2. ASSUME NEW j \in T PROVE j + 1 \in T
      <4>1. SUFFICES ASSUME j + 1 <= n - 1 PROVE Ending(R(n - 1 - (j + 1)), E)
        OBVIOUS
      <4> DEFINE k == n - 1 - j
      <4>2. k \in 1..n /\ k - 1 = n - 1 - (j + 1) /\ j <= n - 1
        BY <1>1, <4>1
      <4>3. Ending(R(k), E)
        BY <4>2
      <4> HIDE DEF k
      <4> QED
        BY <2>4, <4>2, <4>3
    <3> HIDE DEF T
    <3>3. T = Nat
      BY <3>1, <3>2, NatInductionSet DEF T
    <3>4. SUFFICES ASSUME NEW j \in 0..(n - 1) PROVE Ending(R(n - 1 - j), E)
      OBVIOUS
    <3>5. j \in Nat /\ j <= n - 1
      BY <1>1
    <3>6. j \in T
      BY <3>3, <3>5
    <3> QED
      BY <3>5, <3>6 DEF T
  <2>6. Ending(R(0), E)
    <3>1. n - 1 \in 0..(n - 1) /\ n - 1 - (n - 1) = 0
      BY <1>1, <1>6
    <3> QED
      BY <2>5, <3>1
  <2>7. R(0)[1] # 0
    <3> DEFINE c == m.chunks[1]
               s == <<Len(c)>>
               t == CRLF \o (c \o (CRLF \o R(1)))
    <3>1. 1 \in 1..n /\ 1 \in 0..n /\ 1 - 1 = 0
      BY <1>1, <1>6
    <3>2. c \in Bytes /\ Len(c) \in Nat \ {0} /\ R(0) = s \o t
      BY <1>2, <3>1
    <3>3. s \in Bytes /\ Len(s) = 1 /\ s[1] = Len(c)
      BY <3>2, OneByte
    <3>4. t \in Bytes
      <4>1. R(1) \in Bytes
        BY <1>1, <3>1
      <4>2. CRLF \o R(1) \in Bytes
        BY <1>4, <4>1, RowProps
      <4>3. c \o (CRLF \o R(1)) \in Bytes
        BY <3>2, <4>2, RowProps
      <4> QED
        BY <1>4, <4>3, RowProps
    <3> HIDE DEF s, t
    <3>5. \A i \in 1..Len(s) : (s \o t)[i] = s[i]
      BY <3>3, <3>4, RowProps
    <3>6. (s \o t)[1] = s[1]
      BY <3>3, <3>5
    <3> QED
      BY <3>2, <3>3, <3>6
  <2> QED
    BY <1>1, <1>6, <2>6, <2>7 DEF n, E
<1> QED
  BY <1>5, <1>6 DEF n

\* A chunked document is complete when all of it has been read, and not before.
LEMMA DocumentEnds ==
  ASSUME NEW m, IsMessage(m), m.framing = "chunked", LastChunkApart(m),
         NEW r \in Bytes, NEW w \in Bytes, r \o w = Payload(m)
  PROVE  FindChunkedBodyEnd(r) > 0 <=> w = <<>>
<1> DEFINE P == Payload(m)
           n == Len(m.chunks)
           E == CRLF \o LastChunk
           i == Index(r, E)
           j == Index(P, E)
           first == IsPrefix(LastChunk, r)
<1>1. P \in Bytes /\ r \o w = P
  BY MessageProps
<1>2. E \in Bytes /\ Len(E) = 7 /\ E # <<>>
  BY LastChunkEnd
<1>3. Len(r) \in Nat /\ Len(w) \in Nat /\ Len(P) = Len(r) + Len(w) /\ (w = <<>> <=> Len(w) = 0) /\ (w = <<>> => r = P)
  BY <1>1, RowProps, BytesLen, RowEmpty
<1>4. /\ i # 0 => Index(r \o w, E) = i
      /\ Index(r \o w, E) # 0 /\ Index(r \o w, E) + Len(E) - 1 <= Len(r) => i = Index(r \o w, E)
      /\ i # 0 => i + Len(E) - 1 <= Len(r)
  <2> HIDE DEF E
  <2> QED
    BY <1>2, IndexMore
<1>5. j \in {0, Len(P) - 6}
  BY DEF LastChunkApart
<1>6. i \in 0..Len(r)
  <2> HIDE DEF E
  <2> QED
    BY <1>2, IndexProps
<1>7. /\ n = 0 => P = LastChunk
      /\ n # 0 => Ending(P, E) /\ P[1] # 0
  BY PayloadEnds
<1>8. LastChunk \in Bytes /\ Len(LastChunk) = 5 /\ LastChunk[1] = 0
  BY Separators
<1>9. FindChunkedBodyEnd(r) > 0 <=> i > 0 \/ first
  <2> HIDE DEF i, first
  <2>1. FindChunkedBodyEnd(r) = IF i > 0 THEN i + 6 ELSE IF first THEN 5 ELSE 0
    BY DEF FindChunkedBodyEnd, i, first
  <2> QED
    BY <1>6, <2>1
<1>10. first => Len(r) >= 5 /\ r[1] = 0
  <2>1. SUFFICES ASSUME first PROVE Len(r) >= 5 /\ r[1] = 0
    OBVIOUS
  <2>2. Len(LastChunk) <= Len(r) /\ Take(LastChunk, Len(LastChunk)) = Take(r, Len(LastChunk))
    BY <2>1 DEF IsPrefix, Take
  <2>3. Take(LastChunk, 5) = Take(r, 5) /\ 5 \in 0..Len(r) /\ 5 \in 0..Len(LastChunk)
    BY <1>3, <1>8, <2>2
  <2>4. Take(r, 5)[1] = r[1] /\ Take(LastChunk, 5)[1] = LastChunk[1]
    <3>1. \A q \in 1..5 : Take(r, 5)[q] = r[q]
      BY <2>3, TakeProps
    <3>2. \A q \in 1..5 : Take(LastChunk, 5)[q] = LastChunk[q]
      BY <1>8, <2>3, TakeProps
    <3>3. 1 \in 1..5
      OBVIOUS
    <3> QED
      BY <3>1, <3>2, <3>3
  <2> QED
    BY <1>3, <1>8, <2>2, <2>3, <2>4
<1>11. n = 0 /\ w = <<>> => first
  <2>1. SUFFICES ASSUME n = 0, w = <<>> PROVE first
    OBVIOUS
  <2>2. r = LastChunk
    BY <1>3, <1>7, <2>1
  <2> QED
    BY <1>8, <2>2, PrefixOf
<1>12. n = 0 => j = 0
  <2>1. SUFFICES ASSUME n = 0 PROVE j = 0
    OBVIOUS
  <2>2. Len(P) = 5
    BY <1>7, <1>8, <2>1
  <2>3. j \in 0..Len(P)
    <3> HIDE DEF E, P
    <3> QED
      BY <1>1, <1>2, IndexProps
  <2> HIDE DEF j, P
  <2> QED
    BY <1>5, <2>2, <2>3
<1>13. n # 0 => j # 0
  <2> HIDE DEF E, P
  <2> QED
    BY <1>1, <1>2, <1>7, EndingFound
<1>14. Len(r) >= 5 => r[1] = P[1]
  <2>1. SUFFICES ASSUME Len(r) >= 5 PROVE r[1] = P[1]
    OBVIOUS
  <2>2. 1 \in 1..Len(r) /\ \A q \in 1..Len(r) : (r \o w)[q] = r[q]
    BY <1>3, <2>1, RowProps
  <2>3. (r \o w)[1] = r[1]
    BY <2>2
  <2> QED
    BY <1>1, <2>3
<1>15. Index(r \o w, E) = j
  BY <1>1
<1> DEFINE a == Len(r)
           b == Len(P)
           c == Len(E)
           d == Len(w)
<1>16. a \in Nat /\ d \in Nat /\ b = a + d /\ c = 7 /\ (w = <<>> <=> d = 0)
  BY <1>2, <1>3
<1>17. (i # 0 => j = i) /\ (j # 0 /\ j + c - 1 <= a => i = j) /\ (i # 0 => i + c - 1 <= a) /\ j \in {0, b - 6} /\ i \in 0..a
  <2> HIDE DEF i, j
  <2> QED
    BY <1>4, <1>5, <1>6, <1>15
<1>18. (first => a >= 5 /\ r[1] = 0) /\ (n = 0 => b = 5)
  BY <1>7, <1>8, <1>10
<1> HIDE DEF a, b, c, d, i, j, first, n, P, E
<1>19. CASE n = 0
  <2>1. i = 0
    BY <1>12, <1>16, <1>17, <1>19
  <2>2. first => d = 0
    BY <1>16, <1>18, <1>19
  <2> QED
    BY <1>9, <1>11, <1>16, <1>19, <2>1, <2>2
<1>20. CASE n # 0
  <2>1. ~first
    BY <1>7, <1>14, <1>18, <1>20 DEF a
  <2>2. j = b - 6 /\ j # 0
    BY <1>13, <1>17, <1>20
  <2>3. i > 0 => d = 0
    BY <1>16, <1>17, <2>2
  <2>4. d = 0 => i > 0
    BY <1>16, <1>17, <2>2
  <2> QED
    BY <1>9, <1>16, <2>1, <2>3, <2>4
<1> QED
  BY <1>19, <1>20

\* An event with one data line is written as its reader expects it.
LEMMA EventShown ==
  ASSUME NEW v \in [type : Bytes, data : Seq(Bytes)], Len(v.data) = 1, NEW e, e.type = v.type, e.data = Joined(v.data)
  PROVE  Reconstruct(e) = ShownEvent(v) /\ ShownEvent(v) \in Bytes
<1> DEFINE x == v.data[1]
           T == IF v.type = <<>> THEN <<>> ELSE <<EVENT>> \o v.type \o <<LF>>
           D == <<DATA>>
           L == <<LF>>
           LL == <<LF, LF>>
<1>1. x \in Bytes /\ DOMAIN v.data = 1..1 /\ v.type \in Bytes
  <2>1. v.data \in Seq(Bytes) /\ v.type \in Bytes
    OBVIOUS
  <2>2. DOMAIN v.data = 1..Len(v.data)
    BY <2>1
  <2> QED
    BY <2>1, <2>2
<1>2. D \in Bytes /\ L \in Bytes /\ LL \in Bytes /\ L \o L = LL /\ <<EVENT>> \in Bytes
  <2>1. LF \in Int /\ DATA \in Int /\ EVENT \in Int
    BY DEF LF, DATA, EVENT
  <2>2. D \in Bytes /\ L \in Bytes /\ <<EVENT>> \in Bytes /\ LL \in Bytes
    BY <2>1, OneByte, Separators
  <2>3. L \o L = LL
    <3>1. Len(L) = 1 /\ L[1] = LF
      BY <2>1, OneByte
    <3> DEFINE u == L \o L
    <3>2. u \in Bytes /\ Len(u) = Len(L) + Len(L) /\ (\A i \in 1..Len(L) : u[i] = L[i]) /\ \A i \in 1..Len(L) : u[Len(L) + i] = L[i]
      BY <2>2, RowProps
    <3>3. Len(LL) = 2 /\ LL[1] = LF /\ LL[2] = LF
      BY Separators
    <3> HIDE DEF u, L, LL
    <3>4. Len(u) = 2 /\ u[1] = LF /\ u[2] = LF
      <4>1. 1 \in 1..Len(L) /\ Len(L) + 1 = 2
        BY <3>1
      <4>2. u[1] = L[1] /\ u[Len(L) + 1] = L[1]
        BY <3>2, <4>1
      <4> QED
        BY <3>1, <3>2, <4>1, <4>2
    <3>5. \A i \in 1..Len(u) : i = 1 \/ i = 2
      BY <3>4
    <3>6. u = LL
      BY <2>2, <3>2, <3>3, <3>4, <3>5, SameBytes
    <3> QED
      BY <3>6 DEF u
  <2> QED
    BY <2>2, <2>3
<1>3. T \in Bytes
  <2> DEFINE k == <<EVENT>>
             q == v.type
  <2>1. k \in Bytes /\ q \in Bytes /\ L \in Bytes
    BY <1>1, <1>2
  <2> HIDE DEF k, q, L
  <2>2. k \o q \in Bytes
    BY <2>1, RowProps
  <2>3. k \o q \o L \in Bytes
    BY <2>1, <2>2, RowProps
  <2> QED
    BY <2>3, RowEmpty DEF k, q, L
<1>4. Joined(v.data) = x
  <2>1. [i \in DOMAIN v.data |-> IF i = 1 THEN v.data[i] ELSE <<LF>> \o v.data[i]] = [i \in 1..1 |-> x]
    BY <1>1
  <2>2. FlattenSeq([i \in 1..1 |-> x]) = x
    BY FlattenOne
  <2> QED
    BY <2>1, <2>2 DEF Joined
<1>5. FlattenSeq([i \in DOMAIN v.data |-> <<DATA>> \o v.data[i] \o <<LF>>]) = D \o x \o L
  <2>1. [i \in DOMAIN v.data |-> <<DATA>> \o v.data[i] \o <<LF>>] = [i \in 1..1 |-> D \o x \o L]
    BY <1>1
  <2>2. FlattenSeq([i \in 1..1 |-> D \o x \o L]) = D \o x \o L
    BY FlattenOne
  <2> QED
    BY <2>1, <2>2
<1>6. ShownEvent(v) = T \o (D \o x \o L) \o L
  BY <1>5 DEF ShownEvent
<1>7. Reconstruct(e) = T \o D \o x \o LL
  BY <1>4 DEF Reconstruct
<1> HIDE DEF x, T, D, L, LL
<1>8. D \o x \in Bytes /\ (D \o x) \o L \in Bytes /\ T \o D \in Bytes
  <2>1. D \o x \in Bytes
    BY <1>1, <1>2, RowProps
  <2>2. T \o D \in Bytes
    BY <1>2, <1>3, RowProps
  <2> DEFINE y == D \o x
  <2> HIDE DEF y
  <2>3. y \in Bytes
    BY <2>1 DEF y
  <2>4. y \o L \in Bytes
    BY <1>2, <2>3, RowProps
  <2> QED
    BY <2>1, <2>2, <2>4 DEF y
<1> DEFINE y == D \o x
           z == y \o L
<1>9. z \in Bytes /\ y \in Bytes
  BY <1>8
<1>10. y \o (L \o L) = z \o L
  <2>1. y \in Bytes /\ L \in Bytes
    BY <1>2, <1>9
  <2> HIDE DEF y
  <2>2. (y \o L) \o L = y \o (L \o L)
    BY <2>1, RowAssoc
  <2> QED
    BY <2>2
<1>11. (T \o D) \o x = T \o y
  BY <1>1, <1>2, <1>3, RowAssoc, ZenonT(60)
<1> HIDE DEF y, z
<1>12. (T \o y) \o LL = T \o (y \o LL)
  BY <1>2, <1>3, <1>9, RowAssoc, ZenonT(60)
<1>13. (T \o z) \o L = T \o (z \o L)
  <2>1. T \in Bytes /\ z \in Bytes /\ L \in Bytes
    BY <1>2, <1>3, <1>9
  <2> QED
    BY <2>1, RowAssoc
<1>14. (T \o z) \o L \in Bytes
  <2>1. T \o z \in Bytes
    BY <1>3, <1>9, RowProps
  <2> QED
    BY <1>2, <2>1, RowProps
<1>15. Reconstruct(e) = (T \o y) \o LL /\ ShownEvent(v) = (T \o z) \o L
  BY <1>6, <1>7, <1>11 DEF y, z
<1> QED
  BY <1>2, <1>10, <1>12, <1>13, <1>14, <1>15

-----------------------------------------------------------------------------
(* The phases of a response *)

\* The events of m as they are rewritten, and what is left of them behind the first e.
Frames(m) == [i \in DOMAIN m.events |-> Chunk(ShownEvent(m.events[i]))]
FramesLeft(m, e) == IF e = Len(m.events) THEN <<>> ELSE RestOf(Frames(m), LastChunk, e)
Rewritten(m) == Header(HeaderLines(m)) \o (FlattenSeq(Frames(m)) \o LastChunk)

\* The first e events of m as they are handled.
Heard(m, e) == [i \in 1..e |-> [type |-> m.events[i].type, data |-> Joined(m.events[i].data)]]

\* What the header of m says, with n bytes of the body read.
HeaderOf(m, n) ==
  [header_done |-> TRUE, content_length |-> IF m.framing = "length" THEN Len(Body(m)) ELSE Absent,
   is_chunked |-> m.framing = "chunked", is_sse |-> m.sse,
   body_start |-> Len(Header(HeaderLines(m))), forwarded |-> 0, body_received |-> n]

\* Nothing was sent yet.
NothingSent ==
  /\ sent = 0 /\ wire = <<>> /\ raw = <<>> /\ st = Idle /\ dec = Start
  /\ sse = <<>> /\ place = "read" /\ out = <<>> /\ seen = <<>>

\* The header of m arrives.
InHeader(m) ==
  /\ sent = 1 /\ place \in {"read", "header"}
  /\ raw \in Bytes /\ wire \in Bytes /\ raw \o wire = Encoded(m)
  /\ st = Idle /\ dec = Start /\ sse = <<>> /\ out = <<>> /\ seen = <<>>
  /\ place = "read" => wire # <<>>

\* m is no event stream, and its payload arrives.
Document(m) ==
  /\ ~m.sse /\ sent = 1 /\ place \in {"end", "read", "done"}
  /\ raw \in Bytes /\ wire \in Bytes /\ out \in Bytes
  /\ raw \o wire = Payload(m) /\ out \o wire = Encoded(m)
  /\ st = HeaderOf(m, Len(raw)) /\ seen = <<>>
  /\ place = "read" => wire # <<>>
  /\ place = "done" => wire = <<>>

\* m is an event stream: e events have been handled, and v has not reached the
\* parser yet.
Streaming(m, blocks, tail, e, v) ==
  /\ m.sse /\ sent = 1 /\ place \in {"decode", "parse", "read", "done"}
  /\ st = HeaderOf(m, st.body_received)
  /\ e \in 0..Len(m.events) /\ seen = Heard(m, e)
  /\ wire \in Bytes /\ out \in Bytes /\ sse \in Bytes /\ v \in Bytes
  /\ sse \o v = RestOf(blocks, tail, e)
  /\ place = "done" <=> e = Len(m.events)
  /\ place = "read" => wire # <<>>
  /\ place = "parse" /\ wire = <<>> => v = <<>>

\* The handler copies it, and the parser looks on.
Copied(m, v) == v = wire /\ out \o wire = Encoded(m) /\ place # "decode"

\* The handler decodes it and writes its events anew.
Replaced(m, e, v) ==
  /\ out \o FramesLeft(m, e) = Rewritten(m)
  /\ DecoderAt(m, dec, wire, v) \/ (v = <<>> /\ place \in {"parse", "done"})

ResponsePhase(m, blocks, tail) ==
  \/ NothingSent
  \/ InHeader(m)
  \/ Document(m)
  \/ \E e, v : /\ Streaming(m, blocks, tail, e, v)
               /\ IF pii_mode = "pii" THEN Replaced(m, e, v) ELSE Copied(m, v)

ResponseInv ==
  /\ pii_mode \in {"passthrough", "pii"}
  /\ \E m, blocks, tail :
       script = <<m>> /\ IsResponse(pii_mode = "pii", m, blocks, tail) /\ ResponsePhase(m, blocks, tail)

\* The event that comes next.
LEMMA HeardNext ==
  ASSUME NEW m, NEW e \in Nat
  PROVE  Append(Heard(m, e), [type |-> m.events[e + 1].type, data |-> Joined(m.events[e + 1].data)]) = Heard(m, e + 1)
<1> DEFINE ev(i) == [type |-> m.events[i].type, data |-> Joined(m.events[i].data)]
           a == [i \in 1..e |-> ev(i)]
           b == [i \in 1..(e + 1) |-> ev(i)]
<1> HIDE DEF ev
<1>1. Append(a, ev(e + 1)) = b
  <2>1. a \in Seq({ev(i) : i \in 1..(e + 1)}) /\ Len(a) = e
    OBVIOUS
  <2>2. b \in Seq({ev(i) : i \in 1..(e + 1)}) /\ Len(b) = e + 1
    OBVIOUS
  <2> QED
    BY <2>1, <2>2
<1> QED
  BY <1>1 DEF Heard, ev

\* The rewritten events of a stream, one at a time.
LEMMA FramesProps ==
  ASSUME NEW m, NEW blocks, NEW tail, IsResponse(TRUE, m, blocks, tail), m.sse
  PROVE  LET n == Len(m.events)
         IN /\ n \in Nat \ {0}
            /\ FramesLeft(m, 0) = FlattenSeq(Frames(m)) \o LastChunk
            /\ FlattenSeq(Frames(m)) \o LastChunk \in Bytes /\ Rewritten(m) \in Bytes
            /\ \A e \in 0..n : FramesLeft(m, e) \in Bytes
            /\ \A e \in 1..n : /\ Chunk(ShownEvent(m.events[e])) \in Bytes
                               /\ FramesLeft(m, e - 1) = Chunk(ShownEvent(m.events[e])) \o (IF e = n THEN LastChunk ELSE FramesLeft(m, e))
<1> DEFINE n == Len(m.events)
           ss == Frames(m)
           h == Header(HeaderLines(m))
<1>1. IsMessage(m) /\ m.events # <<>> /\ \A i \in DOMAIN m.events : Len(m.events[i].data) = 1
  BY DEF IsResponse, IsStream
<1>2. m.events \in Seq([type : Bytes, data : Seq(Bytes)]) /\ n \in Nat /\ DOMAIN m.events = 1..n
  BY <1>1 DEF IsMessage
<1>3. n # 0
  BY <1>1, <1>2
<1>4. ASSUME NEW i \in 1..n PROVE Chunk(ShownEvent(m.events[i])) \in Bytes
  <2> DEFINE v == m.events[i]
             e == [type |-> v.type, data |-> Joined(v.data)]
  <2>1. v \in [type : Bytes, data : Seq(Bytes)] /\ Len(v.data) = 1
    <3>1. i \in DOMAIN m.events
      BY <1>2
    <3>2. Len(v.data) = 1
      BY <1>1, <3>1
    <3>3. v \in [type : Bytes, data : Seq(Bytes)]
      <4> DEFINE S == [type : Bytes, data : Seq(Bytes)]
      <4>1. m.events \in Seq(S)
        BY <1>2
      <4> HIDE DEF S
      <4>2. v \in S
        BY <1>2, <4>1
      <4> QED
        BY <4>2 DEF S
    <3> QED
      BY <3>2, <3>3
  <2>2. e.type = v.type /\ e.data = Joined(v.data)
    OBVIOUS
  <2> HIDE DEF v, e
  <2>3. ShownEvent(v) \in Bytes
    BY <2>1, <2>2, EventShown
  <2> QED
    BY <2>3, ChunkProps DEF v
<1>5. ss \in Seq(Bytes) /\ Len(ss) = n /\ \A i \in 1..n : ss[i] = Chunk(ShownEvent(m.events[i]))
  BY <1>2, <1>4 DEF Frames
<1>6. LastChunk \in Bytes /\ h \in Bytes
  BY <1>1, Separators, MessageProps
<1> HIDE DEF ss, n, h
<1>7. /\ RestOf(ss, LastChunk, 0) = FlattenSeq(ss) \o LastChunk
      /\ \A k \in 0..Len(ss) : RestOf(ss, LastChunk, k) \in Bytes
      /\ \A k \in 1..Len(ss) : RestOf(ss, LastChunk, k - 1) = ss[k] \o RestOf(ss, LastChunk, k)
      /\ RestOf(ss, LastChunk, Len(ss)) = LastChunk
  BY <1>5, <1>6, RestProps
<1> DEFINE F(e) == FramesLeft(m, e)
           G(k) == RestOf(ss, LastChunk, k)
<1>8. \A e : F(e) = IF e = n THEN <<>> ELSE G(e)
  BY DEF FramesLeft, ss, n
<1> HIDE DEF F, G
<1>9. F(0) = G(0) /\ G(0) = FlattenSeq(ss) \o LastChunk /\ FlattenSeq(ss) \o LastChunk \in Bytes
  <2>1. 0 \in 0..Len(ss)
    BY <1>2, <1>5
  <2>2. G(0) = FlattenSeq(ss) \o LastChunk /\ G(0) \in Bytes
    BY <1>7, <2>1 DEF G
  <2> QED
    BY <1>3, <1>8, <2>2
<1>10. \A e \in 0..n : F(e) \in Bytes
  BY <1>5, <1>7, <1>8, RowEmpty DEF G
<1>11. ASSUME NEW e \in 1..n PROVE F(e - 1) = ss[e] \o (IF e = n THEN LastChunk ELSE F(e))
  <2>1. G(e - 1) = ss[e] \o G(e) /\ G(n) = LastChunk
    BY <1>5, <1>7 DEF G
  <2>2. F(e - 1) = G(e - 1)
    BY <1>2, <1>8
  <2>3. G(e) = IF e = n THEN LastChunk ELSE F(e)
    BY <1>8, <2>1
  <2> QED
    BY <2>1, <2>2, <2>3
<1>12. Rewritten(m) \in Bytes
  <2> DEFINE u == FlattenSeq(ss) \o LastChunk
  <2>1. u \in Bytes
    BY <1>9
  <2> HIDE DEF u
  <2>2. h \o u \in Bytes
    BY <1>6, <2>1, RowProps
  <2> QED
    BY <2>2 DEF Rewritten, u, h, ss
<1> QED
  <2>1. \A e \in 1..n : /\ Chunk(ShownEvent(m.events[e])) \in Bytes
                         /\ F(e - 1) = Chunk(ShownEvent(m.events[e])) \o (IF e = n THEN LastChunk ELSE F(e))
    BY <1>4, <1>5, <1>11
  <2>2. F(0) = FlattenSeq(Frames(m)) \o LastChunk /\ FlattenSeq(Frames(m)) \o LastChunk \in Bytes
    BY <1>9 DEF ss
  <2>3. n \in Nat \ {0}
    BY <1>2, <1>3
  <2> QED
    BY <1>10, <1>12, <2>1, <2>2, <2>3, Zenon DEF n, F

\* What is due for a response.
LEMMA DueIs ==
  ASSUME NEW m, NEW blocks, NEW tail, IsResponse(pii_mode = "pii", m, blocks, tail), dir = "response"
  PROVE  /\ Due(m) = IF pii_mode = "pii" /\ m.sse THEN Rewritten(m) ELSE Encoded(m)
         /\ Due(m) \in Bytes
<1>0. IsMessage(m)
  BY DEF IsResponse
<1>1. CASE pii_mode = "pii" /\ m.sse
  <2> DEFINE h == Header(HeaderLines(m))
             x == Encoded(m)
             u == FlattenSeq(Frames(m))
  <2>1. IsResponse(TRUE, m, blocks, tail) /\ m.framing = "chunked"
    BY <1>1 DEF IsResponse
  <2>2. h \in Bytes /\ Payload(m) \in Bytes /\ x = h \o Payload(m) /\ Index(x, Blank) = Len(h) - 3
    BY <1>0, MessageProps
  <2>3. Take(x, Index(x, Blank) + 3) = h
    <3>1. Len(h) \in Nat
      BY <2>2, BytesLen
    <3>2. Index(x, Blank) + 3 = Len(h)
      BY <2>2, <3>1
    <3>3. Take(h \o Payload(m), Len(h)) = h
      BY <2>2, TakeRow
    <3> QED
      BY <2>2, <3>2, <3>3
  <2>4. Due(m) = (Take(x, Index(x, Blank) + 3) \o u) \o LastChunk
    BY <1>1, <2>1 DEF Due, Frames
  <2>5. u \in Bytes /\ Rewritten(m) \in Bytes
    <3> DEFINE ss == Frames(m)
    <3>1. IsMessage(m) /\ m.events \in Seq([type : Bytes, data : Seq(Bytes)]) /\ DOMAIN m.events = 1..Len(m.events) /\ Len(m.events) \in Nat
      BY <1>0 DEF IsMessage
    <3>2. \A i \in 1..Len(m.events) : Chunk(ShownEvent(m.events[i])) \in Bytes
      BY <1>1, <2>1, FramesProps
    <3>3. ss \in Seq(Bytes)
      BY <3>1, <3>2 DEF Frames
    <3> HIDE DEF ss
    <3>4. FlattenSeq(ss) \in Bytes
      BY <3>3, FlatProps
    <3>5. Rewritten(m) \in Bytes
      BY <1>1, <2>1, FramesProps
    <3> QED
      BY <3>4, <3>5 DEF ss
  <2>6. LastChunk \in Bytes
    BY Separators
  <2> HIDE DEF h, x, u
  <2>7. (h \o u) \o LastChunk = h \o (u \o LastChunk)
    BY <2>2, <2>5, <2>6, RowAssoc
  <2>8. Due(m) = Rewritten(m)
    BY <2>3, <2>4, <2>7 DEF Rewritten, h, u
  <2> QED
    BY <1>1, <2>5, <2>8
<1>2. CASE ~(pii_mode = "pii" /\ m.sse)
  <2>1. Due(m) = Encoded(m)
    BY <1>2 DEF Due
  <2> QED
    BY <1>0, <1>2, <2>1, MessageProps
<1> QED
  BY <1>1, <1>2

\* What has to be handled for a response.
LEMMA ToldIs ==
  ASSUME NEW m, NEW blocks, NEW tail, IsResponse(pii_mode = "pii", m, blocks, tail), dir = "response"
  PROVE  Told(m) = Heard(m, Len(m.events)) /\ Len(m.events) \in Nat
<1>1. m.events \in Seq([type : Bytes, data : Seq(Bytes)])
  BY DEF IsResponse, IsMessage
<1>2. DOMAIN m.events = 1..Len(m.events) /\ Len(m.events) \in Nat
  BY <1>1
<1> QED
  BY <1>2 DEF Told, Heard

\* What is due, and what has to be handled, once the response has been sent or before.
LEMMA SofarIs ==
  ASSUME NEW m, script = <<m>>
  PROVE  /\ sent = 0 => Sofar(Due) = <<>> /\ Sofar(Told) = <<>>
         /\ sent = 1 => Sofar(Due) = Due(m) /\ Sofar(Told) = Told(m)
<1>1. script[1] = m
  OBVIOUS
<1>2. ASSUME sent = 0 PROVE Sofar(Due) = <<>> /\ Sofar(Told) = <<>>
  <2>1. [i \in 1..sent |-> Due(script[i])] = [i \in 1..0 |-> 0] /\ [i \in 1..sent |-> Told(script[i])] = [i \in 1..0 |-> 0]
    BY <1>2
  <2>2. FlattenSeq([i \in 1..0 |-> 0]) = <<>>
    BY FlattenOne
  <2> QED
    BY <2>1, <2>2 DEF Sofar
<1>3. ASSUME sent = 1 PROVE Sofar(Due) = Due(m) /\ Sofar(Told) = Told(m)
  <2> DEFINE x == Due(m)
             y == Told(m)
  <2>1. [i \in 1..sent |-> Due(script[i])] = [i \in 1..1 |-> x]
    BY <1>1, <1>3
  <2>2. [i \in 1..sent |-> Told(script[i])] = [i \in 1..1 |-> y]
    BY <1>1, <1>3
  <2> HIDE DEF x, y
  <2>3. FlattenSeq([i \in 1..1 |-> x]) = x /\ FlattenSeq([i \in 1..1 |-> y]) = y
    BY FlattenOne
  <2> QED
    BY <2>1, <2>2, <2>3 DEF Sofar, x, y
<1> QED
  BY <1>2, <1>3

\* What was handled first is a part of it all.
LEMMA HeardPrefix ==
  ASSUME NEW m, NEW n \in Nat, NEW e \in 0..n
  PROVE  IsPrefix(Heard(m, e), Heard(m, n))
<1> DEFINE ev(i) == [type |-> m.events[i].type, data |-> Joined(m.events[i].data)]
           S == {ev(i) : i \in 1..n}
           a == [i \in 1..e |-> ev(i)]
           b == [i \in 1..n |-> ev(i)]
<1>0. e \in Nat /\ e <= n /\ 1..e \subseteq 1..n
  OBVIOUS
<1>1. Heard(m, e) = a /\ Heard(m, n) = b
  BY DEF Heard
<1> HIDE DEF ev
<1>2. \A i \in 1..n : ev(i) \in S
  OBVIOUS
<1> HIDE DEF S
<1>3. a \in Seq(S) /\ Len(a) = e /\ \A i \in 1..e : a[i] = ev(i)
  BY <1>0, <1>2
<1>4. b \in Seq(S) /\ Len(b) = n /\ \A i \in 1..n : b[i] = ev(i)
  BY <1>0, <1>2
<1> HIDE DEF a, b
<1> DEFINE x == SubSeq(a, 1, e)
           y == SubSeq(b, 1, e)
<1>5. x \in Seq(S) /\ Len(x) = e /\ \A i \in 1..e : x[i] = a[i]
  BY <1>0, <1>3
<1>6. y \in Seq(S) /\ Len(y) = e /\ \A i \in 1..e : y[i] = b[i]
  BY <1>0, <1>4
<1> HIDE DEF x, y
<1>7. \A i \in 1..Len(x) : x[i] = y[i]
  BY <1>0, <1>3, <1>4, <1>5, <1>6
<1>8. x = y
  BY <1>5, <1>6, <1>7, SeqEqual
<1>9. IsPrefix(a, b)
  BY <1>0, <1>3, <1>4, <1>8 DEF IsPrefix, x, y
<1> QED
  BY <1>1, <1>9

-----------------------------------------------------------------------------
(* One step of a response *)

\* The response is sent.
LEMMA SendStep ==
  ASSUME NEW m, IsMessage(m), script = <<m>>, NothingSent, Send
  PROVE  InHeader(m)'
<1> DEFINE x == Encoded(m)
<1>1. script[sent + 1] = m /\ sent' = 1
  BY DEF NothingSent, Send
<1>2. wire' = <<>> \o x
  BY <1>1 DEF NothingSent, Send
<1>3. x \in Bytes /\ x # <<>>
  <2> DEFINE h == Header(HeaderLines(m))
             t == Payload(m)
  <2>1. h \in Bytes /\ t \in Bytes /\ x \in Bytes /\ x = h \o t /\ Len(h) >= 4
    BY MessageProps
  <2> HIDE DEF h, t, x
  <2>2. Len(h \o t) = Len(h) + Len(t) /\ Len(t) \in Nat /\ Len(h) \in Nat
    BY <2>1, RowProps, BytesLen
  <2>3. Len(x) # 0
    BY <2>1, <2>2
  <2> QED
    BY <2>1, <2>3, RowEmpty
<1> HIDE DEF x
<1>4. wire' = x /\ <<>> \o x = x /\ <<>> \in Bytes
  BY <1>2, <1>3, RowEmpty
<1>5. raw' = <<>> /\ raw' \o wire' = x
  BY <1>4 DEF NothingSent, Send
<1>6. place' = "read" /\ st' = Idle /\ dec' = Start /\ sse' = <<>> /\ out' = <<>> /\ seen' = <<>>
  BY DEF NothingSent, Send
<1>7. Idle' = Idle /\ Start' = Start
  BY DEF Idle, Start
<1> QED
  BY <1>1, <1>3, <1>4, <1>5, <1>6 DEF InHeader, x

\* What is taken from the wire goes to the end of what was read.
LEMMA TakenFrom ==
  ASSUME NEW a \in Bytes, NEW w \in Bytes, NEW n \in 1..Len(w)
  PROVE  LET x == Take(w, n)
             y == Drop(w, n)
         IN /\ x \in Bytes /\ y \in Bytes /\ a \o x \in Bytes /\ x \o y = w /\ (a \o x) \o y = a \o w
            /\ Len(x) = n /\ Len(a \o x) = Len(a) + n
<1> DEFINE x == Take(w, n)
           y == Drop(w, n)
<1>1. n \in 0..Len(w) /\ Len(w) \in Nat
  BY BytesLen
<1>2. x \in Bytes /\ Len(x) = n
  BY <1>1, TakeProps
<1>3. y \in Bytes
  BY <1>1, DropProps
<1>4. x \o y = w
  BY <1>1, TakeDrop
<1> HIDE DEF x, y
<1>5. a \o x \in Bytes /\ Len(a \o x) = Len(a) + Len(x)
  BY <1>2, RowProps
<1>6. (a \o x) \o y = a \o (x \o y)
  BY <1>2, <1>3, RowAssoc
<1>7. (a \o x) \o y = a \o w
  BY <1>4, <1>6
<1>8. Len(a \o x) = Len(a) + n
  BY <1>2, <1>5
<1> QED
  BY <1>2, <1>3, <1>4, <1>5, <1>7, <1>8 DEF x, y

\* Some of the header is read.
LEMMA ReadHeaderStep ==
  ASSUME NEW m, InHeader(m), ReadResponseHeader
  PROVE  InHeader(m)'
<1>1. PICK n \in 1..Len(wire) : raw' = raw \o Take(wire, n) /\ wire' = Drop(wire, n)
  BY DEF ReadResponseHeader
<1>2. raw \in Bytes /\ wire \in Bytes /\ raw \o wire = Encoded(m)
  BY DEF InHeader
<1>3. raw' \in Bytes /\ wire' \in Bytes /\ raw' \o wire' = raw \o wire
  BY <1>1, <1>2, TakenFrom
<1>4. raw' \o wire' = Encoded(m)
  BY <1>2, <1>3
<1>5. sent' = 1 /\ place' = "header" /\ st' = Idle /\ dec' = Start /\ sse' = <<>> /\ out' = <<>> /\ seen' = <<>>
  BY DEF InHeader, ReadResponseHeader
<1> QED
  BY <1>3, <1>4, <1>5 DEF InHeader

\* The state behind the header of m.
LEMMA HeaderStateIs ==
  ASSUME NEW m, IsMessage(m), st = Idle, NEW h, h = Header(HeaderLines(m))
  PROVE  HeaderState(h) = HeaderOf(m, Len(raw) - Len(h))
<1> DEFINE cl == ParseContentLength(h)
           ck == cl = Absent /\ IsChunkedEncoding(h)
           ev == \E i \in DOMAIN h : h[i] = SSE
           n == Len(raw) - Len(h)
<1>1. /\ cl = (IF m.framing = "length" THEN Len(Body(m)) ELSE Absent)
      /\ IsChunkedEncoding(h) <=> m.framing = "chunked"
      /\ ev <=> m.sse
      /\ Body(m) \in Bytes
  BY MessageProps
<1>2. m.framing \in {"length", "chunked", "none"} /\ m.sse \in BOOLEAN
  BY DEF IsMessage
<1>3. Len(Body(m)) # Absent
  <2>1. Len(Body(m)) \in Nat
    BY <1>1, BytesLen
  <2> QED
    BY <2>1 DEF Absent
<1>4. ck = (m.framing = "chunked")
  <2> HIDE DEF cl
  <2>1. ck <=> m.framing = "chunked"
    BY <1>1, <1>2, <1>3
  <2> QED
    BY <2>1
<1>5. ev = m.sse
  BY <1>1, <1>2
<1>6. HeaderState(h) = [st EXCEPT !.header_done = TRUE, !.body_start = Len(h), !.content_length = cl,
                                  !.is_chunked = ck, !.is_sse = ev, !.body_received = n]
  BY DEF HeaderState
<1> HIDE DEF cl, ck, ev, n
<1>7. HeaderState(h) = [header_done |-> TRUE, content_length |-> cl, is_chunked |-> ck, is_sse |-> ev,
                        body_start |-> Len(h), forwarded |-> 0, body_received |-> n]
  BY <1>6 DEF Idle
<1> QED
  BY <1>1, <1>4, <1>5, <1>7 DEF HeaderOf, n

\* The header is complete, or more of it has to be read.
LEMMA ParseHeaderStep ==
  ASSUME NEW m, NEW blocks, NEW tail, pii_mode \in {"passthrough", "pii"},
         IsResponse(pii_mode = "pii", m, blocks, tail), InHeader(m), ParseResponseHeader
  PROVE  InHeader(m)' \/ Document(m)' \/ \E e, v : /\ Streaming(m, blocks, tail, e, v)'
                                                   /\ IF pii_mode = "pii" THEN Replaced(m, e, v)' ELSE Copied(m, v)'
<1> DEFINE i == FindHeaderEnd(raw)
           h == Header(HeaderLines(m))
           b == Drop(raw, i)
           f == HeaderState(Take(raw, i))
<1>0. IsMessage(m)
  BY DEF IsResponse
<1>1. raw \in Bytes /\ wire \in Bytes /\ raw \o wire = Encoded(m)
  BY DEF InHeader
<1>2. /\ i = 0 => wire # <<>>
      /\ i # 0 => /\ i = Len(h) /\ Take(raw, i) = h /\ b \in Bytes
                  /\ b \o wire = Payload(m) /\ Len(b) = Len(raw) - Len(h) /\ h \o b = raw
  BY <1>0, <1>1, HeaderArrives
<1>3. /\ sent' = 1 /\ wire' = wire /\ seen' = <<>> /\ pii_mode' = pii_mode
      /\ dec = Start /\ sse = <<>> /\ out = <<>> /\ st = Idle /\ ~st.header_done
  BY DEF InHeader, ParseResponseHeader, Idle
<1>4. CASE i = 0
  <2>1. place' = "read" /\ raw' = raw /\ st' = st /\ dec' = dec /\ sse' = sse /\ out' = out
    BY <1>4 DEF ParseResponseHeader
  <2>2. wire # <<>>
    BY <1>2, <1>4
  <2>3. InHeader(m)'
    BY <1>1, <1>3, <2>1, <2>2 DEF InHeader
  <2> QED
    BY <2>3
<1>5. CASE i # 0
  <2>0. h \in Bytes /\ Payload(m) \in Bytes /\ Encoded(m) = h \o Payload(m)
    BY <1>0, MessageProps
  <2>1. Take(raw, i) = h /\ b \in Bytes /\ b \o wire = Payload(m) /\ Len(b) = Len(raw) - Len(h) /\ h \o b = raw
    BY <1>2, <1>5
  <2>2. f = HeaderOf(m, Len(b))
    BY <1>0, <1>3, <2>1, HeaderStateIs
  <2>3. st' = f /\ Deliver(f, b, out \o Take(raw, i))
    BY <1>5 DEF ParseResponseHeader
  <2>4. out \o Take(raw, i) = h
    BY <1>3, <2>0, <2>1, RowEmpty
  <2>5. f.is_sse = m.sse /\ f.is_chunked = (m.framing = "chunked")
    BY <2>2 DEF HeaderOf
  <2> HIDE DEF i, h, b, f
  <2>6. Deliver(f, b, h)
    BY <2>3, <2>4
  <2>7. h \o b \in Bytes /\ <<>> \o b = b /\ (h \o b) \o wire = Encoded(m)
    BY <1>1, <2>1
  <2>8. CASE ~m.sse
    <3>1. out' = h \o b /\ raw' = b /\ place' = "end"
      BY <1>3, <2>5, <2>6, <2>7, <2>8 DEF Deliver, Rewriting
    <3>2. Document(m)'
      BY <1>1, <1>3, <2>1, <2>2, <2>3, <2>7, <2>8, <3>1 DEF Document
    <3> QED
      BY <3>2
  <2>9. ASSUME m.sse PROVE \E e, v : /\ Streaming(m, blocks, tail, e, v)'
                                     /\ IF pii_mode = "pii" THEN Replaced(m, e, v)' ELSE Copied(m, v)'
    <3> DEFINE P == Parsed(pii_mode = "pii", m)
    <3>1. P = FlattenSeq(blocks) \o tail /\ blocks \in Seq(Bytes) /\ tail \in Bytes /\ m.events # <<>> /\ m.events \in Seq([type : Bytes, data : Seq(Bytes)])
      BY <2>9 DEF IsResponse, IsStream, IsMessage
    <3>2. RestOf(blocks, tail, 0) = P
      BY <3>1, RestProps
    <3>3. 0 \in 0..Len(m.events) /\ 0 # Len(m.events) /\ <<>> = Heard(m, 0)
      <4>1. Len(m.events) \in Nat /\ Len(m.events) # 0
        BY <3>1
      <4> QED
        BY <4>1 DEF Heard
    <3>4. HeaderOf(m, f.body_received) = f
      <4>1. f.body_received = Len(b)
        BY <2>2 DEF HeaderOf
      <4> QED
        BY <2>2, <4>1
    <3>5. CASE pii_mode = "pii"
      <4>1. m.framing = "chunked" /\ P = Body(m) /\ IsResponse(TRUE, m, blocks, tail)
        BY <2>9, <3>5 DEF IsResponse, Parsed
      <4>2. out' = h /\ dec' = [dec EXCEPT !.buf = @ \o b] /\ sse' = sse /\ place' = "decode"
        BY <2>5, <2>6, <2>9, <3>5, <4>1 DEF Deliver, Rewriting
      <4>3. DecoderAt(m, Start, b \o wire, Body(m))
        BY <1>0, <2>1, <4>1, DecoderStarts
      <4>4. DecoderAt(m, dec', wire', Body(m))
        BY <1>1, <1>3, <2>1, <4>2, <4>3, DecoderReads
      <4>5. Body(m) \in Bytes
        BY <1>0, MessageProps
      <4>6. sse' \o Body(m) = RestOf(blocks, tail, 0) /\ <<>> \in Bytes
        BY <1>3, <3>2, <4>1, <4>2, <4>5, RowEmpty
      <4>7. out' \o FramesLeft(m, 0) = Rewritten(m)
        <5>1. FramesLeft(m, 0) = FlattenSeq(Frames(m)) \o LastChunk
          BY <2>9, <4>1, FramesProps
        <5> QED
          BY <4>2, <5>1 DEF Rewritten, h
      <4>8. Streaming(m, blocks, tail, 0, Body(m))'
        BY <1>1, <1>3, <2>0, <2>3, <2>9, <3>3, <3>4, <4>2, <4>5, <4>6 DEF Streaming
      <4>9. Replaced(m, 0, Body(m))'
        BY <4>4, <4>7 DEF Replaced
      <4> QED
        BY <3>5, <4>8, <4>9
    <3>6. CASE pii_mode # "pii"
      <4>1. P = Payload(m)
        BY <3>6 DEF Parsed
      <4>2. out' = h \o b /\ sse' = sse \o b /\ place' = "parse"
        BY <2>5, <2>6, <2>9, <3>6 DEF Deliver, Rewriting
      <4>3. sse' = b
        BY <1>3, <2>7, <4>2
      <4>4. sse' \o wire' = RestOf(blocks, tail, 0)
        BY <1>3, <2>1, <3>2, <4>1, <4>3
      <4>5. out' \o wire' = Encoded(m)
        BY <1>3, <2>7, <4>2
      <4>a. PICK v : v = wire'
        OBVIOUS
      <4>6. Streaming(m, blocks, tail, 0, v)'
        BY <1>1, <1>3, <2>1, <2>3, <2>7, <2>9, <3>3, <3>4, <4>2, <4>3, <4>4, <4>a DEF Streaming
      <4>7. Copied(m, v)'
        BY <4>2, <4>5, <4>a DEF Copied
      <4> QED
        BY <3>6, <4>6, <4>7
    <3> QED
      BY <3>5, <3>6
  <2> QED
    BY <2>8, <2>9
<1> QED
  BY <1>4, <1>5

\* More of the body has been read.
LEMMA HeaderOfMore ==
  ASSUME NEW m, NEW n, NEW k
  PROVE  [HeaderOf(m, n) EXCEPT !.body_received = @ + k] = HeaderOf(m, n + k)
<1> DEFINE cl == IF m.framing = "length" THEN Len(Body(m)) ELSE Absent
           ck == m.framing = "chunked"
           ev == m.sse
           bs == Len(Header(HeaderLines(m)))
           R(b) == [header_done |-> TRUE, content_length |-> cl, is_chunked |-> ck, is_sse |-> ev,
                    body_start |-> bs, forwarded |-> 0, body_received |-> b]
<1>1. HeaderOf(m, n) = R(n) /\ HeaderOf(m, n + k) = R(n + k)
  BY DEF HeaderOf
<1> HIDE DEF cl, ck, ev, bs
<1> DEFINE q == n + k
<1>2. R(n).body_received = n
  OBVIOUS
<1>3. [R(n) EXCEPT !.body_received = R(n).body_received + k] = [R(n) EXCEPT !.body_received = q]
  BY <1>2
<1> HIDE DEF q
<1>4. [R(n) EXCEPT !.body_received = q] = R(q)
  <2> DEFINE t == TRUE
             z == 0
  <2>1. R(n) = [header_done |-> t, content_length |-> cl, is_chunked |-> ck, is_sse |-> ev,
                body_start |-> bs, forwarded |-> z, body_received |-> n]
    OBVIOUS
  <2>2. R(q) = [header_done |-> t, content_length |-> cl, is_chunked |-> ck, is_sse |-> ev,
                body_start |-> bs, forwarded |-> z, body_received |-> q]
    OBVIOUS
  <2> HIDE DEF t, z, R
  <2> QED
    BY <2>1, <2>2
<1> QED
  BY <1>1, <1>3, <1>4 DEF q

\* More of a document is read and copied.
LEMMA ReadDocumentStep ==
  ASSUME NEW m, Document(m), ReadResponseBody
  PROVE  Document(m)'
<1>1. raw \in Bytes /\ wire \in Bytes /\ out \in Bytes /\ raw \o wire = Payload(m) /\ out \o wire = Encoded(m)
  BY DEF Document
<1>2. st = HeaderOf(m, Len(raw)) /\ ~m.sse
  BY DEF Document
<1>3. PICK n \in 1..Len(wire) : /\ Deliver(st, Take(wire, n), out) /\ wire' = Drop(wire, n)
                                /\ st' = [st EXCEPT !.body_received = @ + n]
  BY DEF ReadResponseBody
<1> DEFINE x == Take(wire, n)
<1>4. st.header_done = TRUE /\ st.is_sse = m.sse
  BY <1>2 DEF HeaderOf
<1>5. out' = out \o x /\ raw' = raw \o x /\ place' = "end"
  BY <1>2, <1>3, <1>4 DEF Deliver, Rewriting
<1>6. raw' \in Bytes /\ wire' \in Bytes /\ raw' \o wire' = raw \o wire /\ Len(raw') = Len(raw) + n
  BY <1>1, <1>3, <1>5, TakenFrom, ZenonT(60)
<1>7. out' \in Bytes /\ out' \o wire' = out \o wire
  BY <1>1, <1>3, <1>5, TakenFrom
<1>8. st' = HeaderOf(m, Len(raw'))
  BY <1>2, <1>3, <1>6, HeaderOfMore
<1>9. raw' \o wire' = Payload(m) /\ out' \o wire' = Encoded(m)
  BY <1>1, <1>6, <1>7
<1>10. sent' = 1 /\ seen' = <<>>
  BY DEF Document, ReadResponseBody
<1> QED
  BY <1>2, <1>5, <1>6, <1>7, <1>8, <1>9, <1>10 DEF Document

\* A document is complete, or more of it has to be read.
LEMMA EndDocumentStep ==
  ASSUME NEW m, NEW blocks, NEW tail, IsResponse(pii_mode = "pii", m, blocks, tail), Document(m), EndOfRead
  PROVE  Document(m)'
<1>0. IsMessage(m) /\ m.framing # "none" /\ (m.framing = "chunked" => LastChunkApart(m))
  BY DEF IsResponse, Document
<1>1. raw \in Bytes /\ wire \in Bytes /\ out \in Bytes /\ raw \o wire = Payload(m) /\ out \o wire = Encoded(m)
  BY DEF Document
<1>2. st = HeaderOf(m, Len(raw)) /\ ~m.sse /\ sent = 1 /\ seen = <<>>
  BY DEF Document
<1> DEFINE Complete == \/ st.content_length # Absent /\ st.body_received >= st.content_length
                       \/ st.is_chunked /\ FindChunkedBodyEnd(raw) > 0
<1>3. Complete <=> wire = <<>>
  <2>1. CASE m.framing = "chunked"
    <3>1. st.content_length = Absent /\ st.is_chunked = TRUE
      BY <1>2, <2>1 DEF HeaderOf
    <3>2. FindChunkedBodyEnd(raw) > 0 <=> wire = <<>>
      BY <1>0, <1>1, <2>1, DocumentEnds
    <3> QED
      BY <3>1, <3>2
  <2>2. CASE m.framing = "length"
    <3> DEFINE P == Payload(m)
               c == st.content_length
    <3>1. st.content_length = Len(Body(m)) /\ st.is_chunked = FALSE /\ st.body_received = Len(raw) /\ P = Body(m) /\ Body(m) \in Bytes
      BY <1>0, <1>2, <2>2, MessageProps DEF HeaderOf, Payload
    <3>2. Len(raw \o wire) = Len(raw) + Len(wire) /\ Len(raw) \in Nat /\ Len(wire) \in Nat
      BY <1>1, RowProps, BytesLen
    <3>3. c = Len(raw) + Len(wire)
      BY <1>1, <3>1, <3>2
    <3>4. wire = <<>> <=> Len(wire) = 0
      BY <1>1, RowEmpty
    <3> HIDE DEF P
    <3> DEFINE a == Len(raw)
               b == Len(wire)
    <3>5. a \in Nat /\ b \in Nat /\ c = a + b
      BY <3>2, <3>3
    <3> HIDE DEF a, b, c
    <3>6. c # Absent /\ (a >= c <=> b = 0)
      BY <3>5 DEF Absent
    <3> QED
      BY <3>1, <3>4, <3>6 DEF a, b, c
  <2> QED
    BY <1>0, <2>1, <2>2 DEF IsMessage
<1>4. place' = (IF Complete THEN "done" ELSE "read") /\ UNCHANGED <<sent, wire, raw, st, out, seen>>
  BY DEF EndOfRead
<1> HIDE DEF Complete
<1> QED
  BY <1>1, <1>2, <1>3, <1>4 DEF Document

\* More of a stream is read.
LEMMA ReadStreamStep ==
  ASSUME NEW m, NEW blocks, NEW tail, NEW e, NEW v, pii_mode \in {"passthrough", "pii"},
         IsResponse(pii_mode = "pii", m, blocks, tail), Streaming(m, blocks, tail, e, v),
         IF pii_mode = "pii" THEN Replaced(m, e, v) ELSE Copied(m, v), ReadResponseBody
  PROVE  \E u : /\ Streaming(m, blocks, tail, e, u)'
                /\ IF pii_mode = "pii" THEN Replaced(m, e, u)' ELSE Copied(m, u)'
<1>0. m.sse /\ st = HeaderOf(m, st.body_received) /\ place = "read" /\ (pii_mode = "pii" => m.framing = "chunked")
  BY DEF Streaming, ReadResponseBody, IsResponse
<1>1. PICK n \in 1..Len(wire) : /\ Deliver(st, Take(wire, n), out) /\ wire' = Drop(wire, n)
                                /\ st' = [st EXCEPT !.body_received = @ + n]
  BY DEF ReadResponseBody
<1> DEFINE x == Take(wire, n)
<1>2. wire \in Bytes /\ out \in Bytes /\ sse \in Bytes /\ v \in Bytes /\ sse \o v = RestOf(blocks, tail, e)
  BY DEF Streaming
<1>3. st.is_sse = m.sse /\ st.is_chunked = (m.framing = "chunked")
  <2>1. PICK k : st = HeaderOf(m, k)
    BY <1>0
  <2> QED
    BY <2>1 DEF HeaderOf
<1>4. st' = HeaderOf(m, st'.body_received)
  <2> DEFINE k == st.body_received + n
  <2>1. st' = HeaderOf(m, k)
    BY <1>0, <1>1, HeaderOfMore
  <2>2. HeaderOf(m, k).body_received = k
    BY DEF HeaderOf
  <2> QED
    BY <2>1, <2>2
<1>5. x \in Bytes /\ wire' \in Bytes /\ x \o wire' = wire
  <2>1. sse \in Bytes /\ wire \in Bytes /\ n \in 1..Len(wire)
    BY <1>1, <1>2
  <2>2. x \in Bytes /\ Drop(wire, n) \in Bytes /\ x \o Drop(wire, n) = wire
    <3>1. n \in 0..Len(wire)
      BY <2>1, BytesLen
    <3> QED
      BY <2>1, <3>1, TakeProps, DropProps, TakeDrop
  <2> QED
    BY <1>1, <2>2
<1>6. sent' = 1 /\ seen' = seen /\ e \in 0..Len(m.events) /\ seen = Heard(m, e) /\ e # Len(m.events)
  BY <1>0 DEF Streaming, ReadResponseBody
<1>7. CASE pii_mode = "pii"
  <2>1. out' = out /\ dec' = [dec EXCEPT !.buf = @ \o x] /\ sse' = sse /\ place' = "decode"
    BY <1>0, <1>1, <1>3, <1>7 DEF Deliver, Rewriting
  <2>2. DecoderAt(m, dec, wire, v) /\ out \o FramesLeft(m, e) = Rewritten(m)
    BY <1>0, <1>7 DEF Replaced
  <2>3. DecoderAt(m, dec, x \o wire', v)
    BY <1>5, <2>2
  <2> HIDE DEF x
  <2>4. DecoderAt(m, dec', wire', v)
    BY <1>5, <2>1, <2>3, DecoderReads
  <2>5. Replaced(m, e, v)'
    BY <2>1, <2>2, <2>4 DEF Replaced
  <2>6. Streaming(m, blocks, tail, e, v)'
    BY <1>0, <1>2, <1>4, <1>5, <1>6, <2>1 DEF Streaming
  <2> QED
    BY <1>7, <2>5, <2>6
<1>8. CASE pii_mode # "pii"
  <2>1. out' = out \o x /\ sse' = sse \o x /\ place' = "parse"
    BY <1>0, <1>1, <1>3, <1>8 DEF Deliver, Rewriting
  <2>2. v = wire /\ out \o wire = Encoded(m)
    BY <1>8 DEF Copied
  <2>3. out' \in Bytes /\ out' \o wire' = out \o wire
    BY <1>1, <1>2, <2>1, TakenFrom
  <2>4. sse' \in Bytes /\ sse' \o wire' = sse \o wire
    BY <1>1, <1>2, <2>1, TakenFrom
  <2>5. PICK u : u = wire'
    OBVIOUS
  <2>6. out' \o wire' = Encoded(m) /\ sse' \o u = RestOf(blocks, tail, e)
    BY <1>2, <2>2, <2>3, <2>4, <2>5
  <2>7. Copied(m, u)'
    BY <2>1, <2>5, <2>6 DEF Copied
  <2>8. Streaming(m, blocks, tail, e, u)'
    BY <1>0, <1>4, <1>5, <1>6, <2>1, <2>3, <2>4, <2>5, <2>6 DEF Streaming
  <2> QED
    BY <1>8, <2>7, <2>8
<1> QED
  BY <1>7, <1>8

\* The decoder has taken a step: u has not reached the parser yet.
LEMMA StreamOn ==
  ASSUME NEW m, NEW blocks, NEW tail, NEW e, NEW v, NEW u, Streaming(m, blocks, tail, e, v), place = "decode",
         place' \in {"decode", "parse"}, UNCHANGED <<sent, wire, st, out, seen>>,
         sse' \in Bytes, u \in Bytes, sse' \o u = RestOf(blocks, tail, e), place' = "parse" /\ wire = <<>> => u = <<>>
  PROVE  Streaming(m, blocks, tail, e, u)'
BY DEF Streaming

\* A round of the decoder at a size line.
LEMMA DecodeSizeStep ==
  ASSUME NEW m, NEW blocks, NEW tail, NEW e, NEW v, IsMessage(m), m.framing = "chunked",
         Streaming(m, blocks, tail, e, v), Replaced(m, e, v), DecodeSize
  PROVE  Streaming(m, blocks, tail, e, v)' /\ Replaced(m, e, v)'
<1> DEFINE i == Index(dec.buf, CRLF)
           size == SizeOf(SizeLine)
           d == [buf |-> Drop(dec.buf, Len(SizeLine) + 2), chunk_remaining |-> size, state |-> "ReadingBody"]
<1>1. place = "decode" /\ dec.state = "ReadingSize" /\ UNCHANGED <<sent, wire, st, out, seen, sse>>
  BY DEF DecodeSize
<1>2. DecoderAt(m, dec, wire, v) /\ out \o FramesLeft(m, e) = Rewritten(m)
  BY <1>1 DEF Replaced
<1>3. /\ i = 0 => wire # <<>>
      /\ i # 0 => /\ size \in Nat
                  /\ size = 0 => v = <<>>
                  /\ size # 0 => DecoderAt(m, d, wire, v)
  BY <1>1, <1>2, SizeStep DEF SizeLine
<1>4. sse' \in Bytes /\ v \in Bytes /\ sse' \o v = RestOf(blocks, tail, e)
  BY <1>1 DEF Streaming
<1>5. Stuck <=> i = 0 \/ size = Absent
  BY DEF Stuck
<1>6. i # 0 => size # Absent
  BY <1>3 DEF Absent
<1>7. \/ Stuck /\ dec' = dec /\ place' = "parse"
      \/ ~Stuck /\ size = 0 /\ place' = "parse"
      \/ ~Stuck /\ size # 0 /\ dec' = d /\ place' = "decode"
  BY DEF DecodeSize
<1> HIDE DEF i, size, d
<1>8. CASE Stuck /\ dec' = dec /\ place' = "parse"
  <2>1. wire # <<>>
    BY <1>3, <1>5, <1>6, <1>8
  <2>2. Streaming(m, blocks, tail, e, v)'
    BY <1>1, <1>4, <1>8, <2>1, StreamOn
  <2>3. Replaced(m, e, v)'
    BY <1>1, <1>2, <1>8 DEF Replaced
  <2> QED
    BY <2>2, <2>3
<1>9. CASE ~Stuck /\ size = 0 /\ place' = "parse"
  <2>1. v = <<>>
    BY <1>3, <1>5, <1>9
  <2>2. Streaming(m, blocks, tail, e, v)'
    BY <1>1, <1>4, <1>9, <2>1, StreamOn
  <2>3. Replaced(m, e, v)'
    BY <1>1, <1>2, <1>9, <2>1 DEF Replaced
  <2> QED
    BY <2>2, <2>3
<1>10. CASE ~Stuck /\ size # 0 /\ dec' = d /\ place' = "decode"
  <2>1. DecoderAt(m, dec', wire', v)
    BY <1>1, <1>3, <1>5, <1>10
  <2>2. Streaming(m, blocks, tail, e, v)'
    BY <1>1, <1>4, <1>10, StreamOn
  <2>3. Replaced(m, e, v)'
    BY <1>1, <1>2, <2>1 DEF Replaced
  <2> QED
    BY <2>2, <2>3
<1> QED
  BY <1>7, <1>8, <1>9, <1>10

\* A round of the decoder inside of a chunk.
LEMMA DecodeBodyStep ==
  ASSUME NEW m, NEW blocks, NEW tail, NEW e, NEW v, IsMessage(m), m.framing = "chunked",
         Streaming(m, blocks, tail, e, v), Replaced(m, e, v), DecodeBody
  PROVE  \E u : Streaming(m, blocks, tail, e, u)' /\ Replaced(m, e, u)'
<1> DEFINE take == Min({dec.chunk_remaining, Len(dec.buf)})
           left == dec.chunk_remaining - take
           x == Take(dec.buf, take)
           d == [buf |-> Drop(dec.buf, take), chunk_remaining |-> left,
                 state |-> IF left = 0 THEN "BodyTrail" ELSE "ReadingBody"]
<1>1. place = "decode" /\ dec.state = "ReadingBody" /\ UNCHANGED <<sent, wire, st, out, seen>>
  BY DEF DecodeBody
<1>2. sse' = sse \o x /\ dec' = d /\ place' = IF left = 0 THEN "decode" ELSE "parse"
  BY DEF DecodeBody
<1>3. DecoderAt(m, dec, wire, v) /\ out \o FramesLeft(m, e) = Rewritten(m)
  BY <1>1 DEF Replaced
<1>4. /\ x \in Bytes
      /\ \E u \in Bytes : v = x \o u /\ DecoderAt(m, d, wire, u)
      /\ left # 0 => wire # <<>>
  BY <1>1, <1>3, BodyStep
<1> HIDE DEF take, left, x, d
<1>5. PICK u \in Bytes : v = x \o u /\ DecoderAt(m, d, wire, u)
  BY <1>4
<1>6. sse \in Bytes /\ sse \o v = RestOf(blocks, tail, e)
  BY DEF Streaming
<1>7. sse' \in Bytes
  BY <1>2, <1>4, <1>6, RowProps
<1>8. (sse \o x) \o u = sse \o (x \o u)
  <2>1. sse \in Bytes /\ x \in Bytes /\ u \in Bytes
    BY <1>4, <1>6
  <2> QED
    BY <2>1, RowAssoc
<1>9. sse' \o u = RestOf(blocks, tail, e)
  BY <1>2, <1>5, <1>6, <1>8
<1>10. place' \in {"decode", "parse"} /\ (place' = "parse" => wire # <<>>)
  BY <1>2, <1>4
<1>11. Streaming(m, blocks, tail, e, u)'
  BY <1>1, <1>7, <1>9, <1>10, StreamOn
<1>12. Replaced(m, e, u)'
  BY <1>1, <1>2, <1>3, <1>5 DEF Replaced
<1> QED
  BY <1>11, <1>12

\* A round of the decoder at the end of a chunk.
LEMMA DecodeTrailStep ==
  ASSUME NEW m, NEW blocks, NEW tail, NEW e, NEW v, IsMessage(m), m.framing = "chunked",
         Streaming(m, blocks, tail, e, v), Replaced(m, e, v), DecodeTrail
  PROVE  Streaming(m, blocks, tail, e, v)' /\ Replaced(m, e, v)'
<1> DEFINE d == [dec EXCEPT !.buf = Drop(@, 2), !.state = "ReadingSize"]
           few == Len(dec.buf) < 2
<1>1. place = "decode" /\ dec.state = "BodyTrail" /\ UNCHANGED <<sent, wire, st, out, seen, sse>>
  BY DEF DecodeTrail
<1>2. DecoderAt(m, dec, wire, v) /\ out \o FramesLeft(m, e) = Rewritten(m)
  BY <1>1 DEF Replaced
<1>3. (few => wire # <<>>) /\ (~few => DecoderAt(m, d, wire, v))
  BY <1>1, <1>2, TrailStep
<1>4. sse' \in Bytes /\ v \in Bytes /\ sse' \o v = RestOf(blocks, tail, e)
  BY <1>1 DEF Streaming
<1>5. (few /\ dec' = dec /\ place' = "parse") \/ (~few /\ dec' = d /\ place' = "decode")
  BY DEF DecodeTrail
<1> HIDE DEF d, few
<1>6. DecoderAt(m, dec', wire', v) /\ (place' = "parse" => wire # <<>>) /\ place' \in {"decode", "parse"}
  BY <1>1, <1>2, <1>3, <1>5
<1>7. Streaming(m, blocks, tail, e, v)'
  BY <1>1, <1>4, <1>6, StreamOn
<1>8. Replaced(m, e, v)'
  BY <1>1, <1>2, <1>6 DEF Replaced
<1> QED
  BY <1>7, <1>8

\* The parser is in front of the next block of the stream.
LEMMA NextBlock ==
  ASSUME NEW m, NEW blocks, NEW tail, NEW e, NEW v, IsResponse(pii_mode = "pii", m, blocks, tail),
         Streaming(m, blocks, tail, e, v), place = "parse"
  PROVE  LET b == blocks[e + 1]
             t == RestOf(blocks, tail, e + 1)
         IN /\ e \in Nat /\ e + 1 \in 1..Len(m.events) /\ Len(m.events) \in Nat
            /\ IsBlock(b) /\ t \in Bytes /\ Meet(sse, v, b, t)
            /\ LET x == ParseEventBlock(Take(b, FindDoubleNewline(b)[1]))
               IN /\ x = [type |-> m.events[e + 1].type, some |-> TRUE, data |-> Joined(m.events[e + 1].data)]
                  /\ EndsResponse(x) <=> e + 1 = Len(m.events)
<1> DEFINE n == Len(m.events)
           k == e + 1
           b == blocks[k]
           t == RestOf(blocks, tail, k)
<1>1. IsStream(m, blocks, tail) /\ IsMessage(m)
  BY DEF IsResponse, Streaming
<1>2. n \in Nat /\ e \in 0..n /\ e # n
  BY <1>1 DEF IsMessage, Streaming
<1>3. k \in 1..n /\ k - 1 = e /\ e \in Nat
  BY <1>2
<1>4. blocks \in Seq(Bytes) /\ Len(blocks) = n /\ tail \in Bytes /\ DOMAIN blocks = 1..n
  BY <1>1 DEF IsStream
<1> HIDE DEF k, n
<1>5. t \in Bytes /\ RestOf(blocks, tail, k - 1) = b \o t
  <2>1. k \in 0..Len(blocks) /\ k \in 1..Len(blocks)
    BY <1>2, <1>3, <1>4
  <2> QED
    BY <1>4, <2>1, RestProps
<1>6. /\ FindDoubleNewline(b) # <<>> /\ FindDoubleNewline(b)[2] = Len(b) /\ b \in Bytes
      /\ ParseEventBlock(Take(b, FindDoubleNewline(b)[1])) = [type |-> m.events[k].type, some |-> TRUE, data |-> Joined(m.events[k].data)]
      /\ EndsResponse(ParseEventBlock(Take(b, FindDoubleNewline(b)[1]))) <=> k = n
  <2>1. k \in DOMAIN blocks
    BY <1>3, <1>4
  <2>2. b \in Bytes
    BY <1>3, <1>4
  <2> QED
    BY <1>1, <1>4, <2>1, <2>2 DEF IsStream
<1>7. IsBlock(b)
  BY <1>6 DEF IsBlock
<1>8. Meet(sse, v, b, t)
  BY <1>3, <1>5 DEF Meet, Streaming
<1> HIDE DEF b, t
<1>9. /\ e \in Nat /\ k \in 1..n /\ n \in Nat
      /\ IsBlock(b) /\ t \in Bytes /\ Meet(sse, v, b, t)
  BY <1>2, <1>3, <1>5, <1>7, <1>8
<1> QED
  BY <1>6, <1>9 DEF b, t, k, n

\* The parser finds an event.
LEMMA ParseEventStep ==
  ASSUME NEW m, NEW blocks, NEW tail, NEW e, NEW v, pii_mode \in {"passthrough", "pii"},
         IsResponse(pii_mode = "pii", m, blocks, tail), Streaming(m, blocks, tail, e, v),
         IF pii_mode = "pii" THEN Replaced(m, e, v) ELSE Copied(m, v), ParseEvent
  PROVE  /\ Streaming(m, blocks, tail, e + 1, v)'
         /\ IF pii_mode = "pii" THEN Replaced(m, e + 1, v)' ELSE Copied(m, v)'
<1> DEFINE n == Len(m.events)
           k == e + 1
           b == blocks[k]
           t == RestOf(blocks, tail, k)
           cut == FindDoubleNewline(sse)
           ev == ParseEventBlock(Take(sse, cut[1]))
           ends == ev.some /\ EndsResponse(ev)
           y == m.events[k]
<1>0. place = "parse" /\ cut # <<>> /\ UNCHANGED <<sent, wire, st, dec, pii_mode>>
  BY DEF ParseEvent
<1>1. e \in Nat /\ k \in 1..n /\ n \in Nat /\ IsBlock(b) /\ t \in Bytes /\ Meet(sse, v, b, t)
  BY <1>0, NextBlock
<1>2. LET x == ParseEventBlock(Take(b, FindDoubleNewline(b)[1]))
      IN x = [type |-> y.type, some |-> TRUE, data |-> Joined(y.data)] /\ (EndsResponse(x) <=> k = n)
  BY <1>0, NextBlock, ZenonT(60)
<1>3. sse \in Bytes /\ v \in Bytes
  BY DEF Streaming
<1>4. cut = FindDoubleNewline(b) /\ Take(sse, cut[1]) = Take(b, cut[1]) /\ Drop(sse, cut[2]) \o v = t /\ Drop(sse, cut[2]) \in Bytes
  <2> HIDE DEF b, t
  <2> QED
    BY <1>0, <1>1, <1>3, ParseStep
<1>5. ev = [type |-> y.type, some |-> TRUE, data |-> Joined(y.data)] /\ (EndsResponse(ev) <=> k = n)
  BY <1>2, <1>4
<1>6. ev.some = TRUE /\ ev.type = y.type /\ ev.data = Joined(y.data) /\ (ends <=> k = n)
  <2> HIDE DEF ev, y
  <2> QED
    BY <1>5
<1>7. /\ sse' = Drop(sse, cut[2])
      /\ seen' = IF ev.some THEN Append(seen, [type |-> ev.type, data |-> ev.data]) ELSE seen
      /\ out' = IF ~Rewriting(st) \/ ~ev.some THEN out
                ELSE out \o Chunk(Reconstruct(ev)) \o (IF ends THEN LastChunk ELSE <<>>)
      /\ place' = IF ends THEN "done" ELSE "parse"
  BY DEF ParseEvent
<1> HIDE DEF ev, ends, cut, b, t, n
<1>8. sse' \in Bytes /\ sse' \o v = t
  BY <1>4, <1>7
<1>9. seen' = Heard(m, k)
  <2>1. seen = Heard(m, e)
    BY DEF Streaming
  <2>2. Append(Heard(m, e), [type |-> y.type, data |-> Joined(y.data)]) = Heard(m, k)
    BY <1>1, HeardNext
  <2> QED
    BY <1>6, <1>7, <2>1, <2>2
<1>10. k \in 0..n /\ (place' = "done" <=> k = n) /\ place' \in {"parse", "done"}
  BY <1>1, <1>6, <1>7
<1>11. out \in Bytes /\ wire \in Bytes /\ m.sse /\ sent = 1 /\ st = HeaderOf(m, st.body_received) /\ (wire = <<>> => v = <<>>)
  BY <1>0 DEF Streaming
<1>12. ASSUME out' \in Bytes PROVE Streaming(m, blocks, tail, k, v)'
  <2> HIDE DEF k
  <2> QED
    BY <1>0, <1>3, <1>8, <1>9, <1>10, <1>11, <1>12 DEF Streaming, t, n
<1>13. st.is_sse = m.sse
  <2>1. PICK q : st = HeaderOf(m, q)
    BY <1>11
  <2> QED
    BY <2>1 DEF HeaderOf
<1>14. CASE pii_mode # "pii"
  <2>1. out' = out
    BY <1>7, <1>14 DEF Rewriting
  <2>2. Copied(m, v)'
    BY <1>0, <1>10, <1>14, <2>1 DEF Copied
  <2> QED
    BY <1>11, <1>12, <1>14, <2>1, <2>2
<1>15. CASE pii_mode = "pii"
  <2> DEFINE c == Chunk(ShownEvent(y))
             l == IF k = n THEN LastChunk ELSE <<>>
             g == IF k = n THEN <<>> ELSE FramesLeft(m, k)
             a == IF k = n THEN LastChunk ELSE FramesLeft(m, k)
  <2>0. IsResponse(TRUE, m, blocks, tail)
    BY <1>15
  <2>1. Reconstruct(ev) = ShownEvent(y)
    <3>1. y \in [type : Bytes, data : Seq(Bytes)] /\ Len(y.data) = 1
      <4> DEFINE S == [type : Bytes, data : Seq(Bytes)]
      <4>1. m.events \in Seq(S) /\ \A i \in DOMAIN m.events : Len(m.events[i].data) = 1
        BY <1>11, <2>0 DEF IsResponse, IsMessage
      <4> HIDE DEF S
      <4>2. k \in DOMAIN m.events /\ y \in S
        BY <1>1, <4>1 DEF n
      <4>3. Len(y.data) = 1
        BY <4>1, <4>2
      <4> QED
        BY <4>2, <4>3 DEF S
    <3> HIDE DEF y
    <3> QED
      BY <1>6, <3>1, EventShown
  <2>2. Rewriting(st)
    BY <1>11, <1>13, <1>15 DEF Rewriting
  <2>3. out' = (out \o c) \o l
    BY <1>6, <1>7, <2>1, <2>2
  <2>4. c \in Bytes /\ FramesLeft(m, e) = c \o a /\ FramesLeft(m, k) \in Bytes /\ FramesLeft(m, k) = g
    <3>1. \A q \in 1..n : /\ Chunk(ShownEvent(m.events[q])) \in Bytes
                          /\ FramesLeft(m, q - 1) = Chunk(ShownEvent(m.events[q])) \o (IF q = n THEN LastChunk ELSE FramesLeft(m, q))
      BY <1>11, <2>0, FramesProps DEF n
    <3>2. k - 1 = e
      BY <1>1
    <3>3. FramesLeft(m, k) \in Bytes
      BY <1>10, <1>11, <2>0, FramesProps DEF n
    <3>4. FramesLeft(m, k) = g
      BY DEF FramesLeft, n
    <3> HIDE DEF k
    <3>5. c \in Bytes /\ FramesLeft(m, e) = c \o a
      BY <1>1, <3>1, <3>2
    <3> QED
      BY <3>3, <3>4, <3>5
  <2>5. out \o FramesLeft(m, e) = Rewritten(m) /\ (DecoderAt(m, dec, wire, v) \/ (v = <<>> /\ place \in {"parse", "done"}))
    BY <1>15 DEF Replaced
  <2>6. LastChunk \in Bytes /\ <<>> \in Bytes
    BY Separators, RowEmpty
  <2>7. l \in Bytes /\ g \in Bytes /\ l \o g = a /\ a \in Bytes
    <3>1. LastChunk \o <<>> = LastChunk /\ <<>> \o FramesLeft(m, k) = FramesLeft(m, k)
      BY <2>4, <2>6, RowEmpty
    <3> QED
      BY <2>4, <2>6, <3>1
  <2> HIDE DEF c, l, g, a, y
  <2>8. out \o c \in Bytes /\ out' \in Bytes
    <3>1. out \o c \in Bytes
      BY <1>11, <2>4, RowProps
    <3> DEFINE z == out \o c
    <3> HIDE DEF z
    <3>2. z \in Bytes
      BY <3>1 DEF z
    <3>3. z \o l \in Bytes
      BY <2>7, <3>2, RowProps
    <3> QED
      BY <2>3, <3>1, <3>3 DEF z
  <2>9. ((out \o c) \o l) \o g = (out \o c) \o (l \o g)
    <3> DEFINE z == out \o c
    <3>1. z \in Bytes /\ l \in Bytes /\ g \in Bytes
      BY <2>7, <2>8
    <3> HIDE DEF z
    <3>2. (z \o l) \o g = z \o (l \o g)
      BY <3>1, RowAssoc
    <3> QED
      BY <3>2 DEF z
  <2>10. (out \o c) \o a = out \o (c \o a)
    <3>1. out \in Bytes /\ c \in Bytes /\ a \in Bytes
      BY <1>11, <2>4, <2>7
    <3> QED
      BY <3>1, RowAssoc
  <2>11. out' \o FramesLeft(m, k) = Rewritten(m)
    BY <2>3, <2>4, <2>5, <2>7, <2>9, <2>10
  <2>12. Replaced(m, k, v)'
    <3> HIDE DEF k
    <3> QED
      BY <1>0, <1>10, <2>5, <2>11 DEF Replaced
  <2> QED
    BY <1>12, <1>15, <2>8, <2>12
<1> QED
  BY <1>14, <1>15

\* The parser waits for the rest of an event.
LEMMA NoMoreEventsStep ==
  ASSUME NEW m, NEW blocks, NEW tail, NEW e, NEW v, pii_mode \in {"passthrough", "pii"},
         IsResponse(pii_mode = "pii", m, blocks, tail), Streaming(m, blocks, tail, e, v),
         IF pii_mode = "pii" THEN Replaced(m, e, v) ELSE Copied(m, v), NoMoreEvents
  PROVE  /\ Streaming(m, blocks, tail, e, v)'
         /\ IF pii_mode = "pii" THEN Replaced(m, e, v)' ELSE Copied(m, v)'
<1> DEFINE b == blocks[e + 1]
           t == RestOf(blocks, tail, e + 1)
<1>1. place = "parse" /\ FindDoubleNewline(sse) = <<>> /\ place' = "read" /\ UNCHANGED <<sent, wire, st, dec, sse, out, seen>>
  BY DEF NoMoreEvents
<1>2. IsBlock(b) /\ t \in Bytes /\ Meet(sse, v, b, t)
  BY <1>1, NextBlock
<1>3. sse \in Bytes /\ v \in Bytes
  BY DEF Streaming
<1> HIDE DEF b, t
<1>4. v # <<>>
  BY <1>1, <1>2, <1>3, ParseStep
<1>5. wire # <<>>
  BY <1>1, <1>4 DEF Streaming
<1>6. Streaming(m, blocks, tail, e, v)'
  BY <1>1, <1>5 DEF Streaming
<1>7. CASE pii_mode = "pii"
  <2>1. Replaced(m, e, v)'
    BY <1>1, <1>4, <1>7 DEF Replaced
  <2> QED
    BY <1>6, <1>7, <2>1
<1>8. CASE pii_mode # "pii"
  <2>1. Copied(m, v)'
    BY <1>1, <1>8 DEF Copied
  <2> QED
    BY <1>6, <1>8, <2>1
<1> QED
  BY <1>7, <1>8

-----------------------------------------------------------------------------
(* All steps of a response *)

\* The steps that the handler of a response may take, by its place.
LEMMA ResponseActions ==
  ASSUME dir = "response", FramingNext
  PROVE  \/ Send \/ ReadResponseHeader \/ ParseResponseHeader \/ ReadResponseBody
         \/ DecodeSize \/ DecodeBody \/ DecodeTrail \/ ParseEvent \/ NoMoreEvents \/ EndOfRead
BY DEF FramingNext, ReadRequest, KeepRequest, ParseRequestHeader, ForwardEagerly, CompleteLength, CompleteChunked,
       CompleteUnknown, ForwardMasked, RequestEof

\* Where the handler is when it takes each of them.
LEMMA ResponsePlaces ==
  /\ Send => sent < Len(script)
  /\ ReadResponseHeader => place = "read" /\ ~st.header_done
  /\ ParseResponseHeader => place = "header"
  /\ ReadResponseBody => place = "read" /\ st.header_done
  /\ DecodeSize \/ DecodeBody \/ DecodeTrail => place = "decode"
  /\ ParseEvent \/ NoMoreEvents => place = "parse"
  /\ EndOfRead => place = "end"
BY DEF Send, ReadResponseHeader, ParseResponseHeader, ReadResponseBody, DecodeSize, DecodeBody, DecodeTrail, ParseEvent,
       NoMoreEvents, EndOfRead

\* No step changes the direction, the mode or the script.
LEMMA FramingKeeps ==
  ASSUME FramingNext
  PROVE  dir' = dir /\ pii_mode' = pii_mode /\ script' = script
<1>1. CASE Send \/ ReadRequest \/ KeepRequest \/ ParseRequestHeader \/ ForwardEagerly
  BY <1>1 DEF Send, ReadRequest, KeepRequest, ParseRequestHeader, ForwardEagerly
<1>2. CASE CompleteLength \/ CompleteChunked \/ CompleteUnknown \/ ForwardMasked \/ RequestEof
  BY <1>2 DEF CompleteLength, CompleteChunked, CompleteUnknown, ForwardMasked, RequestEof
<1>3. CASE ReadResponseHeader \/ ParseResponseHeader \/ ReadResponseBody \/ EndOfRead
  BY <1>3 DEF ReadResponseHeader, ParseResponseHeader, ReadResponseBody, EndOfRead
<1>4. CASE DecodeSize \/ DecodeBody \/ DecodeTrail \/ ParseEvent \/ NoMoreEvents
  BY <1>4 DEF DecodeSize, DecodeBody, DecodeTrail, ParseEvent, NoMoreEvents
<1> QED
  BY <1>1, <1>2, <1>3, <1>4 DEF FramingNext

\* A phase of a response is followed by the next one, or by itself.
LEMMA PhaseStep ==
  ASSUME NEW m, NEW blocks, NEW tail, dir = "response", pii_mode \in {"passthrough", "pii"}, script = <<m>>,
         IsResponse(pii_mode = "pii", m, blocks, tail), ResponsePhase(m, blocks, tail), FramingNext
  PROVE  ResponsePhase(m, blocks, tail)'
<1>0. IsMessage(m) /\ Len(script) = 1 /\ pii_mode' = pii_mode
  BY FramingKeeps DEF IsResponse
<1>1. \/ Send \/ ReadResponseHeader \/ ParseResponseHeader \/ ReadResponseBody
      \/ DecodeSize \/ DecodeBody \/ DecodeTrail \/ ParseEvent \/ NoMoreEvents \/ EndOfRead
  BY ResponseActions
<1>2. CASE NothingSent
  <2>1. sent = 0 /\ wire = <<>> /\ place = "read" /\ ~st.header_done
    BY <1>2 DEF NothingSent, Idle
  <2>2. Send
    <3>1. ~ReadResponseHeader
      BY <2>1 DEF ReadResponseHeader
    <3> QED
      BY <1>1, <2>1, <3>1, ResponsePlaces
  <2>3. InHeader(m)'
    BY <1>0, <1>2, <2>2, SendStep
  <2> QED
    BY <2>3 DEF ResponsePhase
<1>3. CASE InHeader(m)
  <2>1. sent = 1 /\ place \in {"read", "header"} /\ ~st.header_done
    BY <1>3 DEF InHeader, Idle
  <2>2. ReadResponseHeader \/ ParseResponseHeader
    BY <1>0, <1>1, <2>1, ResponsePlaces
  <2>3. CASE ReadResponseHeader
    <3>1. InHeader(m)'
      BY <1>3, <2>3, ReadHeaderStep
    <3> QED
      BY <3>1 DEF ResponsePhase
  <2>4. CASE ParseResponseHeader
    <3>1. InHeader(m)' \/ Document(m)' \/ \E e, v : /\ Streaming(m, blocks, tail, e, v)'
                                                    /\ IF pii_mode = "pii" THEN Replaced(m, e, v)' ELSE Copied(m, v)'
      BY <1>3, <2>4, ParseHeaderStep
    <3> QED
      BY <1>0, <3>1 DEF ResponsePhase
  <2> QED
    BY <2>2, <2>3, <2>4
<1>4. CASE Document(m)
  <2>1. sent = 1 /\ place \in {"end", "read", "done"} /\ st.header_done
    BY <1>4 DEF Document, HeaderOf
  <2>2. ReadResponseBody \/ EndOfRead
    BY <1>0, <1>1, <2>1, ResponsePlaces
  <2>3. Document(m)'
    BY <1>4, <2>2, ReadDocumentStep, EndDocumentStep
  <2> QED
    BY <2>3 DEF ResponsePhase
<1>5. ASSUME NEW e, NEW v, Streaming(m, blocks, tail, e, v),
             IF pii_mode = "pii" THEN Replaced(m, e, v) ELSE Copied(m, v)
      PROVE  ResponsePhase(m, blocks, tail)'
  <2>1. sent = 1 /\ place \in {"decode", "parse", "read", "done"} /\ st.header_done /\ m.sse
    <3>1. PICK k : st = HeaderOf(m, k)
      BY <1>5 DEF Streaming
    <3> QED
      BY <1>5, <3>1 DEF Streaming, HeaderOf
  <2>2. ReadResponseBody \/ DecodeSize \/ DecodeBody \/ DecodeTrail \/ ParseEvent \/ NoMoreEvents
    BY <1>0, <1>1, <2>1, ResponsePlaces
  <2>3. SUFFICES \E d, u : /\ Streaming(m, blocks, tail, d, u)'
                           /\ IF pii_mode = "pii" THEN Replaced(m, d, u)' ELSE Copied(m, u)'
    BY <1>0 DEF ResponsePhase
  <2>4. CASE ReadResponseBody
    <3>1. \E u : /\ Streaming(m, blocks, tail, e, u)'
                 /\ IF pii_mode = "pii" THEN Replaced(m, e, u)' ELSE Copied(m, u)'
      BY <1>5, <2>4, ReadStreamStep
    <3> QED
      BY <3>1
  <2>5. CASE DecodeSize \/ DecodeBody \/ DecodeTrail
    <3>1. place = "decode"
      BY <2>5 DEF DecodeSize, DecodeBody, DecodeTrail
    <3>2. pii_mode = "pii" /\ Replaced(m, e, v)
      BY <1>5, <3>1 DEF Copied
    <3>3. m.framing = "chunked"
      BY <2>1, <3>2 DEF IsResponse
    <3>4. \E u : Streaming(m, blocks, tail, e, u)' /\ Replaced(m, e, u)'
      <4>1. CASE DecodeSize
        BY <1>0, <1>5, <3>2, <3>3, <4>1, DecodeSizeStep
      <4>2. CASE DecodeBody
        BY <1>0, <1>5, <3>2, <3>3, <4>2, DecodeBodyStep
      <4>3. CASE DecodeTrail
        BY <1>0, <1>5, <3>2, <3>3, <4>3, DecodeTrailStep
      <4> QED
        BY <2>5, <4>1, <4>2, <4>3
    <3> QED
      BY <3>2, <3>4
  <2>6. CASE ParseEvent
    <3>1. /\ Streaming(m, blocks, tail, e + 1, v)'
          /\ IF pii_mode = "pii" THEN Replaced(m, e + 1, v)' ELSE Copied(m, v)'
      BY <1>5, <2>6, ParseEventStep
    <3> QED
      BY <3>1
  <2>7. CASE NoMoreEvents
    <3>1. /\ Streaming(m, blocks, tail, e, v)'
          /\ IF pii_mode = "pii" THEN Replaced(m, e, v)' ELSE Copied(m, v)'
      BY <1>5, <2>7, NoMoreEventsStep
    <3> QED
      BY <3>1
  <2> QED
    BY <2>2, <2>4, <2>5, <2>6, <2>7
<1> QED
  BY <1>2, <1>3, <1>4, <1>5 DEF ResponsePhase

\* The invariant holds the properties of a response.
LEMMA PhaseHolds ==
  ASSUME NEW m, NEW blocks, NEW tail, dir = "response", script = <<m>>,
         IsResponse(pii_mode = "pii", m, blocks, tail), ResponsePhase(m, blocks, tail)
  PROVE  OutputExact /\ ObservedExact /\ CompleteExactly
<1> DEFINE D == Due(m)
           n == Len(m.events)
<1>1. D = (IF pii_mode = "pii" /\ m.sse THEN Rewritten(m) ELSE Encoded(m)) /\ D \in Bytes
  BY DueIs
<1>2. Told(m) = Heard(m, n) /\ n \in Nat
  BY ToldIs
<1>3. /\ sent = 0 => Sofar(Due) = <<>> /\ Sofar(Told) = <<>>
      /\ sent = 1 => Sofar(Due) = D /\ Sofar(Told) = Told(m)
  BY SofarIs
<1>4. AllRead <=> wire = <<>> /\ place \in {"done", "read"}
  BY DEF AllRead
<1>5. <<>> \in Bytes /\ (\A s \in Bytes : IsPrefix(<<>>, s)) /\ Heard(m, 0) = <<>>
  <2>1. <<>> \in Bytes /\ \A s \in Bytes : <<>> \o s = s
    BY RowEmpty
  <2>2. ASSUME NEW s \in Bytes PROVE IsPrefix(<<>>, s)
    BY <2>1, PrefixOf
  <2> QED
    BY <2>1, <2>2 DEF Heard
<1> HIDE DEF D, n
<1>6. CASE NothingSent
  <2>1. sent = 0 /\ out = <<>> /\ seen = <<>> /\ place = "read"
    BY <1>6 DEF NothingSent
  <2> QED
    BY <1>3, <1>5, <2>1 DEF OutputExact, ObservedExact, CompleteExactly
<1>7. CASE InHeader(m)
  <2>1. sent = 1 /\ out = <<>> /\ seen = <<>> /\ place \in {"read", "header"} /\ ~AllRead
    BY <1>4, <1>7 DEF InHeader
  <2>2. IsPrefix(<<>>, D)
    BY <1>1, <1>5
  <2>3. IsPrefix(<<>>, Told(m))
    BY <1>2, <1>5, HeardPrefix
  <2> QED
    BY <1>3, <2>1, <2>2, <2>3 DEF OutputExact, ObservedExact, CompleteExactly
<1>8. CASE Document(m)
  <2>1. sent = 1 /\ out \in Bytes /\ wire \in Bytes /\ ~m.sse /\ seen = <<>> /\ out \o wire = Encoded(m) /\ place \in {"end", "read", "done"}
    BY <1>8 DEF Document
  <2>2. D = out \o wire
    BY <1>1, <2>1
  <2>3. IsPrefix(out, D)
    BY <2>1, <2>2, PrefixOf
  <2>4. wire = <<>> => out = D
    BY <2>1, <2>2, RowEmpty
  <2>5. Told(m) = <<>>
    <3>1. n = 0
      BY <2>1 DEF n, IsResponse
    <3> QED
      BY <1>2, <1>5, <3>1
  <2>6. AllRead => wire = <<>> /\ place = "done"
    BY <1>4, <1>8 DEF Document
  <2>7. place = "done" => wire = <<>>
    BY <1>8 DEF Document
  <2> QED
    BY <1>3, <1>5, <2>1, <2>3, <2>4, <2>5, <2>6, <2>7 DEF OutputExact, ObservedExact, CompleteExactly
<1>9. ASSUME NEW e, NEW v, Streaming(m, blocks, tail, e, v),
             IF pii_mode = "pii" THEN Replaced(m, e, v) ELSE Copied(m, v)
      PROVE  OutputExact /\ ObservedExact /\ CompleteExactly
  <2>1. /\ sent = 1 /\ m.sse /\ out \in Bytes /\ wire \in Bytes /\ seen = Heard(m, e) /\ e \in 0..n
        /\ place \in {"decode", "parse", "read", "done"} /\ (place = "done" <=> e = n) /\ (place = "read" => wire # <<>>)
    BY <1>9 DEF Streaming, n
  <2>2. AllRead => wire = <<>> /\ place = "done"
    BY <1>4, <2>1
  <2>3. st.is_sse
    <3>1. PICK k : st = HeaderOf(m, k)
      BY <1>9 DEF Streaming
    <3> QED
      BY <2>1, <3>1 DEF HeaderOf
  <2>4. IsPrefix(seen, Told(m)) /\ (e = n => seen = Told(m))
    BY <1>2, <2>1, HeardPrefix
  <2>5. IsPrefix(out, D) /\ (wire = <<>> /\ place = "done" => out = D)
    <3>1. CASE pii_mode = "pii"
      <4> DEFINE g == FramesLeft(m, e)
      <4>1. D = out \o g
        BY <1>1, <1>9, <2>1, <3>1 DEF Replaced
      <4>2. g \in Bytes
        BY <2>1, <3>1, FramesProps DEF n
      <4>3. e = n => g = <<>>
        BY DEF FramesLeft, n
      <4> HIDE DEF g
      <4>4. IsPrefix(out, D)
        BY <2>1, <4>1, <4>2, PrefixOf
      <4>5. e = n => out = D
        BY <2>1, <4>1, <4>3, RowEmpty
      <4> QED
        BY <2>1, <4>4, <4>5
    <3>2. CASE pii_mode # "pii"
      <4>1. D = out \o wire
        BY <1>1, <1>9, <3>2 DEF Copied
      <4>2. IsPrefix(out, D)
        BY <2>1, <4>1, PrefixOf
      <4>3. wire = <<>> => out = D
        BY <2>1, <4>1, RowEmpty
      <4> QED
        BY <4>2, <4>3
    <3> QED
      BY <3>1, <3>2
  <2> QED
    BY <1>3, <2>1, <2>2, <2>3, <2>4, <2>5 DEF OutputExact, ObservedExact, CompleteExactly
<1> QED
  BY <1>6, <1>7, <1>8, <1>9 DEF ResponsePhase

\* Every response that may come is one that the handlers are written for.
ResponsesProper ==
  \A p \in {"passthrough", "pii"} : \A r \in Responses[p] :
    \E blocks, tail : IsResponse(p = "pii", r, blocks, tail)

FramingInv == dir = "response" => ResponseInv

\* The invariant of a response holds at all times (handle_u2c).
LEMMA FramingInvHolds ==
  ASSUME ResponsesProper
  PROVE  FramingSpec => []FramingInv
<1>1. FramingInit => FramingInv
  <2>1. SUFFICES ASSUME FramingInit, dir = "response" PROVE ResponseInv
    BY DEF FramingInv
  <2>2. pii_mode \in {"passthrough", "pii"} /\ script \in {<<r>> : r \in Responses[pii_mode]}
    BY <2>1 DEF FramingInit
  <2>3. PICK r \in Responses[pii_mode] : script = <<r>>
    BY <2>2
  <2>4. PICK blocks, tail : IsResponse(pii_mode = "pii", r, blocks, tail)
    BY <2>2 DEF ResponsesProper
  <2>5. NothingSent
    BY <2>1 DEF FramingInit, NothingSent, Start
  <2> QED
    BY <2>2, <2>3, <2>4, <2>5 DEF ResponseInv, ResponsePhase
<1>2. FramingInv /\ [FramingNext]_framingVars => FramingInv'
  <2>1. SUFFICES ASSUME FramingInv, [FramingNext]_framingVars PROVE FramingInv'
    OBVIOUS
  <2>2. CASE UNCHANGED framingVars
    <3>0. /\ dir' = dir /\ pii_mode' = pii_mode /\ script' = script /\ sent' = sent /\ wire' = wire /\ raw' = raw
          /\ st' = st /\ dec' = dec /\ sse' = sse /\ place' = place /\ out' = out /\ seen' = seen
      BY <2>2 DEF framingVars
    <3>1. NothingSent => NothingSent'
      BY <3>0 DEF NothingSent
    <3>2. \A m : (InHeader(m) => InHeader(m)') /\ (Document(m) => Document(m)')
      BY <3>0 DEF InHeader, Document
    <3>3. \A m, blocks, tail, e, v : Streaming(m, blocks, tail, e, v) => Streaming(m, blocks, tail, e, v)'
      BY <3>0 DEF Streaming
    <3>4. \A m, e, v : (Copied(m, v) => Copied(m, v)') /\ (Replaced(m, e, v) => Replaced(m, e, v)')
      BY <3>0 DEF Copied, Replaced
    <3>5. ASSUME NEW m, NEW blocks, NEW tail, ResponsePhase(m, blocks, tail) PROVE ResponsePhase(m, blocks, tail)'
      BY <3>0, <3>1, <3>2, <3>3, <3>4, <3>5 DEF ResponsePhase
    <3>6. SUFFICES ASSUME dir = "response" PROVE ResponseInv'
      BY <3>0 DEF FramingInv
    <3>7. PICK m, blocks, tail : script = <<m>> /\ IsResponse(pii_mode = "pii", m, blocks, tail) /\ ResponsePhase(m, blocks, tail)
      BY <2>1, <3>6 DEF FramingInv, ResponseInv
    <3>8. pii_mode \in {"passthrough", "pii"}
      BY <2>1, <3>6 DEF FramingInv, ResponseInv
    <3> QED
      BY <3>0, <3>5, <3>7, <3>8 DEF ResponseInv
  <2>3. CASE FramingNext
    <3>1. dir' = dir /\ pii_mode' = pii_mode /\ script' = script
      BY <2>3, FramingKeeps
    <3>2. SUFFICES ASSUME dir = "response" PROVE ResponseInv'
      BY <3>1 DEF FramingInv
    <3>3. PICK m, blocks, tail : script = <<m>> /\ IsResponse(pii_mode = "pii", m, blocks, tail) /\ ResponsePhase(m, blocks, tail)
      BY <2>1, <3>2 DEF FramingInv, ResponseInv
    <3>4. pii_mode \in {"passthrough", "pii"}
      BY <2>1, <3>2 DEF FramingInv, ResponseInv
    <3>5. ResponsePhase(m, blocks, tail)'
      BY <2>3, <3>2, <3>3, <3>4, PhaseStep
    <3> QED
      BY <3>1, <3>3, <3>4, <3>5 DEF ResponseInv
  <2> QED
    BY <2>1, <2>2, <2>3
<1> QED
  BY <1>1, <1>2, PTL DEF FramingSpec

-----------------------------------------------------------------------------
(* Rows of rows *)

\* Two sequences in a row.
LEMMA RowIn ==
  ASSUME NEW X, NEW s \in Seq(X), NEW t \in Seq(X)
  PROVE  s \o t \in Seq(X) /\ Len(s \o t) = Len(s) + Len(t)
BY ConcatProperties

\* The flat sequence, one row more at a time.
LEMMA FlatIn ==
  ASSUME NEW X, NEW ss, Len(ss) \in Nat, \A i \in 1..Len(ss) : ss[i] \in Seq(X)
  PROVE  /\ \A k \in 0..Len(ss) : FlatTo(ss)[k] \in Seq(X)
         /\ FlatTo(ss)[0] = <<>>
         /\ \A k \in 1..Len(ss) : FlatTo(ss)[k] = FlatTo(ss)[k - 1] \o ss[k]
         /\ Len(ss) # 0 => FlattenSeq(ss) = FlatTo(ss)[Len(ss)]
<1> DEFINE f == CHOOSE g : Flattens(g, ss)
           F == FlatTo(ss)
           n == Len(ss)
           T == {k \in Nat : k <= n => F[k] \in Seq(X)}
<1>0. n \in Nat /\ \A k \in 1..n : ss[k] \in Seq(X)
  OBVIOUS
<1>1. Flattens(f, ss) /\ (n # 0 => FlattenSeq(ss) = f[n])
  BY <1>0, FlattenDef
<1>2. F = [k \in 0..n |-> IF k = 0 THEN <<>> ELSE f[k]]
  BY DEF FlatTo
<1> HIDE DEF f, F, n
<1>3. F[0] = <<>> /\ \A k \in 1..n : F[k] = f[k]
  BY <1>0, <1>2
<1>4. \A k \in 1..n : f[k] = FlatStep(ss, f, k)
  BY <1>1 DEF Flattens, n
<1>5. ASSUME NEW k \in 1..n PROVE F[k] = F[k - 1] \o ss[k]
  <2>1. CASE k = 1
    <3>1. F[k] = ss[k] /\ F[k - 1] = <<>> /\ ss[k] \in Seq(X)
      BY <1>0, <1>3, <1>4, <2>1 DEF FlatStep
    <3> QED
      BY <3>1
  <2>2. CASE k # 1
    <3>1. k - 1 \in 1..n
      BY <1>0, <2>2
    <3> QED
      BY <1>3, <1>4, <2>2, <3>1 DEF FlatStep
  <2> QED
    BY <2>1, <2>2
<1>6. 0 \in T
  BY <1>3, EmptySeq
<1>7. \A k \in Nat : k \in T => k + 1 \in T
  <2> SUFFICES ASSUME NEW k \in Nat, k \in T, k + 1 <= n PROVE F[k + 1] \in Seq(X)
    OBVIOUS
  <2>1. F[k] \in Seq(X) /\ k + 1 \in 1..n
    BY <1>0
  <2> DEFINE j == k + 1
  <2>a. j \in 1..n /\ j - 1 = k
    BY <2>1
  <2> HIDE DEF j, T
  <2>2. F[j] = F[j - 1] \o ss[j] /\ ss[j] \in Seq(X)
    BY <1>0, <1>5, <2>a
  <2>3. F[k + 1] = F[k] \o ss[k + 1] /\ ss[k + 1] \in Seq(X)
    BY <2>a, <2>2 DEF j
  <2> QED
    BY <2>1, <2>3, RowIn
<1>8. Nat \subseteq T
  BY <1>6, <1>7, NatInductionSet, Zenon
<1>9. \A k \in 0..n : F[k] \in Seq(X)
  BY <1>0, <1>8
<1>10. n # 0 => FlattenSeq(ss) = F[n]
  BY <1>0, <1>1, <1>3
<1> QED
  BY <1>3, <1>5, <1>9, <1>10 DEF F, n

\* The first n of some rows, in a row.
FirstRows(g, n) == FlattenSeq([i \in 1..n |-> g[i]])

\* One row more.
LEMMA FirstRowsProps ==
  ASSUME NEW X, NEW N \in Nat, NEW g, \A i \in 1..N : g[i] \in Seq(X)
  PROVE  /\ FirstRows(g, 0) = <<>>
         /\ \A n \in 0..N : FirstRows(g, n) \in Seq(X)
         /\ \A n \in 1..N : FirstRows(g, n) = FirstRows(g, n - 1) \o g[n]
<1> DEFINE ss(n) == [i \in 1..n |-> g[i]]
           F(n) == FlatTo(ss(n))
<1>1. FirstRows(g, 0) = <<>>
  <2>1. ss(0) = <<>>
    OBVIOUS
  <2> QED
    BY <2>1 DEF FirstRows, FlattenSeq
<1>2. ASSUME NEW n \in 1..N
      PROVE  /\ Len(ss(n)) = n /\ (\A i \in 1..n : ss(n)[i] = g[i])
             /\ \A k \in 0..n : F(n)[k] \in Seq(X)
             /\ F(n)[0] = <<>>
             /\ \A k \in 1..n : F(n)[k] = F(n)[k - 1] \o g[k]
             /\ FirstRows(g, n) = F(n)[n]
  <2>1. Len(ss(n)) = n /\ n \in Nat /\ n # 0 /\ \A i \in 1..n : ss(n)[i] = g[i] /\ ss(n)[i] \in Seq(X)
    OBVIOUS
  <2>2. FirstRows(g, n) = FlattenSeq(ss(n))
    BY DEF FirstRows
  <2> HIDE DEF ss
  <2>3. /\ \A k \in 0..n : F(n)[k] \in Seq(X)
        /\ F(n)[0] = <<>>
        /\ \A k \in 1..n : F(n)[k] = F(n)[k - 1] \o ss(n)[k]
        /\ FlattenSeq(ss(n)) = F(n)[n]
    <3> DEFINE s1 == ss(n)
    <3>1. Len(s1) \in Nat /\ (\A i \in 1..Len(s1) : s1[i] \in Seq(X)) /\ Len(s1) = n /\ n # 0
      BY <2>1
    <3> HIDE DEF s1
    <3>2. /\ \A k \in 0..Len(s1) : FlatTo(s1)[k] \in Seq(X)
          /\ FlatTo(s1)[0] = <<>>
          /\ \A k \in 1..Len(s1) : FlatTo(s1)[k] = FlatTo(s1)[k - 1] \o s1[k]
          /\ Len(s1) # 0 => FlattenSeq(s1) = FlatTo(s1)[Len(s1)]
      BY <3>1, FlatIn
    <3> QED
      BY <3>1, <3>2 DEF s1
  <2> HIDE DEF F
  <2> QED
    BY <2>1, <2>2, <2>3
<1> HIDE DEF ss, F
<1>3. \A n \in 0..N : FirstRows(g, n) \in Seq(X)
  <2> SUFFICES ASSUME NEW n \in 0..N PROVE FirstRows(g, n) \in Seq(X)
    OBVIOUS
  <2>1. CASE n = 0
    BY <1>1, <2>1, EmptySeq
  <2>2. CASE n # 0
    <3>1. n \in 1..N /\ n \in 0..n
      BY <2>2
    <3> QED
      BY <1>2, <3>1
  <2> QED
    BY <2>1, <2>2
<1>4. ASSUME NEW n \in 1..N PROVE FirstRows(g, n) = FirstRows(g, n - 1) \o g[n]
  <2>1. n \in 1..n /\ n - 1 \in 0..n /\ n - 1 \in 0..N
    OBVIOUS
  <2>2. FirstRows(g, n) = F(n)[n - 1] \o g[n]
    BY <1>2, <2>1
  <2>3. CASE n = 1
    <3>a. F(n)[0] = <<>>
      BY <1>2
    <3>0. n - 1 = 0 /\ F(n)[0] = <<>>
      BY <2>3, <3>a
    <3>1. F(n)[n - 1] = <<>> /\ FirstRows(g, n - 1) = <<>>
      BY <1>1, <3>0
    <3> QED
      BY <2>2, <3>1
  <2>4. CASE n # 1
    <3> DEFINE p == n - 1
               T == {k \in Nat : k <= p => F(n)[k] = F(p)[k]}
    <3>1. p \in 1..N /\ p \in 1..n /\ p \in Nat
      BY <2>4
    <3>2. /\ F(p)[0] = <<>> /\ F(n)[0] = <<>>
          /\ \A k \in 1..p : F(p)[k] = F(p)[k - 1] \o g[k]
          /\ \A k \in 1..n : F(n)[k] = F(n)[k - 1] \o g[k]
          /\ FirstRows(g, p) = F(p)[p]
      BY <1>2, <3>1
    <3>a. \A k \in 1..p : k \in 1..n
      OBVIOUS
    <3> HIDE DEF p
    <3>3. 0 \in T
      BY <3>2
    <3>4. \A k \in Nat : k \in T => k + 1 \in T
      <4> SUFFICES ASSUME NEW k \in Nat, k \in T, k + 1 <= p PROVE F(n)[k + 1] = F(p)[k + 1]
        OBVIOUS
      <4> DEFINE j == k + 1
      <4>1. j \in 1..p /\ j \in 1..n /\ j - 1 = k /\ F(n)[k] = F(p)[k]
        BY <3>1, <3>a
      <4> HIDE DEF j, T
      <4>2. F(n)[j] = F(n)[j - 1] \o g[j] /\ F(p)[j] = F(p)[j - 1] \o g[j]
        BY <3>2, <4>1
      <4>3. F(n)[j] = F(p)[j]
        BY <4>1, <4>2
      <4> QED
        BY <4>3 DEF j
    <3>5. Nat \subseteq T
      BY <3>3, <3>4, NatInductionSet, Zenon
    <3>6. F(n)[p] = F(p)[p]
      BY <3>1, <3>5
    <3> QED
      BY <2>2, <3>2, <3>6 DEF p
  <2> QED
    BY <2>3, <2>4
<1> QED
  BY <1>1, <1>3, <1>4

\* The first n rows begin with the first k.
RowsLead(X, g, k, n) == \E r \in Seq(X) : FirstRows(g, n) = FirstRows(g, k) \o r

\* What comes behind the first k rows.
LEMMA FirstRowsRest ==
  ASSUME NEW X, NEW N \in Nat, NEW g, \A i \in 1..N : g[i] \in Seq(X), NEW k \in 0..N
  PROVE  \A n \in k..N : RowsLead(X, g, k, n)
<1> DEFINE F(n) == FirstRows(g, n)
           Goes(n) == \E r \in Seq(X) : F(n) = F(k) \o r
           T == {d \in Nat : k + d <= N => Goes(k + d)}
<1>1. /\ \A n \in 0..N : F(n) \in Seq(X)
      /\ \A n \in 1..N : F(n) = F(n - 1) \o g[n]
  BY FirstRowsProps
<1> HIDE DEF F
<1>2. 0 \in T
  <2>1. k + 0 = k /\ F(k) \in Seq(X) /\ <<>> \in Seq(X)
    BY <1>1, EmptySeq
  <2>2. F(k) = F(k) \o <<>>
    BY <2>1
  <2> QED
    BY <2>1, <2>2
<1>3. \A d \in Nat : d \in T => d + 1 \in T
  <2>0. SUFFICES ASSUME NEW d \in Nat, d \in T, k + (d + 1) <= N PROVE Goes(k + (d + 1))
    <3> HIDE DEF Goes
    <3> QED
      OBVIOUS
  <2>b. Goes(k + d)
    <3> HIDE DEF Goes
    <3> QED
      BY <2>0
  <2>1. PICK r \in Seq(X) : F(k + d) = F(k) \o r
    BY <2>b
  <2> DEFINE j == k + (d + 1)
  <2>2. j \in 1..N /\ j - 1 = k + d
    BY <2>0
  <2> HIDE DEF j, T
  <2>3. F(j) = (F(k) \o r) \o g[j] /\ g[j] \in Seq(X) /\ F(k) \in Seq(X)
    BY <1>1, <2>1, <2>2
  <2> DEFINE a == F(k)
             c == g[j]
  <2>c. a \in Seq(X) /\ r \in Seq(X) /\ c \in Seq(X)
    BY <2>3
  <2> HIDE DEF a, c
  <2>d. (a \o r) \o c = a \o (r \o c)
    BY <2>c, ConcatAssociative
  <2>e. r \o c \in Seq(X)
    BY <2>c, RowIn
  <2>4. (F(k) \o r) \o g[j] = F(k) \o (r \o g[j]) /\ r \o g[j] \in Seq(X)
    BY <2>d, <2>e DEF a, c
  <2> QED
    BY <2>3, <2>4 DEF j
<1>4. Nat \subseteq T
  BY <1>2, <1>3, NatInductionSet, Zenon
<1>5. ASSUME NEW n \in k..N PROVE Goes(n)
  <2>1. n - k \in Nat /\ k + (n - k) = n /\ n <= N
    OBVIOUS
  <2>2. n - k \in T
    BY <1>4, <2>1
  <2> HIDE DEF Goes
  <2> QED
    BY <2>1, <2>2
<1> QED
  BY <1>5 DEF F, RowsLead

-----------------------------------------------------------------------------
(* decode_chunked_body *)

\* One step of a decoder: it ends at the places of S, and elsewhere puts a piece before what it finds behind a jump.
DecodeStep(S, base, piece, jump, f, i) ==
  IF i \in S THEN base[i] ELSE [f[jump[i]] EXCEPT !.body = piece[i] \o @]

\* f decodes the places 1 to n + 1.
Decodes(f, n, S, base, piece, jump) ==
  f = [i \in 1..(n + 1) |-> DecodeStep(S, base, piece, jump, f, i)]

\* There is a function that decodes, since every jump goes ahead.
LEMMA DecodesExist ==
  ASSUME NEW n \in Nat, NEW S, NEW base, NEW piece, NEW jump,
         \A i \in 1..(n + 1) : i \notin S => jump[i] \in (i + 1)..(n + 1)
  PROVE  \E f : Decodes(f, n, S, base, piece, jump)
<1> DEFINE Solved == {m \in Nat : m <= n + 1 =>
                        \E f : f = [i \in (n + 2 - m)..(n + 1) |-> DecodeStep(S, base, piece, jump, f, i)]}
<1>1. 0 \in Solved
  <2> DEFINE g == [i \in (n + 2 - 0)..(n + 1) |-> <<>>]
  <2>1. g = [i \in (n + 2 - 0)..(n + 1) |-> DecodeStep(S, base, piece, jump, g, i)]
    OBVIOUS
  <2> QED
    BY <2>1
<1>2. \A m \in Nat : m \in Solved => m + 1 \in Solved
  <2>0. SUFFICES ASSUME NEW m \in Nat, m \in Solved, m + 1 <= n + 1
                 PROVE  \E f : f = [i \in (n + 2 - (m + 1))..(n + 1) |-> DecodeStep(S, base, piece, jump, f, i)]
    OBVIOUS
  <2>1. PICK f : f = [i \in (n + 2 - m)..(n + 1) |-> DecodeStep(S, base, piece, jump, f, i)]
    BY <2>0
  <2> DEFINE g == [i \in (n + 2 - (m + 1))..(n + 1) |->
                     IF i >= n + 2 - m THEN f[i] ELSE DecodeStep(S, base, piece, jump, f, i)]
  <2>2. \A i \in (n + 2 - (m + 1))..(n + 1) :
          i \in 1..(n + 1) /\ (i \notin S => jump[i] \in (n + 2 - m)..(n + 1) /\ g[jump[i]] = f[jump[i]])
    BY <2>0
  <2>3. \A i \in (n + 2 - (m + 1))..(n + 1) : DecodeStep(S, base, piece, jump, g, i) = DecodeStep(S, base, piece, jump, f, i)
    <3> SUFFICES ASSUME NEW i \in (n + 2 - (m + 1))..(n + 1)
                 PROVE  DecodeStep(S, base, piece, jump, g, i) = DecodeStep(S, base, piece, jump, f, i)
      OBVIOUS
    <3>1. i \notin S => g[jump[i]] = f[jump[i]]
      BY <2>2
    <3> HIDE DEF g
    <3> QED
      BY <3>1, Zenon DEF DecodeStep
  <2>4. \A i \in (n + 2 - (m + 1))..(n + 1) : g[i] = DecodeStep(S, base, piece, jump, g, i)
    BY <2>1, <2>3
  <2>5. g = [i \in (n + 2 - (m + 1))..(n + 1) |-> DecodeStep(S, base, piece, jump, g, i)]
    BY <2>4
  <2> QED
    BY <2>5
<1>3. Nat \subseteq Solved
  BY <1>1, <1>2, NatInductionSet, Zenon
<1>4. n + 1 \in Solved /\ n + 2 - (n + 1) = 1
  BY <1>3
<1>5. PICK f : f = [i \in 1..(n + 1) |-> DecodeStep(S, base, piece, jump, f, i)]
  BY <1>4
<1> QED
  BY <1>5 DEF Decodes

\* Where the size line at p ends, and what it says.
LineEnd(d, p) == Index(Drop(d, p - 1), CRLF)
SizeAt(d, p) == SizeOf(SubSeq(d, p, p + LineEnd(d, p) - 2))
DataAt(d, p) == p + LineEnd(d, p) + 1

\* Neither the end of the slice nor that of the chunks is found at p.
GoesOn(d, p) ==
  /\ p <= Len(d) + 1 /\ LineEnd(d, p) # 0 /\ SizeAt(d, p) # Absent /\ SizeAt(d, p) # 0
  /\ DataAt(d, p) + SizeAt(d, p) - 1 <= Len(d)

\* What is found at p where it does not go on.
StopsWith(d, p) ==
  IF p > Len(d) + 1 THEN Panic
  ELSE IF LineEnd(d, p) = 0 \/ SizeAt(d, p) = Absent THEN Failed
  ELSE IF SizeAt(d, p) = 0 THEN Decoded(<<>>)
  ELSE Failed

\* The size at p is a number, if there is a size line.
LEMMA SizeTyped ==
  ASSUME NEW d \in Bytes, NEW p \in 1..(Len(d) + 1), LineEnd(d, p) # 0, SizeAt(d, p) # Absent
  PROVE  /\ LineEnd(d, p) \in 1..(Len(d) - (p - 1)) /\ SizeAt(d, p) \in Nat
         /\ DataAt(d, p) = p + LineEnd(d, p) + 1 /\ DataAt(d, p) \in Int
<1> DEFINE n == Len(d)
           e == Drop(d, p - 1)
           i == Index(e, CRLF)
           l == SubSeq(d, p, p + i - 2)
           v == SizeOf(l)
<1>1. n \in Nat /\ p - 1 \in 0..n
  BY BytesLen
<1>2. e \in Bytes /\ Len(e) = n - (p - 1)
  BY <1>1, DropProps
<1> HIDE DEF e
<1>3. i \in 0..Len(e) /\ i # 0
  BY <1>2, Separators, IndexProps DEF LineEnd, e
<1>4. v = SizeAt(d, p) /\ v # Absent /\ DataAt(d, p) = p + i + 1 /\ LineEnd(d, p) = i
  BY DEF SizeAt, DataAt, LineEnd, e
<1> HIDE DEF i
<1>5. l \in Bytes
  <2>1. p + i - 2 \in (p - 1)..n
    BY <1>1, <1>2, <1>3
  <2> QED
    BY <2>1, CutProps
<1> HIDE DEF l
<1>6. v \in Nat
  <2>1. l # <<>> /\ Head(l) >= 0 /\ v = Head(l)
    BY <1>4 DEF SizeOf
  <2>2. l[1] \in Int
    BY <1>5, <2>1, BytesLen, RowEmpty
  <2>3. Head(l) = l[1]
    BY <1>5, <2>1 DEF Bytes
  <2> QED
    BY <2>1, <2>2, <2>3
<1>7. i \in 1..(n - (p - 1)) /\ p + i + 1 \in Int
  BY <1>1, <1>2, <1>3
<1> QED
  BY <1>4, <1>6, <1>7

\* The next size line comes behind this one.
LEMMA GoesOnAhead ==
  ASSUME NEW d \in Bytes, NEW p \in 1..(Len(d) + 3), GoesOn(d, p)
  PROVE  DataAt(d, p) + SizeAt(d, p) + 2 \in (p + 1)..(Len(d) + 3)
<1> DEFINE n == Len(d)
           i == LineEnd(d, p)
           v == SizeAt(d, p)
<1>1. n \in Nat /\ p \in 1..(n + 1) /\ DataAt(d, p) + v - 1 <= n /\ i # 0 /\ v # Absent
  BY BytesLen DEF GoesOn
<1>2. i \in 1..(n - (p - 1)) /\ v \in Nat /\ DataAt(d, p) = p + i + 1
  BY <1>1, SizeTyped
<1> HIDE DEF i, v, n
<1>3. p + i + 1 + v + 2 \in (p + 1)..(n + 3)
  BY <1>1, <1>2
<1> QED
  BY <1>2, <1>3 DEF n, v

\* DecodedFrom is a solution of its recursive definition.
LEMMA DecodedDef ==
  ASSUME NEW d \in Bytes, NEW p \in 1..(Len(d) + 3)
  PROVE  DecodedFrom(d)[p] =
           IF GoesOn(d, p)
           THEN [DecodedFrom(d)[DataAt(d, p) + SizeAt(d, p) + 2] EXCEPT
                   !.body = SubSeq(d, DataAt(d, p), DataAt(d, p) + SizeAt(d, p) - 1) \o @]
           ELSE StopsWith(d, p)
<1> DEFINE n == Len(d) + 2
           S == {q \in 1..(n + 1) : ~GoesOn(d, q)}
           base == [q \in 1..(n + 1) |-> StopsWith(d, q)]
           piece == [q \in 1..(n + 1) |-> SubSeq(d, DataAt(d, q), DataAt(d, q) + SizeAt(d, q) - 1)]
           jump == [q \in 1..(n + 1) |-> DataAt(d, q) + SizeAt(d, q) + 2]
           Piece(f, q) ==
             IF q > Len(d) + 1 THEN Panic
             ELSE IF LineEnd(d, q) = 0 \/ SizeAt(d, q) = Absent THEN Failed
             ELSE IF SizeAt(d, q) = 0 THEN Decoded(<<>>)
             ELSE IF DataAt(d, q) + SizeAt(d, q) - 1 > Len(d) THEN Failed
             ELSE [f[DataAt(d, q) + SizeAt(d, q) + 2] EXCEPT
                     !.body = SubSeq(d, DataAt(d, q), DataAt(d, q) + SizeAt(d, q) - 1) \o @]
           F == DecodedFrom(d)
<1>0. n \in Nat /\ n + 1 = Len(d) + 3 /\ Len(d) \in Nat
  BY BytesLen
<1>1. \A q \in 1..(n + 1) : q \notin S => jump[q] \in (q + 1)..(n + 1)
  <2> SUFFICES ASSUME NEW q \in 1..(n + 1), q \notin S PROVE jump[q] \in (q + 1)..(n + 1)
    OBVIOUS
  <2>1. GoesOn(d, q) /\ jump[q] = DataAt(d, q) + SizeAt(d, q) + 2 /\ q \in 1..(Len(d) + 3)
    BY <1>0
  <2> HIDE DEF n, S, jump
  <2> QED
    BY <1>0, <2>1, GoesOnAhead
<1>2. \A f : \A q \in 1..(n + 1) : Piece(f, q) = DecodeStep(S, base, piece, jump, f, q)
  <2> SUFFICES ASSUME NEW f, NEW q \in 1..(n + 1) PROVE Piece(f, q) = DecodeStep(S, base, piece, jump, f, q)
    BY Zenon
  <2> DEFINE more == [f[DataAt(d, q) + SizeAt(d, q) + 2] EXCEPT
                        !.body = SubSeq(d, DataAt(d, q), DataAt(d, q) + SizeAt(d, q) - 1) \o @]
             over == DataAt(d, q) + SizeAt(d, q) - 1 > Len(d)
  <2>1. q \in S <=> ~GoesOn(d, q)
    BY Zenon
  <2>2. base[q] = StopsWith(d, q) /\ jump[q] = DataAt(d, q) + SizeAt(d, q) + 2
        /\ piece[q] = SubSeq(d, DataAt(d, q), DataAt(d, q) + SizeAt(d, q) - 1)
    BY Zenon
  <2>3. DecodeStep(S, base, piece, jump, f, q) = IF GoesOn(d, q) THEN more ELSE StopsWith(d, q)
    BY <2>1, <2>2, Zenon DEF DecodeStep
  <2>4. Piece(f, q) = IF q > Len(d) + 1 THEN Panic
             ELSE IF LineEnd(d, q) = 0 \/ SizeAt(d, q) = Absent THEN Failed
             ELSE IF SizeAt(d, q) = 0 THEN Decoded(<<>>)
             ELSE IF over THEN Failed ELSE more
    BY Zenon
  <2>5. /\ ~(q > Len(d) + 1) <=> q <= Len(d) + 1
        /\ ~(q > Len(d) + 1) /\ LineEnd(d, q) # 0 /\ SizeAt(d, q) # Absent => (over <=> ~(DataAt(d, q) + SizeAt(d, q) - 1 <= Len(d)))
    <3>1. ~(q > Len(d) + 1) <=> q <= Len(d) + 1
      BY <1>0
    <3>2. ASSUME ~(q > Len(d) + 1), LineEnd(d, q) # 0, SizeAt(d, q) # Absent
          PROVE  DataAt(d, q) \in Int /\ SizeAt(d, q) \in Int
      BY <3>1, <3>2, <1>0, SizeTyped
    <3> QED
      BY <1>0, <3>1, <3>2
  <2> HIDE DEF Piece, more, over
  <2> QED
    BY <2>3, <2>4, <2>5 DEF GoesOn, StopsWith
<1> HIDE DEF Piece, S, base, piece, jump
<1>3. PICK f : Decodes(f, n, S, base, piece, jump)
  BY <1>0, <1>1, DecodesExist, Zenon
<1>4. f = [q \in 1..(n + 1) |-> Piece(f, q)]
  BY <1>2, <1>3 DEF Decodes
<1>a. 1..(n + 1) = 1..(Len(d) + 3)
  BY <1>0
<1>b. f = [q \in 1..(Len(d) + 3) |-> Piece(f, q)]
  BY <1>4, <1>a
<1>5. F = [q \in 1..(Len(d) + 3) |-> Piece(F, q)]
  BY <1>b, Zenon DEF DecodedFrom, Piece, LineEnd, SizeAt, DataAt
<1> HIDE DEF F
<1>6. F[p] = Piece(F, p)
  BY <1>5
<1>7. Piece(F, p) = DecodeStep(S, base, piece, jump, F, p) /\ p \in 1..(n + 1)
  BY <1>0, <1>2
<1>8. (p \in S <=> ~GoesOn(d, p)) /\ base[p] = StopsWith(d, p) /\ jump[p] = DataAt(d, p) + SizeAt(d, p) + 2
      /\ piece[p] = SubSeq(d, DataAt(d, p), DataAt(d, p) + SizeAt(d, p) - 1)
  BY <1>7, Zenon DEF S, base, jump, piece
<1> QED
  BY <1>6, <1>7, <1>8, Zenon DEF F, DecodeStep

\* What d is made of, up to the bytes behind the next size line and behind the next chunk.
SizedBehind(d, a, v, t) == d = a \o ((<<v>> \o CRLF) \o t)
ChunkBehind(d, a, c, t) == d = a \o (<<Len(c)>> \o (CRLF \o (c \o (CRLF \o t))))

Ended(d, a) == d = a \o (<<0>> \o (CRLF \o CRLF))

\* A size line behind a.
LEMMA SizeHere ==
  ASSUME NEW a \in Bytes, NEW v \in Nat, NEW t \in Bytes, NEW d, SizedBehind(d, a, v, t)
  PROVE  /\ d \in Bytes /\ Len(d) = Len(a) + 3 + Len(t)
         /\ LineEnd(d, Len(a) + 1) = 2 /\ SizeAt(d, Len(a) + 1) = v /\ DataAt(d, Len(a) + 1) = Len(a) + 4
<1> DEFINE l == <<v>> \o CRLF
           s == l \o t
           p == Len(a) + 1
<1>1. IsSizeLine(l, v) /\ l \in Bytes /\ Len(l) = 3
  BY SizeLineIs DEF IsSizeLine
<1> HIDE DEF l
<1>b. Len(t) \in Nat /\ Len(a) \in Nat
  BY BytesLen
<1>t. l \in Bytes
  BY <1>1
<1>r. l \o t \in Bytes /\ Len(l \o t) = Len(l) + Len(t)
  BY <1>t, RowProps
<1>2. s \in Bytes /\ Len(s) = 3 + Len(t) /\ Len(t) \in Nat /\ Len(a) \in Nat
  BY <1>1, <1>b, <1>r
<1>3. Meet(s, <<>>, l, t)
  BY <1>2, RowEmpty DEF Meet
<1> HIDE DEF s
<1>a. d = a \o s
  BY DEF s, l, SizedBehind
<1>4. d \in Bytes /\ Len(d) = Len(a) + 3 + Len(t)
  <2>1. a \o s \in Bytes /\ Len(a \o s) = Len(a) + Len(s)
    BY <1>2, RowProps
  <2>2. Len(a) + (3 + Len(t)) = Len(a) + 3 + Len(t)
    BY <1>2
  <2> QED
    BY <1>2, <1>a, <2>1, <2>2
<1>5. Index(s, CRLF) = 2 /\ SizeOf(Take(s, 1)) = v
  <2>1. <<>> \in Bytes
    BY RowEmpty
  <2> QED
    BY <1>1, <1>2, <1>3, <2>1, SizeFound
<1>6. Drop(d, Len(a)) = s
  BY <1>2, <1>a, TakeRow
<1>7. LineEnd(d, p) = 2
  <2>1. p - 1 = Len(a)
    BY <1>2
  <2> QED
    BY <1>5, <1>6, <2>1 DEF LineEnd
<1>8. SizeAt(d, p) = v
  <2>1. SubSeq(a \o s, Len(a) + 1, Len(a) + 1) = SubSeq(s, 1, 1)
    <3>1. 1 \in 1..(Len(s) + 1) /\ 1 \in (1 - 1)..Len(s)
      BY <1>2
    <3> QED
      BY <1>2, <3>1, CutRow
  <2>2. p + 2 - 2 = Len(a) + 1
    BY <1>2
  <2>3. SubSeq(d, p, p + LineEnd(d, p) - 2) = Take(s, 1)
    BY <1>7, <1>a, <2>1, <2>2 DEF Take
  <2> QED
    BY <1>5, <2>3 DEF SizeAt
<1>9. DataAt(d, p) = Len(a) + 4
  BY <1>2, <1>7 DEF DataAt
<1> QED
  BY <1>4, <1>7, <1>8, <1>9

\* The last chunk.
LEMMA DecodeLast ==
  ASSUME NEW a \in Bytes, NEW d, Ended(d, a)
  PROVE  DecodedFrom(d)[Len(a) + 1] = Decoded(<<>>)
<1>1. SizedBehind(d, a, 0, CRLF) /\ CRLF \in Bytes
  BY SizeLineIs, Separators DEF SizedBehind, Ended
<1>2. /\ d \in Bytes /\ Len(d) = Len(a) + 3 + Len(CRLF)
      /\ LineEnd(d, Len(a) + 1) = 2 /\ SizeAt(d, Len(a) + 1) = 0 /\ DataAt(d, Len(a) + 1) = Len(a) + 4
  BY <1>1, SizeHere
<1>3. Len(a) \in Nat /\ Len(CRLF) = 2
  BY BytesLen, Separators
<1> DEFINE p == Len(a) + 1
<1>4. p \in 1..(Len(d) + 3) /\ ~(p > Len(d) + 1)
  BY <1>2, <1>3
<1>5. ~GoesOn(d, p)
  BY <1>2 DEF GoesOn
<1>6. StopsWith(d, p) = Decoded(<<>>)
  BY <1>2, <1>4 DEF StopsWith, Absent
<1>7. DecodedFrom(d)[p] = StopsWith(d, p)
  <2> HIDE DEF p
  <2> QED
    BY <1>2, <1>4, <1>5, DecodedDef
<1> QED
  BY <1>6, <1>7

\* One chunk.
LEMMA DecodeOne ==
  ASSUME NEW a \in Bytes, NEW c \in Bytes, Len(c) # 0, NEW t \in Bytes, NEW b \in Bytes,
         NEW d, ChunkBehind(d, a, c, t),
         DecodedFrom(d)[Len(a) + Len(c) + 6] = Decoded(b)
  PROVE  DecodedFrom(d)[Len(a) + 1] = Decoded(c \o b)
<1> DEFINE v == Len(c)
           u == CRLF \o t
           w == c \o u
           l == <<v>> \o CRLF
           p == Len(a) + 1
<1>1. CRLF \in Bytes /\ Len(CRLF) = 2 /\ v \in Nat /\ v # 0 /\ Len(a) \in Nat /\ Len(t) \in Nat
  BY Separators, BytesLen
<1>t. CRLF \in Bytes
  BY <1>1
<1>r. CRLF \o t \in Bytes /\ Len(CRLF \o t) = Len(CRLF) + Len(t)
  BY <1>t, RowProps
<1>2. u \in Bytes /\ Len(u) = 2 + Len(t)
  BY <1>1, <1>r
<1> HIDE DEF u
<1>3. w \in Bytes /\ Len(w) = v + (2 + Len(t)) /\ Take(w, v) = c
  <2>0. u \in Bytes
    BY <1>2
  <2>a. c \o u \in Bytes /\ Len(c \o u) = Len(c) + Len(u)
    BY <2>0, RowProps
  <2>1. w \in Bytes /\ Len(w) = v + (2 + Len(t))
    BY <1>2, <2>a
  <2>2. Take(w, Len(c)) = c
    BY <1>2, TakeRow
  <2> QED
    BY <2>1, <2>2
<1>a. d = a \o (<<v>> \o (CRLF \o w))
  BY DEF w, u, ChunkBehind
<1> HIDE DEF w, v
<1>4. l \o w = <<v>> \o (CRLF \o w) /\ l \in Bytes /\ Len(l) = 3
  BY <1>1, <1>3, SizeLineIs DEF IsSizeLine
<1>5. d = a \o (l \o w) /\ SizedBehind(d, a, v, w)
  BY <1>a, <1>4 DEF SizedBehind
<1>6. /\ d \in Bytes /\ Len(d) = Len(a) + 3 + Len(w)
      /\ LineEnd(d, p) = 2 /\ SizeAt(d, p) = v /\ DataAt(d, p) = Len(a) + 4
  <2>1. SizedBehind(d, a, v, w) /\ v \in Nat /\ w \in Bytes
    BY <1>1, <1>3, <1>5
  <2> QED
    BY <2>1, SizeHere
<1> HIDE DEF l
<1>7. GoesOn(d, p) /\ p \in 1..(Len(d) + 3)
  BY <1>1, <1>3, <1>6 DEF GoesOn, Absent
<1>8. SubSeq(d, Len(a) + 4, Len(a) + 4 + v - 1) = c
  <2> DEFINE x == a \o l
  <2>0. l \in Bytes
    BY <1>4
  <2>w. w \in Bytes
    BY <1>3
  <2>a. a \o l \in Bytes /\ Len(a \o l) = Len(a) + Len(l)
    BY <2>0, RowProps
  <2>1. x \in Bytes /\ Len(x) = Len(a) + 3
    BY <1>4, <2>a
  <2>2. d = x \o w
    <3>1. (a \o l) \o w = a \o (l \o w)
      BY <2>0, <2>w, RowAssoc, SMTT(30)
    <3> QED
      BY <1>5, <3>1
  <2> HIDE DEF x
  <2>3. 1 \in 1..(Len(w) + 1) /\ v \in (1 - 1)..Len(w)
    BY <1>1, <1>3
  <2>4. SubSeq(x \o w, Len(x) + 1, Len(x) + v) = SubSeq(w, 1, v)
    BY <1>3, <2>1, <2>3, CutRow
  <2>5. Len(x) + 1 = Len(a) + 4 /\ Len(x) + v = Len(a) + 4 + v - 1
    BY <1>1, <2>1
  <2> QED
    BY <1>3, <2>2, <2>4, <2>5 DEF Take
<1>9. Len(a) + 4 + v + 2 = Len(a) + Len(c) + 6
  BY <1>1 DEF v
<1> DEFINE F == DecodedFrom(d)
<1>10. F[p] = [F[DataAt(d, p) + SizeAt(d, p) + 2] EXCEPT
                 !.body = SubSeq(d, DataAt(d, p), DataAt(d, p) + SizeAt(d, p) - 1) \o @]
  <2> HIDE DEF p
  <2> QED
    BY <1>6, <1>7, DecodedDef
<1> HIDE DEF p
<1>11. F[p] = [F[Len(a) + 4 + v + 2] EXCEPT !.body = SubSeq(d, Len(a) + 4, Len(a) + 4 + v - 1) \o @]
  BY <1>6, <1>10
<1>12. F[p] = [Decoded(b) EXCEPT !.body = c \o @]
  BY <1>8, <1>9, <1>11
<1>13. [Decoded(b) EXCEPT !.body = c \o @] = Decoded(c \o b)
  <2> DEFINE x == Decoded(b)
             y == c \o x.body
  <2>1. x.body = b /\ x = [res |-> "some", body |-> b]
    BY DEF Decoded
  <2>2. [x EXCEPT !.body = c \o @] = [x EXCEPT !.body = y]
    BY Zenon
  <2> HIDE DEF y
  <2>3. [x EXCEPT !.body = y] = [res |-> "some", body |-> y]
    BY <2>1
  <2> QED
    BY <2>1, <2>2, <2>3, Zenon DEF Decoded, y
<1> QED
  BY <1>12, <1>13 DEF p

\* decode_chunked_body gives the body of a message.
LEMMA BodyDecoded ==
  ASSUME NEW m, IsMessage(m), m.framing = "chunked"
  PROVE  DecodeChunkedBody(Payload(m)) = Decoded(Body(m))
<1> DEFINE d == Payload(m)
           n == Len(m.chunks)
           R(k) == ChunksLeft(m, k)
           B(k) == BodyLeft(m, k)
           A(k) == FlatTo(ChunkRows(m))[k]
           F == DecodedFrom(d)
           Good(k) == F[Len(A(k)) + 1] = Decoded(B(k))
           T == {j \in Nat : j <= n => Good(n - j)}
<1>1. /\ n \in Nat /\ R(0) = d /\ d \in Bytes
      /\ \A k \in 0..n : R(k) \in Bytes
      /\ \A k \in 1..n : /\ m.chunks[k] \in Bytes /\ Len(m.chunks[k]) \in Nat \ {0}
                         /\ R(k - 1) = <<Len(m.chunks[k])>> \o (CRLF \o (m.chunks[k] \o (CRLF \o R(k))))
      /\ R(n) = <<0>> \o (CRLF \o CRLF)
  BY ChunkRest
<1>2. /\ B(0) = Body(m) /\ B(n) = <<>>
      /\ \A k \in 0..n : B(k) \in Bytes
      /\ \A k \in 1..n : B(k - 1) = m.chunks[k] \o B(k)
  BY BodyRest
<1>3. /\ A(0) = <<>>
      /\ \A k \in 0..n : A(k) \in Bytes /\ A(k) \o R(k) = d
      /\ \A k \in 1..n : Len(A(k)) = Len(A(k - 1)) + Len(m.chunks[k]) + 5
  <2> DEFINE ss == ChunkRows(m)
  <2>0. m.chunks \in Seq(Bytes) /\ DOMAIN m.chunks = 1..n
    BY DEF IsMessage
  <2>1. \A k \in 1..n : Chunk(m.chunks[k]) \in Bytes /\ Len(Chunk(m.chunks[k])) = Len(m.chunks[k]) + 5
    BY <1>1, ChunkProps
  <2>2. ss \in Seq(Bytes) /\ Len(ss) = n /\ \A k \in 1..n : ss[k] = Chunk(m.chunks[k])
    BY <1>1, <2>0, <2>1 DEF ChunkRows
  <2> HIDE DEF ss, n
  <2>3. /\ FlatTo(ss)[0] = <<>>
        /\ \A k \in 0..Len(ss) : FlatTo(ss)[k] \in Bytes
        /\ \A k \in 1..Len(ss) : ss[k] \in Bytes /\ FlatTo(ss)[k] = FlatTo(ss)[k - 1] \o ss[k]
    BY <2>2, FlatProps
  <2>4. \A k \in 0..Len(ss) : FlatTo(ss)[k] \o RestOf(ss, LastChunk, k) = FlattenSeq(ss) \o LastChunk
    BY <2>2, Separators, RestProps
  <2>5. d = FlattenSeq(ss) \o LastChunk
    BY DEF Payload, ss, ChunkRows, IsMessage
  <2>6. \A k \in 0..n : A(k) \in Bytes /\ A(k) \o R(k) = d
    <3> HIDE DEF d
    <3> QED
      BY <2>2, <2>3, <2>4, <2>5 DEF ChunksLeft, ss
  <2>7. ASSUME NEW k \in 1..n PROVE Len(A(k)) = Len(A(k - 1)) + Len(m.chunks[k]) + 5
    <3> DEFINE x == A(k - 1)
               y == Chunk(m.chunks[k])
    <3>1. k - 1 \in 0..n
      BY <1>1
    <3>2. A(k) = x \o y /\ x \in Bytes /\ y \in Bytes /\ Len(y) = Len(m.chunks[k]) + 5
      BY <2>1, <2>2, <2>3, <2>6, <3>1 DEF ss
    <3> HIDE DEF x, y
    <3>t. x \in Bytes /\ y \in Bytes
      BY <3>2
    <3>r. Len(x \o y) = Len(x) + Len(y)
      BY <3>t, RowProps
    <3>a. Len(x \o y) = Len(x) + (Len(m.chunks[k]) + 5)
      BY <3>2, <3>r
    <3>3. Len(A(k)) = Len(x) + (Len(m.chunks[k]) + 5) /\ Len(x) \in Nat
      BY <3>2, <3>a, BytesLen
    <3>4. Len(m.chunks[k]) \in Nat
      BY <1>1
    <3> HIDE DEF A
    <3>5. Len(A(k)) = Len(x) + Len(m.chunks[k]) + 5
      BY <3>3, <3>4
    <3> QED
      BY <3>5 DEF x
  <2> QED
    BY <2>3, <2>6, <2>7 DEF ss
<1> HIDE DEF n, R, B, A, F, d
<1>4. Good(n)
  <2>0. n \in 0..n
    BY <1>1
  <2>1. A(n) \in Bytes /\ Ended(d, A(n))
    BY <1>1, <1>3, <2>0, Zenon DEF Ended
  <2> QED
    BY <1>2, <2>1, DecodeLast DEF F
<1>5. ASSUME NEW k \in 1..n, Good(k) PROVE Good(k - 1)
  <2> DEFINE a == A(k - 1)
             c == m.chunks[k]
  <2>1. k \in 0..n /\ k - 1 \in 0..n
    BY <1>1
  <2>2. a \in Bytes /\ c \in Bytes /\ Len(c) \in Nat /\ Len(c) # 0 /\ R(k) \in Bytes /\ B(k) \in Bytes
    BY <1>1, <1>2, <1>3, <2>1
  <2>3. ChunkBehind(d, a, c, R(k))
    BY <1>1, <1>3, <2>1, Zenon DEF ChunkBehind
  <2>4. Len(A(k)) + 1 = Len(a) + Len(c) + 6
    <3>1. Len(A(k)) = Len(a) + Len(c) + 5 /\ Len(a) \in Nat
      BY <1>3, <2>2, BytesLen
    <3> QED
      BY <2>2, <3>1
  <2>5. DecodedFrom(d)[Len(a) + Len(c) + 6] = Decoded(B(k))
    BY <1>5, <2>4 DEF F
  <2>6. B(k - 1) = c \o B(k)
    BY <1>2
  <2> HIDE DEF a, c
  <2>7. DecodedFrom(d)[Len(a) + 1] = Decoded(c \o B(k))
    BY <2>2, <2>3, <2>5, DecodeOne
  <2> QED
    BY <2>6, <2>7 DEF F, a
<1> HIDE DEF Good
<1>6. 0 \in T
  <2>1. n - 0 = n
    BY <1>1
  <2> QED
    BY <1>4, <2>1
<1>7. \A j \in Nat : j \in T => j + 1 \in T
  <2>1. SUFFICES ASSUME NEW j \in Nat, j \in T, j + 1 <= n PROVE Good(n - (j + 1))
    OBVIOUS
  <2> DEFINE k == n - j
  <2>2. k \in 1..n /\ Good(k) /\ k - 1 = n - (j + 1)
    BY <1>1, <2>1
  <2> HIDE DEF k
  <2>3. Good(k - 1)
    BY <1>5, <2>2
  <2> QED
    BY <2>2, <2>3
<1>8. Nat \subseteq T
  BY <1>6, <1>7, NatInductionSet, Zenon
<1>9. Good(0)
  <2>1. n \in T /\ n - n = 0 /\ n <= n
    BY <1>1, <1>8
  <2> QED
    BY <2>1
<1>10. F[1] = Decoded(Body(m))
  <2>1. Len(A(0)) + 1 = 1
    BY <1>3
  <2> QED
    BY <1>2, <1>9, <2>1 DEF Good
<1> QED
  BY <1>10 DEF F, d, DecodeChunkedBody

-----------------------------------------------------------------------------
(* Where a chunked body ends *)

\* A run that begins with the last chunk begins with its size.
LEMMA LastChunkFirst ==
  ASSUME NEW r \in Bytes, IsPrefix(LastChunk, r)
  PROVE  Len(r) >= 5 /\ r[1] = 0
<1>1. LastChunk \in Bytes /\ Len(LastChunk) = 5 /\ LastChunk[1] = 0 /\ Len(r) \in Nat
  BY Separators, BytesLen
<1>2. Len(LastChunk) <= Len(r) /\ Take(LastChunk, Len(LastChunk)) = Take(r, Len(LastChunk))
  BY DEF IsPrefix, Take
<1>3. Take(LastChunk, 5) = Take(r, 5) /\ 5 \in 0..Len(r) /\ 5 \in 0..Len(LastChunk)
  BY <1>1, <1>2
<1>4. \A q \in 1..5 : Take(r, 5)[q] = r[q]
  BY <1>3, TakeProps
<1>5. \A q \in 1..5 : Take(LastChunk, 5)[q] = LastChunk[q]
  BY <1>1, <1>3, TakeProps
<1>6. 1 \in 1..5
  OBVIOUS
<1> QED
  BY <1>1, <1>2, <1>3, <1>4, <1>5, <1>6

\* Nothing but the last chunk: it is found when all of it is there.
LEMMA EmptyBodyEnds ==
  ASSUME NEW r \in Bytes, NEW w \in Bytes, r \o w = LastChunk
  PROVE  FindChunkedBodyEnd(r) = IF Len(r) >= 5 THEN 5 ELSE 0
<1> DEFINE E == CRLF \o LastChunk
           i == Index(r, E)
           first == IsPrefix(LastChunk, r)
<1>1. LastChunk \in Bytes /\ Len(LastChunk) = 5
  BY Separators
<1>2. E \in Bytes /\ Len(E) = 7 /\ E # <<>>
  BY LastChunkEnd
<1>3. Len(r \o w) = Len(r) + Len(w) /\ Len(r) \in Nat /\ Len(w) \in Nat
  BY RowProps, BytesLen
<1>4. 5 = Len(r) + Len(w)
  BY <1>1, <1>3
<1>5. i \in 0..Len(r) /\ (i # 0 => i + 7 - 1 <= Len(r))
  <2> HIDE DEF E
  <2>1. i # 0 => i + Len(E) - 1 <= Len(r)
    BY <1>2, IndexMore
  <2>2. i \in 0..Len(r)
    BY <1>2, IndexProps
  <2> QED
    BY <1>2, <2>1, <2>2
<1>6. first => Len(r) >= 5
  BY LastChunkFirst
<1>7. Len(r) >= 5 => first
  <2>1. SUFFICES ASSUME Len(r) >= 5 PROVE first
    OBVIOUS
  <2>2. Len(w) = 0
    BY <1>3, <1>4, <2>1
  <2>3. r = LastChunk
    BY <2>2, RowEmpty
  <2> QED
    BY <1>1, <2>3, PrefixOf
<1>8. FindChunkedBodyEnd(r) = IF i > 0 THEN i + 6 ELSE IF first THEN 5 ELSE 0
  BY DEF FindChunkedBodyEnd
<1> HIDE DEF i, first
<1>9. i = 0
  BY <1>3, <1>4, <1>5
<1> QED
  BY <1>6, <1>7, <1>8, <1>9

\* The end of a chunked body is found when all of it has been read, and not
\* before, whatever comes behind a body that has chunks.
LEMMA BodyEnds ==
  ASSUME NEW m, IsMessage(m), m.framing = "chunked", LastChunkApart(m),
         NEW r \in Bytes, NEW w \in Bytes, NEW x \in Bytes, Meet(r, w, Payload(m), x),
         Len(m.chunks) # 0 \/ x = <<>>
  PROVE  FindChunkedBodyEnd(r) = IF Len(r) >= Len(Payload(m)) THEN Len(Payload(m)) ELSE 0
<1> DEFINE P == Payload(m)
           n == Len(m.chunks)
           E == CRLF \o LastChunk
           i == Index(r, E)
           j == Index(P, E)
           first == IsPrefix(LastChunk, r)
<1>1. P \in Bytes
  BY MessageProps
<1>2. E \in Bytes /\ Len(E) = 7 /\ E # <<>>
  BY LastChunkEnd
<1>3. /\ n = 0 => P = LastChunk
      /\ n # 0 => Ending(P, E) /\ P[1] # 0
  BY PayloadEnds
<1>4. LastChunk \in Bytes /\ Len(LastChunk) = 5
  BY Separators
<1>5. CASE n = 0
  <2>1. P = LastChunk /\ x = <<>>
    BY <1>3, <1>5
  <2>2. P \o x = P
    BY <1>1, <2>1, RowEmpty
  <2>3. r \o w = LastChunk
    BY <2>1, <2>2 DEF Meet
  <2> QED
    BY <1>4, <2>1, <2>3, EmptyBodyEnds
<1>6. CASE n # 0
  <2>1. j # 0
    <3> HIDE DEF E, P
    <3> QED
      BY <1>1, <1>2, <1>3, <1>6, EndingFound
  <2>2. j = Len(P) - 6
    BY <2>1 DEF LastChunkApart
  <2>3. Index(P \o x, E) = j
    <3> HIDE DEF E, P
    <3> QED
      BY <1>1, <1>2, <2>1, IndexMore
  <2>4. /\ i # 0 => Index(r \o w, E) = i
        /\ Index(r \o w, E) # 0 /\ Index(r \o w, E) + Len(E) - 1 <= Len(r) => i = Index(r \o w, E)
        /\ i # 0 => i + Len(E) - 1 <= Len(r)
    <3> HIDE DEF E
    <3> QED
      BY <1>2, IndexMore
  <2>5. Index(r \o w, E) = j
    BY <2>3 DEF Meet
  <2>6. Len(r) \in Nat /\ Len(P) \in Nat
    BY <1>1, BytesLen
  <2>7. i \in 0..Len(r) /\ (i # 0 => j = i) /\ (j # 0 /\ j + 7 - 1 <= Len(r) => i = j) /\ (i # 0 => i + 7 - 1 <= Len(r))
    <3> HIDE DEF E
    <3>1. i \in 0..Len(r)
      BY <1>2, IndexProps
    <3> HIDE DEF i, j
    <3> QED
      BY <1>2, <2>4, <2>5, <3>1
  <2>8. ~first
    <3>1. SUFFICES ASSUME first PROVE FALSE
      OBVIOUS
    <3>2. Len(r) >= 5 /\ r[1] = 0
      BY <3>1, LastChunkFirst
    <3>3. 1 \in 1..Len(r) /\ 1 \in 1..Len(P)
      <4>1. Len(P) >= 1
        <5>1. j \in 0..Len(P)
          <6> HIDE DEF E, P
          <6> QED
            BY <1>1, <1>2, IndexProps
        <5> HIDE DEF j, P
        <5> QED
          BY <2>1, <2>6, <5>1
      <4> QED
        BY <2>6, <3>2, <4>1
    <3>4. \A q \in 1..Len(r) : (r \o w)[q] = r[q]
      BY RowProps
    <3>5. \A q \in 1..Len(P) : (P \o x)[q] = P[q]
      BY <1>1, RowProps
    <3>6. r[1] = P[1]
      <4>1. r \o w = P \o x
        BY DEF Meet
      <4>2. (r \o w)[1] = r[1] /\ (P \o x)[1] = P[1]
        BY <3>3, <3>4, <3>5
      <4> QED
        BY <4>1, <4>2
    <3> QED
      BY <1>3, <1>6, <3>2, <3>6
  <2>9. FindChunkedBodyEnd(r) = IF i > 0 THEN i + 6 ELSE IF first THEN 5 ELSE 0
    BY DEF FindChunkedBodyEnd
  <2> DEFINE a == Len(r)
             b == Len(P)
  <2> HIDE DEF i, j, first, a, b
  <2>10. a \in Nat /\ b \in Nat /\ j = b - 6 /\ j # 0 /\ i \in 0..a
         /\ (i # 0 => j = i) /\ (j # 0 /\ j + 7 - 1 <= a => i = j) /\ (i # 0 => i + 7 - 1 <= a)
    BY <2>1, <2>2, <2>6, <2>7 DEF a, b
  <2>11. a >= b => i > 0 /\ i + 6 = b
    BY <2>10
  <2>12. ~(a >= b) => ~(i > 0)
    BY <2>10
  <2> QED
    BY <2>8, <2>9, <2>11, <2>12 DEF a, b
<1> QED
  BY <1>5, <1>6

-----------------------------------------------------------------------------
(* The header of a request, and the one that is sent on *)

\* The header of a message is found as soon as it is there, whatever comes behind it.
LEMMA HeaderComes ==
  ASSUME NEW m, IsMessage(m), NEW r \in Bytes, NEW w \in Bytes, NEW t \in Bytes,
         Meet(r, w, Header(HeaderLines(m)), t)
  PROVE  LET h == Header(HeaderLines(m))
         IN /\ FindHeaderEnd(r) = IF Len(r) >= Len(h) THEN Len(h) ELSE 0
            /\ Len(r) >= Len(h) => /\ Take(r, Len(h)) = h /\ r = h \o Drop(r, Len(h)) /\ Drop(r, Len(h)) \in Bytes
                                   /\ Drop(r, Len(h)) \o w = t /\ Len(Drop(r, Len(h))) = Len(r) - Len(h)
<1> DEFINE ls == HeaderLines(m)
           h == Header(ls)
           e == FindHeaderEnd(r)
           i == Index(r, Blank)
           j == Index(h \o t, Blank)
<1>1. AreLines(ls)
  <2>1. Body(m) \in Bytes /\ m.sse \in BOOLEAN /\ m.framing \in {"length", "chunked", "none"}
    BY BodyRest DEF IsMessage
  <2> QED
    BY <2>1, HeaderParsed
<1> HIDE DEF ls
<1>2. h \in Bytes /\ Len(h) >= 4 /\ j = Len(h) - 3
  BY <1>1, HeaderEnd
<1>3. Blank \in Bytes /\ Blank # <<>> /\ Len(Blank) = 4
  BY Separators
<1>4. Meet(r, w, h, t) /\ r \o w = h \o t
  BY DEF ls, Meet
<1> HIDE DEF h
<1>5. /\ i # 0 => Index(r \o w, Blank) = i
      /\ Index(r \o w, Blank) # 0 /\ Index(r \o w, Blank) + Len(Blank) - 1 <= Len(r) => i = Index(r \o w, Blank)
      /\ i # 0 => i + Len(Blank) - 1 <= Len(r)
  BY <1>3, IndexMore
<1>6. Index(r \o w, Blank) = j
  BY <1>4
<1>7. e = IF i = 0 THEN 0 ELSE i + 3
  BY DEF FindHeaderEnd
<1> DEFINE p == Len(h)
           q == Len(r)
<1>8. p \in Nat /\ q \in Nat /\ p >= 4 /\ j = p - 3
  BY <1>2, BytesLen
<1>a. (i # 0 => j = i) /\ (j # 0 /\ j + 4 - 1 <= q => i = j) /\ (i # 0 => i + 4 - 1 <= q)
  <2> HIDE DEF i, j
  <2> QED
    BY <1>3, <1>5, <1>6
<1>b. ASSUME Len(r) >= Len(h)
      PROVE  /\ Take(r, Len(h)) = h /\ r = h \o Drop(r, Len(h)) /\ Drop(r, Len(h)) \in Bytes
             /\ Drop(r, Len(h)) \o w = t /\ Len(Drop(r, Len(h))) = Len(r) - Len(h)
  <2>1. Meet(r, w, h, t) /\ h \in Bytes
    BY <1>2, <1>4
  <2>2. Len(h) <= Len(r)
    BY <1>8, <1>b
  <2> QED
    BY <2>1, <2>2, Divide
<1> HIDE DEF p, q, i, j, e
<1>9. e = IF q >= p THEN p ELSE 0
  BY <1>7, <1>8, <1>a
<1> QED
  BY <1>9, <1>b DEF e, p, q, h, ls

\* Only the first element is picked.
LEMMA PickedFirst ==
  ASSUME NEW X, NEW seq \in Seq(X), NEW I, Len(seq) # 0, \A i \in 1..Len(seq) : i \in I <=> i = 1
  PROVE  Picked(seq, I) = <<seq[1]>>
<1> DEFINE f == PickedTo(seq, I)
           n == Len(seq)
           T == {j \in Nat : j + 1 <= n => f[j + 1] = <<seq[1]>>}
<1>1. f[0] = <<>> /\ Picks(f, seq, I)
  BY PickedToStep
<1>2. n \in Nat /\ n # 0 /\ Picked(seq, I) = f[n]
  BY DEF Picked
<1> HIDE DEF f
<1>3. \A k \in 1..n : f[k] = IF k \in I THEN Append(f[k - 1], seq[k]) ELSE f[k - 1]
  BY <1>1, <1>2 DEF Picks
<1>4. 0 \in T
  <2>1. 1 \in 1..n /\ 1 \in I /\ 1 - 1 = 0
    BY <1>2
  <2>2. f[1] = Append(f[1 - 1], seq[1])
    BY <1>3, <2>1
  <2>3. f[1] = <<seq[1]>>
    <3> DEFINE x == seq[1]
    <3>1. Append(<<>>, x) = <<x>>
      <4> HIDE DEF x
      <4> QED
        OBVIOUS
    <3>2. f[1] = Append(<<>>, x)
      BY <1>1, <2>1, <2>2, Zenon
    <3> QED
      BY <3>1, <3>2, Zenon
  <2> QED
    BY <2>3
<1>5. \A j \in Nat : j \in T => j + 1 \in T
  <2>1. SUFFICES ASSUME NEW j \in Nat, j \in T, j + 1 + 1 <= n PROVE f[j + 1 + 1] = <<seq[1]>>
    OBVIOUS
  <2> DEFINE k == j + 1 + 1
  <2>2. k \in 1..n /\ k # 1 /\ k - 1 = j + 1 /\ f[j + 1] = <<seq[1]>>
    BY <1>2, <2>1
  <2> HIDE DEF k, T
  <2>3. k \notin I
    BY <2>2
  <2>4. f[k] = f[k - 1]
    BY <1>3, <2>2, <2>3
  <2>5. f[k] = <<seq[1]>>
    BY <2>2, <2>4
  <2> QED
    BY <2>5 DEF k
<1>6. Nat \subseteq T
  BY <1>4, <1>5, NatInductionSet, Zenon
<1>7. n - 1 \in T /\ n - 1 + 1 = n
  BY <1>2, <1>6
<1> HIDE DEF n
<1>8. f[n] = <<seq[1]>>
  BY <1>2, <1>7
<1> QED
  BY <1>2, <1>8

\* The header that is sent on for a request: its body has the length b.
NewHead(b) == <<LINE>> \o CRLF \o <<CL, Len(b)>> \o CRLF \o <<IDENTITY>> \o Blank

\* rebuild_request_with_content_length keeps the line of no interest.
LEMMA RebuiltIs ==
  ASSUME NEW m, IsMessage(m), ~m.sse, NEW b
  PROVE  Rebuilt(Header(HeaderLines(m)), b) = NewHead(b) \o b
<1> DEFINE ls == HeaderLines(m)
           h == Header(ls)
           L == Lines(h)
           I == {i \in DOMAIN L : L[i] # <<>> /\ Head(L[i]) \notin {TE, CL, AE}}
           kept == Picked(L, I)
           f == Field(m)
<1>1. Body(m) \in Bytes /\ m.sse \in BOOLEAN /\ m.framing \in {"length", "chunked", "none"}
  BY BodyRest DEF IsMessage
<1>2. AreLines(ls)
  BY <1>1, HeaderParsed
<1>3. ls = IF m.framing = "none" THEN <<<<LINE>>, <<AE>>>> ELSE <<<<LINE>>, <<AE>>, f>>
  BY <1>1, HeaderLinesOf
<1>4. f # <<>> /\ Head(f) \in {TE, CL} /\ <<LINE>> # <<>> /\ <<AE>> # <<>> /\ Head(<<LINE>>) = LINE /\ Head(<<AE>>) = AE
  <2>1. Len(Body(m)) \in Nat
    BY <1>1, BytesLen
  <2> QED
    BY <2>1 DEF Field
<1> HIDE DEF f
<1>5. /\ Len(ls) \in {2, 3} /\ ls[1] = <<LINE>> /\ ls[2] = <<AE>> /\ (Len(ls) = 3 => ls[3] = f)
  <2>1. CASE m.framing = "none"
    BY <1>3, <2>1
  <2>2. CASE m.framing # "none"
    BY <1>3, <2>2
  <2> QED
    BY <2>1, <2>2
<1> HIDE DEF ls
<1>6. /\ L \in Seq(Bytes) /\ Len(L) = Len(ls) + 2
      /\ \A i \in 1..Len(ls) : L[i] = ls[i]
      /\ L[Len(ls) + 1] = <<>> /\ L[Len(ls) + 2] = <<>>
  BY <1>2, HeaderLinesAre
<1> HIDE DEF L
<1>7. Len(L) # 0 /\ DOMAIN L = 1..Len(L) /\ L[1] = <<LINE>>
  BY <1>5, <1>6
<1>8. \A i \in 1..Len(L) : i \in I <=> i = 1
  <2> SUFFICES ASSUME NEW i \in 1..Len(L) PROVE i \in I <=> i = 1
    OBVIOUS
  <2>1. i \in I <=> L[i] # <<>> /\ Head(L[i]) \notin {TE, CL, AE}
    BY <1>7
  <2> HIDE DEF I
  <2>2. i = 1 \/ i = 2 \/ (i = 3 /\ Len(ls) = 3) \/ i = Len(ls) + 1 \/ i = Len(ls) + 2
    BY <1>5, <1>6
  <2>3. CASE i = 1
    <3>1. L[i] # <<>> /\ Head(L[i]) = LINE
      BY <1>4, <1>7, <2>3
    <3> QED
      BY <2>1, <2>3, <3>1 DEF LINE, TE, CL, AE
  <2>4. CASE i = 2
    <3>1. Head(L[i]) = AE
      <4>1. 2 \in 1..Len(ls)
        BY <1>5
      <4>2. L[i] = <<AE>>
        BY <1>5, <1>6, <2>4, <4>1
      <4> QED
        BY <1>4, <4>2
    <3> QED
      BY <2>1, <2>4, <3>1
  <2>5. CASE i = 3 /\ Len(ls) = 3
    <3>1. L[i] = f
      <4>1. 3 \in 1..Len(ls)
        BY <2>5
      <4> QED
        BY <1>5, <1>6, <2>5, <4>1
    <3>2. Head(L[i]) \in {TE, CL, AE}
      BY <1>4, <3>1
    <3> QED
      BY <2>1, <2>5, <3>2
  <2>6. CASE i = Len(ls) + 1 \/ i = Len(ls) + 2
    <3>1. L[i] = <<>> /\ i # 1
      BY <1>5, <1>6, <2>6
    <3> QED
      BY <2>1, <3>1
  <2> QED
    BY <2>2, <2>3, <2>4, <2>5, <2>6
<1> HIDE DEF I
<1>9. kept = <<<<LINE>>>>
  <2>1. Picked(L, I) = <<L[1]>>
    BY <1>6, <1>7, <1>8, PickedFirst
  <2> QED
    BY <1>7, <2>1
<1>10. Rebuilt(h, b) = FlattenSeq([i \in DOMAIN kept |-> kept[i] \o CRLF])
                       \o <<CL, Len(b)>> \o CRLF \o <<IDENTITY>> \o Blank \o b
  BY Zenon DEF Rebuilt, kept, I, L
<1> HIDE DEF kept, h
<1>11. FlattenSeq([i \in DOMAIN kept |-> kept[i] \o CRLF]) = <<LINE>> \o CRLF
  <2> DEFINE x == <<LINE>> \o CRLF
  <2>0. DOMAIN kept = 1..1 /\ kept[1] = <<LINE>>
    BY <1>9
  <2>1. [i \in DOMAIN kept |-> kept[i] \o CRLF] = [i \in 1..1 |-> x]
    <3>1. \A i \in 1..1 : kept[i] \o CRLF = x
      <4>1. \A i \in 1..1 : i = 1
        OBVIOUS
      <4> QED
        BY <2>0, <4>1, Zenon
    <3> HIDE DEF x
    <3> QED
      BY <2>0, <3>1
  <2> HIDE DEF x
  <2>2. FlattenSeq([i \in 1..1 |-> x]) = x
    BY FlattenOne
  <2> QED
    BY <2>1, <2>2 DEF x
<1> QED
  BY <1>10, <1>11, Zenon DEF NewHead, h, ls

-----------------------------------------------------------------------------
(* The requests of a script in a row *)

\* What comes behind the first k of n rows of bytes.
RestRows(g, k, n) == Drop(FirstRows(g, n), Len(FirstRows(g, k)))

\* N rows of bytes.
AreRows(g, N) == N \in Nat /\ \A i \in 1..N : g[i] \in Bytes

\* Only r comes behind the first k of n rows.
RestIs(g, k, n) == \A r \in Bytes : FirstRows(g, n) = FirstRows(g, k) \o r => RestRows(g, k, n) = r

\* The first k rows and what comes behind them.
LEMMA RestRowsIn ==
  ASSUME NEW N, NEW g, AreRows(g, N), NEW k \in 0..N, NEW n \in k..N
  PROVE  /\ FirstRows(g, k) \in Bytes /\ RestRows(g, k, n) \in Bytes
         /\ FirstRows(g, n) = FirstRows(g, k) \o RestRows(g, k, n)
         /\ RestIs(g, k, n)
<1> DEFINE a == FirstRows(g, k)
           b == FirstRows(g, n)
           c == RestRows(g, k, n)
<1>1. N \in Nat /\ \A i \in 1..N : g[i] \in Seq(Int)
  BY DEF AreRows, Bytes
<1>2. a \in Bytes
  <2>1. \A q \in 0..N : FirstRows(g, q) \in Seq(Int)
    BY <1>1, FirstRowsProps
  <2> QED
    BY <2>1 DEF Bytes
<1>3. \E r \in Bytes : b = a \o r
  <2> DEFINE X == Int
  <2>1. \A i \in 1..N : g[i] \in Seq(X)
    BY <1>1
  <2>2. N \in Nat
    BY <1>1
  <2>3. Bytes = Seq(X)
    BY DEF Bytes
  <2> HIDE DEF X
  <2>4. RowsLead(X, g, k, n)
    BY <2>1, <2>2, FirstRowsRest
  <2> QED
    BY <2>3, <2>4 DEF RowsLead
<1>4. c = Drop(b, Len(a))
  BY DEF RestRows
<1> HIDE DEF a, b, c
<1>5. ASSUME NEW r \in Bytes, b = a \o r PROVE c = r
  <2>1. Drop(a \o r, Len(a)) = r
    BY <1>2, TakeRow
  <2> QED
    BY <1>4, <1>5, <2>1
<1>6. c \in Bytes /\ b = a \o c
  BY <1>3, <1>5
<1> QED
  BY <1>2, <1>5, <1>6 DEF a, b, c, RestIs

\* Nothing comes behind all of them.
LEMMA RestRowsNone ==
  ASSUME NEW N, NEW g, AreRows(g, N), NEW k \in 0..N
  PROVE  RestRows(g, k, k) = <<>>
<1>1. k \in k..N
  BY DEF AreRows
<1>2. FirstRows(g, k) \in Bytes /\ RestIs(g, k, k)
  BY <1>1, RestRowsIn
<1>3. <<>> \in Bytes /\ FirstRows(g, k) \o <<>> = FirstRows(g, k)
  BY <1>2, RowEmpty
<1> QED
  BY <1>2, <1>3 DEF RestIs

\* The next row comes first.
LEMMA RestRowsFirst ==
  ASSUME NEW N, NEW g, AreRows(g, N), NEW k \in 0..N, NEW n \in k..N, k # n
  PROVE  RestRows(g, k, n) = g[k + 1] \o RestRows(g, k + 1, n) /\ g[k + 1] \in Bytes /\ RestRows(g, k + 1, n) \in Bytes
<1> DEFINE j == k + 1
           a == FirstRows(g, k)
           e == g[j]
           c == RestRows(g, j, n)
<1>1. N \in Nat /\ j \in 1..N /\ j \in 0..N /\ n \in j..N /\ j - 1 = k
  BY DEF AreRows
<1> HIDE DEF j
<1>2. a \in Bytes /\ RestIs(g, k, n)
  BY RestRowsIn
<1>3. c \in Bytes /\ FirstRows(g, n) = FirstRows(g, j) \o c
  BY <1>1, RestRowsIn
<1>4. FirstRows(g, j) = a \o e /\ e \in Bytes
  <2>1. N \in Nat /\ \A i \in 1..N : g[i] \in Seq(Int)
    BY DEF AreRows, Bytes
  <2>2. \A q \in 1..N : FirstRows(g, q) = FirstRows(g, q - 1) \o g[q]
    BY <2>1, FirstRowsProps, ZenonT(60)
  <2> QED
    BY <1>1, <2>1, <2>2 DEF Bytes
<1> HIDE DEF a, e, c
<1>t. a \in Bytes /\ e \in Bytes /\ c \in Bytes
  BY <1>2, <1>3, <1>4
<1>5. (a \o e) \o c = a \o (e \o c)
  BY <1>t, RowAssoc
<1>6. e \o c \in Bytes
  BY <1>t, RowProps
<1>7. FirstRows(g, n) = a \o (e \o c)
  BY <1>3, <1>4, <1>5
<1>8. RestRows(g, k, n) = e \o c
  BY <1>2, <1>6, <1>7 DEF RestIs, a
<1> QED
  BY <1>8, <1>t DEF e, c, j

\* One row more at the end.
LEMMA RestRowsMore ==
  ASSUME NEW N, NEW g, AreRows(g, N), NEW k \in 0..N, NEW n \in k..N, n # N
  PROVE  RestRows(g, k, n + 1) = RestRows(g, k, n) \o g[n + 1] /\ g[n + 1] \in Bytes
<1> DEFINE j == n + 1
           a == FirstRows(g, k)
           e == g[j]
           c == RestRows(g, k, n)
<1>1. N \in Nat /\ j \in 1..N /\ j \in k..N /\ j - 1 = n
  BY DEF AreRows
<1> HIDE DEF j
<1>j. j \in k..N
  BY <1>1
<1>2. a \in Bytes /\ RestIs(g, k, j)
  BY <1>j, RestRowsIn
<1>3. c \in Bytes /\ FirstRows(g, n) = a \o c
  BY RestRowsIn
<1>4. FirstRows(g, j) = FirstRows(g, n) \o e /\ e \in Bytes
  <2>1. N \in Nat /\ \A i \in 1..N : g[i] \in Seq(Int)
    BY DEF AreRows, Bytes
  <2>2. \A q \in 1..N : FirstRows(g, q) = FirstRows(g, q - 1) \o g[q]
    BY <2>1, FirstRowsProps, ZenonT(60)
  <2> QED
    BY <1>1, <2>1, <2>2 DEF Bytes
<1> HIDE DEF a, e, c
<1>t. a \in Bytes /\ e \in Bytes /\ c \in Bytes
  BY <1>2, <1>3, <1>4
<1>5. (a \o c) \o e = a \o (c \o e)
  BY <1>t, RowAssoc
<1>6. c \o e \in Bytes
  BY <1>t, RowProps
<1>7. FirstRows(g, j) = a \o (c \o e)
  BY <1>3, <1>4, <1>5
<1>8. RestRows(g, k, j) = c \o e
  BY <1>2, <1>6, <1>7 DEF RestIs, a
<1> QED
  BY <1>8, <1>t DEF e, c, j

\* What has to reach the upstream, and what has to be logged, for the request m.
DueOf(md, m) ==
  IF md = "pii" THEN NewHead(Masked(Body(m))) \o Masked(Body(m))
  ELSE IF m.framing = "chunked" THEN NewHead(Body(m)) \o Body(m) ELSE Encoded(m)
BodiesOf(m) == IF Body(m) = <<>> THEN <<>> ELSE <<Body(m)>>

EncRows(reqs) == [i \in 1..Len(reqs) |-> Encoded(reqs[i])]
DueRows(md, reqs) == [i \in 1..Len(reqs) |-> DueOf(md, reqs[i])]
ToldRows(reqs) == [i \in 1..Len(reqs) |-> BodiesOf(reqs[i])]

\* A masked body is a run of bytes.
LEMMA MaskedIn ==
  ASSUME NEW b \in Bytes
  PROVE  Masked(b) \in Bytes
<1> DEFINE ss == [i \in DOMAIN b |-> IF b[i] = SECRET THEN <<TOKEN, TOKEN>> ELSE <<b[i]>>]
<1>1. DOMAIN b = 1..Len(b) /\ Len(b) \in Nat /\ \A i \in 1..Len(b) : b[i] \in Int
  BY BytesLen DEF Bytes
<1>2. <<TOKEN, TOKEN>> \in Bytes /\ \A x \in Int : <<x>> \in Bytes
  BY DEF Bytes, TOKEN
<1>3. ss \in Seq(Bytes)
  BY <1>1, <1>2
<1>4. Masked(b) = FlattenSeq(ss)
  BY DEF Masked
<1> HIDE DEF ss
<1> QED
  BY <1>3, <1>4, FlatProps

\* A header that is sent on.
LEMMA NewHeadIn ==
  ASSUME NEW b \in Bytes
  PROVE  NewHead(b) \o b \in Bytes /\ Len(NewHead(b) \o b) >= 1
<1> DEFINE p == <<LINE>>
           q == <<CL, Len(b)>>
           r == <<IDENTITY>>
           s1 == p \o CRLF
           s2 == s1 \o q
           s3 == s2 \o CRLF
           s4 == s3 \o r
           s5 == s4 \o Blank
<1>0. CRLF \in Bytes /\ Blank \in Bytes /\ Len(b) \in Nat /\ Len(Blank) = 4
  BY Separators, BytesLen
<1>1. p \in Bytes
  BY DEF Bytes, LINE
<1>2. q \in Bytes
  BY <1>0 DEF Bytes, CL
<1>3. r \in Bytes
  BY DEF Bytes, IDENTITY
<1> HIDE DEF p, q, r
<1>4. s1 \in Bytes
  BY <1>0, <1>1, RowProps
<1> HIDE DEF s1
<1>5. s2 \in Bytes
  BY <1>2, <1>4, RowProps
<1> HIDE DEF s2
<1>6. s3 \in Bytes
  BY <1>0, <1>5, RowProps
<1> HIDE DEF s3
<1>7. s4 \in Bytes
  BY <1>3, <1>6, RowProps
<1> HIDE DEF s4
<1>t. Blank \in Bytes
  BY <1>0
<1>8. s5 \in Bytes /\ Len(s5) = Len(s4) + Len(Blank)
  BY <1>7, <1>t, RowProps
<1> HIDE DEF s5
<1>9. s5 \o b \in Bytes /\ Len(s5 \o b) = Len(s5) + Len(b)
  BY <1>8, RowProps
<1>10. Len(s5 \o b) >= 1
  <2>1. Len(s4) \in Nat
    BY <1>7, BytesLen
  <2> QED
    BY <1>0, <1>8, <1>9, <2>1
<1>11. NewHead(b) = s5
  BY Zenon DEF NewHead, s5, s4, s3, s2, s1, p, q, r
<1> QED
  BY <1>9, <1>10, <1>11

\* What is due for a request.
LEMMA DueOfIn ==
  ASSUME NEW md, NEW m, IsRequest(m)
  PROVE  /\ DueOf(md, m) \in Bytes /\ Len(DueOf(md, m)) >= 1 /\ BodiesOf(m) \in Seq(Bytes)
         /\ Encoded(m) \in Bytes /\ Len(Encoded(m)) >= 4
<1> DEFINE h == Header(HeaderLines(m))
           t == Payload(m)
           b == Body(m)
           x == Encoded(m)
<1>0. IsMessage(m)
  BY DEF IsRequest
<1>1. b \in Bytes /\ h \in Bytes /\ t \in Bytes /\ x \in Bytes /\ x = h \o t /\ Len(h) >= 4
  BY <1>0, MessageProps
<1>2. Masked(b) \in Bytes
  BY <1>1, MaskedIn
<1> HIDE DEF h, t, b, x
<1>t. h \in Bytes /\ t \in Bytes
  BY <1>1
<1>3. Len(h \o t) = Len(h) + Len(t) /\ Len(t) \in Nat /\ Len(h) \in Nat
  BY <1>t, RowProps, BytesLen
<1>4. Len(x) >= 4 /\ Len(x) >= 1
  BY <1>1, <1>3
<1>5. NewHead(b) \o b \in Bytes /\ Len(NewHead(b) \o b) >= 1
  BY <1>1, NewHeadIn
<1> DEFINE c == Masked(b)
<1> HIDE DEF c
<1>6. NewHead(c) \o c \in Bytes /\ Len(NewHead(c) \o c) >= 1
  BY <1>2, NewHeadIn DEF c
<1>7. DueOf(md, m) = IF md = "pii" THEN NewHead(c) \o c ELSE IF m.framing = "chunked" THEN NewHead(b) \o b ELSE x
  BY DEF DueOf, c, b, x
<1>8. DueOf(md, m) \in Bytes /\ Len(DueOf(md, m)) >= 1
  <2>1. CASE md = "pii"
    BY <1>6, <1>7, <2>1, Zenon
  <2>2. CASE md # "pii" /\ m.framing = "chunked"
    BY <1>5, <1>7, <2>2, Zenon
  <2>3. CASE md # "pii" /\ m.framing # "chunked"
    BY <1>1, <1>4, <1>7, <2>3, Zenon
  <2> QED
    BY <2>1, <2>2, <2>3
<1>9. BodiesOf(m) \in Seq(Bytes)
  <2>1. <<b>> \in Seq(Bytes) /\ <<>> \in Seq(Bytes)
    BY <1>1
  <2> QED
    BY <2>1 DEF BodiesOf, b
<1> QED
  BY <1>1, <1>4, <1>8, <1>9 DEF x

\* The rows of a script.
LEMMA ScriptRows ==
  ASSUME NEW md, NEW reqs, IsScript(md, reqs)
  PROVE  /\ Len(reqs) \in Nat
         /\ AreRows(EncRows(reqs), Len(reqs)) /\ AreRows(DueRows(md, reqs), Len(reqs))
         /\ \A i \in 1..Len(reqs) : /\ IsRequest(reqs[i]) /\ EncRows(reqs)[i] = Encoded(reqs[i])
                                    /\ DueRows(md, reqs)[i] = DueOf(md, reqs[i])
                                    /\ ToldRows(reqs)[i] = BodiesOf(reqs[i]) /\ ToldRows(reqs)[i] \in Seq(Bytes)
<1>1. Len(reqs) \in Nat /\ \A i \in 1..Len(reqs) : IsRequest(reqs[i])
  BY DEF IsScript
<1>2. \A i \in 1..Len(reqs) : /\ EncRows(reqs)[i] = Encoded(reqs[i])
                              /\ DueRows(md, reqs)[i] = DueOf(md, reqs[i])
                              /\ ToldRows(reqs)[i] = BodiesOf(reqs[i])
  BY DEF EncRows, DueRows, ToldRows
<1>3. \A i \in 1..Len(reqs) : DueOf(md, reqs[i]) \in Bytes /\ Encoded(reqs[i]) \in Bytes /\ BodiesOf(reqs[i]) \in Seq(Bytes)
  BY <1>1, DueOfIn
<1> QED
  BY <1>1, <1>2, <1>3 DEF AreRows

\* What is due, and what has to be logged, in terms of the rows.
LEMMA SofarRequests ==
  ASSUME dir = "request", pii_mode \in {"passthrough", "pii"}, IsScript(pii_mode, script), sent \in 0..Len(script)
  PROVE  Sofar(Due) = FirstRows(DueRows(pii_mode, script), sent) /\ Sofar(Told) = FirstRows(ToldRows(script), sent)
<1>1. \A m : Due(m) = DueOf(pii_mode, m)
  <2> SUFFICES ASSUME NEW m PROVE Due(m) = DueOf(pii_mode, m)
    OBVIOUS
  <2>1. CASE pii_mode = "pii"
    <3>1. Due(m) = NewHead(Masked(Body(m))) \o Masked(Body(m))
      BY <2>1, Zenon DEF Due, NewHead
    <3> QED
      BY <2>1, <3>1, Zenon DEF DueOf
  <2>2. CASE pii_mode # "pii" /\ m.framing = "chunked"
    <3>1. Due(m) = NewHead(Body(m)) \o Body(m)
      BY <2>2, Zenon DEF Due, NewHead
    <3> QED
      BY <2>2, <3>1, Zenon DEF DueOf
  <2>3. CASE pii_mode # "pii" /\ m.framing # "chunked"
    <3>1. Due(m) = Encoded(m)
      BY <2>3 DEF Due
    <3> QED
      BY <2>3, <3>1, Zenon DEF DueOf
  <2> QED
    BY <2>1, <2>2, <2>3
<1>2. \A m : Told(m) = BodiesOf(m)
  BY DEF Told, BodiesOf
<1>3. Len(script) \in Nat
  BY ScriptRows
<1>4. \A i \in 1..sent : DueRows(pii_mode, script)[i] = Due(script[i]) /\ ToldRows(script)[i] = Told(script[i])
  BY <1>1, <1>2, <1>3 DEF DueRows, ToldRows
<1>5. [i \in 1..sent |-> Due(script[i])] = [i \in 1..sent |-> DueRows(pii_mode, script)[i]]
  BY <1>4, Zenon
<1>6. [i \in 1..sent |-> Told(script[i])] = [i \in 1..sent |-> ToldRows(script)[i]]
  BY <1>4, Zenon
<1> QED
  BY <1>5, <1>6, Zenon DEF Sofar, FirstRows

-----------------------------------------------------------------------------
(* The phases of the requests *)

\* What is due, and what is logged, for the first k requests; what was sent behind them.
DueTo(k) == FirstRows(DueRows(pii_mode, script), k)
ToldTo(k) == FirstRows(ToldRows(script), k)
Ahead(k) == RestRows(EncRows(script), k, sent)

HeadOf(m) == Header(HeaderLines(m))

\* The next request may come while j is being read.
LeadsOn(j) == pii_mode = "passthrough" /\ script[j].framing = "chunked" /\ script[j].chunks # <<>>
Chain(k) == \A j \in (k + 1)..(sent - 1) : LeadsOn(j)

\* The client sends the requests of a proper script.
Asking ==
  /\ dir = "request" /\ pii_mode \in {"passthrough", "pii"}
  /\ IsScript(pii_mode, script) /\ sent \in 0..Len(script)

\* k requests have been taken out of raw and are logged.
Taken(k) ==
  /\ k \in 0..sent /\ raw \in Bytes /\ wire \in Bytes
  /\ raw \o wire = Ahead(k) /\ seen = ToldTo(k)

\* The header of the next one is not known.
Waiting(k) ==
  /\ st = Idle /\ out = DueTo(k) /\ Chain(k)
  /\ place \in {"read", "header", "done"}
  /\ pii_mode = "pii" /\ place = "read" => FindHeaderEnd(raw) = 0
  /\ place = "done" => k = sent /\ sent = Len(script)

\* The header of m is there, and all of m is kept back.
Kept(k, m) ==
  /\ pii_mode = "pii" \/ m.framing = "chunked"
  /\ st = HeaderOf(m, Len(raw) - Len(HeadOf(m)))
  /\ out = DueTo(k) /\ Chain(k)
  /\ place \in {"header", "body", "complete", "read"}
  /\ place = "complete" => pii_mode = "passthrough"
  /\ place = "read" => Len(raw) < Len(Encoded(m))

\* The header of m is there, and f bytes of m have been forwarded.
Passed(k, m, f) ==
  /\ pii_mode = "passthrough" /\ m.framing # "chunked" /\ f \in 0..Len(raw)
  /\ st = [HeaderOf(m, Len(raw) - Len(HeadOf(m))) EXCEPT !.forwarded = f]
  /\ out = DueTo(k) \o Take(raw, f) /\ Chain(k + 1)
  /\ Len(raw) <= Len(Encoded(m))
  /\ place \in {"header", "body", "complete", "read", "done"}
  /\ IF place \in {"header", "body"} THEN f < Len(raw) ELSE f = Len(raw)
  /\ place = "read" /\ m.framing = "length" => Len(raw) < Len(Encoded(m))
  /\ place = "done" => m.framing = "none"
  /\ sent > k + 1 => place = "complete" /\ Len(raw) = Len(Encoded(m))

\* The header of the next request is there.
Begun(k) ==
  /\ k < sent /\ Len(raw) >= Len(HeadOf(script[k + 1]))
  /\ Kept(k, script[k + 1]) \/ \E f : Passed(k, script[k + 1], f)

RequestPhase(k) == Taken(k) /\ (Waiting(k) \/ Begun(k))

RequestInv == Asking /\ \E k : RequestPhase(k)

\* What was sent behind the first k requests is a run of bytes.
LEMMA AheadIn ==
  ASSUME Asking, NEW k \in 0..sent
  PROVE  /\ Ahead(k) \in Bytes /\ DueTo(k) \in Bytes /\ ToldTo(k) \in Seq(Bytes) /\ (k = sent => Ahead(k) = <<>>)
         /\ sent \in Nat /\ k \in Nat /\ Len(script) \in Nat /\ sent <= Len(script) /\ k <= sent
<1> DEFINE N == Len(script)
<1>1. N \in Nat /\ AreRows(EncRows(script), N) /\ AreRows(DueRows(pii_mode, script), N)
      /\ \A i \in 1..N : ToldRows(script)[i] \in Seq(Bytes)
  BY ScriptRows DEF Asking
<1>2. sent \in 0..N
  BY DEF Asking
<1> HIDE DEF N
<1>3. k \in 0..N /\ sent \in k..N /\ k \in k..N /\ sent \in Nat /\ k \in Nat /\ sent <= N /\ k <= sent
  BY <1>1, <1>2
<1>4. Ahead(k) \in Bytes
  BY <1>1, <1>3, RestRowsIn DEF Ahead
<1>5. DueTo(k) \in Bytes
  BY <1>1, <1>3, RestRowsIn DEF DueTo
<1>6. ToldTo(k) \in Seq(Bytes)
  <2>1. \A n \in 0..N : FirstRows(ToldRows(script), n) \in Seq(Bytes)
    BY <1>1, FirstRowsProps
  <2> QED
    BY <1>3, <2>1 DEF ToldTo
<1>7. k = sent => Ahead(k) = <<>>
  <2>1. RestRows(EncRows(script), k, k) = <<>>
    BY <1>1, <1>3, RestRowsNone
  <2> QED
    BY <2>1 DEF Ahead
<1> QED
  BY <1>1, <1>3, <1>4, <1>5, <1>6, <1>7 DEF N

\* The next request comes first.
LEMMA NextRequest ==
  ASSUME Asking, NEW k \in 0..sent, k # sent
  PROVE  LET m == script[k + 1]
         IN /\ k + 1 \in 0..sent /\ IsRequest(m) /\ IsMessage(m) /\ Ahead(k + 1) \in Bytes
            /\ Encoded(m) \in Bytes /\ Ahead(k) = Encoded(m) \o Ahead(k + 1)
            /\ DueOf(pii_mode, m) \in Bytes /\ DueTo(k + 1) = DueTo(k) \o DueOf(pii_mode, m)
            /\ ToldTo(k + 1) = ToldTo(k) \o BodiesOf(m)
<1> DEFINE N == Len(script)
           j == k + 1
           m == script[j]
<1>1. /\ N \in Nat /\ AreRows(EncRows(script), N) /\ AreRows(DueRows(pii_mode, script), N)
      /\ \A i \in 1..N : /\ IsRequest(script[i]) /\ EncRows(script)[i] = Encoded(script[i])
                         /\ DueRows(pii_mode, script)[i] = DueOf(pii_mode, script[i])
                         /\ ToldRows(script)[i] = BodiesOf(script[i]) /\ ToldRows(script)[i] \in Seq(Bytes)
  BY ScriptRows DEF Asking
<1>2. sent \in 0..N
  BY DEF Asking
<1> HIDE DEF N
<1>3. k \in 0..N /\ sent \in k..N /\ j \in 1..N /\ j \in 0..sent /\ j - 1 = k
  BY <1>1, <1>2
<1>4. Ahead(k) = EncRows(script)[j] \o Ahead(j) /\ EncRows(script)[j] \in Bytes /\ Ahead(j) \in Bytes
  BY <1>1, <1>3, RestRowsFirst DEF Ahead
<1> HIDE DEF j
<1>5. IsRequest(m) /\ IsMessage(m) /\ EncRows(script)[j] = Encoded(m) /\ DueRows(pii_mode, script)[j] = DueOf(pii_mode, m)
      /\ ToldRows(script)[j] = BodiesOf(m)
  BY <1>1, <1>3 DEF IsRequest
<1>6. DueTo(j) = DueTo(k) \o DueOf(pii_mode, m) /\ DueOf(pii_mode, m) \in Bytes
  <2> DEFINE g == DueRows(pii_mode, script)
  <2>0. N \in Nat
    BY <1>1
  <2>1. \A i \in 1..N : g[i] \in Seq(Int)
    BY <1>1 DEF AreRows, Bytes
  <2> HIDE DEF g
  <2>2. \A n \in 1..N : FirstRows(g, n) = FirstRows(g, n - 1) \o g[n]
    BY <2>0, <2>1, FirstRowsProps, ZenonT(60)
  <2>3. DueTo(j) = DueTo(k) \o g[j]
    BY <1>3, <2>2 DEF DueTo, g
  <2> QED
    BY <1>3, <1>5, <2>1, <2>3 DEF Bytes, g
<1>7. ToldTo(j) = ToldTo(k) \o BodiesOf(m)
  <2>2. \A n \in 1..N : FirstRows(ToldRows(script), n) = FirstRows(ToldRows(script), n - 1) \o ToldRows(script)[n]
    BY <1>1, FirstRowsProps
  <2>3. ToldTo(j) = ToldTo(k) \o ToldRows(script)[j]
    BY <1>3, <2>2 DEF ToldTo
  <2> QED
    BY <1>5, <2>3
<1>8. Encoded(m) \in Bytes /\ Ahead(k) = Encoded(m) \o Ahead(j)
  BY <1>4, <1>5
<1> QED
  BY <1>3, <1>4, <1>5, <1>6, <1>7, <1>8 DEF j

\* The script stays as it is, and so does what follows from it.
LEMMA SameScript ==
  ASSUME pii_mode' = pii_mode, script' = script, NEW j
  PROVE  /\ DueTo(j)' = DueTo(j) /\ ToldTo(j)' = ToldTo(j)
         /\ sent' = sent => Ahead(j)' = Ahead(j) /\ (Chain(j) => Chain(j)')
BY DEF DueTo, ToldTo, Ahead, Chain, LeadsOn

\* Where the header of the next request ends.
LEMMA HeadRead ==
  ASSUME Asking, NEW k, Taken(k), k # sent
  PROVE  LET m == script[k + 1]
             h == HeadOf(m)
             r == Drop(raw, Len(h))
         IN /\ FindHeaderEnd(raw) = (IF Len(raw) >= Len(h) THEN Len(h) ELSE 0)
            /\ h \in Bytes /\ Len(h) \in Nat /\ Len(h) >= 4 /\ Len(raw) \in Nat /\ Len(wire) \in Nat
            /\ Payload(m) \in Bytes /\ Len(Payload(m)) \in Nat /\ Len(Encoded(m)) = Len(h) + Len(Payload(m))
            /\ Len(raw) >= Len(h) => /\ Take(raw, Len(h)) = h /\ r \in Bytes /\ Len(r) = Len(raw) - Len(h)
                                     /\ Meet(r, wire, Payload(m), Ahead(k + 1))
<1> DEFINE m == script[k + 1]
           h == HeadOf(m)
           p == Payload(m)
           x == Ahead(k + 1)
           t == p \o x
           r == Drop(raw, Len(h))
<1>1. k \in 0..sent /\ raw \in Bytes /\ wire \in Bytes /\ raw \o wire = Ahead(k)
  BY DEF Taken
<1>2. IsMessage(m) /\ x \in Bytes /\ Ahead(k) = Encoded(m) \o x
  BY <1>1, NextRequest
<1>3. h \in Bytes /\ p \in Bytes /\ Encoded(m) = h \o p /\ Len(h) >= 4
  BY <1>2, MessageProps DEF HeadOf
<1> HIDE DEF m, x
<1>m. HeadOf(m) = Header(HeaderLines(m))
  BY DEF HeadOf
<1> HIDE DEF p
<1>t. h \in Bytes /\ p \in Bytes /\ x \in Bytes
  BY <1>2, <1>3
<1>a. t \in Bytes
  BY <1>t, RowProps
<1>4. (h \o p) \o x = h \o t
  <2> HIDE DEF h
  <2> QED
    BY <1>t, RowAssoc
<1>5. Len(h \o p) = Len(h) + Len(p) /\ Len(h) \in Nat /\ Len(p) \in Nat
  <2> HIDE DEF h
  <2> QED
    BY <1>t, RowProps, BytesLen
<1>6. raw \o wire = h \o t
  BY <1>1, <1>2, <1>3, <1>4
<1>7. Meet(raw, wire, Header(HeaderLines(m)), t)
  BY <1>6, <1>m DEF Meet
<1>8. Len(raw) \in Nat /\ Len(wire) \in Nat
  BY <1>1, BytesLen
<1> HIDE DEF t
<1>9. /\ FindHeaderEnd(raw) = (IF Len(raw) >= Len(h) THEN Len(h) ELSE 0)
      /\ Len(raw) >= Len(h) => Take(raw, Len(h)) = h /\ r \in Bytes /\ r \o wire = t /\ Len(r) = Len(raw) - Len(h)
  <2>1. IsMessage(m) /\ raw \in Bytes /\ wire \in Bytes /\ t \in Bytes
    BY <1>1, <1>2, <1>a
  <2> QED
    BY <1>7, <2>1, HeaderComes DEF HeadOf
<1>10. Len(Encoded(m)) = Len(h) + Len(p)
  BY <1>3, <1>5
<1>11. Len(raw) >= Len(h) => Meet(r, wire, p, x)
  <2> HIDE DEF h, r
  <2> QED
    BY <1>9 DEF Meet, t
<1> QED
  BY <1>3, <1>5, <1>8, <1>9, <1>10, <1>11 DEF m, p, x

\* All of the next request has been read, once nothing is left on the wire and maybe before.
LEMMA AllOfIt ==
  ASSUME Asking, NEW k, Taken(k), k # sent
  PROVE  LET m == script[k + 1]
             e == Encoded(m)
             r == Drop(raw, Len(HeadOf(m)))
         IN /\ wire = <<>> => Len(raw) >= Len(e)
            /\ k + 1 = sent => Len(raw) <= Len(e) /\ Len(raw) + Len(wire) = Len(e)
            /\ Len(raw) >= Len(e) =>
                 /\ Take(raw, Len(e)) = e /\ Drop(raw, Len(e)) \in Bytes /\ Drop(raw, Len(e)) \o wire = Ahead(k + 1)
                 /\ Take(r, Len(Payload(m))) = Payload(m)
                 /\ k + 1 = sent => raw = e /\ wire = <<>>
<1> DEFINE m == script[k + 1]
           e == Encoded(m)
           h == HeadOf(m)
           p == Payload(m)
           x == Ahead(k + 1)
           r == Drop(raw, Len(h))
           y == Drop(raw, Len(e))
<1>1. k \in 0..sent /\ raw \in Bytes /\ wire \in Bytes /\ raw \o wire = Ahead(k)
  BY DEF Taken
<1>2. IsMessage(m) /\ x \in Bytes /\ e \in Bytes /\ Ahead(k) = e \o x /\ k + 1 \in 0..sent
  BY <1>1, NextRequest
<1>3. k + 1 = sent => x = <<>>
  BY <1>2, AheadIn
<1>4. /\ Len(h) \in Nat /\ Len(p) \in Nat /\ Len(e) = Len(h) + Len(p) /\ p \in Bytes
      /\ Len(raw) >= Len(h) => r \in Bytes /\ Len(r) = Len(raw) - Len(h) /\ Meet(r, wire, p, x)
  BY HeadRead
<1> HIDE DEF m, x
<1> HIDE DEF e, h, p
<1>t. raw \in Bytes /\ wire \in Bytes /\ e \in Bytes /\ x \in Bytes /\ p \in Bytes
  BY <1>1, <1>2, <1>4
<1>5. raw \o wire = e \o x
  BY <1>1, <1>2
<1>6. Len(raw \o wire) = Len(raw) + Len(wire) /\ Len(e \o x) = Len(e) + Len(x)
  BY <1>t, RowProps
<1>7. Len(raw) \in Nat /\ Len(wire) \in Nat /\ Len(e) \in Nat /\ Len(x) \in Nat
  BY <1>t, BytesLen
<1>8. Len(raw) + Len(wire) = Len(e) + Len(x)
  BY <1>5, <1>6
<1>9. (wire = <<>> <=> Len(wire) = 0) /\ (x = <<>> => Len(x) = 0)
  BY <1>t, RowEmpty
<1>10. wire = <<>> => Len(raw) >= Len(e)
  BY <1>7, <1>8, <1>9
<1>11. k + 1 = sent => Len(raw) <= Len(e) /\ Len(raw) + Len(wire) = Len(e)
  BY <1>3, <1>7, <1>8, <1>9
<1>12. ASSUME Len(raw) >= Len(e)
       PROVE  /\ Take(raw, Len(e)) = e /\ y \in Bytes /\ y \o wire = x
              /\ Take(r, Len(p)) = p /\ (k + 1 = sent => raw = e /\ wire = <<>>)
  <2>1. Meet(raw, wire, e, x) /\ Len(e) <= Len(raw)
    BY <1>5, <1>7, <1>12 DEF Meet
  <2>2. raw = e \o y /\ y \o wire = x /\ Take(raw, Len(e)) = e /\ y \in Bytes
    BY <1>t, <2>1, Divide
  <2>3. Len(raw) >= Len(h)
    BY <1>4, <1>7, <1>12
  <2>4. r \in Bytes /\ Meet(r, wire, p, x)
    BY <1>4, <2>3
  <2>5. Len(r) = Len(raw) - Len(h)
    BY <1>4, <2>3
  <2>6. Len(p) <= Len(r)
    BY <1>4, <1>7, <1>12, <2>5
  <2> HIDE DEF r
  <2>7. Take(r, Len(p)) = p
    BY <1>t, <2>4, <2>6, Divide
  <2>8. ASSUME k + 1 = sent PROVE raw = e /\ wire = <<>>
    <3>1. Len(wire) = 0
      BY <1>3, <1>7, <1>8, <1>9, <1>12, <2>8
    <3>2. wire = <<>> /\ x = <<>>
      BY <1>3, <1>9, <2>8, <3>1
    <3>3. raw \o <<>> = raw /\ e \o <<>> = e
      BY <1>t, RowEmpty
    <3> QED
      BY <1>5, <3>2, <3>3
  <2> QED
    BY <2>2, <2>7, <2>8
<1> QED
  BY <1>10, <1>11, <1>12 DEF m, e, h, p, x

\* What the state says about m.
SaysOf(s, m, n) ==
  /\ s.header_done /\ s.content_length = (IF m.framing = "length" THEN Len(Body(m)) ELSE Absent)
  /\ s.is_chunked = (m.framing = "chunked") /\ s.body_start = Len(HeadOf(m)) /\ s.body_received = n

ForwardedOf(m, n, f) == [HeaderOf(m, n) EXCEPT !.forwarded = f]

LEMMA HeaderOfSays ==
  ASSUME NEW m, NEW n, NEW f
  PROVE  SaysOf(HeaderOf(m, n), m, n) /\ SaysOf(ForwardedOf(m, n, f), m, n) /\ ForwardedOf(m, n, f).forwarded = f
         /\ ForwardedOf(m, n, 0) = HeaderOf(m, n)
<1> DEFINE cl == IF m.framing = "length" THEN Len(Body(m)) ELSE Absent
           ck == m.framing = "chunked"
           ev == m.sse
           bs == Len(HeadOf(m))
           tr == TRUE
           R(z) == [header_done |-> tr, content_length |-> cl, is_chunked |-> ck, is_sse |-> ev,
                    body_start |-> bs, forwarded |-> z, body_received |-> n]
<1>1. HeaderOf(m, n) = R(0)
  BY DEF HeaderOf, HeadOf
<1> HIDE DEF cl, ck, ev, bs, tr
<1>2. [R(0) EXCEPT !.forwarded = f] = R(f) /\ [R(0) EXCEPT !.forwarded = 0] = R(0)
  OBVIOUS
<1>3. ForwardedOf(m, n, f) = R(f) /\ ForwardedOf(m, n, 0) = R(0)
  BY <1>1, <1>2 DEF ForwardedOf
<1>4. \A z : R(z).header_done = tr /\ R(z).content_length = cl /\ R(z).is_chunked = ck /\ R(z).body_start = bs /\ R(z).body_received = n /\ R(z).forwarded = z
  OBVIOUS
<1> HIDE DEF R
<1>5. tr
  BY DEF tr
<1>6. \A z : SaysOf(R(z), m, n)
  BY <1>4, <1>5, Zenon DEF SaysOf, cl, ck, bs
<1> QED
  BY <1>1, <1>3, <1>4, <1>6

LEMMA ForwardedOfMore ==
  ASSUME NEW m, NEW n, NEW f, NEW c
  PROVE  [ForwardedOf(m, n, f) EXCEPT !.body_received = @ + c] = ForwardedOf(m, n + c, f)
<1> DEFINE cl == IF m.framing = "length" THEN Len(Body(m)) ELSE Absent
           ck == m.framing = "chunked"
           ev == m.sse
           bs == Len(HeadOf(m))
           tr == TRUE
           R(z, b) == [header_done |-> tr, content_length |-> cl, is_chunked |-> ck, is_sse |-> ev,
                       body_start |-> bs, forwarded |-> z, body_received |-> b]
<1>1. HeaderOf(m, n) = R(0, n) /\ HeaderOf(m, n + c) = R(0, n + c)
  BY DEF HeaderOf, HeadOf
<1> HIDE DEF cl, ck, ev, bs, tr
<1>2. \A b : [R(0, b) EXCEPT !.forwarded = f] = R(f, b)
  OBVIOUS
<1>3. ForwardedOf(m, n, f) = R(f, n) /\ ForwardedOf(m, n + c, f) = R(f, n + c)
  BY <1>1, <1>2 DEF ForwardedOf
<1> DEFINE q == n + c
<1>4. R(f, n).body_received = n
  OBVIOUS
<1>5. [R(f, n) EXCEPT !.body_received = R(f, n).body_received + c] = [R(f, n) EXCEPT !.body_received = q]
  BY <1>4
<1> HIDE DEF q
<1>6. [R(f, n) EXCEPT !.body_received = q] = R(f, q)
  OBVIOUS
<1> QED
  BY <1>3, <1>5, <1>6 DEF q

-----------------------------------------------------------------------------
(* One step of the requests *)

\* A step that leaves the script and what was sent of it keeps its other facts.
Untouched == dir' = dir /\ pii_mode' = pii_mode /\ script' = script /\ sent' = sent

\* More of the requests is read.
LEMMA ReadRequestStep ==
  ASSUME Asking, NEW k, RequestPhase(k), ReadRequest
  PROVE  RequestPhase(k)'
<1> DEFINE m == script[k + 1]
           h == HeadOf(m)
<1>0. Taken(k) /\ (Waiting(k) \/ Begun(k))
  BY DEF RequestPhase
<1>1. PICK n \in 1..Len(wire) : /\ raw' = raw \o Take(wire, n) /\ wire' = Drop(wire, n)
                                /\ st' = IF st.header_done THEN [st EXCEPT !.body_received = @ + n] ELSE st
  BY DEF ReadRequest
<1>2. Untouched /\ place = "read" /\ place' = "header" /\ out' = out /\ seen' = seen
  BY DEF ReadRequest, Untouched
<1>3. k \in 0..sent /\ raw \in Bytes /\ wire \in Bytes /\ raw \o wire = Ahead(k) /\ seen = ToldTo(k)
  BY <1>0 DEF Taken
<1>4. raw' \in Bytes /\ wire' \in Bytes /\ raw' \o wire' = raw \o wire /\ Len(raw') = Len(raw) + n
  BY <1>1, <1>3, TakenFrom
<1>5. /\ DueTo(k)' = DueTo(k) /\ ToldTo(k)' = ToldTo(k) /\ Ahead(k)' = Ahead(k)
      /\ (Chain(k) => Chain(k)') /\ (Chain(k + 1) => Chain(k + 1)')
  BY <1>2, SameScript DEF Untouched
<1>6. Taken(k)'
  BY <1>2, <1>3, <1>4, <1>5 DEF Taken, Untouched
<1>7. Len(raw) \in Nat /\ Len(wire) \in Nat /\ n \in Nat /\ n >= 1 /\ k \in Nat /\ sent \in Nat
  BY <1>3, BytesLen, AheadIn
<1>8. CASE Waiting(k)
  <2>1. st = Idle /\ out = DueTo(k) /\ Chain(k)
    BY <1>8 DEF Waiting
  <2>2. ~st.header_done
    BY <2>1 DEF Idle
  <2>3. st' = Idle
    BY <1>1, <2>1, <2>2
  <2>4. Idle' = Idle
    BY DEF Idle
  <2>5. Waiting(k)'
    BY <1>2, <1>5, <2>1, <2>3 DEF Waiting
  <2> QED
    BY <1>6, <2>5 DEF RequestPhase
<1>9. CASE Begun(k)
  <2>1. k < sent /\ Len(raw) >= Len(h) /\ (Kept(k, m) \/ \E f : Passed(k, m, f))
    BY <1>9 DEF Begun
  <2>2. k # sent /\ script' = script /\ sent' = sent /\ pii_mode' = pii_mode
    BY <1>2, <1>7, <2>1 DEF Untouched
  <2>3. Len(h) \in Nat
    BY <1>0, <2>2, HeadRead
  <2>4. Len(raw') >= Len(h)
    BY <1>4, <1>7, <2>1, <2>3
  <2> HIDE DEF m, h
  <2>5. ASSUME Kept(k, m) PROVE Kept(k, m)'
    <3>1. st = HeaderOf(m, Len(raw) - Len(HeadOf(m))) /\ out = DueTo(k) /\ Chain(k) /\ (pii_mode = "pii" \/ m.framing = "chunked")
      BY <2>5 DEF Kept
    <3> DEFINE b == Len(raw) - Len(HeadOf(m))
    <3>2. SaysOf(st, m, b)
      BY <3>1, HeaderOfSays
    <3>3. st' = [HeaderOf(m, b) EXCEPT !.body_received = @ + n]
      BY <1>1, <3>1, <3>2 DEF SaysOf
    <3>4. [HeaderOf(m, b) EXCEPT !.body_received = @ + n] = HeaderOf(m, b + n)
      BY HeaderOfMore
    <3>5. b + n = Len(raw') - Len(HeadOf(m))
      BY <1>4, <1>7, <2>3 DEF h
    <3> HIDE DEF b
    <3>6. st' = HeaderOf(m, Len(raw') - Len(HeadOf(m)))
      BY <3>3, <3>4, <3>5
    <3>7. m' = m
      BY <2>2 DEF m
    <3> QED
      BY <1>2, <1>5, <2>2, <3>1, <3>6, <3>7 DEF Kept
  <2>6. ASSUME NEW f, Passed(k, m, f) PROVE Passed(k, m, f)'
    <3>1. /\ pii_mode = "passthrough" /\ m.framing # "chunked" /\ f \in 0..Len(raw)
          /\ st = ForwardedOf(m, Len(raw) - Len(HeadOf(m)), f)
          /\ out = DueTo(k) \o Take(raw, f) /\ Chain(k + 1)
          /\ f = Len(raw) /\ ~(sent > k + 1)
      BY <1>2, <2>6 DEF Passed, ForwardedOf
    <3> DEFINE b == Len(raw) - Len(HeadOf(m))
    <3>2. SaysOf(st, m, b)
      BY <3>1, HeaderOfSays
    <3>3. st' = [ForwardedOf(m, b, f) EXCEPT !.body_received = @ + n]
      BY <1>1, <3>1, <3>2 DEF SaysOf
    <3>4. [ForwardedOf(m, b, f) EXCEPT !.body_received = @ + n] = ForwardedOf(m, b + n, f)
      BY ForwardedOfMore
    <3>5. b + n = Len(raw') - Len(HeadOf(m))
      BY <1>4, <1>7, <2>3 DEF h
    <3> HIDE DEF b
    <3>6. st' = ForwardedOf(m, Len(raw') - Len(HeadOf(m)), f)
      BY <3>3, <3>4, <3>5
    <3>7. m' = m
      BY <2>2 DEF m
    <3>8. k + 1 = sent
      BY <1>7, <2>1, <3>1
    <3>9. Len(raw') <= Len(Encoded(m))
      <4>1. Len(raw) + Len(wire) = Len(Encoded(m))
        BY <1>0, <2>2, <3>8, AllOfIt DEF m
      <4>2. n <= Len(wire)
        BY <1>7
      <4> HIDE DEF m
      <4> QED
        BY <1>4, <1>7, <4>1, <4>2
    <3>10. Take(raw', f) = Take(raw, f)
      <4>1. Take(wire, n) \in Bytes
        BY <1>3, TakenFrom
      <4> QED
        BY <1>1, <1>3, <3>1, <4>1, TakeOfRow
    <3>11. f \in 0..Len(raw') /\ f < Len(raw')
      BY <1>4, <1>7, <3>1
    <3> QED
      BY <1>2, <1>5, <2>2, <3>1, <3>6, <3>7, <3>8, <3>9, <3>10, <3>11, <1>7 DEF Passed, ForwardedOf
  <2>7. Begun(k)'
    BY <2>1, <2>2, <2>4, <2>5, <2>6 DEF Begun, m, h
  <2> QED
    BY <1>6, <2>7 DEF RequestPhase
<1> QED
  BY <1>0, <1>8, <1>9

\* Something is due for a request, and it is not empty.
LEMMA DueGrows ==
  ASSUME Asking, NEW k \in 0..sent
  PROVE  /\ \E r \in Bytes : DueTo(sent) = DueTo(k) \o r
         /\ k # sent => DueTo(k) # DueTo(sent) /\ Ahead(k) # <<>>
<1> DEFINE N == Len(script)
           g == DueRows(pii_mode, script)
           a == DueTo(k)
           r == RestRows(g, k, sent)
<1>1. N \in Nat /\ AreRows(g, N) /\ \A i \in 1..N : IsRequest(script[i]) /\ g[i] = DueOf(pii_mode, script[i])
  BY ScriptRows DEF Asking
<1>2. sent \in 0..N
  BY DEF Asking
<1>3. k \in 0..N /\ sent \in k..N
  BY <1>1, <1>2
<1> HIDE DEF N, g
<1>4. a \in Bytes /\ r \in Bytes /\ DueTo(sent) = a \o r
  BY <1>1, <1>3, RestRowsIn DEF DueTo, g
<1>5. ASSUME k # sent PROVE a # DueTo(sent) /\ Ahead(k) # <<>>
  <2> DEFINE m == script[k + 1]
             e == Encoded(m)
             x == Ahead(k + 1)
             d == DueOf(pii_mode, m)
             q == RestRows(g, k + 1, sent)
  <2>0. IsRequest(m) /\ e \in Bytes /\ x \in Bytes /\ Ahead(k) = e \o x
    BY <1>5, NextRequest
  <2>1. r = g[k + 1] \o q /\ g[k + 1] \in Bytes /\ q \in Bytes
    BY <1>1, <1>3, <1>5, RestRowsFirst
  <2>2. k + 1 \in 1..N
    BY <1>1, <1>2, <1>5
  <2>3. g[k + 1] = d
    BY <1>1, <2>2
  <2>4. Len(d) >= 1 /\ Len(e) >= 4
    BY <2>0, DueOfIn
  <2> HIDE DEF r, a, m, e, x, d, q
  <2>5. d \in Bytes /\ q \in Bytes
    BY <2>1, <2>3
  <2>6. Len(d \o q) = Len(d) + Len(q) /\ Len(d) \in Nat /\ Len(q) \in Nat
    BY <2>5, RowProps, BytesLen
  <2>7. Len(r) >= 1
    BY <2>1, <2>3, <2>4, <2>6
  <2>8. Len(a \o r) = Len(a) + Len(r) /\ Len(a) \in Nat /\ Len(r) \in Nat
    <3>1. a \in Bytes /\ r \in Bytes
      BY <1>4
    <3> QED
      BY <3>1, RowProps, BytesLen
  <2>9. Len(a \o r) # Len(a)
    BY <2>7, <2>8
  <2>10. Ahead(k) # <<>>
    <3>1. e \in Bytes /\ x \in Bytes
      BY <2>0
    <3>2. Len(e \o x) = Len(e) + Len(x) /\ Len(e) \in Nat /\ Len(x) \in Nat
      BY <3>1, RowProps, BytesLen
    <3>3. Len(e \o x) # 0
      BY <2>4, <3>2
    <3>4. Len(<<>>) = 0
      BY RowEmpty
    <3> QED
      BY <2>0, <3>3, <3>4
  <2> QED
    BY <1>4, <2>9, <2>10
<1> QED
  BY <1>4, <1>5 DEF a

\* What the client is allowed to send early.
LEMMA EarlyOnes ==
  ASSUME Asking, sent < Len(script), script[sent + 1].early
  PROVE  sent # 0 => LeadsOn(sent)
<1>1. Len(script) \in Nat /\ sent \in 0..Len(script)
  BY DEF Asking, IsScript
<1>2. SUFFICES ASSUME sent # 0 PROVE LeadsOn(sent)
  OBVIOUS
<1> DEFINE i == sent + 1
<1>3. i \in 2..Len(script) /\ i - 1 = sent /\ script[i].early
  BY <1>1, <1>2
<1> HIDE DEF i
<1>4. pii_mode = "passthrough" /\ script[i - 1].framing = "chunked" /\ script[i - 1].chunks # <<>>
  BY <1>3 DEF Asking, IsScript
<1> QED
  BY <1>3, <1>4 DEF LeadsOn

\* The next request is sent.
LEMMA SendRequestStep ==
  ASSUME Asking, NEW k, RequestPhase(k), Send
  PROVE  RequestPhase(k)' /\ Asking'
<1> DEFINE m == script[k + 1]
           N == Len(script)
           e == Encoded(script[sent + 1])
<1>0. Taken(k) /\ (Waiting(k) \/ Begun(k))
  BY DEF RequestPhase
<1>1. /\ sent < N /\ sent' = sent + 1 /\ wire' = wire \o e
      /\ script[sent + 1].early \/ (wire = <<>> /\ out = Sofar(Due))
      /\ dir' = dir /\ pii_mode' = pii_mode /\ script' = script /\ raw' = raw /\ st' = st /\ place' = place /\ out' = out /\ seen' = seen
  BY DEF Send
<1>2. k \in 0..sent /\ raw \in Bytes /\ wire \in Bytes /\ raw \o wire = Ahead(k) /\ seen = ToldTo(k)
  BY <1>0 DEF Taken
<1>3. sent \in Nat /\ k \in Nat /\ N \in Nat /\ sent <= N /\ k <= sent
  BY <1>2, AheadIn
<1>4. Asking'
  BY <1>1, <1>3 DEF Asking
<1>5. DueTo(k)' = DueTo(k) /\ ToldTo(k)' = ToldTo(k)
  BY <1>1, SameScript
<1>6. Ahead(k)' = Ahead(k) \o e /\ e \in Bytes
  <2> DEFINE g == EncRows(script)
  <2>1. N \in Nat /\ AreRows(g, N) /\ \A i \in 1..N : g[i] = Encoded(script[i])
    BY ScriptRows DEF Asking
  <2>2. k \in 0..N /\ sent \in k..N /\ sent # N /\ sent + 1 \in 1..N
    BY <1>1, <1>2, <1>3
  <2>3. g[sent + 1] = e
    BY <2>1, <2>2
  <2> HIDE DEF g, e
  <2>4. RestRows(g, k, sent + 1) = RestRows(g, k, sent) \o g[sent + 1] /\ g[sent + 1] \in Bytes
    BY <2>1, <2>2, RestRowsMore
  <2>5. Ahead(k)' = RestRows(g, k, sent + 1) /\ Ahead(k) = RestRows(g, k, sent)
    BY <1>1 DEF Ahead, g
  <2> QED
    BY <2>3, <2>4, <2>5
<1> HIDE DEF e
<1>7. Taken(k)'
  <2>1. e \in Bytes /\ raw \in Bytes /\ wire \in Bytes
    BY <1>2, <1>6
  <2>2. (raw \o wire) \o e = raw \o (wire \o e)
    BY <2>1, RowAssoc
  <2>3. wire \o e \in Bytes
    BY <2>1, RowProps
  <2>4. raw' \o wire' = Ahead(k)'
    BY <1>1, <1>2, <1>6, <2>2
  <2>5. k \in 0..sent'
    BY <1>1, <1>2, <1>3
  <2> QED
    BY <1>1, <1>2, <1>5, <2>1, <2>3, <2>4, <2>5 DEF Taken
<1>8. ~script[sent + 1].early => wire = <<>> /\ out = DueTo(sent)
  <2>1. Sofar(Due) = DueTo(sent)
    BY SofarRequests DEF Asking, DueTo
  <2> QED
    BY <1>1, <2>1
<1>9. script[sent + 1].early => sent = 0 \/ LeadsOn(sent)
  BY <1>1, EarlyOnes
<1>10. \A j : LeadsOn(j)' <=> LeadsOn(j)
  BY <1>1 DEF LeadsOn
<1>11. ASSUME NEW i, i \in Nat, Chain(i), LeadsOn(sent) \/ sent <= i PROVE Chain(i)'
  <2>1. SUFFICES ASSUME NEW j \in (i + 1)..(sent' - 1) PROVE LeadsOn(j)'
    BY DEF Chain
  <2>2. j \in (i + 1)..sent
    BY <1>1, <1>3
  <2>3. CASE j = sent
    BY <1>3, <1>10, <1>11, <2>2, <2>3
  <2>4. CASE j # sent
    <3>1. j \in (i + 1)..(sent - 1)
      BY <1>3, <2>2, <2>4
    <3> QED
      BY <1>10, <1>11, <3>1 DEF Chain
  <2> QED
    BY <2>3, <2>4
<1>12. CASE Waiting(k)
  <2>1. /\ st = Idle /\ out = DueTo(k) /\ Chain(k) /\ place \in {"read", "header", "done"}
        /\ (pii_mode = "pii" /\ place = "read" => FindHeaderEnd(raw) = 0)
        /\ (place = "done" => sent = Len(script))
    BY <1>12 DEF Waiting
  <2>2. place # "done"
    BY <1>1, <1>3, <2>1
  <2>3. LeadsOn(sent) \/ sent <= k
    <3>1. CASE script[sent + 1].early
      BY <1>3, <1>9, <3>1
    <3>2. CASE ~script[sent + 1].early
      <4>1. k = sent
        BY <1>2, <1>8, <2>1, <3>2, DueGrows
      <4> QED
        BY <1>3, <4>1
    <3> QED
      BY <3>1, <3>2
  <2>4. Chain(k)'
    BY <1>3, <1>11, <2>1, <2>3
  <2>5. Waiting(k)'
    BY <1>1, <1>5, <2>1, <2>2, <2>4 DEF Waiting, Idle
  <2> QED
    BY <1>4, <1>7, <2>5 DEF RequestPhase
<1>13. CASE Begun(k)
  <2>1. k < sent /\ Len(raw) >= Len(HeadOf(m)) /\ (Kept(k, m) \/ \E f : Passed(k, m, f))
    BY <1>13 DEF Begun
  <2>2. k # sent /\ sent # 0 /\ k < sent'
    BY <1>1, <1>3, <2>1
  <2>m. m' = m
    BY <1>1
  <2>3. ASSUME Kept(k, m) PROVE Kept(k, m)'
    <3>1. out = DueTo(k) /\ Chain(k)
      BY <2>3 DEF Kept
    <3>2. LeadsOn(sent)
      BY <1>2, <1>8, <1>9, <2>2, <3>1, DueGrows
    <3>3. Chain(k)'
      BY <1>3, <1>11, <3>1, <3>2
    <3> HIDE DEF m
    <3> QED
      BY <1>1, <1>5, <2>3, <2>m, <3>3 DEF Kept
  <2>4. ASSUME NEW f, Passed(k, m, f) PROVE Passed(k, m, f)'
    <3>1. /\ pii_mode = "passthrough" /\ m.framing # "chunked" /\ f \in 0..Len(raw)
          /\ out = DueTo(k) \o Take(raw, f) /\ Chain(k + 1) /\ Len(raw) <= Len(Encoded(m))
          /\ place \in {"header", "body", "complete", "read", "done"}
          /\ IF place \in {"header", "body"} THEN f < Len(raw) ELSE f = Len(raw)
          /\ place = "read" /\ m.framing = "length" => Len(raw) < Len(Encoded(m))
          /\ place = "done" => m.framing = "none"
          /\ sent > k + 1 => place = "complete" /\ Len(raw) = Len(Encoded(m))
      BY <2>4 DEF Passed
    <3>a. Len(raw) \in Nat /\ Len(Encoded(m)) \in Nat /\ Encoded(m) \in Bytes /\ m.framing \in {"length", "chunked", "none"}
      <4>1. Encoded(m) \in Bytes /\ IsMessage(m)
        BY <1>2, <2>2, NextRequest
      <4> QED
        BY <1>2, <4>1, BytesLen DEF IsMessage
    <3>2. CASE sent = k + 1
      <4>1. ~script[sent + 1].early
        <5>1. ~LeadsOn(sent)
          BY <3>1, <3>2 DEF LeadsOn
        <5> QED
          BY <1>9, <2>2, <5>1
      <4>2. DueTo(k) \o Take(raw, f) = DueTo(k) \o Encoded(m)
        <5>1. DueTo(k + 1) = DueTo(k) \o DueOf(pii_mode, m)
          BY <1>2, <2>2, NextRequest
        <5>2. DueOf(pii_mode, m) = Encoded(m)
          BY <3>1 DEF DueOf
        <5> QED
          BY <1>8, <3>1, <3>2, <4>1, <5>1, <5>2
      <4>3. Take(raw, f) \in Bytes /\ Len(Take(raw, f)) = f
        BY <1>2, <3>1, TakeProps
      <4>4. DueTo(k) \in Bytes
        BY <1>2, AheadIn
      <4>5. Take(raw, f) = Encoded(m)
        <5> DEFINE x == Take(raw, f)
                   y == Encoded(m)
                   a == DueTo(k)
        <5>1. x \in Bytes /\ y \in Bytes /\ a \in Bytes /\ a \o x = a \o y
          BY <3>a, <4>2, <4>3, <4>4
        <5> HIDE DEF x, y, a
        <5>2. x = y
          BY <5>1, SameRest
        <5> QED
          BY <5>2 DEF x, y
      <4>6. f = Len(Encoded(m))
        BY <4>3, <4>5
      <4>7. Len(raw) = Len(Encoded(m)) /\ f = Len(raw)
        BY <3>1, <3>a, <4>6
      <4>8. m.framing # "none"
        <5>1. m.framing = "none" /\ pii_mode = "passthrough" => k + 1 = Len(script)
          <6>1. k + 1 \in 1..Len(script)
            BY <1>1, <1>3, <3>2
          <6> QED
            BY <6>1 DEF Asking, IsScript
        <5> QED
          BY <1>1, <1>3, <3>1, <3>2, <5>1
      <4>9. place = "complete"
        BY <3>1, <3>a, <4>7, <4>8
      <4>10. Chain(k + 1)'
        BY <1>3, <1>11, <3>1, <3>2
      <4> HIDE DEF m
      <4> QED
        BY <1>1, <1>5, <2>4, <2>m, <4>7, <4>9, <4>10 DEF Passed
    <3>3. CASE sent # k + 1
      <4>1. sent > k + 1 /\ place = "complete" /\ Len(raw) = Len(Encoded(m)) /\ k + 1 \in 0..sent /\ k + 1 # sent
        BY <1>3, <2>1, <3>1, <3>3
      <4>2. wire # <<>>
        <5>1. SUFFICES ASSUME wire = <<>> PROVE FALSE
          OBVIOUS
        <5>2. Drop(raw, Len(raw)) \o wire = Ahead(k + 1)
          <6>1. Len(raw) >= Len(Encoded(m))
            BY <3>a, <4>1
          <6>2. Drop(raw, Len(Encoded(m))) \o wire = Ahead(k + 1)
            BY <1>0, <2>2, <6>1, AllOfIt
          <6> QED
            BY <4>1, <6>2
        <5>3. Drop(raw, Len(raw)) = <<>> /\ <<>> \o <<>> = <<>>
          BY <1>2, TakeAll, RowEmpty
        <5>4. Ahead(k + 1) = <<>>
          BY <5>1, <5>2, <5>3
        <5>5. Ahead(k + 1) # <<>>
          BY <4>1, DueGrows
        <5> QED
          BY <5>4, <5>5
      <4>3. LeadsOn(sent)
        BY <1>8, <1>9, <2>2, <4>2
      <4>4. Chain(k + 1)'
        BY <1>3, <1>11, <3>1, <4>3
      <4> HIDE DEF m
      <4> QED
        BY <1>1, <1>5, <2>4, <2>m, <4>1, <4>4 DEF Passed
    <3> QED
      BY <3>2, <3>3
  <2>5. Begun(k)'
    BY <1>1, <2>1, <2>2, <2>3, <2>4 DEF Begun
  <2> QED
    BY <1>4, <1>7, <2>5 DEF RequestPhase
<1> QED
  BY <1>0, <1>12, <1>13

\* What a step that does not send keeps.
LEMMA UntouchedKeeps ==
  ASSUME Asking, NEW k, Untouched
  PROVE  /\ Asking' /\ script' = script /\ pii_mode' = pii_mode /\ sent' = sent
         /\ DueTo(k)' = DueTo(k) /\ ToldTo(k)' = ToldTo(k) /\ Ahead(k)' = Ahead(k) /\ (Chain(k) => Chain(k)')
<1>1. Asking'
  BY DEF Asking, Untouched
<1> QED
  BY <1>1, SameScript DEF Untouched

\* The numbers of a request that has begun.
LEMMA BegunNumbers ==
  ASSUME Asking, NEW k, Taken(k), Begun(k)
  PROVE  LET m == script[k + 1]
         IN /\ k # sent /\ k \in Nat /\ sent \in Nat /\ k < sent /\ k + 1 \in 0..sent /\ Len(raw) \in Nat /\ Len(HeadOf(m)) \in Nat
            /\ Len(Payload(m)) \in Nat /\ Len(Encoded(m)) \in Nat /\ Len(Encoded(m)) = Len(HeadOf(m)) + Len(Payload(m))
            /\ m.framing \in {"length", "chunked", "none"} /\ IsRequest(m) /\ IsMessage(m)
            /\ m.framing = "none" /\ pii_mode = "passthrough" => k + 1 = sent
            /\ Len(raw) >= Len(HeadOf(m))
<1> DEFINE m == script[k + 1]
<1>1. k \in 0..sent
  BY DEF Taken
<1>2. sent \in Nat /\ k \in Nat /\ Len(script) \in Nat /\ sent <= Len(script)
  BY <1>1, AheadIn
<1>3. k < sent /\ Len(raw) >= Len(HeadOf(m))
  BY DEF Begun
<1>4. k # sent /\ k + 1 \in 0..sent /\ k + 1 \in 1..Len(script)
  BY <1>2, <1>3
<1>5. IsMessage(m) /\ IsRequest(m)
  BY <1>1, <1>4, NextRequest
<1>6. m.framing \in {"length", "chunked", "none"}
  BY <1>5 DEF IsMessage
<1>7. Len(raw) \in Nat /\ Len(HeadOf(m)) \in Nat /\ Len(Payload(m)) \in Nat /\ Len(Encoded(m)) = Len(HeadOf(m)) + Len(Payload(m))
  BY <1>4, HeadRead
<1>8. m.framing = "none" /\ pii_mode = "passthrough" => k + 1 = Len(script)
  BY <1>4 DEF Asking, IsScript
<1>9. m.framing = "none" /\ pii_mode = "passthrough" => k + 1 = sent
  BY <1>2, <1>4, <1>8
<1> HIDE DEF m
<1>10. Len(Encoded(m)) \in Nat
  BY <1>7
<1> QED
  BY <1>2, <1>3, <1>4, <1>5, <1>6, <1>7, <1>9, <1>10 DEF m

\* The length that a header gives.
LEMMA LengthGiven ==
  ASSUME NEW m, IsRequest(m)
  PROVE  /\ Len(Body(m)) \in Nat /\ Len(Body(m)) # Absent
         /\ m.framing # "chunked" => Payload(m) = Body(m)
         /\ m.framing = "none" => Body(m) = <<>>
         /\ m.framing = "chunked" => Len(Payload(m)) # 0
<1>1. IsMessage(m) /\ (m.framing = "none" => m.chunks = <<>>)
  BY DEF IsRequest
<1>2. Body(m) \in Bytes
  BY <1>1, MessageProps
<1>3. Len(Body(m)) \in Nat /\ Len(Body(m)) # Absent
  BY <1>2, BytesLen DEF Absent
<1>4. m.framing # "chunked" => Payload(m) = Body(m)
  BY DEF Payload
<1>5. m.framing = "none" => Body(m) = <<>>
  BY <1>1 DEF Body, FlattenSeq
<1>6. ASSUME m.framing = "chunked" PROVE Len(Payload(m)) # 0
  <2>1. /\ Len(m.chunks) = 0 => Payload(m) = LastChunk
        /\ Len(m.chunks) # 0 => Ending(Payload(m), CRLF \o LastChunk)
    BY <1>1, <1>6, PayloadEnds
  <2>2. CASE Len(m.chunks) = 0
    BY <2>1, <2>2, Separators
  <2>3. CASE Len(m.chunks) # 0
    <3> DEFINE e == CRLF \o LastChunk
    <3>1. e \in Bytes /\ Len(e) = 7
      BY LastChunkEnd
    <3>2. Ending(Payload(m), e)
      BY <2>1, <2>3
    <3> HIDE DEF e
    <3>3. PICK x \in Bytes : Payload(m) = x \o e
      BY <3>2 DEF Ending
    <3>4. Len(x \o e) = Len(x) + Len(e) /\ Len(x) \in Nat
      BY <3>1, RowProps, BytesLen
    <3> QED
      BY <3>1, <3>3, <3>4
  <2> QED
    BY <2>2, <2>3
<1> QED
  BY <1>3, <1>4, <1>5, <1>6

\* handle_c2u_passthrough has all it needs in raw, and reads nothing.
LEMMA KeepRequestStep ==
  ASSUME Asking, NEW k, RequestPhase(k), KeepRequest
  PROVE  RequestPhase(k)'
<1> DEFINE m == script[k + 1]
<1>0. Taken(k) /\ (Waiting(k) \/ Begun(k))
  BY DEF RequestPhase
<1>1. Untouched /\ place = "read" /\ place' = "header" /\ out' = out /\ seen' = seen /\ raw' = raw /\ wire' = wire /\ st' = st
  BY DEF KeepRequest, Untouched
<1>2. ~NeedsMore
  BY DEF KeepRequest
<1>3. /\ script' = script /\ pii_mode' = pii_mode /\ sent' = sent
      /\ DueTo(k)' = DueTo(k) /\ ToldTo(k)' = ToldTo(k) /\ Ahead(k)' = Ahead(k) /\ (Chain(k) => Chain(k)')
  BY <1>1, UntouchedKeeps
<1>4. Taken(k)'
  BY <1>0, <1>1, <1>3 DEF Taken
<1>5. CASE Waiting(k)
  <2>1. Waiting(k)'
    BY <1>1, <1>3, <1>5 DEF Waiting, Idle
  <2> QED
    BY <1>4, <2>1 DEF RequestPhase
<1>6. CASE Begun(k)
  <2>1. k < sent /\ Len(raw) >= Len(HeadOf(m)) /\ (Kept(k, m) \/ \E f : Passed(k, m, f))
    BY <1>6 DEF Begun
  <2>2. ASSUME NEW f, Passed(k, m, f) PROVE FALSE
    <3>1. st = ForwardedOf(m, Len(raw) - Len(HeadOf(m)), f) /\ m.framing # "chunked"
          /\ (m.framing = "length" => Len(raw) < Len(Encoded(m)))
      BY <1>1, <2>2 DEF Passed, ForwardedOf
    <3>2. SaysOf(st, m, Len(raw) - Len(HeadOf(m)))
      BY <3>1, HeaderOfSays
    <3>3. /\ Len(Encoded(m)) = Len(HeadOf(m)) + Len(Payload(m)) /\ m.framing \in {"length", "chunked", "none"} /\ IsRequest(m)
      BY <1>0, <1>6, BegunNumbers
    <3>4. Payload(m) = Body(m) /\ Len(Body(m)) # Absent
      BY <3>1, <3>3, LengthGiven
    <3> HIDE DEF m
    <3>5. CASE m.framing = "length"
      <4>1. st.header_done /\ st.content_length # Absent /\ Len(raw) < st.body_start + st.content_length
        BY <3>1, <3>2, <3>3, <3>4, <3>5 DEF SaysOf
      <4>2. st.is_chunked = FALSE
        BY <3>2, <3>5 DEF SaysOf
      <4> QED
        BY <1>2, <4>1, <4>2 DEF NeedsMore
    <3>6. CASE m.framing = "none"
      <4>1. st.header_done /\ st.content_length = Absent /\ ~st.is_chunked
        BY <3>2, <3>6 DEF SaysOf
      <4> QED
        BY <1>2, <4>1 DEF NeedsMore
    <3> QED
      BY <3>1, <3>3, <3>5, <3>6
  <2>3. Kept(k, m)
    BY <2>1, <2>2
  <2>4. m' = m
    BY <1>3
  <2>5. Kept(k, m)'
    <3> HIDE DEF m
    <3> QED
      BY <1>1, <1>3, <2>3, <2>4 DEF Kept
  <2>6. Begun(k)'
    BY <1>1, <1>3, <2>1, <2>5 DEF Begun
  <2> QED
    BY <1>4, <2>6 DEF RequestPhase
<1> QED
  BY <1>0, <1>5, <1>6

\* The header of the next request is looked for.
LEMMA RequestHeaderStep ==
  ASSUME Asking, NEW k, RequestPhase(k), ParseRequestHeader
  PROVE  RequestPhase(k)'
<1> DEFINE m == script[k + 1]
           h == HeadOf(m)
           e == FindHeaderEnd(raw)
<1>0. Taken(k) /\ (Waiting(k) \/ Begun(k))
  BY DEF RequestPhase
<1>1. Untouched /\ place = "header" /\ out' = out /\ seen' = seen /\ raw' = raw /\ wire' = wire
  BY DEF ParseRequestHeader, Untouched
<1>2. /\ st.header_done => st' = st /\ place' = "body"
      /\ ~st.header_done /\ e = 0 => st' = st /\ place' = "read"
      /\ ~st.header_done /\ e # 0 => st' = HeaderState(Take(raw, e)) /\ place' = "body"
  BY DEF ParseRequestHeader
<1>3. /\ script' = script /\ pii_mode' = pii_mode /\ sent' = sent
      /\ DueTo(k)' = DueTo(k) /\ ToldTo(k)' = ToldTo(k) /\ Ahead(k)' = Ahead(k)
      /\ (Chain(k) => Chain(k)') /\ (Chain(k + 1) => Chain(k + 1)')
  BY <1>1, UntouchedKeeps
<1>4. Taken(k)'
  BY <1>0, <1>1, <1>3 DEF Taken
<1>k. k \in 0..sent /\ raw \in Bytes /\ wire \in Bytes /\ raw \o wire = Ahead(k) /\ k \in Nat /\ sent \in Nat /\ k <= sent /\ Len(raw) \in Nat
  BY <1>0, AheadIn, BytesLen DEF Taken
<1>5. CASE Waiting(k)
  <2>1. st = Idle /\ out = DueTo(k) /\ Chain(k) /\ ~st.header_done
    BY <1>5 DEF Waiting, Idle
  <2>2. CASE e = 0
    <3>1. st' = Idle /\ place' = "read"
      BY <1>2, <2>1, <2>2
    <3>2. FindHeaderEnd(raw') = 0
      BY <1>1, <2>2
    <3>3. Waiting(k)'
      BY <1>1, <1>3, <2>1, <3>1, <3>2 DEF Waiting, Idle
    <3> QED
      BY <1>4, <3>3 DEF RequestPhase
  <2>3. CASE e # 0
    <3>1. k # sent
      <4>1. SUFFICES ASSUME k = sent PROVE e = 0
        BY <2>3
      <4>2. raw \o wire = <<>>
        BY <1>k, <4>1, AheadIn
      <4>3. Len(raw \o wire) = Len(raw) + Len(wire) /\ Len(wire) \in Nat
        BY <1>k, RowProps, BytesLen
      <4>4. Len(raw) = 0
        BY <1>k, <4>2, <4>3, RowEmpty
      <4>5. Index(raw, Blank) \in 0..Len(raw)
        BY <1>k, Separators, IndexProps
      <4>6. Index(raw, Blank) = 0
        BY <4>4, <4>5
      <4> QED
        BY <4>6 DEF FindHeaderEnd
    <3>2. /\ e = (IF Len(raw) >= Len(h) THEN Len(h) ELSE 0) /\ Len(h) \in Nat
          /\ Len(raw) >= Len(h) => Take(raw, Len(h)) = h
      BY <1>0, <3>1, HeadRead
    <3>3. Len(raw) >= Len(h) /\ Take(raw, e) = h /\ IsMessage(m)
      <4>1. Len(raw) >= Len(h) /\ e = Len(h)
        BY <2>3, <3>2
      <4> QED
        BY <1>k, <3>1, <3>2, <4>1, NextRequest
    <3>4. st' = HeaderOf(m, Len(raw) - Len(h)) /\ place' = "body"
      <4>1. h = Header(HeaderLines(m))
        BY DEF HeadOf
      <4> HIDE DEF h, m, e
      <4>2. HeaderState(h) = HeaderOf(m, Len(raw) - Len(h))
        BY <2>1, <3>3, <4>1, HeaderStateIs
      <4> QED
        BY <1>2, <2>1, <2>3, <3>3, <4>2
    <3>5. k < sent /\ m' = m
      BY <1>3, <1>k, <3>1
    <3>6. CASE pii_mode = "pii" \/ m.framing = "chunked"
      <4>1. Kept(k, m)'
        <5> HIDE DEF m
        <5> QED
          BY <1>1, <1>3, <2>1, <3>4, <3>5, <3>6 DEF Kept, h
      <4>2. Begun(k)'
        BY <1>1, <1>3, <3>3, <3>5, <4>1 DEF Begun
      <4> QED
        BY <1>4, <4>2 DEF RequestPhase
    <3>7. CASE ~(pii_mode = "pii" \/ m.framing = "chunked")
      <4>1. k + 1 = sent
        <5>1. ~LeadsOn(k + 1)
          BY <3>7 DEF LeadsOn
        <5>2. k + 1 \notin (k + 1)..(sent - 1)
          BY <2>1, <5>1 DEF Chain
        <5> QED
          BY <1>k, <3>5, <5>2
      <4>2. Len(raw) <= Len(Encoded(m))
        BY <1>0, <3>1, <4>1, AllOfIt
      <4>3. st' = ForwardedOf(m, Len(raw) - Len(h), 0)
        BY <3>4, HeaderOfSays
      <4>4. Take(raw, 0) = <<>> /\ out = DueTo(k) \o Take(raw, 0)
        <5>1. Take(raw, 0) \in Bytes /\ Len(Take(raw, 0)) = 0
          <6>1. 0 \in 0..Len(raw)
            BY <1>k
          <6> QED
            BY <1>k, <6>1, TakeProps
        <5>2. Take(raw, 0) = <<>>
          BY <5>1, RowEmpty
        <5>3. DueTo(k) \in Bytes
          BY <1>k, AheadIn
        <5>4. DueTo(k) \o <<>> = DueTo(k)
          BY <5>3, RowEmpty
        <5> QED
          BY <2>1, <5>2, <5>4
      <4>5. Len(raw) > 0 /\ 0 \in 0..Len(raw)
        <5>1. Len(h) >= 4
          BY <1>0, <3>1, HeadRead
        <5> HIDE DEF h
        <5> QED
          BY <1>k, <3>2, <3>3, <5>1
      <4>6. Chain(k + 1)'
        <5>1. (k + 1 + 1)..(sent' - 1) = {}
          BY <1>3, <1>k, <4>1
        <5> QED
          BY <5>1 DEF Chain
      <4>7. pii_mode = "passthrough"
        BY <3>7 DEF Asking
      <4>8. Passed(k, m, 0)'
        <5>1. ~(sent' > k + 1)
          BY <1>3, <1>k, <4>1
        <5> HIDE DEF m
        <5> QED
          BY <1>1, <1>3, <3>4, <3>5, <3>7, <4>2, <4>3, <4>4, <4>5, <4>6, <4>7, <5>1 DEF Passed, ForwardedOf, h
      <4>9. Begun(k)'
        BY <1>1, <1>3, <3>3, <3>5, <4>8 DEF Begun
      <4> QED
        BY <1>4, <4>9 DEF RequestPhase
    <3> QED
      BY <3>6, <3>7
  <2> QED
    BY <2>2, <2>3
<1>6. CASE Begun(k)
  <2>1. k < sent /\ Len(raw) >= Len(HeadOf(m)) /\ (Kept(k, m) \/ \E f : Passed(k, m, f))
    BY <1>6 DEF Begun
  <2>m. m' = m
    BY <1>3
  <2>2. ASSUME Kept(k, m) PROVE Kept(k, m)'
    <3>1. st = HeaderOf(m, Len(raw) - Len(HeadOf(m)))
      BY <2>2 DEF Kept
    <3>2. st.header_done
      BY <3>1, HeaderOfSays DEF SaysOf
    <3> HIDE DEF m
    <3> QED
      BY <1>1, <1>2, <1>3, <2>2, <2>m, <3>2 DEF Kept
  <2>3. ASSUME NEW f, Passed(k, m, f) PROVE Passed(k, m, f)'
    <3>1. st = ForwardedOf(m, Len(raw) - Len(HeadOf(m)), f)
      BY <2>3 DEF Passed, ForwardedOf
    <3>2. st.header_done
      BY <3>1, HeaderOfSays DEF SaysOf
    <3> HIDE DEF m
    <3> QED
      BY <1>1, <1>2, <1>3, <2>3, <2>m, <3>2 DEF Passed
  <2>4. Begun(k)'
    BY <1>1, <1>3, <2>1, <2>2, <2>3 DEF Begun
  <2> QED
    BY <1>4, <2>4 DEF RequestPhase
<1> QED
  BY <1>0, <1>5, <1>6

\* Passthrough: what has come of a request that is not chunked is forwarded.
LEMMA ForwardEagerlyStep ==
  ASSUME Asking, NEW k, RequestPhase(k), ForwardEagerly
  PROVE  RequestPhase(k)'
<1> DEFINE m == script[k + 1]
<1>0. Taken(k) /\ (Waiting(k) \/ Begun(k))
  BY DEF RequestPhase
<1>1. Untouched /\ place = "body" /\ pii_mode = "passthrough" /\ place' = "complete" /\ seen' = seen /\ raw' = raw /\ wire' = wire
  BY DEF ForwardEagerly, Untouched
<1>2. /\ st.is_chunked => out' = out /\ st' = st
      /\ ~st.is_chunked => out' = out \o Drop(raw, st.forwarded) /\ st' = [st EXCEPT !.forwarded = Len(raw)]
  BY DEF ForwardEagerly
<1>3. /\ script' = script /\ pii_mode' = pii_mode /\ sent' = sent
      /\ DueTo(k)' = DueTo(k) /\ ToldTo(k)' = ToldTo(k) /\ Ahead(k)' = Ahead(k)
      /\ (Chain(k) => Chain(k)') /\ (Chain(k + 1) => Chain(k + 1)')
  BY <1>1, UntouchedKeeps
<1>4. Taken(k)'
  BY <1>0, <1>1, <1>3 DEF Taken
<1>5. Begun(k)
  BY <1>0, <1>1 DEF Waiting
<1>6. k < sent /\ Len(raw) >= Len(HeadOf(m)) /\ (Kept(k, m) \/ \E f : Passed(k, m, f))
  BY <1>5 DEF Begun
<1>m. m' = m
  BY <1>3
<1>7. ASSUME Kept(k, m) PROVE Kept(k, m)'
  <2>1. st = HeaderOf(m, Len(raw) - Len(HeadOf(m))) /\ m.framing = "chunked"
    BY <1>1, <1>7 DEF Kept
  <2>2. st.is_chunked
    BY <2>1, HeaderOfSays DEF SaysOf
  <2> HIDE DEF m
  <2> QED
    BY <1>1, <1>2, <1>3, <1>7, <1>m, <2>2 DEF Kept
<1>8. ASSUME NEW f, Passed(k, m, f) PROVE Passed(k, m, Len(raw))'
  <2> DEFINE b == Len(raw) - Len(HeadOf(m))
             z == Len(raw)
  <2>1. /\ st = ForwardedOf(m, b, f) /\ m.framing # "chunked" /\ f \in 0..Len(raw)
        /\ out = DueTo(k) \o Take(raw, f) /\ Chain(k + 1) /\ Len(raw) <= Len(Encoded(m))
        /\ ~(sent > k + 1)
    BY <1>1, <1>8 DEF Passed, ForwardedOf
  <2>2. st.is_chunked = (m.framing = "chunked") /\ st.forwarded = f
    BY <2>1, HeaderOfSays DEF SaysOf
  <2>3. out' = out \o Drop(raw, f) /\ st' = [st EXCEPT !.forwarded = Len(raw)]
    BY <1>2, <2>1, <2>2
  <2>4. st' = ForwardedOf(m, b, z)
    <3>1. [ForwardedOf(m, b, f) EXCEPT !.forwarded = z] = ForwardedOf(m, b, z)
      <4> HIDE DEF b, z
      <4> QED
        BY DEF ForwardedOf, HeaderOf
    <3> QED
      BY <2>1, <2>3, <3>1
  <2>5. raw \in Bytes /\ DueTo(k) \in Bytes /\ Len(raw) \in Nat
    BY <1>0, AheadIn, BytesLen DEF Taken
  <2>6. out' = DueTo(k) \o Take(raw, Len(raw))
    <3> DEFINE a == DueTo(k)
               x == Take(raw, f)
               y == Drop(raw, f)
    <3>1. x \in Bytes
      BY <2>1, <2>5, TakeProps
    <3>2. y \in Bytes
      BY <2>1, <2>5, DropProps
    <3>3. x \o y = raw /\ Take(raw, Len(raw)) = raw
      BY <2>1, <2>5, TakeDrop, TakeAll
    <3>4. out' = (a \o x) \o y /\ a \in Bytes
      BY <2>1, <2>3, <2>5
    <3>5. a \in Bytes /\ x \in Bytes /\ y \in Bytes
      BY <3>1, <3>2, <3>4
    <3> HIDE DEF a, x, y
    <3>6. (a \o x) \o y = a \o (x \o y)
      BY <3>5, RowAssoc
    <3>7. out' = a \o raw
      BY <3>3, <3>4, <3>6
    <3> QED
      BY <3>3, <3>7 DEF a
  <2>7. z \in 0..Len(raw)
    BY <2>5
  <2> HIDE DEF m
  <2> QED
    BY <1>1, <1>3, <1>m, <2>1, <2>4, <2>6, <2>7 DEF Passed, ForwardedOf
<1>9. Begun(k)'
  <2>1. CASE Kept(k, m)
    BY <1>1, <1>3, <1>6, <1>7, <2>1 DEF Begun
  <2>2. CASE \E f : Passed(k, m, f)
    <3>1. \E f : Passed(k, m, f)'
      BY <1>8, <2>2
    <3> QED
      BY <1>1, <1>3, <1>6, <3>1 DEF Begun
  <2> QED
    BY <1>6, <2>1, <2>2
<1> QED
  BY <1>4, <1>9 DEF RequestPhase

\* The end of a request without a length is not looked for.
LEMMA CompleteUnknownStep ==
  ASSUME Asking, NEW k, RequestPhase(k), CompleteUnknown
  PROVE  RequestPhase(k)'
<1> DEFINE m == script[k + 1]
<1>0. Taken(k) /\ (Waiting(k) \/ Begun(k))
  BY DEF RequestPhase
<1>1. /\ Untouched /\ place = "complete" /\ place' = "read" /\ seen' = seen /\ raw' = raw /\ wire' = wire /\ st' = st /\ out' = out
      /\ st.content_length = Absent /\ ~st.is_chunked
  BY DEF CompleteUnknown, Untouched
<1>3. /\ script' = script /\ pii_mode' = pii_mode /\ sent' = sent
      /\ DueTo(k)' = DueTo(k) /\ ToldTo(k)' = ToldTo(k) /\ Ahead(k)' = Ahead(k)
      /\ (Chain(k) => Chain(k)') /\ (Chain(k + 1) => Chain(k + 1)')
  BY <1>1, UntouchedKeeps
<1>4. Taken(k)'
  BY <1>0, <1>1, <1>3 DEF Taken
<1>5. Begun(k)
  BY <1>0, <1>1 DEF Waiting
<1>6. k < sent /\ Len(raw) >= Len(HeadOf(m)) /\ (Kept(k, m) \/ \E f : Passed(k, m, f))
  BY <1>5 DEF Begun
<1>m. m' = m
  BY <1>3
<1>7. ~Kept(k, m)
  <2>1. SUFFICES ASSUME Kept(k, m) PROVE FALSE
    OBVIOUS
  <2>2. st = HeaderOf(m, Len(raw) - Len(HeadOf(m))) /\ m.framing = "chunked"
    BY <1>1, <2>1 DEF Kept
  <2>3. st.is_chunked
    BY <2>2, HeaderOfSays DEF SaysOf
  <2> QED
    BY <1>1, <2>3
<1>8. ASSUME NEW f, Passed(k, m, f) PROVE Passed(k, m, f)'
  <2>1. st = ForwardedOf(m, Len(raw) - Len(HeadOf(m)), f) /\ pii_mode = "passthrough" /\ m.framing # "chunked"
    BY <1>8 DEF Passed, ForwardedOf
  <2>2. st.content_length = (IF m.framing = "length" THEN Len(Body(m)) ELSE Absent)
    BY <2>1, HeaderOfSays DEF SaysOf
  <2>3. IsRequest(m) /\ m.framing \in {"length", "chunked", "none"} /\ (m.framing = "none" /\ pii_mode = "passthrough" => k + 1 = sent) /\ k \in Nat /\ sent \in Nat
    BY <1>0, <1>5, BegunNumbers
  <2>4. Len(Body(m)) # Absent
    BY <2>3, LengthGiven
  <2>5. m.framing = "none"
    BY <1>1, <2>1, <2>2, <2>3, <2>4
  <2>6. ~(sent > k + 1)
    BY <2>1, <2>3, <2>5
  <2> HIDE DEF m
  <2> QED
    BY <1>1, <1>3, <1>8, <1>m, <2>5, <2>6 DEF Passed
<1>9. Begun(k)'
  BY <1>1, <1>3, <1>6, <1>7, <1>8 DEF Begun
<1> QED
  BY <1>4, <1>9 DEF RequestPhase

\* The next request is logged and taken out of raw.
LEMMA RequestTaken ==
  ASSUME Asking, NEW k, Taken(k), k # sent, Chain(k + 1), pii_mode = "pii" => k + 1 = sent,
         Len(raw) >= Len(Encoded(script[k + 1])), Untouched, wire' = wire, raw' = Drop(raw, Len(Encoded(script[k + 1]))),
         st' = Idle, place' = "read", seen' = Logged(Body(script[k + 1])),
         out' = DueTo(k) \o DueOf(pii_mode, script[k + 1])
  PROVE  RequestPhase(k + 1)'
<1> DEFINE j == k + 1
           m == script[j]
           b == Body(m)
<1>1. k \in 0..sent /\ seen = ToldTo(k)
  BY DEF Taken
<1>2. /\ j \in 0..sent /\ IsMessage(m) /\ DueTo(j) = DueTo(k) \o DueOf(pii_mode, m)
      /\ ToldTo(j) = ToldTo(k) \o BodiesOf(m)
  BY <1>1, NextRequest
<1>3. Drop(raw, Len(Encoded(m))) \in Bytes /\ Drop(raw, Len(Encoded(m))) \o wire = Ahead(j)
      /\ (j = sent => raw = Encoded(m) /\ wire = <<>>)
  BY AllOfIt
<1>4. /\ pii_mode' = pii_mode /\ sent' = sent
      /\ DueTo(j)' = DueTo(j) /\ ToldTo(j)' = ToldTo(j) /\ Ahead(j)' = Ahead(j) /\ (Chain(j) => Chain(j)')
  BY UntouchedKeeps
<1>5. seen' = ToldTo(j)
  <2>1. b \in Bytes
    BY <1>2, MessageProps
  <2>2. seen \in Seq(Bytes)
    BY <1>1, AheadIn
  <2>3. seen' = IF b = <<>> THEN seen ELSE Append(seen, b)
    BY DEF Logged
  <2>4. ToldTo(j) = seen \o (IF b = <<>> THEN <<>> ELSE <<b>>)
    BY <1>1, <1>2 DEF BodiesOf
  <2> HIDE DEF b
  <2>5. seen \o <<>> = seen /\ seen \o <<b>> = Append(seen, b)
    BY <2>1, <2>2
  <2> QED
    BY <2>3, <2>4, <2>5
<1>6. wire \in Bytes
  BY DEF Taken
<1> HIDE DEF j
<1>7. Taken(j)'
  BY <1>2, <1>3, <1>4, <1>5, <1>6 DEF Taken, j
<1>8. ASSUME pii_mode = "pii" PROVE FindHeaderEnd(raw') = 0
  <2>1. j = sent
    BY <1>8 DEF j
  <2>2. raw' \in Bytes /\ wire \in Bytes /\ raw' \o wire = <<>>
    <3>1. Ahead(j) = <<>>
      BY <1>2, <2>1, AheadIn
    <3> QED
      BY <1>3, <1>6, <3>1 DEF j
  <2>3. Len(raw' \o wire) = Len(raw') + Len(wire) /\ Len(wire) \in Nat /\ Len(raw') \in Nat
    BY <2>2, RowProps, BytesLen
  <2>4. Len(raw') = 0
    BY <2>2, <2>3, RowEmpty
  <2>5. Index(raw', Blank) \in 0..Len(raw')
    BY <2>2, Separators, IndexProps
  <2>6. Index(raw', Blank) = 0
    BY <2>4, <2>5
  <2> QED
    BY <2>6 DEF FindHeaderEnd
<1>9. Waiting(j)'
  <2>1. Idle' = Idle
    BY DEF Idle
  <2>2. Chain(j)'
    BY <1>4 DEF j
  <2>3. out' = DueTo(j)'
    BY <1>2, <1>4 DEF j
  <2>4. pii_mode' = "pii" => FindHeaderEnd(raw)' = 0
    BY <1>4, <1>8
  <2> QED
    BY <2>1, <2>2, <2>3, <2>4 DEF Waiting
<1>10. RequestPhase(j)'
  BY <1>7, <1>9 DEF RequestPhase
<1> QED
  BY <1>10 DEF j

\* A request with a length is complete once all of it has come.
LEMMA CompleteLengthStep ==
  ASSUME Asking, NEW k, RequestPhase(k), CompleteLength
  PROVE  RequestPhase(k)' \/ RequestPhase(k + 1)'
<1> DEFINE m == script[k + 1]
           h == HeadOf(m)
           e == Encoded(m)
           n == st.body_start + st.content_length
<1>0. Taken(k) /\ (Waiting(k) \/ Begun(k))
  BY DEF RequestPhase
<1>1. Untouched /\ place = "complete" /\ place' = "read" /\ wire' = wire /\ out' = out /\ st.content_length # Absent
  BY DEF CompleteLength, Untouched
<1>2. /\ Len(raw) >= n => seen' = Logged(Take(Drop(raw, st.body_start), st.content_length)) /\ raw' = Drop(raw, n) /\ st' = Idle
      /\ ~(Len(raw) >= n) => seen' = seen /\ raw' = raw /\ st' = st
  BY DEF CompleteLength, Consume, BodySoFar
<1>3. /\ script' = script /\ pii_mode' = pii_mode /\ sent' = sent
      /\ DueTo(k)' = DueTo(k) /\ ToldTo(k)' = ToldTo(k) /\ Ahead(k)' = Ahead(k) /\ (Chain(k + 1) => Chain(k + 1)')
  BY <1>1, UntouchedKeeps
<1>5. Begun(k)
  BY <1>0, <1>1 DEF Waiting
<1>6. k < sent /\ Len(raw) >= Len(HeadOf(m)) /\ (Kept(k, m) \/ \E f : Passed(k, m, f))
  BY <1>5 DEF Begun
<1>m. m' = m
  BY <1>3
<1>7. ~Kept(k, m)
  <2>1. SUFFICES ASSUME Kept(k, m) PROVE FALSE
    OBVIOUS
  <2>2. st = HeaderOf(m, Len(raw) - Len(HeadOf(m))) /\ m.framing = "chunked"
    BY <1>1, <2>1 DEF Kept
  <2>3. SaysOf(st, m, Len(raw) - Len(HeadOf(m)))
    BY <2>2, HeaderOfSays
  <2> HIDE DEF m
  <2> QED
    BY <1>1, <2>2, <2>3 DEF SaysOf
<1>8. PICK f : Passed(k, m, f)
  BY <1>6, <1>7
<1>9. /\ st = ForwardedOf(m, Len(raw) - Len(h), f) /\ pii_mode = "passthrough" /\ m.framing # "chunked" /\ f = Len(raw)
      /\ out = DueTo(k) \o Take(raw, f) /\ Chain(k + 1) /\ Len(raw) <= Len(e)
      /\ sent > k + 1 => Len(raw) = Len(e)
  BY <1>1, <1>8 DEF Passed, ForwardedOf
<1>10. /\ k # sent /\ k \in Nat /\ sent \in Nat /\ Len(raw) \in Nat /\ Len(h) \in Nat /\ Len(e) \in Nat
       /\ Len(e) = Len(h) + Len(Payload(m)) /\ m.framing \in {"length", "chunked", "none"} /\ IsRequest(m)
  BY <1>0, <1>5, BegunNumbers
<1>11. SaysOf(st, m, Len(raw) - Len(h))
  BY <1>9, HeaderOfSays
<1>12. Len(Body(m)) # Absent /\ Payload(m) = Body(m)
  BY <1>9, <1>10, LengthGiven
<1>13. m.framing = "length" /\ st.content_length = Len(Payload(m)) /\ st.body_start = Len(h)
  BY <1>1, <1>9, <1>10, <1>11, <1>12 DEF SaysOf
<1>14. n = Len(e)
  BY <1>10, <1>13
<1>15. CASE Len(raw) >= Len(e)
  <2>1. Take(raw, Len(e)) = e /\ Take(Drop(raw, Len(h)), Len(Payload(m))) = Payload(m)
    BY <1>0, <1>10, <1>15, AllOfIt
  <2>2. Len(raw) >= n
    BY <1>14, <1>15
  <2>3. seen' = Logged(Body(m)) /\ raw' = Drop(raw, Len(e)) /\ st' = Idle
    BY <1>2, <1>12, <1>13, <1>14, <2>1, <2>2
  <2>4. Len(raw) = Len(e)
    BY <1>9, <1>10, <1>15
  <2>5. DueOf(pii_mode, m) = e
    BY <1>9 DEF DueOf
  <2>6. out' = DueTo(k) \o DueOf(pii_mode, m)
    BY <1>1, <1>9, <2>1, <2>4, <2>5
  <2>7. RequestPhase(k + 1)'
    BY <1>0, <1>1, <1>9, <1>10, <1>15, <2>3, <2>6, RequestTaken
  <2> QED
    BY <2>7
<1>16. CASE ~(Len(raw) >= Len(e))
  <2>1. seen' = seen /\ raw' = raw /\ st' = st
    BY <1>2, <1>14, <1>16
  <2>2. Taken(k)'
    BY <1>0, <1>1, <1>3, <2>1 DEF Taken
  <2>3. ~(sent > k + 1) /\ Len(raw) < Len(e)
    BY <1>9, <1>10, <1>16
  <2> HIDE DEF m, n
  <2>4. Passed(k, m, f)'
    BY <1>1, <1>3, <1>8, <1>9, <1>m, <2>1, <2>3, <1>13 DEF Passed
  <2>5. Begun(k)'
    BY <1>1, <1>3, <1>6, <2>1, <2>4 DEF Begun, m
  <2> QED
    BY <2>2, <2>5 DEF RequestPhase
<1> QED
  BY <1>15, <1>16

\* The end of a chunked request is found when all of it has come.
LEMMA RequestEnds ==
  ASSUME Asking, NEW k, Taken(k), Begun(k), Chain(k), script[k + 1].framing = "chunked"
  PROVE  LET m == script[k + 1]
             e == Encoded(m)
             p == Payload(m)
             r == Drop(raw, Len(HeadOf(m)))
         IN /\ FindChunkedBodyEnd(r) = IF Len(raw) >= Len(e) THEN Len(p) ELSE 0
            /\ Len(raw) >= Len(e) => DecodeChunkedBody(Take(r, Len(p))) = Decoded(Body(m))
<1> DEFINE m == script[k + 1]
           h == HeadOf(m)
           e == Encoded(m)
           p == Payload(m)
           x == Ahead(k + 1)
           r == Drop(raw, Len(h))
<1>1. /\ k # sent /\ k \in Nat /\ sent \in Nat /\ k < sent /\ k + 1 \in 0..sent /\ Len(raw) \in Nat /\ Len(h) \in Nat
      /\ Len(p) \in Nat /\ Len(e) = Len(h) + Len(p) /\ IsRequest(m) /\ IsMessage(m) /\ Len(raw) >= Len(h)
  BY BegunNumbers
<1>2. r \in Bytes /\ Len(r) = Len(raw) - Len(h) /\ Meet(r, wire, p, x)
  BY <1>1, HeadRead
<1>3. x \in Bytes /\ (k + 1 = sent => x = <<>>)
  BY <1>1, AheadIn
<1>4. Len(m.chunks) # 0 \/ x = <<>>
  <2>1. CASE k + 1 = sent
    BY <1>3, <2>1
  <2>2. CASE k + 1 # sent
    <3>1. k + 1 \in (k + 1)..(sent - 1)
      BY <1>1, <2>2
    <3>2. m.chunks # <<>>
      BY <3>1 DEF Chain, LeadsOn
    <3>3. m.chunks \in Seq(Bytes)
      BY <1>1 DEF IsMessage
    <3> HIDE DEF m
    <3> QED
      BY <3>2, <3>3
  <2> QED
    BY <2>1, <2>2
<1>5. wire \in Bytes /\ LastChunkApart(m)
  BY <1>1 DEF Taken, IsRequest
<1>6. FindChunkedBodyEnd(r) = IF Len(r) >= Len(p) THEN Len(p) ELSE 0
  <2> HIDE DEF m, x, r
  <2> QED
    BY <1>1, <1>2, <1>3, <1>4, <1>5, BodyEnds DEF m
<1>7. Len(raw) >= Len(e) => Take(r, Len(p)) = p
  BY <1>1, AllOfIt
<1>8. DecodeChunkedBody(p) = Decoded(Body(m))
  BY <1>1, BodyDecoded
<1>9. Len(r) >= Len(p) <=> Len(raw) >= Len(e)
  BY <1>1, <1>2
<1> QED
  BY <1>6, <1>7, <1>8, <1>9

\* A chunked request is rebuilt and sent on once all of it has come.
LEMMA CompleteChunkedStep ==
  ASSUME Asking, NEW k, RequestPhase(k), CompleteChunked
  PROVE  RequestPhase(k)' \/ RequestPhase(k + 1)'
<1> DEFINE m == script[k + 1]
           h == HeadOf(m)
           e == Encoded(m)
           p == Payload(m)
           end == FindChunkedBodyEnd(Drop(raw, st.body_start))
           got == DecodeChunkedBody(Take(Drop(raw, st.body_start), end))
<1>0. Taken(k) /\ (Waiting(k) \/ Begun(k))
  BY DEF RequestPhase
<1>1. Untouched /\ place = "complete" /\ wire' = wire /\ st.is_chunked
  BY DEF CompleteChunked, Untouched
<1>2. /\ end = 0 => place' = "read" /\ raw' = raw /\ st' = st /\ out' = out /\ seen' = seen
      /\ end # 0 /\ got.res = "some" => /\ out' = out \o Rebuilt(Take(raw, st.body_start), got.body)
                                        /\ seen' = Logged(got.body) /\ place' = "read"
                                        /\ raw' = Drop(raw, st.body_start + end) /\ st' = Idle
  <2>1. /\ end = 0 => place' = "read" /\ raw' = raw /\ st' = st /\ out' = out /\ seen' = seen
        /\ end # 0 /\ got.res # "panic" =>
             /\ got.res = "some" => out' = out \o Rebuilt(Take(raw, st.body_start), got.body) /\ seen' = Logged(got.body)
             /\ place' = "read" /\ raw' = Drop(raw, st.body_start + end) /\ st' = Idle
    BY Zenon DEF CompleteChunked, Consume, BodySoFar
  <2> HIDE DEF end, got
  <2>2. got.res = "some" => got.res # "panic"
    OBVIOUS
  <2> QED
    BY <2>1, <2>2, Zenon
<1>3. /\ script' = script /\ pii_mode' = pii_mode /\ sent' = sent
      /\ DueTo(k)' = DueTo(k) /\ ToldTo(k)' = ToldTo(k) /\ Ahead(k)' = Ahead(k) /\ (Chain(k) => Chain(k)')
  BY <1>1, UntouchedKeeps
<1>5. Begun(k)
  BY <1>0, <1>1 DEF Waiting
<1>6. k < sent /\ Len(raw) >= Len(HeadOf(m)) /\ (Kept(k, m) \/ \E f : Passed(k, m, f))
  BY <1>5 DEF Begun
<1>m. m' = m
  BY <1>3
<1>7. ASSUME NEW f, Passed(k, m, f) PROVE FALSE
  <2>1. st = ForwardedOf(m, Len(raw) - Len(h), f) /\ m.framing # "chunked"
    BY <1>7 DEF Passed, ForwardedOf
  <2>2. SaysOf(st, m, Len(raw) - Len(h))
    BY <2>1, HeaderOfSays
  <2> HIDE DEF m
  <2> QED
    BY <1>1, <2>1, <2>2 DEF SaysOf
<1>8. Kept(k, m)
  BY <1>6, <1>7
<1>9. /\ st = HeaderOf(m, Len(raw) - Len(h)) /\ pii_mode = "passthrough" /\ m.framing = "chunked"
      /\ out = DueTo(k) /\ Chain(k)
  BY <1>1, <1>8 DEF Kept
<1>10. /\ k # sent /\ k \in Nat /\ sent \in Nat /\ Len(raw) \in Nat /\ Len(h) \in Nat /\ Len(e) \in Nat
       /\ Len(e) = Len(h) + Len(p) /\ IsRequest(m) /\ IsMessage(m)
  BY <1>0, <1>5, BegunNumbers
<1>11. SaysOf(st, m, Len(raw) - Len(h))
  BY <1>9, HeaderOfSays
<1>12. st.body_start = Len(h)
  BY <1>11 DEF SaysOf
<1>13. /\ end = IF Len(raw) >= Len(e) THEN Len(p) ELSE 0
       /\ Len(raw) >= Len(e) => got = Decoded(Body(m))
  <2>1. /\ FindChunkedBodyEnd(Drop(raw, Len(h))) = IF Len(raw) >= Len(e) THEN Len(p) ELSE 0
        /\ Len(raw) >= Len(e) => DecodeChunkedBody(Take(Drop(raw, Len(h)), Len(p))) = Decoded(Body(m))
    BY <1>0, <1>5, <1>9, RequestEnds
  <2> QED
    BY <1>12, <2>1
<1> HIDE DEF end, got
<1>14. Len(p) # 0
  BY <1>9, <1>10, LengthGiven
<1>15. CASE Len(raw) >= Len(e)
  <2>1. end = Len(p) /\ end # 0 /\ got.res = "some" /\ got.body = Body(m)
    BY <1>13, <1>14, <1>15 DEF Decoded
  <2>2. Take(raw, Len(h)) = h /\ h = Header(HeaderLines(m))
    BY <1>0, <1>6, <1>10, HeadRead DEF HeadOf
  <2>3. Rebuilt(Header(HeaderLines(m)), Body(m)) = NewHead(Body(m)) \o Body(m)
    BY <1>10, RebuiltIs DEF IsRequest
  <2>4. DueOf(pii_mode, m) = NewHead(Body(m)) \o Body(m)
    BY <1>9, Zenon DEF DueOf
  <2>5. out' = DueTo(k) \o DueOf(pii_mode, m)
    BY <1>2, <1>9, <1>12, <2>1, <2>2, <2>3, <2>4, Zenon
  <2>6. st.body_start + end = Len(e)
    BY <1>10, <1>12, <2>1
  <2>7. seen' = Logged(Body(m)) /\ raw' = Drop(raw, Len(e)) /\ st' = Idle /\ place' = "read"
    BY <1>2, <2>1, <2>6, Zenon
  <2>8. Chain(k + 1)
    BY <1>9, <1>10 DEF Chain
  <2>9. RequestPhase(k + 1)'
    BY <1>0, <1>1, <1>9, <1>10, <1>15, <2>5, <2>7, <2>8, RequestTaken
  <2> QED
    BY <2>9
<1>16. CASE ~(Len(raw) >= Len(e))
  <2>1. place' = "read" /\ raw' = raw /\ st' = st /\ out' = out /\ seen' = seen
    BY <1>2, <1>13, <1>16
  <2>2. Taken(k)'
    BY <1>0, <1>1, <1>3, <2>1 DEF Taken
  <2>3. Len(raw) < Len(e)
    BY <1>10, <1>16
  <2> HIDE DEF m
  <2>4. Kept(k, m)'
    BY <1>1, <1>3, <1>8, <1>9, <1>m, <2>1, <2>3 DEF Kept
  <2>5. Begun(k)'
    BY <1>1, <1>3, <1>6, <2>1, <2>4 DEF Begun, m
  <2> QED
    BY <2>2, <2>5 DEF RequestPhase
<1> QED
  BY <1>15, <1>16

\* The length of the body that handle_c2u_pii takes, and what it makes of it.
TakenLength ==
  IF st.is_chunked THEN FindChunkedBodyEnd(BodySoFar)
  ELSE IF st.content_length # Absent THEN st.content_length ELSE st.body_received
TakenBody ==
  IF st.is_chunked THEN DecodeChunkedBody(Take(BodySoFar, TakenLength)) ELSE Decoded(Take(BodySoFar, TakenLength))

\* handle_c2u_pii waits for all of a request, and takes its body.
LEMMA WholeRequest ==
  ASSUME Asking, NEW k, Taken(k), Begun(k), Kept(k, script[k + 1]), pii_mode = "pii"
  PROVE  LET m == script[k + 1]
             e == Encoded(m)
         IN /\ k + 1 = sent
            /\ BodyDone <=> Len(raw) >= Len(e)
            /\ BodyDone => TakenLength = Len(Payload(m)) /\ TakenBody = Decoded(Body(m)) /\ st.body_start = Len(HeadOf(m))
<1> DEFINE m == script[k + 1]
           h == HeadOf(m)
           e == Encoded(m)
           p == Payload(m)
           r == Drop(raw, Len(h))
<1>1. /\ k # sent /\ k \in Nat /\ sent \in Nat /\ k < sent /\ Len(raw) \in Nat /\ Len(h) \in Nat /\ Len(e) \in Nat
      /\ Len(p) \in Nat /\ Len(e) = Len(h) + Len(p) /\ IsRequest(m) /\ IsMessage(m) /\ Len(raw) >= Len(h)
      /\ m.framing \in {"length", "chunked", "none"}
  BY BegunNumbers
<1>2. st = HeaderOf(m, Len(raw) - Len(h)) /\ Chain(k)
  BY DEF Kept
<1>3. SaysOf(st, m, Len(raw) - Len(h))
  BY <1>2, HeaderOfSays
<1>4. /\ st.content_length = (IF m.framing = "length" THEN Len(Body(m)) ELSE Absent)
      /\ st.is_chunked = (m.framing = "chunked") /\ st.body_start = Len(h) /\ st.body_received = Len(raw) - Len(h)
  BY <1>3 DEF SaysOf
<1>5. k + 1 = sent
  <2>1. ~LeadsOn(k + 1)
    BY DEF LeadsOn
  <2>2. k + 1 \notin (k + 1)..(sent - 1)
    BY <1>2, <2>1 DEF Chain
  <2> QED
    BY <1>1, <2>2
<1>6. Len(raw) <= Len(e) /\ (Len(raw) >= Len(e) => Take(r, Len(p)) = p)
  BY <1>1, <1>5, AllOfIt
<1>7. BodySoFar = r
  BY <1>4 DEF BodySoFar
<1>8. /\ Len(Body(m)) \in Nat /\ Len(Body(m)) # Absent /\ (m.framing # "chunked" => p = Body(m))
      /\ (m.framing = "none" => Body(m) = <<>>) /\ (m.framing = "chunked" => Len(p) # 0)
  BY <1>1, LengthGiven
<1>9. CASE m.framing = "chunked"
  <2>1. /\ FindChunkedBodyEnd(r) = IF Len(raw) >= Len(e) THEN Len(p) ELSE 0
        /\ Len(raw) >= Len(e) => DecodeChunkedBody(Take(r, Len(p))) = Decoded(Body(m))
    BY <1>2, <1>9, RequestEnds
  <2> HIDE DEF m, h, e, p, r
  <2>2. st.content_length = Absent /\ st.is_chunked
    BY <1>4, <1>9
  <2>3. BodyDone <=> FindChunkedBodyEnd(r) > 0
    BY <1>7, <2>2 DEF BodyDone
  <2>4. TakenLength = FindChunkedBodyEnd(r) /\ TakenBody = DecodeChunkedBody(Take(r, TakenLength))
    BY <1>7, <2>2 DEF TakenLength, TakenBody
  <2>5. Len(p) > 0
    BY <1>1, <1>8, <1>9
  <2>6. BodyDone <=> Len(raw) >= Len(e)
    BY <2>1, <2>3, <2>5
  <2>7. BodyDone => TakenLength = Len(p) /\ TakenBody = Decoded(Body(m))
    BY <2>1, <2>4, <2>6
  <2> QED
    BY <1>4, <1>5, <2>6, <2>7 DEF m, h, e, p
<1>10. CASE m.framing = "length"
  <2> HIDE DEF m, h, e, p, r
  <2>2. st.content_length = Len(p) /\ st.content_length # Absent /\ st.is_chunked = FALSE /\ p = Body(m)
    BY <1>4, <1>8, <1>10
  <2>3. BodyDone <=> Len(raw) - Len(h) >= Len(p)
    BY <1>4, <2>2 DEF BodyDone
  <2>4. TakenLength = Len(p) /\ TakenBody = Decoded(Take(r, Len(p)))
    BY <1>7, <2>2 DEF TakenLength, TakenBody
  <2>5. BodyDone <=> Len(raw) >= Len(e)
    BY <1>1, <2>3
  <2>6. BodyDone => TakenBody = Decoded(Body(m))
    BY <1>6, <2>2, <2>4, <2>5
  <2> QED
    BY <1>4, <1>5, <2>4, <2>5, <2>6 DEF m, h, e, p
<1>11. CASE m.framing = "none"
  <2> HIDE DEF m, h, e, p, r
  <2>1. Len(p) = 0 /\ p = Body(m)
    BY <1>8, <1>11, RowEmpty
  <2>2. st.content_length = Absent /\ st.is_chunked = FALSE
    BY <1>4, <1>11
  <2>3. BodyDone
    BY <2>2 DEF BodyDone
  <2>4. Len(raw) >= Len(e) /\ st.body_received = Len(p)
    BY <1>1, <1>4, <1>6, <2>1
  <2>5. TakenLength = Len(p) /\ TakenBody = Decoded(Take(r, Len(p)))
    BY <1>7, <2>2, <2>4 DEF TakenLength, TakenBody
  <2>6. TakenBody = Decoded(Body(m))
    BY <1>6, <2>1, <2>4, <2>5
  <2> QED
    BY <1>4, <1>5, <2>3, <2>4, <2>5, <2>6 DEF m, h, e, p
<1> QED
  BY <1>1, <1>9, <1>10, <1>11

\* handle_c2u_pii: a request that is there is masked and sent on.
LEMMA ForwardMaskedStep ==
  ASSUME Asking, NEW k, RequestPhase(k), ForwardMasked
  PROVE  RequestPhase(k)' \/ RequestPhase(k + 1)'
<1> DEFINE m == script[k + 1]
           h == HeadOf(m)
           e == Encoded(m)
           n == TakenLength
           got == TakenBody
           b == Masked(Body(m))
<1>0. Taken(k) /\ (Waiting(k) \/ Begun(k))
  BY DEF RequestPhase
<1>1. Untouched /\ place = "body" /\ wire' = wire /\ pii_mode = "pii"
  BY DEF ForwardMasked, Untouched
<1>2. /\ ~BodyDone => place' = "read" /\ raw' = raw /\ st' = st /\ out' = out /\ seen' = seen
      /\ BodyDone /\ got.res = "some" => /\ out' = out \o Rebuilt(Take(raw, st.body_start), Masked(got.body))
                                         /\ seen' = Logged(got.body) /\ place' = "read"
                                         /\ raw' = Drop(raw, st.body_start + n) /\ st' = Idle
  <2> DEFINE body == IF got.res = "some" THEN got.body ELSE Take(BodySoFar, n)
  <2>1. /\ ~BodyDone => place' = "read" /\ raw' = raw /\ st' = st /\ out' = out /\ seen' = seen
        /\ BodyDone /\ got.res # "panic" =>
             /\ out' = out \o Rebuilt(Take(raw, st.body_start), Masked(body)) /\ seen' = Logged(body)
             /\ place' = "read" /\ raw' = Drop(raw, st.body_start + n) /\ st' = Idle
    BY Zenon DEF ForwardMasked, Consume, TakenLength, TakenBody
  <2> HIDE DEF n, got
  <2>2. got.res = "some" => got.res # "panic" /\ body = got.body
    OBVIOUS
  <2> HIDE DEF body
  <2> QED
    BY <2>1, <2>2, Zenon
<1>3. /\ script' = script /\ pii_mode' = pii_mode /\ sent' = sent
      /\ DueTo(k)' = DueTo(k) /\ ToldTo(k)' = ToldTo(k) /\ Ahead(k)' = Ahead(k) /\ (Chain(k) => Chain(k)')
  BY <1>1, UntouchedKeeps
<1>5. Begun(k)
  BY <1>0, <1>1 DEF Waiting
<1>6. k < sent /\ Len(raw) >= Len(HeadOf(m)) /\ (Kept(k, m) \/ \E f : Passed(k, m, f))
  BY <1>5 DEF Begun
<1>m. m' = m
  BY <1>3
<1>8. Kept(k, m)
  <2>1. \A f : ~Passed(k, m, f)
    BY <1>1 DEF Passed
  <2> QED
    BY <1>6, <2>1
<1>9. out = DueTo(k) /\ Chain(k)
  BY <1>8 DEF Kept
<1>10. /\ k # sent /\ k \in Nat /\ sent \in Nat /\ Len(raw) \in Nat /\ Len(h) \in Nat /\ Len(e) \in Nat
       /\ Len(e) = Len(h) + Len(Payload(m)) /\ IsRequest(m) /\ IsMessage(m)
  BY <1>0, <1>5, BegunNumbers
<1>11. /\ k + 1 = sent /\ (BodyDone <=> Len(raw) >= Len(e))
       /\ BodyDone => n = Len(Payload(m)) /\ got = Decoded(Body(m)) /\ st.body_start = Len(h)
  BY <1>0, <1>1, <1>5, <1>8, WholeRequest
<1> HIDE DEF n, got
<1>12. CASE BodyDone
  <2>1. n = Len(Payload(m)) /\ got.res = "some" /\ got.body = Body(m) /\ st.body_start = Len(h) /\ Len(raw) >= Len(e)
    BY <1>11, <1>12 DEF Decoded
  <2>2. Take(raw, Len(h)) = h /\ h = Header(HeaderLines(m))
    BY <1>0, <1>6, <1>10, HeadRead DEF HeadOf
  <2>3. Rebuilt(Header(HeaderLines(m)), b) = NewHead(b) \o b
    BY <1>10, RebuiltIs DEF IsRequest
  <2>4. DueOf(pii_mode, m) = NewHead(b) \o b
    BY <1>1, Zenon DEF DueOf
  <2>5. out' = DueTo(k) \o DueOf(pii_mode, m)
    BY <1>2, <1>9, <1>12, <2>1, <2>2, <2>3, <2>4, Zenon
  <2>6. st.body_start + n = Len(e)
    BY <1>10, <2>1
  <2>7. seen' = Logged(Body(m)) /\ raw' = Drop(raw, Len(e)) /\ st' = Idle /\ place' = "read"
    BY <1>2, <1>12, <2>1, <2>6, Zenon
  <2>8. Chain(k + 1)
    BY <1>9, <1>10 DEF Chain
  <2>9. RequestPhase(k + 1)'
    BY <1>0, <1>1, <1>9, <1>10, <1>11, <2>1, <2>5, <2>7, <2>8, RequestTaken
  <2> QED
    BY <2>9
<1>13. CASE ~BodyDone
  <2>1. place' = "read" /\ raw' = raw /\ st' = st /\ out' = out /\ seen' = seen
    BY <1>2, <1>13
  <2>2. Taken(k)'
    BY <1>0, <1>1, <1>3, <2>1 DEF Taken
  <2>3. Len(raw) < Len(e)
    BY <1>10, <1>11, <1>13
  <2> HIDE DEF m
  <2>4. Kept(k, m)'
    BY <1>1, <1>3, <1>8, <1>9, <1>m, <2>1, <2>3 DEF Kept
  <2>5. Begun(k)'
    BY <1>1, <1>3, <1>6, <2>1, <2>4 DEF Begun, m
  <2> QED
    BY <2>2, <2>5 DEF RequestPhase
<1> QED
  BY <1>12, <1>13

\* All that was sent has been read: nothing is left of the requests, or a last
\* one without a length.
LEMMA NothingLeft ==
  ASSUME Asking, NEW k, RequestPhase(k), AllRead
  PROVE  LET m == script[k + 1]
         IN \/ Waiting(k) /\ k = sent /\ raw = <<>>
            \/ /\ k + 1 = sent /\ k # sent /\ Begun(k) /\ m.framing = "none" /\ raw = Encoded(m)
               /\ Passed(k, m, Len(raw)) /\ place \in {"read", "done"}
<1> DEFINE m == script[k + 1]
           h == HeadOf(m)
           e == Encoded(m)
<1>0. Taken(k) /\ (Waiting(k) \/ Begun(k))
  BY DEF RequestPhase
<1>1. wire = <<>> /\ (place = "done" \/ (place = "read" /\ NeedsMore))
  BY DEF AllRead, Asking
<1>2. k \in 0..sent /\ raw \in Bytes /\ wire \in Bytes /\ raw \o wire = Ahead(k)
  BY <1>0 DEF Taken
<1>3. CASE Waiting(k)
  <2>1. ASSUME k # sent PROVE FALSE
    <3>1. Len(raw) >= Len(e)
      BY <1>0, <1>1, <2>1, AllOfIt
    <3>2. /\ FindHeaderEnd(raw) = (IF Len(raw) >= Len(h) THEN Len(h) ELSE 0)
          /\ Len(h) \in Nat /\ Len(h) >= 4 /\ Len(raw) \in Nat /\ Len(Payload(m)) \in Nat /\ Len(e) = Len(h) + Len(Payload(m))
      BY <1>0, <2>1, HeadRead
    <3> HIDE DEF m, h, e
    <3>3. FindHeaderEnd(raw) # 0
      BY <3>1, <3>2
    <3>4. place # "done" /\ ~st.header_done /\ (pii_mode = "pii" /\ place = "read" => FindHeaderEnd(raw) = 0)
      BY <1>3, <2>1 DEF Waiting, Idle
    <3>5. NeedsMore /\ pii_mode # "pii"
      BY <1>1, <3>3, <3>4
    <3> QED
      BY <3>3, <3>4, <3>5 DEF NeedsMore
  <2>2. k = sent /\ Ahead(k) = <<>>
    BY <1>2, <2>1, AheadIn
  <2>3. raw \o <<>> = raw
    BY <1>2, RowEmpty
  <2> QED
    BY <1>1, <1>2, <1>3, <2>2, <2>3
<1>4. CASE Begun(k)
  <2>1. k < sent /\ (Kept(k, m) \/ \E f : Passed(k, m, f))
    BY <1>4 DEF Begun
  <2>2. /\ k # sent /\ Len(raw) \in Nat /\ Len(e) \in Nat /\ m.framing \in {"length", "chunked", "none"}
        /\ (m.framing = "none" /\ pii_mode = "passthrough" => k + 1 = sent)
    BY <1>0, <1>4, BegunNumbers
  <2>3. Len(raw) >= Len(e)
    BY <1>0, <1>1, <2>2, AllOfIt
  <2>4. ~Kept(k, m)
    BY <1>1, <2>2, <2>3 DEF Kept
  <2>5. PICK f : Passed(k, m, f)
    BY <2>1, <2>4
  <2>6. /\ pii_mode = "passthrough" /\ m.framing # "chunked" /\ place \in {"read", "done"} /\ f = Len(raw)
        /\ (place = "read" /\ m.framing = "length" => Len(raw) < Len(e))
        /\ (place = "done" => m.framing = "none")
    BY <1>1, <2>5 DEF Passed
  <2>7. m.framing = "none" /\ k + 1 = sent
    BY <2>2, <2>3, <2>6
  <2>8. raw = e
    BY <1>0, <2>2, <2>3, <2>7, AllOfIt
  <2>9. Passed(k, m, Len(raw))
    BY <2>5, <2>6
  <2> QED
    BY <1>4, <2>2, <2>6, <2>7, <2>8, <2>9
<1> QED
  BY <1>0, <1>3, <1>4

\* The client has sent its last request and closes.
LEMMA RequestEofStep ==
  ASSUME Asking, NEW k, RequestPhase(k), RequestEof
  PROVE  RequestPhase(k)'
<1> DEFINE m == script[k + 1]
           h == HeadOf(m)
<1>0. Taken(k) /\ (Waiting(k) \/ Begun(k))
  BY DEF RequestPhase
<1>1. /\ Untouched /\ place = "read" /\ NeedsMore /\ sent = Len(script) /\ wire = <<>> /\ place' = "done"
      /\ raw' = raw /\ wire' = wire /\ st' = st /\ out' = out
  BY DEF RequestEof, Untouched
<1>2. /\ st.header_done => seen' \in {seen, Logged(BodySoFar)}
      /\ ~st.header_done => seen' = seen
  BY DEF RequestEof
<1>3. /\ script' = script /\ pii_mode' = pii_mode /\ sent' = sent
      /\ DueTo(k)' = DueTo(k) /\ ToldTo(k)' = ToldTo(k) /\ Ahead(k)' = Ahead(k)
      /\ (Chain(k) => Chain(k)') /\ (Chain(k + 1) => Chain(k + 1)')
  BY <1>1, UntouchedKeeps
<1>4. AllRead
  BY <1>1 DEF AllRead
<1>5. \/ Waiting(k) /\ k = sent
      \/ k + 1 = sent /\ k # sent /\ Begun(k) /\ m.framing = "none" /\ raw = Encoded(m) /\ Passed(k, m, Len(raw))
  BY <1>4, NothingLeft
<1>6. CASE Waiting(k) /\ k = sent
  <2>1. ~st.header_done
    BY <1>6 DEF Waiting, Idle
  <2>2. Taken(k)'
    BY <1>0, <1>1, <1>2, <1>3, <2>1 DEF Taken
  <2>3. Waiting(k)'
    BY <1>1, <1>3, <1>6 DEF Waiting, Idle
  <2> QED
    BY <2>2, <2>3 DEF RequestPhase
<1>7. CASE k + 1 = sent /\ k # sent /\ Begun(k) /\ m.framing = "none" /\ raw = Encoded(m) /\ Passed(k, m, Len(raw))
  <2>1. st = ForwardedOf(m, Len(raw) - Len(h), Len(raw))
    BY <1>7 DEF Passed, ForwardedOf
  <2>2. SaysOf(st, m, Len(raw) - Len(h))
    BY <2>1, HeaderOfSays
  <2>3. Len(h) \in Nat /\ Len(raw) \in Nat /\ Len(Encoded(m)) = Len(h) + Len(Payload(m)) /\ IsRequest(m)
    BY <1>0, <1>7, BegunNumbers
  <2>4. Payload(m) = Body(m) /\ Body(m) = <<>>
    BY <1>7, <2>3, LengthGiven
  <2>5. Len(h) = Len(raw)
    BY <1>7, <2>3, <2>4, RowEmpty
  <2>6. BodySoFar = <<>>
    <3>1. raw \in Bytes
      BY <1>0 DEF Taken
    <3>2. BodySoFar = Drop(raw, Len(raw))
      BY <2>2, <2>5 DEF SaysOf, BodySoFar
    <3>3. Len(raw) \in 0..Len(raw)
      BY <2>3
    <3>4. Drop(raw, Len(raw)) \in Bytes /\ Len(Drop(raw, Len(raw))) = Len(raw) - Len(raw)
      BY <3>1, <3>3, DropProps
    <3>5. Len(Drop(raw, Len(raw))) = 0
      BY <2>3, <3>4
    <3> QED
      BY <3>2, <3>4, <3>5, RowEmpty
  <2>7. seen' = seen
    BY <1>2, <2>6 DEF Logged
  <2>8. Taken(k)'
    BY <1>0, <1>1, <1>3, <2>7 DEF Taken
  <2>9. m' = m
    BY <1>3
  <2>10. Passed(k, m, Len(raw))'
    <3> HIDE DEF m
    <3> QED
      BY <1>1, <1>3, <1>7, <2>9 DEF Passed
  <2>11. k < sent /\ Len(raw) >= Len(HeadOf(m))
    BY <1>7 DEF Begun
  <2>12. Begun(k)'
    BY <1>1, <1>3, <2>10, <2>11 DEF Begun
  <2> QED
    BY <2>8, <2>12 DEF RequestPhase
<1> QED
  BY <1>5, <1>6, <1>7

\* A run of runs begins with its first part.
LEMMA RunPrefix ==
  ASSUME NEW X, NEW a \in Seq(X), NEW b \in Seq(X)
  PROVE  IsPrefix(a, a \o b)
<1> DEFINE u == a \o b
           x == SubSeq(a, 1, Len(a))
           y == SubSeq(u, 1, Len(a))
<1>1. u \in Seq(X) /\ Len(u) = Len(a) + Len(b) /\ Len(a) \in Nat /\ Len(b) \in Nat /\ \A i \in 1..Len(a) : u[i] = a[i]
  BY ConcatProperties
<1> HIDE DEF u
<1>2. x \in Seq(X) /\ Len(x) = Len(a) /\ \A i \in 1..Len(a) : x[i] = a[i]
  BY <1>1
<1>3. y \in Seq(X) /\ Len(y) = Len(a) /\ \A i \in 1..Len(a) : y[i] = u[i]
  BY <1>1
<1> HIDE DEF x, y
<1>4. \A i \in 1..Len(x) : x[i] = y[i]
  BY <1>1, <1>2, <1>3
<1>5. x = y
  BY <1>2, <1>3, <1>4, SeqEqual
<1>6. IsPrefix(a, u)
  BY <1>1, <1>5 DEF IsPrefix, x, y
<1> QED
  BY <1>6 DEF u

\* What is logged for the first requests is a part of it all.
LEMMA ToldGrows ==
  ASSUME Asking, NEW k \in 0..sent
  PROVE  IsPrefix(ToldTo(k), ToldTo(sent))
<1> DEFINE N == Len(script)
           g == ToldRows(script)
<1>1. N \in Nat /\ \A i \in 1..N : g[i] \in Seq(Bytes)
  BY ScriptRows DEF Asking
<1>2. sent \in 0..N
  BY DEF Asking
<1> HIDE DEF N, g
<1>3. k \in 0..N /\ sent \in k..N
  BY <1>1, <1>2
<1>4. RowsLead(Bytes, g, k, sent)
  BY <1>1, <1>3, FirstRowsRest
<1>5. PICK r \in Seq(Bytes) : FirstRows(g, sent) = FirstRows(g, k) \o r
  BY <1>4 DEF RowsLead
<1>6. FirstRows(g, k) \in Seq(Bytes)
  BY <1>1, <1>3, FirstRowsProps
<1> QED
  BY <1>5, <1>6, RunPrefix DEF ToldTo, g

\* What the phase of the requests says about the properties.
LEMMA RequestPhaseHolds ==
  ASSUME Asking, NEW k, RequestPhase(k)
  PROVE  OutputExact /\ ObservedExact /\ CompleteExactly
<1> DEFINE m == script[k + 1]
           D == DueTo(sent)
           a == DueTo(k)
<1>0. Taken(k) /\ (Waiting(k) \/ Begun(k))
  BY DEF RequestPhase
<1>1. dir = "request" /\ Sofar(Due) = D /\ Sofar(Told) = ToldTo(sent)
  BY SofarRequests DEF Asking, DueTo, ToldTo
<1>2. k \in 0..sent /\ raw \in Bytes /\ seen = ToldTo(k)
  BY <1>0 DEF Taken
<1>3. a \in Bytes
  BY <1>2, AheadIn
<1>4. PICK r \in Bytes : D = a \o r
  BY <1>2, DueGrows
<1>5. place \in {"read", "header", "body", "complete", "done"}
  BY <1>0 DEF Waiting, Begun, Kept, Passed
<1>6. IsPrefix(out, D)
  <2>1. CASE out = a
    <3> HIDE DEF a, D
    <3> QED
      BY <1>3, <1>4, <2>1, PrefixOf
  <2>2. ASSUME NEW f, Begun(k), Passed(k, m, f) PROVE IsPrefix(out, D)
    <3> DEFINE e == Encoded(m)
               j == k + 1
               x == Take(raw, f)
               z == Drop(e, f)
    <3>1. /\ k # sent /\ j \in 0..sent /\ Len(raw) \in Nat /\ Len(e) \in Nat
      BY <1>0, <2>2, BegunNumbers
    <3>2. out = a \o Take(raw, f) /\ f \in 0..Len(raw) /\ Len(raw) <= Len(e) /\ pii_mode = "passthrough" /\ m.framing # "chunked"
      BY <2>2 DEF Passed
    <3>3. e \in Bytes /\ DueTo(j) = a \o DueOf(pii_mode, m) /\ Ahead(k) = e \o Ahead(j) /\ Ahead(j) \in Bytes
      BY <1>2, <3>1, NextRequest
    <3>4. DueOf(pii_mode, m) = e
      BY <3>2 DEF DueOf
    <3>5. PICK q \in Bytes : D = DueTo(j) \o q
      BY <3>1, DueGrows
    <3>6. Take(e, f) = x
      <4> DEFINE w == wire
                 y == Ahead(j)
      <4>1. raw \o w = e \o y /\ w \in Bytes
        BY <1>0, <3>3 DEF Taken
      <4>2. f \in 0..Len(e)
        BY <3>1, <3>2
      <4>3. raw \in Bytes /\ w \in Bytes /\ e \in Bytes /\ y \in Bytes
        BY <1>2, <3>3, <4>1
      <4> HIDE DEF e, y, w
      <4>4. Take(raw \o w, f) = Take(raw, f)
        BY <3>2, <4>3, TakeOfRow
      <4>5. Take(e \o y, f) = Take(e, f)
        BY <4>2, <4>3, TakeOfRow
      <4> QED
        BY <4>1, <4>4, <4>5
    <3>7. f \in 0..Len(e)
      BY <3>1, <3>2
    <3>8. x \o z = e /\ x \in Bytes /\ z \in Bytes
      BY <3>3, <3>6, <3>7, TakeDrop, TakeProps, DropProps
    <3>9. D = (a \o e) \o q
      BY <3>3, <3>4, <3>5
    <3>10. a \in Bytes /\ x \in Bytes /\ z \in Bytes /\ q \in Bytes
      BY <1>3, <3>5, <3>8
    <3> HIDE DEF a, D, m, e, j, x, z
    <3>11. z \o q \in Bytes /\ a \o x \in Bytes
      BY <3>10, RowProps
    <3>12. a \o (x \o z) = (a \o x) \o z
      BY <3>10, RowAssoc, SMTT(30)
    <3>13. ((a \o x) \o z) \o q = (a \o x) \o (z \o q)
      <4> DEFINE t == a \o x
      <4>1. t \in Bytes
        BY <3>11
      <4> HIDE DEF t
      <4>2. (t \o z) \o q = t \o (z \o q)
        BY <3>10, <4>1, RowAssoc
      <4> QED
        BY <4>2 DEF t
    <3>14. D = (a \o x) \o (z \o q)
      BY <3>8, <3>9, <3>12, <3>13
    <3>15. out = a \o x
      BY <3>2 DEF x
    <3> DEFINE t == a \o x
               v == z \o q
    <3>16. t \in Bytes /\ v \in Bytes /\ D = t \o v /\ out = t
      BY <3>11, <3>14, <3>15
    <3> HIDE DEF t, v
    <3> QED
      BY <3>16, PrefixOf
  <2>3. CASE Waiting(k)
    BY <2>1, <2>3 DEF Waiting
  <2>4. CASE Begun(k)
    <3>1. Kept(k, m) \/ \E f : Passed(k, m, f)
      BY <2>4 DEF Begun
    <3>2. Kept(k, m) => out = a
      BY DEF Kept
    <3> QED
      BY <2>1, <2>2, <2>4, <3>1, <3>2
  <2> QED
    BY <1>0, <2>3, <2>4
<1>7. IsPrefix(seen, ToldTo(sent))
  BY <1>2, ToldGrows
<1>8. ASSUME AllRead
      PROVE  /\ out = D /\ seen = ToldTo(sent)
             /\ (st.content_length # Absent => ~st.header_done) /\ (~st.header_done => raw = <<>>)
  <2>1. \/ Waiting(k) /\ k = sent /\ raw = <<>>
        \/ /\ k + 1 = sent /\ k # sent /\ Begun(k) /\ m.framing = "none" /\ raw = Encoded(m)
           /\ Passed(k, m, Len(raw))
    BY <1>8, NothingLeft
  <2>2. CASE Waiting(k) /\ k = sent /\ raw = <<>>
    BY <1>2, <2>2 DEF Waiting, Idle
  <2>3. CASE /\ k + 1 = sent /\ k # sent /\ Begun(k) /\ m.framing = "none" /\ raw = Encoded(m)
             /\ Passed(k, m, Len(raw))
    <3>1. /\ out = a \o Take(raw, Len(raw)) /\ pii_mode = "passthrough"
          /\ st = ForwardedOf(m, Len(raw) - Len(HeadOf(m)), Len(raw))
      BY <2>3 DEF Passed, ForwardedOf
    <3>2. /\ IsRequest(m) /\ DueTo(k + 1) = a \o DueOf(pii_mode, m) /\ ToldTo(k + 1) = ToldTo(k) \o BodiesOf(m)
      BY <1>2, <2>3, NextRequest
    <3>3. DueOf(pii_mode, m) = Encoded(m)
      BY <2>3, <3>1 DEF DueOf
    <3>4. Take(raw, Len(raw)) = raw
      BY <1>2, TakeAll
    <3>5. out = D
      BY <2>3, <3>1, <3>2, <3>3, <3>4
    <3>6. Body(m) = <<>>
      BY <2>3, <3>2, LengthGiven
    <3>7. ToldTo(k + 1) = ToldTo(k) \o <<>>
      BY <3>2, <3>6 DEF BodiesOf
    <3>8. ToldTo(k) \in Seq(Bytes)
      BY <1>2, AheadIn
    <3>9. ToldTo(k) \o <<>> = ToldTo(k)
      BY <3>8
    <3>10. seen = ToldTo(sent)
      BY <1>2, <2>3, <3>7, <3>9
    <3>11. SaysOf(st, m, Len(raw) - Len(HeadOf(m)))
      BY <3>1, HeaderOfSays
    <3> HIDE DEF m
    <3>12. st.header_done /\ st.content_length = Absent
      BY <2>3, <3>11 DEF SaysOf
    <3> QED
      BY <3>5, <3>10, <3>12
  <2> QED
    BY <2>1, <2>2, <2>3
<1> QED
  BY <1>1, <1>5, <1>6, <1>7, <1>8 DEF OutputExact, ObservedExact, CompleteExactly

\* A step of the requests goes on with the same one, or with the next.
LEMMA RequestStep ==
  ASSUME Asking, NEW k, RequestPhase(k), FramingNext
  PROVE  Asking' /\ (RequestPhase(k)' \/ RequestPhase(k + 1)')
<1>1. CASE Send
  BY <1>1, SendRequestStep, SMTT(30)
<1>2. Send \/ Untouched
  BY Zenon DEF FramingNext, Untouched, ReadRequest, KeepRequest, ParseRequestHeader, ForwardEagerly, CompleteLength,
     CompleteChunked, CompleteUnknown, ForwardMasked, RequestEof, ReadResponseHeader, ParseResponseHeader,
     ReadResponseBody, DecodeSize, DecodeBody, DecodeTrail, ParseEvent, NoMoreEvents, EndOfRead
<1>3. Untouched => Asking'
  BY UntouchedKeeps
<1>4. Asking'
  BY <1>1, <1>2, <1>3
<1>5. dir = "request" /\ place \in {"read", "header", "body", "complete", "done"}
  BY DEF Asking, RequestPhase, Waiting, Begun, Kept, Passed
<1>6. \/ Send \/ ReadRequest \/ KeepRequest \/ ParseRequestHeader \/ ForwardEagerly
      \/ CompleteLength \/ CompleteChunked \/ CompleteUnknown \/ ForwardMasked \/ RequestEof
  BY <1>5 DEF FramingNext, ReadResponseHeader, ParseResponseHeader,
     ReadResponseBody, DecodeSize, DecodeBody, DecodeTrail, ParseEvent, NoMoreEvents, EndOfRead
<1>7. RequestPhase(k)' \/ RequestPhase(k + 1)'
  BY <1>1, <1>6, ReadRequestStep, KeepRequestStep, RequestHeaderStep, ForwardEagerlyStep, CompleteLengthStep,
     CompleteChunkedStep, CompleteUnknownStep, ForwardMaskedStep, RequestEofStep
<1> QED
  BY <1>4, <1>7

\* Every sequence of requests that a client may send is one that the handlers are written for.
RequestsProper ==
  \A p \in {"passthrough", "pii"} : \A reqs \in Scripts[p] : IsScript(p, reqs)

AskingInv == dir \in {"request", "response"} /\ (dir = "request" => RequestInv)

\* The invariant of the requests holds at all times (handle_c2u_passthrough, handle_c2u_pii).
LEMMA AskingInvHolds ==
  ASSUME RequestsProper
  PROVE  FramingSpec => []AskingInv
<1>1. FramingInit => AskingInv
  <2>1. SUFFICES ASSUME FramingInit, dir = "request" PROVE RequestInv
    BY DEF AskingInv, FramingInit
  <2>2. /\ pii_mode \in {"passthrough", "pii"} /\ script \in Scripts[pii_mode] /\ sent = 0 /\ wire = <<>> /\ raw = <<>>
        /\ st = Idle /\ place = "read" /\ out = <<>> /\ seen = <<>>
    BY <2>1 DEF FramingInit
  <2>3. IsScript(pii_mode, script)
    BY <2>2 DEF RequestsProper
  <2>4. Len(script) \in Nat
    BY <2>3 DEF IsScript
  <2>5. Asking
    BY <2>1, <2>2, <2>3, <2>4 DEF Asking
  <2>6. Ahead(0) = <<>>
    <3>1. 0 \in 0..sent
      BY <2>2
    <3> QED
      BY <2>2, <2>5, <3>1, AheadIn
  <2>7. DueTo(0) = <<>> /\ ToldTo(0) = <<>>
    <3>1. AreRows(DueRows(pii_mode, script), Len(script)) /\ \A i \in 1..Len(script) : ToldRows(script)[i] \in Seq(Bytes)
      BY <2>3, ScriptRows
    <3>2. \A i \in 1..Len(script) : DueRows(pii_mode, script)[i] \in Seq(Int)
      BY <3>1 DEF AreRows, Bytes
    <3>3. FirstRows(DueRows(pii_mode, script), 0) = <<>>
      BY <2>4, <3>2, FirstRowsProps
    <3>4. FirstRows(ToldRows(script), 0) = <<>>
      BY <2>4, <3>1, FirstRowsProps
    <3> QED
      BY <3>3, <3>4 DEF DueTo, ToldTo
  <2>8. <<>> \in Bytes /\ <<>> \o <<>> = <<>>
    BY RowEmpty
  <2>9. Taken(0)
    BY <2>2, <2>6, <2>7, <2>8 DEF Taken
  <2>10. FindHeaderEnd(raw) = 0
    <3>1. raw \in Bytes /\ Len(raw) = 0
      BY <2>2, RowEmpty
    <3>2. Index(raw, Blank) \in 0..Len(raw)
      BY <3>1, Separators, IndexProps
    <3>3. Index(raw, Blank) = 0
      BY <3>1, <3>2
    <3> QED
      BY <3>3 DEF FindHeaderEnd
  <2>11. Chain(0)
    BY <2>2 DEF Chain
  <2>12. Waiting(0)
    BY <2>2, <2>7, <2>10, <2>11 DEF Waiting
  <2> QED
    BY <2>5, <2>9, <2>12 DEF RequestInv, RequestPhase
<1>2. AskingInv /\ [FramingNext]_framingVars => AskingInv'
  <2>1. SUFFICES ASSUME AskingInv, [FramingNext]_framingVars PROVE AskingInv'
    OBVIOUS
  <2>2. CASE UNCHANGED framingVars
    <3>0. /\ dir' = dir /\ pii_mode' = pii_mode /\ script' = script /\ sent' = sent /\ wire' = wire /\ raw' = raw
          /\ st' = st /\ place' = place /\ out' = out /\ seen' = seen
      BY <2>2 DEF framingVars
    <3>1. SUFFICES ASSUME dir = "request" PROVE RequestInv'
      BY <2>1, <3>0 DEF AskingInv
    <3>2. Asking /\ \E k : RequestPhase(k)
      BY <2>1, <3>1 DEF AskingInv, RequestInv
    <3>3. Asking'
      BY <3>0, <3>2 DEF Asking
    <3>4. \A k : Taken(k) => Taken(k)'
      BY <3>0 DEF Taken, Ahead, ToldTo
    <3>5. \A k : Chain(k) => Chain(k)'
      BY <3>0 DEF Chain, LeadsOn
    <3>6. \A k : DueTo(k)' = DueTo(k)
      BY <3>0 DEF DueTo
    <3>7. \A k : Waiting(k) => Waiting(k)'
      BY <3>0, <3>5, <3>6 DEF Waiting
    <3>8. \A k, m : Kept(k, m) => Kept(k, m)'
      BY <3>0, <3>5, <3>6 DEF Kept
    <3>9. ASSUME NEW k, NEW m, NEW f, Passed(k, m, f) PROVE Passed(k, m, f)'
      <4>1. DueTo(k)' = DueTo(k) /\ (Chain(k + 1) => Chain(k + 1)')
        BY <3>5, <3>6
      <4> QED
        BY <3>0, <3>9, <4>1 DEF Passed
    <3>10. \A k : Begun(k) => Begun(k)'
      BY <3>0, <3>8, <3>9 DEF Begun
    <3> QED
      BY <3>2, <3>3, <3>4, <3>7, <3>10 DEF RequestInv, RequestPhase
  <2>3. CASE FramingNext
    <3>1. dir' = dir
      BY <2>3, FramingKeeps
    <3>2. SUFFICES ASSUME dir = "request" PROVE RequestInv'
      BY <2>1, <3>1 DEF AskingInv
    <3>3. PICK k : Asking /\ RequestPhase(k)
      BY <2>1, <3>2 DEF AskingInv, RequestInv
    <3>4. Asking' /\ (RequestPhase(k)' \/ RequestPhase(k + 1)')
      BY <2>3, <3>3, RequestStep
    <3> QED
      BY <3>4 DEF RequestInv
  <2> QED
    BY <2>1, <2>2, <2>3
<1> QED
  BY <1>1, <1>2, PTL DEF FramingSpec

-----------------------------------------------------------------------------
(* Both directions *)

\* The other side gets, byte by byte, what is due for the messages that were
\* sent, and all of it once they have been read, wherever the reads and the
\* chunks end: requests as they are, rebuilt or masked, and the response
\* (handle_c2u_passthrough, handle_c2u_pii, handle_u2c).
THEOREM MessagesExact ==
  ASSUME RequestsProper, ResponsesProper
  PROVE  FramingSpec => []OutputExact
<1>1. AskingInv /\ FramingInv => OutputExact
  BY RequestPhaseHolds, PhaseHolds DEF AskingInv, RequestInv, FramingInv, ResponseInv
<1> QED
  BY <1>1, AskingInvHolds, FramingInvHolds, PTL

\* The bodies that are logged and the events that are handled are the ones that
\* were sent, one by one and in their order (log_request, decode_chunked_body,
\* ChunkedDecoder, SseParser).
THEOREM BodiesExact ==
  ASSUME RequestsProper, ResponsesProper
  PROVE  FramingSpec => []ObservedExact
<1>1. AskingInv /\ FramingInv => ObservedExact
  BY RequestPhaseHolds, PhaseHolds DEF AskingInv, RequestInv, FramingInv, ResponseInv
<1> QED
  BY <1>1, AskingInvHolds, FramingInvHolds, PTL

\* A message is complete once its last byte, or the last event of a stream, has
\* been read, and not before; decode_chunked_body never runs past a slice.
THEOREM MessagesComplete ==
  ASSUME RequestsProper, ResponsesProper
  PROVE  FramingSpec => []CompleteExactly
<1>1. AskingInv /\ FramingInv => CompleteExactly
  BY RequestPhaseHolds, PhaseHolds DEF AskingInv, RequestInv, FramingInv, ResponseInv
<1> QED
  BY <1>1, AskingInvHolds, FramingInvHolds, PTL
=============================================================================
