------------------------------ MODULE Connect ------------------------------
(***************************************************************************)
(* Setting up a connection: the CONNECT listener (src/src/proxy/mod.rs and *)
(* connect.rs), the transparent listener (network.rs), the resolver that   *)
(* bypasses /etc/hosts, and the certificate cache both share               *)
(* (src/src/ca/cert_gen.rs). What runs on an established intercepted       *)
(* connection is the module Session.                                       *)
(*                                                                         *)
(* A connection's task is at pc; every await of the code is a state. The   *)
(* proxy's own upstream connections may come back to it, through           *)
(* /etc/hosts and the pf redirect: such a connection has the proxy's       *)
(* connection as its peer.                                                 *)
(***************************************************************************)
EXTENDS Integers, Sequences

CONSTANTS
  Conns,        \* connections
  Hosts,        \* names a client may ask for
  Intercepted,  \* config.intercept.domains
  HostsFile,    \* names /etc/hosts maps to loopback, as some earlier enable() left it
  Answer,       \* host -> records of its public DNS answer: [type, ip]
  Client,       \* the peer of a connection an application opened
  None

ASSUME HostAssumption == /\ Intercepted \subseteq Hosts /\ HostsFile \subseteq Hosts
                         /\ None \notin Hosts /\ Client \notin Conns /\ None \notin Conns
                         /\ None \notin [host : Hosts, key : Nat]

VARIABLES
  pc,             \* conn -> where its task is
  mode,           \* conn -> "connect" or "network", the listener that accepted it
  backlog,        \* connections whose upstream is the proxy's own listener, yet to be accepted
  peer,           \* conn -> Client, or the connection whose upstream it is
  host,           \* conn -> the name asked for: the CONNECT line's, or the SNI
  due,            \* conn -> the timer of its current wait is about to fire
  ip,             \* conn -> address to connect to: "remote", "loopback" or None
  link,           \* conn -> upstream connection: "none", "tcp" or "tls"
  told,           \* conn -> the 200 was sent
  gone,           \* conn -> the client has closed its end
  presented,      \* conn -> [host, key] of the certificate of its acceptor, or None
  acceptor_cache, \* host -> key captured in its ServerConfig, 0 if there is none
  key_cache,      \* host -> its CertifiedKey, 0 if there is none
  acceptor_lock,  \* holder of the mutex of acceptor_cache, or None
  key_lock,       \* holder of the mutex of key_cache, or None
  built           \* number of keys build_certified_key has made

cacheVars == <<acceptor_cache, key_cache, acceptor_lock, key_lock, built>>
vars == <<pc, due, mode, peer, backlog, host, ip, link, told, gone, presented, cacheVars>>

Ips     == {"remote", "loopback"}
States  == {"idle", "line", "headers", "dispatch", "peek", "resolve1", "resolve2", "tcp", "utls",
            "reply", "told", "acceptor", "key", "build", "install", "ctls", "session", "bridge", "closed"}

\* ip aside, which holds whatever address the answers of the resolver have.
TypeOK ==
  /\ pc      \in [Conns -> States]
  /\ mode    \in [Conns -> {"connect", "network"}]
  /\ backlog \subseteq Conns
  /\ peer    \in [Conns -> Conns \cup {Client}]
  /\ host    \in [Conns -> Hosts \cup {None}]
  /\ due     \in [Conns -> BOOLEAN]
  /\ link    \in [Conns -> {"none", "tcp", "tls"}]
  /\ told    \in [Conns -> BOOLEAN] /\ gone \in [Conns -> BOOLEAN]
  /\ presented \in [Conns -> [host : Hosts, key : Nat] \cup {None}]
  /\ acceptor_cache \in [Hosts -> Nat] /\ key_cache \in [Hosts -> Nat]
  /\ acceptor_lock \in Conns \cup {None} /\ key_lock \in Conns \cup {None}
  /\ built \in Nat

Init ==
  /\ pc      = [c \in Conns |-> "idle"]
  /\ mode    = [c \in Conns |-> "connect"]
  /\ backlog = {}
  /\ peer    = [c \in Conns |-> Client]
  /\ host    = [c \in Conns |-> None]
  /\ due     = [c \in Conns |-> FALSE]
  /\ ip      = [c \in Conns |-> None]
  /\ link    = [c \in Conns |-> "none"]
  /\ told    = [c \in Conns |-> FALSE] /\ gone = [c \in Conns |-> FALSE]
  /\ presented = [c \in Conns |-> None]
  /\ acceptor_cache = [h \in Hosts |-> 0] /\ key_cache = [h \in Hosts |-> 0]
  /\ acceptor_lock = None /\ key_lock = None /\ built = 0

is_intercepted(h) == h \in Intercepted

\* The task goes on; its next wait has a timer of its own.
Goto(c, s) == pc' = [pc EXCEPT ![c] = s] /\ due' = [due EXCEPT ![c] = FALSE]

-----------------------------------------------------------------------------
(* The listeners: one task per connection; an accept error is retried. *)

FirstState(m) == IF m = "connect" THEN "line" ELSE "peek"

Accept(c, m, p) ==
  /\ pc[c] = "idle"
  /\ Goto(c, FirstState(m))
  /\ mode' = [mode EXCEPT ![c] = m]
  /\ peer' = [peer EXCEPT ![c] = p]
  /\ UNCHANGED <<host, ip, link, told, gone, presented, cacheVars>>

run_connect(c) == Accept(c, "connect", Client) /\ UNCHANGED backlog

\* The redirect of port 443 sends here the applications and the proxy itself.
run_network(c) ==
  \/ Accept(c, "network", Client) /\ UNCHANGED backlog
  \/ \E p \in backlog : Accept(c, "network", p) /\ backlog' = backlog \ {p}

\* The application closes its end: noticed at the next read or write.
ClientCloses(c) ==
  /\ pc[c] \notin {"idle", "closed"} /\ ~gone[c] /\ peer[c] = Client
  /\ gone' = [gone EXCEPT ![c] = TRUE]
  /\ UNCHANGED <<pc, due, mode, peer, backlog, host, ip, link, told, presented, cacheVars>>

-----------------------------------------------------------------------------
(* connect.rs handle: the request line, the headers, the decision *)

\* None stands for a line parse_connect refuses; the end of the stream reads as one, a
\* failed read ends the task.
ReadLine(c) ==
  /\ pc[c] = "line"
  /\ \/ /\ \E h \in Hosts \cup {None} :
             /\ gone[c] => h = None
             /\ host' = [host EXCEPT ![c] = h]
        /\ Goto(c, "headers")
     \/ /\ host' = host
        /\ Goto(c, "closed")
  /\ UNCHANGED <<mode, peer, backlog, ip, link, told, gone, presented, cacheVars>>

\* A header line, as many as the client sends: each one starts the timer anew.
DrainHeader(c) ==
  /\ pc[c] = "headers" /\ ~gone[c]
  /\ Goto(c, "headers")
  /\ UNCHANGED <<mode, peer, backlog, host, ip, link, told, gone, presented, cacheVars>>

\* The empty line, the end of the stream, or a failed read.
HeadersEnd(c) ==
  /\ pc[c] = "headers"
  /\ \E s \in {"dispatch", "closed"} : Goto(c, s)
  /\ UNCHANGED <<mode, peer, backlog, host, ip, link, told, gone, presented, cacheVars>>

\* is_intercepted picks mitm, which bypasses /etc/hosts, or passthrough, which does not.
handle_connect(c) ==
  /\ pc[c] = "dispatch"
  /\ LET h == host[c]
     IN  \/ /\ h = None
            /\ Goto(c, "closed") /\ ip' = ip
         \/ /\ h /= None /\ is_intercepted(h)
            /\ Goto(c, "resolve1") /\ ip' = ip
         \/ /\ h /= None /\ ~is_intercepted(h)
            /\ \E a \in IF h \in HostsFile THEN {"loopback"} ELSE Ips \cup {None} :
                 /\ ip' = [ip EXCEPT ![c] = a]
                 /\ Goto(c, IF a = None THEN "closed" ELSE "tcp")
  /\ UNCHANGED <<mode, peer, backlog, host, link, told, gone, presented, cacheVars>>

-----------------------------------------------------------------------------
(* network.rs handle: peek at the ClientHello, decide, accept *)

\* A hello as the single peek sees it: its first bytes only, when it came in pieces.
Hellos == [handshake : BOOLEAN, whole : BOOLEAN, sni : Hosts \cup {None}]

peek_sni(b) == IF b.handshake /\ b.whole THEN b.sni ELSE None

\* A relayed connection carries the hello of the client behind it, for the same name.
HelloOf(c) == IF peer[c] = Client THEN Hellos
              ELSE [handshake : {TRUE}, whole : BOOLEAN, sni : {host[peer[c]]}]

handle_network(c) ==
  /\ pc[c] = "peek"
  /\ \/ Goto(c, "closed") /\ host' = host      \* peek returned 0 bytes or failed
     \/ /\ ~gone[c]
        /\ \E b \in HelloOf(c) :
             LET h == peek_sni(b)
             IN  /\ host' = [host EXCEPT ![c] = h]
                 /\ Goto(c, IF h = None THEN "closed"
                            ELSE IF is_intercepted(h) THEN "key" ELSE "resolve1")
  /\ UNCHANGED <<mode, peer, backlog, ip, link, told, gone, presented, cacheVars>>

-----------------------------------------------------------------------------
(* The upstream: resolve_bypass_hosts, TCP, TLS *)

NoIp == "none"

parse_first_a_record(answers) ==
  LET as == SelectSeq(answers, LAMBDA r : r.type = "A")
  IN  IF as = <<>> THEN NoIp ELSE as[1].ip

\* Mutant: passthrough_raw connects to whatever the name resolves to.
NoLoopbackDrop(c, a) == FALSE

\* passthrough_raw drops a name that resolves to loopback, it would come back to the proxy.
LoopbackDrop(c, a) == mode[c] = "network" /\ ~is_intercepted(host[c]) /\ a = "loopback"

\* One server is asked, on a socket of its own, and the datagram that comes is taken for its
\* answer; an answer without an A record, a failed read and 4 s of silence go on to the next
\* server, a failed bind or send ends the resolution at once.
resolve_bypass_hosts(c) ==
  /\ pc[c] \in {"resolve1", "resolve2"}
  /\ \/ Goto(c, "closed") /\ ip' = ip
     \/ \E a \in {parse_first_a_record(Answer[host[c]]), NoIp} :
          \/ /\ a = NoIp
             /\ Goto(c, IF pc[c] = "resolve1" THEN "resolve2" ELSE "closed")
             /\ ip' = ip
          \/ /\ a /= NoIp
             /\ Goto(c, IF LoopbackDrop(c, a) THEN "closed" ELSE "tcp")
             /\ ip' = [ip EXCEPT ![c] = a]
  /\ UNCHANGED <<mode, peer, backlog, host, link, told, gone, presented, cacheVars>>

\* Mutant: the 200 is sent before the upstream's TLS handshake.
ConnectedEarly(c) == IF mode[c] = "connect" THEN "reply"
                     ELSE IF is_intercepted(host[c]) THEN "utls" ELSE "bridge"

\* After the TCP connection: TLS when intercepted, else the 200 or, transparently, the copy.
Connected(c) == IF is_intercepted(host[c]) THEN "utls"
                ELSE IF mode[c] = "connect" THEN "reply" ELSE "bridge"

ConnectUpstream(c) ==
  /\ pc[c] = "tcp" /\ ip[c] = "remote"
  /\ link' = [link EXCEPT ![c] = "tcp"]
  /\ Goto(c, Connected(c))
  /\ UNCHANGED <<mode, peer, backlog, host, ip, told, gone, presented, cacheVars>>

\* Port 443 of loopback is redirected to the proxy's own transparent listener.
ConnectSelf(c) ==
  /\ pc[c] = "tcp" /\ ip[c] = "loopback"
  /\ link' = [link EXCEPT ![c] = "tcp"]
  /\ backlog' = backlog \cup {c}
  /\ Goto(c, Connected(c))
  /\ UNCHANGED <<mode, peer, host, ip, told, gone, presented, cacheVars>>

UpstreamTls(c) ==
  /\ pc[c] = "utls"
  /\ link' = [link EXCEPT ![c] = "tls"]
  /\ Goto(c, IF mode[c] = "connect" THEN "reply" ELSE "session")
  /\ UNCHANGED <<mode, peer, backlog, host, ip, told, gone, presented, cacheVars>>

\* Refused, unreachable, bad certificate: every one of these errors ends the task.
UpstreamFails(c) ==
  /\ pc[c] \in {"tcp", "utls"}
  /\ Goto(c, "closed")
  /\ UNCHANGED <<mode, peer, backlog, host, ip, link, told, gone, presented, cacheVars>>

\* Mutant: the upstream's TLS handshake without its timeout.
TimedStatesNoTls == {"line", "headers", "tcp", "bridge"}

\* Waits of CONNECT mode that carry a timeout: 30 s for each line, 10 s per upstream step,
\* 300 s for the whole copy. Transparent mode has none of them.
TimedStates == {"line", "headers", "tcp", "utls", "bridge"}
Timed(c) == mode[c] = "connect" /\ pc[c] \in TimedStates

\* Time passes in such a wait, and what it waits for does not come.
Tick(c) ==
  /\ Timed(c) /\ ~due[c]
  /\ due' = [due EXCEPT ![c] = TRUE]
  /\ UNCHANGED <<pc, mode, peer, backlog, host, ip, link, told, gone, presented, cacheVars>>

Timeout(c) ==
  /\ Timed(c) /\ due[c]
  /\ Goto(c, "closed")
  /\ UNCHANGED <<mode, peer, backlog, host, ip, link, told, gone, presented, cacheVars>>

-----------------------------------------------------------------------------
(* The client's side of the tunnel *)

\* write_all of the 200, without a timeout: it waits for a client that does not read.
Reply(c) ==
  /\ pc[c] = "reply"
  /\ \/ /\ told' = [told EXCEPT ![c] = TRUE]
        /\ Goto(c, "told")
     \/ /\ gone[c] /\ told' = told
        /\ Goto(c, "closed")
  /\ UNCHANGED <<mode, peer, backlog, host, ip, link, gone, presented, cacheVars>>

\* With the 200 written, passthrough copies and mitm accepts the client's TLS.
AfterReply(c) ==
  /\ pc[c] = "told"
  /\ Goto(c, IF is_intercepted(host[c]) THEN "acceptor" ELSE "bridge")
  /\ UNCHANGED <<mode, peer, backlog, host, ip, link, told, gone, presented, cacheVars>>

Present(c, k) == presented' = [presented EXCEPT ![c] = [host |-> host[c], key |-> k]]

\* CertCache::get_or_create: a miss keeps the lock while the key is looked up or built.
get_or_create(c) ==
  /\ pc[c] = "acceptor" /\ acceptor_lock = None
  /\ LET k == acceptor_cache[host[c]]
     IN  \/ /\ k /= 0
            /\ Present(c, k) /\ Goto(c, "ctls") /\ acceptor_lock' = acceptor_lock
         \/ /\ k = 0
            /\ presented' = presented /\ Goto(c, "key") /\ acceptor_lock' = c
  /\ UNCHANGED <<mode, peer, backlog, host, ip, link, told, gone, acceptor_cache, key_cache,
                 key_lock, built>>

\* Where get_or_create_key_inner returns to: get_or_create, or SniCertResolver::resolve.
AfterKey(c) == IF mode[c] = "connect" THEN "install" ELSE "ctls"

\* Mutant: the lock of key_cache is not kept while the key is built.
unlocked_key_inner(c) ==
  /\ pc[c] = "key"
  /\ LET k == key_cache[host[c]]
     IN  \/ k /= 0 /\ Present(c, k) /\ Goto(c, AfterKey(c))
         \/ k = 0 /\ presented' = presented /\ Goto(c, "build")
  /\ UNCHANGED <<mode, peer, backlog, host, ip, link, told, gone, cacheVars>>

get_or_create_key_inner(c) ==
  /\ pc[c] = "key" /\ key_lock = None
  /\ LET k == key_cache[host[c]]
     IN  \/ /\ k /= 0
            /\ Present(c, k) /\ Goto(c, AfterKey(c)) /\ key_lock' = key_lock
         \/ /\ k = 0
            /\ presented' = presented /\ Goto(c, "build") /\ key_lock' = c
  /\ UNCHANGED <<mode, peer, backlog, host, ip, link, told, gone, acceptor_cache, key_cache,
                 acceptor_lock, built>>

Release(lock, c) == IF lock = c THEN None ELSE lock

build_certified_key(c) ==
  /\ pc[c] = "build"
  /\ built' = built + 1
  /\ key_cache' = [key_cache EXCEPT ![host[c]] = built + 1]
  /\ key_lock' = Release(key_lock, c)
  /\ Present(c, built + 1)
  /\ Goto(c, AfterKey(c))
  /\ UNCHANGED <<mode, peer, backlog, host, ip, link, told, gone, acceptor_cache, acceptor_lock>>

\* A name no certificate can carry, a key that does not parse: both guards are dropped.
BuildFails(c) ==
  /\ pc[c] = "build"
  /\ key_lock' = Release(key_lock, c) /\ acceptor_lock' = Release(acceptor_lock, c)
  /\ Goto(c, "closed")
  /\ UNCHANGED <<mode, peer, backlog, host, ip, link, told, gone, presented, acceptor_cache,
                 key_cache, built>>

InstallAcceptor(c) ==
  /\ pc[c] = "install"
  /\ acceptor_cache' = [acceptor_cache EXCEPT ![host[c]] = presented[c].key]
  /\ acceptor_lock' = Release(acceptor_lock, c)
  /\ Goto(c, "ctls")
  /\ UNCHANGED <<mode, peer, backlog, host, ip, link, told, gone, presented, key_cache, key_lock,
                 built>>

\* The client's TLS handshake, without a timeout in either mode.
AcceptTls(c) ==
  /\ pc[c] = "ctls"
  /\ \/ ~gone[c] /\ Goto(c, IF mode[c] = "connect" THEN "session" ELSE "resolve1")
     \/ Goto(c, "closed")
  /\ UNCHANGED <<mode, peer, backlog, host, ip, link, told, gone, presented, cacheVars>>

\* intercept::run returns, copy_bidirectional ends or fails.
TunnelEnds(c) ==
  /\ pc[c] \in {"session", "bridge"}
  /\ Goto(c, "closed")
  /\ UNCHANGED <<mode, peer, backlog, host, ip, link, told, gone, presented, cacheVars>>

Finished ==
  /\ \A c \in Conns : pc[c] = "closed"
  /\ UNCHANGED vars

\* What the task does by itself; the rest waits for a peer.
OwnStep(c) == \/ handle_connect(c) \/ AfterReply(c) \/ get_or_create(c)
              \/ get_or_create_key_inner(c) \/ build_certified_key(c) \/ BuildFails(c) \/ InstallAcceptor(c)

Next ==
  \/ \E c \in Conns :
       \/ run_connect(c) \/ run_network(c) \/ ClientCloses(c) \/ ReadLine(c) \/ DrainHeader(c)
       \/ HeadersEnd(c) \/ handle_network(c) \/ Reply(c) \/ Tick(c) \/ resolve_bypass_hosts(c) \/ ConnectUpstream(c) \/ UpstreamTls(c) \/ UpstreamFails(c)
       \/ ConnectSelf(c) \/ Timeout(c) \/ AcceptTls(c) \/ TunnelEnds(c) \/ OwnStep(c)
  \/ Finished

Spec == Init /\ [][Next]_vars

\* The runtime schedules every task and fires every timer (the resolver's 4 s too), and what
\* waits for a client that has gone is woken; no fairness is asked of a client that is there,
\* or of an upstream.
Fairness == \A c \in Conns : /\ WF_vars(OwnStep(c)) /\ WF_vars(Tick(c)) /\ WF_vars(Timeout(c))
                             /\ WF_vars(resolve_bypass_hosts(c))
                             /\ WF_vars(gone[c] /\ (Reply(c) \/ AcceptTls(c)))
LiveSpec == Spec /\ Fairness

-----------------------------------------------------------------------------
(* Properties *)

\* Two connections for a name are shown the same certificate, whichever listeners accepted
\* them and however their handshakes interleave: the two caches of cert_gen.rs agree.
OneKeyPerHost ==
  \A c, d \in Conns :
    presented[c] /= None /\ presented[d] /= None /\ presented[c].host = presented[d].host
      => presented[c].key = presented[d].key

\* The proxy meets its own upstream connection at most once on a path: a name a stale
\* /etc/hosts entry points back at it passes from the CONNECT listener to the transparent
\* one, which reaches the real upstream. passthrough_raw closes what would be a redirect
\* loop, and no public answer for an intercepted name is a loopback address.
NoRedirectLoop ==
  \A c \in Conns : peer[c] /= Client => mode[peer[c]] = "connect"

\* Every task of CONNECT mode gets through its set-up, or gives up, whatever its upstream and
\* other connections do or fail to do, and also when its client goes. Only a client that is
\* there can keep it: with header lines without end, each of which gets 30 s of its own, or by
\* not reading the 200 or not going on with its TLS handshake, which have no timeout. Nothing
\* waits for a lock for ever.
SetupEnds ==
  \A c \in Conns :
    \/ []<><<DrainHeader(c)>>_vars
    \/ (mode[c] = "connect" /\ pc[c] /= "idle")
         ~> (pc[c] \in {"session", "closed"} \/ (pc[c] \in {"reply", "ctls"} /\ ~gone[c]))

\* The two listeners implement Tunnel: the client is told only of a standing upstream link,
\* exactly the configured names are intercepted, under a certificate of their own.
PhaseOf(s) == IF s \in {"idle", "closed"} THEN s
              ELSE IF s = "session" THEN "intercepted"
              ELSE IF s = "bridge" THEN "bridged" ELSE "opening"
Stands(c)  == link[c] = "tls" \/ (link[c] = "tcp" /\ ~is_intercepted(host[c]))
ShownOf(p) == IF p = None THEN None ELSE p.host

phase  == [c \in Conns |-> PhaseOf(pc[c])]
linked == [c \in Conns |-> Stands(c)]
asks   == [c \in Conns |-> mode[c] = "connect" /\ pc[c] /= "idle"]
shown  == [c \in Conns |-> ShownOf(presented[c])]

Abstract == INSTANCE Tunnel WITH target <- host

\* The abstract specification as a property of the runs.
ImplementsTunnel == Abstract!Spec

-----------------------------------------------------------------------------
(* The inductive invariant behind OneKeyPerHost and ImplementsTunnel *)

\* A certificate of the requested name has been shown.
Shown(c)   == presented[c] /= None /\ presented[c].host = host[c]
\* The client's side has not begun: nothing was told, nothing shown.
Silent(c)  == ~told[c] /\ presented[c] = None
\* What an intercepted connection has before the client's TLS: in CONNECT mode everything but
\* the certificate, in transparent mode nothing.
Opened(c)  == /\ host[c] \in Intercepted
              /\ mode[c] = "connect" => link[c] = "tls" /\ told[c]
              /\ mode[c] = "network" => link[c] = "none" /\ ~told[c]

\* What each place of a task says of its connection.
Placed(c) ==
  /\ pc[c] \in {"idle", "line", "peek"} => host[c] = None /\ link[c] = "none" /\ Silent(c)
  /\ pc[c] \in {"headers", "dispatch"}  => link[c] = "none" /\ Silent(c)
  /\ pc[c] \in {"line", "headers", "dispatch", "reply", "told", "acceptor", "install"}
       => mode[c] = "connect"
  /\ pc[c] = "peek" => mode[c] = "network"
  /\ pc[c] \in {"resolve1", "resolve2", "tcp", "utls"} =>
       /\ host[c] \in Hosts /\ ~told[c]
       /\ mode[c] = "connect" => presented[c] = None
       /\ mode[c] = "network" /\ is_intercepted(host[c]) => Shown(c)
  /\ pc[c] \in {"resolve1", "resolve2", "tcp"} => link[c] = "none"
  /\ pc[c] = "utls"  => is_intercepted(host[c]) /\ link[c] = "tcp"
  /\ pc[c] = "reply" => host[c] \in Hosts /\ Stands(c) /\ Silent(c)
  /\ pc[c] = "told"  => host[c] \in Hosts /\ Stands(c) /\ told[c] /\ presented[c] = None
  /\ pc[c] \in {"acceptor", "key", "build"} => Opened(c) /\ presented[c] = None
  /\ pc[c] \in {"install", "ctls"} => Opened(c) /\ Shown(c)

Progress == \A c \in Conns : Placed(c)

\* A key is built under the lock, for a name that has none.
BuildsLocked ==
  \A c \in Conns : pc[c] = "build" => key_lock = c /\ key_cache[host[c]] = 0

\* Whatever was shown, and whatever an acceptor has captured, is the key of the name.
KeysAgree ==
  /\ \A c \in Conns : presented[c] /= None =>
       presented[c].key /= 0 /\ presented[c].key = key_cache[presented[c].host]
  /\ \A h \in Hosts : acceptor_cache[h] \in {0, key_cache[h]}

ConnectInv == TypeOK /\ Progress /\ BuildsLocked /\ KeysAgree
=============================================================================
