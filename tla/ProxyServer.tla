---------------------------- MODULE ProxyServer ----------------------------
(***************************************************************************)
(* The egress proxy of one run: what it does with each connection the tool *)
(* opens to it, from the request line to the entry in the access log.      *)
(*                                                                         *)
(* A CONNECT is refused, tunnelled, or, on a credentialed or path rule     *)
(* host, decrypted, in which case every request inside it is checked for   *)
(* itself.  A plain HTTP request is refused or forwarded; each one on a    *)
(* kept-alive connection counts as a connection here.  The upstream's      *)
(* address is known only when it is dialled, the TLS server name only when *)
(* the client sends it, and the client may hang up, or the run end and the *)
(* proxy be removed, at any point in between.                              *)
(*                                                                         *)
(* A path is "ok" if it is safe to compare and matches a pattern of its    *)
(* host, else "bad"; a name is a host, already normalized.                 *)
(***************************************************************************)
EXTENDS Naturals, Sequences, FiniteSets

CONSTANTS
  Conns,        \* the connections of the run
  Hosts,        \* the hosts they ask for
  ExactHosts,   \* hosts with a whole-host entry of their own
  WildHosts,    \* hosts a wildcard entry matches
  PathHosts,    \* hosts with path rules
  CredHosts,    \* hosts with a credential, which is named by its host
  Injects,      \* whether the proxy has an Injector
  MaxRequests,  \* bound: requests per decrypted tunnel
  None

\* resolve.ProxyRules puts every credential host on the allowlist, and loadInjector
\* refuses path rules without the CA that decrypts their hosts.
ASSUME HostsAssumption ==
  /\ ExactHosts \cup WildHosts \cup PathHosts \cup CredHosts \subseteq Hosts
  /\ CredHosts \subseteq ExactHosts \cup PathHosts
  /\ Injects \in BOOLEAN
  /\ CredHosts \cup PathHosts # {} => Injects
  /\ None \notin Hosts
  /\ MaxRequests \in Nat

DefaultPorts == {80, 443}
Ports        == DefaultPorts \cup {22}
injectPort   == 443
Paths        == {"ok", "bad"}
Addrs        == {"public", "private", "local"}
Upgrades     == {"none", "websocket", "h2c"}
Reasons      == {"none", "blocked-address", "upstream-failed", "proxy-failed", "client-closed",
                 "sni-mismatch", "path-blocked", "no-placeholder"}

Requests == [method : {"connect", "http"}, host : Hosts, port : Ports, path : Paths]
\* A request inside a decrypted tunnel; a placeholder is that of some host's credential.
Inners   == [path : Paths, placeholder : CredHosts \cup {None}, upgrade : Upgrades]
Entries  == [decision : {"allow", "deny"}, enforced : BOOLEAN, intercepted : BOOLEAN, reason : Reasons]
\* What reached an upstream; "opaque" is traffic whose paths nobody reads.
Sends    == [via : {"tunnel", "http", "intercept"}, path : Paths \cup {"opaque"},
             addr : Addrs, upgrade : Upgrades, secret : CredHosts \cup {None}]

VARIABLES
  monitor,   \* monitor mode
  up,        \* whether the proxy runs
  pc,        \* where each connection's handler is
  request,   \* the request a connection began with
  inner,     \* the decrypted request being served
  requests,  \* the decrypted requests served so far
  watch,     \* authWatch: which of "auth failure" and "placeholder" were seen
  closed,    \* whether the tunnel's oneConnListener is closed
  gone,      \* whether the client hung up
  addr,      \* the address the upstream connection was dialled to
  sent,      \* the last thing that reached the upstream
  log        \* the access log, by connection

connVars == <<request, inner, requests, watch, closed, gone, addr, sent, log>>
vars == <<monitor, up, pc, connVars>>
-----------------------------------------------------------------------------
(* Allowlist.                                                              *)

PathRestricted(h) == h \in PathHosts

Allows(h, port) == port \in DefaultPorts /\ (h \in ExactHosts \cup WildHosts \/ PathRestricted(h))

ExactMatch(h) == h \in ExactHosts \/ PathRestricted(h)

PrivateAlwaysOK(h, a) == a = "local"    \* mutant
\* blockedAddr with the privateOK its host's entry allows; monitor mode keeps it.
Blocked(h, a) == a = "local" \/ (a = "private" /\ ~ExactMatch(h))

Forwards(r) == Allows(r.host, r.port) \/ monitor

Decrypts(r) == Injects /\ r.port = injectPort /\ (r.host \in CredHosts \/ PathRestricted(r.host))

PathPasses(r, path) == PathRestricted(r.host) => path = "ok"

\* checkPaths drops the upgrades whose connection it could not check any more.
UpgradeKept(r, u) == u    \* mutant
PassedUpgrade(r, u) == IF PathRestricted(r.host) /\ u # "websocket" THEN "none" ELSE u

AnySecret(r, i) == i.placeholder    \* mutant
\* substitute knows only the credential of the tunnel's own host.
Substituted(r, i) == IF i.placeholder = r.host /\ r.host \in CredHosts THEN r.host ELSE None
-----------------------------------------------------------------------------
(* Access log.                                                             *)

Verdict(r) == [decision |-> IF Allows(r.host, r.port) THEN "allow" ELSE "deny",
               enforced |-> ~monitor, intercepted |-> FALSE, reason |-> "none"]

ErrorAsReason(e, why) == [e EXCEPT !.reason = <<why, "dial tcp">>]    \* mutant
Because(e, why) == [e EXCEPT !.reason = why]
Refusal(e, why, observed) ==
  [e EXCEPT !.decision = "deny", !.enforced = ~observed, !.reason = why]
PathBlocked(e) == Refusal(e, "path-blocked", monitor)

\* The entry of connection c, and of a request inside its tunnel.
Entry(c) == Verdict(request[c])
InnerEntry(c) == [Entry(c) EXCEPT !.intercepted = TRUE]

Log(c, e) == log' = [log EXCEPT ![c] = Append(@, e)]

NoRepeats(e) == e.intercepted /\ e.reason # "none"    \* mutant
RepeatsAttempt(e) == \/ e.intercepted /\ e.reason # "none"
                     \/ e.reason = "path-blocked" /\ ~e.enforced

\* Summary.add: a refusal of another kind is not counted as denied.
IsDenied(e) == e.decision = "deny" /\
  e.reason \notin {"path-blocked", "blocked-address", "sni-mismatch", "no-placeholder"}

Attempts(c) == Cardinality({i \in DOMAIN log[c] : ~RepeatsAttempt(log[c][i])})
Denied(c)   == Cardinality({i \in DOMAIN log[c] : IsDenied(log[c][i])})
-----------------------------------------------------------------------------
Goto(c, point) == pc' = [pc EXCEPT ![c] = point]
At(c, point)   == up /\ pc[c] = point
Send(c, s)     == sent' = [sent EXCEPT ![c] = s]

\* Log an entry and leave connection c at a point, without touching anything else.
LogAndGo(c, e, point) ==
  /\ Log(c, e)
  /\ Goto(c, point)
  /\ UNCHANGED <<monitor, up, request, inner, requests, watch, closed, gone, addr, sent>>

\* handleConnect and handleHTTP up to the first blocking call.
Accept(c) ==
  /\ At(c, "idle")
  /\ \E r \in Requests : request' = [request EXCEPT ![c] = r]
  /\ Goto(c, "handle")
  /\ UNCHANGED <<monitor, up, inner, requests, watch, closed, gone, addr, sent, log>>

RefuseHost(c) ==
  /\ At(c, "handle")
  /\ ~Forwards(request[c])
  /\ LogAndGo(c, Entry(c), "done")

HandleConnect(c) ==
  LET r == request[c] IN
  /\ At(c, "handle")
  /\ Forwards(r) /\ r.method = "connect"
  /\ \/ Decrypts(r) /\ Goto(c, "handshake") /\ UNCHANGED log
     \/ ~Decrypts(r) /\ ~PathRestricted(r.host) /\ Goto(c, "dial") /\ UNCHANGED log
     \/ /\ ~Decrypts(r) /\ PathRestricted(r.host)
        /\ Log(c, PathBlocked(Entry(c)))
        /\ Goto(c, IF monitor THEN "dial" ELSE "done")
  /\ UNCHANGED <<monitor, up, request, inner, requests, watch, closed, gone, addr, sent>>

HandleHTTP(c) ==
  LET r == request[c] IN
  /\ At(c, "handle")
  /\ Forwards(r) /\ r.method = "http"
  /\ \/ PathPasses(r, r.path) /\ Goto(c, "dial") /\ UNCHANGED log
     \/ /\ ~PathPasses(r, r.path)
        /\ Log(c, PathBlocked(Entry(c)))
        /\ Goto(c, IF monitor THEN "dial" ELSE "done")
  /\ UNCHANGED <<monitor, up, request, inner, requests, watch, closed, gone, addr, sent>>

\* The guarded dialer resolves the host; a blocked address is refused in both modes.
DialFails(c, e, point) ==
  \/ \E a \in Addrs : Blocked(request[c].host, a) /\ LogAndGo(c, Refusal(e, "blocked-address", FALSE), point)
  \/ LogAndGo(c, Because(e, "upstream-failed"), point)

Dialled(c, a, point) ==
  /\ ~Blocked(request[c].host, a)
  /\ addr' = [addr EXCEPT ![c] = a]
  /\ Goto(c, point)
  /\ UNCHANGED <<monitor, up, request, inner, requests, watch, closed, gone, log>>

\* RoundTrip sends a plain HTTP request as soon as it is connected.
Dial(c) ==
  /\ At(c, "dial")
  /\ \/ DialFails(c, Entry(c), "done")
     \/ /\ request[c].method = "connect"
        /\ \E a \in Addrs : Dialled(c, a, "acceptTunnel")
        /\ UNCHANGED sent
     \/ /\ request[c].method = "http"
        /\ \E a \in Addrs :
             /\ Dialled(c, a, "response")
             /\ Send(c, [via |-> "http", path |-> request[c].path, addr |-> a, upgrade |-> "none", secret |-> None])
-----------------------------------------------------------------------------
(* A tunnel: nothing goes upstream before its TLS server name checks out.  *)

\* The hijack fails, or the 200 does not reach the client any more.
AcceptTunnel(c) ==
  /\ At(c, "acceptTunnel")
  /\ \/ LogAndGo(c, Because(Entry(c), "proxy-failed"), "done")
     \/ LogAndGo(c, Entry(c), "done")
     \/ /\ Goto(c, "hello")
        /\ UNCHANGED <<monitor, up, connVars>>

Opaque(c) == [via |-> "tunnel", path |-> "opaque", addr |-> addr[c], upgrade |-> "none", secret |-> None]

\* The hello is replayed, unless the upstream is gone.
ReplayHello(c) ==
  \/ Send(c, Opaque(c)) /\ Goto(c, "splice")
  \/ UNCHANGED sent /\ Goto(c, "done")

\* The hello names the host, or does not (or is no TLS); the client may close before any of it.
CheckServerName(c) ==
  /\ At(c, "hello")
  /\ \/ Log(c, Entry(c)) /\ ReplayHello(c)
     \/ /\ Log(c, Refusal(Entry(c), "sni-mismatch", monitor))
        /\ IF monitor THEN ReplayHello(c) ELSE UNCHANGED sent /\ Goto(c, "done")
     \/ /\ gone[c]
        /\ Log(c, Because(Entry(c), "client-closed"))
        /\ Goto(c, "done") /\ UNCHANGED sent
  /\ UNCHANGED <<monitor, up, request, inner, requests, watch, closed, gone, addr>>

\* Either side closes.
EndSplice(c) ==
  /\ At(c, "splice")
  /\ Goto(c, "done")
  /\ UNCHANGED <<monitor, up, connVars>>
-----------------------------------------------------------------------------
(* A forwarded request: logged once the upstream has answered it.          *)

\* There is no timeout on the answer: the client's hanging up ends the wait with an error.
Respond(c) ==
  /\ At(c, "response")
  /\ \/ LogAndGo(c, Entry(c), "done")
     \/ LogAndGo(c, Because(Entry(c), "upstream-failed"), "done")
-----------------------------------------------------------------------------
(* A decrypted tunnel.                                                     *)

Handshake(c) ==
  /\ At(c, "handshake")
  /\ \/ LogAndGo(c, Because(Entry(c), "client-closed"), "done")
     \/ LogAndGo(c, Because(Entry(c), "proxy-failed"), "done")
     \/ LogAndGo(c, InnerEntry(c), "serve")

\* blockMethods: answered with 405, and not logged.
BlockMethod(c) ==
  /\ At(c, "serve")
  /\ requests[c] < MaxRequests
  /\ requests' = [requests EXCEPT ![c] = @ + 1]
  /\ UNCHANGED <<monitor, up, pc, request, inner, watch, closed, gone, addr, sent, log>>

\* checkPaths and, for a request it lets pass, authWatch.request.
ServeRequest(c) ==
  \E i \in Inners :
    LET r == request[c]
        kept == [i EXCEPT !.upgrade = PassedUpgrade(r, i.upgrade)]
        passes == PathPasses(r, i.path)
    IN
    /\ At(c, "serve")
    /\ requests[c] < MaxRequests
    /\ requests' = [requests EXCEPT ![c] = @ + 1]
    /\ IF passes THEN UNCHANGED log ELSE Log(c, PathBlocked(InnerEntry(c)))
    /\ IF passes \/ monitor
       THEN /\ inner' = [inner EXCEPT ![c] = kept]
            /\ watch' = [watch EXCEPT ![c] =
                           @ \cup {w \in {"placeholder"} : Substituted(r, i) # None}]
            /\ Goto(c, "dialInner")
       ELSE UNCHANGED <<inner, watch, pc>>
    /\ UNCHANGED <<monitor, up, request, closed, gone, addr, sent>>

\* interceptFailed: the client cancelled, else as refuseUpstream.
Cancelled(c) == gone[c] /\ LogAndGo(c, Because(InnerEntry(c), "client-closed"), "serve")

DialInner(c) ==
  /\ At(c, "dialInner")
  /\ \/ Cancelled(c)
     \/ DialFails(c, InnerEntry(c), "serve")
     \/ \E a \in Addrs :
          /\ Dialled(c, a, "responseInner")
          /\ Send(c, [via |-> "intercept", path |-> inner[c].path, addr |-> a,
                      upgrade |-> "none", secret |-> Substituted(request[c], inner[c])])

\* The upstream's answer: an auth failure is noted; a 101 hands the connection over.
RespondInner(c) ==
  /\ At(c, "responseInner")
  /\ \/ Cancelled(c)
     \/ LogAndGo(c, Because(InnerEntry(c), "upstream-failed"), "serve")
     \/ /\ \E seen \in SUBSET {"auth failure"} : watch' = [watch EXCEPT ![c] = @ \cup seen]
        /\ Goto(c, "serve")
        /\ UNCHANGED <<monitor, up, request, inner, requests, closed, gone, addr, sent, log>>
     \/ /\ inner[c].upgrade # "none"
        /\ Goto(c, "upgraded")
        /\ Send(c, [sent[c] EXCEPT !.path = "opaque", !.upgrade = inner[c].upgrade])
        /\ UNCHANGED <<monitor, up, request, inner, requests, watch, closed, gone, addr, log>>

StaysOpen(c) == UNCHANGED closed    \* mutant
\* closeNotifyConn closes the listener with the connection it yielded.
CloseListener(c) == closed' = [closed EXCEPT ![c] = TRUE]

\* The client hung up, the idle timeout ran out, or an upgraded connection ended.
CloseConn(c) ==
  /\ up /\ pc[c] \in {"serve", "upgraded"}
  /\ ~closed[c]
  /\ Goto(c, "closing")
  /\ CloseListener(c)
  /\ UNCHANGED <<monitor, up, request, inner, requests, watch, gone, addr, sent, log>>

MissedPlaceholder(c) ==
  request[c].host \in CredHosts /\ "auth failure" \in watch[c] /\ "placeholder" \notin watch[c]

\* Serve returns once the listener is closed.
EndIntercept(c) ==
  /\ At(c, "closing")
  /\ closed[c]
  /\ IF MissedPlaceholder(c) THEN Log(c, Because(InnerEntry(c), "no-placeholder")) ELSE UNCHANGED log
  /\ Goto(c, "done")
  /\ UNCHANGED <<monitor, up, request, inner, requests, watch, closed, gone, addr, sent>>
-----------------------------------------------------------------------------
HangUp(c) ==
  /\ up /\ pc[c] \notin {"idle", "done"} /\ ~gone[c]
  /\ gone' = [gone EXCEPT ![c] = TRUE]
  /\ UNCHANGED <<monitor, up, pc, request, inner, requests, watch, closed, addr, sent, log>>

\* The run ends: its proxy container is removed with rm --force.
Stop ==
  /\ up
  /\ up' = FALSE
  /\ UNCHANGED <<monitor, pc, connVars>>

Init ==
  /\ monitor \in BOOLEAN
  /\ up = TRUE
  /\ pc = [c \in Conns |-> "idle"]
  /\ request = [c \in Conns |-> None]
  /\ inner = [c \in Conns |-> None]
  /\ requests = [c \in Conns |-> 0]
  /\ watch = [c \in Conns |-> {}]
  /\ closed = [c \in Conns |-> FALSE]
  /\ gone = [c \in Conns |-> FALSE]
  /\ addr = [c \in Conns |-> None]
  /\ sent = [c \in Conns |-> None]
  /\ log = [c \in Conns |-> <<>>]

\* What the handler does by itself, within a timeout or because the client is gone.
Handle(c) ==
  \/ RefuseHost(c) \/ HandleConnect(c) \/ HandleHTTP(c) \/ Dial(c)
  \/ AcceptTunnel(c) \/ CheckServerName(c) \/ Handshake(c)
  \/ DialInner(c) \/ EndIntercept(c)
\* What waits for the client or the upstream, until the client is gone.
Wait(c) == EndSplice(c) \/ Respond(c) \/ RespondInner(c) \/ CloseConn(c)

Next ==
  \/ \E c \in Conns :
       \/ Accept(c) \/ Handle(c) \/ Wait(c)
       \/ BlockMethod(c) \/ ServeRequest(c) \/ HangUp(c)
  \/ Stop

Spec == Init /\ [][Next]_vars

Fairness == \A c \in Conns : WF_vars(Handle(c)) /\ WF_vars(gone[c] /\ Wait(c))
FairSpec == Spec /\ Fairness
-----------------------------------------------------------------------------
(* Properties.                                                             *)

Points == {"idle", "handle", "dial", "acceptTunnel", "hello", "splice", "response", "handshake",
           "serve", "dialInner", "responseInner", "upgraded", "closing", "done"}

TypeOK ==
  /\ monitor \in BOOLEAN /\ up \in BOOLEAN
  /\ pc \in [Conns -> Points]
  /\ request \in [Conns -> Requests \cup {None}]
  /\ inner \in [Conns -> Inners \cup {None}]
  /\ requests \in [Conns -> 0..MaxRequests]
  /\ watch \in [Conns -> SUBSET {"auth failure", "placeholder"}]
  /\ closed \in [Conns -> BOOLEAN]
  /\ gone \in [Conns -> BOOLEAN]
  /\ addr \in [Conns -> Addrs \cup {None}]
  /\ sent \in [Conns -> Sends \cup {None}]
  /\ log \in [Conns -> Seq(Entries)]

\* In enforce mode nothing reaches an upstream off the allowlist, and a path rule host sees
\* only requests whose path a rule allows, and the WebSockets they opened: never a tunnel or an
\* upgraded connection the proxy cannot read (docs/egress-proxy.md, "Path rules").
OnlyAllowedTraffic ==
  ~monitor => \A c \in Conns : sent[c] # None =>
    LET r == request[c] IN
    /\ Allows(r.host, r.port)
    /\ r.host \in PathHosts =>
         \/ sent[c].path = "ok"
         \/ sent[c].path = "opaque" /\ sent[c].upgrade = "websocket"

\* In both modes, whatever DNS answers, no local address is reached, and a private one only
\* for a host the allowlist names itself (docs/egress-proxy.md, "Local and private addresses").
BlockedAddressesUnreached ==
  \A c \in Conns : sent[c] # None =>
    /\ sent[c].addr # "local"
    /\ sent[c].addr = "private" => request[c].host \in ExactHosts \cup PathHosts

\* A secret is sent only inside a decrypted tunnel to its own host, whatever placeholder the tool
\* sends there, and in enforce mode only on the host's allowed paths
\* (docs/egress-proxy.md: "Credential hosts only get their secret on the allowed paths").
SecretsStayHome ==
  \A c \in Conns : sent[c] # None /\ sent[c].secret # None =>
    /\ sent[c].secret = request[c].host
    /\ sent[c].via = "intercept" /\ request[c].port = 443
    /\ ~monitor /\ request[c].host \in PathHosts /\ sent[c].path # "opaque" => sent[c].path = "ok"

\* The summary's counts add up, however many requests a tunnel carried and whatever became of
\* them: a connection counts as one attempt, once it is over exactly one, and never as more
\* denials than attempts (printDenied: "observed %d request(s); %d would be blocked").
SummaryAddsUp ==
  \A c \in Conns :
    /\ Attempts(c) <= 1
    /\ pc[c] = "done" => Attempts(c) = 1
    /\ pc[c] = "done" => Denied(c) <= Attempts(c)

\* Once the client has hung up, its handler ends and is logged, unless the run ends first
\* (closeNotifyConn; the timeouts of dial and handshakes).
HungUpClientsEnd ==
  \A c \in Conns : gone[c] ~> (pc[c] = "done" \/ ~up)

\* Whatever reached an upstream is in the access log when the run is over
\* (allowlist.go: the proxy "logs every attempt").
EveryAttemptIsLogged ==
  \A c \in Conns : ~up /\ sent[c] # None => Attempts(c) = 1
=============================================================================
