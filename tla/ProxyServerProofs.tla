------------------------- MODULE ProxyServerProofs -------------------------
(***************************************************************************)
(* What reaches an upstream, for any number of connections, hosts and      *)
(* requests.  A send is allowed because of checks made at earlier steps of *)
(* the handler, so the invariant says of each program point which checks a *)
(* connection at it has passed; connections do not touch each other.       *)
(***************************************************************************)
EXTENDS ProxyServer, FiniteSetTheorems, TLAPS

Plain     == {"dial", "acceptTunnel", "hello", "splice", "response"}
Decrypted == {"handshake", "serve", "dialInner", "responseInner", "upgraded", "closing"}

\* Past its verdict, and once anything was sent, a connection is to a host it may reach.
Forwarded(c) ==
  /\ pc[c] # "idle" => request[c] \in Requests
  /\ pc[c] = "idle" => sent[c] = None
  /\ pc[c] \in Plain \cup Decrypted \/ sent[c] # None => Forwards(request[c])

\* In enforce mode a connection to a path rule host is dialled only for a path its rules allow.
CheckedPlain(c) ==
  /\ pc[c] \in {"dial", "response"} /\ ~monitor /\ PathRestricted(request[c].host) =>
       request[c].method = "http" /\ request[c].path = "ok"
  /\ pc[c] \in {"acceptTunnel", "hello"} /\ ~monitor => ~PathRestricted(request[c].host)

DialledGuarded(c) ==
  pc[c] \in {"acceptTunnel", "hello"} => addr[c] \in Addrs /\ ~Blocked(request[c].host, addr[c])

SendAllowed(c) ==
  /\ ~monitor /\ PathRestricted(request[c].host) =>
       \/ sent[c].path = "ok"
       \/ sent[c].path = "opaque" /\ sent[c].upgrade = "websocket"
  /\ sent[c].addr \in Addrs /\ ~Blocked(request[c].host, sent[c].addr)
  /\ sent[c].secret # None =>
       sent[c].secret = request[c].host /\ sent[c].via = "intercept" /\ request[c].port = injectPort

SentAsAllowed(c) == sent[c] # None => SendAllowed(c)

\* A decrypted tunnel is to the one port that is decrypted, and its request has been checked.
CheckedInner(c) ==
  /\ pc[c] \in Decrypted => request[c].port = injectPort
  /\ pc[c] \in {"dialInner", "responseInner"} =>
       /\ inner[c] \in Inners
       /\ ~monitor => PathPasses(request[c], inner[c].path)
       /\ PathRestricted(request[c].host) => inner[c].upgrade # "h2c"
  /\ pc[c] = "responseInner" => sent[c] \in Sends /\ sent[c].via = "intercept" /\ SendAllowed(c)

ConnInv(c) ==
  Forwarded(c) /\ CheckedPlain(c) /\ DialledGuarded(c) /\ CheckedInner(c) /\ SentAsAllowed(c)

IInv == TypeOK /\ \A c \in Conns : ConnInv(c)
-----------------------------------------------------------------------------
(* Types.                                                                  *)

LEMMA InitInv == Init => IInv
  BY HostsAssumption DEF Init, IInv, TypeOK, Points, ConnInv, Forwarded, CheckedPlain, DialledGuarded,
     CheckedInner, SentAsAllowed, SendAllowed, Plain, Decrypted

LEMMA EntriesTyped ==
  ASSUME NEW e \in Entries
  PROVE  /\ [e EXCEPT !.intercepted = TRUE] \in Entries
         /\ \A why \in Reasons : Because(e, why) \in Entries
         /\ \A why \in Reasons, observed \in BOOLEAN : Refusal(e, why, observed) \in Entries
  BY DEF Because, Refusal, Entries

LEMMA ConnEntriesTyped ==
  ASSUME TypeOK, NEW c \in Conns
  PROVE  Entry(c) \in Entries /\ InnerEntry(c) \in Entries
<1>1. Entry(c) \in Entries BY DEF TypeOK, Entry, Verdict, Entries, Reasons
<1> QED BY <1>1, EntriesTyped DEF InnerEntry

LEMMA PathBlockedTyped ==
  ASSUME TypeOK, NEW e \in Entries
  PROVE  PathBlocked(e) \in Entries
  BY EntriesTyped DEF PathBlocked, TypeOK, Reasons

LEMMA LogTyped ==
  ASSUME TypeOK, NEW c \in Conns, NEW e \in Entries, Log(c, e)
  PROVE  log' \in [Conns -> Seq(Entries)]
<1>1. log[c] \in Seq(Entries) BY DEF TypeOK
<1>2. Append(log[c], e) \in Seq(Entries) BY <1>1
<1> HIDE DEF Entries
<1> QED BY <1>2, ZenonT(30) DEF TypeOK, Log

\* Logging and moving on to a point that promises nothing more keeps the invariant.
LEMMA LogAndGoKeeps ==
  ASSUME TypeOK, NEW c \in Conns, ConnInv(c), pc[c] # "idle", NEW e \in Entries,
         NEW point \in {"done", "serve"}, LogAndGo(c, e, point),
         point = "serve" => pc[c] \in Decrypted
  PROVE  TypeOK' /\ ConnInv(c)'
<1>1. log' \in [Conns -> Seq(Entries)] BY LogTyped DEF LogAndGo
<1>2. pc' \in [Conns -> Points] /\ pc'[c] = point BY DEF LogAndGo, Goto, TypeOK, Points
<1>3. TypeOK' BY <1>1, <1>2 DEF TypeOK, LogAndGo
<1>4. ConnInv(c)'
  BY <1>2 DEF ConnInv, Forwarded, CheckedPlain, DialledGuarded, CheckedInner, SentAsAllowed, SendAllowed, LogAndGo,
     Forwards, Blocked, Plain, Decrypted
<1> QED BY <1>3, <1>4

LEMMA DialFailsKeeps ==
  ASSUME TypeOK, NEW c \in Conns, ConnInv(c), pc[c] # "idle", NEW e \in Entries,
         NEW point \in {"done", "serve"}, DialFails(c, e, point),
         point = "serve" => pc[c] \in Decrypted
  PROVE  TypeOK' /\ ConnInv(c)'
<1>1. Refusal(e, "blocked-address", FALSE) \in Entries /\ Because(e, "upstream-failed") \in Entries
  BY EntriesTyped DEF Reasons
<1> QED BY <1>1, LogAndGoKeeps DEF DialFails
-----------------------------------------------------------------------------
(* The steps of one connection.                                            *)

LEMMA AcceptKeeps ==
  ASSUME TypeOK, NEW c \in Conns, ConnInv(c), Accept(c)
  PROVE  TypeOK' /\ ConnInv(c)'
<1>1. pc' \in [Conns -> Points] /\ pc'[c] = "handle" BY DEF Accept, Goto, TypeOK, Points
<1>2. request' \in [Conns -> Requests \cup {None}] /\ request'[c] \in Requests BY DEF Accept, TypeOK
<1>3. TypeOK' BY <1>1, <1>2 DEF Accept, TypeOK
<1>4. sent'[c] = None BY DEF Accept, At, ConnInv, Forwarded
<1> QED BY <1>1, <1>2, <1>3, <1>4 DEF ConnInv, Forwarded, CheckedPlain, DialledGuarded, CheckedInner,
       SentAsAllowed, SendAllowed, Plain, Decrypted

LEMMA HandlerKeeps ==
  ASSUME TypeOK, NEW c \in Conns, ConnInv(c), HandleConnect(c) \/ HandleHTTP(c)
  PROVE  TypeOK' /\ ConnInv(c)'
<1>1. pc' \in [Conns -> Points] /\ pc'[c] \in {"handshake", "dial", "done"}
  BY DEF HandleConnect, HandleHTTP, Goto, TypeOK, Points
<1>2. PathBlocked(Entry(c)) \in Entries BY ConnEntriesTyped, PathBlockedTyped
<1>3. log' \in [Conns -> Seq(Entries)] BY <1>2, LogTyped DEF HandleConnect, HandleHTTP, TypeOK
<1>4. TypeOK' BY <1>1, <1>3 DEF HandleConnect, HandleHTTP, TypeOK
<1>5. /\ request[c] \in Requests /\ Forwards(request[c])
      /\ UNCHANGED <<monitor, request, inner, addr, sent>>
      /\ pc[c] = "handle"
  BY DEF HandleConnect, HandleHTTP, At, ConnInv, Forwarded
<1>6. pc'[c] = "handshake" => Decrypts(request[c])
  BY DEF HandleConnect, HandleHTTP, Goto, TypeOK
<1>7. pc'[c] = "dial" /\ ~monitor /\ PathRestricted(request[c].host) =>
        request[c].method = "http" /\ request[c].path = "ok"
  BY DEF HandleConnect, HandleHTTP, Goto, TypeOK, PathPasses
<1>8. Forwarded(c)' BY <1>1, <1>5 DEF Forwarded, Forwards
<1>9. CheckedPlain(c)' /\ DialledGuarded(c)' BY <1>1, <1>5, <1>7 DEF CheckedPlain, DialledGuarded
<1>10. CheckedInner(c)' BY <1>1, <1>5, <1>6 DEF CheckedInner, Decrypts, Decrypted
<1>11. SentAsAllowed(c)' BY <1>5 DEF SentAsAllowed, SendAllowed, ConnInv, Blocked
<1> QED BY <1>4, <1>8, <1>9, <1>10, <1>11 DEF ConnInv

LEMMA DialKeeps ==
  ASSUME TypeOK, NEW c \in Conns, ConnInv(c), Dial(c)
  PROVE  TypeOK' /\ ConnInv(c)'
<1>1. CASE DialFails(c, Entry(c), "done")
  BY <1>1, DialFailsKeeps, ConnEntriesTyped DEF Dial, At
<1>2. CASE request[c].method = "connect" /\ (\E a \in Addrs : Dialled(c, a, "acceptTunnel")) /\ UNCHANGED sent
  <2>1. PICK a \in Addrs : Dialled(c, a, "acceptTunnel") BY <1>2
  <2>2. pc' \in [Conns -> Points] /\ pc'[c] = "acceptTunnel" BY <2>1 DEF Dialled, Goto, TypeOK, Points
  <2>3. addr' \in [Conns -> Addrs \cup {None}] /\ addr'[c] = a BY <2>1 DEF Dialled, TypeOK
  <2>4. TypeOK' BY <1>2, <2>1, <2>2, <2>3 DEF Dialled, TypeOK
  <2>5. ~Blocked(request[c].host, a) /\ UNCHANGED <<monitor, request, inner, sent>> BY <1>2, <2>1 DEF Dialled
  <2>6. pc[c] = "dial" BY DEF Dial, At
  <2>7. Forwarded(c)' BY <2>2, <2>5, <2>6 DEF Forwarded, Forwards, ConnInv, Plain
  <2>8. CheckedPlain(c)' BY <1>2, <2>2, <2>5, <2>6 DEF CheckedPlain, ConnInv, PathRestricted
  <2>9. DialledGuarded(c)' BY <2>2, <2>3, <2>5 DEF DialledGuarded, Blocked
  <2>10. CheckedInner(c)' BY <2>2 DEF CheckedInner, Decrypted
  <2>11. SentAsAllowed(c)' BY <2>5 DEF SentAsAllowed, SendAllowed, ConnInv, Blocked
  <2> QED BY <2>4, <2>7, <2>8, <2>9, <2>10, <2>11 DEF ConnInv
<1>3. CASE request[c].method = "http" /\ \E a \in Addrs :
             /\ Dialled(c, a, "response")
             /\ Send(c, [via |-> "http", path |-> request[c].path, addr |-> a, upgrade |-> "none", secret |-> None])
  <2> DEFINE s(a) == [via |-> "http", path |-> request[c].path, addr |-> a, upgrade |-> "none", secret |-> None]
  <2>1. PICK a \in Addrs : Dialled(c, a, "response") /\ Send(c, s(a)) BY <1>3
  <2>2. pc[c] = "dial" /\ request[c] \in Requests BY DEF Dial, At, ConnInv, Forwarded
  <2>3. pc' \in [Conns -> Points] /\ pc'[c] = "response" BY <2>1 DEF Dialled, Goto, TypeOK, Points
  <2>4. addr' \in [Conns -> Addrs \cup {None}] BY <2>1 DEF Dialled, TypeOK
  <2>5. s(a) \in Sends BY <2>2 DEF Sends, Requests, Upgrades
  <2>6. sent' \in [Conns -> Sends \cup {None}] /\ sent'[c] = s(a) BY <2>1, <2>5 DEF Send, TypeOK
  <2>7. TypeOK' BY <2>1, <2>3, <2>4, <2>6 DEF Dialled, TypeOK
  <2>8. ~Blocked(request[c].host, a) /\ UNCHANGED <<monitor, request, inner>> BY <2>1 DEF Dialled
  <2>9. Forwarded(c)' BY <2>2, <2>3, <2>8 DEF Forwarded, Forwards, ConnInv, Plain
  <2>10. CheckedPlain(c)' BY <1>3, <2>2, <2>3, <2>8 DEF CheckedPlain, ConnInv, PathRestricted
  <2>11. DialledGuarded(c)' /\ CheckedInner(c)' BY <2>3 DEF DialledGuarded, CheckedInner, Decrypted
  <2>12. SentAsAllowed(c)'
    BY <1>3, <2>2, <2>6, <2>8 DEF SentAsAllowed, SendAllowed, CheckedPlain, ConnInv, Blocked, PathRestricted
  <2> QED BY <2>7, <2>9, <2>10, <2>11, <2>12 DEF ConnInv
<1> QED BY <1>1, <1>2, <1>3 DEF Dial

LEMMA AcceptTunnelKeeps ==
  ASSUME TypeOK, NEW c \in Conns, ConnInv(c), AcceptTunnel(c)
  PROVE  TypeOK' /\ ConnInv(c)'
<1>1. Entry(c) \in Entries /\ Because(Entry(c), "proxy-failed") \in Entries
  BY ConnEntriesTyped, EntriesTyped DEF Reasons
<1>2. CASE Goto(c, "hello") /\ UNCHANGED <<monitor, up, connVars>>
  <2>1. pc[c] = "acceptTunnel" BY DEF AcceptTunnel, At
  <2>2. pc' \in [Conns -> Points] /\ pc'[c] = "hello" BY <1>2 DEF Goto, TypeOK, Points
  <2>3. TypeOK' BY <1>2, <2>2 DEF TypeOK, connVars
  <2> QED BY <1>2, <2>1, <2>2, <2>3 DEF connVars, ConnInv, Forwarded, CheckedPlain, DialledGuarded, CheckedInner,
       SentAsAllowed, SendAllowed, Plain, Decrypted, Forwards, Blocked
<1> QED BY <1>1, <1>2, LogAndGoKeeps DEF AcceptTunnel, At

LEMMA CheckServerNameKeeps ==
  ASSUME TypeOK, NEW c \in Conns, ConnInv(c), CheckServerName(c)
  PROVE  TypeOK' /\ ConnInv(c)'
<1>1. pc[c] = "hello" BY DEF CheckServerName, At
<1>2. pc' \in [Conns -> Points] /\ pc'[c] \in {"splice", "done"}
  BY DEF CheckServerName, ReplayHello, Goto, TypeOK, Points
<1>3. Opaque(c) \in Sends BY <1>1 DEF Opaque, Sends, Upgrades, ConnInv, DialledGuarded
<1>4. sent' \in [Conns -> Sends \cup {None}] /\ (sent'[c] = sent[c] \/ sent'[c] = Opaque(c))
  BY <1>3 DEF CheckServerName, ReplayHello, Send, TypeOK
<1>5. /\ Entry(c) \in Entries /\ Because(Entry(c), "client-closed") \in Entries
      /\ Refusal(Entry(c), "sni-mismatch", monitor) \in Entries
  BY ConnEntriesTyped, EntriesTyped DEF Reasons, TypeOK
<1>6. log' \in [Conns -> Seq(Entries)] BY <1>5, LogTyped DEF CheckServerName
<1>7. TypeOK' BY <1>2, <1>4, <1>6 DEF CheckServerName, TypeOK
<1>8. UNCHANGED <<monitor, request, inner, addr>> BY DEF CheckServerName
<1>9. Forwarded(c)' BY <1>1, <1>2, <1>8 DEF Forwarded, Forwards, ConnInv, Plain
<1>10. CheckedPlain(c)' /\ DialledGuarded(c)' /\ CheckedInner(c)'
  BY <1>2 DEF CheckedPlain, DialledGuarded, CheckedInner, Decrypted
<1>11. SentAsAllowed(c)'
  BY <1>1, <1>4, <1>8 DEF SentAsAllowed, SendAllowed, ConnInv, CheckedPlain, DialledGuarded, Opaque, Blocked
<1> QED BY <1>7, <1>9, <1>10, <1>11 DEF ConnInv

LEMMA QuietKeeps ==
  ASSUME TypeOK, NEW c \in Conns, ConnInv(c), EndSplice(c) \/ CloseConn(c)
  PROVE  TypeOK' /\ ConnInv(c)'
<1>1. pc' \in [Conns -> Points] /\ pc'[c] \in {"done", "closing"} /\ pc[c] \in {"splice", "serve", "upgraded"}
  BY DEF EndSplice, CloseConn, At, Goto, TypeOK, Points
<1>2. pc'[c] = "closing" => pc[c] \in Decrypted BY DEF EndSplice, CloseConn, Goto, TypeOK, Decrypted
<1>3. UNCHANGED <<monitor, request, inner, addr, sent>> BY DEF EndSplice, CloseConn, connVars
<1>4. TypeOK' BY <1>1 DEF EndSplice, CloseConn, CloseListener, connVars, TypeOK
<1> QED BY <1>1, <1>2, <1>3, <1>4 DEF ConnInv, Forwarded, CheckedPlain, DialledGuarded, CheckedInner,
     SentAsAllowed, SendAllowed, Plain, Decrypted, Forwards, Blocked

LEMMA RespondKeeps ==
  ASSUME TypeOK, NEW c \in Conns, ConnInv(c), Respond(c) \/ RefuseHost(c) \/ Handshake(c)
  PROVE  TypeOK' /\ ConnInv(c)'
<1>1. /\ Entry(c) \in Entries /\ InnerEntry(c) \in Entries
      /\ \A why \in {"upstream-failed", "client-closed", "proxy-failed"} : Because(Entry(c), why) \in Entries
  BY ConnEntriesTyped, EntriesTyped DEF Reasons
<1>2. CASE Respond(c) BY <1>1, <1>2, LogAndGoKeeps DEF Respond, At
<1>3. CASE RefuseHost(c) BY <1>1, <1>3, LogAndGoKeeps DEF RefuseHost, At
<1>4. CASE Handshake(c) BY <1>1, <1>4, LogAndGoKeeps DEF Handshake, At, Decrypted
<1> QED BY <1>2, <1>3, <1>4

LEMMA RequestsTyped ==
  ASSUME TypeOK, NEW c \in Conns, requests[c] < MaxRequests, requests' = [requests EXCEPT ![c] = @ + 1]
  PROVE  requests' \in [Conns -> 0..MaxRequests]
<1>1. MaxRequests \in Nat BY HostsAssumption
<1>2. requests[c] \in 0..MaxRequests BY DEF TypeOK
<1>3. requests[c] + 1 \in 0..MaxRequests BY <1>1, <1>2
<1> QED BY <1>3 DEF TypeOK

LEMMA BlockMethodKeeps ==
  ASSUME TypeOK, NEW c \in Conns, ConnInv(c), BlockMethod(c)
  PROVE  TypeOK' /\ ConnInv(c)'
<1>1. requests' \in [Conns -> 0..MaxRequests] BY RequestsTyped DEF BlockMethod
<1>2. TypeOK' BY <1>1 DEF BlockMethod, TypeOK
<1> QED BY <1>2 DEF BlockMethod, ConnInv, Forwarded, CheckedPlain, DialledGuarded, CheckedInner,
     SentAsAllowed, SendAllowed, Forwards, Blocked

LEMMA ServeRequestKeeps ==
  ASSUME TypeOK, NEW c \in Conns, ConnInv(c), ServeRequest(c)
  PROVE  TypeOK' /\ ConnInv(c)'
<1> DEFINE r == request[c]
           kept(i) == [i EXCEPT !.upgrade = PassedUpgrade(r, i.upgrade)]
<1>1. PICK i \in Inners :
        /\ At(c, "serve") /\ requests[c] < MaxRequests
        /\ requests' = [requests EXCEPT ![c] = @ + 1]
        /\ IF PathPasses(r, i.path) THEN UNCHANGED log ELSE Log(c, PathBlocked(InnerEntry(c)))
        /\ IF PathPasses(r, i.path) \/ monitor
           THEN /\ inner' = [inner EXCEPT ![c] = kept(i)]
                /\ watch' = [watch EXCEPT ![c] =
                               @ \cup {w \in {"placeholder"} : Substituted(r, i) # None}]
                /\ Goto(c, "dialInner")
           ELSE UNCHANGED <<inner, watch, pc>>
        /\ UNCHANGED <<monitor, up, request, closed, gone, addr, sent>>
  BY DEF ServeRequest
<1>2. pc[c] = "serve" BY <1>1 DEF At
<1>3. kept(i) \in Inners /\ kept(i).path = i.path /\ (PathRestricted(r.host) => kept(i).upgrade # "h2c")
  BY DEF Inners, PassedUpgrade, Upgrades
<1>4. requests' \in [Conns -> 0..MaxRequests] BY <1>1, RequestsTyped
<1>5. log' \in [Conns -> Seq(Entries)]
  BY <1>1, ConnEntriesTyped, PathBlockedTyped, LogTyped DEF TypeOK
<1>6. CASE PathPasses(r, i.path) \/ monitor
  <2>1. inner' \in [Conns -> Inners \cup {None}] /\ inner'[c] = kept(i) BY <1>1, <1>3, <1>6 DEF TypeOK
  <2>2. watch' \in [Conns -> SUBSET {"auth failure", "placeholder"}]
    <3>1. (watch[c] \cup {w \in {"placeholder"} : Substituted(r, i) # None}) \in SUBSET {"auth failure", "placeholder"}
      BY DEF TypeOK
    <3>2. watch' = [watch EXCEPT ![c] = watch[c] \cup {w \in {"placeholder"} : Substituted(r, i) # None}]
      BY <1>1, <1>6
    <3> QED BY <3>1, <3>2 DEF TypeOK
  <2>3. pc' \in [Conns -> Points] /\ pc'[c] = "dialInner" BY <1>1, <1>6 DEF Goto, TypeOK, Points
  <2>4. TypeOK' BY <1>1, <1>4, <1>5, <2>1, <2>2, <2>3 DEF TypeOK
  <2>5. CheckedInner(c)'
    BY <1>1, <1>2, <1>3, <1>6, <2>1, <2>3 DEF CheckedInner, ConnInv, Decrypted, PathPasses, PathRestricted
  <2>6. Forwarded(c)' /\ CheckedPlain(c)' /\ DialledGuarded(c)' /\ SentAsAllowed(c)'
    BY <1>1, <1>2, <2>3 DEF ConnInv, Forwarded, CheckedPlain, DialledGuarded, SentAsAllowed, SendAllowed, Forwards, Blocked, Plain, Decrypted
  <2> QED BY <2>4, <2>5, <2>6 DEF ConnInv
<1>7. CASE ~(PathPasses(r, i.path) \/ monitor)
  <2>1. UNCHANGED <<inner, watch, pc>> BY <1>1, <1>7
  <2>2. TypeOK' BY <1>1, <1>4, <1>5, <2>1 DEF TypeOK
  <2> QED BY <1>1, <2>1, <2>2 DEF ConnInv, Forwarded, CheckedPlain, DialledGuarded, CheckedInner,
       SentAsAllowed, SendAllowed, Forwards, Blocked
<1> QED BY <1>6, <1>7

LEMMA CancelledKeeps ==
  ASSUME TypeOK, NEW c \in Conns, ConnInv(c), pc[c] \in {"dialInner", "responseInner"},
         NEW why \in {"client-closed", "upstream-failed"}, LogAndGo(c, Because(InnerEntry(c), why), "serve")
  PROVE  TypeOK' /\ ConnInv(c)'
<1>1. Because(InnerEntry(c), why) \in Entries BY ConnEntriesTyped, EntriesTyped DEF Reasons
<1> QED BY <1>1, LogAndGoKeeps DEF Decrypted

LEMMA DialInnerKeeps ==
  ASSUME TypeOK, NEW c \in Conns, ConnInv(c), DialInner(c)
  PROVE  TypeOK' /\ ConnInv(c)'
<1> DEFINE s(a) == [via |-> "intercept", path |-> inner[c].path, addr |-> a,
                    upgrade |-> "none", secret |-> Substituted(request[c], inner[c])]
<1>1. pc[c] = "dialInner" BY DEF DialInner, At
<1>2. CASE Cancelled(c) BY <1>1, <1>2, CancelledKeeps DEF Cancelled
<1>3. CASE DialFails(c, InnerEntry(c), "serve")
  BY <1>1, <1>3, ConnEntriesTyped, DialFailsKeeps DEF Decrypted
<1>4. CASE \E a \in Addrs : Dialled(c, a, "responseInner") /\ Send(c, s(a))
  <2>1. PICK a \in Addrs : Dialled(c, a, "responseInner") /\ Send(c, s(a)) BY <1>4
  <2>2. pc' \in [Conns -> Points] /\ pc'[c] = "responseInner" BY <2>1 DEF Dialled, Goto, TypeOK, Points
  <2>3. addr' \in [Conns -> Addrs \cup {None}] BY <2>1 DEF Dialled, TypeOK
  <2>4. /\ inner[c] \in Inners /\ request[c] \in Requests /\ request[c].port = injectPort
        /\ ~monitor => PathPasses(request[c], inner[c].path)
        /\ PathRestricted(request[c].host) => inner[c].upgrade # "h2c"
        /\ Forwards(request[c])
    BY <1>1 DEF ConnInv, CheckedInner, Forwarded, Decrypted
  <2>5. Substituted(request[c], inner[c]) \in CredHosts \cup {None}
        /\ (Substituted(request[c], inner[c]) # None => Substituted(request[c], inner[c]) = request[c].host)
    BY DEF Substituted
  <2>6. s(a) \in Sends BY <2>4, <2>5 DEF Sends, Inners, Upgrades
  <2>7. sent' \in [Conns -> Sends \cup {None}] /\ sent'[c] = s(a) BY <2>1, <2>6 DEF Send, TypeOK
  <2>8. TypeOK' BY <2>1, <2>2, <2>3, <2>7 DEF Dialled, TypeOK
  <2>9. ~Blocked(request[c].host, a) /\ UNCHANGED <<monitor, request, inner>> BY <2>1 DEF Dialled
  <2>10. Forwarded(c)' BY <2>2, <2>4, <2>9 DEF Forwarded, Forwards
  <2>11. CheckedPlain(c)' /\ DialledGuarded(c)' BY <2>2 DEF CheckedPlain, DialledGuarded
  <2>12. SendAllowed(c)'
    <3>1. ~monitor /\ PathRestricted(request[c].host) => inner[c].path = "ok" BY <2>4 DEF PathPasses
    <3> QED BY <2>4, <2>5, <2>7, <2>9, <3>1 DEF SendAllowed, Blocked, PathRestricted
  <2>13. CheckedInner(c)' BY <2>2, <2>4, <2>6, <2>7, <2>9, <2>12 DEF CheckedInner, PathPasses
  <2> QED BY <2>8, <2>10, <2>11, <2>12, <2>13 DEF ConnInv, SentAsAllowed
<1> QED BY <1>2, <1>3, <1>4 DEF DialInner

LEMMA RespondInnerKeeps ==
  ASSUME TypeOK, NEW c \in Conns, ConnInv(c), RespondInner(c)
  PROVE  TypeOK' /\ ConnInv(c)'
<1>1. pc[c] = "responseInner" BY DEF RespondInner, At
<1>2. CASE Cancelled(c) BY <1>1, <1>2, CancelledKeeps DEF Cancelled
<1>3. CASE LogAndGo(c, Because(InnerEntry(c), "upstream-failed"), "serve") BY <1>1, <1>3, CancelledKeeps
<1>4. CASE /\ \E seen \in SUBSET {"auth failure"} : watch' = [watch EXCEPT ![c] = @ \cup seen]
           /\ Goto(c, "serve")
           /\ UNCHANGED <<monitor, up, request, inner, requests, closed, gone, addr, sent, log>>
  <2>1. PICK seen \in SUBSET {"auth failure"} : watch' = [watch EXCEPT ![c] = watch[c] \cup seen] BY <1>4
  <2>2. watch[c] \cup seen \in SUBSET {"auth failure", "placeholder"} BY DEF TypeOK
  <2>3. watch' \in [Conns -> SUBSET {"auth failure", "placeholder"}] BY <2>1, <2>2 DEF TypeOK
  <2>4. pc' \in [Conns -> Points] /\ pc'[c] = "serve" BY <1>4 DEF Goto, TypeOK, Points
  <2>5. TypeOK' BY <1>4, <2>3, <2>4 DEF TypeOK
  <2> QED BY <1>1, <1>4, <2>4, <2>5 DEF ConnInv, Forwarded, CheckedPlain, DialledGuarded, CheckedInner,
       SentAsAllowed, SendAllowed, Forwards, Blocked, Plain, Decrypted
<1>5. CASE /\ inner[c].upgrade # "none"
           /\ Goto(c, "upgraded")
           /\ Send(c, [sent[c] EXCEPT !.path = "opaque", !.upgrade = inner[c].upgrade])
           /\ UNCHANGED <<monitor, up, request, inner, requests, watch, closed, gone, addr, log>>
  <2> DEFINE s == [sent[c] EXCEPT !.path = "opaque", !.upgrade = inner[c].upgrade]
  <2>1. /\ sent[c] \in Sends /\ inner[c] \in Inners
        /\ PathRestricted(request[c].host) => inner[c].upgrade = "websocket"
    BY <1>1, <1>5 DEF ConnInv, CheckedInner, Inners, Upgrades
  <2>2. /\ s \in Sends /\ s.path = "opaque" /\ s.upgrade = inner[c].upgrade
        /\ s.addr = sent[c].addr /\ s.secret = sent[c].secret /\ s.via = sent[c].via
    BY <2>1 DEF Sends, Inners
  <2>3. sent' \in [Conns -> Sends \cup {None}] /\ sent'[c] = s BY <1>5, <2>2 DEF Send, TypeOK
  <2>4. pc' \in [Conns -> Points] /\ pc'[c] = "upgraded" BY <1>5 DEF Goto, TypeOK, Points
  <2>5. TypeOK' BY <1>5, <2>3, <2>4 DEF TypeOK
  <2>6. Forwarded(c)' /\ CheckedPlain(c)' /\ DialledGuarded(c)' /\ CheckedInner(c)'
    BY <1>1, <1>5, <2>4 DEF ConnInv, Forwarded, CheckedPlain, DialledGuarded, CheckedInner, Forwards, Plain, Decrypted
  <2>7. SendAllowed(c) BY <1>1 DEF ConnInv, CheckedInner
  <2>9. SentAsAllowed(c)'
    BY <1>5, <2>1, <2>2, <2>3, <2>7 DEF SentAsAllowed, SendAllowed, Blocked, PathRestricted
  <2> QED BY <2>5, <2>6, <2>9 DEF ConnInv
<1> QED BY <1>2, <1>3, <1>4, <1>5 DEF RespondInner

LEMMA EndInterceptKeeps ==
  ASSUME TypeOK, NEW c \in Conns, ConnInv(c), EndIntercept(c)
  PROVE  TypeOK' /\ ConnInv(c)'
<1>1. Because(InnerEntry(c), "no-placeholder") \in Entries BY ConnEntriesTyped, EntriesTyped DEF Reasons
<1>2. log' \in [Conns -> Seq(Entries)] BY <1>1, LogTyped DEF EndIntercept, TypeOK
<1>3. pc' \in [Conns -> Points] /\ pc'[c] = "done" /\ pc[c] = "closing"
  BY DEF EndIntercept, At, Goto, TypeOK, Points
<1>4. TypeOK' BY <1>2, <1>3 DEF EndIntercept, TypeOK
<1> QED BY <1>3, <1>4 DEF EndIntercept, ConnInv, Forwarded, CheckedPlain, DialledGuarded, CheckedInner,
     SentAsAllowed, SendAllowed, Forwards, Blocked, Plain, Decrypted

LEMMA HangUpKeeps ==
  ASSUME TypeOK, NEW c \in Conns, ConnInv(c), HangUp(c)
  PROVE  TypeOK' /\ ConnInv(c)'
<1>1. TypeOK' BY DEF HangUp, TypeOK
<1> QED BY <1>1 DEF HangUp, ConnInv, Forwarded, CheckedPlain, DialledGuarded, CheckedInner,
     SentAsAllowed, SendAllowed, Forwards, Blocked
-----------------------------------------------------------------------------
(* All of them.                                                            *)

Step(c) ==
  \/ Accept(c) \/ Handle(c) \/ Wait(c)
  \/ BlockMethod(c) \/ ServeRequest(c) \/ HangUp(c)

\* What ConnInv(d) and Summed(d) speak of.
Untouched(d) ==
  /\ monitor' = monitor
  /\ pc'[d] = pc[d] /\ request'[d] = request[d] /\ inner'[d] = inner[d]
  /\ addr'[d] = addr[d] /\ sent'[d] = sent[d] /\ log'[d] = log[d]

LEMMA UntouchedKeeps ==
  ASSUME NEW d \in Conns, ConnInv(d), Untouched(d)
  PROVE  ConnInv(d)'
  BY DEF Untouched, ConnInv, Forwarded, CheckedPlain, DialledGuarded, CheckedInner, SentAsAllowed, SendAllowed,
     Forwards, Blocked

LEMMA StepKeeps ==
  ASSUME TypeOK, NEW c \in Conns, ConnInv(c), Step(c)
  PROVE  TypeOK' /\ ConnInv(c)'
  BY AcceptKeeps, HandlerKeeps, DialKeeps, AcceptTunnelKeeps, CheckServerNameKeeps, QuietKeeps, RespondKeeps,
     BlockMethodKeeps, ServeRequestKeeps, DialInnerKeeps, RespondInnerKeeps, EndInterceptKeeps, HangUpKeeps
  DEF Step, Handle, Wait

\* Connections do not touch each other.
LEMMA StepTouchesOne ==
  ASSUME TypeOK, NEW c \in Conns, Step(c), NEW d \in Conns \ {c}
  PROVE  Untouched(d)
<1> USE DEF Untouched, TypeOK, Goto, Send, Log
<1>1. ASSUME NEW e, NEW point, LogAndGo(c, e, point) PROVE Untouched(d) BY <1>1 DEF LogAndGo
<1>2. ASSUME NEW a, NEW point, Dialled(c, a, point), \/ UNCHANGED sent
                                                    \/ \E s : Send(c, s)
      PROVE  Untouched(d)
  BY <1>2 DEF Dialled
<1>3. ASSUME NEW e, NEW point, DialFails(c, e, point) PROVE Untouched(d)
  BY <1>1, <1>3 DEF DialFails
<1>4. CASE Accept(c) BY <1>4 DEF Accept
<1>5. CASE RefuseHost(c) BY <1>1, <1>5 DEF RefuseHost
<1>6. CASE HandleConnect(c) \/ HandleHTTP(c) BY <1>6 DEF HandleConnect, HandleHTTP
<1>7. CASE Dial(c) BY <1>2, <1>3, <1>7 DEF Dial
<1>8. CASE AcceptTunnel(c) BY <1>1, <1>8 DEF AcceptTunnel, connVars
<1>9. CASE CheckServerName(c) BY <1>9 DEF CheckServerName, ReplayHello
<1>10. CASE EndSplice(c) \/ CloseConn(c) BY <1>10 DEF EndSplice, CloseConn, connVars
<1>11. CASE Respond(c) \/ Handshake(c) BY <1>1, <1>11 DEF Respond, Handshake
<1>12. CASE BlockMethod(c) \/ HangUp(c) BY <1>12 DEF BlockMethod, HangUp
<1>13. CASE ServeRequest(c)
  <2>1. UNCHANGED <<monitor, request, addr, sent>>
    BY <1>13 DEF ServeRequest
  <2>2. pc' = pc \/ pc' = [pc EXCEPT ![c] = "dialInner"]
    BY <1>13 DEF ServeRequest
  <2>3. inner' = inner \/ \E i : inner' = [inner EXCEPT ![c] = i]
    BY <1>13, Zenon DEF ServeRequest
  <2>4. log'[d] = log[d]
    BY <1>13 DEF ServeRequest
  <2> QED
    BY <2>1, <2>2, <2>3, <2>4
<1>14. CASE DialInner(c) BY <1>1, <1>2, <1>3, <1>14 DEF DialInner, Cancelled
<1>15. CASE RespondInner(c) BY <1>1, <1>15 DEF RespondInner, Cancelled
<1>16. CASE EndIntercept(c) BY <1>16 DEF EndIntercept
<1> QED BY <1>4, <1>5, <1>6, <1>7, <1>8, <1>9, <1>10, <1>11, <1>12, <1>13, <1>14, <1>15, <1>16 DEF Step, Handle, Wait

LEMMA NextKeeps == IInv /\ [Next]_vars => IInv'
<1> SUFFICES ASSUME IInv, [Next]_vars PROVE IInv' OBVIOUS
<1>1. CASE \E c \in Conns : Step(c)
  <2>1. PICK c \in Conns : Step(c) BY <1>1
  <2>2. TypeOK' /\ ConnInv(c)' BY <2>1, StepKeeps DEF IInv
  <2>3. \A d \in Conns \ {c} : ConnInv(d)' BY <2>1, StepTouchesOne, UntouchedKeeps DEF IInv
  <2> QED BY <2>2, <2>3 DEF IInv
<1>2. CASE Stop \/ UNCHANGED vars
  <2>1. TypeOK' BY <1>2 DEF IInv, TypeOK, Stop, vars, connVars
  <2>2. \A d \in Conns : Untouched(d) BY <1>2 DEF Untouched, Stop, vars, connVars
  <2> QED BY <2>1, <2>2, UntouchedKeeps DEF IInv
<1> QED BY <1>1, <1>2 DEF Next, Step

LEMMA InvariantHolds == Spec => []IInv
  BY InitInv, NextKeeps, PTL DEF Spec
-----------------------------------------------------------------------------
(* What the invariant implies.                                             *)

LEMMA AllowedTraffic == IInv => OnlyAllowedTraffic
<1> SUFFICES ASSUME IInv, ~monitor, NEW c \in Conns, sent[c] # None
             PROVE  LET r == request[c] IN
                    /\ Allows(r.host, r.port)
                    /\ r.host \in PathHosts =>
                         \/ sent[c].path = "ok"
                         \/ sent[c].path = "opaque" /\ sent[c].upgrade = "websocket"
  BY DEF OnlyAllowedTraffic
<1> QED BY DEF IInv, ConnInv, Forwarded, SentAsAllowed, SendAllowed, Forwards, PathRestricted

LEMMA AddressesGuarded == IInv => BlockedAddressesUnreached
  BY DEF IInv, ConnInv, SentAsAllowed, SendAllowed, BlockedAddressesUnreached, Blocked, ExactMatch, PathRestricted

LEMMA SecretsGuarded == IInv => SecretsStayHome
  BY DEF IInv, ConnInv, SentAsAllowed, SendAllowed, SecretsStayHome, PathRestricted, injectPort
-----------------------------------------------------------------------------
(* The counts of the summary.  A connection's one attempt is logged when   *)
(* its fate is known: the entries before that, and those of the requests   *)
(* inside its tunnel, repeat it or count as no denial.                     *)

Unlogged == {"idle", "handle", "dial", "acceptTunnel", "hello", "response", "handshake"}
Tunnel   == Decrypted \ {"handshake"}

Summed(c) ==
  /\ pc[c] \in Unlogged => Attempts(c) = 0 /\ Denied(c) = 0
  /\ pc[c] \in Tunnel => Attempts(c) = 1 /\ Denied(c) = 0
  /\ pc[c] \in {"splice", "done"} => Attempts(c) = 1 /\ Denied(c) \in {0, 1}
  /\ pc[c] \in Decrypted => Allows(request[c].host, request[c].port)

SumInv == \A c \in Conns : Summed(c)

AttemptsOf(s) == {i \in DOMAIN s : ~RepeatsAttempt(s[i])}
DenialsOf(s)  == {i \in DOMAIN s : IsDenied(s[i])}

\* An entry adds one to each count or nothing.
LEMMA OneMore ==
  ASSUME NEW S, NEW n \in Nat, S \subseteq 1..n
  PROVE  /\ Cardinality(S) \in Nat
         /\ Cardinality(S \cup {n + 1}) = Cardinality(S) + 1
<1>1. IsFiniteSet(S)
  <2>1. 1 \in Int /\ n \in Int
    OBVIOUS
  <2>2. IsFiniteSet(1..n)
    BY <2>1, FS_Interval, Zenon
  <2> QED
    BY <2>2, FS_Subset, Zenon
<1>2. n + 1 \notin S
  OBVIOUS
<1> QED
  BY <1>1, <1>2, FS_AddElement, FS_CardinalityType

LEMMA AppendCounts ==
  ASSUME NEW s \in Seq(Entries), NEW e \in Entries
  PROVE  LET t == Append(s, e)
         IN  /\ Cardinality(AttemptsOf(s)) \in Nat /\ Cardinality(DenialsOf(s)) \in Nat
             /\ RepeatsAttempt(e) => Cardinality(AttemptsOf(t)) = Cardinality(AttemptsOf(s))
             /\ ~RepeatsAttempt(e) => Cardinality(AttemptsOf(t)) = Cardinality(AttemptsOf(s)) + 1
             /\ ~IsDenied(e) => Cardinality(DenialsOf(t)) = Cardinality(DenialsOf(s))
             /\ IsDenied(e) => Cardinality(DenialsOf(t)) = Cardinality(DenialsOf(s)) + 1
<1> DEFINE t == Append(s, e)
           n == Len(s)
<1> USE DEF AttemptsOf, DenialsOf
<1> HIDE DEF Entries
<1>1. /\ n \in Nat /\ DOMAIN s = 1..n /\ DOMAIN t = 1..(n + 1) /\ t[n + 1] = e
      /\ \A i \in 1..n : t[i] = s[i]
  OBVIOUS
<1> HIDE DEF t, n
<1>2. AttemptsOf(s) \subseteq 1..n /\ DenialsOf(s) \subseteq 1..n
  BY <1>1
<1>3. AttemptsOf(t) = AttemptsOf(s) \cup (IF RepeatsAttempt(e) THEN {} ELSE {n + 1})
  BY <1>1
<1>4. DenialsOf(t) = DenialsOf(s) \cup (IF IsDenied(e) THEN {n + 1} ELSE {})
  BY <1>1
<1> HIDE DEF AttemptsOf, DenialsOf
<1>5. /\ Cardinality(AttemptsOf(s)) \in Nat /\ Cardinality(DenialsOf(s)) \in Nat
      /\ Cardinality(AttemptsOf(s) \cup {n + 1}) = Cardinality(AttemptsOf(s)) + 1
      /\ Cardinality(DenialsOf(s) \cup {n + 1}) = Cardinality(DenialsOf(s)) + 1
  BY <1>1, <1>2, OneMore
<1> QED
  BY <1>3, <1>4, <1>5 DEF t

LEMMA LogCounts ==
  ASSUME TypeOK, NEW c \in Conns, NEW e \in Entries, Log(c, e)
  PROVE  /\ Attempts(c) \in Nat /\ Denied(c) \in Nat
         /\ RepeatsAttempt(e) => Attempts(c)' = Attempts(c)
         /\ ~RepeatsAttempt(e) => Attempts(c)' = Attempts(c) + 1
         /\ ~IsDenied(e) => Denied(c)' = Denied(c)
         /\ IsDenied(e) => Denied(c)' = Denied(c) + 1
<1>1. log[c] \in Seq(Entries) /\ log'[c] = Append(log[c], e)
  BY DEF TypeOK, Log
<1>2. Attempts(c) = Cardinality(AttemptsOf(log[c])) /\ Denied(c) = Cardinality(DenialsOf(log[c]))
  BY DEF Attempts, Denied, AttemptsOf, DenialsOf
<1>3. Attempts(c)' = Cardinality(AttemptsOf(log'[c])) /\ Denied(c)' = Cardinality(DenialsOf(log'[c]))
  BY DEF Attempts, Denied, AttemptsOf, DenialsOf
<1> QED
  BY <1>1, <1>2, <1>3, AppendCounts

\* What the summary makes of a connection's own entries ...
LEMMA EntriesCounted ==
  ASSUME TypeOK, NEW c \in Conns
  PROVE  /\ ~RepeatsAttempt(Entry(c))
         /\ \A why \in {"upstream-failed", "proxy-failed", "client-closed"} :
              ~RepeatsAttempt(Because(Entry(c), why))
         /\ \A why \in {"blocked-address", "sni-mismatch"}, observed \in BOOLEAN :
              ~RepeatsAttempt(Refusal(Entry(c), why, observed))
         /\ monitor => RepeatsAttempt(PathBlocked(Entry(c)))
         /\ ~monitor => ~RepeatsAttempt(PathBlocked(Entry(c)))
         /\ ~IsDenied(PathBlocked(Entry(c)))
<1>1. Entry(c) \in Entries /\ Entry(c).reason = "none" /\ Entry(c).intercepted = FALSE
  BY ConnEntriesTyped DEF Entry, Verdict
<1> DEFINE e == Entry(c)
<1> HIDE DEF e
<1>2. e \in Entries /\ e.reason = "none" /\ e.intercepted = FALSE
  BY <1>1 DEF e
<1>3. /\ ~RepeatsAttempt(e)
      /\ \A why \in {"upstream-failed", "proxy-failed", "client-closed"} : ~RepeatsAttempt(Because(e, why))
      /\ \A why \in {"blocked-address", "sni-mismatch"}, observed \in BOOLEAN :
           ~RepeatsAttempt(Refusal(e, why, observed))
      /\ monitor => RepeatsAttempt(PathBlocked(e))
      /\ ~monitor => ~RepeatsAttempt(PathBlocked(e))
      /\ ~IsDenied(PathBlocked(e))
  BY <1>2 DEF RepeatsAttempt, Because, Refusal, PathBlocked, Entries, IsDenied, TypeOK
<1> QED
  BY <1>3 DEF e

\* ... and of those of the requests inside its tunnel.
LEMMA InnerEntriesCounted ==
  ASSUME TypeOK, NEW c \in Conns, Allows(request[c].host, request[c].port)
  PROVE  /\ ~RepeatsAttempt(InnerEntry(c)) /\ ~IsDenied(InnerEntry(c))
         /\ \A why \in {"upstream-failed", "client-closed", "no-placeholder"} :
              RepeatsAttempt(Because(InnerEntry(c), why)) /\ ~IsDenied(Because(InnerEntry(c), why))
         /\ RepeatsAttempt(PathBlocked(InnerEntry(c))) /\ ~IsDenied(PathBlocked(InnerEntry(c)))
         /\ RepeatsAttempt(Refusal(InnerEntry(c), "blocked-address", FALSE))
         /\ ~IsDenied(Refusal(InnerEntry(c), "blocked-address", FALSE))
<1>1. /\ InnerEntry(c) \in Entries /\ InnerEntry(c).reason = "none" /\ InnerEntry(c).intercepted = TRUE
      /\ InnerEntry(c).decision = "allow"
  BY ConnEntriesTyped DEF InnerEntry, Entry, Verdict
<1> DEFINE e == InnerEntry(c)
<1> HIDE DEF e
<1>2. e \in Entries /\ e.reason = "none" /\ e.intercepted = TRUE /\ e.decision = "allow"
  BY <1>1 DEF e
<1>3. /\ ~RepeatsAttempt(e) /\ ~IsDenied(e)
      /\ \A why \in {"upstream-failed", "client-closed", "no-placeholder"} :
           RepeatsAttempt(Because(e, why)) /\ ~IsDenied(Because(e, why))
      /\ RepeatsAttempt(PathBlocked(e)) /\ ~IsDenied(PathBlocked(e))
      /\ RepeatsAttempt(Refusal(e, "blocked-address", FALSE))
      /\ ~IsDenied(Refusal(e, "blocked-address", FALSE))
  BY <1>2 DEF RepeatsAttempt, Because, Refusal, PathBlocked, Entries, IsDenied, TypeOK
<1> QED
  BY <1>3 DEF e

\* A step that logs an entry.
LEMMA LoggedSum ==
  ASSUME TypeOK, NEW c \in Conns, Summed(c), NEW e \in Entries, Log(c, e), request' = request,
         \/ pc[c] \in Unlogged /\ pc'[c] \in {"done", "splice"} /\ ~RepeatsAttempt(e)
         \/ pc[c] \in Unlogged /\ pc'[c] = "dial" /\ RepeatsAttempt(e) /\ ~IsDenied(e)
         \/ pc[c] = "handshake" /\ pc'[c] = "serve" /\ ~RepeatsAttempt(e) /\ ~IsDenied(e)
         \/ pc[c] \in Tunnel /\ pc'[c] \in Tunnel \cup {"done"} /\ RepeatsAttempt(e) /\ ~IsDenied(e)
  PROVE  Summed(c)'
<1>1. /\ Attempts(c) \in Nat /\ Denied(c) \in Nat
      /\ RepeatsAttempt(e) => Attempts(c)' = Attempts(c)
      /\ ~RepeatsAttempt(e) => Attempts(c)' = Attempts(c) + 1
      /\ ~IsDenied(e) => Denied(c)' = Denied(c)
      /\ IsDenied(e) => Denied(c)' = Denied(c) + 1
  BY LogCounts
<1>2. Allows(request[c].host, request[c].port)' = Allows(request[c].host, request[c].port)
  BY DEF Allows, PathRestricted
<1> QED
  BY <1>1, <1>2 DEF Summed, Unlogged, Tunnel, Decrypted

\* A step that logs nothing.
LEMMA SilentSum ==
  ASSUME NEW c \in Conns, Summed(c), log'[c] = log[c], request'[c] = request[c],
         \/ pc'[c] = pc[c]
         \/ pc[c] \in Unlogged /\ pc'[c] \in Unlogged \ {"handshake"}
         \/ pc[c] \in Tunnel /\ pc'[c] \in Tunnel
         \/ pc[c] = "splice" /\ pc'[c] = "done"
         \/ pc[c] = "closing" /\ pc'[c] = "done"
  PROVE  Summed(c)'
<1>1. Attempts(c)' = Attempts(c) /\ Denied(c)' = Denied(c)
  BY DEF Attempts, Denied
<1>2. Allows(request[c].host, request[c].port)' = Allows(request[c].host, request[c].port)
  BY DEF Allows, PathRestricted
<1> QED
  BY <1>1, <1>2 DEF Summed, Unlogged, Tunnel, Decrypted

LEMMA GoesTo ==
  ASSUME TypeOK, NEW c \in Conns, NEW point, Goto(c, point)
  PROVE  pc'[c] = point
  BY DEF TypeOK, Goto

\* The steps before a connection's fate is known.
LEMMA PlainSum ==
  ASSUME TypeOK, NEW c \in Conns, ConnInv(c), Summed(c),
         \/ Accept(c) \/ RefuseHost(c) \/ HandleConnect(c) \/ HandleHTTP(c) \/ Dial(c)
         \/ AcceptTunnel(c) \/ CheckServerName(c) \/ EndSplice(c) \/ Respond(c)
  PROVE  Summed(c)'
<1>1. /\ Entry(c) \in Entries /\ PathBlocked(Entry(c)) \in Entries
      /\ \A why \in {"upstream-failed", "proxy-failed", "client-closed"} : Because(Entry(c), why) \in Entries
      /\ \A why \in {"blocked-address", "sni-mismatch"}, observed \in BOOLEAN :
           Refusal(Entry(c), why, observed) \in Entries
  BY ConnEntriesTyped, PathBlockedTyped, EntriesTyped DEF Reasons
<1>2. /\ ~RepeatsAttempt(Entry(c))
      /\ \A why \in {"upstream-failed", "proxy-failed", "client-closed"} : ~RepeatsAttempt(Because(Entry(c), why))
      /\ \A why \in {"blocked-address", "sni-mismatch"}, observed \in BOOLEAN :
           ~RepeatsAttempt(Refusal(Entry(c), why, observed))
  BY EntriesCounted
<1>3. ASSUME NEW e \in Entries, ~RepeatsAttempt(e), LogAndGo(c, e, "done"), pc[c] \in Unlogged
      PROVE  Summed(c)'
  BY <1>3, LoggedSum, GoesTo DEF LogAndGo
<1>4. CASE Accept(c)
  <2>1. pc[c] = "idle" /\ pc'[c] = "handle" /\ log' = log
    BY <1>4, GoesTo DEF Accept, At
  <2>2. Attempts(c)' = Attempts(c) /\ Denied(c)' = Denied(c)
    BY <2>1 DEF Attempts, Denied
  <2> QED
    BY <2>1, <2>2 DEF Summed, Unlogged, Tunnel, Decrypted
<1>5. CASE RefuseHost(c)
  BY <1>1, <1>2, <1>3, <1>5 DEF RefuseHost, At, Unlogged
<1>6. ASSUME Log(c, PathBlocked(Entry(c))), Goto(c, IF monitor THEN "dial" ELSE "done"), request' = request,
             pc[c] = "handle"
      PROVE  Summed(c)'
  <2>1. pc'[c] = IF monitor THEN "dial" ELSE "done"
    BY <1>6, GoesTo
  <2>2. /\ monitor => RepeatsAttempt(PathBlocked(Entry(c)))
        /\ ~monitor => ~RepeatsAttempt(PathBlocked(Entry(c)))
        /\ ~IsDenied(PathBlocked(Entry(c)))
    BY EntriesCounted
  <2>3. pc[c] \in Unlogged
    BY <1>6 DEF Unlogged
  <2>4. CASE monitor
    BY <1>1, <1>6, <2>1, <2>2, <2>3, <2>4, LoggedSum
  <2>5. CASE ~monitor
    BY <1>1, <1>6, <2>1, <2>2, <2>3, <2>5, LoggedSum
  <2> QED
    BY <2>4, <2>5
<1>7. CASE HandleConnect(c)
  <2>1. pc[c] = "handle" /\ request' = request
    BY <1>7 DEF HandleConnect, At
  <2>2. CASE Decrypts(request[c]) /\ Goto(c, "handshake") /\ UNCHANGED log
    <3>1. pc'[c] = "handshake"
      BY <2>2, GoesTo
    <3>2. Allows(request[c].host, request[c].port)
      BY <2>2, HostsAssumption DEF Decrypts, Allows, PathRestricted, injectPort, DefaultPorts
    <3>3. Attempts(c)' = Attempts(c) /\ Denied(c)' = Denied(c)
      BY <2>2 DEF Attempts, Denied
    <3>4. Allows(request[c].host, request[c].port)'
      BY <2>1, <3>2 DEF Allows, PathRestricted
    <3> QED
      BY <2>1, <3>1, <3>3, <3>4 DEF Summed, Unlogged, Tunnel, Decrypted
  <2>3. CASE Goto(c, "dial") /\ UNCHANGED log
    <3>1. pc'[c] = "dial"
      BY <2>3, GoesTo
    <3> QED
      BY <2>1, <2>3, <3>1, SilentSum DEF Unlogged
  <2> QED
    BY <1>6, <1>7, <2>1, <2>2, <2>3 DEF HandleConnect
<1>8. CASE HandleHTTP(c)
  <2>1. pc[c] = "handle" /\ request' = request
    BY <1>8 DEF HandleHTTP, At
  <2>2. CASE Goto(c, "dial") /\ UNCHANGED log
    <3>1. pc'[c] = "dial"
      BY <2>2, GoesTo
    <3> QED
      BY <2>1, <2>2, <3>1, SilentSum DEF Unlogged
  <2> QED
    BY <1>6, <1>8, <2>1, <2>2 DEF HandleHTTP
<1>9. CASE Dial(c)
  <2>1. pc[c] = "dial"
    BY <1>9 DEF Dial, At
  <2>2. CASE DialFails(c, Entry(c), "done")
    BY <1>1, <1>2, <1>3, <2>1, <2>2 DEF DialFails, Unlogged
  <2>3. ASSUME NEW a, NEW point \in {"acceptTunnel", "response"}, Dialled(c, a, point)
        PROVE  Summed(c)'
    <3>1. pc'[c] = point /\ log' = log /\ request' = request
      BY <2>3, GoesTo DEF Dialled
    <3> QED
      BY <2>1, <3>1, SilentSum DEF Unlogged
  <2> QED
    BY <1>9, <2>2, <2>3 DEF Dial
<1>10. CASE AcceptTunnel(c)
  <2>1. pc[c] = "acceptTunnel"
    BY <1>10 DEF AcceptTunnel, At
  <2>2. CASE Goto(c, "hello") /\ UNCHANGED <<monitor, up, connVars>>
    <3>1. pc'[c] = "hello" /\ log' = log /\ request' = request
      BY <2>2, GoesTo DEF connVars
    <3> QED
      BY <2>1, <3>1, SilentSum DEF Unlogged
  <2> QED
    BY <1>1, <1>2, <1>3, <1>10, <2>1, <2>2 DEF AcceptTunnel, Unlogged
<1>11. CASE CheckServerName(c)
  <2>1. pc[c] = "hello" /\ request' = request
    BY <1>11 DEF CheckServerName, At
  <2>2. pc'[c] \in {"splice", "done"}
    BY <1>11, GoesTo DEF CheckServerName, ReplayHello
  <2>3. PICK e \in {Entry(c), Refusal(Entry(c), "sni-mismatch", monitor), Because(Entry(c), "client-closed")} :
          Log(c, e)
    BY <1>11 DEF CheckServerName
  <2>4. e \in Entries /\ ~RepeatsAttempt(e)
    BY <1>1, <1>2, <2>3 DEF TypeOK
  <2> QED
    BY <2>1, <2>2, <2>3, <2>4, LoggedSum DEF Unlogged
<1>12. CASE EndSplice(c)
  <2>1. pc[c] = "splice" /\ pc'[c] = "done" /\ log' = log /\ request' = request
    BY <1>12, GoesTo DEF EndSplice, At, connVars
  <2> QED
    BY <2>1, SilentSum
<1>13. CASE Respond(c)
  BY <1>1, <1>2, <1>3, <1>13 DEF Respond, At, Unlogged
<1> QED
  BY <1>4, <1>5, <1>7, <1>8, <1>9, <1>10, <1>11, <1>12, <1>13

\* The steps of a decrypted tunnel: nothing after its first entry is an attempt of its own.
LEMMA TunnelSum ==
  ASSUME TypeOK, NEW c \in Conns, ConnInv(c), Summed(c),
         \/ Handshake(c) \/ BlockMethod(c) \/ ServeRequest(c) \/ DialInner(c) \/ RespondInner(c)
         \/ CloseConn(c) \/ EndIntercept(c) \/ HangUp(c)
  PROVE  Summed(c)'
<1>1. /\ Entry(c) \in Entries /\ InnerEntry(c) \in Entries /\ PathBlocked(InnerEntry(c)) \in Entries
      /\ \A why \in {"upstream-failed", "proxy-failed", "client-closed"} : Because(Entry(c), why) \in Entries
      /\ \A why \in {"upstream-failed", "client-closed", "no-placeholder"} : Because(InnerEntry(c), why) \in Entries
      /\ Refusal(InnerEntry(c), "blocked-address", FALSE) \in Entries
  BY ConnEntriesTyped, PathBlockedTyped, EntriesTyped DEF Reasons
<1>2. ASSUME pc[c] \in Decrypted
      PROVE  /\ ~RepeatsAttempt(InnerEntry(c)) /\ ~IsDenied(InnerEntry(c))
             /\ \A why \in {"upstream-failed", "client-closed", "no-placeholder"} :
                  RepeatsAttempt(Because(InnerEntry(c), why)) /\ ~IsDenied(Because(InnerEntry(c), why))
             /\ RepeatsAttempt(PathBlocked(InnerEntry(c))) /\ ~IsDenied(PathBlocked(InnerEntry(c)))
             /\ RepeatsAttempt(Refusal(InnerEntry(c), "blocked-address", FALSE))
             /\ ~IsDenied(Refusal(InnerEntry(c), "blocked-address", FALSE))
  BY <1>2, InnerEntriesCounted DEF Summed
<1>3. ASSUME NEW e \in Entries, RepeatsAttempt(e), ~IsDenied(e), LogAndGo(c, e, "serve"), pc[c] \in Tunnel
      PROVE  Summed(c)'
  <2>1. pc'[c] = "serve" /\ Log(c, e) /\ request' = request
    BY <1>3, GoesTo DEF LogAndGo
  <2> QED
    BY <1>3, <2>1, LoggedSum DEF Tunnel, Decrypted
<1>4. ASSUME NEW why \in {"upstream-failed", "client-closed"}, LogAndGo(c, Because(InnerEntry(c), why), "serve"),
             pc[c] \in Tunnel
      PROVE  Summed(c)'
  BY <1>1, <1>2, <1>3, <1>4 DEF Tunnel
<1>5. CASE Handshake(c)
  <2>1. pc[c] = "handshake" /\ pc[c] \in Unlogged /\ pc[c] \in Decrypted
    BY <1>5 DEF Handshake, At, Unlogged, Decrypted
  <2>2. ASSUME NEW why \in {"client-closed", "proxy-failed"}, LogAndGo(c, Because(Entry(c), why), "done")
        PROVE  Summed(c)'
    <3>1. ~RepeatsAttempt(Because(Entry(c), why))
      BY EntriesCounted
    <3>2. pc'[c] = "done" /\ Log(c, Because(Entry(c), why)) /\ request' = request
      BY <2>2, GoesTo DEF LogAndGo
    <3> QED
      BY <1>1, <2>1, <3>1, <3>2, LoggedSum
  <2>3. CASE LogAndGo(c, InnerEntry(c), "serve")
    <3>1. pc'[c] = "serve" /\ Log(c, InnerEntry(c)) /\ request' = request
      BY <2>3, GoesTo DEF LogAndGo
    <3> QED
      BY <1>1, <1>2, <2>1, <3>1, LoggedSum
  <2> QED
    BY <1>5, <2>2, <2>3 DEF Handshake
<1>6. CASE BlockMethod(c) \/ HangUp(c)
  BY <1>6, SilentSum DEF BlockMethod, HangUp
<1>7. CASE ServeRequest(c)
  <2>1. pc[c] = "serve" /\ request' = request
    BY <1>7 DEF ServeRequest, At
  <2>2. pc'[c] \in {"serve", "dialInner"}
    BY <1>7, <2>1, GoesTo DEF ServeRequest
  <2>3. log' = log \/ Log(c, PathBlocked(InnerEntry(c)))
    BY <1>7 DEF ServeRequest
  <2>4. pc[c] \in Tunnel /\ pc[c] \in Decrypted /\ pc'[c] \in Tunnel
    BY <2>1, <2>2 DEF Tunnel, Decrypted
  <2>5. CASE log' = log
    BY <2>1, <2>4, <2>5, SilentSum
  <2>6. CASE Log(c, PathBlocked(InnerEntry(c)))
    BY <1>1, <1>2, <2>1, <2>4, <2>6, LoggedSum
  <2> QED
    BY <2>3, <2>5, <2>6
<1>8. CASE DialInner(c)
  <2>1. pc[c] = "dialInner" /\ pc[c] \in Tunnel /\ pc[c] \in Decrypted
    BY <1>8 DEF DialInner, At, Tunnel, Decrypted
  <2>2. CASE Cancelled(c)
    BY <1>4, <2>1, <2>2 DEF Cancelled
  <2>3. CASE DialFails(c, InnerEntry(c), "serve")
    BY <1>1, <1>2, <1>3, <1>4, <2>1, <2>3 DEF DialFails
  <2>4. ASSUME NEW a, Dialled(c, a, "responseInner")
        PROVE  Summed(c)'
    <3>1. pc'[c] = "responseInner" /\ log' = log /\ request' = request
      BY <2>4, GoesTo DEF Dialled
    <3> QED
      BY <2>1, <3>1, SilentSum DEF Tunnel, Decrypted
  <2> QED
    BY <1>8, <2>2, <2>3, <2>4 DEF DialInner
<1>9. CASE RespondInner(c)
  <2>1. pc[c] = "responseInner" /\ pc[c] \in Tunnel
    BY <1>9 DEF RespondInner, At, Tunnel, Decrypted
  <2>2. CASE Cancelled(c) \/ LogAndGo(c, Because(InnerEntry(c), "upstream-failed"), "serve")
    BY <1>4, <2>1, <2>2 DEF Cancelled
  <2>3. ASSUME NEW point \in {"serve", "upgraded"}, Goto(c, point), log' = log, request' = request
        PROVE  Summed(c)'
    <3>1. pc'[c] \in Tunnel
      BY <2>3, GoesTo DEF Tunnel, Decrypted
    <3> QED
      BY <2>1, <2>3, <3>1, SilentSum
  <2> QED
    BY <1>9, <2>2, <2>3 DEF RespondInner
<1>10. CASE CloseConn(c)
  <2>1. pc[c] \in Tunnel /\ pc'[c] = "closing" /\ log' = log /\ request' = request
    BY <1>10, GoesTo DEF CloseConn, Tunnel, Decrypted
  <2> QED
    BY <2>1, SilentSum DEF Tunnel, Decrypted
<1>11. CASE EndIntercept(c)
  <2>1. pc[c] = "closing" /\ pc'[c] = "done" /\ request' = request /\ pc[c] \in Tunnel /\ pc[c] \in Decrypted
    BY <1>11, GoesTo DEF EndIntercept, At, Tunnel, Decrypted
  <2>2. log' = log \/ Log(c, Because(InnerEntry(c), "no-placeholder"))
    BY <1>11 DEF EndIntercept
  <2>3. CASE log' = log
    BY <2>1, <2>3, SilentSum
  <2>4. CASE Log(c, Because(InnerEntry(c), "no-placeholder"))
    BY <1>1, <1>2, <2>1, <2>4, LoggedSum
  <2> QED
    BY <2>2, <2>3, <2>4
<1> QED
  BY <1>5, <1>6, <1>7, <1>8, <1>9, <1>10, <1>11

LEMMA SumStart == Init => SumInv
<1> SUFFICES ASSUME Init, NEW c \in Conns PROVE Summed(c)
  BY DEF SumInv
<1>1. pc[c] = "idle" /\ log[c] = << >>
  BY DEF Init
<1>2. {i \in DOMAIN log[c] : ~RepeatsAttempt(log[c][i])} = {} /\ {i \in DOMAIN log[c] : IsDenied(log[c][i])} = {}
  BY <1>1
<1>3. Attempts(c) = 0 /\ Denied(c) = 0
  BY <1>2, FS_EmptySet DEF Attempts, Denied
<1> QED
  BY <1>1, <1>3 DEF Summed, Unlogged, Tunnel, Decrypted

LEMMA SumNext == IInv /\ SumInv /\ [Next]_vars => SumInv'
<1> SUFFICES ASSUME IInv, SumInv, [Next]_vars PROVE SumInv'
  OBVIOUS
<1>1. ASSUME NEW d \in Conns, Untouched(d) PROVE Summed(d)'
  BY <1>1, SilentSum DEF SumInv, Untouched
<1>2. CASE \E c \in Conns : Step(c)
  <2>1. PICK c \in Conns : Step(c)
    BY <1>2
  <2>2. Summed(c)'
    BY <2>1, PlainSum, TunnelSum DEF IInv, SumInv, Step, Handle, Wait
  <2>3. \A d \in Conns \ {c} : Summed(d)'
    BY <1>1, <2>1, StepTouchesOne DEF IInv
  <2> QED
    BY <2>2, <2>3 DEF SumInv
<1>3. CASE Stop \/ UNCHANGED vars
  <2>1. \A d \in Conns : Untouched(d)
    BY <1>3 DEF Untouched, Stop, vars, connVars
  <2> QED
    BY <1>1, <2>1 DEF SumInv
<1> QED
  BY <1>2, <1>3 DEF Next, Step

LEMMA SumsUp == IInv /\ SumInv => SummaryAddsUp
<1> SUFFICES ASSUME IInv, SumInv, NEW c \in Conns
             PROVE  /\ Attempts(c) <= 1
                    /\ pc[c] = "done" => Attempts(c) = 1
                    /\ pc[c] = "done" => Denied(c) <= Attempts(c)
  BY DEF SummaryAddsUp
<1>1. pc[c] \in Unlogged \cup Tunnel \cup {"splice", "done"}
  BY DEF IInv, TypeOK, Points, Unlogged, Tunnel, Decrypted
<1> QED
  BY <1>1 DEF SumInv, Summed, Unlogged, Tunnel, Decrypted
-----------------------------------------------------------------------------
(* The theorems.                                                           *)

\* Every variable of the proxy keeps its type: no entry of an unknown kind is ever logged.
THEOREM ProxyTypeCorrect == Spec => []TypeOK
<1>1. IInv => TypeOK BY DEF IInv
<1> QED BY <1>1, InvariantHolds, PTL

\* In enforce mode nothing reaches an upstream the allowlist and the path rules do not allow
\* (Server.handleConnect, handleHTTP and checkPaths), for any hosts and rules.
THEOREM NothingElseGetsOut == Spec => []OnlyAllowedTraffic
  BY AllowedTraffic, InvariantHolds, PTL

\* The address guard of the dialer holds whatever DNS answers, in both modes.
THEOREM AddressGuardHolds == Spec => []BlockedAddressesUnreached
  BY AddressesGuarded, InvariantHolds, PTL

\* A credential's secret goes to its own host only, on allowed paths (substitute, checkPaths).
THEOREM SecretsGoHome == Spec => []SecretsStayHome
  BY SecretsGuarded, InvariantHolds, PTL

\* What the access log says of a connection adds up: one attempt, and no more denials than that,
\* however many requests its tunnel carries (summary.go's add, printDenied).
THEOREM SummaryIsRight == Spec => []SummaryAddsUp
  BY SumStart, SumNext, SumsUp, InvariantHolds, PTL DEF Spec
=============================================================================
