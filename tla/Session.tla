------------------------------ MODULE Session -------------------------------
(***************************************************************************)
(* A client's sessions with the test server, as the container suites run   *)
(* them: it fetches the CA and an identity over the plain port, connects   *)
(* to a listener of its choice, and makes calls whose redirects,           *)
(* challenges, cookies and validators it follows.  The server may be       *)
(* restarted, and then mints everything anew, while the client keeps what  *)
(* it has; the client may leave any call.                                  *)
(*                                                                         *)
(* The client is outside the repository's main code.  Certificates,        *)
(* Listeners and Endpoints are the server.                                 *)
(***************************************************************************)
EXTENDS Endpoints

CONSTANTS
    MaxProcs,       \* bound on the processes the server goes through
    Streams,        \* the calls one HTTP/2 connection carries at a time; HTTP/1.1 uses stream 1
    Offers,         \* what the client's TLS stacks offer, and whether they present an identity
    Hosts,          \* the names it reaches the server by
    Clocks,         \* hours since the process started, on the server's and the client's clock
    Requests,       \* the requests it makes on the http and https listeners
    FewRequests,    \* those it makes on the other listeners
    SideRequests    \* those it makes on a second stream

\* identity is put in when the client connects
OfferType ==
    [versions : SUBSET (10..13), alpn : SUBSET {"h2", "http/1.1"}, groups : SUBSET Groups,
     extensions : Seq(Nat), presents : BOOLEAN, identity : {{}}]

ASSUME SessionAssumption == MaxProcs \in Nat \ {0} /\ 1 \in Streams /\ SlowHeadBytes \in Nat
ASSUME ClocksAssumption == \A c \in Clocks : c.server \in Nat /\ c.client \in Int
ASSUME OffersAssumption == Offers \subseteq OfferType
ASSUME RequestsAssumption == \A r \in Requests \cup FewRequests \cup SideRequests : IsRequest(r)
ASSUME HostsAssumption == "wrong.host.invalid" \notin Range(certHosts)  \* a name no server can have, RFC 2606

VARIABLES
    proc,      \* which process is running; each mints its own keys
    supplied,  \* was it given a certificate?
    trust,     \* the CA the client has fetched: at most one certificate
    identity,  \* the identity it has fetched
    fetched,   \* which process each of the two is from, 0 if it has none
    attempt,   \* its last attempt to open a TLS connection, with why it was refused
    conn,      \* the connection
    calls      \* the call on each stream

vars == <<proc, supplied, trust, identity, fetched, attempt, conn, calls>>

NoAttempt == [listener |-> "none"]
NoConn == [listener |-> "none", proto |-> "none", open |-> FALSE]
Idle == [end |-> "idle"]

CertsOf == [s \in BOOLEAN |-> [p \in 1..MaxProcs |-> loadCertificates(s, p)]]
certs == CertsOf[supplied][proc]
ListenersOf == [s \in BOOLEAN |-> [p \in 1..MaxProcs |-> TlsListeners(CertsOf[s][p])]]
listeners == ListenersOf[supplied][proc]

Init ==
    /\ proc = 1 /\ supplied \in BOOLEAN /\ trust = {} /\ identity = {} /\ fetched = [ca |-> 0, identity |-> 0]
    /\ attempt = NoAttempt /\ conn = NoConn /\ calls = [s \in Streams |-> Idle]

-----------------------------------------------------------------------------
\* The client's preparations, over the plain port

Ready == conn = NoConn /\ attempt = NoAttempt

FetchCA ==
    LET response == caPEM(NewRequest("GET", "/ca.pem", Num(0)), certs)
    IN /\ Ready /\ response.status = 200
       /\ trust' = response.payload /\ fetched' = [fetched EXCEPT !.ca = proc]
       /\ UNCHANGED <<proc, supplied, identity, attempt, conn, calls>>

FetchIdentity ==
    LET response == clientPEM(NewRequest("GET", "/client.pem", Num(0)), certs)
    IN /\ Ready /\ response.status = 200
       /\ identity' = response.payload /\ fetched' = [fetched EXCEPT !.identity = proc]
       /\ UNCHANGED <<proc, supplied, trust, attempt, conn, calls>>

\* The process ends and another takes its place: every connection is gone
Restart ==
    /\ proc < MaxProcs
    /\ proc' = proc + 1
    /\ attempt' = NoAttempt /\ conn' = NoConn /\ calls' = [s \in Streams |-> Idle]
    /\ UNCHANGED <<supplied, trust, identity, fetched>>

-----------------------------------------------------------------------------
\* Connections

Opened(listener, tls, base, proxied, version, alpn, offer) ==
    [listener |-> listener, open |-> TRUE, tls |-> tls, base |-> base, proxied |-> proxied,
     proto |-> IF alpn = "h2" THEN "HTTP/2.0" ELSE "HTTP/1.1", version |-> version, alpn |-> alpn, offer |-> offer]

NoOffer == [versions |-> {}, alpn |-> {}, groups |-> {}, extensions |-> << >>, presents |-> FALSE, identity |-> {}]

\* Without TLS, on the raw listener or on http; a proxy in front ends the client's TLS
ConnectPlain(listener, host, proxied) ==
    /\ Ready /\ (proxied => listener = "http")
    /\ conn' = Opened(listener, FALSE, <<IF proxied THEN "https" ELSE "http", host>>, proxied, 0, "", NoOffer)
    /\ UNCHANGED <<proc, supplied, trust, identity, fetched, attempt, calls>>

\* The client may hold the intermediate that incomplete-chain leaves out
ConnectTls(listener, stack, host, clock, completed) ==
    LET server == listeners[listener].server
        offer == [stack EXCEPT !.identity = IF stack.presents THEN identity ELSE {}]
        why == Objections(server.certificate, trust \cup {PublicRoot},
                          IF completed THEN certs.withheld ELSE {}, host, clock.client)
               \cup ServerRefuses(server, offer, clock.server)
    IN /\ Ready
       /\ attempt' = [listener |-> listener, offer |-> offer, host |-> host, clock |-> clock,
                      completed |-> completed, why |-> why]
       /\ conn' = IF why # {} THEN NoConn
                  ELSE Opened(listener, TRUE, <<"https", host>>, FALSE, Max(Versions(server, offer)),
                              Protocol(server, offer), offer)
       /\ UNCHANGED <<proc, supplied, trust, identity, fetched, calls>>

\* The client drops a connection, or takes note of a refusal
Hangup ==
    /\ ~Ready /\ \A s \in Streams : calls[s].end = "idle"
    /\ conn' = NoConn /\ attempt' = NoAttempt
    /\ UNCHANGED <<proc, supplied, trust, identity, fetched, calls>>

-----------------------------------------------------------------------------
\* Calls

\* A request reaches its handler, whose plan is made from it; first is the request that
\* the call began with and hops the number of requests since
Call(first, r, hops) ==
    LET req == [r EXCEPT !.host = conn.base[2], !.forwarded = IF conn.proxied THEN {"https"} ELSE {}]
    IN [first |-> first, req |-> req, hops |-> hops, pos |-> 0, end |-> "run", gone |-> FALSE, elapsed |-> 0,
        plan |-> IF conn.listener = "raw" THEN echoRequestHead(req) ELSE handler(req, conn, certs)]

Plan(s) == calls[s].plan

Send(s, r) ==
    /\ conn.open /\ calls[s].end = "idle"
    /\ s = 1 \/ conn.proto = "HTTP/2.0"
    /\ r.head.ends = "blank" \/ conn.listener = "raw"  \* net/http calls no handler for half a head
    /\ calls' = [calls EXCEPT ![s] = Call([path |-> r.path, method |-> r.method, arg |-> r.arg, pairs |-> r.pairs], r, 0)]
    /\ attempt' = NoAttempt
    /\ UNCHANGED <<proc, supplied, trust, identity, fetched, conn>>

Running(s) == calls[s].end = "run" /\ calls[s].pos < Len(Plan(s).ops)
NextOp(s) == Plan(s).ops[calls[s].pos + 1]

Update(s, new) == calls' = [calls EXCEPT ![s] = new] /\ UNCHANGED <<proc, supplied, trust, identity, fetched, attempt, conn>>

\* A timer fires, or the request's context is done first
Elapse_rearmed(s) ==
    /\ Running(s) /\ NextOp(s).t = "pause"
    /\ \/ Update(s, calls[s])
       \/ calls[s].gone /\ Plan(s).context /\ Update(s, [calls[s] EXCEPT !.end = "gone"])
Elapse(s) ==
    /\ Running(s) /\ NextOp(s).t = "pause"
    /\ \/ Update(s, [calls[s] EXCEPT !.pos = @ + 1, !.elapsed = @ + NextOp(s).n])
       \/ calls[s].gone /\ Plan(s).context /\ Update(s, [calls[s] EXCEPT !.end = "gone"])

\* A write.  Those to a client that has left succeed until its reset arrives, and then fail,
\* which some handlers look at.
Write(s) ==
    /\ Running(s) /\ NextOp(s).t # "pause"
    /\ \/ Update(s, [calls[s] EXCEPT !.pos = @ + 1])
       \/ calls[s].gone /\ Plan(s).checked /\ Update(s, [calls[s] EXCEPT !.end = "gone"])

\* The handler returns.  A hijacked connection is closed; a reset may overtake what was
\* written before it.
Return(s) ==
    /\ calls[s].end = "run" /\ calls[s].pos = Len(Plan(s).ops)
    /\ \E got \in (IF Plan(s).end = "rst" THEN 0 ELSE calls[s].pos)..calls[s].pos :
        calls' = [calls EXCEPT ![s] = [@ EXCEPT !.end = Plan(s).end, !.pos = got]]
    /\ conn' = [conn EXCEPT !.open = @ /\ Plan(s).end = "keep"]
    /\ UNCHANGED <<proc, supplied, trust, identity, fetched, attempt>>

\* The client cancels its call, which over HTTP/1.1 closes the connection
Leave(s) ==
    /\ calls[s].end = "run" /\ ~calls[s].gone
    /\ calls' = [calls EXCEPT ![s].gone = TRUE]
    /\ conn' = [conn EXCEPT !.open = @ /\ conn.proto = "HTTP/2.0"]
    /\ UNCHANGED <<proc, supplied, trust, identity, fetched, attempt>>

\* External: the request a client makes after a response, if any
NextRequests(s) ==
    LET r == calls[s].req
        h == Plan(s).header
    IN IF Plan(s).status \in {301, 302, 303, 307, 308}
       THEN {[NewRequest(r.method, u.path, u.arg) EXCEPT !.cookies = h.setCookies] :
                u \in {u \in h.location : u.base \in {<< >>, conn.base}}}
       ELSE IF h.challenge /\ r.authorization = {}
       THEN {[r EXCEPT !.authorization = {who}] : who \in {r.want, "someone else"}}
       ELSE IF h.etag # {} /\ r.ifNoneMatch = {}
       THEN {[r EXCEPT !.ifNoneMatch = h.etag, !.ifModifiedSince = h.lastModified]}
       ELSE {}

Follow(s) ==
    /\ calls[s].end = "keep" /\ ~calls[s].gone /\ conn.open
    /\ \E r \in NextRequests(s) : Update(s, Call(calls[s].first, r, calls[s].hops + 1))

\* The call is over, and with the last one a connection that was closed
Finish(s) ==
    /\ calls[s].end \notin {"idle", "run"}
    /\ calls[s].gone \/ ~conn.open \/ NextRequests(s) = {}
    /\ calls' = [calls EXCEPT ![s] = Idle]
    /\ conn' = IF ~conn.open /\ \A t \in Streams : calls'[t].end = "idle" THEN NoConn ELSE conn
    /\ UNCHANGED <<proc, supplied, trust, identity, fetched, attempt>>

RequestsOn(s) ==
    IF s # 1 THEN SideRequests ELSE IF conn.listener \in {"http", "https"} THEN Requests ELSE FewRequests

Next ==
    \/ FetchCA \/ FetchIdentity \/ Restart \/ Hangup
    \/ \E l \in {"http", "raw"}, host \in Hosts, proxied \in BOOLEAN : ConnectPlain(l, host, proxied)
    \/ \E l \in DOMAIN listeners, o \in Offers, host \in Hosts, clock \in Clocks, completed \in BOOLEAN :
        ConnectTls(l, o, host, clock, completed)
    \/ \E s \in Streams : \E r \in RequestsOn(s) : Send(s, r)
    \/ \E s \in Streams : Elapse(s) \/ Write(s) \/ Return(s) \/ Leave(s) \/ Follow(s) \/ Finish(s)

Spec == Init /\ [][Next]_vars

\* Handlers run on their own goroutines, timers fire, and the client takes up its answers
FairSpec ==
    Spec /\ \A s \in Streams : WF_vars(Elapse(s) \/ Write(s) \/ Return(s)) /\ WF_vars(Follow(s) \/ Finish(s))

-----------------------------------------------------------------------------
\* What the client makes of what has arrived, as RFC 9112 has it

Arrived(s) == SubSeq(Plan(s).ops, 1, calls[s].pos)
Bytes(s) == FoldLeft(LAMBDA sum, op : sum + (IF op.t = "data" THEN op.n ELSE 0), 0, Arrived(s))
Has(s, t) == \E i \in 1..calls[s].pos : Plan(s).ops[i].t = t

Outcome(s) ==
    LET heads == SelectSeq(Arrived(s), LAMBDA op : op.t = "head")
        head == heads[1]
        short == IF calls[s].end = "rst" THEN "reset" ELSE "truncated"
    IN IF heads = << >> THEN IF calls[s].end = "rst" THEN "reset" ELSE "empty"
       ELSE IF head.status > 999 \/ Cardinality(head.lengths) > 1 \/ Has(s, "bad") THEN "malformed"
       ELSE IF ~BodyAllowed(calls[s].req.method, head.status) THEN "complete"
       ELSE IF head.chunked THEN IF Has(s, "last") THEN "complete" ELSE short
       ELSE IF \A n \in head.lengths : Bytes(s) >= n THEN "complete" ELSE short

Answered(s) == calls[s].end \notin {"idle", "run", "gone"} /\ ~calls[s].gone

-----------------------------------------------------------------------------

ChainObjections == {"expired", "wrong-host", "no-path"}

\* The good leaf, to the client of the last attempt
ObjectionsToLeaf ==
    Objections(certs.leaf, trust \cup {PublicRoot}, {}, attempt.host, attempt.clock.client)

\* badchains.go:21-24: a client that accepts https refuses each bad chain for the one
\* reason the chain stands for, and accepts incomplete-chain once it has the withheld
\* intermediate; a client that accepts a bad chain otherwise refuses https.
ChainsAreHonest ==
    attempt.listener \in DOMAIN certs.badChains =>
        LET bad == attempt.why \cap ChainObjections
            mended == attempt.listener = "incomplete-chain" /\ attempt.completed
        IN /\ ObjectionsToLeaf = {} =>
                bad = CASE attempt.listener \in {"expired", "wrong-host"} -> {attempt.listener}
                        [] mended -> {}
                        [] OTHER -> {"no-path"}
           /\ bad = {} => mended \/ ObjectionsToLeaf # {}

\* tls.go:23-27: whatever was fetched from earlier processes, the minted leaf is accepted
\* exactly by a client that fetched this process's CA, reaches it by a name it covers, and
\* whose clock is between an hour before the start and a year after; and of all listeners
\* only mtls refuses a client for its certificate, and serves exactly those that present an
\* identity this process signed (tls.go:276-281).
TrustIsThisProcess ==
    /\ attempt.listener \in DOMAIN listeners \ DOMAIN certs.badChains /\ ~supplied =>
        (attempt.why \cap ChainObjections = {}
            <=> /\ fetched.ca = proc
                /\ attempt.host \in Range(certHosts)
                /\ attempt.clock.client \in -1..Year)
    /\ attempt # NoAttempt =>
        ("client-certificate" \notin attempt.why
            <=> attempt.listener = "mtls" =>
                    attempt.offer.presents /\ fetched.identity = proc /\ attempt.clock.server <= Year)

\* RFC 8701's sixteen reserved values
Reserved == {10 * 257 + 4112 * k : k \in 0..15}

\* /tls marks as GREASE the reserved values the client sent and no others, in the order it
\* sent them, and says whether it offered ECH.
ReportIsOffer(report, offer) ==
    /\ \A i \in DOMAIN offer.extensions :
        report.extensions[i][1] = "GREASE" <=> offer.extensions[i] \in Reserved
    /\ report.encryptedClientHelloOffered
        <=> \E i \in DOMAIN report.extensions : report.extensions[i] = <<"named", 65037>>
OfferIsReported(s) == \A report \in Plan(s).payload.tls : ReportIsOffer(report, conn.offer)

\* main.go:87-140, tls.go:386-536: what is negotiated is what /info announces for the
\* listener, a client that offers no announced version or protocol is the one refused for
\* it, pqc needs the hybrid group, and /tls reports the client's own offer.
InfoIsHonest ==
    /\ attempt # NoAttempt =>
        LET announced == listeners[attempt.listener]
        IN /\ "version" \in attempt.why <=> attempt.offer.versions \cap announced.min..announced.max = {}
           /\ "alpn" \in attempt.why <=> attempt.offer.alpn # {} /\ attempt.offer.alpn \cap announced.alpn = {}
           /\ conn # NoConn =>
                /\ conn.version \in announced.min..announced.max
                /\ conn.proto = "HTTP/2.0" <=> "h2" \in attempt.offer.alpn \cap announced.alpn
                /\ conn.listener = "pqc" => "X25519MLKEM768" \in attempt.offer.groups
    /\ \A s \in Streams :
        Answered(s) /\ calls[s].req.path = "/tls" /\ conn.listener # "raw" => OfferIsReported(s)

\* handlers.go:278-296, main.go:253-258: a chain of n redirects, relative or absolute,
\* direct or behind a proxy, lands on /anything after exactly n hops without leaving the
\* origin the client used, and the echo shows that origin.
RedirectsLand ==
    \A s \in Streams :
        Answered(s) /\ calls[s].first.method = "GET" /\ conn.listener # "raw"
        /\ calls[s].first.path \in {"/redirect", "/absolute-redirect"} =>
            LET n == calls[s].first.arg
            IN IF Outside(n, 1, 100) THEN calls[s].hops = 0 /\ Plan(s).status = 400
               ELSE IF calls[s].hops < n.v THEN Cardinality(NextRequests(s)) = 1
               ELSE /\ calls[s].hops = n.v /\ Plan(s).status = 200
                    /\ calls[s].req.path = "/anything" /\ Plan(s).payload.url.base = conn.base

\* The last value the query gives each name
ValueSet(pairs, name) == pairs[Max({i \in DOMAIN pairs : pairs[i][1] = name})][2]

\* handlers.go:437-484: what the server hands out it takes back: the cookies it set are the
\* ones it reports, its validators revalidate, and only the credentials it asked for
\* authenticate.
RoundTrips ==
    \A s \in Streams : LET c == calls[s] IN
        Answered(s) /\ c.hops > 0 =>
            /\ c.first.path = "/cookies/set" =>
                Plan(s).payload.cookies = [name \in {p[1] : p \in Range(c.first.pairs)} |-> ValueSet(c.first.pairs, name)]
            /\ c.first.path = "/cache" => Plan(s).status = 304
            /\ c.first.path = "/basic-auth" => (Plan(s).status = 200 <=> c.req.authorization = {c.req.want})

\* The failure the index of hostile.go announces for each endpoint, where the request asks
\* for a body shorter than its length.
Advertised(r) ==
    CASE r.path = "/hostile/no-response" -> "empty"
      [] r.path = "/hostile/reset" -> "reset"
      [] r.path \in {"/hostile/truncated-body", "/hostile/truncated-chunks"} -> "truncated"
      [] r.path \in {"/hostile/invalid-chunk-size", "/hostile/invalid-status-line",
                     "/hostile/duplicate-content-length"} -> "malformed"
      [] OTHER -> "complete"

\* handlers.go, hostile.go:25-199: a handler that runs to its end leaves a response its
\* client finds complete, with room for the trailers it announced, and so does the raw
\* listener once it has read all that was sent; over HTTP/1.1 a hostile endpoint fails in its
\* own way, except for a reset over TLS, and takes its connection with it; nothing one call
\* does ends an HTTP/2 connection that others share.
EndsAsAdvertised ==
    /\ \A s \in Streams : Answered(s) =>
        /\ calls[s].end = "keep" \/ (conn.listener = "raw" /\ HeadRead(calls[s].req) /\ ~LeftUnread(calls[s].req)) =>
            /\ Outcome(s) = "complete"
            /\ Plan(s).header.trailers # {} /\ calls[s].req.method = "GET" => Has(s, "last")
        /\ calls[s].req.path \in HostilePaths /\ conn.proto = "HTTP/1.1" /\ conn.listener # "raw" =>
            /\ (calls[s].req.path = "/hostile/reset" => ~conn.tls) => Outcome(s) = Advertised(calls[s].req)
            /\ ~conn.open
    /\ conn.proto = "HTTP/2.0" => conn.open

\* hostile.go:22-24, 117: over the plain port or over TLS with http/1.1, the body of
\* /hostile/reset ends in a reset.
ResetIsReset ==
    \A s \in Streams :
        Answered(s) /\ calls[s].req.path = "/hostile/reset" /\ conn.proto = "HTTP/1.1" /\ conn.listener # "raw" =>
            Outcome(s) = "reset"

\* handlers.go:317-389, 527-537: whatever durations and numbers of bytes a request asks for,
\* in whatever order writes, timers and its client's leaving come, the pauses of a handler
\* that goes through net/http add up to no more than the two minutes of its limits.
HandlersLetGo ==
    \A s \in Streams :
        calls[s].end # "idle" /\ calls[s].req.path \notin HostilePaths => calls[s].elapsed <= 120000

\* handlers.go:317-389, hostile.go:87-97: every call comes to an end, whether its client
\* waits or leaves, through however many redirects and pauses.
CallsEnd == \A s \in Streams : (calls[s].end # "idle") ~> (calls[s].end = "idle")
=============================================================================
