----------------------------- MODULE Endpoints ------------------------------
(***************************************************************************)
(* The handlers of the test server (test-server/handlers.go and            *)
(* test-server/hostile.go).  A handler is an operator from the request and *)
(* its connection to a response: the status and headers, and the writes    *)
(* and pauses it goes through in order, which Session takes one at a time. *)
(*                                                                         *)
(* Texts and payloads are a single byte, times are milliseconds, and a     *)
(* Go value that may be absent is a set of at most one element.  A parsed  *)
(* number says whether it parsed and whether it is the float NaN.          *)
(***************************************************************************)
EXTENDS Listeners

CONSTANT SlowHeadBytes  \* stands for the 64 bytes of the head of /hostile/slow-headers

maxEchoBody == 2^20

Number == [ok : BOOLEAN, nan : BOOLEAN, v : Int]
Num(v) == [ok |-> TRUE, nan |-> FALSE, v |-> v]
NaN == [ok |-> TRUE, nan |-> TRUE, v |-> 0]
Garbage == [ok |-> FALSE, nan |-> FALSE, v |-> 0]

QueryKeys == {"status", "bytes", "duration", "delay", "after", "promised", "sent", "size", "count"}

\* A URL without a base is relative; arg is the number in the path
URL(base, path, arg) == [base |-> base, path |-> path, arg |-> arg]

NewRequest(method, path, arg) ==
    [method |-> method, path |-> path, arg |-> arg, query |-> [k \in QueryKeys |-> {}],
     target |-> {},      \* the url or location parameter
     pairs |-> << >>,    \* the query as name and value pairs, for /cookies/set
     want |-> "",        \* the user and password of /basic-auth
     host |-> "",        \* the Host header
     head |-> [size |-> 40, ends |-> "blank"],  \* the bytes of the head, and how it ends
     forwarded |-> {}, ifNoneMatch |-> {}, ifModifiedSince |-> {}, authorization |-> {}, cookies |-> << >>,
     body |-> [length |-> 0, charSize |-> 1, whole |-> TRUE]]

\* A head ends in its blank line, with the peer shutting its side, or not at all
HeadEnds == {"blank", "shut", "open"}

IsRequest(r) ==
    /\ DOMAIN r = DOMAIN NewRequest("", "", NaN)
    /\ r.arg \in Number /\ r.query \in [QueryKeys -> SUBSET Number] /\ \A u \in r.target : u.arg \in Number
    /\ r.head \in [size : Nat, ends : HeadEnds] /\ r.body \in [length : Nat, charSize : Nat, whole : BOOLEAN]
    /\ r.pairs \in Seq(Range(r.pairs)) /\ r.cookies \in Seq(Range(r.cookies))

NoHeader == [location |-> {}, setCookies |-> << >>, etag |-> {}, lastModified |-> {},
             challenge |-> FALSE, maxAge |-> {}, trailers |-> {}, encoding |-> {}]

-----------------------------------------------------------------------------
\* What a handler does in turn
Op(t, n, status, lengths, chunked) ==
    [t |-> t, n |-> n, status |-> status, lengths |-> lengths, chunked |-> chunked]
StatusLine(status, lengths, chunked) == Op("head", 1, status, lengths, chunked)
Data(n) == Op("data", n, 0, {}, FALSE)
Do(t) == Op(t, 1, 0, {}, FALSE)
Pause(ms) == Op("pause", IF ms > 0 THEN ms ELSE 0, 0, {}, FALSE)  \* a timer of the past fires at once
Repeat(n, ops) == [i \in 1..(n * Len(ops)) |-> ops[((i - 1) % Len(ops)) + 1]]

BodyAllowed(method, status) == method # "HEAD" /\ status >= 200 /\ status \notin {204, 304}

\* External: net/http's framing.  A body whose length is not set and that is never
\* flushed is measured; a flushed one is chunked.
Frame(method, status, length, sizes, flushed) ==
    LET known == IF length # {} \/ flushed THEN length ELSE {IF sizes = << >> THEN 0 ELSE sizes[1]}
    IN <<StatusLine(status, known, known = {})>>
       \o (IF ~BodyAllowed(method, status) THEN << >>
           ELSE [i \in DOMAIN sizes |-> Data(sizes[i])] \o (IF known = {} THEN <<Do("last")>> ELSE << >>))

\* end is what becomes of the connection; a handler with context returns from a pause when
\* the client has left, one that is checked returns from a write that fails.
Respond(r, status, header, payload, length, sizes, flushed) ==
    [status |-> status, header |-> header, payload |-> payload, end |-> "keep",
     ops |-> Frame(r.method, status, length, sizes, flushed), context |-> FALSE, checked |-> FALSE]

Error(r, code) == Respond(r, code, NoHeader, << >>, {}, <<1>>, FALSE)
Text(r) == Respond(r, 200, NoHeader, << >>, {}, <<1>>, FALSE)
writeJSON(r, code, header, payload) == Respond(r, code, header, payload, {1}, <<1>>, FALSE)
PEM(r, certs) == Respond(r, 200, NoHeader, certs, {}, <<1>>, FALSE)

-----------------------------------------------------------------------------
\* Parsing
Outside(x, low, high) == ~x.ok \/ x.nan \/ x.v < low \/ x.v > high

\* ParseFloat accepts NaN, and NaN is neither below 0 nor above 60
OutsideMinute(x) == ~x.ok \/ (~x.nan /\ (x.v < 0 \/ x.v > 60000))

\* Converting NaN gives the smallest int64 on amd64 and 0 on arm64, never a positive duration
Duration(x) == IF x.nan THEN -1 ELSE x.v

queryInt(values, fallback, low, high) ==
    LET x == Or(values, Garbage) IN IF Outside(x, low, high) THEN fallback ELSE x.v
queryDuration(values, fallback) ==
    LET x == Or(values, Garbage) IN IF OutsideMinute(x) THEN fallback ELSE Duration(x)

scheme_ofConnection(r, conn) == IF conn.tls THEN "https" ELSE "http"
scheme(r, conn) == Or(r.forwarded, IF conn.tls THEN "https" ELSE "http")
baseURL(r, conn) == <<scheme(r, conn), r.host>>

-----------------------------------------------------------------------------
\* handlers.go

caURL(r, conn, selfMade) == IF selfMade THEN {URL(baseURL(r, conn), "/ca.pem", Num(0))} ELSE {}

info(r, conn, certs) ==
    writeJSON(r, 200, NoHeader, [listeners |-> DOMAIN TlsListeners(certs) \cup {"http", "raw"},
                                 baseUrl |-> baseURL(r, conn), caUrl |-> caURL(r, conn, certs.selfMade)])

caPEM(r, certs) == IF certs.selfMade THEN PEM(r, certs.caPEM) ELSE Error(r, 404)
clientPEM(r, certs) == IF certs.clientPEM # {} THEN PEM(r, certs.clientPEM) ELSE Error(r, 404)

handshakeReport(conn, certs) == IF conn.tls THEN {handshake(conn, certs.selfMade)} ELSE {}
tlsInfo(r, conn, certs) == writeJSON(r, 200, NoHeader, [tls |-> handshakeReport(conn, certs)])

\* The bytes kept, and whether some were left out
readBody(r) ==
    LET limited == Min({r.body.length, maxEchoBody + 1})
    IN [length |-> Min({limited, maxEchoBody}), truncated |-> limited > maxEchoBody]

\* A cut may fall within a character, and the rest is then no longer text
anything(r, conn, certs) ==
    LET body == readBody(r)
    IN IF ~r.body.whole THEN Error(r, 400)
       ELSE writeJSON(r, 200, NoHeader,
                [url |-> URL(baseURL(r, conn), r.path, r.arg), method |-> r.method, protocol |-> conn.proto,
                 bodyLength |-> body.length, truncated |-> body.truncated,
                 text |-> r.body.charSize > 0 /\ body.length % r.body.charSize = 0,
                 tls |-> handshakeReport(conn, certs)])

headers(r) == writeJSON(r, 200, NoHeader, [host |-> r.host, cookies |-> r.cookies])

\* External: net/http takes 1xx for an informational response, and the final one is 200
Final(code, conn) == IF code < 200 /\ ~(code = 101 /\ conn.proto = "HTTP/1.1") THEN 200 ELSE code

status(r, conn) ==
    LET code == r.arg.v
        sizes == IF code \notin {204, 304} /\ r.method # "HEAD" THEN <<1>> ELSE << >>
        response == Respond(r, Final(code, conn), [NoHeader EXCEPT !.location = r.target], << >>, {}, sizes, FALSE)
    IN IF Outside(r.arg, 100, 599) THEN Error(r, 400)
       ELSE IF Final(code, conn) = code THEN response
       ELSE [response EXCEPT !.ops = <<Do("continue")>> \o @]

Found(r, header) == Respond(r, 302, header, << >>, {}, << >>, FALSE)

redirect(absolute, r, conn) ==
    LET target == URL(IF absolute THEN baseURL(r, conn) ELSE << >>,
                      IF r.arg.v > 1 THEN r.path ELSE "/anything", Num(r.arg.v - 1))
    IN IF Outside(r.arg, 1, 100) THEN Error(r, 400)
       ELSE Found(r, [NoHeader EXCEPT !.location = {target}])

redirectTo(r) ==
    LET code == Or(r.query["status"], Num(302))
    IN IF r.target = {} \/ Outside(code, 300, 399) THEN Error(r, 400)
       ELSE Respond(r, code.v, [NoHeader EXCEPT !.location = r.target], << >>, {}, << >>, FALSE)

delay(r, conn, certs) ==
    IF OutsideMinute(r.arg) THEN Error(r, 400)
    ELSE [anything(r, conn, certs) EXCEPT !.ops = <<Pause(Duration(r.arg))>> \o @, !.context = TRUE]

bytes(r) ==
    IF Outside(r.arg, 0, 10 * 2^20) THEN Error(r, 400)
    ELSE Respond(r, 200, NoHeader, << >>, {r.arg.v}, <<r.arg.v>>, FALSE)

stream(r) ==
    IF Outside(r.arg, 1, 1000) THEN Error(r, 400)
    ELSE Respond(r, 200, NoHeader, << >>, {}, [i \in 1..r.arg.v |-> 1], TRUE)

DripTotal(r) == queryInt(r.query["bytes"], 10, 1, 2^20)
DripPause_perByte(r) == Pause(queryDuration(r.query["duration"], 1000))
DripPause(r) == Pause(queryDuration(r.query["duration"], 1000) \div DripTotal(r))

\* The loop's two early returns
Paced(response) == [response EXCEPT !.context = TRUE, !.checked = TRUE]

drip(r) ==
    LET initial == queryDuration(r.query["delay"], 0)
        round == IF r.method = "HEAD" THEN <<DripPause(r)>> ELSE <<Data(1), DripPause(r)>>
    IN Paced([Respond(r, 200, NoHeader, << >>, {DripTotal(r)}, << >>, TRUE) EXCEPT
                !.ops = (IF initial > 0 THEN <<Pause(initial)>> ELSE << >>) \o @
                        \o Repeat(DripTotal(r), round)])

compressed(encoding, r) ==
    Respond(r, 200, [NoHeader EXCEPT !.encoding = {encoding}], << >>, {}, <<1>>, FALSE)

\* Flushed before the values are set, so the body is chunked and the trailers follow it
trailers(r) ==
    Respond(r, 200, [NoHeader EXCEPT !.trailers = {"X-Testbed-Checksum", "X-Testbed-Protocol"}], << >>, {}, <<1>>, TRUE)

basicAuth(r) ==
    IF r.authorization # {r.want}
    THEN Respond(r, 401, [NoHeader EXCEPT !.challenge = TRUE], << >>, {}, << >>, FALSE)
    ELSE writeJSON(r, 200, NoHeader, [user |-> r.want])

\* Of two cookies with one name the later is reported
cookies(r) ==
    writeJSON(r, 200, NoHeader,
        [cookies |-> [name \in {p[1] : p \in Range(r.cookies)} |->
            LET last == CHOOSE i \in DOMAIN r.cookies :
                    r.cookies[i][1] = name /\ \A j \in DOMAIN r.cookies : j > i => r.cookies[j][1] # name
            IN r.cookies[last][2]]])

setCookies_last(r) ==
    Found(r, [NoHeader EXCEPT !.setCookies = IF r.pairs = << >> THEN << >> ELSE <<r.pairs[Len(r.pairs)]>>,
                              !.location = {URL(<< >>, "/cookies", Num(0))}])
setCookies(r) ==
    Found(r, [NoHeader EXCEPT !.setCookies = r.pairs, !.location = {URL(<< >>, "/cookies", Num(0))}])

\* The entity is as old as 0; If-None-Match that does not match falls through to the date
cache(r) ==
    LET validators == [NoHeader EXCEPT !.etag = {"okhttp-testbed"}, !.lastModified = {0}]
    IN IF r.ifNoneMatch = validators.etag \/ \E since \in r.ifModifiedSince : 0 <= since
       THEN Respond(r, 304, validators, << >>, {}, << >>, FALSE)
       ELSE writeJSON(r, 200, validators, << >>)

cacheControl(r) ==
    IF Outside(r.arg, 0, 86400) THEN Error(r, 400)
    ELSE writeJSON(r, 200, [NoHeader EXCEPT !.maxAge = {r.arg.v}], << >>)

-----------------------------------------------------------------------------
\* hostile.go.  Only an HTTP/1.1 connection can be taken from net/http, and it is closed
\* afterwards; over TLS it is no *net.TCPConn, so neither SetLinger nor CloseWrite happens.

hijacked(r, conn, ops, end) ==
    IF conn.proto = "HTTP/2.0" THEN Error(r, 501)
    ELSE [status |-> 0, header |-> NoHeader, payload |-> << >>, ops |-> ops, end |-> end,
          context |-> FALSE, checked |-> FALSE]

Chunked == StatusLine(200, {}, TRUE)
Sized(lengths) == StatusLine(200, lengths, FALSE)
SizedAndChunked(lengths) == StatusLine(200, lengths, TRUE)
NotAStatus == StatusLine(2000, {0}, FALSE)

truncatedBody_allSent(r) == LET promised == queryInt(r.query["promised"], 1024, 1, 2^20) IN
    <<Sized({promised}), Data(promised)>>
truncatedBody(r) ==
    LET promised == queryInt(r.query["promised"], 1024, 1, 2^20)
        sent == queryInt(r.query["sent"], 16, 0, 2^20)
    IN <<Sized({promised}), Data(Min({sent, promised}))>>

\* Byte by byte: a "part" of the head says nothing yet
slowHeaders(r) ==
    LET pause == Pause(queryDuration(r.query["delay"], 100))
    IN Repeat(SlowHeadBytes, <<Do("part"), pause>>) \o <<Sized({2}), pause, Data(1), pause, Data(1), pause>>

HostilePaths ==
    {"/hostile/no-response", "/hostile/reset", "/hostile/truncated-body", "/hostile/truncated-chunks",
     "/hostile/invalid-chunk-size", "/hostile/invalid-status-line", "/hostile/duplicate-content-length",
     "/hostile/content-length-and-chunked", "/hostile/slow-headers", "/hostile/huge-header",
     "/hostile/informational-storm", "/hostile/half-close"}

HostileOps(r, conn) ==
    CASE r.path = "/hostile/no-response" -> << >>
      [] r.path = "/hostile/reset" -> <<Sized({1024}), Data(queryInt(r.query["after"], 8, 0, 2^16))>>
      [] r.path = "/hostile/truncated-body" -> truncatedBody(r)
      [] r.path = "/hostile/truncated-chunks" -> <<Chunked, Data(8)>>
      [] r.path = "/hostile/invalid-chunk-size" -> <<Chunked, Do("bad"), Do("last")>>
      [] r.path = "/hostile/invalid-status-line" -> <<NotAStatus>>
      [] r.path = "/hostile/duplicate-content-length" -> <<Sized({4, 8}), Data(4)>>
      [] r.path = "/hostile/content-length-and-chunked" -> <<SizedAndChunked({8}), Data(4), Do("last")>>
      [] r.path = "/hostile/slow-headers" -> slowHeaders(r)
      [] r.path = "/hostile/huge-header" ->
            <<[Sized({0}) EXCEPT !.n = queryInt(r.query["size"], 64 * 2^10, 1, 2^20)]>>
      [] r.path = "/hostile/informational-storm" ->
            Repeat(queryInt(r.query["count"], 5, 1, 100), <<Do("continue")>>) \o <<Sized({2}), Data(2)>>
      [] r.path = "/hostile/half-close" ->
            <<Sized({2}), Data(2)>> \o (IF conn.tls THEN << >> ELSE <<Do("shut")>>) \o <<Pause(100)>>

hostile(r, conn) ==
    [hijacked(r, conn, HostileOps(r, conn), IF r.path = "/hostile/reset" /\ ~conn.tls THEN "rst" ELSE "fin") EXCEPT
        !.checked = r.path = "/hostile/slow-headers"]

maxHead == 64 * 2^10

\* Reading stops at the blank line, at the peer's end or at 64 KiB, and what is beyond stays
\* unread
HeadRead(r) == r.head.ends # "open" \/ r.head.size >= maxHead
LeftUnread(r) == r.head.size > maxHead \/ r.body.length > 0

\* The raw listener answers with what it read and closes, which resets a connection that has
\* unread bytes; a peer that goes silent within its head gets nothing, for the deadline also
\* covers the answer.
echoRequestHead(r) ==
    [status |-> 200, header |-> NoHeader, payload |-> << >>, context |-> FALSE, checked |-> FALSE,
     end |-> IF LeftUnread(r) THEN "rst" ELSE "fin",
     ops |-> IF HeadRead(r) THEN LET n == Min({r.head.size, maxHead}) IN <<Sized({n}), Data(n)>>
             ELSE <<Pause(30000)>>]

-----------------------------------------------------------------------------
\* The routes.  A pattern with GET matches HEAD as well.
AnyMethod == {"/tls", "/anything", "/status", "/delay"}
GetOnly == {"/", "/health", "/info", "/ca.pem", "/client.pem", "/headers", "/redirect", "/absolute-redirect",
            "/redirect-to", "/bytes", "/stream", "/drip", "/gzip", "/deflate", "/trailers", "/basic-auth",
            "/cookies", "/cookies/set", "/cache", "/cache/", "/hostile"} \cup HostilePaths

handler(r, conn, certs) ==
    IF r.path \notin AnyMethod \cup GetOnly THEN Error(r, 404)
    ELSE IF r.path \in GetOnly /\ r.method \notin {"GET", "HEAD"} THEN Error(r, 405)
    ELSE CASE r.path \in {"/", "/health", "/hostile"} -> Text(r)
           [] r.path = "/info" -> info(r, conn, certs)
           [] r.path = "/ca.pem" -> caPEM(r, certs)
           [] r.path = "/client.pem" -> clientPEM(r, certs)
           [] r.path = "/tls" -> tlsInfo(r, conn, certs)
           [] r.path = "/anything" -> anything(r, conn, certs)
           [] r.path = "/headers" -> headers(r)
           [] r.path = "/status" -> status(r, conn)
           [] r.path = "/redirect" -> redirect(FALSE, r, conn)
           [] r.path = "/absolute-redirect" -> redirect(TRUE, r, conn)
           [] r.path = "/redirect-to" -> redirectTo(r)
           [] r.path = "/delay" -> delay(r, conn, certs)
           [] r.path = "/bytes" -> bytes(r)
           [] r.path = "/stream" -> stream(r)
           [] r.path = "/drip" -> drip(r)
           [] r.path = "/gzip" -> compressed("gzip", r)
           [] r.path = "/deflate" -> compressed("deflate", r)
           [] r.path = "/trailers" -> trailers(r)
           [] r.path = "/basic-auth" -> basicAuth(r)
           [] r.path = "/cookies" -> cookies(r)
           [] r.path = "/cookies/set" -> setCookies(r)
           [] r.path = "/cache" -> cache(r)
           [] r.path = "/cache/" -> cacheControl(r)
           [] r.path \in HostilePaths -> hostile(r, conn)
=============================================================================
