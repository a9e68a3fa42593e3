----------------------------- MODULE MCSession ------------------------------
(* A small instance of Session: stacks, clocks and requests on each side of every limit. *)
EXTENDS Session

Stack(versions, alpn, groups, presents) ==
    [versions |-> versions, alpn |-> alpn, groups |-> groups, presents |-> presents, identity |-> {},
     \* 0x0a0a and 0x2a2a are GREASE, 0x0a1a is not
     extensions |-> <<0, 2570, 2586, 10794, 4660>> \o (IF alpn = {} THEN << >> ELSE <<65037>>)]

MCOffers ==
    {Stack({12, 13}, {"h2", "http/1.1"}, Groups, FALSE), Stack({13}, {"http/1.1"}, {"X25519"}, TRUE),
     Stack({10, 11, 12}, {}, {"X25519"}, FALSE), Stack({10}, {"h2"}, Groups, FALSE)}

MCHosts == {"test.example", "other.example"}
MCCertHosts == <<"test.example", "">>

Clock(server, client) == [server |-> server, client |-> client]
MCClocks == {Clock(0, 0), Clock(0, -1), Clock(0, -2), Clock(0, -24), Clock(0, -25),
             Clock(Year, Year), Clock(Year + 1, Year), Clock(Year, Year + 1)}

Get(path) == NewRequest("GET", path, Num(0))
GetArg(path, arg) == NewRequest("GET", path, arg)
Query(r, key, value) == [r EXCEPT !.query[key] = {value}]
Body(length, charSize) == [NewRequest("POST", "/anything", Num(0)) EXCEPT
                            !.body = [length |-> length, charSize |-> charSize, whole |-> TRUE]]
Drip(method, n, duration, initial) ==
    Query(Query(Query(NewRequest(method, "/drip", Num(0)), "bytes", n), "duration", duration), "delay", initial)

WithHead(size, ends) == [Get("/") EXCEPT !.head = [size |-> size, ends |-> ends]]

MCFewRequests ==
    {Get("/tls"), Query(Get("/hostile/reset"), "after", Num(0)),
     [Get("/anything") EXCEPT !.body.whole = FALSE],
     WithHead(40, "open"), WithHead(40, "shut"), WithHead(maxHead, "open"), WithHead(maxHead + 1, "blank"), Body(5, 1)}

MCSideRequests == {Drip("GET", Num(1), Num(1000), Garbage), Get("/hostile/reset")}

MCRequests ==
    MCFewRequests
    \cup {Get(p) : p \in {"/", "/info", "/headers", "/gzip", "/deflate", "/trailers", "/ca.pem", "/client.pem", "/nowhere"}}
    \cup {GetArg("/redirect", n) : n \in {Num(0), Num(3), Num(101), Garbage}}
    \cup {GetArg("/absolute-redirect", Num(2))}
    \cup {GetArg("/status", Num(c)) : c \in {99, 103, 204, 599}} \cup {NewRequest("HEAD", "/status", Num(200))}
    \cup {[Query(Get("/redirect-to"), "status", Num(c)) EXCEPT !.target = {URL(b, "/anything", Num(0))}] :
            c \in {303, 400}, b \in {<< >>, <<"https", "elsewhere">>}}
    \cup {Get("/redirect-to"), NewRequest("POST", "/redirect", Num(1)), NewRequest("HEAD", "/trailers", Num(0))}
    \cup {GetArg("/delay", x) : x \in {NaN, Num(60000), Num(60001)}}
    \cup {GetArg("/bytes", x) : x \in {Num(0), Num(10485760), Num(10485761)}}
    \cup {GetArg("/stream", x) : x \in {Num(0), Num(2)}}
    \cup {Drip(m, Num(3), Num(60000), Num(60000)) : m \in {"GET", "HEAD"}}
    \cup {Drip("GET", Num(1), NaN, NaN)}
    \cup {[Get("/basic-auth") EXCEPT !.want = "user:secret"]}
    \cup {[Get("/cookies/set") EXCEPT !.pairs = <<<<"a", "1">>, <<"b", "1">>, <<"a", "2">>>>]}
    \cup {Get("/cache"), [Get("/cache") EXCEPT !.ifNoneMatch = {"other"}], GetArg("/cache/", Num(86401)), GetArg("/cache/", Num(0))}
    \cup {Body(maxEchoBody, 3), Body(maxEchoBody + 1, 1)}
    \cup {Get(p) : p \in HostilePaths}
=============================================================================
