----------------------------- MODULE Listeners ------------------------------
(***************************************************************************)
(* The TLS listeners of the test server: what main announces in /info and  *)
(* how tlsServerWith configures each (test-server/main.go,                 *)
(* test-server/tls.go), the handshake that follows from a client's offer,  *)
(* and what /tls reports of both.                                          *)
(*                                                                         *)
(* TLS versions are 10 to 13.  That a listener is disabled, fails or stops *)
(* is ServerLifecycle's subject; the map that finds the ClientHello again  *)
(* is HelloCache's, so here a connection keeps its own.                    *)
(***************************************************************************)
EXTENDS Certificates, SequencesExt

Groups == {"X25519", "X25519MLKEM768"}

\* No version leaves Go's bounds: TLS 1.2, by MinVersion, to 1.3
tlsServerWith(version, http2, cert) ==
    [certificate |-> cert, min |-> Or(version, 12), max |-> Or(version, 13), groups |-> Groups,
     alpn |-> IF http2 THEN <<"h2", "http/1.1">> ELSE <<"http/1.1">>,
     clientAuth |-> "request", clientCAs |-> {}]

mtlsServer(certs) ==
    [tlsServerWith({}, FALSE, certs.leaf) EXCEPT
        !.clientAuth = "requireAndVerify", !.clientCAs = certs.clientCAs]

\* A listener as /info lists it, with the server behind it
addListener(min, max, alpn, server) == [min |-> min, max |-> max, alpn |-> alpn, server |-> server]

perVersionListeners ==
    [name \in {"tls10", "tls11", "tls12", "tls13"} |->
        CASE name = "tls10" -> 10 [] name = "tls11" -> 11 [] name = "tls12" -> 12 [] name = "tls13" -> 13]

TlsListeners(certs) ==
    LET mtls == IF certs.clientCAs = {} THEN {} ELSE {"mtls"}
        perVersion(v) == addListener(v, v, {"http/1.1"}, tlsServerWith({v}, FALSE, certs.leaf))
        names == {"https", "pqc"} \cup DOMAIN perVersionListeners \cup mtls \cup DOMAIN certs.badChains
    IN [name \in names |->
          CASE name = "https" ->
                 addListener(12, 13, {"h2", "http/1.1"}, tlsServerWith({}, TRUE, certs.leaf))
            [] name \in DOMAIN perVersionListeners -> perVersion(perVersionListeners[name])
            [] name = "pqc" ->
                 addListener(13, 13, {"http/1.1"},
                             [tlsServerWith({13}, FALSE, certs.leaf) EXCEPT !.groups = {"X25519MLKEM768"}])
            [] name \in mtls -> addListener(12, 13, {"http/1.1"}, mtlsServer(certs))
            [] OTHER -> addListener(12, 13, {"http/1.1"}, tlsServerWith({}, FALSE, certs.badChains[name]))]

-----------------------------------------------------------------------------
\* External: crypto/tls.  An offer has the client's versions, protocols (none if it
\* does no ALPN), groups, extensions and identity.

Versions(server, offer) == offer.versions \cap server.min..server.max

\* The server's first choice among the offered
Protocol(server, offer) ==
    LET common == {i \in DOMAIN server.alpn : server.alpn[i] \in offer.alpn}
    IN IF common = {} THEN "" ELSE server.alpn[Min(common)]

\* Why the server refuses the handshake at its time now, {} if it does not
ServerRefuses(server, offer, now) ==
    (IF Versions(server, offer) = {} THEN {"version"} ELSE {})
    \cup (IF offer.alpn # {} /\ Protocol(server, offer) = "" THEN {"alpn"} ELSE {})
    \cup (IF server.groups \cap offer.groups = {} THEN {"group"} ELSE {})
    \cup (IF server.clientAuth = "requireAndVerify"
             /\ ~\E cert \in offer.identity : ClientCertificateOK(cert, server.clientCAs, now)
          THEN {"client-certificate"} ELSE {})

-----------------------------------------------------------------------------
\* What /tls reports.  A name is its kind and the code it stands for, so that the
\* report of a code is a name of its own.

extensionEncryptedClientHello == 65037  \* 0xfe0d

extensionNames ==
    {0, 1, 5, 10, 11, 13, 14, 16, 17, 18, 21, 22, 23, 27, 35, 41, 42, 43, 44, 45, 47, 49, 50, 51,
     extensionEncryptedClientHello, 65281, 17513}

extensionName_nibbles(extension) ==
    IF extension \in extensionNames THEN <<"named", extension>>
    ELSE IF extension % 16 = 10 /\ (extension \div 256) % 16 = 10
         THEN <<"GREASE", extension>>
         ELSE <<"hex", extension>>
extensionName(extension) ==
    IF extension \in extensionNames THEN <<"named", extension>>
    ELSE IF extension % 16 = 10 /\ extension \div 256 = extension % 256
         THEN <<"GREASE", extension>>
         ELSE <<"hex", extension>>

versionName(version) == IF version \in 10..13 THEN <<"TLS", version>> ELSE <<"hex", version>>

\* The report for a connection: negotiated and offered
handshake(conn, selfMade) ==
    [version |-> versionName(conn.version), negotiatedProtocol |-> conn.alpn,
     clientCertificates |-> {cert.subject : cert \in conn.offer.identity},
     supportedVersions |-> {versionName(v) : v \in conn.offer.versions},
     alpnProtocols |-> conn.offer.alpn,
     extensions |-> [i \in DOMAIN conn.offer.extensions |-> extensionName(conn.offer.extensions[i])],
     encryptedClientHelloOffered |-> extensionEncryptedClientHello \in Range(conn.offer.extensions),
     certificateSelfMade |-> selfMade]
=============================================================================
