---------------------------- MODULE Certificates ----------------------------
(***************************************************************************)
(* What the test server mints at start-up (test-server/tls.go,             *)
(* test-server/badchains.go) and what a verifier makes of it.              *)
(*                                                                         *)
(* A key is named by the process that generated it and the use it has      *)
(* there; two processes share no key, although their CAs have one subject. *)
(* Times are hours since the process started.  Names and addresses that a  *)
(* certificate covers are one set.  Failures of the random source and of   *)
(* the supplied files are in ServerLifecycle (loadCertificatesFails).      *)
(***************************************************************************)
EXTENDS Integers, Sequences, FiniteSets, Functions

CONSTANT CertHosts  \* the entries of CERT_HOSTS, trimmed

Day == 24
Year == 365 * Day

\* The value, or the fallback for Go's nil or zero value, which is the empty set here
Or(value, fallback) == IF value = {} THEN fallback ELSE CHOOSE v \in value : TRUE

newKey_shared(p, role) == <<1, role>>
newKey(p, role) == <<p, role>>

\* The zero leafOptions is valid from an hour ago, for a year
DefaultWindow == [from |-> -1, to |-> Year]
Window_default(window) == DefaultWindow
Window(window) == Or(window, DefaultWindow)

\* x509.CreateCertificate: the template, signed with the issuer's key
CreateCertificate(self, issuer, window, hosts, isCA, use) ==
    [subject |-> self.subject, key |-> self.key, issuer |-> issuer.subject, signedBy |-> issuer.key,
     from |-> window.from, to |-> window.to, hosts |-> hosts, isCA |-> isCA, use |-> use]

newCA(key) ==
    LET self == [subject |-> "okhttp-testbed test-server CA", key |-> key]
    IN CreateCertificate(self, self, DefaultWindow, {}, TRUE, {})

newIntermediate(ca, key) ==
    LET self == [subject |-> "okhttp-testbed test-server intermediate", key |-> key]
    IN CreateCertificate(self, ca, DefaultWindow, {}, TRUE, {})

\* A leaf with no issuer signs itself
newLeafWith(issuer, key, hosts, window) ==
    LET self == [subject |-> hosts[1], key |-> key]
    IN CreateCertificate(self, Or(issuer, self), Window(window), Range(hosts), FALSE, {"serverAuth"})

newClientIdentity(ca, key) ==
    LET self == [subject |-> "okhttp-testbed client", key |-> key]
    IN CreateCertificate(self, ca, DefaultWindow, {}, FALSE, {"clientAuth"})

certHosts == <<"localhost", "127.0.0.1", "::1">> \o SelectSeq(CertHosts, LAMBDA h : h # "")

\* The leaf of each chain that must be rejected, minted by process p
newBadChains(ca, intermediate, p) ==
    LET untrustedCA == newCA(newKey(p, "untrustedCA"))
        leaf(issuer, name, hosts, window) == newLeafWith(issuer, newKey(p, name), hosts, window)
    IN [name \in {"expired", "wrong-host", "self-signed", "untrusted-root", "incomplete-chain"} |->
          CASE name = "expired" -> leaf({ca}, name, certHosts, {[from |-> -30 * Day, to |-> -1 * Day]})
            [] name = "wrong-host" -> leaf({ca}, name, <<"wrong.host.invalid">>, {})
            [] name = "self-signed" -> leaf({}, name, certHosts, {})
            [] name = "untrusted-root" -> leaf({untrustedCA}, name, certHosts, {})
            [] name = "incomplete-chain" -> leaf({intermediate}, name, certHosts, {})]

\* External: a certificate of a public authority, as a deployment supplies it
PublicRoot ==
    LET self == [subject |-> "public", key |-> newKey(0, "public")]
    IN CreateCertificate(self, self, [from |-> -10 * Year, to |-> 10 * Year], {}, TRUE, {})
SuppliedLeaf ==
    newLeafWith({PublicRoot}, newKey(0, "supplied"), <<"test.example">>, {[from |-> -2, to |-> 2 * Year]})

\* What process p serves.  withheld is the intermediate of incomplete-chain, which the
\* listener does not send; clientPEM is the identity and clientCAs the pool of mtls.
loadCertificates(supplied, p) ==
    LET ca == newCA(newKey(p, "ca"))
        intermediate == newIntermediate(ca, newKey(p, "intermediate"))
    IN IF supplied
       THEN [leaf |-> SuppliedLeaf, caPEM |-> {}, selfMade |-> FALSE, badChains |-> << >>,
             withheld |-> {}, clientPEM |-> {}, clientCAs |-> {}]
       ELSE [leaf |-> newLeafWith({ca}, newKey(p, "leaf"), certHosts, {}), caPEM |-> {ca},
             selfMade |-> TRUE, badChains |-> newBadChains(ca, intermediate, p),
             withheld |-> {intermediate}, clientPEM |-> {newClientIdentity(ca, newKey(p, "client"))},
             clientCAs |-> {ca}]

-----------------------------------------------------------------------------
\* External: path building and verification by a peer (RFC 5280), with the anchors
\* it trusts and the intermediates it has

Current(cert, now) == cert.from <= now /\ now <= cert.to

SignedBy(cert, ca) == ca.isCA /\ ca.subject = cert.issuer /\ ca.key = cert.signedBy

HasPath(cert, anchors, intermediates, now) ==
    \/ cert \in anchors
    \/ \E ca \in anchors : SignedBy(cert, ca) /\ Current(ca, now)
    \/ \E i \in intermediates, ca \in anchors :
        SignedBy(cert, i) /\ Current(i, now) /\ SignedBy(i, ca) /\ Current(ca, now)

\* Each thing a client can object to in a server's leaf
Objections(cert, anchors, intermediates, host, now) ==
    (IF Current(cert, now) THEN {} ELSE {"expired"})
    \cup (IF host \in cert.hosts THEN {} ELSE {"wrong-host"})
    \cup (IF HasPath(cert, anchors, intermediates, now) THEN {} ELSE {"no-path"})

\* crypto/tls verifies a client's certificate for the clientAuth use
ClientCertificateOK(cert, clientCAs, now) ==
    Current(cert, now) /\ "clientAuth" \in cert.use /\ HasPath(cert, clientCAs, {}, now)
=============================================================================
