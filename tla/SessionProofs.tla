--------------------------- MODULE SessionProofs ----------------------------
(***************************************************************************)
(* Which clients accept the test server's certificates, which clients it   *)
(* accepts, and what it does with their requests, for any hosts, clocks,   *)
(* TLS stacks, requests, streams and number of restarts.                   *)
(***************************************************************************)
EXTENDS Session, SequenceTheorems, FiniteSetTheorems, TLAPS

\* The CA of process p and the intermediate under it.
CA(p) == newCA(newKey(p, "ca"))
Intermediate(p) == newIntermediate(CA(p), newKey(p, "intermediate"))
ClientCertificate(p) == newClientIdentity(CA(p), newKey(p, "client"))

\* The window of everything minted but expired.
Minted(now) == -1 <= now /\ now <= Year

\* No two keys are the same.
LEMMA Keys ==
    ASSUME NEW p, NEW q, NEW role, NEW use
    PROVE  newKey(p, role) = newKey(q, use) <=> p = q /\ role = use
  BY DEF newKey

\* A CA and an intermediate, field by field.
LEMMA Authorities ==
    ASSUME NEW p
    PROVE  /\ CA(p).isCA = TRUE /\ CA(p).subject = "okhttp-testbed test-server CA"
           /\ CA(p).key = newKey(p, "ca")
           /\ Intermediate(p).isCA = TRUE /\ Intermediate(p).key = newKey(p, "intermediate")
           /\ Intermediate(p).subject = "okhttp-testbed test-server intermediate"
           /\ Intermediate(p).issuer = "okhttp-testbed test-server CA"
           /\ Intermediate(p).signedBy = newKey(p, "ca")
  BY DEF CA, Intermediate, newCA, newIntermediate, CreateCertificate

\* They are valid as long as everything else.
LEMMA AuthoritiesCurrent ==
    ASSUME NEW p, NEW now
    PROVE  /\ Current(CA(p), now) <=> Minted(now)
           /\ Current(Intermediate(p), now) <=> Minted(now)
  BY DEF CA, Intermediate, newCA, newIntermediate, CreateCertificate, DefaultWindow, Current, Minted

\* The public authority.
LEMMA PublicAuthority ==
    PublicRoot.isCA = TRUE /\ PublicRoot.key = newKey(0, "public") /\ PublicRoot.subject = "public"
  BY DEF PublicRoot, CreateCertificate

\* The anchors of a client that fetched the CA of process f, or none for 0.
Anchors(f) == (IF f = 0 THEN {} ELSE {CA(f)}) \cup {PublicRoot}

\* The intermediates it has.
Intermediates(p, completed) == IF completed THEN {Intermediate(p)} ELSE {}

\* Who signed what.
LEMMA Signatures ==
    ASSUME NEW p, NEW cert
    PROVE  /\ SignedBy(cert, CA(p)) <=>
                 /\ cert.issuer = "okhttp-testbed test-server CA"
                 /\ cert.signedBy = newKey(p, "ca")
           /\ SignedBy(cert, Intermediate(p)) <=>
                 /\ cert.issuer = "okhttp-testbed test-server intermediate"
                 /\ cert.signedBy = newKey(p, "intermediate")
           /\ SignedBy(cert, PublicRoot) => cert.signedBy = newKey(0, "public")
  BY Authorities, PublicAuthority DEF SignedBy

\* Of all authorities only its own process's CA signed an intermediate.
LEMMA IntermediateSignature ==
    ASSUME NEW p, NEW f
    PROVE  /\ SignedBy(Intermediate(p), CA(f)) <=> f = p
           /\ ~SignedBy(Intermediate(p), PublicRoot)
<1>1. newKey(p, "ca") = newKey(f, "ca") <=> f = p
  BY Keys
<1>2. newKey(p, "ca") # newKey(0, "public")
  BY Keys
<1>3. /\ Intermediate(p).signedBy = newKey(p, "ca")
      /\ Intermediate(p).issuer = "okhttp-testbed test-server CA"
  BY Authorities
<1>4. SignedBy(Intermediate(p), CA(f)) <=> Intermediate(p).signedBy = newKey(f, "ca")
  BY <1>3, Signatures
<1>5. SignedBy(Intermediate(p), PublicRoot) => Intermediate(p).signedBy = newKey(0, "public")
  BY Signatures
<1> QED
  BY <1>1, <1>2, <1>3, <1>4, <1>5

\* cert has a path at time now, to the CA of process f, perhaps by the intermediate of p.
Reaches(cert, p, f, completed, now) ==
    \/ /\ f # 0 /\ Minted(now) /\ cert.issuer = "okhttp-testbed test-server CA"
       /\ cert.signedBy = newKey(f, "ca")
    \/ /\ completed /\ f # 0 /\ f = p /\ Minted(now)
       /\ cert.issuer = "okhttp-testbed test-server intermediate"
       /\ cert.signedBy = newKey(p, "intermediate")

\* The paths there are from a leaf of process p: one signature of its CA away, two by way of
\* the intermediate, or none.
LEMMA Paths ==
    ASSUME NEW p, NEW f, NEW now, NEW completed, NEW cert,
           cert.isCA = FALSE, cert.signedBy # newKey(0, "public")
    PROVE  HasPath(cert, Anchors(f), Intermediates(p, completed), now)
              <=> Reaches(cert, p, f, completed, now)
<1>1. cert \notin Anchors(f)
  BY Authorities, PublicAuthority DEF Anchors
<1>2. (\E ca \in Anchors(f) : SignedBy(cert, ca) /\ Current(ca, now)) <=>
         /\ f # 0 /\ Minted(now) /\ cert.issuer = "okhttp-testbed test-server CA"
         /\ cert.signedBy = newKey(f, "ca")
  BY Signatures, AuthoritiesCurrent DEF Anchors
<1>3. ASSUME completed
      PROVE  (\E ca \in Anchors(f) : /\ SignedBy(cert, Intermediate(p)) /\ Current(Intermediate(p), now)
                                     /\ SignedBy(Intermediate(p), ca) /\ Current(ca, now)) <=>
                /\ f # 0 /\ f = p /\ Minted(now)
                /\ cert.issuer = "okhttp-testbed test-server intermediate"
                /\ cert.signedBy = newKey(p, "intermediate")
  <2>1. SignedBy(cert, Intermediate(p)) <=>
           /\ cert.issuer = "okhttp-testbed test-server intermediate"
           /\ cert.signedBy = newKey(p, "intermediate")
    BY Signatures
  <2>2. (SignedBy(Intermediate(p), CA(f)) <=> f = p) /\ ~SignedBy(Intermediate(p), PublicRoot)
    BY IntermediateSignature
  <2>3. (Current(CA(f), now) <=> Minted(now)) /\ (Current(Intermediate(p), now) <=> Minted(now))
    BY AuthoritiesCurrent
  <2> QED
    BY <2>1, <2>2, <2>3 DEF Anchors
<1>4. completed => Intermediates(p, completed) = {Intermediate(p)}
  BY DEF Intermediates
<1>5. ~completed => Intermediates(p, completed) = {}
  BY DEF Intermediates
<1>6. (\E i \in Intermediates(p, completed), ca \in Anchors(f) :
           SignedBy(cert, i) /\ Current(i, now) /\ SignedBy(i, ca) /\ Current(ca, now)) <=>
         /\ completed /\ f # 0 /\ f = p /\ Minted(now)
         /\ cert.issuer = "okhttp-testbed test-server intermediate"
         /\ cert.signedBy = newKey(p, "intermediate")
  BY <1>3, <1>4, <1>5
<1> QED
  BY <1>1, <1>2, <1>6 DEF HasPath, Reaches

\* A leaf that none of them signed has none.
LEMMA NoPath ==
    ASSUME NEW p, NEW f, NEW now \in Int, NEW completed \in BOOLEAN, NEW cert,
           cert.isCA = FALSE, cert.signedBy # newKey(0, "public"),
           cert.signedBy # newKey(f, "ca"), cert.signedBy # newKey(p, "intermediate")
    PROVE  ~HasPath(cert, Anchors(f), Intermediates(p, completed), now)
<1>1. cert \notin Anchors(f)
  BY Authorities, PublicAuthority DEF Anchors
<1>2. ~\E ca \in Anchors(f) : SignedBy(cert, ca) /\ Current(ca, now)
  BY Signatures DEF Anchors
<1>3. ~\E i \in Intermediates(p, completed) : SignedBy(cert, i)
  BY Signatures DEF Intermediates
<1> QED
  BY <1>1, <1>2, <1>3 DEF HasPath

BadNames == {"expired", "wrong-host", "self-signed", "untrusted-root", "incomplete-chain"}

\* The leaves minted: signed by issuer, the same but expired, and signed by itself.
Leaf(issuer, key, hosts) == newLeafWith({issuer}, key, hosts, {})
ExpiredLeaf(issuer, key, hosts) ==
    newLeafWith({issuer}, key, hosts, {[from |-> -30 * Day, to |-> -1 * Day]})
OwnLeaf(key, hosts) == newLeafWith({}, key, hosts, {})

\* A leaf for hosts that names issuer and is signed with key.
IsLeaf(cert, issuer, key, hosts) ==
    cert.isCA = FALSE /\ cert.hosts = Range(hosts) /\ cert.issuer = issuer /\ cert.signedBy = key

\* It is valid as long as everything minted.
IsCurrent(cert) == cert.from = -1 /\ cert.to = Year

\* A leaf names and is signed by its issuer.
LEMMA Leaves ==
    ASSUME NEW issuer, NEW key, NEW hosts
    PROVE  /\ IsLeaf(Leaf(issuer, key, hosts), issuer.subject, issuer.key, hosts)
           /\ IsCurrent(Leaf(issuer, key, hosts))
<1>1. Or({issuer}, [subject |-> hosts[1], key |-> key]) = issuer /\ Window({}) = DefaultWindow
  BY DEF Or, Window
<1> QED
  BY <1>1 DEF Leaf, IsLeaf, IsCurrent, newLeafWith, CreateCertificate, DefaultWindow

\* The expired leaf is no longer valid whenever the others are.
LEMMA ExpiredLeaves ==
    ASSUME NEW issuer, NEW key, NEW hosts, NEW now \in Int
    PROVE  /\ IsLeaf(ExpiredLeaf(issuer, key, hosts), issuer.subject, issuer.key, hosts)
           /\ Current(ExpiredLeaf(issuer, key, hosts), now) => ~Minted(now)
<1>1. Or({issuer}, [subject |-> hosts[1], key |-> key]) = issuer
  BY DEF Or
<1>2. Window({[from |-> -30 * Day, to |-> -1 * Day]}) = [from |-> -30 * Day, to |-> -1 * Day]
  BY DEF Or, Window
<1> QED
  BY <1>1, <1>2
  DEF ExpiredLeaf, IsLeaf, newLeafWith, CreateCertificate, Day, Current, Minted

\* The leaf without an issuer is signed with its own key.
LEMMA OwnLeaves ==
    ASSUME NEW key, NEW hosts
    PROVE  IsLeaf(OwnLeaf(key, hosts), hosts[1], key, hosts) /\ IsCurrent(OwnLeaf(key, hosts))
<1>1. /\ Or({}, [subject |-> hosts[1], key |-> key]) = [subject |-> hosts[1], key |-> key]
      /\ Window({}) = DefaultWindow
  BY DEF Or, Window
<1> QED
  BY <1>1 DEF OwnLeaf, IsLeaf, IsCurrent, newLeafWith, CreateCertificate, DefaultWindow

\* Validity of the leaves that are not expired.
LEMMA LeavesCurrent ==
    ASSUME NEW cert, IsCurrent(cert), NEW now \in Int
    PROVE  Current(cert, now) <=> Minted(now)
  BY DEF IsCurrent, Current, Minted

-----------------------------------------------------------------------------
(* What a process serves *)

\* What a process mints when it is given no certificate.
LEMMA MintedCertificates ==
    ASSUME NEW p, NEW c, c = loadCertificates(FALSE, p)
    PROVE  /\ c.leaf = Leaf(CA(p), newKey(p, "leaf"), certHosts)
           /\ c.caPEM = {CA(p)} /\ c.selfMade /\ c.withheld = {Intermediate(p)}
           /\ c.clientPEM = {ClientCertificate(p)} /\ c.clientCAs = {CA(p)}
           /\ c.badChains = newBadChains(CA(p), Intermediate(p), p)
           /\ DOMAIN c.badChains = BadNames
<1>1. DOMAIN newBadChains(CA(p), Intermediate(p), p) = BadNames
  BY DEF newBadChains, BadNames
<1> QED
  BY <1>1 DEF loadCertificates, CA, Intermediate, ClientCertificate, Leaf

\* With a certificate supplied there are neither bad chains nor mtls.
LEMMA SuppliedCertificates ==
    ASSUME NEW p, NEW c, c = loadCertificates(TRUE, p)
    PROVE  /\ DOMAIN c.badChains = {} /\ c.clientCAs = {} /\ c.selfMade = FALSE /\ c.clientPEM = {}
  BY DEF loadCertificates

GoodNames == {"https", "pqc", "tls10", "tls11", "tls12", "tls13"}

\* The certificate each listener presents, and who it asks for one.
LEMMA Servers ==
    ASSUME NEW c, DOMAIN c.badChains \in SUBSET BadNames
    PROVE  LET ls == TlsListeners(c) IN
           /\ DOMAIN ls = GoodNames \cup (IF c.clientCAs = {} THEN {} ELSE {"mtls"})
                                    \cup DOMAIN c.badChains
           /\ \A name \in DOMAIN ls :
                 /\ ls[name].server.certificate = IF name \in DOMAIN c.badChains
                                                  THEN c.badChains[name] ELSE c.leaf
                 /\ name # "mtls" => ls[name].server.clientAuth = "request"
                 /\ name = "mtls" => /\ ls[name].server.clientAuth = "requireAndVerify"
                                     /\ ls[name].server.clientCAs = c.clientCAs
<1> DEFINE ls == TlsListeners(c)
<1>1. DOMAIN perVersionListeners = {"tls10", "tls11", "tls12", "tls13"}
  BY DEF perVersionListeners
<1>2. DOMAIN ls = GoodNames \cup (IF c.clientCAs = {} THEN {} ELSE {"mtls"}) \cup DOMAIN c.badChains
  BY <1>1 DEF TlsListeners, GoodNames
<1>7. ASSUME NEW name \in DOMAIN ls
      PROVE  /\ ls[name].server.certificate = IF name \in DOMAIN c.badChains
                                              THEN c.badChains[name] ELSE c.leaf
             /\ name # "mtls" => ls[name].server.clientAuth = "request"
             /\ name = "mtls" => /\ ls[name].server.clientAuth = "requireAndVerify"
                                 /\ ls[name].server.clientCAs = c.clientCAs
  <2>1. CASE name = "https"
    <3>1. ls[name].server.certificate = c.leaf /\ ls[name].server.clientAuth = "request"
      BY <1>7, <2>1 DEF TlsListeners, addListener, tlsServerWith
    <3> QED
      BY <2>1, <3>1 DEF BadNames
  <2>2. CASE name \in {"tls10", "tls11", "tls12", "tls13"}
    <3>1. ls[name].server.certificate = c.leaf /\ ls[name].server.clientAuth = "request"
      BY <1>1, <1>7, <2>2 DEF TlsListeners, addListener, tlsServerWith
    <3> QED
      BY <2>2, <3>1 DEF BadNames
  <2>3. CASE name = "pqc"
    <3>1. ls[name].server.certificate = c.leaf /\ ls[name].server.clientAuth = "request"
      BY <1>1, <1>7, <2>3 DEF TlsListeners, addListener, tlsServerWith
    <3> QED
      BY <2>3, <3>1 DEF BadNames
  <2>4. CASE name = "mtls"
    <3>1. /\ ls[name].server.certificate = c.leaf
          /\ ls[name].server.clientAuth = "requireAndVerify"
          /\ ls[name].server.clientCAs = c.clientCAs
      BY <1>1, <1>2, <1>7, <2>4 DEF TlsListeners, GoodNames, BadNames,
                                    addListener, tlsServerWith, mtlsServer
    <3> QED
      BY <2>4, <3>1 DEF BadNames
  <2>5. CASE name \in DOMAIN c.badChains
    <3>1. /\ ls[name].server.certificate = c.badChains[name]
          /\ ls[name].server.clientAuth = "request"
      BY <1>1, <1>7, <2>5 DEF TlsListeners, BadNames, addListener, tlsServerWith
    <3> QED
      BY <2>5, <3>1 DEF BadNames
  <2> QED
    BY <1>2, <1>7, <2>1, <2>2, <2>3, <2>4, <2>5 DEF GoodNames
<1> HIDE DEF ls
<1>8. /\ DOMAIN ls = GoodNames \cup (IF c.clientCAs = {} THEN {} ELSE {"mtls"})
                               \cup DOMAIN c.badChains
      /\ \A name \in DOMAIN ls :
            /\ ls[name].server.certificate = IF name \in DOMAIN c.badChains
                                             THEN c.badChains[name] ELSE c.leaf
            /\ name # "mtls" => ls[name].server.clientAuth = "request"
            /\ name = "mtls" => /\ ls[name].server.clientAuth = "requireAndVerify"
                                /\ ls[name].server.clientCAs = c.clientCAs
  BY <1>2, <1>7
<1> QED
  BY <1>8 DEF ls

-----------------------------------------------------------------------------
(* Who accepts what *)

\* The good leaf is accepted by those, and only those, who fetched this process's CA,
\* use a name it covers and have a clock within its year.
LEMMA LeafAccepted ==
    ASSUME NEW p, p # 0, NEW f, NEW now \in Int, NEW host, NEW completed \in BOOLEAN
    PROVE  Objections(Leaf(CA(p), newKey(p, "leaf"), certHosts), Anchors(f),
                      Intermediates(p, completed), host, now) = {}
              <=> f = p /\ host \in Range(certHosts) /\ Minted(now)
<1> DEFINE leaf == Leaf(CA(p), newKey(p, "leaf"), certHosts)
<1>0. IsLeaf(leaf, CA(p).subject, CA(p).key, certHosts) /\ IsCurrent(leaf)
  BY Leaves
<1> HIDE DEF leaf
<1>1. /\ leaf.isCA = FALSE /\ leaf.hosts = Range(certHosts)
      /\ leaf.issuer = "okhttp-testbed test-server CA" /\ leaf.signedBy = newKey(p, "ca")
  BY <1>0, Authorities DEF IsLeaf
<1>2. Current(leaf, now) <=> Minted(now)
  BY <1>0, LeavesCurrent
<1>3. HasPath(leaf, Anchors(f), Intermediates(p, completed), now) <=> f = p /\ Minted(now)
  <2>1. newKey(p, "ca") # newKey(0, "public") /\ (newKey(p, "ca") = newKey(f, "ca") <=> f = p)
    BY Keys
  <2>2. leaf.isCA = FALSE /\ leaf.signedBy # newKey(0, "public")
    BY <1>1, <2>1
  <2>3. HasPath(leaf, Anchors(f), Intermediates(p, completed), now)
           <=> Reaches(leaf, p, f, completed, now)
    BY <2>2, Paths
  <2>4. newKey(p, "ca") # newKey(p, "intermediate")
    BY Keys
  <2> QED
    BY <1>1, <2>1, <2>3, <2>4 DEF Reaches
<1>4. Objections(leaf, Anchors(f), Intermediates(p, completed), host, now) = {}
         <=> f = p /\ host \in Range(certHosts) /\ Minted(now)
  BY <1>1, <1>2, <1>3 DEF Objections
<1> QED
  BY <1>4 DEF leaf

\* What a bad chain stands for.
OwnReason(name, completed) ==
    CASE name \in {"expired", "wrong-host"} -> {name}
      [] name = "incomplete-chain" /\ completed -> {}
      [] OTHER -> {"no-path"}

\* Who accepts the good leaf refuses each bad chain for its own reason.
LEMMA BadChainsRefused ==
    ASSUME NEW p, p # 0, NEW now \in Int, NEW host \in Range(certHosts), Minted(now),
           NEW completed \in BOOLEAN, NEW name \in BadNames
    PROVE  Objections(newBadChains(CA(p), Intermediate(p), p)[name], Anchors(p),
                      Intermediates(p, completed), host, now) = OwnReason(name, completed)
<1> DEFINE leaf == newBadChains(CA(p), Intermediate(p), p)[name]
           path == HasPath(leaf, Anchors(p), Intermediates(p, completed), now)
<1> SUFFICES Objections(leaf, Anchors(p), Intermediates(p, completed), host, now)
                = OwnReason(name, completed)
  OBVIOUS
<1>k. /\ newKey(p, "ca") # newKey(0, "public") /\ newKey(p, "self-signed") # newKey(0, "public")
      /\ newKey(p, "untrustedCA") # newKey(0, "public")
      /\ newKey(p, "intermediate") # newKey(0, "public")
      /\ newKey(p, "self-signed") # newKey(p, "ca")
      /\ newKey(p, "self-signed") # newKey(p, "intermediate")
      /\ newKey(p, "untrustedCA") # newKey(p, "ca")
      /\ newKey(p, "untrustedCA") # newKey(p, "intermediate")
      /\ newKey(p, "intermediate") # newKey(p, "ca")
  BY Keys
<1>1. CASE name = "expired"
  <2>1. leaf = ExpiredLeaf(CA(p), newKey(p, name), certHosts)
    BY <1>1 DEF newBadChains, ExpiredLeaf
  <2> HIDE DEF leaf
  <2>2. /\ leaf.isCA = FALSE /\ leaf.hosts = Range(certHosts)
        /\ leaf.issuer = "okhttp-testbed test-server CA" /\ leaf.signedBy = newKey(p, "ca")
    <3>1. IsLeaf(leaf, CA(p).subject, CA(p).key, certHosts)
      BY <2>1, ExpiredLeaves
    <3> QED
      BY <3>1, Authorities DEF IsLeaf
  <2>3. ~Current(leaf, now)
    BY <2>1, ExpiredLeaves
  <2>4. path
    <3>1. path <=> Reaches(leaf, p, p, completed, now)
      BY <1>k, <2>2, Paths
    <3> QED
      BY <1>k, <2>2, <3>1 DEF Reaches
  <2> QED
    BY <1>1, <2>2, <2>3, <2>4 DEF Objections, OwnReason
<1>2. CASE name = "wrong-host"
  <2>1. leaf = Leaf(CA(p), newKey(p, name), <<"wrong.host.invalid">>)
    BY <1>2 DEF newBadChains, Leaf
  <2> HIDE DEF leaf
  <2>2. /\ leaf.isCA = FALSE /\ leaf.hosts = Range(<<"wrong.host.invalid">>)
        /\ leaf.issuer = "okhttp-testbed test-server CA" /\ leaf.signedBy = newKey(p, "ca")
    <3>1. IsLeaf(leaf, CA(p).subject, CA(p).key, <<"wrong.host.invalid">>)
      BY <2>1, Leaves
    <3> QED
      BY <3>1, Authorities DEF IsLeaf
  <2>3. Current(leaf, now)
    <3>1. IsCurrent(leaf)
      BY <2>1, Leaves
    <3> QED
      BY <3>1, LeavesCurrent
  <2>4. path
    <3>1. path <=> Reaches(leaf, p, p, completed, now)
      BY <1>k, <2>2, Paths
    <3> QED
      BY <1>k, <2>2, <3>1 DEF Reaches
  <2>5. host \notin leaf.hosts
    <3>2. host # "wrong.host.invalid"
      BY HostsAssumption, host \in Range(certHosts)
    <3>1. Range(<<"wrong.host.invalid">>) = {"wrong.host.invalid"}
      BY DEF Range
    <3> QED
      BY <2>2, <3>1, <3>2
  <2> QED
    BY <1>2, <2>3, <2>4, <2>5 DEF Objections, OwnReason
<1>3. CASE name = "self-signed"
  <2>1. leaf = OwnLeaf(newKey(p, name), certHosts)
    BY <1>3 DEF newBadChains, OwnLeaf
  <2> HIDE DEF leaf
  <2>2. /\ leaf.isCA = FALSE /\ leaf.hosts = Range(certHosts)
        /\ leaf.signedBy = newKey(p, "self-signed")
    <3>1. IsLeaf(leaf, certHosts[1], newKey(p, name), certHosts)
      BY <2>1, OwnLeaves
    <3> QED
      BY <1>3, <3>1 DEF IsLeaf
  <2>3. Current(leaf, now)
    <3>1. IsCurrent(leaf)
      BY <2>1, OwnLeaves
    <3> QED
      BY <3>1, LeavesCurrent
  <2>4. ~path
    BY <1>k, <2>2, NoPath
  <2> QED
    BY <1>3, <2>2, <2>3, <2>4 DEF Objections, OwnReason
<1>4. CASE name = "untrusted-root"
  <2> DEFINE untrusted == newCA(newKey(p, "untrustedCA"))
  <2>1. leaf = Leaf(untrusted, newKey(p, name), certHosts)
    BY <1>4 DEF newBadChains, Leaf
  <2>2. untrusted.key = newKey(p, "untrustedCA")
    BY DEF newCA, CreateCertificate
  <2> HIDE DEF untrusted, leaf
  <2>3. /\ leaf.isCA = FALSE /\ leaf.hosts = Range(certHosts)
        /\ leaf.signedBy = newKey(p, "untrustedCA")
    <3>1. IsLeaf(leaf, untrusted.subject, untrusted.key, certHosts)
      BY <2>1, Leaves
    <3> QED
      BY <2>2, <3>1 DEF IsLeaf
  <2>4. Current(leaf, now)
    <3>1. IsCurrent(leaf)
      BY <2>1, Leaves
    <3> QED
      BY <3>1, LeavesCurrent
  <2>5. ~path
    BY <1>k, <2>3, NoPath
  <2> QED
    BY <1>4, <2>3, <2>4, <2>5 DEF Objections, OwnReason
<1>5. CASE name = "incomplete-chain"
  <2>1. leaf = Leaf(Intermediate(p), newKey(p, name), certHosts)
    BY <1>5 DEF newBadChains, Leaf
  <2> HIDE DEF leaf
  <2>2. /\ leaf.isCA = FALSE /\ leaf.hosts = Range(certHosts)
        /\ leaf.issuer = "okhttp-testbed test-server intermediate"
        /\ leaf.signedBy = newKey(p, "intermediate")
    <3>1. IsLeaf(leaf, Intermediate(p).subject, Intermediate(p).key, certHosts)
      BY <2>1, Leaves
    <3> QED
      BY <3>1, Authorities DEF IsLeaf
  <2>3. Current(leaf, now)
    <3>1. IsCurrent(leaf)
      BY <2>1, Leaves
    <3> QED
      BY <3>1, LeavesCurrent
  <2>4. path <=> completed
    <3>1. path <=> Reaches(leaf, p, p, completed, now)
      BY <1>k, <2>2, Paths
    <3> QED
      BY <1>k, <2>2, <3>1 DEF Reaches
  <2> QED
    BY <1>5, <2>2, <2>3, <2>4 DEF Objections, OwnReason
<1> QED
  BY <1>1, <1>2, <1>3, <1>4, <1>5 DEF BadNames

\* mtls accepts the identity of process f if it is process f, until a year is over.
LEMMA IdentityAccepted ==
    ASSUME NEW p \in Nat \ {0}, NEW f \in Nat \ {0}, NEW now \in Nat
    PROVE  ClientCertificateOK(ClientCertificate(f), {CA(p)}, now) <=> f = p /\ now <= Year
<1> DEFINE cert == ClientCertificate(f)
<1>1. /\ cert.isCA = FALSE /\ cert.use = {"clientAuth"} /\ cert.issuer = CA(f).subject
      /\ cert.signedBy = CA(f).key /\ (Current(cert, now) <=> Minted(now))
  BY DEF ClientCertificate, newClientIdentity, CreateCertificate, DefaultWindow, Current, Minted
<1>2. cert # CA(p)
  BY <1>1, Authorities
<1>3. SignedBy(cert, CA(p)) <=> f = p
  <2>1. newKey(f, "ca") = newKey(p, "ca") <=> f = p
    BY Keys
  <2> QED
    BY <1>1, <2>1, Authorities DEF SignedBy
<1>4. Minted(now) <=> now <= Year
  BY DEF Minted
<1>6. Current(CA(p), now) <=> Minted(now)
  BY AuthoritiesCurrent
<1> HIDE DEF cert
<1>5. ClientCertificateOK(cert, {CA(p)}, now) <=> f = p /\ now <= Year
  BY <1>1, <1>2, <1>3, <1>4, <1>6 DEF ClientCertificateOK, HasPath
<1> QED
  BY <1>5 DEF cert

-----------------------------------------------------------------------------
(* What the client keeps, and why it was refused *)

Fetched(p) == IF p = 0 THEN {} ELSE {CA(p)}
FetchedIdentity(p) == IF p = 0 THEN {} ELSE {ClientCertificate(p)}

\* What the client has is of the processes it noted.
KeptIsFetched ==
    /\ proc \in 1..MaxProcs /\ supplied \in BOOLEAN
    /\ fetched \in [ca : 0..MaxProcs, identity : 0..MaxProcs]
    /\ trust = Fetched(fetched.ca)
    /\ identity = FetchedIdentity(fetched.identity)

OfferOf(stack) == [stack EXCEPT !.identity = IF stack.presents THEN identity ELSE {}]

ChainWhy(l, host, clock, completed) ==
    Objections(listeners[l].server.certificate, trust \cup {PublicRoot},
               IF completed THEN certs.withheld ELSE {}, host, clock.client)

Why(l, stack, host, clock, completed) ==
    ChainWhy(l, host, clock, completed)
    \cup ServerRefuses(listeners[l].server, OfferOf(stack), clock.server)

\* The last attempt met the running process, with what the client still has.
AttemptIsCurrent ==
    \/ attempt = NoAttempt
    \/ \E l \in DOMAIN listeners, o \in Offers, host \in Hosts, clock \in Clocks, completed \in BOOLEAN :
        attempt = [listener |-> l, offer |-> OfferOf(o), host |-> host, clock |-> clock,
                   completed |-> completed, why |-> Why(l, o, host, clock, completed)]

Inv == KeptIsFetched /\ AttemptIsCurrent

\* The certificates and the listeners of the running process.
LEMMA RunningProcess ==
    ASSUME proc \in 1..MaxProcs, supplied \in BOOLEAN
    PROVE  certs = loadCertificates(supplied, proc) /\ listeners = TlsListeners(certs)
<1>1. certs = loadCertificates(supplied, proc)
  BY DEF certs, CertsOf
<1>2. listeners = TlsListeners(CertsOf[supplied][proc])
  BY DEF listeners, ListenersOf
<1>3. CertsOf[supplied][proc] = certs
  BY DEF certs
<1> QED
  BY <1>1, <1>2, <1>3

\* What they are of a process that was given no certificate.
LEMMA RunningMinted ==
    ASSUME proc \in 1..MaxProcs, supplied = FALSE
    PROVE  /\ certs.leaf = Leaf(CA(proc), newKey(proc, "leaf"), certHosts)
           /\ certs.caPEM = {CA(proc)} /\ certs.withheld = {Intermediate(proc)}
           /\ certs.clientPEM = {ClientCertificate(proc)} /\ certs.clientCAs = {CA(proc)}
           /\ certs.badChains = newBadChains(CA(proc), Intermediate(proc), proc)
           /\ DOMAIN certs.badChains = BadNames
<1>1. certs = loadCertificates(FALSE, proc)
  BY RunningProcess
<1> QED
  BY <1>1, MintedCertificates

\* And of one that was.
LEMMA RunningSupplied ==
    ASSUME proc \in 1..MaxProcs, supplied = TRUE
    PROVE  /\ DOMAIN certs.badChains = {} /\ certs.clientCAs = {}
           /\ certs.selfMade = FALSE /\ certs.clientPEM = {}
<1>1. certs = loadCertificates(TRUE, proc)
  BY RunningProcess
<1> QED
  BY <1>1, SuppliedCertificates

\* The listeners, by name.
LEMMA RunningListeners ==
    ASSUME proc \in 1..MaxProcs, supplied \in BOOLEAN
    PROVE  /\ DOMAIN certs.badChains \in SUBSET BadNames
           /\ "none" \notin DOMAIN listeners
           /\ "mtls" \in DOMAIN listeners => supplied = FALSE
           /\ \A name \in DOMAIN listeners :
                 /\ listeners[name].server.certificate = IF name \in DOMAIN certs.badChains
                                                         THEN certs.badChains[name] ELSE certs.leaf
                 /\ name # "mtls" => listeners[name].server.clientAuth = "request"
                 /\ name = "mtls" => /\ listeners[name].server.clientAuth = "requireAndVerify"
                                     /\ listeners[name].server.clientCAs = certs.clientCAs
<1>1. DOMAIN certs.badChains \in SUBSET BadNames
  BY RunningMinted, RunningSupplied
<1>2. listeners = TlsListeners(certs)
  BY RunningProcess
<1>3. DOMAIN listeners = GoodNames \cup (IF certs.clientCAs = {} THEN {} ELSE {"mtls"})
                                  \cup DOMAIN certs.badChains
  BY <1>1, <1>2, Servers
<1>4. \A name \in DOMAIN listeners :
         /\ listeners[name].server.certificate = IF name \in DOMAIN certs.badChains
                                                 THEN certs.badChains[name] ELSE certs.leaf
         /\ name # "mtls" => listeners[name].server.clientAuth = "request"
         /\ name = "mtls" => /\ listeners[name].server.clientAuth = "requireAndVerify"
                             /\ listeners[name].server.clientCAs = certs.clientCAs
  BY <1>1, <1>2, Servers
<1>5. "none" \notin DOMAIN listeners
  BY <1>1, <1>3 DEF GoodNames, BadNames
<1>6. "mtls" \in DOMAIN listeners => supplied = FALSE
  BY <1>1, <1>3, RunningSupplied DEF GoodNames, BadNames
<1> QED
  BY <1>1, <1>4, <1>5, <1>6

\* There is a process, and its number fits what the client notes.
LEMMA ProcsBound ==
    MaxProcs \in Nat /\ 1 \in 1..MaxProcs /\ 0 \in 0..MaxProcs
<1>1. MaxProcs \in Nat \ {0}
  BY SessionAssumption
<1> QED
  BY <1>1

\* What a step leaves alone stays true.
LEMMA Kept ==
    ASSUME Inv, UNCHANGED <<proc, supplied, trust, identity, fetched>>,
           attempt' = attempt \/ attempt' = NoAttempt
    PROVE  Inv'
<1>1. KeptIsFetched'
  BY DEF Inv, KeptIsFetched
<1>2. CASE attempt' = NoAttempt
  BY <1>1, <1>2 DEF Inv, AttemptIsCurrent
<1>3. CASE attempt' = attempt
  <2>1. certs' = certs /\ listeners' = listeners
    BY DEF certs, listeners
  <2>2. AttemptIsCurrent'
    <3>1. CASE attempt = NoAttempt
      BY <1>3, <3>1 DEF AttemptIsCurrent
    <3>2. ASSUME NEW l, NEW o, NEW host, NEW clock, NEW completed
          PROVE  /\ OfferOf(o)' = OfferOf(o)
                 /\ Why(l, o, host, clock, completed)' = Why(l, o, host, clock, completed)
      BY <2>1 DEF Why, ChainWhy, OfferOf
    <3>3. CASE attempt # NoAttempt
      <4>1. PICK l \in DOMAIN listeners, o \in Offers, host \in Hosts, clock \in Clocks,
                 completed \in BOOLEAN :
              attempt = [listener |-> l, offer |-> OfferOf(o), host |-> host, clock |-> clock,
                         completed |-> completed, why |-> Why(l, o, host, clock, completed)]
        BY <3>3 DEF Inv, AttemptIsCurrent
      <4>2. attempt' = [listener |-> l, offer |-> OfferOf(o)', host |-> host, clock |-> clock,
                        completed |-> completed, why |-> Why(l, o, host, clock, completed)']
        BY <1>3, <3>2, <4>1
      <4> QED
        BY <2>1, <4>2 DEF AttemptIsCurrent
    <3> QED
      BY <3>1, <3>3
  <2> QED
    BY <1>1, <2>2 DEF Inv
<1> QED
  BY <1>2, <1>3

\* The client keeps what it fetched, notes whom it is from, and forgets its last attempt
\* before it fetches again or meets another process.
THEOREM Invariant == Spec => []Inv
<1>1. Init => Inv
  <2> SUFFICES ASSUME Init PROVE Inv
    OBVIOUS
  <2>1. /\ fetched \in [ca : 0..MaxProcs, identity : 0..MaxProcs]
        /\ fetched.ca = 0 /\ fetched.identity = 0
    BY ProcsBound DEF Init
  <2>2. trust = Fetched(fetched.ca) /\ identity = FetchedIdentity(fetched.identity)
    BY <2>1 DEF Init, Fetched, FetchedIdentity
  <2>3. proc \in 1..MaxProcs /\ supplied \in BOOLEAN /\ attempt = NoAttempt
    BY ProcsBound DEF Init
  <2> QED
    BY <2>1, <2>2, <2>3 DEF Inv, KeptIsFetched, AttemptIsCurrent
<1>2. Inv /\ [Next]_vars => Inv'
  <2> SUFFICES ASSUME Inv, [Next]_vars PROVE Inv'
    OBVIOUS
  <2>1. CASE FetchCA
    <3>1. /\ attempt = NoAttempt /\ attempt' = NoAttempt
          /\ fetched' = [fetched EXCEPT !.ca = proc]
          /\ UNCHANGED <<proc, supplied, identity>>
      BY <2>1 DEF FetchCA, Ready
    <3>2. certs.selfMade /\ trust' = certs.caPEM
      BY <2>1 DEF FetchCA, caPEM, PEM, Error, Respond
    <3>3. proc \in 1..MaxProcs /\ supplied \in BOOLEAN
      BY DEF Inv, KeptIsFetched
    <3>4. trust' = {CA(proc)}
      BY <3>2, <3>3, RunningMinted, RunningSupplied
    <3>5. fetched' \in [ca : 0..MaxProcs, identity : 0..MaxProcs]
      BY <3>1, <3>3, ProcsBound DEF Inv, KeptIsFetched
    <3>6. trust' = Fetched(fetched'.ca)
      BY <3>1, <3>3, <3>4, ProcsBound DEF Inv, KeptIsFetched, Fetched
    <3>7. identity' = FetchedIdentity(fetched'.identity)
      BY <3>1 DEF Inv, KeptIsFetched
    <3> QED
      BY <3>1, <3>3, <3>5, <3>6, <3>7 DEF Inv, KeptIsFetched, AttemptIsCurrent
  <2>2. CASE FetchIdentity
    <3>1. /\ attempt = NoAttempt /\ attempt' = NoAttempt
          /\ fetched' = [fetched EXCEPT !.identity = proc]
          /\ UNCHANGED <<proc, supplied, trust>>
      BY <2>2 DEF FetchIdentity, Ready
    <3>2. certs.clientPEM # {} /\ identity' = certs.clientPEM
      BY <2>2 DEF FetchIdentity, clientPEM, PEM, Error, Respond
    <3>3. proc \in 1..MaxProcs /\ supplied \in BOOLEAN
      BY DEF Inv, KeptIsFetched
    <3>4. identity' = {ClientCertificate(proc)}
      BY <3>2, <3>3, RunningMinted, RunningSupplied
    <3>5. fetched' \in [ca : 0..MaxProcs, identity : 0..MaxProcs]
      BY <3>1, <3>3, ProcsBound DEF Inv, KeptIsFetched
    <3>6. identity' = FetchedIdentity(fetched'.identity)
      BY <3>1, <3>3, <3>4, ProcsBound DEF Inv, KeptIsFetched, FetchedIdentity
    <3>7. trust' = Fetched(fetched'.ca)
      BY <3>1 DEF Inv, KeptIsFetched
    <3> QED
      BY <3>1, <3>3, <3>5, <3>6, <3>7 DEF Inv, KeptIsFetched, AttemptIsCurrent
  <2>3. CASE Restart
    BY <2>3, SessionAssumption DEF Restart, Inv, KeptIsFetched, AttemptIsCurrent
  <2>4. ASSUME NEW l \in DOMAIN listeners, NEW o \in Offers, NEW host \in Hosts, NEW clock \in Clocks,
               NEW completed \in BOOLEAN, ConnectTls(l, o, host, clock, completed)
        PROVE  Inv'
    <3>1. UNCHANGED <<proc, supplied, trust, identity, fetched>>
      BY <2>4 DEF ConnectTls
    <3>2. certs' = certs /\ listeners' = listeners
      BY <3>1 DEF certs, listeners
    <3>3. attempt' = [listener |-> l, offer |-> OfferOf(o), host |-> host, clock |-> clock,
                      completed |-> completed, why |-> Why(l, o, host, clock, completed)]
      BY <2>4 DEF ConnectTls, OfferOf, Why, ChainWhy
    <3>4. OfferOf(o)' = OfferOf(o) /\ Why(l, o, host, clock, completed)' = Why(l, o, host, clock, completed)
      BY <3>1, <3>2 DEF OfferOf, Why, ChainWhy
    <3>5. AttemptIsCurrent'
      BY <3>2, <3>3, <3>4 DEF AttemptIsCurrent
    <3> QED
      BY <3>1, <3>5 DEF Inv, KeptIsFetched
  <2>5. ASSUME NEW s \in Streams, Elapse(s) \/ Write(s) \/ Follow(s)
        PROVE  Inv'
    <3>1. UNCHANGED <<proc, supplied, trust, identity, fetched, attempt>>
      BY <2>5 DEF Elapse, Write, Follow, Update
    <3> QED
      BY <3>1, Kept
  <2>6. ASSUME NEW s \in Streams, Return(s) \/ Leave(s) \/ Finish(s)
        PROVE  Inv'
    <3>1. UNCHANGED <<proc, supplied, trust, identity, fetched, attempt>>
      BY <2>6 DEF Return, Leave, Finish
    <3> QED
      BY <3>1, Kept
  <2>7. ASSUME NEW s \in Streams, NEW r \in RequestsOn(s), Send(s, r)
        PROVE  Inv'
    <3>1. UNCHANGED <<proc, supplied, trust, identity, fetched>> /\ attempt' = NoAttempt
      BY <2>7 DEF Send
    <3> QED
      BY <3>1, Kept
  <2>8. CASE Hangup
    <3>1. UNCHANGED <<proc, supplied, trust, identity, fetched>> /\ attempt' = NoAttempt
      BY <2>8 DEF Hangup
    <3> QED
      BY <3>1, Kept
  <2>9. ASSUME NEW l \in {"http", "raw"}, NEW host \in Hosts, NEW proxied \in BOOLEAN,
               ConnectPlain(l, host, proxied)
        PROVE  Inv'
    <3>1. UNCHANGED <<proc, supplied, trust, identity, fetched, attempt>>
      BY <2>9 DEF ConnectPlain
    <3> QED
      BY <3>1, Kept
  <2>10. CASE UNCHANGED vars
    BY <2>10, Kept DEF vars
  <2> QED
    BY <2>1, <2>2, <2>3, <2>4, <2>5, <2>6, <2>7, <2>8, <2>9, <2>10 DEF Next
<1> QED
  BY <1>1, <1>2, PTL DEF Spec

-----------------------------------------------------------------------------
(* What the client's last attempt shows *)

\* A client objects to a chain, a server to an offer, and neither in the other's words.
LEMMA Reasons ==
    ASSUME NEW l, NEW o, NEW host, NEW clock, NEW completed
    PROVE  /\ Why(l, o, host, clock, completed) \cap ChainObjections
                = ChainWhy(l, host, clock, completed)
           /\ "client-certificate" \in Why(l, o, host, clock, completed) <=>
                 /\ listeners[l].server.clientAuth = "requireAndVerify"
                 /\ ~\E cert \in OfferOf(o).identity :
                        ClientCertificateOK(cert, listeners[l].server.clientCAs, clock.server)
<1>1. ChainWhy(l, host, clock, completed) \subseteq ChainObjections
  BY DEF ChainWhy, Objections, ChainObjections
<1>2. ServerRefuses(listeners[l].server, OfferOf(o), clock.server) \cap ChainObjections = {}
  BY DEF ServerRefuses, ChainObjections
<1>3. "client-certificate" \in ServerRefuses(listeners[l].server, OfferOf(o), clock.server) <=>
         /\ listeners[l].server.clientAuth = "requireAndVerify"
         /\ ~\E cert \in OfferOf(o).identity :
                ClientCertificateOK(cert, listeners[l].server.clientCAs, clock.server)
  BY DEF ServerRefuses
<1>4. "client-certificate" \notin ChainObjections
  BY DEF ChainObjections
<1> QED
  BY <1>1, <1>2, <1>3, <1>4 DEF Why

\* What the client objects to, of the process that is running.
LEMMA ChainReasons ==
    ASSUME Inv, supplied = FALSE, NEW l \in DOMAIN listeners, NEW host, NEW clock, NEW completed \in BOOLEAN
    PROVE  ChainWhy(l, host, clock, completed) =
              Objections(IF l \in BadNames THEN newBadChains(CA(proc), Intermediate(proc), proc)[l]
                         ELSE Leaf(CA(proc), newKey(proc, "leaf"), certHosts),
                         Anchors(fetched.ca), Intermediates(proc, completed), host, clock.client)
<1>1. proc \in 1..MaxProcs /\ supplied \in BOOLEAN /\ trust = Fetched(fetched.ca)
  BY DEF Inv, KeptIsFetched
<1>2. trust \cup {PublicRoot} = Anchors(fetched.ca)
  BY <1>1 DEF Anchors, Fetched
<1>3. (IF completed THEN certs.withheld ELSE {}) = Intermediates(proc, completed)
  BY <1>1, RunningMinted DEF Intermediates
<1>4. listeners[l].server.certificate =
         IF l \in BadNames THEN newBadChains(CA(proc), Intermediate(proc), proc)[l]
         ELSE Leaf(CA(proc), newKey(proc, "leaf"), certHosts)
  BY <1>1, RunningMinted, RunningListeners
<1> QED
  BY <1>2, <1>3, <1>4 DEF ChainWhy

\* The clocks are numbers of hours, the server's not before its start.
LEMMA ClockHours ==
    ASSUME NEW clock \in Clocks
    PROVE  clock.server \in Nat /\ clock.client \in Int
<1>1. \A c \in Clocks : c.server \in Nat /\ c.client \in Int
  BY ClocksAssumption
<1> QED
  BY <1>1

\* A stack that presents an identity presents the one the client has.
LEMMA Presented ==
    ASSUME NEW o \in Offers
    PROVE  /\ OfferOf(o).presents = o.presents /\ o.presents \in BOOLEAN
           /\ OfferOf(o).identity = IF o.presents THEN identity ELSE {}
<1>1. o \in OfferType
  BY OffersAssumption
<1> QED
  BY <1>1 DEF OfferOf, OfferType

\* A good listener's leaf is accepted as tls.go says.
LEMMA LeafIsThisProcess ==
    ASSUME Inv, supplied = FALSE, NEW l \in DOMAIN listeners \ DOMAIN certs.badChains,
           NEW host, NEW clock \in Clocks, NEW completed \in BOOLEAN
    PROVE  ChainWhy(l, host, clock, completed) = {} <=>
              fetched.ca = proc /\ host \in Range(certHosts) /\ clock.client \in -1..Year
<1>1. proc \in 1..MaxProcs /\ proc # 0
  BY ProcsBound DEF Inv, KeptIsFetched
<1>2. l \notin BadNames
  BY <1>1, RunningMinted
<1>3. ChainWhy(l, host, clock, completed) =
         Objections(Leaf(CA(proc), newKey(proc, "leaf"), certHosts),
                    Anchors(fetched.ca), Intermediates(proc, completed), host, clock.client)
  <2>1. ChainWhy(l, host, clock, completed) =
           Objections(IF l \in BadNames THEN newBadChains(CA(proc), Intermediate(proc), proc)[l]
                      ELSE Leaf(CA(proc), newKey(proc, "leaf"), certHosts),
                      Anchors(fetched.ca), Intermediates(proc, completed), host, clock.client)
    BY ChainReasons, ZenonT(60)
  <2> QED
    BY <1>2, <2>1
<1>4. clock.client \in Int
  BY ClockHours
<1>5. Minted(clock.client) <=> clock.client \in -1..Year
  <2>1. Year \in Int
    BY DEF Year, Day
  <2> QED
    BY <1>4, <2>1 DEF Minted
<1> QED
  BY <1>1, <1>3, <1>4, <1>5, LeafAccepted

\* mtls and no other listener asks who the client is, and knows its own.
LEMMA IdentityIsThisProcess ==
    ASSUME Inv, NEW l \in DOMAIN listeners, NEW o \in Offers, NEW host, NEW clock \in Clocks,
           NEW completed \in BOOLEAN
    PROVE  "client-certificate" \notin Why(l, o, host, clock, completed) <=>
              l = "mtls" => /\ OfferOf(o).presents /\ fetched.identity = proc
                            /\ clock.server <= Year
<1>1. proc \in 1..MaxProcs /\ proc \in Nat \ {0} /\ supplied \in BOOLEAN
  BY ProcsBound DEF Inv, KeptIsFetched
<1>2. "client-certificate" \in Why(l, o, host, clock, completed) <=>
         /\ listeners[l].server.clientAuth = "requireAndVerify"
         /\ ~\E cert \in OfferOf(o).identity :
                ClientCertificateOK(cert, listeners[l].server.clientCAs, clock.server)
  BY Reasons
<1>3. CASE l # "mtls"
  <2>1. listeners[l].server.clientAuth = "request"
    BY <1>1, <1>3, RunningListeners
  <2> QED
    BY <1>2, <1>3, <2>1
<1>4. CASE l = "mtls"
  <2>1. supplied = FALSE
    BY <1>1, <1>4, RunningListeners
  <2>2. certs.clientCAs = {CA(proc)}
    BY <1>1, <2>1, RunningMinted
  <2>3. listeners[l].server.clientAuth = "requireAndVerify" /\ listeners[l].server.clientCAs = {CA(proc)}
    BY <1>1, <1>4, <2>2, RunningListeners
  <2>4. /\ OfferOf(o).presents = o.presents /\ o.presents \in BOOLEAN
        /\ OfferOf(o).identity = IF o.presents THEN identity ELSE {}
    BY Presented
  <2>5. /\ fetched.identity \in Nat
        /\ identity = IF fetched.identity = 0 THEN {} ELSE {ClientCertificate(fetched.identity)}
    BY ProcsBound DEF Inv, KeptIsFetched, FetchedIdentity
  <2>6. clock.server \in Nat
    BY ClockHours
  <2>7. fetched.identity # 0 =>
           (ClientCertificateOK(ClientCertificate(fetched.identity), {CA(proc)}, clock.server)
               <=> fetched.identity = proc /\ clock.server <= Year)
    BY <1>1, <2>5, <2>6, IdentityAccepted
  <2> HIDE DEF Year
  <2>8. (\E cert \in OfferOf(o).identity : ClientCertificateOK(cert, {CA(proc)}, clock.server))
           <=> OfferOf(o).presents /\ fetched.identity = proc /\ clock.server <= Year
    BY <1>1, <2>4, <2>5, <2>7
  <2> QED
    BY <1>2, <1>4, <2>3, <2>8
<1> QED
  BY <1>3, <1>4

\* Whatever the client fetched from earlier processes, in whatever order, it is served by this
\* one exactly when it holds what this one minted: the leaf that every listener but the bad
\* chains presents is accepted with its CA, under its names, within its year, and mtls takes
\* the identities it signed and no others (tls.go:23-27, 276-281).
THEOREM TrustIsThisProcessHolds == Spec => []TrustIsThisProcess
<1>1. Inv => TrustIsThisProcess
  <2> SUFFICES ASSUME Inv PROVE TrustIsThisProcess
    OBVIOUS
  <2>1. proc \in 1..MaxProcs /\ supplied \in BOOLEAN
    BY DEF Inv, KeptIsFetched
  <2>2. "none" \notin DOMAIN listeners
    BY <2>1, RunningListeners
  <2>3. CASE attempt = NoAttempt
    BY <2>2, <2>3 DEF NoAttempt, TrustIsThisProcess
  <2>4. CASE attempt # NoAttempt
    <3>1. PICK l \in DOMAIN listeners, o \in Offers, host \in Hosts, clock \in Clocks, completed \in BOOLEAN :
            attempt = [listener |-> l, offer |-> OfferOf(o), host |-> host, clock |-> clock,
                       completed |-> completed, why |-> Why(l, o, host, clock, completed)]
      BY <2>4 DEF Inv, AttemptIsCurrent
    <3>2. /\ attempt.listener = l /\ attempt.offer = OfferOf(o) /\ attempt.host = host
          /\ attempt.clock = clock /\ attempt.why = Why(l, o, host, clock, completed)
      BY <3>1
    <3>3. attempt.why \cap ChainObjections = ChainWhy(l, host, clock, completed)
      BY <3>2, Reasons
    <3>4. l \in DOMAIN listeners \ DOMAIN certs.badChains /\ supplied = FALSE =>
             (ChainWhy(l, host, clock, completed) = {} <=>
                 fetched.ca = proc /\ host \in Range(certHosts) /\ clock.client \in -1..Year)
      BY LeafIsThisProcess
    <3>5. "client-certificate" \notin Why(l, o, host, clock, completed) <=>
              l = "mtls" => /\ OfferOf(o).presents /\ fetched.identity = proc
                            /\ clock.server <= Year
      BY IdentityIsThisProcess
    <3>6. attempt.listener \in DOMAIN listeners \ DOMAIN certs.badChains /\ ~supplied =>
             (attempt.why \cap ChainObjections = {}
                 <=> /\ fetched.ca = proc
                     /\ attempt.host \in Range(certHosts)
                     /\ attempt.clock.client \in -1..Year)
      BY <2>1, <3>2, <3>3, <3>4
    <3>7. "client-certificate" \notin attempt.why
             <=> attempt.listener = "mtls" =>
                     attempt.offer.presents /\ fetched.identity = proc /\ attempt.clock.server <= Year
      BY <3>2, <3>5
    <3> QED
      BY <3>6, <3>7 DEF TrustIsThisProcess
  <2> QED
    BY <2>3, <2>4
<1> QED
  BY <1>1, Invariant, PTL

\* A client that would accept the good leaf refuses each bad chain, for the one reason that
\* chain stands for, whatever the client's clock, name and fetches, and however often the
\* server has been restarted (badchains.go:21-24).
THEOREM ChainsAreHonestHolds == Spec => []ChainsAreHonest
<1>1. Inv => ChainsAreHonest
  <2> SUFFICES ASSUME Inv PROVE ChainsAreHonest
    OBVIOUS
  <2>1. proc \in 1..MaxProcs /\ proc # 0 /\ supplied \in BOOLEAN
    BY ProcsBound DEF Inv, KeptIsFetched
  <2>2. "none" \notin DOMAIN certs.badChains
    BY <2>1, RunningListeners DEF BadNames
  <2>3. CASE attempt.listener \notin DOMAIN certs.badChains
    BY <2>3 DEF ChainsAreHonest
  <2>4. CASE attempt.listener \in DOMAIN certs.badChains
    <3>1. attempt # NoAttempt
      BY <2>2, <2>4 DEF NoAttempt
    <3>2. PICK l \in DOMAIN listeners, o \in Offers, host \in Hosts, clock \in Clocks, completed \in BOOLEAN :
            attempt = [listener |-> l, offer |-> OfferOf(o), host |-> host, clock |-> clock,
                       completed |-> completed, why |-> Why(l, o, host, clock, completed)]
      BY <3>1 DEF Inv, AttemptIsCurrent
    <3>3. /\ attempt.listener = l /\ attempt.host = host /\ attempt.completed = completed
          /\ attempt.clock = clock /\ attempt.why = Why(l, o, host, clock, completed)
      BY <3>2
    <3>4. supplied = FALSE /\ l \in BadNames
      BY <2>1, <2>4, <3>3, RunningMinted, RunningSupplied
    <3>5. attempt.why \cap ChainObjections = ChainWhy(l, host, clock, completed)
      BY <3>3, Reasons
    <3>6. ChainWhy(l, host, clock, completed) =
             Objections(newBadChains(CA(proc), Intermediate(proc), proc)[l],
                        Anchors(fetched.ca), Intermediates(proc, completed), host, clock.client)
      BY <3>4, ChainReasons
    <3>7. clock.client \in Int
      BY ClockHours
    <3>8. ObjectionsToLeaf = {} => fetched.ca = proc /\ host \in Range(certHosts) /\ Minted(clock.client)
      <4>1. certs.leaf = Leaf(CA(proc), newKey(proc, "leaf"), certHosts)
        BY <2>1, <3>4, RunningMinted
      <4>2. trust \cup {PublicRoot} = Anchors(fetched.ca)
        BY DEF Inv, KeptIsFetched, Anchors, Fetched
      <4>3. Intermediates(proc, FALSE) = {}
        BY DEF Intermediates
      <4>4. ObjectionsToLeaf = Objections(Leaf(CA(proc), newKey(proc, "leaf"), certHosts),
                                          Anchors(fetched.ca), Intermediates(proc, FALSE), host, clock.client)
        BY <3>3, <4>1, <4>2, <4>3 DEF ObjectionsToLeaf
      <4> QED
        <5>1. Objections(Leaf(CA(proc), newKey(proc, "leaf"), certHosts), Anchors(fetched.ca),
                         Intermediates(proc, FALSE), host, clock.client) = {}
                 <=> fetched.ca = proc /\ host \in Range(certHosts) /\ Minted(clock.client)
          BY <2>1, <3>7, LeafAccepted, ZenonT(60)
        <5> QED
          BY <4>4, <5>1
    <3>9. ObjectionsToLeaf = {} => ChainWhy(l, host, clock, completed) = OwnReason(l, completed)
      <4>1. ASSUME host \in Range(certHosts), Minted(clock.client)
            PROVE  Objections(newBadChains(CA(proc), Intermediate(proc), proc)[l], Anchors(proc),
                              Intermediates(proc, completed), host, clock.client)
                      = OwnReason(l, completed)
        BY <2>1, <3>4, <3>7, <4>1, BadChainsRefused
      <4> QED
        BY <3>6, <3>8, <4>1
    <3>10. ObjectionsToLeaf = {} =>
              attempt.why \cap ChainObjections =
                CASE attempt.listener \in {"expired", "wrong-host"} -> {attempt.listener}
                  [] attempt.listener = "incomplete-chain" /\ attempt.completed -> {}
                  [] OTHER -> {"no-path"}
      BY <3>3, <3>5, <3>9 DEF OwnReason
    <3> HIDE DEF ObjectionsToLeaf
    <3>11. attempt.why \cap ChainObjections = {} =>
              \/ attempt.listener = "incomplete-chain" /\ attempt.completed
              \/ ObjectionsToLeaf # {}
      BY <3>10
    <3> QED
      BY <3>10, <3>11 DEF ChainsAreHonest
  <2> QED
    BY <2>3, <2>4
<1> QED
  BY <1>1, Invariant, PTL

-----------------------------------------------------------------------------
(* What the handlers answer *)

\* The writes and pauses a response consists of.
OpKinds == {"head", "data", "last", "pause", "part", "continue", "bad", "shut"}
OpType == [t : OpKinds, n : Nat, status : Int, lengths : SUBSET Int, chunked : BOOLEAN]

\* A header that names no strange numbers, and hands out a sequence of cookies.
IsHeader(h) ==
    /\ \A u \in h.location : u.arg \in Number
    /\ h.setCookies \in Seq(Range(h.setCookies)) /\ h.challenge \in BOOLEAN

\* No step of ops waits.
PauseFree(ops) == \A i \in DOMAIN ops : ops[i].t # "pause"

\* What the handlers and net/http put into a response is one of those steps.
LEMMA OpTyped ==
    /\ \A code \in Int, lengths \in SUBSET Int, chunked \in BOOLEAN :
          StatusLine(code, lengths, chunked) \in OpType /\ StatusLine(code, lengths, chunked).t = "head"
    /\ \A n \in Nat : Data(n) \in OpType /\ Data(n).t = "data"
    /\ \A t \in OpKinds : Do(t) \in OpType /\ Do(t).t = t
    /\ \A ms \in Int : Pause(ms) \in OpType /\ Pause(ms).t = "pause" /\ Pause(ms).n = IF ms > 0 THEN ms ELSE 0
<1>1. ASSUME NEW code \in Int, NEW lengths \in SUBSET Int, NEW chunked \in BOOLEAN
      PROVE  StatusLine(code, lengths, chunked) \in OpType /\ StatusLine(code, lengths, chunked).t = "head"
  BY DEF OpType, OpKinds, Op, StatusLine
<1>2. ASSUME NEW n \in Nat PROVE Data(n) \in OpType /\ Data(n).t = "data"
  BY DEF OpType, OpKinds, Op, Data
<1>3. ASSUME NEW t \in OpKinds PROVE Do(t) \in OpType /\ Do(t).t = t
  BY DEF OpType, OpKinds, Op, Do
<1>4. ASSUME NEW ms \in Int
      PROVE  Pause(ms) \in OpType /\ Pause(ms).t = "pause" /\ Pause(ms).n = IF ms > 0 THEN ms ELSE 0
  BY DEF OpType, OpKinds, Op, Pause
<1> QED
  BY <1>1, <1>2, <1>3, <1>4

\* A sequence of one step.
LEMMA SeqOne == ASSUME NEW S, NEW x \in S PROVE <<x>> \in Seq(S) /\ Len(<<x>>) = 1 /\ <<x>>[1] = x
  OBVIOUS

\* A sequence of no steps.
LEMMA SeqNone == ASSUME NEW S PROVE << >> \in Seq(S) /\ Len(<< >>) = 0 /\ DOMAIN << >> = {}
  OBVIOUS

\* The steps of two sequences one after the other are the steps of each.
LEMMA Joined ==
    ASSUME NEW S, NEW a \in Seq(S), NEW b \in Seq(S)
    PROVE  /\ a \o b \in Seq(S) /\ Len(a \o b) = Len(a) + Len(b)
           /\ DOMAIN (a \o b) = 1..(Len(a) + Len(b))
           /\ \A i \in 1..Len(a) : (a \o b)[i] = a[i]
           /\ \A i \in 1..(Len(a) + Len(b)) : i > Len(a) => i - Len(a) \in 1..Len(b) /\ (a \o b)[i] = b[i - Len(a)]
<1>1. /\ a \o b \in Seq(S) /\ Len(a \o b) = Len(a) + Len(b)
      /\ \A i \in 1..(Len(a) + Len(b)) : (a \o b)[i] = IF i <= Len(a) THEN a[i] ELSE b[i - Len(a)]
  BY ConcatProperties
<1>2. Len(a) \in Nat /\ Len(b) \in Nat /\ DOMAIN (a \o b) = 1..Len(a \o b)
  BY <1>1, LenProperties
<1>3. ASSUME NEW i \in 1..Len(a) PROVE (a \o b)[i] = a[i]
  <2>1. i \in 1..(Len(a) + Len(b)) /\ i <= Len(a)
    BY <1>2
  <2> QED
    BY <1>1, <2>1
<1>4. ASSUME NEW i \in 1..(Len(a) + Len(b)), i > Len(a) PROVE i - Len(a) \in 1..Len(b) /\ (a \o b)[i] = b[i - Len(a)]
  <2>1. ~(i <= Len(a)) /\ i - Len(a) \in 1..Len(b)
    BY <1>2, <1>4
  <2> QED
    BY <1>1, <2>1
<1> QED
  BY <1>1, <1>2, <1>3, <1>4

\* If neither waits, the two one after the other do not.
LEMMA PauseFreeJoined ==
    /\ \A a, b \in Seq(OpType) : PauseFree(a) /\ PauseFree(b) => a \o b \in Seq(OpType) /\ PauseFree(a \o b)
    /\ PauseFree(<< >>)
<1>1. ASSUME NEW a \in Seq(OpType), NEW b \in Seq(OpType), PauseFree(a), PauseFree(b)
      PROVE  a \o b \in Seq(OpType) /\ PauseFree(a \o b)
  <2>1. /\ a \o b \in Seq(OpType) /\ DOMAIN (a \o b) = 1..(Len(a) + Len(b))
        /\ \A i \in 1..Len(a) : (a \o b)[i] = a[i]
        /\ \A i \in 1..(Len(a) + Len(b)) : i > Len(a) => i - Len(a) \in 1..Len(b) /\ (a \o b)[i] = b[i - Len(a)]
    BY Joined
  <2>2. Len(a) \in Nat /\ Len(b) \in Nat /\ DOMAIN a = 1..Len(a) /\ DOMAIN b = 1..Len(b)
    BY LenProperties
  <2>3. ASSUME NEW i \in 1..(Len(a) + Len(b)) PROVE (a \o b)[i].t # "pause"
    <3>1. CASE i <= Len(a)
      <4>1. i \in 1..Len(a)
        BY <2>2, <3>1
      <4> QED
        BY <1>1, <2>1, <2>2, <4>1 DEF PauseFree
    <3>2. CASE i > Len(a)
      BY <1>1, <2>1, <2>2, <3>2 DEF PauseFree
    <3> QED
      BY <2>2, <3>1, <3>2
  <2> QED
    BY <2>1, <2>3 DEF PauseFree
<1>2. PauseFree(<< >>)
  BY SeqNone DEF PauseFree
<1> QED
  BY <1>1, <1>2

\* net/http frames a body that a handler wrote without waiting.
LEMMA Framed ==
    ASSUME NEW method, NEW code \in Int, NEW length \in SUBSET Int, NEW sizes \in Seq(Nat), NEW flushed,
           NEW ops, ops = Frame(method, code, length, sizes, flushed)
    PROVE  ops \in Seq(OpType) /\ PauseFree(ops)
<1> DEFINE known == IF length # {} \/ flushed THEN length ELSE {IF sizes = << >> THEN 0 ELSE sizes[1]}
           line == <<StatusLine(code, known, known = {})>>
           data == [i \in DOMAIN sizes |-> Data(sizes[i])]
           last == IF known = {} THEN <<Do("last")>> ELSE << >>
           body == IF ~BodyAllowed(method, code) THEN << >> ELSE data \o last
<1>1. ops = line \o body
  BY DEF Frame
<1>2. known \in SUBSET Int
  <2>1. sizes # << >> => sizes[1] \in Nat
    BY EmptySeq, ElementOfSeq, LenProperties
  <2> QED
    BY <2>1
<1> HIDE DEF known
<1>3. line \in Seq(OpType) /\ PauseFree(line)
  <2>1. StatusLine(code, known, known = {}) \in OpType /\ StatusLine(code, known, known = {}).t = "head"
    BY <1>2, OpTyped
  <2>2. line \in Seq(OpType) /\ Len(line) = 1 /\ line[1].t = "head" /\ DOMAIN line = 1..1
    BY <2>1, SeqOne
  <2> QED
    BY <2>2 DEF PauseFree
<1>4. data \in Seq(OpType) /\ PauseFree(data)
  <2>1. Len(sizes) \in Nat /\ DOMAIN sizes = 1..Len(sizes) /\ \A i \in 1..Len(sizes) : sizes[i] \in Nat
    BY LenProperties, ElementOfSeq
  <2>2. data \in [1..Len(sizes) -> OpType] /\ \A i \in DOMAIN data : data[i].t = "data"
    BY <2>1, OpTyped
  <2>3. data \in Seq(OpType)
    BY <2>1, <2>2, SeqDef
  <2> QED
    BY <2>2, <2>3 DEF PauseFree
<1>5. last \in Seq(OpType) /\ PauseFree(last)
  <2>1. Do("last") \in OpType /\ Do("last").t = "last"
    <3>1. "last" \in OpKinds
      BY DEF OpKinds
    <3> QED
      BY <3>1, OpTyped
  <2>2. <<Do("last")>> \in Seq(OpType) /\ PauseFree(<<Do("last")>>)
    BY <2>1, SeqOne DEF PauseFree
  <2>3. << >> \in Seq(OpType) /\ PauseFree(<< >>)
    BY SeqNone DEF PauseFree
  <2> QED
    BY <2>2, <2>3
<1> HIDE DEF line, data, last
<1>6. body \in Seq(OpType) /\ PauseFree(body)
  BY <1>4, <1>5, PauseFreeJoined, SeqNone
<1> HIDE DEF body
<1> QED
  BY <1>1, <1>3, <1>6, PauseFreeJoined

\* A plan that does not wait and leaves the connection to net/http.
Good(p) ==
    /\ p.ops \in Seq(OpType) /\ PauseFree(p.ops) /\ IsHeader(p.header)
    /\ p.status \in Int /\ p.end = "keep"

\* The headers the handlers of handlers.go set.
LEMMA Headers ==
    /\ IsHeader(NoHeader)
    /\ \A challenge \in BOOLEAN : IsHeader([NoHeader EXCEPT !.challenge = challenge])
    /\ \A urls : (\A u \in urls : u.arg \in Number) => IsHeader([NoHeader EXCEPT !.location = urls])
    /\ \A x : IsHeader([NoHeader EXCEPT !.encoding = x])
    /\ \A x : IsHeader([NoHeader EXCEPT !.trailers = x])
    /\ \A x : IsHeader([NoHeader EXCEPT !.maxAge = x])
    /\ \A x, y : IsHeader([NoHeader EXCEPT !.etag = x, !.lastModified = y])
    /\ \A pairs, url : pairs \in Seq(Range(pairs)) /\ url.arg \in Number =>
          IsHeader([NoHeader EXCEPT !.setCookies = pairs, !.location = {url}])
<1>1. << >> \in Seq(Range(<< >>))
  OBVIOUS
<1>2. /\ NoHeader.location = {} /\ NoHeader.setCookies = << >> /\ NoHeader.challenge = FALSE
      /\ DOMAIN NoHeader = {"location", "setCookies", "etag", "lastModified", "challenge", "maxAge",
                            "trailers", "encoding"}
  BY DEF NoHeader
<1> QED
  BY <1>1, <1>2 DEF IsHeader

\* An answer through net/http is such a plan, whatever its status and body.
LEMMA Responded ==
    ASSUME NEW r, NEW code \in Int, NEW header, IsHeader(header), NEW payload, NEW length \in SUBSET Int,
           NEW sizes \in Seq(Nat), NEW flushed, NEW p, p = Respond(r, code, header, payload, length, sizes, flushed)
    PROVE  Good(p)
<1>1. /\ p.ops = Frame(r.method, code, length, sizes, flushed) /\ p.header = header /\ p.status = code
      /\ p.end = "keep"
  BY DEF Respond
<1>2. p.ops \in Seq(OpType) /\ PauseFree(p.ops)
  BY <1>1, Framed
<1> QED
  BY <1>1, <1>2 DEF Good

\* The Content-Length of a response, if any, and the sizes of its writes.
Lengths == SUBSET Int
Writes == Seq(Nat)

\* One that is not flushed on the way.
Whole(r, code, header, payload, length, sizes) == Respond(r, code, header, payload, length, sizes, FALSE)

\* In particular that one.
LEMMA WholeGood ==
    ASSUME NEW r, NEW code \in Int, NEW header, IsHeader(header), NEW payload, NEW length \in Lengths,
           NEW sizes \in Writes
    PROVE  Good(Whole(r, code, header, payload, length, sizes))
<1> DEFINE flushed == FALSE
           p == Respond(r, code, header, payload, length, sizes, flushed)
<1>1. p = Respond(r, code, header, payload, length, sizes, flushed)
  OBVIOUS
<1> HIDE DEF flushed, p
<1>2. length \in SUBSET Int /\ sizes \in Seq(Nat)
  BY DEF Lengths, Writes
<1>3. Good(p)
  BY <1>1, <1>2, Responded
<1> QED
  BY <1>3 DEF p, flushed, Whole

\* The sizes of the bodies that are one byte here.
LEMMA Sizes == << >> \in Writes /\ <<1>> \in Writes /\ {1} \in Lengths /\ {} \in Lengths
  BY DEF Writes, Lengths

\* So are the answers of writeJSON, http.Error and the other shared ones.
LEMMA Answers ==
    ASSUME NEW r
    PROVE  /\ \A code \in Int : Good(Error(r, code))
           /\ Good(Text(r))
           /\ \A code \in Int : \A header, payload : IsHeader(header) => Good(writeJSON(r, code, header, payload))
           /\ \A pem : Good(PEM(r, pem))
           /\ \A header : IsHeader(header) => Good(Found(r, header))
<1>1. \A code \in Int : Good(Error(r, code))
  <2>1. \A code : Error(r, code) = Whole(r, code, NoHeader, << >>, {}, <<1>>)
    BY DEF Error, Whole
  <2> QED
    BY <2>1, Sizes, Headers, WholeGood
<1>2. Good(Text(r))
  <2>1. IsHeader(NoHeader)
    BY Headers
  <2>2. 200 \in Int /\ Text(r) = Whole(r, 200, NoHeader, << >>, {}, <<1>>)
    BY DEF Text, Whole
  <2> QED
    BY <2>1, <2>2, Sizes, WholeGood
<1>3. \A code \in Int : \A header, payload : IsHeader(header) => Good(writeJSON(r, code, header, payload))
  <2>1. \A code, header, payload : writeJSON(r, code, header, payload) = Whole(r, code, header, payload, {1}, <<1>>)
    BY DEF writeJSON, Whole
  <2> QED
    BY <2>1, Sizes, WholeGood
<1>4. ASSUME NEW pem PROVE Good(PEM(r, pem))
  <2>1. IsHeader(NoHeader)
    BY Headers
  <2>2. 200 \in Int /\ PEM(r, pem) = Whole(r, 200, NoHeader, pem, {}, <<1>>)
    BY DEF PEM, Whole
  <2> QED
    BY <2>1, <2>2, Sizes, WholeGood
<1>5. ASSUME NEW header, IsHeader(header) PROVE Good(Found(r, header))
  <2>1. 302 \in Int /\ Found(r, header) = Whole(r, 302, header, << >>, {}, << >>)
    BY DEF Found, Whole
  <2> QED
    BY <1>5, <2>1, Sizes, WholeGood
<1> QED
  BY <1>1, <1>2, <1>3, <1>4, <1>5

\* The numbers that a range check lets through are integers of that range.
LEMMA Numbers ==
    /\ \A x \in Number, low \in Int, high \in Int :
          ~Outside(x, low, high) => x.v \in Int /\ low <= x.v /\ x.v <= high
    /\ \A n \in Int : Num(n) \in Number /\ Num(n).v = n
    /\ Garbage \in Number /\ NaN \in Number
    /\ \A x \in Number : x.v \in Int /\ x.ok \in BOOLEAN /\ x.nan \in BOOLEAN
  BY DEF Number, Outside, Num, Garbage, NaN

\* A Go value that may be absent, or its default, has the value's type.
LEMMA OrTyped == ASSUME NEW S, NEW x \in SUBSET S, NEW y \in S PROVE Or(x, y) \in S
  BY DEF Or

\* queryInt (handlers.go:515-525): the parameter is in its range, or the fallback is
\* taken.
LEMMA QueryInt ==
    ASSUME NEW values \in SUBSET Number, NEW low \in Int, NEW high \in Int, NEW fallback \in Int,
           low <= fallback, fallback <= high
    PROVE  /\ queryInt(values, fallback, low, high) \in Int
           /\ low <= queryInt(values, fallback, low, high) /\ queryInt(values, fallback, low, high) <= high
<1>1. Or(values, Garbage) \in Number
  BY Numbers, OrTyped
<1>2. ~Outside(Or(values, Garbage), low, high) =>
         /\ Or(values, Garbage).v \in Int
         /\ low <= Or(values, Garbage).v /\ Or(values, Garbage).v <= high
  BY <1>1, Numbers
<1> QED
  BY <1>2 DEF queryInt

\* queryDuration (handlers.go:527-537): never more than a minute, though NaN compares
\* less than everything.
LEMMA QueryDuration ==
    ASSUME NEW values \in SUBSET Number, NEW fallback \in Nat, fallback <= 60000
    PROVE  /\ queryDuration(values, fallback) \in Int
           /\ 0 <= queryDuration(values, fallback) + 1 /\ queryDuration(values, fallback) <= 60000
<1> DEFINE x == Or(values, Garbage)
<1>1. x \in Number
  BY Numbers, OrTyped
<1>2. x.v \in Int /\ x.ok \in BOOLEAN /\ x.nan \in BOOLEAN
  BY <1>1, Numbers
<1>3. queryDuration(values, fallback) = IF OutsideMinute(x) THEN fallback ELSE Duration(x)
  BY DEF queryDuration
<1> HIDE DEF x
<1> DEFINE out == ~x.ok \/ (~x.nan /\ (x.v < 0 \/ x.v > 60000))
<1>4. queryDuration(values, fallback) = IF out THEN fallback ELSE IF x.nan THEN -1 ELSE x.v
  BY <1>3 DEF OutsideMinute, Duration
<1>5. CASE out
  BY <1>4, <1>5
<1>6. CASE ~out
  BY <1>2, <1>4, <1>6
<1> QED
  BY <1>5, <1>6

\* A parameter that was not given has no value, and one that was is a number.
LEMMA QueryTyped ==
    ASSUME NEW r, IsRequest(r), NEW key \in QueryKeys PROVE r.query[key] \in SUBSET Number
  BY DEF IsRequest

\* The status codes of the handlers are integers.
LEMMA Codes ==
    /\ 200 \in Int /\ 302 \in Int /\ 304 \in Int /\ 400 \in Int /\ 401 \in Int /\ 404 \in Int /\ 405 \in Int
    /\ 501 \in Int
  OBVIOUS

\* Answers that set no header do not wait.
LEMMA Plain ==
    ASSUME NEW r
    PROVE  /\ \A payload : Good(writeJSON(r, 200, NoHeader, payload))
           /\ Good(Error(r, 400)) /\ Good(Error(r, 404)) /\ Good(Error(r, 405)) /\ Good(Error(r, 501))
<1>1. IsHeader(NoHeader)
  BY Headers
<1>2. \A code \in Int : \A header, payload : IsHeader(header) => Good(writeJSON(r, code, header, payload))
  BY Answers
<1>3. \A code \in Int : Good(Error(r, code))
  BY Answers
<1>4. \A payload : Good(writeJSON(r, 200, NoHeader, payload))
  BY <1>1, <1>2, Codes
<1>5. Good(Error(r, 400)) /\ Good(Error(r, 404)) /\ Good(Error(r, 405)) /\ Good(Error(r, 501))
  BY <1>3, Codes
<1> QED
  BY <1>4, <1>5

\* The parameters the handlers ask for.
LEMMA Keyed == {"status", "bytes", "duration", "delay", "after", "promised", "sent", "size", "count"} \subseteq QueryKeys
  BY DEF QueryKeys

\* /anything answers at once.
LEMMA AnythingGood == ASSUME NEW r, NEW c, NEW k PROVE Good(anything(r, c, k))
  BY Plain DEF anything

\* /status answers at once, with any code it is asked for.
LEMMA StatusGood == ASSUME NEW r, IsRequest(r), NEW c PROVE Good(status(r, c))
<1> DEFINE code == r.arg.v
           sizes == IF code \notin {204, 304} /\ r.method # "HEAD" THEN <<1>> ELSE << >>
           header == [NoHeader EXCEPT !.location = r.target]
           response == Respond(r, Final(code, c), header, << >>, {}, sizes, FALSE)
<1>1. CASE Outside(r.arg, 100, 599)
  BY <1>1, Answers DEF status
<1>2. CASE ~Outside(r.arg, 100, 599)
  <2>1. code \in Int /\ Final(code, c) \in Int
    <3>1. code \in Int
      BY Numbers DEF IsRequest
    <3> QED
      BY <3>1 DEF Final
  <2>2. IsHeader(header)
    BY Headers DEF IsRequest
  <2>3. sizes \in Writes
    BY Sizes
  <2>4. Good(response)
    <3>1. response = Whole(r, Final(code, c), header, << >>, {}, sizes)
      BY DEF Whole
    <3> HIDE DEF sizes, header, code, response
    <3> QED
      BY <2>1, <2>2, <2>3, <3>1, Sizes, WholeGood
  <2>5. CASE Final(code, c) = code
    BY <1>2, <2>4, <2>5 DEF status
  <2>6. CASE Final(code, c) # code
    <3>1. status(r, c) = [response EXCEPT !.ops = <<Do("continue")>> \o @]
      BY <1>2, <2>6 DEF status
    <3>2. /\ status(r, c).ops = <<Do("continue")>> \o response.ops
          /\ status(r, c).header = response.header /\ status(r, c).status = response.status
          /\ status(r, c).end = response.end
      <4> HIDE DEF sizes, header, code
      <4> QED
        BY <3>1 DEF Respond
    <3>3. <<Do("continue")>> \in Seq(OpType) /\ PauseFree(<<Do("continue")>>)
      <4>1. "continue" \in OpKinds
        BY DEF OpKinds
      <4>2. Do("continue") \in OpType /\ Do("continue").t = "continue"
        BY <4>1, OpTyped
      <4> QED
        BY <4>2, SeqOne DEF PauseFree
    <3> HIDE DEF response
    <3> QED
      BY <2>4, <3>2, <3>3, PauseFreeJoined DEF Good
  <2> QED
    BY <2>5, <2>6
<1> QED
  BY <1>1, <1>2

\* /redirect and /absolute-redirect answer at once.
LEMMA RedirectGood == ASSUME NEW r, IsRequest(r), NEW c, NEW absolute PROVE Good(redirect(absolute, r, c))
<1> DEFINE target == URL(IF absolute THEN baseURL(r, c) ELSE << >>,
                         IF r.arg.v > 1 THEN r.path ELSE "/anything", Num(r.arg.v - 1))
<1>1. r.arg \in Number /\ r.arg.v \in Int
  BY Numbers DEF IsRequest
<1>2. target.arg \in Number
  BY <1>1, Numbers DEF URL
<1>3. redirect(absolute, r, c) = IF Outside(r.arg, 1, 100) THEN Error(r, 400)
                                 ELSE Found(r, [NoHeader EXCEPT !.location = {target}])
  BY DEF redirect
<1> HIDE DEF target
<1>4. IsHeader([NoHeader EXCEPT !.location = {target}])
  BY <1>2, Headers
<1> QED
  BY <1>3, <1>4, Answers

\* /redirect-to answers at once.
LEMMA RedirectToGood == ASSUME NEW r, IsRequest(r) PROVE Good(redirectTo(r))
<1> DEFINE code == Or(r.query["status"], Num(302))
           header == [NoHeader EXCEPT !.location = r.target]
<1>1. code \in Number /\ code.v \in Int
  <2>1. r.query["status"] \in SUBSET Number
    BY QueryTyped, Keyed
  <2> QED
    BY <2>1, Numbers, OrTyped
<1>2. IsHeader(header)
  BY Headers DEF IsRequest
<1>3. redirectTo(r) = IF r.target = {} \/ Outside(code, 300, 399) THEN Error(r, 400)
                      ELSE Respond(r, code.v, header, << >>, {}, << >>, FALSE)
  BY DEF redirectTo
<1> HIDE DEF code, header
<1>4. Good(Respond(r, code.v, header, << >>, {}, << >>, FALSE))
  <2>1. Good(Whole(r, code.v, header, << >>, {}, << >>))
    BY <1>1, <1>2, Sizes, WholeGood
  <2> QED
    BY <2>1 DEF Whole
<1>5. Good(Error(r, 400))
  BY Plain
<1>6. CASE r.target = {} \/ Outside(code, 300, 399)
  BY <1>3, <1>5, <1>6
<1>7. CASE ~(r.target = {} \/ Outside(code, 300, 399))
  BY <1>3, <1>4, <1>7
<1> QED
  BY <1>6, <1>7

\* /bytes answers at once.
LEMMA BytesGood == ASSUME NEW r, IsRequest(r) PROVE Good(bytes(r))
<1>1. r.arg \in Number
  BY DEF IsRequest
<1>2. CASE Outside(r.arg, 0, 10 * 2^20)
  BY <1>2, Answers DEF bytes
<1>3. CASE ~Outside(r.arg, 0, 10 * 2^20)
  <2>1. r.arg.v \in Nat
    BY <1>1, <1>3 DEF Outside, Number
  <2>2. bytes(r) = Whole(r, 200, NoHeader, << >>, {r.arg.v}, <<r.arg.v>>)
    BY <1>3 DEF bytes, Whole
  <2>3. {r.arg.v} \in Lengths /\ <<r.arg.v>> \in Writes /\ 200 \in Int
    BY <2>1 DEF Lengths, Writes
  <2>4. IsHeader(NoHeader)
    BY Headers
  <2> QED
    BY <2>2, <2>3, <2>4, WholeGood
<1> QED
  BY <1>2, <1>3

\* /stream flushes each chunk and does not wait between them.
LEMMA StreamGood == ASSUME NEW r, IsRequest(r) PROVE Good(stream(r))
<1>1. r.arg \in Number
  BY DEF IsRequest
<1> DEFINE sizes == [i \in 1..r.arg.v |-> 1]
<1>2. CASE Outside(r.arg, 1, 1000)
  BY <1>2, Answers DEF stream
<1>3. CASE ~Outside(r.arg, 1, 1000)
  <2>1. r.arg.v \in Nat
    BY <1>1, <1>3 DEF Outside, Number
  <2>2. stream(r) = Respond(r, 200, NoHeader, << >>, {}, sizes, TRUE)
    BY <1>3 DEF stream
  <2>3. sizes \in Seq(Nat)
    <3>1. sizes \in [1..r.arg.v -> Nat]
      OBVIOUS
    <3> QED
      BY <2>1, <3>1, SeqDef
  <2>4. IsHeader(NoHeader)
    BY Headers
  <2> DEFINE flushed == TRUE
             p == Respond(r, 200, NoHeader, << >>, {}, sizes, flushed)
  <2>5. p = Respond(r, 200, NoHeader, << >>, {}, sizes, flushed) /\ 200 \in Int /\ {} \in SUBSET Int
    OBVIOUS
  <2> HIDE DEF sizes, flushed, p
  <2>6. Good(p)
    BY <2>3, <2>4, <2>5, Responded
  <2> QED
    BY <2>2, <2>6 DEF p, flushed
<1> QED
  BY <1>2, <1>3

\* /gzip and /deflate answer at once.
LEMMA CompressedGood == ASSUME NEW r, NEW encoding PROVE Good(compressed(encoding, r))
<1> DEFINE header == [NoHeader EXCEPT !.encoding = {encoding}]
<1>1. IsHeader(header)
  BY Headers
<1>2. compressed(encoding, r) = Whole(r, 200, header, << >>, {}, <<1>>) /\ 200 \in Int
  BY DEF compressed, Whole
<1> HIDE DEF header
<1> QED
  BY <1>1, <1>2, Sizes, WholeGood

\* /trailers answers at once.
LEMMA TrailersGood == ASSUME NEW r PROVE Good(trailers(r))
<1> DEFINE header == [NoHeader EXCEPT !.trailers = {"X-Testbed-Checksum", "X-Testbed-Protocol"}]
<1>1. IsHeader(header)
  BY Headers
<1> DEFINE flushed == TRUE
           sizes == <<1>>
           length == {}
           p == Respond(r, 200, header, << >>, length, sizes, flushed)
<1>2. trailers(r) = p
  BY DEF trailers
<1>3. /\ p = Respond(r, 200, header, << >>, length, sizes, flushed)
      /\ 200 \in Int /\ length \in SUBSET Int /\ sizes \in Seq(Nat)
  OBVIOUS
<1> HIDE DEF header, flushed, sizes, length, p
<1> QED
  BY <1>1, <1>2, <1>3, Responded

\* /basic-auth answers at once, whoever asks.
LEMMA BasicAuthGood == ASSUME NEW r PROVE Good(basicAuth(r))
<1> DEFINE header == [NoHeader EXCEPT !.challenge = TRUE]
           asked == Respond(r, 401, header, << >>, {}, << >>, FALSE)
<1>1. IsHeader(header)
  BY Headers
<1>2. basicAuth(r) = IF r.authorization # {r.want} THEN asked ELSE writeJSON(r, 200, NoHeader, [user |-> r.want])
  BY DEF basicAuth
<1> HIDE DEF header
<1>3. asked = Whole(r, 401, header, << >>, {}, << >>)
  BY DEF Whole
<1> HIDE DEF asked
<1>4. Good(asked)
  <2>1. 401 \in Int /\ {} \in Lengths /\ << >> \in Writes
    BY Codes, Sizes
  <2> QED
    BY <1>1, <1>3, <2>1, WholeGood
<1> QED
  BY <1>2, <1>4, Plain

\* /cookies, /cookies/set and /headers answer at once.
LEMMA CookiesGood == ASSUME NEW r, IsRequest(r) PROVE Good(cookies(r)) /\ Good(setCookies(r)) /\ Good(headers(r))
<1>1. Good(cookies(r)) /\ Good(headers(r))
  BY Plain DEF cookies, headers
<1>2. Good(setCookies(r))
  <2>1. URL(<< >>, "/cookies", Num(0)).arg \in Number /\ r.pairs \in Seq(Range(r.pairs))
    <3>1. URL(<< >>, "/cookies", Num(0)).arg = Num(0)
      BY DEF URL
    <3>2. Num(0) \in Number
      BY Numbers
    <3>3. r.pairs \in Seq(Range(r.pairs))
      BY DEF IsRequest
    <3> QED
      BY <3>1, <3>2, <3>3
  <2>2. IsHeader([NoHeader EXCEPT !.setCookies = r.pairs, !.location = {URL(<< >>, "/cookies", Num(0))}])
    BY <2>1, Headers
  <2> QED
    BY <2>2, Answers DEF setCookies
<1> QED
  BY <1>1, <1>2

\* /cache and /cache-control answer at once.
LEMMA CacheGood == ASSUME NEW r PROVE Good(cache(r)) /\ Good(cacheControl(r))
<1> DEFINE validators == [NoHeader EXCEPT !.etag = {"okhttp-testbed"}, !.lastModified = {0}]
<1>1. IsHeader(validators)
  BY Headers
<1> DEFINE fresh == Respond(r, 304, validators, << >>, {}, << >>, FALSE)
           stale == writeJSON(r, 200, validators, << >>)
<1>2. cache(r) = fresh \/ cache(r) = stale
  BY DEF cache
<1> HIDE DEF validators
<1>3. Good(fresh)
  <2>1. fresh = Whole(r, 304, validators, << >>, {}, << >>)
    BY DEF Whole
  <2> HIDE DEF fresh
  <2> QED
    BY <1>1, <2>1, Codes, Sizes, WholeGood
<1>4. Good(stale)
  <2>1. 200 \in Int /\ stale = writeJSON(r, 200, validators, << >>)
    OBVIOUS
  <2> HIDE DEF stale
  <2> QED
    BY <1>1, <2>1, Answers
<1>5. Good(cacheControl(r))
  <2>1. IsHeader([NoHeader EXCEPT !.maxAge = {r.arg.v}])
    BY Headers
  <2>2. Good(writeJSON(r, 200, [NoHeader EXCEPT !.maxAge = {r.arg.v}], << >>))
    BY <2>1, Codes, Answers
  <2> QED
    BY <2>2, Plain DEF cacheControl
<1> HIDE DEF fresh, stale
<1> QED
  BY <1>2, <1>3, <1>4, <1>5

\* /info, /ca.pem, /client.pem and /tls answer at once.
LEMMA ServersGood ==
    ASSUME NEW r, NEW c, NEW k
    PROVE  Good(info(r, c, k)) /\ Good(caPEM(r, k)) /\ Good(clientPEM(r, k)) /\ Good(tlsInfo(r, c, k))
  BY Plain, Answers DEF info, caPEM, clientPEM, tlsInfo

-----------------------------------------------------------------------------
(* How long a plan takes *)

\* The time a step takes.
Cost(op) == IF op.t = "pause" THEN op.n ELSE 0

\* The steps of ops take no more than limit, and W says how much was used up by each.
Fits(W, ops, limit) ==
    /\ W \in [0..Len(ops) -> 0..limit]
    /\ \A i \in 1..Len(ops) : W[i - 1] + Cost(ops[i]) <= W[i]

\* Some account of the time says so.
Budget(ops, limit) == \E W : Fits(W, ops, limit)

\* No step takes a negative time.
LEMMA CostTyped == ASSUME NEW op \in OpType PROVE Cost(op) \in Nat
  BY DEF Cost, OpType

\* Steps that do not wait take no time.
LEMMA BudgetFree == ASSUME NEW ops \in Seq(OpType), PauseFree(ops) PROVE Budget(ops, 0)
<1> DEFINE W == [i \in 0..Len(ops) |-> 0]
<1>1. Len(ops) \in Nat /\ DOMAIN ops = 1..Len(ops)
  BY LenProperties
<1>2. \A i \in 1..Len(ops) : Cost(ops[i]) = 0
  BY <1>1 DEF Cost, PauseFree
<1>3. Fits(W, ops, 0)
  BY <1>1, <1>2 DEF Fits
<1> QED
  BY <1>3 DEF Budget

\* One pause takes as long as it says.
LEMMA BudgetOne == ASSUME NEW op \in OpType, op.t = "pause" PROVE Budget(<<op>>, op.n)
<1> DEFINE W == [i \in 0..1 |-> IF i = 0 THEN 0 ELSE op.n]
<1>1. op.n \in Nat /\ Cost(op) = op.n /\ Len(<<op>>) = 1 /\ <<op>>[1] = op
  BY DEF OpType, Cost
<1>2. Fits(W, <<op>>, op.n)
  <2> DEFINE n == op.n
  <2>1. n \in Nat /\ W = [i \in 0..1 |-> IF i = 0 THEN 0 ELSE n]
    BY <1>1
  <2> HIDE DEF n, W
  <2>2. W \in [0..1 -> 0..n] /\ W[0] = 0 /\ W[1] = n
    BY <2>1
  <2>3. \A i \in 1..1 : W[i - 1] + Cost(<<op>>[i]) <= W[i]
    <3>1. W[1 - 1] + n <= W[1]
      BY <2>1, <2>2
    <3> QED
      BY <1>1, <3>1 DEF n
  <2> QED
    BY <1>1, <2>2, <2>3 DEF Fits, n
<1> QED
  BY <1>2 DEF Budget

\* What fits into a limit fits into any greater one.
LEMMA BudgetMore ==
    ASSUME NEW ops, NEW x \in Nat, NEW y \in Nat, x <= y, Budget(ops, x) PROVE Budget(ops, y)
<1>1. PICK W : Fits(W, ops, x)
  BY DEF Budget
<1>2. 0..x \subseteq 0..y
  OBVIOUS
<1>3. Fits(W, ops, y)
  BY <1>1, <1>2 DEF Fits
<1> QED
  BY <1>3 DEF Budget

\* Two plans one after the other take no more than both limits.
LEMMA BudgetJoined ==
    ASSUME NEW a \in Seq(OpType), NEW b \in Seq(OpType), NEW x \in Nat, NEW y \in Nat, Budget(a, x), Budget(b, y)
    PROVE  Budget(a \o b, x + y)
<1>1. PICK U : Fits(U, a, x)
  BY DEF Budget
<1>2. PICK V : Fits(V, b, y)
  BY DEF Budget
<1>3. Len(a) \in Nat /\ Len(b) \in Nat
  BY LenProperties
<1>4. /\ Len(a \o b) = Len(a) + Len(b)
      /\ \A i \in 1..Len(a) : (a \o b)[i] = a[i]
      /\ \A i \in 1..(Len(a) + Len(b)) : i > Len(a) => i - Len(a) \in 1..Len(b) /\ (a \o b)[i] = b[i - Len(a)]
  BY Joined
<1> DEFINE m == Len(a)
           n == Len(b)
           ab == a \o b
<1>5. /\ m \in Nat /\ n \in Nat /\ Len(ab) = m + n
      /\ \A i \in 1..m : ab[i] = a[i]
      /\ \A i \in 1..(m + n) : i > m => i - m \in 1..n /\ ab[i] = b[i - m]
      /\ \A i \in 0..m : U[i] \in 0..x
      /\ \A i \in 1..m : U[i - 1] + Cost(a[i]) <= U[i]
      /\ \A i \in 0..n : V[i] \in 0..y
      /\ \A i \in 1..n : V[i - 1] + Cost(b[i]) <= V[i]
  BY <1>1, <1>2, <1>3, <1>4 DEF Fits
<1> DEFINE W == [i \in 0..(m + n) |-> IF i <= m THEN U[i] ELSE x + V[i - m]]
<1>6. \A i \in 1..m : Cost(a[i]) \in Nat
  <2>1. \A i \in 1..m : a[i] \in OpType
    BY ElementOfSeq
  <2> QED
    BY <2>1, CostTyped
<1>7. \A i \in 1..n : Cost(b[i]) \in Nat
  <2>1. \A i \in 1..n : b[i] \in OpType
    BY ElementOfSeq
  <2> QED
    BY <2>1, CostTyped
<1> HIDE DEF m, n, ab
<1>8. ASSUME NEW i \in 0..(m + n) PROVE W[i] \in 0..(x + y)
  <2>1. CASE i <= m
    <3>1. i \in 0..m /\ W[i] = U[i]
      BY <1>5, <2>1
    <3> QED
      BY <1>5, <3>1
  <2>2. CASE i > m
    <3>1. i - m \in 0..n /\ W[i] = x + V[i - m]
      BY <1>5, <2>2
    <3> QED
      BY <1>5, <3>1
  <2> QED
    BY <1>5, <2>1, <2>2
<1>9. ASSUME NEW i \in 1..(m + n) PROVE W[i - 1] + Cost(ab[i]) <= W[i]
  <2>1. CASE i <= m
    <3>1. i \in 1..m /\ W[i] = U[i] /\ W[i - 1] = U[i - 1] /\ ab[i] = a[i]
      BY <1>5, <2>1
    <3> QED
      BY <1>5, <3>1
  <2>2. CASE i = m + 1
    <3>1. 1 \in 1..n /\ i - m = 1 /\ ab[i] = b[1] /\ W[i] = x + V[1]
      BY <1>5, <2>2
    <3>2. W[i - 1] = U[m] /\ m \in 0..m /\ 0 \in 0..n
      BY <1>5, <2>2
    <3>3. V[1 - 1] + Cost(b[1]) <= V[1]
      BY <1>5, <3>1
    <3>4. V[0] \in 0..y /\ V[1] \in 0..y /\ U[m] \in 0..x /\ Cost(b[1]) \in Nat
      BY <1>5, <1>7, <3>1, <3>2
    <3>5. V[0] + Cost(b[1]) <= V[1]
      BY <3>3
    <3> DEFINE v0 == V[0]  v1 == V[1]  u == U[m]  k == Cost(b[1])
    <3>6. /\ v0 \in 0..y /\ v1 \in 0..y /\ u \in 0..x /\ k \in Nat /\ v0 + k <= v1
      BY <3>4, <3>5
    <3> HIDE DEF v0, v1, u, k
    <3>7. u + k <= x + v1
      BY <3>6
    <3> QED
      BY <3>1, <3>2, <3>7 DEF v1, u, k
  <2>3. CASE i > m + 1
    <3>1. i - m \in 1..n /\ (i - m) - 1 = (i - 1) - m /\ (i - 1) - m \in 0..n
      BY <1>5, <2>3
    <3>2. W[i] = x + V[i - m] /\ W[i - 1] = x + V[(i - 1) - m] /\ ab[i] = b[i - m]
      BY <1>5, <2>3
    <3>3. V[(i - 1) - m] + Cost(b[i - m]) <= V[i - m]
      BY <1>5, <3>1
    <3> DEFINE v0 == V[(i - 1) - m]  v1 == V[i - m]  k == Cost(b[i - m])
    <3>4. v0 \in 0..y /\ v1 \in 0..y /\ k \in Nat /\ v0 + k <= v1
      BY <1>5, <1>7, <3>1, <3>3
    <3> HIDE DEF v0, v1, k
    <3>5. (x + v0) + k <= x + v1
      BY <3>4
    <3> QED
      BY <3>2, <3>5 DEF v0, v1, k
  <2> QED
    BY <1>5, <2>1, <2>2, <2>3
<1>10. Fits(W, ab, x + y)
  <2>1. W \in [0..(m + n) -> 0..(x + y)]
    BY <1>8
  <2> HIDE DEF W
  <2> QED
    BY <1>5, <1>9, <2>1 DEF Fits
<1> QED
  BY <1>10 DEF Budget, ab

\* Multiplication keeps the order.
LEMMA Times == \A a, b, u \in Nat : a <= b => a * u <= b * u /\ a * u \in Nat
  OBVIOUS

\* The steps of a loop of n rounds, by their position.
LEMMA Repeated ==
    ASSUME NEW n \in Nat, NEW w \in OpType, NEW p \in OpType
    PROVE  /\ Repeat(n, <<p>>) = [i \in 1..n |-> p]
           /\ Repeat(n, <<w, p>>) = [i \in 1..(2 * n) |-> IF i % 2 = 1 THEN w ELSE p]
<1>1. Repeat(n, <<p>>) = [i \in 1..n |-> p]
  <2>1. Len(<<p>>) = 1 /\ n * 1 = n /\ <<p>>[1] = p
    OBVIOUS
  <2>2. \A i \in 1..n : ((i - 1) % 1) + 1 = 1
    OBVIOUS
  <2> QED
    BY <2>1, <2>2 DEF Repeat
<1>2. Repeat(n, <<w, p>>) = [i \in 1..(2 * n) |-> IF i % 2 = 1 THEN w ELSE p]
  <2>1. Len(<<w, p>>) = 2 /\ n * 2 = 2 * n /\ <<w, p>>[1] = w /\ <<w, p>>[2] = p
    OBVIOUS
  <2>2. \A i \in 1..(2 * n) : ((i - 1) % 2) + 1 = IF i % 2 = 1 THEN 1 ELSE 2
    OBVIOUS
  <2> QED
    BY <2>1, <2>2 DEF Repeat
<1> QED
  BY <1>1, <1>2

\* A loop has the steps of its round.
LEMMA RepeatTyped ==
    ASSUME NEW n \in Nat, NEW w \in OpType, NEW p \in OpType
    PROVE  Repeat(n, <<p>>) \in Seq(OpType) /\ Repeat(n, <<w, p>>) \in Seq(OpType)
<1> DEFINE once == [i \in 1..n |-> p]
           twice == [i \in 1..(2 * n) |-> IF i % 2 = 1 THEN w ELSE p]
<1>1. once \in [1..n -> OpType] /\ twice \in [1..(2 * n) -> OpType] /\ 2 * n \in Nat
  OBVIOUS
<1>2. Repeat(n, <<p>>) = once
  BY Repeated, Zenon
<1>3. Repeat(n, <<w, p>>) = twice
  BY Repeated, Zenon
<1> HIDE DEF once, twice
<1> QED
  BY <1>1, <1>2, <1>3, SeqDef

\* A loop of n rounds takes n times as long as its one pause.
LEMMA BudgetRepeated ==
    ASSUME NEW n \in Nat, NEW w \in OpType, NEW p \in OpType, w.t # "pause", p.t = "pause",
           NEW limit, limit = n * p.n
    PROVE  /\ Budget(Repeat(n, <<p>>), limit)
           /\ Budget(Repeat(n, <<w, p>>), limit)
<1> DEFINE u == p.n
<1>1. u \in Nat /\ Cost(p) = u /\ Cost(w) = 0
  BY DEF OpType, Cost
<1>0. limit = n * u /\ limit \in Nat
  BY <1>1
<1> HIDE DEF u
<1>2. Budget(Repeat(n, <<p>>), limit)
  <2> DEFINE ops == [i \in 1..n |-> p]
             W == [i \in 0..n |-> i * u]
  <2>1. Repeat(n, <<p>>) = ops /\ Len(ops) = n
    <3>1. Repeat(n, <<p>>) = ops
      BY Repeated
    <3>2. Len(ops) = n
      OBVIOUS
    <3> QED
      BY <3>1, <3>2
  <2>2. \A i \in 0..n : i * u \in 0..limit
    <3> TAKE i \in 0..n
    <3>1. i \in Nat /\ i <= n
      OBVIOUS
    <3>2. i * u \in Nat /\ i * u <= n * u /\ n * u \in Nat
      BY <1>1, <3>1, Times
    <3> QED
      BY <1>0, <1>1, <3>2
  <2>3. \A i \in 1..n : (i - 1) * u + u = i * u
    BY <1>1
  <2>4. \A i \in 1..n : W[i - 1] = (i - 1) * u /\ W[i] = i * u /\ Cost(ops[i]) = u
    BY <1>1
  <2>5. \A i \in 1..n : W[i - 1] + Cost(ops[i]) <= W[i]
    <3> TAKE i \in 1..n
    <3>1. i \in 0..n /\ i * u \in Int
      BY <2>2
    <3>2. W[i - 1] + Cost(ops[i]) = W[i] /\ W[i] \in Int
      BY <2>3, <2>4, <3>1
    <3> HIDE DEF W, ops
    <3> QED
      BY <3>2
  <2>6. W \in [0..n -> 0..limit]
    BY <2>2
  <2> HIDE DEF W, ops
  <2>7. Fits(W, ops, limit)
    BY <2>1, <2>5, <2>6 DEF Fits
  <2> QED
    BY <2>1, <2>7 DEF Budget
<1>3. Budget(Repeat(n, <<w, p>>), limit)
  <2> DEFINE ops == [i \in 1..(2 * n) |-> IF i % 2 = 1 THEN w ELSE p]
             W == [i \in 0..(2 * n) |-> (i \div 2) * u]
  <2>1. Repeat(n, <<w, p>>) = ops /\ Len(ops) = 2 * n /\ 2 * n \in Nat
    <3>1. Repeat(n, <<w, p>>) = ops
      BY Repeated
    <3>2. Len(ops) = 2 * n /\ 2 * n \in Nat
      OBVIOUS
    <3> QED
      BY <3>1, <3>2
  <2>2. \A i \in 0..(2 * n) : (i \div 2) * u \in 0..limit
    <3> TAKE i \in 0..(2 * n)
    <3>1. i \div 2 \in Nat /\ i \div 2 <= n
      OBVIOUS
    <3>2. (i \div 2) * u \in Nat /\ (i \div 2) * u <= n * u /\ n * u \in Nat
      BY <1>1, <3>1, Times
    <3> QED
      BY <1>0, <1>1, <3>2
  <2>3. ASSUME NEW i \in 1..(2 * n) PROVE W[i - 1] + Cost(ops[i]) <= W[i]
    <3> DEFINE h == i \div 2
    <3>1. h \in Nat /\ i - 1 \in 0..(2 * n) /\ i \in 0..(2 * n) /\ h * u \in Int
      BY <2>2
    <3>2. CASE i % 2 = 1
      <4>1. (i - 1) \div 2 = h
        BY <3>2
      <4>2. W[i - 1] = h * u /\ W[i] = h * u /\ Cost(ops[i]) = 0
        BY <1>1, <3>1, <3>2, <4>1
      <4> HIDE DEF W, ops, h
      <4> QED
        BY <3>1, <4>2
    <3>3. CASE i % 2 # 1
      <4>1. (i - 1) \div 2 = h - 1
        BY <3>3
      <4>2. W[i - 1] = (h - 1) * u /\ W[i] = h * u /\ Cost(ops[i]) = u
        BY <1>1, <3>1, <3>3, <4>1
      <4> HIDE DEF W, ops, h
      <4>3. (h - 1) * u + u = h * u
        BY <1>1, <3>1
      <4> QED
        BY <3>1, <4>2, <4>3
    <3> QED
      BY <3>2, <3>3
  <2>4. W \in [0..(2 * n) -> 0..limit]
    BY <2>2
  <2> HIDE DEF W, ops
  <2>5. Fits(W, ops, limit)
    BY <2>1, <2>3, <2>4 DEF Fits
  <2> QED
    BY <2>1, <2>5 DEF Budget
<1> QED
  BY <1>2, <1>3

\* Two minutes: the minute of delay and the minute of duration that queryDuration allows
\* /drip.
Limit == 120000

\* /drip (handlers.go:361-389): the first byte is after the delay, the others are spread
\* over the duration, and so the whole of it fits into both.
LEMMA DripPlan ==
    ASSUME NEW r, IsRequest(r), NEW p, p = drip(r)
    PROVE  /\ p.ops \in Seq(OpType) /\ Budget(p.ops, Limit)
           /\ p.checked = TRUE /\ p.end = "keep" /\ p.status = 200 /\ p.header = NoHeader
<1> DEFINE N == DripTotal(r)
           d == queryDuration(r.query["duration"], 1000)
           initial == queryDuration(r.query["delay"], 0)
           frame == Frame(r.method, 200, {N}, << >>, TRUE)
           pre == IF initial > 0 THEN <<Pause(initial)>> ELSE << >>
           pause == DripPause(r)
           rep == Repeat(N, IF r.method = "HEAD" THEN <<pause>> ELSE <<Data(1), pause>>)
<1>1. /\ r.query["bytes"] \in SUBSET Number /\ r.query["duration"] \in SUBSET Number
      /\ r.query["delay"] \in SUBSET Number
  BY QueryTyped, Keyed
<1>2. N \in Nat /\ N > 0
  <2>1. 2^20 \in Int /\ 10 <= 2^20 /\ 10 \in Int /\ 1 \in Int /\ 1 <= 10
    OBVIOUS
  <2>2. N \in Int /\ 1 <= N
    BY <1>1, <2>1, QueryInt DEF DripTotal
  <2> QED
    BY <2>2
<1>3. d \in Int /\ -1 <= d /\ d <= 60000 /\ initial \in Int /\ -1 <= initial /\ initial <= 60000
  <2>1. 1000 \in Nat /\ 1000 <= 60000 /\ 0 \in Nat /\ 0 <= 60000
    OBVIOUS
  <2> DEFINE given == r.query["duration"]
             asked == r.query["delay"]
  <2>2. given \in SUBSET Number /\ asked \in SUBSET Number
    BY <1>1
  <2>3. d = queryDuration(given, 1000) /\ initial = queryDuration(asked, 0)
    OBVIOUS
  <2> HIDE DEF given, asked, d, initial
  <2>4. /\ queryDuration(given, 1000) \in Int
        /\ 0 <= queryDuration(given, 1000) + 1 /\ queryDuration(given, 1000) <= 60000
    BY <2>1, <2>2, QueryDuration
  <2>5. /\ queryDuration(asked, 0) \in Int
        /\ 0 <= queryDuration(asked, 0) + 1 /\ queryDuration(asked, 0) <= 60000
    BY <2>1, <2>2, QueryDuration
  <2> QED
    BY <2>3, <2>4, <2>5
<1>4. /\ p.ops = (pre \o frame) \o rep /\ p.checked = TRUE /\ p.end = "keep" /\ p.status = 200
      /\ p.header = NoHeader
  BY DEF drip, Paced, Respond
<1>5. pause = Pause(d \div N)
  BY DEF DripPause
<1> HIDE DEF N, d, initial, frame, pause
<1>6. pause \in OpType /\ pause.t = "pause" /\ pause.n \in Nat /\ N * pause.n <= 60000
  <2>1. d \div N \in Int
    BY <1>2, <1>3
  <2>2. /\ Pause(d \div N) \in OpType /\ Pause(d \div N).t = "pause"
        /\ Pause(d \div N).n = IF d \div N > 0 THEN d \div N ELSE 0
    BY <2>1, OpTyped
  <2>3. CASE d \div N > 0
    <3>1. d >= 0
      BY <1>2, <1>3, <2>3
    <3>2. N * (d \div N) <= d /\ d \div N \in Nat
      BY <1>2, <1>3, <3>1
    <3>3. N * (d \div N) \in Int /\ N * (d \div N) <= 60000
      BY <1>2, <1>3, <3>2
    <3> QED
      BY <1>5, <2>2, <2>3, <3>2, <3>3
  <2>4. CASE ~(d \div N > 0)
    <3>1. N * 0 <= 60000
      BY <1>2
    <3> QED
      BY <1>5, <2>2, <2>4, <3>1
  <2> QED
    BY <2>3, <2>4
<1>7. frame \in Seq(OpType) /\ Budget(frame, 0)
  <2>1. 200 \in Int /\ {N} \in SUBSET Int /\ << >> \in Seq(Nat)
    BY <1>2
  <2>2. frame \in Seq(OpType) /\ PauseFree(frame)
    BY <2>1, Framed DEF frame
  <2> QED
    BY <2>2, BudgetFree
<1>8. pre \in Seq(OpType) /\ Budget(pre, 60000)
  <2>1. CASE initial > 0
    <3>1. Pause(initial) \in OpType /\ Pause(initial).t = "pause" /\ Pause(initial).n = initial
      BY <1>3, <2>1, OpTyped
    <3>2. Budget(<<Pause(initial)>>, initial) /\ <<Pause(initial)>> \in Seq(OpType)
      BY <3>1, BudgetOne, SeqOne
    <3>3. initial \in Nat /\ 60000 \in Nat /\ initial <= 60000
      BY <1>3, <2>1
    <3> QED
      BY <2>1, <3>2, <3>3, BudgetMore
  <2>2. CASE ~(initial > 0)
    <3>1. << >> \in Seq(OpType) /\ PauseFree(<< >>)
      BY SeqNone, PauseFreeJoined
    <3>2. Budget(<< >>, 0)
      BY <3>1, BudgetFree
    <3>3. Budget(<< >>, 60000)
      BY <3>2, BudgetMore
    <3> QED
      BY <2>2, <3>1, <3>3
  <2> QED
    BY <2>1, <2>2
<1>9. rep \in Seq(OpType) /\ Budget(rep, 60000)
  <2> DEFINE data == Data(1)
             total == N * pause.n
  <2>1. data \in OpType /\ data.t # "pause"
    BY OpTyped
  <2>2. total \in Nat /\ total <= 60000 /\ 60000 \in Nat /\ total = N * pause.n
    BY <1>2, <1>6
  <2>3. rep = Repeat(N, <<pause>>) \/ rep = Repeat(N, <<data, pause>>)
    OBVIOUS
  <2> HIDE DEF rep, data, total
  <2>4. Repeat(N, <<pause>>) \in Seq(OpType) /\ Repeat(N, <<data, pause>>) \in Seq(OpType)
    BY <1>2, <1>6, <2>1, RepeatTyped
  <2>5. Budget(Repeat(N, <<pause>>), total) /\ Budget(Repeat(N, <<data, pause>>), total)
    BY <1>2, <1>6, <2>1, <2>2, BudgetRepeated
  <2>6. rep \in Seq(OpType) /\ Budget(rep, total)
    BY <2>3, <2>4, <2>5
  <2> QED
    BY <2>2, <2>6, BudgetMore
<1> HIDE DEF pre, rep
<1>10. pre \o frame \in Seq(OpType) /\ Budget(pre \o frame, 60000)
  <2>1. Budget(pre \o frame, 60000 + 0)
    BY <1>7, <1>8, BudgetJoined
  <2> QED
    BY <1>7, <1>8, <2>1, Joined
<1>11. (pre \o frame) \o rep \in Seq(OpType) /\ Budget((pre \o frame) \o rep, Limit)
  <2> DEFINE head == pre \o frame
  <2>1. head \in Seq(OpType) /\ Budget(head, 60000)
    BY <1>10
  <2> HIDE DEF head
  <2>2. Budget(head \o rep, 60000 + 60000)
    BY <1>9, <2>1, BudgetJoined
  <2>3. 60000 + 60000 = Limit
    BY DEF Limit
  <2>4. head \o rep \in Seq(OpType)
    BY <1>9, <2>1, Joined
  <2> QED
    BY <2>2, <2>3, <2>4 DEF head
<1> QED
  BY <1>4, <1>11

\* A plan of a single step.
LEMMA SingleStep ==
    ASSUME NEW op \in OpType
    PROVE  <<op>> \in Seq(OpType) /\ (op.t # "pause" => PauseFree(<<op>>))
  BY DEF PauseFree

\* /delay (handlers.go:317-329): it waits before it answers, for at most a minute, and
\* gives up when the client leaves.
LEMMA DelayPlan ==
    ASSUME NEW r, IsRequest(r), NEW c, NEW k, NEW p, p = delay(r, c, k)
    PROVE  /\ p.ops \in Seq(OpType) /\ Budget(p.ops, Limit)
           /\ p.end = "keep" /\ p.status \in Int /\ IsHeader(p.header)
<1>0. 0 \in Nat /\ Limit \in Nat /\ 0 <= Limit
  BY DEF Limit
<1>1. CASE OutsideMinute(r.arg)
  <2>1. p = Error(r, 400)
    BY <1>1 DEF delay
  <2>2. Good(p)
    BY <2>1, Plain
  <2>3. Budget(p.ops, 0)
    BY <2>2, BudgetFree DEF Good
  <2> QED
    BY <1>0, <2>2, <2>3, BudgetMore DEF Good
<1>2. CASE ~OutsideMinute(r.arg)
  <2> DEFINE rest == anything(r, c, k)
             ms == Duration(r.arg)
  <2>1. Good(rest)
    BY AnythingGood
  <2>2. /\ p.ops = <<Pause(ms)>> \o rest.ops /\ p.end = rest.end /\ p.status = rest.status
        /\ p.header = rest.header
    <3>1. DOMAIN rest = {"status", "header", "payload", "end", "ops", "context", "checked"}
      <4>1. CASE ~r.body.whole
        BY <4>1 DEF anything, Error, Respond
      <4>2. CASE r.body.whole
        BY <4>2 DEF anything, writeJSON, Respond
      <4> QED
        BY <4>1, <4>2
    <3>2. p = [rest EXCEPT !.ops = <<Pause(ms)>> \o @, !.context = TRUE]
      BY <1>2 DEF delay
    <3> HIDE DEF rest, ms
    <3> QED
      BY <3>1, <3>2
  <2>3. ms \in Int /\ ms <= 60000
    <3>1. r.arg \in Number
      BY DEF IsRequest
    <3>2. r.arg.v \in Int
      BY <3>1, Numbers
    <3> QED
      BY <1>2, <3>2 DEF OutsideMinute, Duration
  <2> HIDE DEF rest, ms
  <2> DEFINE op == Pause(ms)
  <2>4. op \in OpType /\ op.t = "pause" /\ op.n \in Nat /\ op.n <= 60000
    BY <2>3, OpTyped
  <2> HIDE DEF op
  <2>5. <<op>> \in Seq(OpType) /\ Budget(<<op>>, 60000)
    <3>1. Budget(<<op>>, op.n)
      BY <2>4, BudgetOne
    <3> QED
      BY <2>4, <3>1, SingleStep, BudgetMore
  <2>6. rest.ops \in Seq(OpType) /\ Budget(rest.ops, 0)
    BY <2>1, BudgetFree DEF Good
  <2> DEFINE a == <<op>>
             b == rest.ops
  <2>7. /\ a \in Seq(OpType) /\ b \in Seq(OpType) /\ Budget(a, 60000) /\ Budget(b, 0)
        /\ p.ops = a \o b
    BY <2>1, <2>2, <2>5, <2>6 DEF op
  <2> HIDE DEF a, b
  <2>8. Budget(a \o b, 60000 + 0) /\ a \o b \in Seq(OpType)
    BY <2>7, BudgetJoined, Joined
  <2>9. Budget(a \o b, Limit)
    BY <1>0, <2>8, BudgetMore DEF Limit
  <2>11. p.ops \in Seq(OpType) /\ Budget(p.ops, Limit)
    BY <2>7, <2>8, <2>9
  <2>12. p.end = "keep" /\ p.status \in Int /\ IsHeader(p.header)
    BY <2>1, <2>2 DEF Good
  <2> QED
    BY <2>11, <2>12
<1> QED
  BY <1>1, <1>2

-----------------------------------------------------------------------------
(* The hostile endpoints and the mux *)

\* Two steps given one by one.
LEMMA Two ==
    ASSUME NEW a \in OpType, NEW b \in OpType, a.t # "pause", b.t # "pause"
    PROVE  <<a, b>> \in Seq(OpType) /\ PauseFree(<<a, b>>)
  BY DEF PauseFree

\* Three steps given one by one.
LEMMA Three ==
    ASSUME NEW a \in OpType, NEW b \in OpType, NEW c \in OpType, a.t # "pause", b.t # "pause", c.t # "pause"
    PROVE  <<a, b, c>> \in Seq(OpType) /\ PauseFree(<<a, b, c>>)
  BY DEF PauseFree

\* The steps the hostile endpoints are made of.
LEMMA HostileOpTyped ==
    /\ \A l \in SUBSET Int : Sized(l) \in OpType /\ Sized(l).t = "head"
    /\ Chunked \in OpType /\ Chunked.t = "head"
    /\ NotAStatus \in OpType /\ NotAStatus.t = "head"
    /\ SizedAndChunked({8}) \in OpType /\ SizedAndChunked({8}).t = "head"
    /\ \A n \in Nat : [Sized({0}) EXCEPT !.n = n] \in OpType /\ [Sized({0}) EXCEPT !.n = n].t = "head"
<1>1. ASSUME NEW l \in SUBSET Int PROVE Sized(l) \in OpType /\ Sized(l).t = "head"
  BY DEF Sized, StatusLine, Op, OpType, OpKinds
<1>2. Chunked \in OpType /\ Chunked.t = "head"
  BY DEF Chunked, StatusLine, Op, OpType, OpKinds
<1>3. NotAStatus \in OpType /\ NotAStatus.t = "head"
  BY DEF NotAStatus, StatusLine, Op, OpType, OpKinds
<1>4. SizedAndChunked({8}) \in OpType /\ SizedAndChunked({8}).t = "head"
  BY DEF SizedAndChunked, StatusLine, Op, OpType, OpKinds
<1>5. ASSUME NEW n \in Nat PROVE [Sized({0}) EXCEPT !.n = n] \in OpType /\ [Sized({0}) EXCEPT !.n = n].t = "head"
  <2> DEFINE x == Sized({0})
  <2>1. x \in OpType /\ x.t = "head"
    BY <1>1
  <2> HIDE DEF x
  <2>2. [x EXCEPT !.n = n] \in OpType /\ [x EXCEPT !.n = n].t = "head"
    BY <2>1 DEF OpType
  <2> QED
    BY <2>2 DEF x
<1> QED
  BY <1>1, <1>2, <1>3, <1>4, <1>5

\* /hostile/slow-headers: a byte and a pause, in turn.
LEMMA SlowHeaders == ASSUME NEW r, IsRequest(r) PROVE slowHeaders(r) \in Seq(OpType)
<1> DEFINE d == queryDuration(r.query["delay"], 100)
           op == Pause(d)
           head == Repeat(SlowHeadBytes, <<Do("part"), op>>)
           tail == <<Sized({2}), op, Data(1), op, Data(1), op>>
<1>1. d \in Int
  <2>1. "delay" \in QueryKeys
    BY DEF QueryKeys
  <2>4. r.query["delay"] \in SUBSET Number
    BY <2>1, QueryTyped
  <2>2. 100 \in Nat /\ 100 <= 60000
    OBVIOUS
  <2> QED
    BY <2>2, <2>4, QueryDuration
<1>2. op \in OpType
  <2> HIDE DEF d
  <2> QED
    BY <1>1, OpTyped
<1> HIDE DEF op
<1>3. Do("part") \in OpType /\ Data(1) \in OpType /\ Sized({2}) \in OpType
  <2>1. "part" \in OpKinds /\ 1 \in Nat /\ 200 \in Int /\ {2} \in SUBSET Int /\ FALSE \in BOOLEAN
    BY DEF OpKinds
  <2> QED
    BY <2>1, OpTyped DEF Sized
<1>4. head \in Seq(OpType)
  BY <1>2, <1>3, RepeatTyped, SessionAssumption
<1>5. tail \in Seq(OpType)
  <2> DEFINE x == Sized({2})
             y == Data(1)
  <2>1. x \in OpType /\ y \in OpType
    BY <1>3
  <2> HIDE DEF x, y
  <2>2. <<x, op, y, op, y, op>> \in Seq(OpType)
    BY <1>2, <2>1
  <2> QED
    BY <2>2 DEF x, y
<1>6. slowHeaders(r) = head \o tail
  BY DEF slowHeaders, op
<1> HIDE DEF head, tail
<1> QED
  BY <1>4, <1>5, <1>6, Joined

\* /hostile/100-continue: the storm of interim responses.
LEMMA Storm == ASSUME NEW r, IsRequest(r), NEW op \in OpType, op.t # "pause", NEW n \in Nat
    PROVE  Repeat(n, <<op>>) \in Seq(OpType) /\ PauseFree(Repeat(n, <<op>>))
<1>1. Repeat(n, <<op>>) = [i \in 1..n |-> op] /\ Repeat(n, <<op>>) \in Seq(OpType)
  BY Repeated, RepeatTyped
<1> QED
  BY <1>1 DEF PauseFree

\* Every hostile endpoint (hostile.go:25-131) writes steps of these kinds.
LEMMA HostileSteps ==
    ASSUME NEW r, IsRequest(r), NEW c, r.path \in HostilePaths, NEW ops, ops = HostileOps(r, c)
    PROVE  ops \in Seq(OpType)
<1>0. /\ \A k \in {"last", "bad", "continue", "shut"} : Do(k) \in OpType /\ Do(k).t # "pause" /\ Do(k).t # "data"
      /\ \A n \in Nat : Data(n) \in OpType /\ Data(n).t = "data"
      /\ \A l \in SUBSET Int : Sized(l) \in OpType /\ Sized(l).t = "head"
      /\ Chunked \in OpType /\ Chunked.t = "head"
      /\ NotAStatus \in OpType /\ NotAStatus.t = "head"
      /\ SizedAndChunked({8}) \in OpType /\ SizedAndChunked({8}).t = "head"
      /\ Pause(100) \in OpType /\ Pause(100).t = "pause"
  <2>1. {"last", "bad", "continue", "shut"} \subseteq OpKinds
    BY DEF OpKinds
  <2>2. \A k \in {"last", "bad", "continue", "shut"} : Do(k) \in OpType /\ Do(k).t # "pause" /\ Do(k).t # "data"
    BY <2>1, OpTyped
  <2>3. \A n \in Nat : Data(n) \in OpType /\ Data(n).t = "data"
    BY OpTyped
  <2>7. Pause(100) \in OpType /\ Pause(100).t = "pause"
    BY OpTyped
  <2> QED
    BY <2>2, <2>3, <2>7, HostileOpTyped
<1>q. \A key \in QueryKeys : r.query[key] \in SUBSET Number
  BY DEF IsRequest
<1>1. CASE r.path = "/hostile/no-response"
  BY <1>1, PauseFreeJoined, SeqNone DEF HostileOps
<1>2. CASE r.path = "/hostile/reset"
  <2> DEFINE n == queryInt(r.query["after"], 8, 0, 2^16)
  <2>1. n \in Nat
    <3>1. r.query["after"] \in SUBSET Number
      BY <1>q DEF QueryKeys
    <3>2. n \in Int /\ 0 <= n /\ n <= 2^16
      BY <3>1, QueryInt
    <3> HIDE DEF n
    <3> QED
      BY <3>2
  <2>2. ops = <<Sized({1024}), Data(n)>>
    BY <1>2 DEF HostileOps
  <2> HIDE DEF n
  <2>3. {1024} \in SUBSET Int
    OBVIOUS
  <2> QED
    BY <1>0, <2>1, <2>2, <2>3, Two
<1>3. CASE r.path = "/hostile/truncated-body"
  <2> DEFINE m == queryInt(r.query["promised"], 1024, 1, 2^20)
             n == queryInt(r.query["sent"], 16, 0, 2^20)
             d == Min({n, m})
  <2>1. m \in Nat /\ n \in Nat
    <3>1. r.query["promised"] \in SUBSET Number /\ r.query["sent"] \in SUBSET Number
      BY <1>q DEF QueryKeys
    <3>2. m \in Int /\ 1 <= m /\ m <= 2^20
      BY <3>1, QueryInt
    <3>3. n \in Int /\ 0 <= n /\ n <= 2^20
      BY <3>1, QueryInt
    <3> HIDE DEF m, n
    <3> QED
      BY <3>2, <3>3
  <2>2. ops = <<Sized({m}), Data(d)>>
    BY <1>3 DEF HostileOps, truncatedBody
  <2> HIDE DEF m, n
  <2>3. {m} \in SUBSET Int /\ d \in Nat
    BY <2>1 DEF Min
  <2> HIDE DEF d
  <2> QED
    BY <1>0, <2>2, <2>3, Two
<1>4. CASE r.path = "/hostile/truncated-chunks"
  <2>1. ops = <<Chunked, Data(8)>> /\ 8 \in Nat
    BY <1>4 DEF HostileOps
  <2> QED
    BY <1>0, <2>1, Two
<1>5. CASE r.path = "/hostile/invalid-chunk-size"
  <2>1. ops = <<Chunked, Do("bad"), Do("last")>>
    BY <1>5 DEF HostileOps
  <2> QED
    BY <1>0, <2>1, Three
<1>6. CASE r.path = "/hostile/invalid-status-line"
  <2>1. ops = <<NotAStatus>>
    BY <1>6 DEF HostileOps
  <2> QED
    BY <1>0, <2>1, SingleStep
<1>7. CASE r.path = "/hostile/duplicate-content-length"
  <2>1. ops = <<Sized({4, 8}), Data(4)>> /\ {4, 8} \in SUBSET Int /\ 4 \in Nat
    BY <1>7 DEF HostileOps
  <2> QED
    BY <1>0, <2>1, Two
<1>8. CASE r.path = "/hostile/content-length-and-chunked"
  <2>1. ops = <<SizedAndChunked({8}), Data(4), Do("last")>> 
    BY <1>8 DEF HostileOps
  <2>2. 4 \in Nat
    OBVIOUS
  <2> QED
    BY <1>0, <2>1, <2>2, Three
<1>9. CASE r.path = "/hostile/slow-headers"
  <2>1. ops = slowHeaders(r)
    BY <1>9 DEF HostileOps
  <2> QED
    BY <1>9, <2>1, SlowHeaders
<1>10. CASE r.path = "/hostile/huge-header"
  <2> DEFINE n == queryInt(r.query["size"], 64 * 2^10, 1, 2^20)
             op == [Sized({0}) EXCEPT !.n = n]
  <2>1. n \in Nat
    <3>1. r.query["size"] \in SUBSET Number
      BY <1>q DEF QueryKeys
    <3>2. 64 * 2^10 = 65536 /\ 2^20 = 1048576
      OBVIOUS
    <3>3. n \in Int /\ 1 <= n
      BY <3>1, <3>2, QueryInt
    <3> HIDE DEF n
    <3> QED
      BY <3>3
  <2>2. ops = <<op>>
    BY <1>10 DEF HostileOps
  <2> HIDE DEF n
  <2>3. op \in OpType /\ op.t = "head"
    BY <2>1, HostileOpTyped
  <2> HIDE DEF op
  <2> QED
    BY <2>2, <2>3, SingleStep
<1>11. CASE r.path = "/hostile/informational-storm"
  <2> DEFINE n == queryInt(r.query["count"], 5, 1, 100)
             a == Repeat(n, <<Do("continue")>>)
             b == <<Sized({2}), Data(2)>>
  <2>1. n \in Nat
    <3>1. r.query["count"] \in SUBSET Number
      BY <1>q DEF QueryKeys
    <3>2. n \in Int /\ 1 <= n
      BY <3>1, QueryInt
    <3> HIDE DEF n
    <3> QED
      BY <3>2
  <2>2. ops = a \o b
    BY <1>11 DEF HostileOps
  <2> HIDE DEF n
  <2>3. a \in Seq(OpType) /\ PauseFree(a)
    BY <1>0, <2>1, Storm
  <2>4. b \in Seq(OpType) /\ PauseFree(b)
    <3>1. {2} \in SUBSET Int /\ 2 \in Nat
      OBVIOUS
    <3> QED
      BY <1>0, <3>1, Two
  <2> HIDE DEF a, b
  <2> QED
    BY <2>2, <2>3, <2>4, PauseFreeJoined
<1>12. CASE r.path = "/hostile/half-close"
  <2> DEFINE x == Sized({2})
             y == Data(2)
             a == <<x, y>>
             z == Do("shut")
             b == IF c.tls THEN << >> ELSE <<z>>
             w == Pause(100)
             e == <<w>>
  <2>1. ops = (a \o b) \o e
    BY <1>12 DEF HostileOps
  <2>2. /\ x \in OpType /\ x.t = "head" /\ y \in OpType /\ y.t = "data" /\ z \in OpType /\ z.t # "data"
        /\ w \in OpType /\ w.t = "pause"
    <3>1. {2} \in SUBSET Int /\ 2 \in Nat
      OBVIOUS
    <3> QED
      BY <1>0, <3>1
  <2> HIDE DEF x, y, z, w
  <2>3. a \in Seq(OpType)
    BY <2>2
  <2>4. b \in Seq(OpType)
    BY <2>2, SingleStep, SeqNone
  <2>5. e \in Seq(OpType)
    BY <2>2, SingleStep
  <2> HIDE DEF a, b, e
  <2>6. a \o b \in Seq(OpType)
    BY <2>3, <2>4, Joined
  <2> DEFINE f == a \o b
  <2>8. f \in Seq(OpType) /\ ops = f \o e
    BY <2>1, <2>6
  <2> HIDE DEF f
  <2>9. f \o e \in Seq(OpType)
    BY <2>5, <2>8, Joined
  <2> QED
    BY <2>8, <2>9
<1> QED
  BY <1>1, <1>2, <1>3, <1>4, <1>5, <1>6, <1>7, <1>8, <1>9, <1>10, <1>11, <1>12 DEF HostilePaths

\* A plan a handler may make.
IsPlan(p) ==
    /\ p.ops \in Seq(OpType) /\ IsHeader(p.header) /\ p.status \in Int /\ p.end \in {"keep", "fin", "rst"}

\* A handler that does not wait makes such a plan, and takes no time.
LEMMA GoodPlan == ASSUME NEW p, Good(p) PROVE IsPlan(p) /\ Budget(p.ops, Limit)
<1>1. Budget(p.ops, 0)
  BY BudgetFree DEF Good
<1>2. 0 \in Nat /\ Limit \in Nat /\ 0 <= Limit
  BY DEF Limit
<1>3. Budget(p.ops, Limit)
  BY <1>1, <1>2, BudgetMore
<1> QED
  BY <1>3 DEF Good, IsPlan

\* A hijacked connection (hostile.go:132-153) is written to and then closed or reset.
LEMMA HostilePlan ==
    ASSUME NEW r, IsRequest(r), NEW c, r.path \in HostilePaths, NEW p, p = hostile(r, c)
    PROVE  IsPlan(p)
<1> DEFINE slow == r.path = "/hostile/slow-headers"
           ops == HostileOps(r, c)
           end == IF r.path = "/hostile/reset" /\ ~c.tls THEN "rst" ELSE "fin"
<1>0. IsHeader(NoHeader)
  BY Headers
<1>1. ops \in Seq(OpType)
  BY HostileSteps
<1> HIDE DEF ops, slow
<1>2. CASE c.proto = "HTTP/2.0"
  <2> DEFINE e == Error(r, 501)
  <2>1. Good(e)
    BY Plain
  <2>2. p = [e EXCEPT !.checked = slow]
    BY <1>2 DEF hostile, hijacked, slow
  <2>3. p.ops = e.ops /\ p.header = e.header /\ p.status = e.status /\ p.end = e.end
    BY <2>2 DEF Error, Respond
  <2> QED
    BY <2>1, <2>3 DEF Good, IsPlan
<1>3. CASE c.proto # "HTTP/2.0"
  <2> DEFINE e == [status |-> 0, header |-> NoHeader, payload |-> << >>, ops |-> ops, end |-> end,
                   context |-> FALSE, checked |-> FALSE]
  <2>1. p = [e EXCEPT !.checked = slow]
    BY <1>3 DEF hostile, hijacked, slow, ops
  <2>2. p.ops = ops /\ p.header = NoHeader /\ p.status = 0 /\ p.end = end /\ p.checked = slow
    BY <2>1
  <2> QED
    BY <1>0, <1>1, <2>2 DEF IsPlan
<1> QED
  BY <1>2, <1>3

\* So is a connection to the raw listener (hostile.go:179-199).
LEMMA RawPlan ==
    ASSUME NEW r, IsRequest(r), NEW p, p = echoRequestHead(r)
    PROVE  IsPlan(p) /\ Budget(p.ops, Limit) /\ p.end # "keep"
<1> DEFINE n == Min({r.head.size, maxHead})
<1>0. IsHeader(NoHeader) /\ Limit \in Nat /\ 0 \in Nat /\ 0 <= Limit /\ 30000 \in Nat /\ 30000 <= Limit
  <2>1. Limit \in Nat /\ 0 \in Nat /\ 0 <= Limit /\ 30000 \in Nat /\ 30000 <= Limit
    BY DEF Limit
  <2>2. IsHeader(NoHeader)
    BY Headers
  <2> QED
    BY <2>1, <2>2
<1>1. p.header = NoHeader /\ p.status = 200 /\ p.end \in {"fin", "rst"}
  BY DEF echoRequestHead
<1>2. CASE HeadRead(r)
  <2>1. p.ops = <<Sized({n}), Data(n)>>
    BY <1>2 DEF echoRequestHead
  <2>2. n \in Nat
    <3> DEFINE m == r.head.size
    <3>1. m \in Nat
      BY DEF IsRequest
    <3> HIDE DEF m
    <3>2. maxHead \in Nat
      BY DEF maxHead
    <3>3. Min({m, maxHead}) \in Nat
      BY <3>1, <3>2 DEF Min
    <3> QED
      BY <3>3 DEF m
  <2> HIDE DEF n
  <2>3. {n} \in SUBSET Int
    BY <2>2
  <2>4. Sized({n}) \in OpType /\ Sized({n}).t # "pause" /\ Data(n) \in OpType /\ Data(n).t # "pause"
    BY <2>2, <2>3, HostileOpTyped, OpTyped
  <2>5. p.ops \in Seq(OpType) /\ PauseFree(p.ops)
    BY <2>1, <2>4, Two
  <2>6. Budget(p.ops, Limit)
    BY <1>0, <2>5, BudgetFree, BudgetMore
  <2> QED
    BY <1>0, <1>1, <2>5, <2>6 DEF IsPlan
<1>3. CASE ~HeadRead(r)
  <2> DEFINE op == Pause(30000)
  <2>1. p.ops = <<op>>
    BY <1>3 DEF echoRequestHead
  <2>2. op \in OpType /\ op.t = "pause" /\ op.n = 30000
    BY OpTyped
  <2> HIDE DEF op
  <2>3. p.ops \in Seq(OpType)
    BY <2>1, <2>2, SingleStep
  <2>4. Budget(p.ops, Limit)
    BY <1>0, <2>1, <2>2, BudgetOne, BudgetMore
  <2> QED
    BY <1>0, <1>1, <2>3, <2>4 DEF IsPlan
<1> QED
  BY <1>2, <1>3

\* What the mux answers to a path or a method it has no route for.
LEMMA Refused ==
    ASSUME NEW r, NEW c, NEW k
    PROVE  /\ r.path \notin AnyMethod \cup GetOnly => handler(r, c, k) = Error(r, 404)
           /\ r.path \in GetOnly /\ r.method \notin {"GET", "HEAD"} => handler(r, c, k) = Error(r, 405)
<1>1. ASSUME r.path \notin AnyMethod \cup GetOnly PROVE handler(r, c, k) = Error(r, 404)
  BY <1>1, Zenon DEF handler
<1>2. ASSUME r.path \in GetOnly, r.method \notin {"GET", "HEAD"} PROVE handler(r, c, k) = Error(r, 405)
  BY <1>2, Zenon DEF handler
<1> QED
  BY <1>1, <1>2

\* The handler the mux calls (handlers.go:25-68) is one of those above.
LEMMA Routes ==
    ASSUME NEW r, NEW c, NEW k, r.path \in AnyMethod \cup GetOnly,
           r.path \in GetOnly => r.method \in {"GET", "HEAD"}
    PROVE  /\ r.path \in {"/", "/health", "/hostile"} => handler(r, c, k) = Text(r)
           /\ r.path = "/info" => handler(r, c, k) = info(r, c, k)
           /\ r.path = "/ca.pem" => handler(r, c, k) = caPEM(r, k)
           /\ r.path = "/client.pem" => handler(r, c, k) = clientPEM(r, k)
           /\ r.path = "/tls" => handler(r, c, k) = tlsInfo(r, c, k)
           /\ r.path = "/anything" => handler(r, c, k) = anything(r, c, k)
           /\ r.path = "/headers" => handler(r, c, k) = headers(r)
           /\ r.path = "/status" => handler(r, c, k) = status(r, c)
           /\ r.path = "/redirect-to" => handler(r, c, k) = redirectTo(r)
           /\ r.path = "/delay" => handler(r, c, k) = delay(r, c, k)
           /\ r.path = "/bytes" => handler(r, c, k) = bytes(r)
           /\ r.path = "/stream" => handler(r, c, k) = stream(r)
           /\ r.path = "/drip" => handler(r, c, k) = drip(r)
           /\ r.path = "/gzip" => handler(r, c, k) = compressed("gzip", r)
           /\ r.path = "/deflate" => handler(r, c, k) = compressed("deflate", r)
           /\ r.path = "/trailers" => handler(r, c, k) = trailers(r)
           /\ r.path = "/basic-auth" => handler(r, c, k) = basicAuth(r)
           /\ r.path = "/cookies" => handler(r, c, k) = cookies(r)
           /\ r.path = "/cookies/set" => handler(r, c, k) = setCookies(r)
           /\ r.path = "/cache" => handler(r, c, k) = cache(r)
           /\ r.path = "/cache/" => handler(r, c, k) = cacheControl(r)
           /\ r.path \in HostilePaths => handler(r, c, k) = hostile(r, c)
<1>1. ASSUME r.path \in {"/", "/health", "/hostile"} PROVE handler(r, c, k) = Text(r)
  BY <1>1 DEF handler, AnyMethod, GetOnly, HostilePaths
<1>2. ASSUME r.path = "/info" PROVE handler(r, c, k) = info(r, c, k)
  BY <1>2 DEF handler, AnyMethod, GetOnly, HostilePaths
<1>3. ASSUME r.path = "/ca.pem" PROVE handler(r, c, k) = caPEM(r, k)
  BY <1>3 DEF handler, AnyMethod, GetOnly, HostilePaths
<1>4. ASSUME r.path = "/client.pem" PROVE handler(r, c, k) = clientPEM(r, k)
  BY <1>4 DEF handler, AnyMethod, GetOnly, HostilePaths
<1>5. ASSUME r.path = "/tls" PROVE handler(r, c, k) = tlsInfo(r, c, k)
  BY <1>5 DEF handler, AnyMethod, GetOnly, HostilePaths
<1>6. ASSUME r.path = "/anything" PROVE handler(r, c, k) = anything(r, c, k)
  BY <1>6 DEF handler, AnyMethod, GetOnly, HostilePaths
<1>7. ASSUME r.path = "/headers" PROVE handler(r, c, k) = headers(r)
  BY <1>7 DEF handler, AnyMethod, GetOnly, HostilePaths
<1>8. ASSUME r.path = "/status" PROVE handler(r, c, k) = status(r, c)
  BY <1>8 DEF handler, AnyMethod, GetOnly, HostilePaths
<1>9. ASSUME r.path = "/redirect-to" PROVE handler(r, c, k) = redirectTo(r)
  BY <1>9 DEF handler, AnyMethod, GetOnly, HostilePaths
<1>10. ASSUME r.path = "/delay" PROVE handler(r, c, k) = delay(r, c, k)
  BY <1>10 DEF handler, AnyMethod, GetOnly, HostilePaths
<1>11. ASSUME r.path = "/bytes" PROVE handler(r, c, k) = bytes(r)
  BY <1>11 DEF handler, AnyMethod, GetOnly, HostilePaths
<1>12. ASSUME r.path = "/stream" PROVE handler(r, c, k) = stream(r)
  BY <1>12 DEF handler, AnyMethod, GetOnly, HostilePaths
<1>13. ASSUME r.path = "/drip" PROVE handler(r, c, k) = drip(r)
  BY <1>13 DEF handler, AnyMethod, GetOnly, HostilePaths
<1>14. ASSUME r.path = "/gzip" PROVE handler(r, c, k) = compressed("gzip", r)
  BY <1>14 DEF handler, AnyMethod, GetOnly, HostilePaths
<1>15. ASSUME r.path = "/deflate" PROVE handler(r, c, k) = compressed("deflate", r)
  BY <1>15 DEF handler, AnyMethod, GetOnly, HostilePaths
<1>16. ASSUME r.path = "/trailers" PROVE handler(r, c, k) = trailers(r)
  BY <1>16 DEF handler, AnyMethod, GetOnly, HostilePaths
<1>17. ASSUME r.path = "/basic-auth" PROVE handler(r, c, k) = basicAuth(r)
  BY <1>17 DEF handler, AnyMethod, GetOnly, HostilePaths
<1>18. ASSUME r.path = "/cookies" PROVE handler(r, c, k) = cookies(r)
  BY <1>18 DEF handler, AnyMethod, GetOnly, HostilePaths
<1>19. ASSUME r.path = "/cookies/set" PROVE handler(r, c, k) = setCookies(r)
  BY <1>19 DEF handler, AnyMethod, GetOnly, HostilePaths
<1>20. ASSUME r.path = "/cache" PROVE handler(r, c, k) = cache(r)
  BY <1>20 DEF handler, AnyMethod, GetOnly, HostilePaths
<1>21. ASSUME r.path = "/cache/" PROVE handler(r, c, k) = cacheControl(r)
  BY <1>21 DEF handler, AnyMethod, GetOnly, HostilePaths
<1>22. ASSUME r.path \in HostilePaths PROVE handler(r, c, k) = hostile(r, c)
  BY <1>22 DEF handler, AnyMethod, GetOnly, HostilePaths
<1> QED
  BY <1>1, <1>2, <1>3, <1>4, <1>5, <1>6, <1>7, <1>8, <1>9, <1>10, <1>11, <1>12,
     <1>13, <1>14, <1>15, <1>16, <1>17, <1>18, <1>19, <1>20, <1>21, <1>22

\* The two routes of redirects share theirs.
LEMMA RedirectRoutes ==
    ASSUME NEW r, NEW c, NEW k, r.path \in GetOnly, r.method \in {"GET", "HEAD"}
    PROVE  /\ r.path = "/redirect" => handler(r, c, k) = redirect(FALSE, r, c)
           /\ r.path = "/absolute-redirect" => handler(r, c, k) = redirect(TRUE, r, c)
<1>1. ASSUME r.path = "/redirect" PROVE handler(r, c, k) = redirect(FALSE, r, c)
  BY <1>1, Zenon DEF handler, AnyMethod, GetOnly, HostilePaths
<1>2. ASSUME r.path = "/absolute-redirect" PROVE handler(r, c, k) = redirect(TRUE, r, c)
  BY <1>2, Zenon DEF handler, AnyMethod, GetOnly, HostilePaths
<1> QED
  BY <1>1, <1>2, Zenon

\* Whatever is asked of it, the server makes a plan, and through net/http one of at most
\* two minutes.
LEMMA Handled ==
    ASSUME NEW r, IsRequest(r), NEW c, NEW k, NEW p, p = handler(r, c, k)
    PROVE  IsPlan(p) /\ (r.path \notin HostilePaths => Budget(p.ops, Limit))
<1> DEFINE known == r.path \in AnyMethod \cup GetOnly /\ (r.path \in GetOnly => r.method \in {"GET", "HEAD"})
<1>1. CASE ~known
  <2>1. p = Error(r, 404) \/ p = Error(r, 405)
    BY <1>1, Refused
  <2>2. Good(p)
    BY <2>1, Plain
  <2> QED
    BY <2>2, GoodPlan
<1>2. CASE known
  <2>1. CASE r.path \in HostilePaths
    <3>1. p = hostile(r, c)
      BY <1>2, <2>1, Routes
    <3> QED
      BY <2>1, <3>1, HostilePlan
  <2>2. CASE r.path = "/delay"
    <3>1. p = delay(r, c, k)
      BY <1>2, <2>2, Routes
    <3>2. /\ p.ops \in Seq(OpType) /\ Budget(p.ops, Limit)
          /\ p.end = "keep" /\ p.status \in Int /\ IsHeader(p.header)
      BY <3>1, DelayPlan
    <3> QED
      BY <3>2 DEF IsPlan
  <2>3. CASE r.path = "/drip"
    <3>1. p = drip(r)
      BY <1>2, <2>3, Routes
    <3>2. p.ops \in Seq(OpType) /\ Budget(p.ops, Limit)
      BY <3>1, DripPlan
    <3>3. p.checked = TRUE /\ p.end = "keep" /\ p.status = 200 /\ p.header = NoHeader
      BY <3>1 DEF drip, Paced, Respond
    <3>4. IsHeader(NoHeader)
      BY Headers
    <3> QED
      BY <3>2, <3>3, <3>4 DEF IsPlan
  <2>4. CASE r.path \notin HostilePaths \cup {"/delay", "/drip"}
    <3>1. ASSUME r.path \in {"/", "/health", "/hostile"} PROVE Good(p)
      <4>1. p = Text(r)
        BY <1>2, <3>1, Routes
      <4>2. Good(Text(r))
        BY Answers
      <4> QED
        BY <4>1, <4>2
    <3>2. ASSUME r.path = "/info" PROVE Good(p)
      <4>1. p = info(r, c, k)
        BY <1>2, <3>2, Routes
      <4>2. Good(info(r, c, k))
        BY ServersGood
      <4> QED
        BY <4>1, <4>2
    <3>3. ASSUME r.path = "/ca.pem" PROVE Good(p)
      <4>1. p = caPEM(r, k)
        BY <1>2, <3>3, Routes
      <4>2. Good(caPEM(r, k))
        BY ServersGood
      <4> QED
        BY <4>1, <4>2
    <3>4. ASSUME r.path = "/client.pem" PROVE Good(p)
      <4>1. p = clientPEM(r, k)
        BY <1>2, <3>4, Routes
      <4>2. Good(clientPEM(r, k))
        BY ServersGood
      <4> QED
        BY <4>1, <4>2
    <3>5. ASSUME r.path = "/tls" PROVE Good(p)
      <4>1. p = tlsInfo(r, c, k)
        BY <1>2, <3>5, Routes
      <4>2. Good(tlsInfo(r, c, k))
        BY ServersGood
      <4> QED
        BY <4>1, <4>2
    <3>6. ASSUME r.path = "/anything" PROVE Good(p)
      <4>1. p = anything(r, c, k)
        BY <1>2, <3>6, Routes
      <4>2. Good(anything(r, c, k))
        BY AnythingGood
      <4> QED
        BY <4>1, <4>2
    <3>7. ASSUME r.path = "/headers" PROVE Good(p)
      <4>1. p = headers(r)
        BY <1>2, <3>7, Routes
      <4>2. Good(headers(r))
        BY CookiesGood
      <4> QED
        BY <4>1, <4>2
    <3>8. ASSUME r.path = "/status" PROVE Good(p)
      <4>1. p = status(r, c)
        BY <1>2, <3>8, Routes
      <4>2. Good(status(r, c))
        BY StatusGood
      <4> QED
        BY <4>1, <4>2
    <3>9. ASSUME r.path = "/redirect" PROVE Good(p)
      <4>1. p = redirect(FALSE, r, c)
        <5>1. r.path \in GetOnly
          BY <3>9 DEF GetOnly
        <5> QED
          BY <1>2, <3>9, <5>1, RedirectRoutes
      <4>2. Good(redirect(FALSE, r, c))
        BY RedirectGood
      <4> QED
        BY <4>1, <4>2
    <3>10. ASSUME r.path = "/absolute-redirect" PROVE Good(p)
      <4>1. p = redirect(TRUE, r, c)
        <5>1. r.path \in GetOnly
          BY <3>10 DEF GetOnly
        <5> QED
          BY <1>2, <3>10, <5>1, RedirectRoutes
      <4>2. Good(redirect(TRUE, r, c))
        BY RedirectGood
      <4> QED
        BY <4>1, <4>2
    <3>11. ASSUME r.path = "/redirect-to" PROVE Good(p)
      <4>1. p = redirectTo(r)
        BY <1>2, <3>11, Routes
      <4>2. Good(redirectTo(r))
        BY RedirectToGood
      <4> QED
        BY <4>1, <4>2
    <3>12. ASSUME r.path = "/bytes" PROVE Good(p)
      <4>1. p = bytes(r)
        BY <1>2, <3>12, Routes
      <4>2. Good(bytes(r))
        BY BytesGood
      <4> QED
        BY <4>1, <4>2
    <3>13. ASSUME r.path = "/stream" PROVE Good(p)
      <4>1. p = stream(r)
        BY <1>2, <3>13, Routes
      <4>2. Good(stream(r))
        BY StreamGood
      <4> QED
        BY <4>1, <4>2
    <3>14. ASSUME r.path = "/gzip" PROVE Good(p)
      <4>1. p = compressed("gzip", r)
        BY <1>2, <3>14, Routes
      <4>2. Good(compressed("gzip", r))
        BY CompressedGood
      <4> QED
        BY <4>1, <4>2
    <3>15. ASSUME r.path = "/deflate" PROVE Good(p)
      <4>1. p = compressed("deflate", r)
        BY <1>2, <3>15, Routes
      <4>2. Good(compressed("deflate", r))
        BY CompressedGood
      <4> QED
        BY <4>1, <4>2
    <3>16. ASSUME r.path = "/trailers" PROVE Good(p)
      <4>1. p = trailers(r)
        BY <1>2, <3>16, Routes
      <4>2. Good(trailers(r))
        BY TrailersGood
      <4> QED
        BY <4>1, <4>2
    <3>17. ASSUME r.path = "/basic-auth" PROVE Good(p)
      <4>1. p = basicAuth(r)
        BY <1>2, <3>17, Routes
      <4>2. Good(basicAuth(r))
        BY BasicAuthGood
      <4> QED
        BY <4>1, <4>2
    <3>18. ASSUME r.path = "/cookies" PROVE Good(p)
      <4>1. p = cookies(r)
        BY <1>2, <3>18, Routes
      <4>2. Good(cookies(r))
        BY CookiesGood
      <4> QED
        BY <4>1, <4>2
    <3>19. ASSUME r.path = "/cookies/set" PROVE Good(p)
      <4>1. p = setCookies(r)
        BY <1>2, <3>19, Routes
      <4>2. Good(setCookies(r))
        BY CookiesGood
      <4> QED
        BY <4>1, <4>2
    <3>20. ASSUME r.path = "/cache" PROVE Good(p)
      <4>1. p = cache(r)
        BY <1>2, <3>20, Routes
      <4>2. Good(cache(r))
        BY CacheGood
      <4> QED
        BY <4>1, <4>2
    <3>21. ASSUME r.path = "/cache/" PROVE Good(p)
      <4>1. p = cacheControl(r)
        BY <1>2, <3>21, Routes
      <4>2. Good(cacheControl(r))
        BY CacheGood
      <4> QED
        BY <4>1, <4>2
    <3>22. Good(p)
      BY <1>2, <2>4, <3>1, <3>2, <3>3, <3>4, <3>5, <3>6, <3>7, <3>8, <3>9, <3>10, <3>11,
         <3>12, <3>13, <3>14, <3>15, <3>16, <3>17, <3>18, <3>19, <3>20, <3>21
         DEF AnyMethod, GetOnly
    <3> QED
      BY <3>22, GoodPlan
  <2> QED
    BY <2>1, <2>2, <2>3, <2>4
<1> QED
  BY <1>1, <1>2

-----------------------------------------------------------------------------
(* Calls and the connection they are on *)

\* A connection as Opened makes it, and perhaps no longer open.
IsConn(c) ==
    /\ c = [listener |-> c.listener, open |-> c.open, tls |-> c.tls, base |-> c.base, proxied |-> c.proxied,
            proto |-> c.proto, version |-> c.version, alpn |-> c.alpn, offer |-> c.offer]
    /\ c.open \in BOOLEAN /\ c.tls \in BOOLEAN /\ c.proxied \in BOOLEAN
    /\ c.base = <<IF c.tls \/ c.proxied THEN "https" ELSE "http", c.base[2]>>
    /\ c.offer.extensions \in Seq(Nat)

\* The connection when its requests arrived, which is how the handlers saw it.
Seen(c) == [c EXCEPT !.open = TRUE]

\* The plan that is made of the request r.
PlanOf(c, k, r) == IF c.listener = "raw" THEN echoRequestHead(r) ELSE handler(r, Seen(c), k)

\* What a call keeps.
CallFields == {"first", "req", "hops", "pos", "end", "gone", "elapsed", "plan"}

\* A call under way on c while the server has the certificates k.
Live(c, k, x) ==
    /\ DOMAIN x = CallFields
    /\ x.hops \in Nat /\ x.elapsed \in Nat /\ x.gone \in BOOLEAN
    /\ x.pos \in Nat /\ x.pos <= Len(x.plan.ops)
    /\ x.end \in {"run", "gone", "keep", "fin", "rst"} /\ (x.end \notin {"run", "gone"} => x.end = x.plan.end)
    /\ IsRequest(x.req) /\ x.req.host = c.base[2] /\ x.req.forwarded = (IF c.proxied THEN {"https"} ELSE {})
    /\ x.plan = PlanOf(c, k, x.req)
    /\ x.hops = 0 => /\ x.first.path = x.req.path /\ x.first.method = x.req.method
                     /\ x.first.arg = x.req.arg /\ x.first.pairs = x.req.pairs
    /\ x.hops > 0 => c.listener # "raw"
    /\ x.first.arg \in Number

\* What a request has.
RequestFields ==
    {"method", "path", "arg", "query", "target", "pairs", "want", "host", "head", "forwarded", "ifNoneMatch",
     "ifModifiedSince", "authorization", "cookies", "body"}

\* A new request has these fields and no others.
LEMMA RequestDomain == ASSUME NEW m, NEW p, NEW a PROVE DOMAIN NewRequest(m, p, a) = RequestFields
  BY DEF NewRequest, RequestFields

\* The request that arrives differs from the one sent in what the connection determines.
LEMMA RequestSent ==
    ASSUME NEW r, IsRequest(r), NEW h, NEW f, NEW req, req = [r EXCEPT !.host = h, !.forwarded = f]
    PROVE  /\ IsRequest(req)
           /\ req.host = h /\ req.forwarded = f
           /\ \A x \in RequestFields \ {"host", "forwarded"} : req[x] = r[x]
<1>1. DOMAIN r = RequestFields
  BY RequestDomain DEF IsRequest
<1>2. req.host = h /\ req.forwarded = f /\ DOMAIN req = DOMAIN r
  BY <1>1 DEF RequestFields
<1>3. \A x \in RequestFields \ {"host", "forwarded"} : req[x] = r[x]
  BY <1>1 DEF RequestFields
<1>4. /\ req.arg = r.arg /\ req.query = r.query /\ req.target = r.target /\ req.head = r.head /\ req.body = r.body
      /\ req.pairs = r.pairs /\ req.cookies = r.cookies
  BY <1>3 DEF RequestFields
<1>5. IsRequest(req)
  BY <1>2, <1>4 DEF IsRequest
<1> QED
  BY <1>2, <1>3, <1>5

\* The requests that follow a redirect, a challenge and an entity with validators.
Redirected(m, p, a, cs) == [NewRequest(m, p, a) EXCEPT !.cookies = cs]
Authorized(q, a) == [q EXCEPT !.authorization = a]
Validating(q, etag, modified) == [q EXCEPT !.ifNoneMatch = etag, !.ifModifiedSince = modified]

\* A request to the target of a redirect is one.
LEMMA RequestRedirected ==
    ASSUME NEW m, NEW p, NEW a \in Number, NEW cs, cs \in Seq(Range(cs)), NEW r, r = Redirected(m, p, a, cs)
    PROVE  /\ IsRequest(r)
           /\ r.method = m /\ r.path = p /\ r.arg = a /\ r.cookies = cs /\ r.body.whole
<1>1. /\ r.method = m /\ r.path = p /\ r.arg = a /\ r.cookies = cs /\ r.pairs = << >> /\ r.target = {}
      /\ r.query = [k \in QueryKeys |-> {}]
      /\ r.head = [size |-> 40, ends |-> "blank"]
      /\ r.body = [length |-> 0, charSize |-> 1, whole |-> TRUE]
  BY DEF NewRequest, Redirected
<1>2. DOMAIN r = DOMAIN NewRequest("", "", NaN)
  BY RequestDomain DEF Redirected
<1>3. << >> \in Seq(Range(<< >>))
  OBVIOUS
<1>4. /\ r.query \in [QueryKeys -> SUBSET Number]
      /\ r.head \in [size : Nat, ends : HeadEnds] /\ r.body \in [length : Nat, charSize : Nat, whole : BOOLEAN]
  <2>1. r.query \in [QueryKeys -> SUBSET Number]
    BY <1>1
  <2>2. [size |-> 40, ends |-> "blank"] \in [size : Nat, ends : HeadEnds]
    BY DEF HeadEnds
  <2>3. [length |-> 0, charSize |-> 1, whole |-> TRUE] \in [length : Nat, charSize : Nat, whole : BOOLEAN]
    OBVIOUS
  <2> QED
    BY <1>1, <2>1, <2>2, <2>3
<1>5. r.body.whole
  BY <1>1
<1>6. IsRequest(r)
  BY <1>1, <1>2, <1>3, <1>4 DEF IsRequest
<1> QED
  BY <1>1, <1>5, <1>6

\* A request repeated with credentials or with validators is one.
LEMMA RequestRepeated ==
    ASSUME NEW q, IsRequest(q), NEW a, NEW etag, NEW modified,
           NEW r \in {Authorized(q, a), Validating(q, etag, modified)}
    PROVE  /\ IsRequest(r) /\ r.path = q.path /\ r.method = q.method
           /\ r = Validating(q, etag, modified) => r.ifNoneMatch = etag
<1>1. DOMAIN q = RequestFields
  BY RequestDomain DEF IsRequest
<1>2. /\ r.arg = q.arg /\ r.query = q.query /\ r.target = q.target /\ r.head = q.head /\ r.body = q.body
      /\ r.pairs = q.pairs /\ r.cookies = q.cookies /\ DOMAIN r = DOMAIN q
      /\ r.path = q.path /\ r.method = q.method
  BY <1>1 DEF RequestFields, Authorized, Validating
<1>3. r = Validating(q, etag, modified) => r.ifNoneMatch = etag
  BY <1>1 DEF RequestFields, Validating
<1>4. IsRequest(r)
  BY <1>2 DEF IsRequest
<1> QED
  BY <1>2, <1>3, <1>4

\* A connection that was just opened.
LEMMA ConnOpened ==
    ASSUME NEW listener, NEW tls \in BOOLEAN, NEW host, NEW proxied \in BOOLEAN, NEW version, NEW alpn, NEW offer,
           offer.extensions \in Seq(Nat), NEW base, base = <<IF tls \/ proxied THEN "https" ELSE "http", host>>,
           NEW c, c = Opened(listener, tls, base, proxied, version, alpn, offer)
    PROVE  IsConn(c) /\ c # NoConn
<1>1. c = [listener |-> listener, open |-> TRUE, tls |-> tls, base |-> base, proxied |-> proxied,
           proto |-> c.proto, version |-> version, alpn |-> alpn, offer |-> offer]
  BY DEF Opened
<1>2. base[2] = host
  OBVIOUS
<1>3. c # NoConn
  <2>1. "tls" \in DOMAIN c /\ "tls" \notin DOMAIN NoConn
    BY <1>1 DEF NoConn
  <2> QED
    BY <2>1
<1>4. c.tls = tls /\ c.proxied = proxied /\ c.base = base /\ c.open = TRUE /\ c.offer = offer
  BY <1>1
<1>5. IsConn(c)
  <2>1. c.base = <<IF c.tls \/ c.proxied THEN "https" ELSE "http", c.base[2]>>
    BY <1>2, <1>4
  <2>2. c = [listener |-> c.listener, open |-> c.open, tls |-> c.tls, base |-> c.base, proxied |-> c.proxied,
            proto |-> c.proto, version |-> c.version, alpn |-> c.alpn, offer |-> c.offer]
    BY <1>1
  <2> QED
    BY <1>4, <2>1, <2>2 DEF IsConn
<1> QED
  BY <1>3, <1>5

\* Closing a connection changes nothing else about it.
LEMMA ConnSeen ==
    ASSUME NEW c, IsConn(c), NEW open \in BOOLEAN, NEW d, d = [c EXCEPT !.open = open]
    PROVE  /\ IsConn(d) /\ d.open = open /\ Seen(d) = Seen(c) /\ d # NoConn
           /\ d.listener = c.listener /\ d.tls = c.tls /\ d.base = c.base /\ d.proxied = c.proxied
           /\ d.proto = c.proto /\ d.version = c.version /\ d.alpn = c.alpn /\ d.offer = c.offer
<1>1. DOMAIN c = {"listener", "open", "tls", "base", "proxied", "proto", "version", "alpn", "offer"}
  BY DEF IsConn
<1>2. /\ d.open = open
      /\ d.listener = c.listener /\ d.tls = c.tls /\ d.base = c.base /\ d.proxied = c.proxied
      /\ d.proto = c.proto /\ d.version = c.version /\ d.alpn = c.alpn /\ d.offer = c.offer
  BY <1>1
<1>3. d = [listener |-> d.listener, open |-> d.open, tls |-> d.tls, base |-> d.base, proxied |-> d.proxied,
            proto |-> d.proto, version |-> d.version, alpn |-> d.alpn, offer |-> d.offer]
  <2>1. d = [[listener |-> c.listener, open |-> c.open, tls |-> c.tls, base |-> c.base, proxied |-> c.proxied,
            proto |-> c.proto, version |-> c.version, alpn |-> c.alpn, offer |-> c.offer] EXCEPT !.open = open]
    BY DEF IsConn
  <2> QED
    BY <2>1
<1>4. IsConn(d)
  BY <1>2, <1>3 DEF IsConn
<1>5. Seen(d) = Seen(c)
  BY <1>2, <1>3 DEF IsConn, Seen
<1>6. d # NoConn
  <2>1. "tls" \in DOMAIN d /\ "tls" \notin DOMAIN NoConn
    BY <1>1 DEF NoConn
  <2> QED
    BY <2>1
<1> QED
  BY <1>2, <1>4, <1>5, <1>6

\* The handlers see the protocol, the version and the offer of the connection itself.
LEMMA SeenOpen ==
    ASSUME NEW c, IsConn(c)
    PROVE  /\ c.open => Seen(c) = c
           /\ Seen(c).tls = c.tls /\ Seen(c).proto = c.proto /\ Seen(c).offer = c.offer
<1>1. c.open \in BOOLEAN /\ c = [listener |-> c.listener, open |-> c.open, tls |-> c.tls, base |-> c.base, proxied |-> c.proxied,
            proto |-> c.proto, version |-> c.version, alpn |-> c.alpn, offer |-> c.offer]
  BY DEF IsConn
<1>2. ASSUME c.open PROVE Seen(c) = c
  <2>1. c.open = TRUE
    BY <1>1, <1>2
  <2> QED
    BY <1>1, <2>1 DEF Seen
<1>3. Seen(c).tls = c.tls /\ Seen(c).proto = c.proto /\ Seen(c).offer = c.offer
  BY ConnSeen DEF Seen
<1> QED
  BY <1>2, <1>3

\* What a call has waited so far fits into what its plan may take.
Timely(x) ==
    x.req.path \notin HostilePaths =>
        \E W : /\ Fits(W, x.plan.ops, Limit) /\ x.elapsed <= Limit
               /\ x.end = "run" => x.elapsed <= W[x.pos]

\* Where a chain of redirects is: each hop took one off the number.
Chain(c, x) ==
    x.first.method = "GET" /\ x.first.path \in {"/redirect", "/absolute-redirect"} /\ c.listener # "raw" =>
        LET n == x.first.arg
        IN /\ x.req.method = "GET"
           /\ IF Outside(n, 1, 100) THEN x.hops = 0 /\ x.req.path = x.first.path /\ x.req.arg = n
              ELSE /\ x.hops <= n.v
                   /\ x.hops < n.v => x.req.path = x.first.path /\ x.req.arg = Num(n.v - x.hops)
                   /\ x.hops = n.v => x.req.path = "/anything" /\ x.req.body.whole

\* What the client brings back on its second request is what the first was answered with.
Trip(x) ==
    /\ x.first.path = "/cookies/set" /\ x.hops > 0 =>
        x.req.path = "/cookies" /\ x.req.cookies = x.first.pairs /\ x.req.method \in {"GET", "HEAD"}
    /\ x.first.path \in {"/cache", "/basic-auth"} =>
        x.req.path = x.first.path /\ (x.hops > 0 => x.req.method \in {"GET", "HEAD"})
    /\ x.first.path = "/cache" /\ x.hops > 0 => x.req.ifNoneMatch = {"okhttp-testbed"}

\* A call in any state, of which all that holds.
Underway(c, k, x) == Live(c, k, x) /\ Timely(x) /\ Chain(c, x) /\ Trip(x)

\* The plan of a call is one, and so its steps are.
LEMMA LivePlan ==
    ASSUME NEW c, NEW k, NEW x, Live(c, k, x)
    PROVE  /\ IsPlan(x.plan) /\ (x.req.path \notin HostilePaths => Budget(x.plan.ops, Limit))
           /\ c.listener = "raw" => x.plan.end # "keep"
<1>1. IsRequest(x.req) /\ x.plan = PlanOf(c, k, x.req)
  BY DEF Live
<1>2. CASE c.listener = "raw"
  <2>1. x.plan = echoRequestHead(x.req)
    BY <1>1, <1>2 DEF PlanOf
  <2> QED
    BY <1>1, <2>1, RawPlan
<1>3. CASE c.listener # "raw"
  <2>1. x.plan = handler(x.req, Seen(c), k)
    BY <1>1, <1>3 DEF PlanOf
  <2> QED
    BY <1>1, <1>3, <2>1, Handled
<1> QED
  BY <1>2, <1>3

\* A call does not depend on whether its connection is still open.
LEMMA LiveReopened ==
    ASSUME NEW c, IsConn(c), NEW open \in BOOLEAN, NEW d, d = [c EXCEPT !.open = open], NEW k, NEW x, Underway(c, k, x)
    PROVE  Underway(d, k, x)
<1>1. d.listener = c.listener /\ d.base = c.base /\ d.proxied = c.proxied /\ Seen(d) = Seen(c)
  BY ConnSeen
<1>2. PlanOf(d, k, x.req) = PlanOf(c, k, x.req)
  BY <1>1 DEF PlanOf
<1>3. Live(d, k, x)
  BY <1>1, <1>2 DEF Live, Underway
<1>4. Chain(d, x)
  BY <1>1 DEF Chain, Underway
<1> QED
  BY <1>3, <1>4 DEF Underway

\* A step of a call that leaves its request and its plan alone.
LEMMA LiveMoved ==
    ASSUME NEW c, NEW k, NEW x, Live(c, k, x), Chain(c, x), Trip(x), NEW y, DOMAIN y = CallFields,
           y.first = x.first, y.req = x.req, y.hops = x.hops, y.plan = x.plan,
           y.elapsed \in Nat, y.gone \in BOOLEAN, y.pos \in Nat, y.pos <= Len(x.plan.ops),
           y.end \in {"run", "gone", "keep", "fin", "rst"}, y.end \notin {"run", "gone"} => y.end = x.plan.end
    PROVE  Live(c, k, y) /\ Chain(c, y) /\ Trip(y)
<1>1. Live(c, k, y)
  BY DEF Live
<1>2. Chain(c, y)
  BY DEF Chain
<1>3. Trip(y)
  BY DEF Trip
<1> QED
  BY <1>1, <1>2, <1>3

\* And one after which the handler still runs.
LEMMA LiveRunning ==
    ASSUME NEW c, NEW k, NEW x, Live(c, k, x), Chain(c, x), Trip(x), NEW y, DOMAIN y = CallFields,
           y.first = x.first, y.req = x.req, y.hops = x.hops, y.plan = x.plan,
           y.elapsed \in Nat, y.gone \in BOOLEAN, y.pos \in Nat, y.pos <= Len(x.plan.ops),
           y.end = "run"
    PROVE  Live(c, k, y) /\ Chain(c, y) /\ Trip(y)
<1>1. y.end \in {"run", "gone", "keep", "fin", "rst"} /\ (y.end \notin {"run", "gone"} => y.end = x.plan.end)
  OBVIOUS
<1> QED
  BY <1>1, LiveMoved

\* The step after the ones taken is a step of the plan.
LEMMA NextStep ==
    ASSUME NEW c, NEW k, NEW x, Live(c, k, x), x.pos < Len(x.plan.ops), NEW op, op = x.plan.ops[x.pos + 1]
    PROVE  /\ op \in OpType /\ x.pos + 1 \in 1..Len(x.plan.ops) /\ x.pos + 1 \in DOMAIN x.plan.ops
           /\ Len(x.plan.ops) \in Nat /\ x.plan.ops \in Seq(OpType)
<1>1. x.plan.ops \in Seq(OpType)
  BY LivePlan DEF IsPlan
<1> DEFINE ops == x.plan.ops
           n == x.pos
<1>2. ops \in Seq(OpType) /\ n \in Nat /\ n < Len(ops) /\ op = ops[n + 1]
  BY <1>1 DEF Live
<1> HIDE DEF ops, n
<1>3. Len(ops) \in Nat /\ DOMAIN ops = 1..Len(ops)
  BY <1>2, LenProperties
<1>4. n + 1 \in 1..Len(ops)
  BY <1>2, <1>3
<1>5. op \in OpType
  BY <1>2, <1>4, ElementOfSeq
<1> QED
  BY <1>2, <1>3, <1>4, <1>5 DEF ops, n

\* One more step of a plan that fits into its limit still fits.
LEMMA Within ==
    ASSUME NEW W, NEW ops \in Seq(OpType), NEW limit \in Nat, Fits(W, ops, limit),
           NEW n \in Nat, n < Len(ops), NEW e \in Nat, e <= W[n], NEW d \in Nat, d = Cost(ops[n + 1])
    PROVE  e + d <= W[n + 1] /\ e + d <= limit
<1> DEFINE m == Len(ops)
<1>1. m \in Nat /\ n < m
  BY LenProperties
<1>2. W \in [0..m -> 0..limit] /\ \A i \in 1..m : W[i - 1] + Cost(ops[i]) <= W[i]
  BY DEF Fits
<1> HIDE DEF m
<1>3. n + 1 \in 1..m /\ n \in 0..m /\ n + 1 \in 0..m /\ (n + 1) - 1 = n
  BY <1>1
<1>4. W[n] + d <= W[n + 1]
  BY <1>2, <1>3
<1>5. W[n] \in 0..limit /\ W[n + 1] \in 0..limit
  BY <1>2, <1>3
<1> DEFINE u == W[n]
           v == W[n + 1]
<1>6. u \in 0..limit /\ v \in 0..limit /\ u + d <= v /\ e <= u
  BY <1>4, <1>5
<1> HIDE DEF u, v
<1>7. e + d <= v /\ e + d <= limit
  BY <1>6
<1> QED
  BY <1>7 DEF v

\* Elapse: a timer fires.
LEMMA Paused ==
    ASSUME NEW c, NEW k, NEW x, Underway(c, k, x), x.end = "run", x.pos < Len(x.plan.ops),
           NEW op, op = x.plan.ops[x.pos + 1], op.t = "pause",
           NEW y, y = [x EXCEPT !.pos = x.pos + 1, !.elapsed = x.elapsed + op.n]
    PROVE  Underway(c, k, y)
<1>0. Live(c, k, x) /\ Timely(x) /\ Chain(c, x) /\ Trip(x) /\ DOMAIN x = CallFields
  BY DEF Underway, Live
<1>1. op \in OpType /\ x.pos + 1 \in 1..Len(x.plan.ops) /\ Len(x.plan.ops) \in Nat
  BY <1>0, NextStep
<1>2. op.n \in Nat /\ Cost(op) = op.n
  BY <1>1 DEF OpType, Cost
<1>3. x.pos \in Nat /\ x.elapsed \in Nat
  BY <1>0 DEF Live
<1>4. /\ y.first = x.first /\ y.req = x.req /\ y.hops = x.hops /\ y.plan = x.plan /\ y.end = x.end
      /\ y.gone = x.gone /\ DOMAIN y = CallFields /\ y.pos = x.pos + 1 /\ y.elapsed = x.elapsed + op.n
  BY <1>0 DEF CallFields
<1>5. Live(c, k, y) /\ Chain(c, y) /\ Trip(y)
  <2>1. y.pos \in Nat /\ y.pos <= Len(x.plan.ops) /\ y.elapsed \in Nat
    <3>1. x.pos + 1 \in Nat /\ x.pos + 1 <= Len(x.plan.ops) /\ x.elapsed + op.n \in Nat
      BY <1>1, <1>2, <1>3
    <3> QED
      BY <1>4, <3>1
  <2>2. y.gone \in BOOLEAN /\ y.end = "run"
    BY <1>0, <1>4 DEF Live
  <2>3. y.first = x.first /\ y.req = x.req /\ y.hops = x.hops /\ y.plan = x.plan /\ DOMAIN y = CallFields
    BY <1>4
  <2> QED
    BY <1>0, <2>1, <2>2, <2>3, LiveRunning
<1>6. Timely(y)
  <2> SUFFICES ASSUME x.req.path \notin HostilePaths
               PROVE  \E W : /\ Fits(W, x.plan.ops, Limit) /\ y.elapsed <= Limit
                             /\ y.elapsed <= W[y.pos]
    BY <1>4 DEF Timely
  <2>1. PICK W : Fits(W, x.plan.ops, Limit) /\ x.elapsed <= W[x.pos]
    BY <1>0 DEF Timely
  <2> DEFINE ops == x.plan.ops
             n == x.pos
             e == x.elapsed
             d == op.n
  <2>2. /\ ops \in Seq(OpType) /\ Limit \in Nat /\ Fits(W, ops, Limit) /\ n \in Nat /\ n < Len(ops)
        /\ e \in Nat /\ e <= W[n] /\ d \in Nat /\ d = Cost(ops[n + 1])
    <3>1. Limit \in Nat
      BY DEF Limit
    <3> QED
      BY <1>0, <1>1, <1>2, <1>3, <2>1, <3>1, NextStep
  <2> HIDE DEF ops, n, e, d
  <2>3. e + d <= W[n + 1] /\ e + d <= Limit
    BY <2>2, Within
  <2>4. y.elapsed = e + d /\ y.pos = n + 1
    BY <1>3, <1>4 DEF n, e, d
  <2> QED
    BY <2>1, <2>3, <2>4
<1> QED
  BY <1>5, <1>6 DEF Underway

\* Elapse, Write: a handler that sees the request's context done, or its write fail,
\* gives up.
LEMMA GivenUp ==
    ASSUME NEW c, NEW k, NEW x, Underway(c, k, x), NEW y, y = [x EXCEPT !.end = "gone"]
    PROVE  Underway(c, k, y)
<1>0. Live(c, k, x) /\ Timely(x) /\ Chain(c, x) /\ Trip(x) /\ DOMAIN x = CallFields
  BY DEF Underway, Live
<1>1. /\ y.first = x.first /\ y.req = x.req /\ y.hops = x.hops /\ y.plan = x.plan /\ y.end = "gone"
      /\ y.gone = x.gone /\ DOMAIN y = CallFields /\ y.pos = x.pos /\ y.elapsed = x.elapsed
  BY <1>0 DEF CallFields
<1>2. Live(c, k, y) /\ Chain(c, y) /\ Trip(y)
  <2>1. y.pos \in Nat /\ y.pos <= Len(x.plan.ops) /\ y.elapsed \in Nat /\ y.gone \in BOOLEAN
    BY <1>0, <1>1 DEF Live
  <2> QED
    BY <1>0, <1>1, <2>1, LiveMoved
<1>3. Timely(y)
  BY <1>0, <1>1 DEF Timely
<1> QED
  BY <1>2, <1>3 DEF Underway

\* Leave: the client cancels its call.
LEMMA Left ==
    ASSUME NEW c, NEW k, NEW x, Underway(c, k, x), NEW y, y = [x EXCEPT !.gone = TRUE]
    PROVE  Underway(c, k, y)
<1>0. Live(c, k, x) /\ Timely(x) /\ Chain(c, x) /\ Trip(x) /\ DOMAIN x = CallFields
  BY DEF Underway, Live
<1>1. /\ y.first = x.first /\ y.req = x.req /\ y.hops = x.hops /\ y.plan = x.plan /\ y.end = x.end
      /\ y.gone = TRUE /\ DOMAIN y = CallFields /\ y.pos = x.pos /\ y.elapsed = x.elapsed
  BY <1>0 DEF CallFields
<1>2. Live(c, k, y) /\ Chain(c, y) /\ Trip(y)
  <2>1. y.pos \in Nat /\ y.pos <= Len(x.plan.ops) /\ y.elapsed \in Nat /\ y.gone \in BOOLEAN
    BY <1>0, <1>1 DEF Live
  <2>2. y.end \in {"run", "gone", "keep", "fin", "rst"} /\ (y.end \notin {"run", "gone"} => y.end = x.plan.end)
    BY <1>0, <1>1 DEF Live
  <2> QED
    BY <1>0, <1>1, <2>1, <2>2, LiveMoved
<1>3. Timely(y)
  BY <1>0, <1>1 DEF Timely
<1> QED
  BY <1>2, <1>3 DEF Underway

\* Return: the handler returns, and the client got some of what it wrote.
LEMMA Returned ==
    ASSUME NEW c, NEW k, NEW x, Underway(c, k, x), NEW got \in Nat, got <= x.pos,
           NEW y, y = [x EXCEPT !.end = x.plan.end, !.pos = got]
    PROVE  Underway(c, k, y)
<1>0. Live(c, k, x) /\ Timely(x) /\ Chain(c, x) /\ Trip(x) /\ DOMAIN x = CallFields
  BY DEF Underway, Live
<1>1. /\ y.first = x.first /\ y.req = x.req /\ y.hops = x.hops /\ y.plan = x.plan /\ y.end = x.plan.end
      /\ y.gone = x.gone /\ DOMAIN y = CallFields /\ y.pos = got /\ y.elapsed = x.elapsed
  BY <1>0 DEF CallFields
<1>2. y.end \in {"keep", "fin", "rst"} /\ x.plan.ops \in Seq(OpType)
  BY <1>0, <1>1, LivePlan DEF IsPlan
<1>3. Live(c, k, y) /\ Chain(c, y) /\ Trip(y)
  <2>0. Len(x.plan.ops) \in Nat
    BY <1>2, LenProperties
  <2>1. y.pos \in Nat /\ y.pos <= Len(x.plan.ops) /\ y.elapsed \in Nat /\ y.gone \in BOOLEAN
    BY <1>0, <1>1, <2>0 DEF Live
  <2> QED
    BY <1>0, <1>1, <1>2, <2>1, LiveMoved
<1>4. Timely(y)
  BY <1>0, <1>1, <1>2 DEF Timely
<1> QED
  BY <1>3, <1>4 DEF Underway

\* Write: a write succeeds.
LEMMA Written ==
    ASSUME NEW c, NEW k, NEW x, Underway(c, k, x), x.end = "run", x.pos < Len(x.plan.ops),
           NEW op, op = x.plan.ops[x.pos + 1], op.t # "pause",
           NEW y, y = [x EXCEPT !.pos = x.pos + 1]
    PROVE  Underway(c, k, y)
<1>0. Live(c, k, x) /\ Timely(x) /\ Chain(c, x) /\ Trip(x) /\ DOMAIN x = CallFields
  BY DEF Underway, Live
<1>1. /\ op \in OpType /\ x.pos + 1 \in 1..Len(x.plan.ops) /\ Len(x.plan.ops) \in Nat
      /\ x.pos + 1 \in DOMAIN x.plan.ops /\ x.plan.ops \in Seq(OpType)
  BY <1>0, NextStep
<1>2. Cost(op) = 0
  BY <1>1 DEF Cost
<1>3. x.pos \in Nat /\ x.elapsed \in Nat
  BY <1>0 DEF Live
<1>4. /\ y.first = x.first /\ y.req = x.req /\ y.hops = x.hops /\ y.plan = x.plan /\ y.end = x.end
      /\ y.gone = x.gone /\ DOMAIN y = CallFields /\ y.pos = x.pos + 1 /\ y.elapsed = x.elapsed
  BY <1>0 DEF CallFields
<1>5. Live(c, k, y) /\ Chain(c, y) /\ Trip(y)
  <2>1. y.pos \in Nat /\ y.pos <= Len(x.plan.ops) /\ y.elapsed \in Nat
    BY <1>1, <1>3, <1>4
  <2>2. y.gone \in BOOLEAN /\ y.end = "run"
    BY <1>0, <1>4 DEF Live
  <2>3. y.first = x.first /\ y.req = x.req /\ y.hops = x.hops /\ y.plan = x.plan /\ DOMAIN y = CallFields
    BY <1>4
  <2> QED
    BY <1>0, <2>1, <2>2, <2>3, LiveRunning
<1>6. Timely(y)
  <2> SUFFICES ASSUME x.req.path \notin HostilePaths
               PROVE  \E W : /\ Fits(W, x.plan.ops, Limit) /\ y.elapsed <= Limit
                             /\ y.elapsed <= W[y.pos]
    BY <1>4 DEF Timely
  <2>1. PICK W : Fits(W, x.plan.ops, Limit) /\ x.elapsed <= W[x.pos]
    BY <1>0 DEF Timely
  <2> DEFINE ops == x.plan.ops
             n == x.pos
             e == x.elapsed
             d == 0
  <2>2. /\ ops \in Seq(OpType) /\ Limit \in Nat /\ Fits(W, ops, Limit) /\ n \in Nat /\ n < Len(ops)
        /\ e \in Nat /\ e <= W[n] /\ d \in Nat /\ d = Cost(ops[n + 1])
    <3>1. Limit \in Nat
      BY DEF Limit
    <3> QED
      BY <1>0, <1>1, <1>2, <1>3, <2>1, <3>1, NextStep
  <2> HIDE DEF ops, n, e, d
  <2>3. e + d <= W[n + 1] /\ e + d <= Limit
    BY <2>2, Within
  <2>4. y.elapsed = e + d /\ y.pos = n + 1
    BY <1>3, <1>4 DEF n, e, d
  <2> QED
    BY <2>1, <2>3, <2>4
<1> QED
  BY <1>5, <1>6 DEF Underway

-----------------------------------------------------------------------------
(* The requests that follow a response *)

\* A request that reaches its handler starts a call under way.
LEMMA Called ==
    ASSUME IsConn(conn), conn.open, NEW first, NEW r, IsRequest(r), NEW hops \in Nat,
           hops = 0 => /\ first.path = r.path /\ first.method = r.method
                       /\ first.arg = r.arg /\ first.pairs = r.pairs,
           hops > 0 => conn.listener # "raw", first.arg \in Number,
           NEW x, x = Call(first, r, hops)
    PROVE  /\ Live(conn, certs, x) /\ Timely(x)
           /\ x.end = "run" /\ x.first = first /\ x.hops = hops
           /\ \A f \in RequestFields \ {"host", "forwarded"} : x.req[f] = r[f]
<1> DEFINE h == conn.base[2]
           via == IF conn.proxied THEN {"https"} ELSE {}
           req == [r EXCEPT !.host = h, !.forwarded = via]
           plan == IF conn.listener = "raw" THEN echoRequestHead(req) ELSE handler(req, conn, certs)
<1>1. x = [first |-> first, req |-> req, hops |-> hops, pos |-> 0, end |-> "run", gone |-> FALSE,
           elapsed |-> 0, plan |-> plan]
  BY DEF Call
<1>2. IsRequest(req) /\ req.host = h /\ req.forwarded = via
      /\ \A f \in RequestFields \ {"host", "forwarded"} : req[f] = r[f]
  <2>1. req = [r EXCEPT !.host = h, !.forwarded = via]
    OBVIOUS
  <2> HIDE DEF h, via, req
  <2>2. IsRequest(req)
    BY <2>1, RequestSent
  <2>6. DOMAIN r = RequestFields
    BY RequestDomain DEF IsRequest
  <2>3. req.host = h
    BY <2>1, <2>6 DEF RequestFields
  <2>4. req.forwarded = via
    BY <2>1, <2>6 DEF RequestFields
  <2>5. \A f \in RequestFields \ {"host", "forwarded"} : req[f] = r[f]
    BY <2>1, <2>6
  <2> QED
    BY <2>2, <2>3, <2>4, <2>5
<1>3. plan = PlanOf(conn, certs, req)
  BY SeenOpen DEF PlanOf
<1> HIDE DEF req, plan
<1>4. /\ x.first = first /\ x.req = req /\ x.hops = hops /\ x.pos = 0 /\ x.end = "run" /\ x.gone = FALSE
      /\ x.elapsed = 0 /\ x.plan = plan /\ DOMAIN x = CallFields
  BY <1>1 DEF CallFields
<1>5. /\ req.path = r.path /\ req.method = r.method /\ req.arg = r.arg /\ req.pairs = r.pairs
  BY <1>2 DEF RequestFields
<1>6. IsPlan(plan) /\ (req.path \notin HostilePaths => Budget(plan.ops, Limit))
  <2>1. CASE conn.listener = "raw"
    <3>1. plan = echoRequestHead(req)
      BY <1>3, <2>1 DEF PlanOf
    <3> QED
      BY <1>2, <3>1, RawPlan
  <2>2. CASE conn.listener # "raw"
    <3>1. plan = handler(req, Seen(conn), certs)
      BY <1>3, <2>2 DEF PlanOf
    <3> QED
      BY <1>2, <3>1, Handled
  <2> QED
    BY <2>1, <2>2
<1>7. plan.ops \in Seq(OpType) /\ Len(plan.ops) \in Nat
  BY <1>6, LenProperties DEF IsPlan
<1>8. Live(conn, certs, x)
  <2>0. x.gone \in BOOLEAN
    BY <1>4
  <2>1. x.hops \in Nat /\ x.elapsed \in Nat
    BY <1>4
  <2>2. x.pos \in Nat /\ x.pos <= Len(x.plan.ops)
    BY <1>4, <1>7
  <2>3. x.req.host = conn.base[2] /\ x.req.forwarded = (IF conn.proxied THEN {"https"} ELSE {})
    BY <1>2, <1>4
  <2> QED
    BY <1>2, <1>3, <1>4, <1>5, <2>0, <2>1, <2>2, <2>3 DEF Live
<1>9. Timely(x)
  <2> SUFFICES ASSUME req.path \notin HostilePaths
               PROVE  \E W : Fits(W, plan.ops, Limit) /\ 0 <= Limit /\ 0 <= W[0]
    BY <1>4 DEF Timely
  <2>1. PICK W : Fits(W, plan.ops, Limit)
    BY <1>6 DEF Budget
  <2>2. Limit \in Nat /\ 0 \in 0..Len(plan.ops)
    BY <1>7 DEF Limit
  <2>3. W[0] \in 0..Limit
    BY <2>1, <2>2 DEF Fits
  <2>4. 0 <= W[0] /\ 0 <= Limit
    BY <2>2, <2>3
  <2> QED
    BY <2>1, <2>4
<1> QED
  BY <1>2, <1>4, <1>8, <1>9

\* Send: the first request of a call.
LEMMA Sent ==
    ASSUME IsConn(conn), conn.open, NEW r, IsRequest(r),
           NEW x, x = Call([path |-> r.path, method |-> r.method, arg |-> r.arg, pairs |-> r.pairs], r, 0)
    PROVE  Underway(conn, certs, x) /\ x.end = "run"
<1> DEFINE first == [path |-> r.path, method |-> r.method, arg |-> r.arg, pairs |-> r.pairs]
<1>1. /\ first.path = r.path /\ first.method = r.method /\ first.arg = r.arg /\ first.pairs = r.pairs
      /\ first.arg \in Number
  BY DEF IsRequest
<1>2. x = Call(first, r, 0) /\ 0 \in Nat /\ ~(0 > 0)
  OBVIOUS
<1> HIDE DEF first
<1>3. /\ Live(conn, certs, x) /\ Timely(x) /\ x.end = "run" /\ x.first = first /\ x.hops = 0
      /\ \A f \in RequestFields \ {"host", "forwarded"} : x.req[f] = r[f]
  BY <1>1, <1>2, Called
<1>4. x.req.path = r.path /\ x.req.method = r.method /\ x.req.arg = r.arg
  BY <1>3 DEF RequestFields
<1>5. Trip(x)
  BY <1>1, <1>3, <1>4 DEF Trip
<1>6. Chain(conn, x)
  <2> DEFINE n == x.first.arg
  <2>1. n \in Number /\ x.req.arg = n /\ x.req.path = x.first.path /\ x.req.method = x.first.method
    BY <1>1, <1>3, <1>4 DEF IsRequest
  <2>2. n.v \in Int
    BY <2>1, Numbers
  <2>3. ASSUME ~Outside(n, 1, 100)
        PROVE  n = Num(n.v - x.hops) /\ x.hops < n.v
    <3>1. n.ok = TRUE /\ n.nan = FALSE /\ n.v >= 1
      BY <2>1, <2>2, <2>3 DEF Outside, Number
    <3>2. n.v - x.hops = n.v /\ x.hops < n.v
      BY <1>3, <2>2, <3>1
    <3>3. n = [ok |-> n.ok, nan |-> n.nan, v |-> n.v]
      BY <2>1 DEF Number
    <3> QED
      BY <3>1, <3>2, <3>3 DEF Num
  <2> HIDE DEF n
  <2>4. x.hops < n.v => x.hops <= n.v /\ x.hops # n.v
    BY <1>3, <2>2
  <2> QED
    BY <1>3, <2>1, <2>3, <2>4 DEF Chain, n
<1> QED
  BY <1>3, <1>5, <1>6 DEF Underway

\* The requests a client may make after the response to x, which Follow takes one of.
Nexts(c, x) ==
    LET r == x.req
        h == x.plan.header
    IN IF x.plan.status \in {301, 302, 303, 307, 308}
       THEN {Redirected(r.method, u.path, u.arg, h.setCookies) :
                u \in {u \in h.location : u.base \in {<< >>, c.base}}}
       ELSE IF h.challenge /\ r.authorization = {}
       THEN {Authorized(r, {who}) : who \in {r.want, "someone else"}}
       ELSE IF h.etag # {} /\ r.ifNoneMatch = {}
       THEN {Validating(r, h.etag, h.lastModified)}
       ELSE {}

\* They are a function of the connection and the call.
LEMMA NextsOf == ASSUME NEW s PROVE NextRequests(s) = Nexts(conn, calls[s])
  BY Zenon DEF NextRequests, Nexts, Plan, Redirected, Authorized, Validating

\* None follows an answer with neither a redirect, nor a challenge, nor validators.
LEMMA NoNext ==
    ASSUME NEW c, NEW x, x.plan.status \notin {301, 302, 303, 307, 308}, x.plan.header = NoHeader
    PROVE  Nexts(c, x) = {}
<1>1. NoHeader.challenge = FALSE /\ NoHeader.etag = {}
  BY DEF NoHeader
<1> QED
  BY <1>1, Zenon DEF Nexts

\* baseURL (main.go:248-258): the address a handler derives is the one its client used,
\* directly or through the proxy.
LEMMA BaseURL ==
    ASSUME NEW c, IsConn(c), NEW k, NEW x, Live(c, k, x)
    PROVE  baseURL(x.req, Seen(c)) = c.base
<1>1. Seen(c).tls = c.tls /\ c.tls \in BOOLEAN /\ c.proxied \in BOOLEAN
  BY SeenOpen DEF IsConn
<1>2. x.req.host = c.base[2] /\ x.req.forwarded = (IF c.proxied THEN {"https"} ELSE {})
  BY DEF Live
<1>3. scheme(x.req, Seen(c)) = IF c.tls \/ c.proxied THEN "https" ELSE "http"
  BY <1>1, <1>2 DEF scheme, Or
<1>4. c.base = <<IF c.tls \/ c.proxied THEN "https" ELSE "http", c.base[2]>>
  BY DEF IsConn
<1> QED
  BY <1>2, <1>3, <1>4 DEF baseURL

\* The routes that the requests after the first depend on.
LEMMA Known ==
    /\ {"/tls", "/anything"} \subseteq AnyMethod
    /\ {"/tls", "/anything"} \cap GetOnly = {}
    /\ {"/redirect", "/absolute-redirect", "/basic-auth", "/cookies", "/cookies/set", "/cache"} \subseteq GetOnly
  BY DEF AnyMethod, GetOnly, HostilePaths

\* A method the route does not have is answered with 405, and nothing follows.
LEMMA NotAllowed ==
    ASSUME NEW c, NEW k, NEW x, Live(c, k, x), c.listener # "raw", x.req.path \in GetOnly,
           x.req.method \notin {"GET", "HEAD"}
    PROVE  x.plan.status = 405 /\ x.plan.header = NoHeader
<1>1. x.plan = handler(x.req, Seen(c), k)
  BY DEF Live, PlanOf
<1>2. x.plan = Error(x.req, 405)
  BY <1>1, Refused
<1> QED
  BY <1>2 DEF Error, Respond

\* A method it has reaches its handler.
LEMMA Allowed ==
    ASSUME NEW c, NEW k, NEW x, Live(c, k, x), c.listener # "raw", x.req.path \in AnyMethod \cup GetOnly,
           x.req.path \in GetOnly => x.req.method \in {"GET", "HEAD"}
    PROVE  /\ x.req.path = "/redirect" => x.plan = redirect(FALSE, x.req, Seen(c))
           /\ x.req.path = "/absolute-redirect" => x.plan = redirect(TRUE, x.req, Seen(c))
           /\ x.req.path = "/anything" => x.plan = anything(x.req, Seen(c), k)
           /\ x.req.path = "/tls" => x.plan = tlsInfo(x.req, Seen(c), k)
           /\ x.req.path = "/cookies" => x.plan = cookies(x.req)
           /\ x.req.path = "/cookies/set" => x.plan = setCookies(x.req)
           /\ x.req.path = "/cache" => x.plan = cache(x.req)
           /\ x.req.path = "/basic-auth" => x.plan = basicAuth(x.req)
<1>1. x.plan = handler(x.req, Seen(c), k)
  BY DEF Live, PlanOf
<1>2. ASSUME x.req.path = "/redirect" PROVE x.plan = redirect(FALSE, x.req, Seen(c))
  <2>1. handler(x.req, Seen(c), k) = redirect(FALSE, x.req, Seen(c))
    <3>1. x.req.path \in GetOnly
      BY <1>2 DEF GetOnly
    <3> QED
      BY <1>2, <3>1, RedirectRoutes
  <2> QED
    BY <1>1, <2>1
<1>3. ASSUME x.req.path = "/absolute-redirect" PROVE x.plan = redirect(TRUE, x.req, Seen(c))
  <2>1. handler(x.req, Seen(c), k) = redirect(TRUE, x.req, Seen(c))
    <3>1. x.req.path \in GetOnly
      BY <1>3 DEF GetOnly
    <3> QED
      BY <1>3, <3>1, RedirectRoutes
  <2> QED
    BY <1>1, <2>1
<1>4. ASSUME x.req.path = "/anything" PROVE x.plan = anything(x.req, Seen(c), k)
  <2>1. handler(x.req, Seen(c), k) = anything(x.req, Seen(c), k)
    BY <1>4, Routes
  <2> QED
    BY <1>1, <2>1
<1>5. ASSUME x.req.path = "/tls" PROVE x.plan = tlsInfo(x.req, Seen(c), k)
  <2>1. handler(x.req, Seen(c), k) = tlsInfo(x.req, Seen(c), k)
    BY <1>5, Routes
  <2> QED
    BY <1>1, <2>1
<1>6. ASSUME x.req.path = "/cookies" PROVE x.plan = cookies(x.req)
  <2>1. handler(x.req, Seen(c), k) = cookies(x.req)
    BY <1>6, Routes
  <2> QED
    BY <1>1, <2>1
<1>7. ASSUME x.req.path = "/cookies/set" PROVE x.plan = setCookies(x.req)
  <2>1. handler(x.req, Seen(c), k) = setCookies(x.req)
    BY <1>7, Routes
  <2> QED
    BY <1>1, <2>1
<1>8. ASSUME x.req.path = "/cache" PROVE x.plan = cache(x.req)
  <2>1. handler(x.req, Seen(c), k) = cache(x.req)
    BY <1>8, Routes
  <2> QED
    BY <1>1, <2>1
<1>9. ASSUME x.req.path = "/basic-auth" PROVE x.plan = basicAuth(x.req)
  <2>1. handler(x.req, Seen(c), k) = basicAuth(x.req)
    BY <1>9, Routes
  <2> QED
    BY <1>1, <2>1
<1> QED
  BY <1>2, <1>3, <1>4, <1>5, <1>6, <1>7, <1>8, <1>9

\* /redirect and /absolute-redirect (handlers.go:278-296) answer with one less hop, or
\* with 400.
LEMMA Redirecting ==
    ASSUME NEW c, IsConn(c), NEW k, NEW x, Live(c, k, x), c.listener # "raw", x.req.method = "GET",
           x.req.path \in {"/redirect", "/absolute-redirect"}
    PROVE  /\ Outside(x.req.arg, 1, 100) => x.plan.status = 400 /\ x.plan.header = NoHeader
           /\ ~Outside(x.req.arg, 1, 100) =>
                /\ x.plan.status = 302
                /\ \E u : /\ x.plan.header.location = {u} /\ u.base \in {<< >>, c.base}
                          /\ u.path = IF x.req.arg.v > 1 THEN x.req.path ELSE "/anything"
                          /\ u.arg = Num(x.req.arg.v - 1)
<1> DEFINE r == x.req
<1>1. baseURL(r, Seen(c)) = c.base
  BY BaseURL
<1>2. r.path \in GetOnly
  BY Known
<1>3. x.plan = redirect(FALSE, r, Seen(c)) \/ x.plan = redirect(TRUE, r, Seen(c))
  BY <1>2, Allowed, Zenon
<1>4. ASSUME NEW absolute \in BOOLEAN, x.plan = redirect(absolute, r, Seen(c))
      PROVE  /\ Outside(r.arg, 1, 100) => x.plan.status = 400 /\ x.plan.header = NoHeader
             /\ ~Outside(r.arg, 1, 100) =>
                  /\ x.plan.status = 302
                  /\ \E u : /\ x.plan.header.location = {u} /\ u.base \in {<< >>, c.base}
                            /\ u.path = IF r.arg.v > 1 THEN r.path ELSE "/anything"
                            /\ u.arg = Num(r.arg.v - 1)
  <2>1. ASSUME Outside(r.arg, 1, 100) PROVE x.plan.status = 400 /\ x.plan.header = NoHeader
    <3>1. x.plan = Error(r, 400)
      BY <1>4, <2>1 DEF redirect
    <3> QED
      BY <3>1 DEF Error, Respond
  <2>2. ASSUME ~Outside(r.arg, 1, 100)
        PROVE  /\ x.plan.status = 302
               /\ \E u : /\ x.plan.header.location = {u} /\ u.base \in {<< >>, c.base}
                         /\ u.path = IF r.arg.v > 1 THEN r.path ELSE "/anything"
                         /\ u.arg = Num(r.arg.v - 1)
    <3> DEFINE base == IF absolute THEN baseURL(r, Seen(c)) ELSE << >>
               path == IF r.arg.v > 1 THEN r.path ELSE "/anything"
               arg == Num(r.arg.v - 1)
               u == URL(base, path, arg)
               h == [NoHeader EXCEPT !.location = {u}]
    <3>1. x.plan = Found(r, h)
      BY <1>4, <2>2 DEF redirect
    <3>2. base \in {<< >>, c.base}
      BY <1>1
    <3> HIDE DEF base, path, arg
    <3>3. u.base = base /\ u.path = path /\ u.arg = arg
      BY DEF URL
    <3> HIDE DEF u
    <3>4. x.plan.status = 302 /\ x.plan.header = h
      BY <3>1 DEF Found, Respond
    <3>5. h.location = {u}
      BY DEF NoHeader
    <3> QED
      BY <3>2, <3>3, <3>4, <3>5 DEF path, arg
  <2> QED
    BY <2>1, <2>2
<1> QED
  <2>1. TRUE \in BOOLEAN /\ FALSE \in BOOLEAN
    OBVIOUS
  <2> QED
    BY <1>3, <1>4, <2>1, Zenon

\* /anything answers with the origin of its client's connection.
LEMMA Echoing ==
    ASSUME NEW c, IsConn(c), NEW k, NEW x, Live(c, k, x), c.listener # "raw", x.req.path = "/anything",
           x.req.body.whole
    PROVE  x.plan.status = 200 /\ x.plan.header = NoHeader /\ x.plan.payload.url.base = c.base
<1> DEFINE r == x.req
<1>1. baseURL(r, Seen(c)) = c.base
  BY BaseURL
<1>2. x.plan = anything(r, Seen(c), k)
  BY Known, Allowed
<1> QED
  BY <1>1, <1>2 DEF anything, writeJSON, Respond, URL

\* /cookies/set redirects to /cookies and hands out the pairs of its query.
LEMMA SettingCookies ==
    ASSUME NEW c, NEW k, NEW x, Live(c, k, x), c.listener # "raw", x.req.method \in {"GET", "HEAD"},
           x.req.path = "/cookies/set"
    PROVE  /\ x.plan.status = 302 /\ x.plan.header.setCookies = x.req.pairs
           /\ \E u : x.plan.header.location = {u} /\ u.path = "/cookies"
<1> DEFINE r == x.req
           u == URL(<< >>, "/cookies", Num(0))
           h == [NoHeader EXCEPT !.setCookies = r.pairs, !.location = {u}]
<1>1. x.plan = setCookies(r)
  BY Known, Allowed
<1>2. x.plan = Found(r, h)
  BY <1>1 DEF setCookies
<1>3. u.path = "/cookies"
  BY DEF URL
<1> HIDE DEF u
<1>4. h.setCookies = r.pairs /\ h.location = {u}
  BY DEF NoHeader
<1>5. x.plan.status = 302 /\ x.plan.header = h
  BY <1>2 DEF Found, Respond
<1> QED
  BY <1>3, <1>4, <1>5

\* /cookies reports the cookies of the request.
LEMMA ReportingCookies ==
    ASSUME NEW c, NEW k, NEW x, Live(c, k, x), c.listener # "raw", x.req.method \in {"GET", "HEAD"},
           x.req.path = "/cookies"
    PROVE  x.plan = cookies(x.req) /\ x.plan.status = 200 /\ x.plan.header = NoHeader
<1>1. x.plan = cookies(x.req)
  BY Known, Allowed
<1> QED
  BY <1>1 DEF cookies, writeJSON, Respond

\* /cache answers its own entity tag with 304.
LEMMA Caching ==
    ASSUME NEW c, NEW k, NEW x, Live(c, k, x), c.listener # "raw", x.req.method \in {"GET", "HEAD"},
           x.req.path = "/cache"
    PROVE  /\ x.plan.status \in {200, 304} /\ x.plan.header.challenge \in BOOLEAN /\ ~x.plan.header.challenge
           /\ x.plan.header.etag = {"okhttp-testbed"}
           /\ x.req.ifNoneMatch = {"okhttp-testbed"} => x.plan.status = 304
<1> DEFINE r == x.req
           h == [NoHeader EXCEPT !.etag = {"okhttp-testbed"}, !.lastModified = {0}]
<1>1. x.plan = cache(r)
  BY Known, Allowed
<1>2. h.etag = {"okhttp-testbed"} /\ h.challenge \in BOOLEAN /\ ~h.challenge
  BY DEF NoHeader
<1>3. x.plan.header = h /\ x.plan.status \in {200, 304}
  BY <1>1 DEF cache, writeJSON, Respond
<1>4. r.ifNoneMatch = {"okhttp-testbed"} => x.plan.status = 304
  BY <1>1, <1>2 DEF cache, Respond
<1> HIDE DEF h
<1> QED
  BY <1>2, <1>3, <1>4

\* /basic-auth answers 200 exactly to the credentials of its path.
LEMMA Authenticating ==
    ASSUME NEW c, NEW k, NEW x, Live(c, k, x), c.listener # "raw", x.req.method \in {"GET", "HEAD"},
           x.req.path = "/basic-auth"
    PROVE  /\ x.plan.status = 200 <=> x.req.authorization = {x.req.want}
           /\ x.plan.status \in {200, 401} /\ x.plan.header.etag = {}
<1>1. x.plan = basicAuth(x.req)
  BY Known, Allowed
<1>2. (x.plan.status = 200 <=> x.req.authorization = {x.req.want}) /\ x.plan.status \in {200, 401}
  BY <1>1 DEF basicAuth, writeJSON, Respond
<1>3. x.plan.header.etag = {}
  BY <1>1 DEF basicAuth, writeJSON, Respond, NoHeader
<1> QED
  BY <1>2, <1>3

\* A request that follows is a redirected, an authorized or a validating one.
LEMMA NextKinds ==
    ASSUME NEW c, NEW x, NEW r \in Nexts(c, x)
    PROVE  \/ /\ x.plan.status \in {301, 302, 303, 307, 308}
              /\ \E u \in x.plan.header.location :
                    r = Redirected(x.req.method, u.path, u.arg, x.plan.header.setCookies)
           \/ /\ x.plan.status \notin {301, 302, 303, 307, 308}
              /\ \E a : r = Authorized(x.req, a)
              /\ x.plan.header.challenge
           \/ /\ x.plan.status \notin {301, 302, 303, 307, 308}
              /\ r = Validating(x.req, x.plan.header.etag, x.plan.header.lastModified)
              /\ x.plan.header.etag # {}
<1> DEFINE moved == {301, 302, 303, 307, 308}
           r0 == x.req
           h == x.plan.header
<1>1. CASE x.plan.status \in moved
  <2>1. Nexts(c, x) = {Redirected(r0.method, u.path, u.arg, h.setCookies) :
                u \in {u \in h.location : u.base \in {<< >>, c.base}}}
    BY <1>1 DEF Nexts
  <2>2. \E u \in h.location : r = Redirected(r0.method, u.path, u.arg, h.setCookies)
    BY <2>1
  <2> QED
    BY <1>1, <2>2
<1>2. CASE x.plan.status \notin moved
  <2>1. Nexts(c, x) = IF h.challenge /\ r0.authorization = {}
                      THEN {Authorized(r0, {who}) : who \in {r0.want, "someone else"}}
                      ELSE IF h.etag # {} /\ r0.ifNoneMatch = {}
                      THEN {Validating(r0, h.etag, h.lastModified)}
                      ELSE {}
    BY <1>2 DEF Nexts
  <2>2. CASE h.challenge /\ r0.authorization = {}
    <3>1. \E who : r = Authorized(r0, {who})
      BY <2>1, <2>2
    <3> QED
      BY <1>2, <2>2, <3>1
  <2>3. CASE ~(h.challenge /\ r0.authorization = {}) /\ h.etag # {} /\ r0.ifNoneMatch = {}
    <3>1. r = Validating(r0, h.etag, h.lastModified)
      BY <2>1, <2>3
    <3> QED
      BY <1>2, <2>3, <3>1
  <2>4. CASE ~(h.challenge /\ r0.authorization = {}) /\ ~(h.etag # {} /\ r0.ifNoneMatch = {})
    BY <2>1, <2>4
  <2> QED
    BY <2>2, <2>3, <2>4
<1> QED
  BY <1>1, <1>2

\* Each of them is a request that the handlers can take.
LEMMA NextRequest ==
    ASSUME NEW c, NEW k, NEW x, Live(c, k, x), NEW r \in Nexts(c, x)
    PROVE  IsRequest(r)
<1>1. IsHeader(x.plan.header)
  BY LivePlan DEF IsPlan
<1>2. IsRequest(x.req)
  BY DEF Live
<1>3. ASSUME NEW u \in x.plan.header.location,
             r = Redirected(x.req.method, u.path, u.arg, x.plan.header.setCookies)
      PROVE  IsRequest(r)
  <2> DEFINE a == u.arg
             m == x.req.method
             p == u.path
             cs == x.plan.header.setCookies
  <2>1. a \in Number /\ cs \in Seq(Range(cs)) /\ r = Redirected(m, p, a, cs)
    BY <1>1, <1>3 DEF IsHeader
  <2> HIDE DEF a, m, p, cs
  <2>2. IsRequest(r) /\ r.method = m /\ r.path = p /\ r.arg = a /\ r.cookies = cs /\ r.body.whole
    BY <2>1, RequestRedirected
  <2> QED
    BY <2>2
<1>4. ASSUME NEW a, r = Authorized(x.req, a) PROVE IsRequest(r)
  BY <1>2, <1>4, RequestRepeated
<1>5. ASSUME r = Validating(x.req, x.plan.header.etag, x.plan.header.lastModified)
      PROVE  IsRequest(r)
  <2> DEFINE b == x.plan.header.etag
             d == x.plan.header.lastModified
  <2>1. r = Validating(x.req, b, d)
    BY <1>5
  <2> HIDE DEF b, d
  <2> QED
    BY <1>2, <2>1, RequestRepeated
<1> QED
  BY <1>3, <1>4, <1>5, NextKinds

\* The target of a redirect of a chain, on the same origin.
LEMMA FollowedRedirect ==
    ASSUME NEW c, NEW k, NEW x, Live(c, k, x), NEW r \in Nexts(c, x), x.plan.status = 302,
           NEW u, x.plan.header.location = {u}
    PROVE  /\ r.method = x.req.method /\ r.path = u.path /\ r.arg = u.arg
           /\ r.cookies = x.plan.header.setCookies /\ r.body.whole
<1> DEFINE a == u.arg
           m == x.req.method
           p == u.path
           cs == x.plan.header.setCookies
<1>1. r = Redirected(m, p, a, cs)
  <2>1. \E v \in x.plan.header.location :
            r = Redirected(x.req.method, v.path, v.arg, x.plan.header.setCookies)
    BY NextKinds
  <2> QED
    BY <2>1
<1>2. a \in Number /\ cs \in Seq(Range(cs))
  BY LivePlan DEF IsPlan, IsHeader
<1> HIDE DEF a, m, p, cs
<1>3. IsRequest(r) /\ r.method = m /\ r.path = p /\ r.arg = a /\ r.cookies = cs /\ r.body.whole
  BY <1>1, <1>2, RequestRedirected
<1> QED
  BY <1>3 DEF a, m, p, cs

\* Follow: a chain of redirects is one hop further.
LEMMA ChainFollowed ==
    ASSUME NEW c, IsConn(c), NEW k, NEW x, Underway(c, k, x), c.listener # "raw", NEW r \in Nexts(c, x),
           x.first.method = "GET", x.first.path \in {"/redirect", "/absolute-redirect"},
           NEW n, n = x.first.arg
    PROVE  /\ r.method = "GET" /\ ~Outside(n, 1, 100) /\ n.v \in Int /\ x.hops < n.v
           /\ x.hops + 1 < n.v => r.path = x.first.path /\ r.arg = Num(n.v - (x.hops + 1))
           /\ x.hops + 1 = n.v => r.path = "/anything" /\ r.body.whole
<1>0. Live(c, k, x) /\ Chain(c, x) /\ x.hops \in Nat
  BY DEF Underway, Live
<1>1. x.req.method = "GET"
  BY <1>0 DEF Chain
<1>2. Nexts(c, x) # {}
  OBVIOUS
<1>3. ~Outside(n, 1, 100)
  <2> SUFFICES ASSUME Outside(n, 1, 100) PROVE FALSE
    OBVIOUS
  <2>1. x.req.path = x.first.path /\ x.req.arg = n
    BY <1>0 DEF Chain
  <2>2. x.plan.status = 400 /\ x.plan.header = NoHeader
    BY <1>0, <1>1, <2>1, Redirecting
  <2> QED
    BY <1>2, <2>2, NoNext
<1>4. /\ x.hops <= n.v
      /\ x.hops < n.v => x.req.path = x.first.path /\ x.req.arg = Num(n.v - x.hops)
      /\ x.hops = n.v => x.req.path = "/anything" /\ x.req.body.whole
  BY <1>0, <1>3 DEF Chain
<1>5. x.hops # n.v
  <2> SUFFICES ASSUME x.hops = n.v PROVE FALSE
    OBVIOUS
  <2>1. x.plan.status = 200 /\ x.plan.header = NoHeader /\ x.plan.payload.url.base = c.base
    BY <1>0, <1>4, Echoing
  <2> QED
    BY <1>2, <2>1, NoNext
<1>6. n.v \in Int
  BY <1>0, Numbers DEF Live
<1>7. x.hops < n.v
  BY <1>0, <1>4, <1>5, <1>6
<1>8. x.req.path = x.first.path /\ x.req.arg = Num(n.v - x.hops)
  BY <1>4, <1>7
<1>9. x.req.arg.v = n.v - x.hops /\ ~Outside(x.req.arg, 1, 100)
  BY <1>0, <1>3, <1>6, <1>7, <1>8 DEF Num, Outside
<1>10. /\ x.plan.status = 302
       /\ \E u : /\ x.plan.header.location = {u} /\ u.base \in {<< >>, c.base}
                 /\ u.path = IF x.req.arg.v > 1 THEN x.req.path ELSE "/anything"
                 /\ u.arg = Num(x.req.arg.v - 1)
  BY <1>0, <1>1, <1>8, <1>9, Redirecting
<1>11. PICK u : /\ x.plan.header.location = {u}
                /\ u.path = IF x.req.arg.v > 1 THEN x.req.path ELSE "/anything"
                /\ u.arg = Num(x.req.arg.v - 1)
  BY <1>10
<1>12. r.method = x.req.method /\ r.path = u.path /\ r.arg = u.arg
       /\ r.cookies = x.plan.header.setCookies /\ r.body.whole
  BY <1>0, <1>10, <1>11, FollowedRedirect
<1>13. x.hops + 1 < n.v => x.req.arg.v > 1 /\ x.req.arg.v - 1 = n.v - (x.hops + 1)
  BY <1>0, <1>6, <1>9
<1>14. x.hops + 1 = n.v => ~(x.req.arg.v > 1)
  BY <1>0, <1>6, <1>9
<1> QED
  BY <1>1, <1>3, <1>6, <1>7, <1>8, <1>11, <1>12, <1>13, <1>14

\* Follow: what was handed out comes back.
LEMMA TripFollowed ==
    ASSUME NEW c, NEW k, NEW x, Live(c, k, x), Trip(x), c.listener # "raw", NEW r \in Nexts(c, x)
    PROVE  /\ x.first.path = "/cookies/set" =>
                r.path = "/cookies" /\ r.cookies = x.first.pairs /\ r.method \in {"GET", "HEAD"}
           /\ x.first.path \in {"/cache", "/basic-auth"} => r.path = x.first.path /\ r.method \in {"GET", "HEAD"}
           /\ x.first.path = "/cache" => r.ifNoneMatch = {"okhttp-testbed"}
<1>0. x.hops \in Nat /\ IsRequest(x.req) /\ Nexts(c, x) # {}
  BY DEF Live
<1>1. x.req.path \in GetOnly => x.req.method \in {"GET", "HEAD"}
  <2> SUFFICES ASSUME x.req.path \in GetOnly, x.req.method \notin {"GET", "HEAD"} PROVE FALSE
    OBVIOUS
  <2>1. x.plan.status = 405 /\ x.plan.header = NoHeader
    BY NotAllowed
  <2> QED
    BY <1>0, <2>1, NoNext
<1>2. ASSUME x.first.path = "/cookies/set"
      PROVE  r.path = "/cookies" /\ r.cookies = x.first.pairs /\ r.method \in {"GET", "HEAD"}
  <2>1. x.hops = 0
    <3> SUFFICES ASSUME x.hops > 0 PROVE FALSE
      BY <1>0
    <3>1. x.req.path = "/cookies" /\ x.req.method \in {"GET", "HEAD"}
      BY <1>2 DEF Trip
    <3>2. x.plan = cookies(x.req) /\ x.plan.status = 200 /\ x.plan.header = NoHeader
      BY <3>1, ReportingCookies
    <3> QED
      BY <1>0, <3>2, NoNext
  <2>2. x.req.path = "/cookies/set" /\ x.req.pairs = x.first.pairs
    BY <1>2, <2>1 DEF Live
  <2>3. x.req.method \in {"GET", "HEAD"}
    BY <1>1, <2>2, Known
  <2>4. /\ x.plan.status = 302 /\ x.plan.header.setCookies = x.req.pairs
        /\ \E u : x.plan.header.location = {u} /\ u.path = "/cookies"
    BY <2>2, <2>3, SettingCookies
  <2>5. PICK u : x.plan.header.location = {u} /\ u.path = "/cookies"
    BY <2>4
  <2>6. /\ r.method = x.req.method /\ r.path = u.path /\ r.arg = u.arg
        /\ r.cookies = x.plan.header.setCookies /\ r.body.whole
    BY <2>4, <2>5, FollowedRedirect
  <2> QED
    BY <2>2, <2>3, <2>4, <2>5, <2>6
<1>3. ASSUME x.first.path = "/cache"
      PROVE  r.path = "/cache" /\ r.method \in {"GET", "HEAD"} /\ r.ifNoneMatch = {"okhttp-testbed"}
  <2>1. x.req.path = "/cache" /\ x.req.method \in {"GET", "HEAD"}
    BY <1>1, <1>3, Known DEF Trip
  <2>2. /\ x.plan.status \in {200, 304} /\ x.plan.header.challenge \in BOOLEAN /\ ~x.plan.header.challenge
        /\ x.plan.header.etag = {"okhttp-testbed"}
        /\ x.req.ifNoneMatch = {"okhttp-testbed"} => x.plan.status = 304
    BY <2>1, Caching
  <2> DEFINE b == x.plan.header.etag
             d == x.plan.header.lastModified
             q == x.req
  <2>3. r = Validating(q, b, d)
    <3>1. x.plan.status \notin {301, 302, 303, 307, 308}
      BY <2>2
    <3>2. ~x.plan.header.challenge
      BY <2>2
    <3>3. \/ x.plan.status \in {301, 302, 303, 307, 308}
          \/ x.plan.header.challenge
          \/ r = Validating(x.req, x.plan.header.etag, x.plan.header.lastModified)
      BY NextKinds
    <3> QED
      BY <3>1, <3>2, <3>3
  <2>4. IsRequest(q)
    BY <1>0
  <2> HIDE DEF b, d, q
  <2>5. r.path = q.path /\ r.method = q.method /\ r.ifNoneMatch = b
    <3>1. DOMAIN q = RequestFields
      BY <2>4, RequestDomain DEF IsRequest
    <3> QED
      BY <2>3, <3>1 DEF RequestFields, Validating
  <2> QED
    BY <2>1, <2>2, <2>5 DEF b, q
<1>4. ASSUME x.first.path = "/basic-auth"
      PROVE  r.path = "/basic-auth" /\ r.method \in {"GET", "HEAD"}
  <2>1. x.req.path = "/basic-auth" /\ x.req.method \in {"GET", "HEAD"}
    BY <1>1, <1>4, Known DEF Trip
  <2>2. /\ x.plan.status = 200 <=> x.req.authorization = {x.req.want}
        /\ x.plan.status \in {200, 401} /\ x.plan.header.etag = {}
    BY <2>1, Authenticating
  <2> DEFINE q == x.req
  <2>3. PICK a : r = Authorized(q, a)
    BY <2>2, NextKinds
  <2>4. IsRequest(q)
    BY <1>0
  <2> HIDE DEF q
  <2>5. r.path = q.path /\ r.method = q.method
    <3>1. DOMAIN q = RequestFields
      BY <2>4, RequestDomain DEF IsRequest
    <3> QED
      BY <2>3, <3>1 DEF RequestFields, Authorized
  <2> QED
    BY <2>1, <2>5 DEF q
<1> QED
  BY <1>2, <1>3, <1>4

\* Follow: the call goes on with another request.
LEMMA Followed ==
    ASSUME IsConn(conn), conn.open, NEW x, Underway(conn, certs, x), x.end = "keep", NEW r \in Nexts(conn, x),
           NEW y, y = Call(x.first, r, x.hops + 1)
    PROVE  Underway(conn, certs, y) /\ y.end = "run"
<1>0. Live(conn, certs, x) /\ Trip(x) /\ x.hops \in Nat /\ x.end = x.plan.end
  BY DEF Underway, Live
<1>1. conn.listener # "raw"
  BY <1>0, LivePlan
<1>2. IsRequest(r)
  BY <1>0, NextRequest
<1> DEFINE first == x.first
           hops == x.hops + 1
<1>3. y = Call(first, r, hops) /\ hops \in Nat /\ hops # 0 /\ hops > 0
  BY <1>0
<1> HIDE DEF first, hops
<1>4. /\ Live(conn, certs, y) /\ Timely(y) /\ y.end = "run" /\ y.first = first /\ y.hops = hops
      /\ \A f \in RequestFields \ {"host", "forwarded"} : y.req[f] = r[f]
  <2>1. first.arg \in Number
    BY <1>0 DEF Live, first
  <2>2. hops = 0 => first.path = r.path /\ first.method = r.method /\ first.arg = r.arg /\ first.pairs = r.pairs
    BY <1>3
  <2>3. hops > 0 => conn.listener # "raw"
    BY <1>1
  <2> QED
    BY <1>2, <1>3, <2>1, <2>2, <2>3, Called
<1>5. /\ y.req.path = r.path /\ y.req.method = r.method /\ y.req.arg = r.arg /\ y.req.cookies = r.cookies
      /\ y.req.ifNoneMatch = r.ifNoneMatch /\ y.req.body = r.body
  BY <1>4 DEF RequestFields
<1>6. Trip(y)
  <2>1. /\ first.path = "/cookies/set" =>
                r.path = "/cookies" /\ r.cookies = first.pairs /\ r.method \in {"GET", "HEAD"}
        /\ first.path \in {"/cache", "/basic-auth"} => r.path = first.path /\ r.method \in {"GET", "HEAD"}
        /\ first.path = "/cache" => r.ifNoneMatch = {"okhttp-testbed"}
    BY <1>0, <1>1, TripFollowed DEF first
  <2> QED
    BY <1>4, <1>5, <2>1 DEF Trip
<1>7. Chain(conn, y)
  <2> SUFFICES ASSUME first.method = "GET", first.path \in {"/redirect", "/absolute-redirect"}
               PROVE  LET n == first.arg
                      IN /\ y.req.method = "GET"
                         /\ IF Outside(n, 1, 100) THEN hops = 0 /\ y.req.path = first.path /\ y.req.arg = n
                            ELSE /\ hops <= n.v
                                 /\ hops < n.v => y.req.path = first.path /\ y.req.arg = Num(n.v - hops)
                                 /\ hops = n.v => y.req.path = "/anything" /\ y.req.body.whole
    BY <1>4 DEF Chain
  <2> DEFINE n == first.arg
  <2>1. /\ r.method = "GET" /\ ~Outside(n, 1, 100) /\ n.v \in Int /\ x.hops < n.v
        /\ hops < n.v => r.path = first.path /\ r.arg = Num(n.v - hops)
        /\ hops = n.v => r.path = "/anything" /\ r.body.whole
    BY <1>1, ChainFollowed DEF first, hops
  <2>2. hops <= n.v
    BY <1>0, <2>1 DEF hops
  <2> QED
    BY <1>5, <2>1, <2>2
<1> QED
  BY <1>4, <1>6, <1>7 DEF Underway

-----------------------------------------------------------------------------
(* The invariant of the calls *)

\* The connection an attempt that was not refused leads to.
ConnIsAttempt ==
    attempt # NoAttempt /\ conn # NoConn =>
        LET server == listeners[attempt.listener].server
        IN /\ attempt.why = {}
           /\ conn = Opened(attempt.listener, TRUE, <<"https", attempt.host>>, FALSE,
                            Max(Versions(server, attempt.offer)), Protocol(server, attempt.offer), attempt.offer)

\* Every call is under way on the one connection, and was sent after it was opened.
CallsInv ==
    /\ DOMAIN calls = Streams
    /\ conn # NoConn => IsConn(conn)
    /\ \A s \in Streams :
        calls[s].end # "idle" => conn # NoConn /\ attempt = NoAttempt /\ Underway(conn, certs, calls[s])
    /\ ConnIsAttempt

\* A step of one call, which may close the connection, leaves the others as they were.
LEMMA OneCall ==
    ASSUME CallsInv, NEW s \in Streams, NEW y, calls' = [calls EXCEPT ![s] = y],
           conn # NoConn, NEW open \in BOOLEAN, conn' = conn \/ conn' = [conn EXCEPT !.open = open],
           attempt' = NoAttempt, UNCHANGED <<proc, supplied>>,
           y.end # "idle" => Underway(conn, certs, y)
    PROVE  CallsInv'
<1>1. certs' = certs
  BY DEF certs
<1>2. DOMAIN calls' = Streams /\ calls'[s] = y /\ \A t \in Streams : t # s => calls'[t] = calls[t]
  BY DEF CallsInv
<1>3. IsConn(conn)
  BY DEF CallsInv
<1>4. IsConn(conn') /\ conn' # NoConn
  <2> DEFINE d == conn'
  <2>1. CASE d = conn
    BY <1>3, <2>1
  <2>2. CASE d = [conn EXCEPT !.open = open]
    <3> HIDE DEF d
    <3> QED
      BY <1>3, <2>2, ConnSeen DEF d
  <2> QED
    BY <2>1, <2>2
<1>5. ASSUME NEW x, Underway(conn, certs, x) PROVE Underway(conn', certs', x)
  <2> DEFINE d == conn'
             k == certs
  <2>1. CASE d = conn
    BY <1>1, <1>5, <2>1
  <2>2. CASE d = [conn EXCEPT !.open = open]
    <3>1. Underway(conn, k, x)
      BY <1>5
    <3> HIDE DEF d, k
    <3>2. Underway(d, k, x)
      BY <1>3, <2>2, <3>1, LiveReopened
    <3> QED
      BY <1>1, <3>2 DEF d, k
  <2> QED
    BY <2>1, <2>2
<1>6. ASSUME NEW t \in Streams, calls'[t].end # "idle"
      PROVE  conn' # NoConn /\ attempt' = NoAttempt /\ Underway(conn', certs', calls'[t])
  <2>1. CASE t = s
    BY <1>2, <1>4, <1>5, <1>6, <2>1
  <2>2. CASE t # s
    <3>1. calls'[t] = calls[t]
      BY <1>2, <2>2
    <3>2. Underway(conn, certs, calls[t])
      BY <1>6, <3>1 DEF CallsInv
    <3> QED
      BY <1>4, <1>5, <3>1, <3>2
  <2> QED
    BY <2>1, <2>2
<1>7. ConnIsAttempt'
  BY DEF ConnIsAttempt
<1> QED
  BY <1>2, <1>4, <1>6, <1>7 DEF CallsInv

\* Without a call, and without a connection or with the one just attempted, there is
\* nothing to show.
LEMMA NoCall ==
    ASSUME DOMAIN calls' = Streams, \A s \in Streams : calls'[s].end = "idle",
           conn' = NoConn
    PROVE  CallsInv'
  BY DEF CallsInv, ConnIsAttempt

\* An open connection is one.
LEMMA OpenConn == ASSUME CallsInv, conn.open PROVE conn # NoConn /\ IsConn(conn)
<1>1. NoConn.open = FALSE
  BY DEF NoConn
<1> QED
  BY <1>1 DEF CallsInv

\* At first there is no connection.
LEMMA CallsInit == Init => CallsInv
<1> SUFFICES ASSUME Init PROVE CallsInv
  OBVIOUS
<1>1. DOMAIN calls = Streams /\ \A s \in Streams : calls[s].end = "idle"
  BY DEF Init, Idle
<1> QED
  BY <1>1 DEF Init, CallsInv, ConnIsAttempt

\* The client's preparations leave it without a call.
LEMMA CallsPrepare == ASSUME CallsInv, FetchCA \/ FetchIdentity \/ Restart \/ Hangup PROVE CallsInv'
<1>1. ASSUME FetchCA \/ FetchIdentity PROVE CallsInv'
  <2>1. conn = NoConn /\ UNCHANGED <<attempt, conn, calls>>
    BY <1>1 DEF FetchCA, FetchIdentity, Ready
  <2>2. \A s \in Streams : calls[s].end = "idle"
    BY <2>1 DEF CallsInv
  <2>3. DOMAIN calls = Streams
    BY DEF CallsInv
  <2> QED
    BY <2>1, <2>2, <2>3, NoCall
<1>2. ASSUME Restart PROVE CallsInv'
  <2>1. conn' = NoConn /\ calls' = [s \in Streams |-> Idle]
    BY <1>2 DEF Restart
  <2>2. DOMAIN calls' = Streams /\ \A s \in Streams : calls'[s].end = "idle"
    BY <2>1 DEF Idle
  <2> QED
    BY <2>1, <2>2, NoCall
<1>3. ASSUME Hangup PROVE CallsInv'
  <2>1. conn' = NoConn /\ calls' = calls /\ \A s \in Streams : calls[s].end = "idle"
    BY <1>3 DEF Hangup
  <2>2. DOMAIN calls = Streams
    BY DEF CallsInv
  <2> QED
    BY <2>1, <2>2, NoCall
<1> QED
  BY <1>1, <1>2, <1>3

\* ConnectPlain and ConnectTls open a connection without a call, or none.
LEMMA CallsConnect ==
    ASSUME CallsInv
    PROVE  /\ \A l, host : \A proxied \in BOOLEAN : ConnectPlain(l, host, proxied) => CallsInv'
           /\ \A l, host, clock, completed : \A o \in Offers : ConnectTls(l, o, host, clock, completed) => CallsInv'
<1>1. ASSUME NEW l, NEW host, NEW proxied \in BOOLEAN, ConnectPlain(l, host, proxied) PROVE CallsInv'
  <2> DEFINE base == <<IF proxied THEN "https" ELSE "http", host>>
             c == Opened(l, FALSE, base, proxied, 0, "", NoOffer)
  <2>1. conn = NoConn /\ attempt = NoAttempt /\ attempt' = attempt /\ calls' = calls /\ conn' = c
    BY <1>1 DEF ConnectPlain, Ready
  <2>2. NoOffer.extensions \in Seq(Nat)
    BY DEF NoOffer
  <2>3. base = <<IF FALSE \/ proxied THEN "https" ELSE "http", host>>
    OBVIOUS
  <2>4. IsConn(c)
    <3> DEFINE f == FALSE
    <3>1. f \in BOOLEAN /\ base = <<IF f \/ proxied THEN "https" ELSE "http", host>>
           /\ c = Opened(l, f, base, proxied, 0, "", NoOffer)
      OBVIOUS
    <3> HIDE DEF base, c, f
    <3> QED
      BY <2>2, <3>1, ConnOpened
  <2>5. \A s \in Streams : calls'[s].end = "idle"
    BY <2>1 DEF CallsInv
  <2>6. DOMAIN calls' = Streams
    BY <2>1 DEF CallsInv
  <2> HIDE DEF c
  <2> QED
    BY <2>1, <2>4, <2>5, <2>6 DEF CallsInv, ConnIsAttempt
<1>2. ASSUME NEW l, NEW host, NEW clock, NEW completed, NEW o \in Offers, ConnectTls(l, o, host, clock, completed)
      PROVE  CallsInv'
  <2> DEFINE server == listeners[l].server
             offer == OfferOf(o)
             base == <<"https", host>>
             version == Max(Versions(server, offer))
             alpn == Protocol(server, offer)
             c == Opened(l, TRUE, base, FALSE, version, alpn, offer)
             why == Why(l, o, host, clock, completed)
  <2>1. /\ conn = NoConn /\ attempt = NoAttempt /\ calls' = calls
        /\ attempt' = [listener |-> l, offer |-> offer, host |-> host, clock |-> clock,
                       completed |-> completed, why |-> why]
        /\ conn' = (IF why # {} THEN NoConn ELSE c)
        /\ UNCHANGED <<proc, supplied>>
    BY <1>2 DEF ConnectTls, OfferOf, Why, ChainWhy, Ready
  <2>2. \A s \in Streams : calls'[s].end = "idle"
    BY <2>1 DEF CallsInv
  <2>3. DOMAIN calls' = Streams
    BY <2>1 DEF CallsInv
  <2>4. CASE why # {}
    <3>1. conn' = NoConn
      BY <2>1, <2>4
    <3> QED
      BY <2>2, <2>3, <3>1, NoCall
  <2>5. CASE why = {}
    <3>1. offer.extensions \in Seq(Nat)
      <4>1. o \in OfferType
        BY OffersAssumption
      <4> QED
        BY <4>1 DEF OfferOf, OfferType
    <3>2. IsConn(c)
      <4> DEFINE t == TRUE
                 f == FALSE
      <4>1. t \in BOOLEAN /\ f \in BOOLEAN /\ base = <<IF t \/ f THEN "https" ELSE "http", host>>
             /\ c = Opened(l, t, base, f, version, alpn, offer)
        OBVIOUS
      <4> HIDE DEF base, c, f, t, version, alpn, offer
      <4> QED
        BY <3>1, <4>1, ConnOpened
    <3>3. conn' = c
      BY <2>1, <2>5
    <3>4. attempt'.listener = l /\ attempt'.offer = offer /\ attempt'.host = host /\ attempt'.why = {}
      BY <2>1, <2>5
    <3>5. listeners' = listeners
      BY <2>1 DEF listeners
    <3>6. ConnIsAttempt'
      BY <3>3, <3>4, <3>5 DEF ConnIsAttempt
    <3> HIDE DEF c
    <3> QED
      BY <2>2, <2>3, <3>2, <3>3, <3>6 DEF CallsInv
  <2> QED
    BY <2>4, <2>5
<1> QED
  BY <1>1, <1>2

\* Send adds a call to an open connection.
LEMMA CallsSend ==
    ASSUME CallsInv, NEW s \in Streams, NEW r \in RequestsOn(s), Send(s, r)
    PROVE  CallsInv'
<1> DEFINE y == Call([path |-> r.path, method |-> r.method, arg |-> r.arg, pairs |-> r.pairs], r, 0)
<1>1. /\ conn.open /\ calls' = [calls EXCEPT ![s] = y] /\ conn' = conn
      /\ attempt' = NoAttempt /\ UNCHANGED <<proc, supplied>>
  BY DEF Send
<1>2. IsRequest(r)
  BY RequestsAssumption DEF RequestsOn
<1>3. conn # NoConn /\ IsConn(conn)
  BY <1>1, OpenConn
<1>4. Underway(conn, certs, y) /\ y.end = "run"
  BY <1>1, <1>2, <1>3, Sent
<1> HIDE DEF y
<1> QED
  BY <1>1, <1>3, <1>4, OneCall

\* Elapse, Write, Return and Leave: a step of the handler, or of the client under it.
LEMMA CallsHandle ==
    ASSUME CallsInv, NEW s \in Streams, Elapse(s) \/ Write(s) \/ Return(s) \/ Leave(s)
    PROVE  CallsInv'
<1> DEFINE x == calls[s]
<1>1. x.end = "run"
  BY DEF Elapse, Write, Return, Leave, Running
<1>2. conn # NoConn /\ attempt = NoAttempt /\ Underway(conn, certs, x) /\ IsConn(conn)
  BY <1>1 DEF CallsInv
<1>3. ASSUME NEW y, Update(s, y), Underway(conn, certs, y)
      PROVE  CallsInv'
  <2>1. calls' = [calls EXCEPT ![s] = y] /\ conn' = conn /\ attempt' = NoAttempt /\ UNCHANGED <<proc, supplied>>
    BY <1>2, <1>3 DEF Update
  <2> QED
    BY <1>2, <1>3, <2>1, OneCall
<1>4. CASE Elapse(s)
  <2> DEFINE op == x.plan.ops[x.pos + 1]
             y == [x EXCEPT !.pos = x.pos + 1, !.elapsed = x.elapsed + op.n]
             z == [x EXCEPT !.end = "gone"]
  <2>1. x.pos < Len(x.plan.ops) /\ op.t = "pause" /\ (Update(s, y) \/ Update(s, z))
    BY <1>4 DEF Elapse, Running, NextOp, Plan
  <2>2. Underway(conn, certs, y)
    <3> DEFINE o == op
               v == y
    <3>1. o = x.plan.ops[x.pos + 1] /\ v = [x EXCEPT !.pos = x.pos + 1, !.elapsed = x.elapsed + o.n] /\ o.t = "pause"
      BY <2>1
    <3> HIDE DEF o, v, x
    <3>2. Underway(conn, certs, v)
      BY <1>1, <1>2, <2>1, <3>1, Paused
    <3> QED
      BY <3>2 DEF v, x
  <2>3. Underway(conn, certs, z)
    BY <1>2, GivenUp
  <2> HIDE DEF y, z
  <2> QED
    BY <1>3, <2>1, <2>2, <2>3
<1>5. CASE Write(s)
  <2> DEFINE op == x.plan.ops[x.pos + 1]
             y == [x EXCEPT !.pos = x.pos + 1]
             z == [x EXCEPT !.end = "gone"]
  <2>1. x.pos < Len(x.plan.ops) /\ op.t # "pause" /\ (Update(s, y) \/ Update(s, z))
    BY <1>5 DEF Write, Running, NextOp, Plan
  <2>2. Underway(conn, certs, y)
    <3> DEFINE o == op
               v == y
    <3>1. /\ o = x.plan.ops[x.pos + 1] /\ o.t # "pause"
          /\ v = [x EXCEPT !.pos = x.pos + 1]
      BY <2>1
    <3> HIDE DEF o, v, x
    <3>2. Underway(conn, certs, v)
      BY <1>1, <1>2, <2>1, <3>1, Written
    <3> QED
      BY <3>2 DEF v, x
  <2>3. Underway(conn, certs, z)
    BY <1>2, GivenUp
  <2> HIDE DEF y, z
  <2> QED
    BY <1>3, <2>1, <2>2, <2>3
<1>6. CASE Return(s)
  <2>1. PICK got \in (IF x.plan.end = "rst" THEN 0 ELSE x.pos)..x.pos :
            calls' = [calls EXCEPT ![s] = [@ EXCEPT !.end = x.plan.end, !.pos = got]]
    BY <1>6 DEF Return, Plan
  <2> DEFINE y == [x EXCEPT !.end = x.plan.end, !.pos = got]
             open == conn.open /\ x.plan.end = "keep"
  <2>2. x.pos \in Nat
    BY <1>2 DEF Underway, Live
  <2>3. got \in Nat /\ got <= x.pos
    BY <2>1, <2>2
  <2>4. Underway(conn, certs, y)
    BY <1>2, <2>3, Returned
  <2>5. calls' = [calls EXCEPT ![s] = y]
    BY <2>1
  <2>6. /\ conn' = [conn EXCEPT !.open = open] /\ open \in BOOLEAN
        /\ attempt' = NoAttempt /\ UNCHANGED <<proc, supplied>>
    BY <1>2, <1>6 DEF Return, Plan
  <2> HIDE DEF y, open
  <2> QED
    BY <1>2, <2>4, <2>5, <2>6, OneCall
<1>7. CASE Leave(s)
  <2> DEFINE y == [x EXCEPT !.gone = TRUE]
             open == conn.open /\ conn.proto = "HTTP/2.0"
  <2>1. Underway(conn, certs, y)
    BY <1>2, Left
  <2>2. calls' = [calls EXCEPT ![s] = y]
    BY <1>7 DEF Leave
  <2>3. /\ conn' = [conn EXCEPT !.open = open] /\ open \in BOOLEAN
        /\ attempt' = NoAttempt /\ UNCHANGED <<proc, supplied>>
    BY <1>2, <1>7 DEF Leave
  <2> HIDE DEF y, open
  <2> QED
    BY <1>2, <2>1, <2>2, <2>3, OneCall
<1> QED
  BY <1>4, <1>5, <1>6, <1>7

\* Follow and Finish: the client goes on, or is done.
LEMMA CallsTakeUp ==
    ASSUME CallsInv, NEW s \in Streams, Follow(s) \/ Finish(s)
    PROVE  CallsInv'
<1> DEFINE x == calls[s]
<1>1. x.end # "idle"
  BY DEF Follow, Finish
<1>2. conn # NoConn /\ attempt = NoAttempt /\ Underway(conn, certs, x) /\ IsConn(conn)
  BY <1>1 DEF CallsInv
<1>3. CASE Follow(s)
  <2>1. PICK r \in NextRequests(s) : Update(s, Call(x.first, r, x.hops + 1))
    BY <1>3 DEF Follow
  <2> DEFINE y == Call(x.first, r, x.hops + 1)
  <2>2. r \in Nexts(conn, x) /\ x.end = "keep" /\ conn.open
    BY <1>3, <2>1, NextsOf DEF Follow
  <2>3. Underway(conn, certs, y) /\ y.end = "run"
    BY <1>2, <2>2, Followed
  <2>4. calls' = [calls EXCEPT ![s] = y] /\ conn' = conn /\ attempt' = NoAttempt /\ UNCHANGED <<proc, supplied>>
    BY <1>2, <2>1 DEF Update
  <2> HIDE DEF y
  <2> QED
    BY <1>2, <2>3, <2>4, OneCall
<1>4. CASE Finish(s)
  <2>1. /\ calls' = [calls EXCEPT ![s] = Idle] /\ attempt' = NoAttempt /\ UNCHANGED <<proc, supplied>>
        /\ conn' = IF ~conn.open /\ \A t \in Streams : calls'[t].end = "idle" THEN NoConn ELSE conn
    BY <1>2, <1>4 DEF Finish
  <2>2. CASE conn' = conn
    <3>1. Idle.end = "idle"
      BY DEF Idle
    <3> QED
      BY <1>2, <2>1, <2>2, <3>1, OneCall
  <2>3. CASE conn' # conn
    <3>1. conn' = NoConn /\ \A t \in Streams : calls'[t].end = "idle"
      BY <2>1, <2>3
    <3>2. DOMAIN calls' = Streams
      BY <2>1 DEF CallsInv
    <3> QED
      BY <3>1, <3>2, NoCall
  <2> QED
    BY <2>2, <2>3
<1> QED
  BY <1>3, <1>4

\* Every call follows the plan that its handler made of its request, on the connection it
\* arrived on, in every order of writes, timers, cancellations and follow-up requests of any
\* number of streams (handlers.go:25-68, hostile.go:132-199).
THEOREM CallInvariant == Spec => []CallsInv
<1>1. CallsInv /\ [Next]_vars => CallsInv'
  <2> SUFFICES ASSUME CallsInv, [Next]_vars PROVE CallsInv'
    OBVIOUS
  <2>1. CASE FetchCA \/ FetchIdentity \/ Restart \/ Hangup
    BY <2>1, CallsPrepare
  <2>2. ASSUME NEW l \in {"http", "raw"}, NEW host \in Hosts, NEW proxied \in BOOLEAN, ConnectPlain(l, host, proxied)
        PROVE  CallsInv'
    BY <2>2, CallsConnect
  <2>3. ASSUME NEW l \in DOMAIN listeners, NEW o \in Offers, NEW host \in Hosts, NEW clock \in Clocks,
               NEW completed \in BOOLEAN, ConnectTls(l, o, host, clock, completed)
        PROVE  CallsInv'
    BY <2>3, CallsConnect
  <2>4. ASSUME NEW s \in Streams, NEW r \in RequestsOn(s), Send(s, r) PROVE CallsInv'
    BY <2>4, CallsSend
  <2>5. ASSUME NEW s \in Streams, Elapse(s) \/ Write(s) \/ Return(s) \/ Leave(s) PROVE CallsInv'
    BY <2>5, CallsHandle
  <2>6. ASSUME NEW s \in Streams, Follow(s) \/ Finish(s) PROVE CallsInv'
    BY <2>6, CallsTakeUp
  <2>7. CASE UNCHANGED vars
    <3>1. certs' = certs /\ listeners' = listeners /\ UNCHANGED <<attempt, conn, calls>>
      BY <2>7 DEF vars, certs, listeners
    <3> QED
      BY <3>1 DEF CallsInv, ConnIsAttempt
  <2> QED
    BY <2>1, <2>2, <2>3, <2>4, <2>5, <2>6, <2>7 DEF Next
<1> QED
  BY <1>1, CallsInit, PTL DEF Spec

-----------------------------------------------------------------------------
(* What follows from it *)

\* /drip and /delay (handlers.go:317-389) and all else that goes through net/http: for any
\* parameters, the pauses of a handler add up to no more than two minutes.
THEOREM HandlersLetGoHolds == Spec => []HandlersLetGo
<1>1. CallsInv => HandlersLetGo
  <2> SUFFICES ASSUME CallsInv, NEW s \in Streams, calls[s].end # "idle", calls[s].req.path \notin HostilePaths
               PROVE  calls[s].elapsed <= 120000
    BY DEF HandlersLetGo
  <2>1. Timely(calls[s])
    BY DEF CallsInv, Underway
  <2> QED
    BY <2>1 DEF Timely, Limit
<1> QED
  BY <1>1, CallInvariant, PTL

\* handlers.go:278-296: for any n and any number of streams a chain of n redirects lands on
\* /anything after exactly n hops, on the origin the client used; any other number is refused.
THEOREM RedirectsLandHolds == Spec => []RedirectsLand
<1>1. CallsInv => RedirectsLand
  <2> SUFFICES ASSUME CallsInv, NEW s \in Streams, Answered(s), calls[s].first.method = "GET",
                      conn.listener # "raw", calls[s].first.path \in {"/redirect", "/absolute-redirect"}
               PROVE  LET n == calls[s].first.arg
                      IN IF Outside(n, 1, 100) THEN calls[s].hops = 0 /\ Plan(s).status = 400
                         ELSE IF calls[s].hops < n.v THEN Cardinality(NextRequests(s)) = 1
                         ELSE /\ calls[s].hops = n.v /\ Plan(s).status = 200
                              /\ calls[s].req.path = "/anything" /\ Plan(s).payload.url.base = conn.base
    BY DEF RedirectsLand
  <2> DEFINE x == calls[s]
             n == x.first.arg
  <2>1. conn # NoConn /\ IsConn(conn) /\ Live(conn, certs, x) /\ Chain(conn, x)
    BY DEF CallsInv, Underway, Answered
  <2>2. Plan(s) = x.plan /\ NextRequests(s) = Nexts(conn, x)
    BY NextsOf DEF Plan
  <2>3. x.req.method = "GET" /\ x.hops \in Nat /\ n \in Number
    BY <2>1 DEF Chain, Live
  <2>4. n.v \in Int
    BY <2>3, Numbers
  <2>5. CASE Outside(n, 1, 100)
    <3>1. x.hops = 0 /\ x.req.path = x.first.path /\ x.req.arg = n
      BY <2>1, <2>5 DEF Chain
    <3>2. x.plan.status = 400 /\ x.plan.header = NoHeader
      BY <2>1, <2>3, <2>5, <3>1, Redirecting
    <3> QED
      BY <2>2, <2>5, <3>1, <3>2
  <2>6. CASE ~Outside(n, 1, 100)
    <3>1. /\ x.hops <= n.v
          /\ x.hops < n.v => x.req.path = x.first.path /\ x.req.arg = Num(n.v - x.hops)
          /\ x.hops = n.v => x.req.path = "/anything" /\ x.req.body.whole
      BY <2>1, <2>6 DEF Chain
    <3>2. CASE x.hops < n.v
      <4>1. x.req.path = x.first.path /\ x.req.arg = Num(n.v - x.hops)
        BY <3>1, <3>2
      <4>2. ~Outside(x.req.arg, 1, 100)
        BY <2>3, <2>4, <2>6, <3>2, <4>1 DEF Num, Outside
      <4>3. /\ x.plan.status = 302
            /\ \E u : /\ x.plan.header.location = {u} /\ u.base \in {<< >>, conn.base}
                      /\ u.path = IF x.req.arg.v > 1 THEN x.req.path ELSE "/anything"
                      /\ u.arg = Num(x.req.arg.v - 1)
        BY <2>1, <2>3, <4>1, <4>2, Redirecting
      <4>4. PICK u : x.plan.header.location = {u} /\ u.base \in {<< >>, conn.base}
        BY <4>3
      <4> DEFINE r == Redirected(x.req.method, u.path, u.arg, x.plan.header.setCookies)
      <4>5. {v \in x.plan.header.location : v.base \in {<< >>, conn.base}} = {u}
        BY <4>4
      <4>6. Nexts(conn, x) = {r}
        <5>1. Nexts(conn, x) = {Redirected(x.req.method, v.path, v.arg, x.plan.header.setCookies) :
                                  v \in {v \in x.plan.header.location : v.base \in {<< >>, conn.base}}}
          BY <4>3 DEF Nexts
        <5> QED
          BY <4>5, <5>1
      <4>7. Cardinality({r}) = 1
        BY FS_Singleton
      <4> QED
        BY <2>2, <2>6, <3>2, <4>6, <4>7
    <3>3. CASE ~(x.hops < n.v)
      <4>1. x.hops = n.v
        BY <2>3, <2>4, <3>1, <3>3
      <4>2. x.plan.status = 200 /\ x.plan.header = NoHeader /\ x.plan.payload.url.base = conn.base
        BY <2>1, <3>1, <4>1, Echoing
      <4> QED
        BY <2>2, <2>6, <3>1, <3>3, <4>1, <4>2
    <3> QED
      BY <3>2, <3>3
  <2> QED
    BY <2>5, <2>6
<1> QED
  BY <1>1, CallInvariant, PTL

\* The last index of those that have a property is the greatest.
LEMMA LastIsMax ==
    ASSUME NEW pairs, pairs \in Seq(Range(pairs)), NEW name
    PROVE  (CHOOSE i \in DOMAIN pairs : pairs[i][1] = name /\ \A j \in DOMAIN pairs : j > i => pairs[j][1] # name)
             = Max({i \in DOMAIN pairs : pairs[i][1] = name})
<1>1. Len(pairs) \in Nat /\ DOMAIN pairs = 1..Len(pairs)
  BY LenProperties
<1> DEFINE S == {i \in DOMAIN pairs : pairs[i][1] = name}
           P(i) == i \in DOMAIN pairs /\ (pairs[i][1] = name /\ \A j \in DOMAIN pairs : j > i => pairs[j][1] # name)
           Q(i) == i \in S /\ \A y \in S : i >= y
<1>2. \A i : P(i) <=> Q(i)
  BY <1>1
<1>3. (CHOOSE i : P(i)) = (CHOOSE i : Q(i))
  BY <1>2, Zenon
<1>4. Max(S) = CHOOSE i : Q(i)
  BY DEF Max
<1>5. (CHOOSE i \in DOMAIN pairs : pairs[i][1] = name /\ \A j \in DOMAIN pairs : j > i => pairs[j][1] # name)
        = CHOOSE i : P(i)
  OBVIOUS
<1> HIDE DEF P, Q
<1> QED
  BY <1>3, <1>4, <1>5

\* The values /cookies reports (handlers.go:448-454): a later cookie replaces an earlier
\* one.
LastValues(pairs) ==
    [name \in {p[1] : p \in Range(pairs)} |->
        LET last == CHOOSE i \in DOMAIN pairs :
                pairs[i][1] = name /\ \A j \in DOMAIN pairs : j > i => pairs[j][1] # name
        IN pairs[last][2]]

\* They are the values the query of /cookies/set ended with.
LEMMA LastAreSet ==
    ASSUME NEW pairs, pairs \in Seq(Range(pairs))
    PROVE  LastValues(pairs) = [name \in {p[1] : p \in Range(pairs)} |-> ValueSet(pairs, name)]
<1> DEFINE LastOf(name) == CHOOSE i \in DOMAIN pairs :
                pairs[i][1] = name /\ \A j \in DOMAIN pairs : j > i => pairs[j][1] # name
           names == {p[1] : p \in Range(pairs)}
<1>1. LastValues(pairs) = [name \in names |-> pairs[LastOf(name)][2]]
  BY Zenon DEF LastValues
<1>2. ASSUME NEW name PROVE pairs[LastOf(name)][2] = ValueSet(pairs, name)
  <2>1. LastOf(name) = Max({i \in DOMAIN pairs : pairs[i][1] = name})
    BY LastIsMax
  <2> HIDE DEF LastOf
  <2> QED
    BY <2>1, Zenon DEF ValueSet
<1> HIDE DEF LastOf, names
<1>3. [name \in names |-> pairs[LastOf(name)][2]] = [name \in names |-> ValueSet(pairs, name)]
  BY <1>2
<1> QED
  BY <1>1, <1>3 DEF names

\* handlers.go:437-484: for any cookies, credentials and streams, what the server hands out it
\* takes back, and nothing else.
THEOREM RoundTripsHolds == Spec => []RoundTrips
<1>1. CallsInv => RoundTrips
  <2> SUFFICES ASSUME CallsInv, NEW s \in Streams, Answered(s), calls[s].hops > 0
               PROVE  /\ calls[s].first.path = "/cookies/set" =>
                          Plan(s).payload.cookies = [name \in {p[1] : p \in Range(calls[s].first.pairs)} |->
                                                        ValueSet(calls[s].first.pairs, name)]
                      /\ calls[s].first.path = "/cache" => Plan(s).status = 304
                      /\ calls[s].first.path = "/basic-auth" =>
                          (Plan(s).status = 200 <=> calls[s].req.authorization = {calls[s].req.want})
    BY DEF RoundTrips
  <2> DEFINE x == calls[s]
  <2>1. Live(conn, certs, x) /\ Trip(x)
    BY DEF CallsInv, Underway, Answered
  <2>2. Plan(s) = x.plan
    BY DEF Plan
  <2>3. conn.listener # "raw" /\ IsRequest(x.req)
    BY <2>1 DEF Live
  <2>4. ASSUME x.first.path = "/cookies/set"
        PROVE  x.plan.payload.cookies = [name \in {p[1] : p \in Range(x.first.pairs)} |-> ValueSet(x.first.pairs, name)]
    <3>1. x.req.path = "/cookies" /\ x.req.cookies = x.first.pairs /\ x.req.method \in {"GET", "HEAD"}
      BY <2>1, <2>4 DEF Trip
    <3>2. x.plan = cookies(x.req) /\ x.plan.status = 200 /\ x.plan.header = NoHeader
      BY <2>1, <2>3, <3>1, ReportingCookies
    <3> DEFINE pairs == x.first.pairs
    <3>3. pairs \in Seq(Range(pairs))
      BY <2>3, <3>1 DEF IsRequest
    <3>4. cookies(x.req) = writeJSON(x.req, 200, NoHeader, [cookies |-> LastValues(x.req.cookies)])
      BY Zenon DEF cookies, LastValues
    <3>5. x.plan.payload = [cookies |-> LastValues(pairs)]
      BY <3>1, <3>2, <3>4 DEF writeJSON, Respond
    <3>6. LastValues(pairs) = [name \in {p[1] : p \in Range(pairs)} |-> ValueSet(pairs, name)]
      BY <3>3, LastAreSet
    <3> QED
      BY <3>5, <3>6
  <2>5. ASSUME x.first.path = "/cache" PROVE x.plan.status = 304
    <3>1. x.req.path = "/cache" /\ x.req.method \in {"GET", "HEAD"} /\ x.req.ifNoneMatch = {"okhttp-testbed"}
      BY <2>1, <2>5 DEF Trip
    <3>2. /\ x.plan.status \in {200, 304} /\ x.plan.header.challenge \in BOOLEAN /\ ~x.plan.header.challenge
          /\ x.plan.header.etag = {"okhttp-testbed"}
          /\ x.req.ifNoneMatch = {"okhttp-testbed"} => x.plan.status = 304
      BY <2>1, <2>3, <3>1, Caching
    <3> QED
      BY <3>1, <3>2
  <2>6. ASSUME x.first.path = "/basic-auth"
        PROVE  x.plan.status = 200 <=> x.req.authorization = {x.req.want}
    <3>1. x.req.path = "/basic-auth" /\ x.req.method \in {"GET", "HEAD"}
      BY <2>1, <2>6 DEF Trip
    <3>2. /\ x.plan.status = 200 <=> x.req.authorization = {x.req.want}
          /\ x.plan.status \in {200, 401} /\ x.plan.header.etag = {}
      BY <2>1, <2>3, <3>1, Authenticating
    <3> QED
      BY <3>2
  <2> QED
    BY <2>2, <2>4, <2>5, <2>6
<1> QED
  BY <1>1, CallInvariant, PTL

\* A value is marked as GREASE exactly if it is one of the sixteen reserved ones.
LEMMA Grease == ASSUME NEW e \in Nat PROVE extensionName(e)[1] = "GREASE" <=> e \in Reserved
<1> DEFINE q == e \div 256
           m == e % 256
<1>1. q \in Nat /\ m \in 0..255 /\ e = 256 * q + m
  OBVIOUS
<1>2. ASSUME NEW k \in 0..15, e = 10 * 257 + 4112 * k
      PROVE  e % 16 = 10 /\ q = m /\ e \notin extensionNames
  <2>1. e % 16 = 10
    BY <1>2
  <2>2. q = 10 + 16 * k /\ m = 10 + 16 * k
    BY <1>2
  <2>3. e \notin extensionNames
    BY <1>2 DEF extensionNames, extensionEncryptedClientHello
  <2> QED
    BY <2>1, <2>2, <2>3
<1>3. ASSUME e % 16 = 10, q = m
      PROVE  \E k \in 0..15 : e = 10 * 257 + 4112 * k
  <2> DEFINE k == m \div 16
  <2>1. e = 257 * m /\ m \in 0..255
    BY <1>1, <1>3
  <2> HIDE DEF m
  <2>2. m % 16 = 10
    BY <1>3, <2>1
  <2>3. k \in 0..15 /\ m = 16 * k + 10
    BY <2>1, <2>2
  <2>4. e = 10 * 257 + 4112 * k
    BY <2>1, <2>3
  <2> QED
    BY <2>3, <2>4
<1>4. extensionName(e)[1] = "GREASE" <=> e \notin extensionNames /\ e % 16 = 10 /\ q = m
  BY DEF extensionName
<1> QED
  BY <1>2, <1>3, <1>4 DEF Reserved

\* The code of ECH is the only one reported under its name.
LEMMA EchNamed == ASSUME NEW e \in Nat PROVE extensionName(e) = <<"named", 65037>> <=> e = 65037
<1>1. 65037 \in extensionNames
  BY DEF extensionNames, extensionEncryptedClientHello
<1> QED
  BY <1>1 DEF extensionName

\* The report of /tls (tls.go handshake) on the extensions a client offered.
LEMMA Reported ==
    ASSUME NEW c, c.offer.extensions \in Seq(Nat), NEW made, NEW report, report = handshake(c, made)
    PROVE  ReportIsOffer(report, c.offer)
<1> DEFINE es == c.offer.extensions
<1>1. /\ report.extensions = [i \in DOMAIN es |-> extensionName(es[i])]
      /\ (report.encryptedClientHelloOffered <=> extensionEncryptedClientHello \in Range(es))
  BY DEF handshake
<1>2. \A i \in DOMAIN es : es[i] \in Nat
  OBVIOUS
<1> HIDE DEF es
<1>3. \A i \in DOMAIN es : report.extensions[i][1] = "GREASE" <=> es[i] \in Reserved
  BY <1>1, <1>2, Grease
<1>4. (\E i \in DOMAIN report.extensions : report.extensions[i] = <<"named", 65037>>)
          <=> \E i \in DOMAIN es : es[i] = 65037
  BY <1>1, <1>2, EchNamed
<1>5. report.encryptedClientHelloOffered <=> \E i \in DOMAIN es : es[i] = 65037
  BY <1>1 DEF Range, extensionEncryptedClientHello
<1> QED
  BY <1>3, <1>4, <1>5 DEF ReportIsOffer, es

-----------------------------------------------------------------------------
(* What /info announces *)

\* What a listener announces is what its server is configured with.
Announced(name, l) ==
    /\ l.min \in 10..13 /\ l.max \in 10..13 /\ l.server.min = l.min /\ l.server.max = l.max
    /\ \/ l.alpn = {"h2", "http/1.1"} /\ l.server.alpn = <<"h2", "http/1.1">>
       \/ l.alpn = {"http/1.1"} /\ l.server.alpn = <<"http/1.1">>
    /\ name = "pqc" => l.server.groups = {"X25519MLKEM768"}

\* Every listener of main.go:87-140 announces in /info what its server is configured
\* with.
LEMMA Announcements ==
    ASSUME NEW c, DOMAIN c.badChains \in SUBSET BadNames, NEW name, name \in DOMAIN TlsListeners(c),
           NEW l, l = TlsListeners(c)[name]
    PROVE  Announced(name, l)
<1>1. DOMAIN perVersionListeners = {"tls10", "tls11", "tls12", "tls13"}
  BY DEF perVersionListeners
<1>2. DOMAIN TlsListeners(c) = GoodNames \cup (IF c.clientCAs = {} THEN {} ELSE {"mtls"}) \cup DOMAIN c.badChains
  BY Servers
<1>3. Or({}, 12) = 12 /\ Or({}, 13) = 13
  BY DEF Or
<1>4. ASSUME NEW v \in 10..13 PROVE Or({v}, 12) = v /\ Or({v}, 13) = v
  BY DEF Or
<1>5. CASE name = "https"
  <2>1. l.min = 12 /\ l.max = 13 /\ l.alpn = {"h2", "http/1.1"}
    BY <1>1, <1>5 DEF TlsListeners, addListener
  <2>2. l.server.min = Or({}, 12) /\ l.server.max = Or({}, 13) /\ l.server.alpn = <<"h2", "http/1.1">>
    BY <1>1, <1>5 DEF TlsListeners, addListener, tlsServerWith
  <2> QED
    BY <1>3, <1>5, <2>1, <2>2 DEF Announced
<1>6. CASE name \in {"tls10", "tls11", "tls12", "tls13"}
  <2> DEFINE v == perVersionListeners[name]
             server == tlsServerWith({v}, FALSE, c.leaf)
  <2>1. l = addListener(v, v, {"http/1.1"}, server)
    BY <1>1, <1>6 DEF TlsListeners
  <2>2. v \in 10..13
    BY <1>6 DEF perVersionListeners
  <2> HIDE DEF v
  <2>3. server.min = v /\ server.max = v /\ server.alpn = <<"http/1.1">>
    BY <1>4, <2>2 DEF tlsServerWith
  <2> HIDE DEF server
  <2> QED
    BY <1>6, <2>1, <2>2, <2>3 DEF addListener, Announced
<1>7. CASE name = "pqc"
  <2> DEFINE made == tlsServerWith({13}, FALSE, c.leaf)
             server == [made EXCEPT !.groups = {"X25519MLKEM768"}]
  <2>1. l = addListener(13, 13, {"http/1.1"}, server)
    BY <1>1, <1>7 DEF TlsListeners
  <2>2. server.min = 13 /\ server.max = 13 /\ server.alpn = <<"http/1.1">> /\ server.groups = {"X25519MLKEM768"}
    BY <1>4 DEF tlsServerWith
  <2> HIDE DEF server
  <2> QED
    BY <2>1, <2>2 DEF addListener, Announced
<1>8. CASE name = "mtls"
  <2> DEFINE server == mtlsServer(c)
  <2>1. l = addListener(12, 13, {"http/1.1"}, server)
    BY <1>1, <1>2, <1>8 DEF TlsListeners, GoodNames, BadNames
  <2>2. server.min = 12 /\ server.max = 13 /\ server.alpn = <<"http/1.1">>
    BY <1>3 DEF mtlsServer, tlsServerWith
  <2> HIDE DEF server
  <2> QED
    BY <1>8, <2>1, <2>2 DEF addListener, Announced
<1>9. CASE name \in DOMAIN c.badChains
  <2> DEFINE server == tlsServerWith({}, FALSE, c.badChains[name])
  <2>1. l = addListener(12, 13, {"http/1.1"}, server)
    BY <1>1, <1>9 DEF TlsListeners, BadNames
  <2>2. server.min = 12 /\ server.max = 13 /\ server.alpn = <<"http/1.1">>
    BY <1>3 DEF tlsServerWith
  <2> HIDE DEF server
  <2> QED
    BY <1>9, <2>1, <2>2 DEF addListener, Announced, BadNames
<1> QED
  BY <1>2, <1>5, <1>6, <1>7, <1>8, <1>9 DEF GoodNames

\* The greatest of a few versions is one of them.
LEMMA MaxVersion == ASSUME NEW S \in SUBSET (10..13), S # {} PROVE Max(S) \in S
<1>1. \E x \in S : \A y \in S : x >= y
  <2>1. CASE 13 \in S
    BY <2>1
  <2>2. CASE 13 \notin S /\ 12 \in S
    BY <2>2
  <2>3. CASE 13 \notin S /\ 12 \notin S /\ 11 \in S
    BY <2>3
  <2>4. CASE 13 \notin S /\ 12 \notin S /\ 11 \notin S
    <3>1. \A y \in S : y = 10
      BY <2>4
    <3>2. 10 \in S
      BY <3>1
    <3> QED
      BY <3>1, <3>2
  <2> QED
    BY <2>1, <2>2, <2>3, <2>4
<1> QED
  BY <1>1 DEF Max

\* The protocol is the server's first choice among the offered.
LEMMA Negotiated ==
    ASSUME NEW name, NEW l, Announced(name, l), NEW offer, offer.alpn \in SUBSET {"h2", "http/1.1"},
           NEW p, p = Protocol(l.server, offer)
    PROVE  /\ p = "" <=> offer.alpn \cap l.alpn = {}
           /\ p = "h2" <=> "h2" \in offer.alpn \cap l.alpn
<1> DEFINE alpn == l.server.alpn
           common == {i \in DOMAIN alpn : alpn[i] \in offer.alpn}
<1>1. p = IF common = {} THEN "" ELSE alpn[Min(common)]
  BY DEF Protocol
<1>2. CASE l.alpn = {"h2", "http/1.1"} /\ alpn = <<"h2", "http/1.1">>
  <2>1. DOMAIN alpn = {1, 2} /\ alpn[1] = "h2" /\ alpn[2] = "http/1.1"
    BY <1>2
  <2>2. CASE "h2" \in offer.alpn
    <3>1. 1 \in common /\ common \in SUBSET {1, 2}
      BY <2>1, <2>2
    <3> HIDE DEF common
    <3>2. \A x \in common : (\A y \in common : x <= y) <=> x = 1
      BY <3>1
    <3>3. Min(common) = 1
      BY <3>1, <3>2 DEF Min
    <3> QED
      BY <1>1, <1>2, <2>1, <2>2, <3>1, <3>3
  <2>3. CASE "h2" \notin offer.alpn /\ "http/1.1" \in offer.alpn
    <3>1. common = {2}
      BY <2>1, <2>3
    <3> HIDE DEF common
    <3>2. Min(common) = 2
      BY <3>1 DEF Min
    <3> QED
      BY <1>1, <1>2, <2>1, <2>3, <3>1, <3>2
  <2>4. CASE "h2" \notin offer.alpn /\ "http/1.1" \notin offer.alpn
    <3>1. common = {}
      BY <2>1, <2>4
    <3> QED
      BY <1>1, <1>2, <2>4, <3>1
  <2> QED
    BY <2>2, <2>3, <2>4
<1>3. CASE l.alpn = {"http/1.1"} /\ alpn = <<"http/1.1">>
  <2>1. DOMAIN alpn = {1} /\ alpn[1] = "http/1.1"
    BY <1>3
  <2>2. CASE "http/1.1" \in offer.alpn
    <3>1. common = {1}
      BY <2>1, <2>2
    <3> HIDE DEF common
    <3>2. Min(common) = 1
      BY <3>1 DEF Min
    <3> QED
      BY <1>1, <1>3, <2>1, <2>2, <3>1, <3>2
  <2>3. CASE "http/1.1" \notin offer.alpn
    <3>1. common = {}
      BY <2>1, <2>3
    <3> QED
      BY <1>1, <1>3, <2>3, <3>1
  <2> QED
    BY <2>2, <2>3
<1> QED
  BY <1>2, <1>3 DEF Announced

\* main.go:87-140, tls.go:386-536: for any TLS stacks, hosts and restarts, what is negotiated is
\* what /info announces, and /tls reports the client's own offer.
THEOREM InfoIsHonestHolds == Spec => []InfoIsHonest
<1>1. ASSUME Inv, CallsInv, attempt # NoAttempt
      PROVE  LET announced == listeners[attempt.listener]
             IN /\ "version" \in attempt.why <=> attempt.offer.versions \cap announced.min..announced.max = {}
                /\ "alpn" \in attempt.why <=> attempt.offer.alpn # {} /\ attempt.offer.alpn \cap announced.alpn = {}
                /\ conn # NoConn =>
                     /\ conn.version \in announced.min..announced.max
                     /\ conn.proto = "HTTP/2.0" <=> "h2" \in attempt.offer.alpn \cap announced.alpn
                     /\ conn.listener = "pqc" => "X25519MLKEM768" \in attempt.offer.groups
  <2>1. PICK name \in DOMAIN listeners, o \in Offers, host \in Hosts, clock \in Clocks, completed \in BOOLEAN :
            attempt = [listener |-> name, offer |-> OfferOf(o), host |-> host, clock |-> clock,
                       completed |-> completed, why |-> Why(name, o, host, clock, completed)]
    BY <1>1 DEF Inv, AttemptIsCurrent
  <2> DEFINE offer == OfferOf(o)
             l == listeners[name]
             refused == ServerRefuses(l.server, offer, clock.server)
  <2>2. attempt.listener = name /\ attempt.offer = offer /\ attempt.why = Why(name, o, host, clock, completed)
    BY <2>1
  <2>3. /\ offer.versions \in SUBSET (10..13) /\ offer.alpn \in SUBSET {"h2", "http/1.1"}
        /\ offer.groups \in SUBSET Groups
    <3>1. o \in OfferType
      BY OffersAssumption
    <3> QED
      BY <3>1 DEF OfferType, OfferOf
  <2>4. Announced(name, l)
    <3>1. proc \in 1..MaxProcs /\ supplied \in BOOLEAN
      BY <1>1 DEF Inv, KeptIsFetched
    <3>2. listeners = TlsListeners(certs) /\ DOMAIN certs.badChains \in SUBSET BadNames
      BY <3>1, RunningProcess, RunningListeners
    <3> QED
      BY <3>2, Announcements
  <2>5. \A w \in {"version", "alpn", "group"} : w \in attempt.why <=> w \in refused
    <3>1. {"version", "alpn", "group"} \cap ChainWhy(name, host, clock, completed) = {}
      BY DEF ChainWhy, Objections
    <3> QED
      BY <2>2, <3>1 DEF Why
  <2> DEFINE p == Protocol(l.server, offer)
             vs == Versions(l.server, offer)
  <2>6. /\ p = "" <=> offer.alpn \cap l.alpn = {}
        /\ p = "h2" <=> "h2" \in offer.alpn \cap l.alpn
    BY <2>3, <2>4, Negotiated
  <2>7. vs = offer.versions \cap l.min..l.max
    BY <2>4 DEF Versions, Announced
  <2>8. /\ "version" \in refused <=> vs = {}
        /\ "alpn" \in refused <=> offer.alpn # {} /\ p = ""
        /\ "group" \in refused <=> l.server.groups \cap offer.groups = {}
    BY DEF ServerRefuses
  <2>9. ASSUME conn # NoConn
        PROVE  /\ conn.version \in l.min..l.max
               /\ conn.proto = "HTTP/2.0" <=> "h2" \in offer.alpn \cap l.alpn
               /\ conn.listener = "pqc" => "X25519MLKEM768" \in offer.groups
    <3>1. /\ attempt.why = {}
          /\ conn = Opened(name, TRUE, <<"https", attempt.host>>, FALSE, Max(vs), p, offer)
      BY <1>1, <2>2, <2>9 DEF CallsInv, ConnIsAttempt
    <3> HIDE DEF p, vs
    <3>2. conn.version = Max(vs) /\ conn.listener = name /\ (conn.proto = "HTTP/2.0" <=> p = "h2")
      BY <3>1 DEF Opened
    <3>3. Max(vs) \in vs
      <4>1. vs # {} /\ vs \in SUBSET (10..13)
        BY <2>3, <2>5, <2>7, <2>8, <3>1
      <4> QED
        BY <4>1, MaxVersion
    <3>4. name = "pqc" => "X25519MLKEM768" \in offer.groups
      BY <2>4, <2>5, <2>8, <3>1 DEF Announced
    <3> QED
      BY <2>6, <2>7, <3>2, <3>3, <3>4
  <2> HIDE DEF refused, p, vs, offer, l
  <2>10. /\ "version" \in attempt.why <=> offer.versions \cap l.min..l.max = {}
         /\ "alpn" \in attempt.why <=> offer.alpn # {} /\ offer.alpn \cap l.alpn = {}
    BY <2>5, <2>6, <2>7, <2>8
  <2> QED
    BY <2>2, <2>9, <2>10 DEF offer, l
<1>2. ASSUME CallsInv, NEW s \in Streams, Answered(s), calls[s].req.path = "/tls", conn.listener # "raw"
      PROVE  OfferIsReported(s)
  <2> DEFINE x == calls[s]
             c == Seen(conn)
  <2>1. IsConn(conn) /\ Live(conn, certs, x)
    BY <1>2 DEF CallsInv, Underway, Answered
  <2>2. x.plan = tlsInfo(x.req, c, certs)
    BY <1>2, <2>1, Known, Allowed
  <2>3. c.offer = conn.offer /\ conn.offer.extensions \in Seq(Nat)
    BY <2>1, SeenOpen DEF IsConn
  <2> HIDE DEF c
  <2>4. x.plan.payload = [tls |-> handshakeReport(c, certs)]
    BY <2>2 DEF tlsInfo, writeJSON, Respond
  <2>5. \A report \in x.plan.payload.tls : report = handshake(c, certs.selfMade)
    BY <2>4 DEF handshakeReport
  <2>6. ASSUME NEW report \in x.plan.payload.tls PROVE ReportIsOffer(report, conn.offer)
    <3>1. report = handshake(c, certs.selfMade) /\ c.offer.extensions \in Seq(Nat)
      BY <2>3, <2>5
    <3>2. ReportIsOffer(report, c.offer)
      BY <3>1, Reported
    <3> QED
      BY <2>3, <3>2
  <2>7. Plan(s) = x.plan
    BY DEF Plan
  <2> QED
    BY <2>6, <2>7 DEF OfferIsReported
<1>3. Inv /\ CallsInv => InfoIsHonest
  BY <1>1, <1>2 DEF InfoIsHonest
<1> QED
  BY <1>3, Invariant, CallInvariant, PTL
=============================================================================
