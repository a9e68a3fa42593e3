----------------------------- MODULE EchOrigin -----------------------------
(***************************************************************************)
(* The fixture's TLS origin: the ECH keys it holds, the certificates it    *)
(* presents and what it makes of a ClientHello (ech-fixture/main.go,       *)
(* runTarget).  A key pair and its config are the config's identifier and  *)
(* public name; a certificate is the names it covers.  Only                *)
(* TLS 1.3 is spoken.                                                      *)
(***************************************************************************)
EXTENDS Naturals

newECHKey(id, publicName, retryable) == [id |-> id, publicName |-> publicName, retryable |-> retryable]

greenKey == newECHKey(1, "green.public.test", TRUE)
retryStaleKey == newECHKey(2, "retry.public.test", FALSE)
retryKey_final == newECHKey(3, "retry.public.test", FALSE)
retryKey == newECHKey(3, "retry.public.test", TRUE)
disabledStaleKey == newECHKey(4, "disabled.public.test", FALSE)
disabledKey == newECHKey(5, "disabled.public.test", FALSE)
issue1561StaleKey == newECHKey(6, "issue1561.public.test", FALSE)
issue1561Key == newECHKey(7, "issue1561.public.test", FALSE)

Keys == {greenKey, retryStaleKey, retryKey, disabledStaleKey, disabledKey, issue1561StaleKey, issue1561Key}

\* Signed by the packaged CA and valid from an hour ago for a day, longer than a run
newLeaf(names) == [dnsNames |-> names]
targetCertificate ==
    newLeaf({"green.secret.test", "green.public.test", "retry.secret.test", "retry.public.test",
             "disabled.secret.test", "disabled.public.test", "ct-enforced.test", "ct-opt-out.test"})
dohCertificate == newLeaf({"doh.test"})
issue1561Certificate == newLeaf({"issue1561.public.test"})

\* The keys tried on a hello, by the name it carries in the clear
GetEncryptedClientHelloKeys_published(serverName) ==
    {k \in {greenKey, retryStaleKey, disabledStaleKey, issue1561StaleKey} : k.publicName = serverName}
GetEncryptedClientHelloKeys(serverName) ==
    CASE serverName = "green.public.test" -> {greenKey}
      [] serverName = "retry.public.test" -> {retryKey}
      [] serverName = "disabled.public.test" -> {disabledKey}
      [] serverName = "issue1561.public.test" -> {issue1561Key}
      [] OTHER -> {}

GetCertificate(serverName) ==
    IF serverName = "issue1561.public.test" THEN issue1561Certificate ELSE targetCertificate

\* crypto/tls: the inner hello is used if a key decrypts it, else the outer one,
\* and then the configs marked SendAsRetry go back.  ech = 0: GREASE, or none.
Handshake(hello) ==
    LET keys == GetEncryptedClientHelloKeys(hello.serverName)
        accepted == \E k \in keys : k.id = hello.ech
        serverName == IF accepted THEN hello.inner ELSE hello.serverName
    IN [accepted |-> accepted, serverName |-> serverName, certificate |-> GetCertificate(serverName),
        retry |-> IF accepted THEN {} ELSE {k.id : k \in {j \in keys : j.retryable}}]

\* The body of every response
Report(handshake) == [echAccepted |-> handshake.accepted, serverName |-> handshake.serverName]
=============================================================================
