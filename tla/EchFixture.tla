----------------------------- MODULE EchFixture -----------------------------
(***************************************************************************)
(* The two halves of the ECH fixture used together by one client, as the   *)
(* Android suite, SvcParamTest and ConscryptEchPolicyTest use them: the    *)
(* client asks the resolver (DohServer) for its host's A and HTTPS         *)
(* records, opens a connection to the origin (EchOrigin) and, when its ECH *)
(* is rejected under a certificate it can verify, tries once more.         *)
(*                                                                         *)
(* The client is not part of the repository's main code: it is any client  *)
(* that follows RFC 9460 and RFC 9849, with ECH (Android 37 and later) or  *)
(* without.  Queries or their answers may be lost, and other peers send    *)
(* the resolver any of Requests in between.                                *)
(***************************************************************************)
EXTENDS DohServer, EchOrigin

VARIABLES
    host,     \* the host of the client's URL, on port 8443
    level,    \* "noTls13", "noEch" or "ech": what the client's platform can do
    bare,     \* does it ask for the bare name, as on port 443?
    peer,     \* whose request the resolver is serving
    lookup,   \* each record type: "none", "asked", "answered", "failed", "lost"
    asked,    \* the name whose HTTPS record is wanted; changes when an alias is followed
    config,   \* the ECH config the next hello uses, 0 for none
    hellos,   \* the ClientHellos sent
    outcome   \* "" until the call ends

clientVars == <<host, level, bare, peer, lookup, asked, config, hellos, outcome>>
vars == <<dohVars, clientVars>>

Types == {"A", "HTTPS"}
CtNames == {"ct-enforced.test", "ct-opt-out.test"}
Issue1561 == "issue1561.secret.test"
Hosts == EchNames \cup SvcbNames \cup CtNames \cup {Issue1561}

\* A host the resolver has no text for still has a name to ask for
Unknown == <<120>>
Text(name) == IF name \in DOMAIN Bytes THEN Bytes[name] ELSE Unknown
Attrleaf == <<95, 56, 52, 52, 51, 46>> \o https \o <<Dot>>  \* "_8443._https."

\* Text as the fixture's names are written: no capitals, and from the start and from
\* each dot a label of 1 to 63 bytes up to the next dot or the end
Labelled(text) ==
    /\ \A i \in DOMAIN text : text[i] \notin 65..90
    /\ \A i \in 0..Len(text) : i = 0 \/ text[i] = Dot =>
        /\ i < Len(text) /\ text[i + 1] # Dot
        /\ \E j \in i + 2..i + 64 : j = Len(text) + 1 \/ (j <= Len(text) /\ text[j] = Dot)

\* The names differ, none is the stand-in for a name the resolver does not know or
\* starts as an Attrleaf does, and the longest query about one is read whole:
\* 12 bytes of header, Attrleaf, the name with 2 bytes more, its type and class
ASSUME NamesAssumption ==
    /\ \A n \in DOMAIN Bytes :
        /\ Labelled(Bytes[n]) /\ Bytes[n] # Unknown /\ Bytes[n][1] # Underscore
        /\ Len(Bytes[n]) + 31 <= MaxBody
    /\ \A m, n \in DOMAIN Bytes : Bytes[m] = Bytes[n] => m = n

\* A name in wire format, each dot giving way to the length of the label after it:
\* the client's encoder, and appendDnsName of main.go
appendDnsName(name) ==
    LET labelAfter(i) == Min({j \in i + 1..Len(name) + 1 : j > Len(name) \/ name[j] = Dot}) - i - 1
    IN <<labelAfter(0)>> \o [i \in DOMAIN name |-> IF name[i] = Dot THEN labelAfter(i) ELSE name[i]] \o <<0>>

QueryFor(name, qtype) == <<18, 52, 1, 0, 0, 1, 0, 0, 0, 0, 0, 0>> \o appendDnsName(name) \o <<0, qtype, 0, 1>>

ClientQuery(type) ==
    [method |-> IF bare THEN "GET" ELSE "POST", decodable |-> TRUE,
     body |-> IF type = "A" THEN QueryFor(Text(host), 1)
              ELSE QueryFor((IF bare THEN << >> ELSE Attrleaf) \o asked, 65)]

FixtureInit ==
    /\ Init
    /\ host \in Hosts /\ level \in {"noTls13", "noEch", "ech"} /\ bare \in BOOLEAN
    /\ host \in SvcbNames => level = "ech"  \* these are only resolved, on any platform
    /\ peer = "none" /\ outcome = "" /\ hellos = << >>
    /\ asked = Text(host)
    \* ConscryptEchPolicyTest needs no resolver: its config comes from /metadata
    /\ IF host = Issue1561
       THEN level = "ech" /\ config = issue1561StaleKey.id /\ lookup = [t \in Types |-> "answered"]
       ELSE config = 0 /\ lookup = [t \in Types |-> "none"]

-----------------------------------------------------------------------------
\* The client's two lookups, and everyone else's
Ask(type) ==
    /\ outcome = "" /\ lookup[type] = "none"
    /\ "doh.test" \in dohCertificate.dnsNames
    /\ Receive(ClientQuery(type))
    /\ peer' = type
    /\ lookup' = [lookup EXCEPT ![type] = "asked"]
    /\ UNCHANGED <<host, level, bare, asked, config, hellos, outcome>>

OtherPeer ==
    /\ outcome = ""
    /\ \E r \in Requests : Receive(r)
    /\ peer' = "other"
    /\ UNCHANGED <<host, level, bare, lookup, asked, config, hellos, outcome>>

Serve == Handle /\ UNCHANGED clientVars

OtherAnswered == peer = "other" /\ Written /\ peer' = "none"
    /\ UNCHANGED <<host, level, bare, lookup, asked, config, hellos, outcome>>

EchParam == {p \in Range(response.rdata.params) : p.key = 5}
IsAlias == response.status = 200 /\ response.rdata.present /\ response.rdata.priority = 0

\* A lost query or answer is "failed"; an alias is followed by asking again
Answered ==
    /\ peer \in Types /\ Written
    /\ peer' = "none"
    /\ LET ok == response.status = 200 /\ response.rdata.present
       IN \/ /\ ~(peer = "HTTPS" /\ IsAlias)
             /\ lookup' = [lookup EXCEPT ![peer] = IF ok THEN "answered" ELSE "failed"]
             /\ config' = IF peer = "HTTPS" /\ ok /\ EchParam # {}
                          THEN (CHOOSE p \in EchParam : TRUE).value[1] ELSE config
             /\ UNCHANGED asked
          \/ /\ peer = "HTTPS" /\ IsAlias
             /\ lookup' = [lookup EXCEPT ![peer] = "none"]
             /\ asked' = response.rdata.target
             /\ UNCHANGED config
          \/ /\ lookup' = [lookup EXCEPT ![peer] = "lost"]
             /\ UNCHANGED <<asked, config>>
    /\ UNCHANGED <<host, level, bare, hellos, outcome>>

-----------------------------------------------------------------------------
\* The client's handshakes with the origin
PublicName(id) == (CHOOSE k \in Keys : k.id = id).publicName

ClientHello ==
    IF level = "ech" /\ config # 0
    THEN [serverName |-> PublicName(config), inner |-> host, ech |-> config]
    ELSE [serverName |-> host, inner |-> host, ech |-> 0]

Resolved == lookup["A"] = "answered" /\ lookup["HTTPS"] \in {"answered", "failed", "lost"}

ResolutionFails ==
    /\ outcome = "" /\ lookup["A"] \in {"failed", "lost"}
    /\ outcome' = "unresolved"
    /\ UNCHANGED <<dohVars, host, level, bare, peer, lookup, asked, config, hellos>>

\* SvcParamTest only resolves its names
ResolvedOnly ==
    /\ outcome = "" /\ Resolved /\ host \in SvcbNames
    /\ outcome' = "resolved"
    /\ UNCHANGED <<dohVars, host, level, bare, peer, lookup, asked, config, hellos>>

\* A rejection is authenticated by the public name, anything else by the host
Connect ==
    /\ outcome = "" /\ Resolved /\ host \notin SvcbNames
    /\ LET hello == ClientHello
           handshake == Handshake(hello)
           rejected == hello.ech # 0 /\ ~handshake.accepted
           name == IF rejected THEN hello.serverName ELSE host
           result == IF level = "noTls13" THEN "noTls13"
                     ELSE IF name \notin handshake.certificate.dnsNames THEN "badCertificate"
                     ELSE IF rejected THEN (IF host = Issue1561 THEN "rejected" ELSE "")
                     ELSE IF Report(handshake) = [echAccepted |-> TRUE, serverName |-> host] THEN "ech"
                     ELSE "plain"
       IN /\ hellos' = Append(hellos, hello)
          /\ outcome' = result
          /\ config' = IF result = "" /\ handshake.retry # {} /\ hellos = << >>
                       THEN CHOOSE id \in handshake.retry : TRUE ELSE 0
    /\ UNCHANGED <<dohVars, host, level, bare, peer, lookup, asked>>

Over == outcome # "" /\ stage = "idle" /\ UNCHANGED vars

FixtureNext ==
    \/ \E t \in Types : Ask(t)
    \/ OtherPeer \/ Serve \/ OtherAnswered \/ Answered
    \/ ResolutionFails \/ ResolvedOnly \/ Connect \/ Over

\* net/http runs the handler of every request it has read and writes its response;
\* the client goes on, and its request is not put off for ever by other peers'.
FixtureSpec ==
    /\ FixtureInit /\ [][FixtureNext]_vars
    /\ WF_vars(Serve \/ Answered \/ OtherAnswered)
    /\ WF_vars(ResolutionFails \/ ResolvedOnly \/ Connect)
    /\ SF_vars(Ask("A")) /\ SF_vars(Ask("HTTPS"))

-----------------------------------------------------------------------------
\* The resolver answers the HTTPS query of every fixture name, bare or under
\* _8443._https., and the alias leads on to green's config list: a lookup fails only
\* for the names that have no record.  (main.go, the comment on case 65.)
PublishedConfigArrives ==
    /\ "failed" \in Range(lookup) => host \in CtNames
    /\ host = "alias.svcb.test" /\ lookup["HTTPS"] = "answered" => config = greenKey.id

\* What dnsResponse sends is what was asked for and what a conforming client takes: the
\* question comes back as it was looked up, the record is well formed, and every fixture
\* name's lookup ends with its config list (main.go:209-374).
AnswersAreSound == EchoesQuestion /\ SvcParamsWellFormed /\ PublishedConfigArrives

\* The three outcomes EncryptedClientHelloTest states, on every platform and
\* whatever was lost: who ends with ECH, and after how many handshakes.  Whatever the
\* client has to verify, a rejected hello's public name or its own host, is on the
\* certificate the origin chose for that handshake (main.go:122-147).
OutcomePerName ==
    /\ outcome # "badCertificate"
    /\ outcome \in {"ech", "plain"} =>
        LET usable == level = "ech" /\ lookup["HTTPS"] = "answered"
        IN /\ (outcome = "ech") = (usable /\ host \in {"green.secret.test", "retry.secret.test"})
           /\ (Len(hellos) = 2) = (usable /\ host \in {"retry.secret.test", "disabled.secret.test"})

\* A client that got the config list never puts the secret name in the clear, but
\* for disabled, and then only after the origin itself rejected its ECH.
SecretNameHidden ==
    host \in EchNames /\ level = "ech" /\ lookup["HTTPS"] = "answered" =>
        \A i \in DOMAIN hellos :
            hellos[i].serverName = host => host = "disabled.secret.test" /\ i > 1 /\ hellos[i - 1].ech # 0

\* Whatever is lost and whatever other peers send, every call comes to an end:
\* following an alias and retrying a rejection are not repeated for ever.
CallEnds == <>(outcome # "")
=============================================================================
