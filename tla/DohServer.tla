----------------------------- MODULE DohServer -----------------------------
(***************************************************************************)
(* The fixture's DNS-over-HTTPS resolver: one request to /dns-query, from  *)
(* the bytes a peer sent to the response (ech-fixture/main.go, runDoH).    *)
(*                                                                         *)
(* The question is parsed a label at a time by indexing the query; an      *)
(* index or slice outside it is the stage "panic".                         *)
(* The handler keeps nothing between requests, so one request at a time    *)
(* is every request.  Offsets count from 0, as they do in the code.        *)
(*                                                                         *)
(* Names are their text in bytes, given by Bytes so that an instance can   *)
(* use short ones.  Letters are ASCII.  An ECH config list is the          *)
(* identifier of its one config, and the value of an SvcParam a sequence   *)
(* of numbers; the 16-bit length before a value is left out, since every   *)
(* value is a few dozen bytes.                                             *)
(***************************************************************************)
EXTENDS Naturals, Sequences, FiniteSets, FiniteSetsExt, SequencesExt

CONSTANTS
    Bytes,       \* the text of every name the resolver knows
    TargetPort,  \* TARGET_PORT, an int
    MaxBody,     \* the bytes read of a POST body, 65536
    Requests     \* the requests a peer may send

Byte == {n \in Nat : n < 256}
Uint16 == {n \in Nat : n < 65536}
Header == 12
Dot == 46
Underscore == 95
https == <<95, 104, 116, 116, 112, 115>>  \* "_https"

SvcbNames == {"alias.svcb.test", "nodefaultalpn.svcb.test", "mandatory.svcb.test",
              "h3only.svcb.test", "unknownparam.svcb.test"}
EchNames == {"green.secret.test", "retry.secret.test", "disabled.secret.test"}

ASSUME BytesAssumption == Bytes \in [SvcbNames \cup EchNames -> Seq(Byte)]
ASSUME LimitAssumption == TargetPort \in Nat /\ MaxBody \in Nat
ASSUME RequestsAssumption ==
    Requests \subseteq [method : {"POST", "GET", "PUT"}, decodable : BOOLEAN, body : Seq(Byte)]

VARIABLES
    stage,     \* "idle", "read", "labels", "question", "done" or "panic"
    query,     \* the bytes being parsed
    position,  \* dnsQuestion's position, an offset into query
    labels,    \* dnsQuestion's labels
    response   \* what the peer gets

dohVars == <<stage, query, position, labels, response>>

\* The query or the error of readDnsQuery.  decodable: is "dns" base64url?
readDnsQuery(r) ==
    IF r.method = "POST" THEN <<SubSeq(r.body, 1, IF Len(r.body) < MaxBody THEN Len(r.body) ELSE MaxBody)>>
    ELSE IF r.method = "GET" /\ r.decodable THEN <<r.body>>
    ELSE << >>

-----------------------------------------------------------------------------
\* Records and what builds them
None == [priority |-> 0, target |-> << >>, params |-> << >>, address |-> << >>, present |-> FALSE]
H1 == 1
H2 == 2
H3 == 3
Loopback == <<127, 0, 0, 1>>

appendSvcParam(params, key, value) == Append(params, [key |-> key, value |-> value])
Answer(priority, target, params, address) ==
    [priority |-> priority, target |-> target, params |-> params, address |-> address, present |-> TRUE]
ServiceMode(params) == Answer(1, << >>, params, << >>)
AliasMode(target) == Answer(0, target, << >>, << >>)
Port == <<TargetPort % 65536>>  \* uint16(targetPort)

httpsRecord(echConfigList) ==
    ServiceMode(appendSvcParam(appendSvcParam(appendSvcParam(appendSvcParam(<< >>,
        1, <<H2, H1>>), 3, Port), 4, Loopback), 5, echConfigList))

svcParamFixture_unsorted(name) ==
    IF name = Bytes["mandatory.svcb.test"]
    THEN ServiceMode(appendSvcParam(appendSvcParam(<< >>, 1, <<H2>>), 0, <<1>>))
    ELSE None
svcParamFixture_selfAlias(name) ==
    IF name = Bytes["alias.svcb.test"]
    THEN AliasMode(Bytes["alias.svcb.test"]) ELSE None

\* The record of one of the svcb.test names, None for any other name
svcParamFixture(name) ==
    IF name = Bytes["alias.svcb.test"] THEN AliasMode(Bytes["green.secret.test"])
    ELSE IF name = Bytes["nodefaultalpn.svcb.test"] THEN
        ServiceMode(appendSvcParam(appendSvcParam(appendSvcParam(<< >>, 1, <<H2>>), 2, << >>), 3, Port))
    ELSE IF name = Bytes["mandatory.svcb.test"] THEN
        ServiceMode(appendSvcParam(appendSvcParam(appendSvcParam(<< >>, 0, <<1>>), 1, <<H2>>), 3, Port))
    ELSE IF name = Bytes["h3only.svcb.test"] THEN
        ServiceMode(appendSvcParam(appendSvcParam(<< >>, 1, <<H3>>), 3, Port))
    ELSE IF name = Bytes["unknownparam.svcb.test"] THEN
        ServiceMode(appendSvcParam(appendSvcParam(appendSvcParam(<< >>, 1, <<H2>>), 3, Port), 31337, <<0>>))
    ELSE None

\* The config lists published: the current one for green, stale ones for the others
echConfigs(name) ==
    IF name = Bytes["green.secret.test"] THEN <<1>>
    ELSE IF name = Bytes["retry.secret.test"] THEN <<2>>
    ELSE IF name = Bytes["disabled.secret.test"] THEN <<4>>
    ELSE << >>

ToLower(text) == [i \in DOMAIN text |-> IF text[i] \in 65..90 THEN text[i] + 32 ELSE text[i]]

\* strings.Join(labels, ".")
JoinDot(parts) == FlattenSeq([i \in DOMAIN parts |-> IF i = 1 THEN parts[i] ELSE <<Dot>> \o parts[i]])

\* strconv.ParseUint(text, 10, 16) succeeds
ParseUint16(text) ==
    LET value[i \in 0..Len(text)] == IF i = 0 THEN 0 ELSE 10 * value[i - 1] + text[i] - 48
    IN text # << >> /\ (\A i \in DOMAIN text : text[i] \in 48..57) /\ value[Len(text)] <= 65535

\* name without a leading _<port>._https., told apart by its first two dots
stripAttrleafPort(name) ==
    LET dots == {i \in DOMAIN name : name[i] = Dot}
        first == Min(dots)
        second == Min(dots \ {first})
    IN IF /\ Cardinality(dots) >= 2
          /\ SubSeq(name, first + 1, second - 1) = https
          /\ first > 2 /\ name[1] = Underscore
          /\ ParseUint16(SubSeq(name, 2, first - 1))
       THEN SubSeq(name, second + 1, Len(name))
       ELSE name

-----------------------------------------------------------------------------
\* The handler
Reply(status, question, type, rdata) ==
    [status |-> status, id |-> SubSeq(query, 1, 2), question |-> question, type |-> type, rdata |-> rdata]
NoReply == [status |-> 0, id |-> << >>, question |-> << >>, type |-> 0, rdata |-> None]
Refused == [status |-> 400, id |-> << >>, question |-> << >>, type |-> 0, rdata |-> None]

BadRequest ==
    /\ stage' = "done"
    /\ response' = Refused
    /\ UNCHANGED <<query, position, labels>>

\* query[low:high] is inside the query
InRange(low, high) == low <= high /\ high <= Len(query)
Slice(low, high) == SubSeq(query, low + 1, high)

Receive(r) ==
    /\ stage = "idle"
    /\ IF readDnsQuery(r) = << >>
       THEN /\ stage' = "done" /\ query' = << >>
            /\ response' = Refused
       ELSE /\ stage' = "read" /\ query' = readDnsQuery(r)[1]
            /\ response' = NoReply
    /\ position' = 0 /\ labels' = << >>

ShortQuery == stage = "read" /\ Len(query) < 17 /\ BadRequest

StartQuestion ==
    /\ stage = "read" /\ Len(query) >= 17
    /\ stage' = "labels" /\ position' = Header
    /\ UNCHANGED <<query, labels, response>>

\* The length byte at position, and what the two bounds checks of the loop say
AtEnd == position >= Len(query)
length == IF position < Len(query) THEN query[position + 1] ELSE 0
LabelFits_unbounded == length <= 63
LabelFits == length <= 63 /\ position + 1 + length <= Len(query)

NameRunsOut == stage = "labels" /\ AtEnd /\ BadRequest

BadLabel == stage = "labels" /\ ~AtEnd /\ length # 0 /\ ~LabelFits /\ BadRequest

Label_stays ==
    /\ stage = "labels" /\ ~AtEnd /\ length # 0 /\ LabelFits
    /\ stage' = "labels" /\ labels' = Append(labels, Slice(position + 1, position + 1 + length))
    /\ UNCHANGED <<query, position, response>>
Label ==
    /\ stage = "labels" /\ ~AtEnd /\ length # 0 /\ LabelFits
    /\ LET low == position + 1
           high == low + length
       IN IF InRange(low, high)
          THEN stage' = "labels" /\ labels' = Append(labels, Slice(low, high)) /\ position' = high
          ELSE stage' = "panic" /\ UNCHANGED <<labels, position>>
    /\ UNCHANGED <<query, response>>

NameEnds ==
    /\ stage = "labels" /\ ~AtEnd /\ length = 0
    /\ IF InRange(position, position + 1)
       THEN stage' = "question" /\ position' = position + 1
       ELSE stage' = "panic" /\ UNCHANGED position
    /\ UNCHANGED <<query, labels, response>>

QuestionFits == position + 4 <= Len(query)

ShortQuestion == stage = "question" /\ ~QuestionFits /\ BadRequest

\* What dnsResponse answers a question; << >> where it returns an error
Rdata(qtype, name) ==
    LET serviceName == stripAttrleafPort(name)
        fixture == svcParamFixture(serviceName)
    IN IF qtype = 1 THEN <<Answer(0, << >>, << >>, Loopback)>>
       ELSE IF qtype # 65 THEN <<None>>
       ELSE IF fixture.present THEN <<fixture>>
       ELSE IF echConfigs(serviceName) # << >> THEN <<httpsRecord(echConfigs(serviceName))>>
       ELSE << >>

questionName == ToLower(JoinDot(labels))

Respond ==
    /\ stage = "question" /\ QuestionFits
    /\ IF InRange(Header, position + 4)
       THEN LET type == Slice(position, position + 2)
                qtype == 256 * type[1] + type[2]
                answer == Rdata(qtype, questionName)
            IN /\ stage' = "done"
               /\ response' = IF answer = << >> THEN Refused
                              ELSE Reply(200, Slice(Header, position + 4), qtype, answer[1])
       ELSE stage' = "panic" /\ UNCHANGED response
    /\ UNCHANGED <<query, position, labels>>

\* The response is written and the handler's variables are gone
Written ==
    /\ stage = "done" /\ stage' = "idle"
    /\ query' = << >> /\ position' = 0 /\ labels' = << >> /\ response' = NoReply

Init == stage = "idle" /\ query = << >> /\ position = 0 /\ labels = << >> /\ response = NoReply

Handle ==
    \/ ShortQuery \/ StartQuestion
    \/ NameRunsOut \/ BadLabel \/ Label \/ NameEnds
    \/ ShortQuestion \/ Respond

Next == (\E r \in Requests : Receive(r)) \/ Handle \/ Written

Spec == Init /\ [][Next]_dohVars

-----------------------------------------------------------------------------
Record == [priority : 0..1, target : Seq(Byte), params : Seq([key : Nat, value : Seq(Nat)]),
           address : Seq(Byte), present : BOOLEAN]
Responses == [status : {0, 200, 400}, id : Seq(Byte), question : Seq(Byte), type : Uint16, rdata : Record]

\* Types, and where the parser stands at each stage
TypeOK ==
    /\ stage \in {"idle", "read", "labels", "question", "done", "panic"}
    /\ query \in Seq(Byte)
    /\ position \in Nat
    /\ stage \in {"labels", "question"} => Len(query) >= 17 /\ position \in Header..Len(query)
    /\ labels \in Seq(Seq(Byte))
    /\ response \in Responses

\* dnsQuestion and dnsResponse index the peer's bytes by lengths the peer chose:
\* no query, however cut short or malformed, makes them read outside it.
NoPanic == stage # "panic"

\* Every turn of dnsQuestion's unbounded for loop moves forward, so that no
\* query, compression pointers included, keeps a handler for ever.
ParserAdvances == [][stage = "labels" /\ stage' \in {"labels", "question"} => position' > position]_dohVars

\* A name in wire format: each label after its length
Encoded(parts) == FlattenSeq([i \in DOMAIN parts |-> <<Len(parts[i])>> \o parts[i]])

\* A successful response carries the identifier and the very question of its
\* query: re-encoding the labels that were looked up gives the bytes sent back.
EchoesQuestion ==
    stage = "done" /\ response.status = 200 =>
        LET encoded == Encoded(labels) \o <<0>>
            question == response.question
        IN /\ response.id = SubSeq(query, 1, 2)
           /\ Len(question) = Len(encoded) + 4
           /\ SubSeq(question, 1, Len(encoded)) = encoded
           /\ response.type = 256 * question[Len(encoded) + 1] + question[Len(encoded) + 2]

\* RFC 9460 of a record in ServiceMode: keys strictly increase, and a key that
\* "mandatory" (0) names, or that "no-default-alpn" (2) needs, is there.
WellFormed(record) ==
    LET params == record.params
        keys == {params[i].key : i \in DOMAIN params}
    IN /\ \A i \in DOMAIN params : i > 1 => params[i - 1].key < params[i].key
       /\ \A i \in DOMAIN params : params[i].key = 0 => ToSet(params[i].value) \subseteq keys \ {0}
       /\ 2 \in keys => 1 \in keys
       /\ record.priority = 0 => params = << >>

\* Every record in a response is one a conforming client takes (svcParamFixture).
SvcParamsWellFormed == WellFormed(response.rdata)
=============================================================================
