-------------------------- MODULE EchFixtureProofs --------------------------
(***************************************************************************)
(* The resolver's parser is safe for every request of every length, what   *)
(* it answers is what was asked, and a client that relies on it and on the *)
(* origin ends as the suite states, for all names, texts and peers.        *)
(***************************************************************************)
EXTENDS EchFixture, SequenceTheorems, FiniteSetTheorems, WellFoundedInduction, TLAPS

-----------------------------------------------------------------------------
(* Numbers *)

\* A set of numbers that is not empty has a least member, which is what Min chooses.
LEMMA LeastNumber ==
    ASSUME NEW T \in SUBSET Nat, T # {}
    PROVE  \E m \in T : \A n \in T : m <= n
<1>1. PICK m \in T : \A n \in T : ~(<<n, m>> \in OpToRel(<, Nat))
  <2> HIDE DEF OpToRel
  <2> QED
    BY NatLessThanWellFounded, WFMin, Zenon
<1>2. \A n \in T : n < m => <<n, m>> \in OpToRel(<, Nat)
  BY DEF OpToRel
<1>3. \A n \in T : ~(n < m)
  BY <1>1, <1>2, Zenon
<1> QED
  BY <1>3

\* Min is such a member.
LEMMA MinIsLeast ==
    ASSUME NEW T \in SUBSET Nat, T # {}
    PROVE  Min(T) \in T /\ \A n \in T : Min(T) <= n
<1>1. \E m \in T : \A n \in T : m <= n
  BY LeastNumber
<1> QED
  BY <1>1, Zenon DEF Min

\* A member of a set of numbers below which there is none is its Min.
LEMMA MinIs ==
    ASSUME NEW T \in SUBSET Nat, NEW m \in T, \A n \in T : m <= n
    PROVE  Min(T) = m
<1>1. T # {}
  OBVIOUS
<1>2. Min(T) \in T /\ \A n \in T : Min(T) <= n
  BY <1>1, MinIsLeast
<1>3. Min(T) <= m /\ m <= Min(T) /\ Min(T) \in Nat /\ m \in Nat
  BY <1>2
<1> QED
  BY <1>3

\* A set that holds 0 and the successor of each number it holds, holds them all.
LEMMA SetInduction ==
    ASSUME NEW S, 0 \in S, \A n \in Nat : n \in S => n + 1 \in S
    PROVE  \A n \in Nat : n \in S
<1> SUFFICES ASSUME Nat \ S # {} PROVE FALSE
  OBVIOUS
<1>1. PICK m \in Nat \ S : \A n \in Nat \ S : m <= n
  BY LeastNumber
<1>2. m # 0 /\ m - 1 \in Nat /\ m - 1 \in S
  BY <1>1
<1> QED
  BY <1>1, <1>2

-----------------------------------------------------------------------------
(* Sequences put end to end *)

\* Is f the function of FlattenSeq on the first m of seqs?
IsFlat(f, seqs, m) == f = [i \in 1..m |-> IF i = 1 THEN seqs[i] ELSE f[i - 1] \o seqs[i]]

\* That recursive function exists, for every length.
LEMMA FlatExists == ASSUME NEW seqs PROVE \A m \in Nat : \E f : IsFlat(f, seqs, m)
<1> DEFINE S == {m \in Nat : \E f : IsFlat(f, seqs, m)}
<1>1. 0 \in S
  <2>1. IsFlat([i \in 1..0 |-> << >>], seqs, 0)
    BY DEF IsFlat
  <2> QED
    BY <2>1
<1>2. ASSUME NEW m \in Nat, m \in S PROVE m + 1 \in S
  <2>1. PICK f : IsFlat(f, seqs, m)
    BY <1>2
  <2> DEFINE end == IF m = 0 THEN seqs[m + 1] ELSE f[m] \o seqs[m + 1]
             g == [i \in 1..(m + 1) |-> IF i <= m THEN f[i] ELSE end]
  <2>2. \A i \in 1..(m + 1) : g[i] = IF i = 1 THEN seqs[i] ELSE g[i - 1] \o seqs[i]
    <3> SUFFICES ASSUME NEW i \in 1..(m + 1)
                 PROVE  g[i] = IF i = 1 THEN seqs[i] ELSE g[i - 1] \o seqs[i]
      OBVIOUS
    <3>1. CASE i <= m
      <4>1. i \in 1..m /\ (i # 1 => i - 1 \in 1..m /\ g[i - 1] = f[i - 1])
        BY <3>1
      <4>2. f[i] = IF i = 1 THEN seqs[i] ELSE f[i - 1] \o seqs[i]
        BY <2>1, <4>1 DEF IsFlat
      <4> QED
        BY <3>1, <4>1, <4>2
    <3>2. CASE i = m + 1 /\ m # 0
      <4>0. m \in 1..(m + 1) /\ m <= m /\ i - 1 = m /\ i # 1 /\ ~(i <= m)
        BY <3>2
      <4>1. g[m] = f[m] /\ g[i] = end
        BY <4>0
      <4> QED
        BY <3>2, <4>0, <4>1
    <3>3. CASE i = m + 1 /\ m = 0
      <4>1. g[i] = end /\ i = 1
        BY <3>3
      <4> QED
        BY <3>3, <4>1
    <3> QED
      BY <3>1, <3>2, <3>3
  <2>3. IsFlat(g, seqs, m + 1)
    BY <2>2 DEF IsFlat
  <2> HIDE DEF g
  <2> QED
    BY <2>3
<1> HIDE DEF S
<1>3. \A m \in Nat : m \in S
  BY <1>1, <1>2, SetInduction
<1> QED
  BY <1>3 DEF S

\* FlattenSeq returns that function's last value.
LEMMA FlattenIsFlat ==
    ASSUME NEW seqs, Len(seqs) \in Nat, Len(seqs) # 0
    PROVE  \E f : IsFlat(f, seqs, Len(seqs)) /\ FlattenSeq(seqs) = f[Len(seqs)]
<1>1. PICK f : IsFlat(f, seqs, Len(seqs))
  BY FlatExists
<1> QED
  BY <1>1 DEF FlattenSeq, IsFlat

\* One sequence more is put after the others.
LEMMA FlattenAppend ==
    ASSUME NEW seqs \in Seq(Seq(Nat)), NEW x \in Seq(Nat)
    PROVE  FlattenSeq(Append(seqs, x)) = IF seqs = << >> THEN x ELSE FlattenSeq(seqs) \o x
<1> DEFINE more == Append(seqs, x)
           n == Len(seqs)
<1>1. /\ n \in Nat /\ Len(more) = n + 1 /\ more[n + 1] = x
      /\ \A i \in 1..n : more[i] = seqs[i]
  BY AppendProperties, LenProperties
<1>2. (seqs = << >>) <=> (n = 0)
  BY EmptySeq
<1> HIDE DEF more, n
<1>3. PICK g : IsFlat(g, more, n + 1) /\ FlattenSeq(more) = g[n + 1]
  BY <1>1, FlattenIsFlat
<1>4. CASE n = 0
  <2>1. g[1] = x
    BY <1>1, <1>3, <1>4 DEF IsFlat
  <2> QED
    BY <1>2, <1>3, <1>4, <2>1 DEF more
<1>5. CASE n # 0
  <2>1. PICK f : IsFlat(f, seqs, n) /\ FlattenSeq(seqs) = f[n]
    BY <1>1, <1>5, FlattenIsFlat DEF n
  <2> DEFINE S == {m \in Nat : m \in 1..n => f[m] = g[m]}
  <2>2. 0 \in S
    OBVIOUS
  <2>3. ASSUME NEW m \in Nat, m \in S PROVE m + 1 \in S
    <3> SUFFICES ASSUME m + 1 \in 1..n PROVE f[m + 1] = g[m + 1]
      OBVIOUS
    <3> DEFINE k == m + 1
    <3>1. k \in 1..n /\ k \in 1..(n + 1) /\ k - 1 = m /\ seqs[k] = more[k] /\ (k # 1 => f[m] = g[m])
      BY <1>1, <2>3
    <3> HIDE DEF k
    <3>2. f[k] = IF k = 1 THEN seqs[k] ELSE f[k - 1] \o seqs[k]
      BY <2>1, <3>1 DEF IsFlat
    <3>3. g[k] = IF k = 1 THEN more[k] ELSE g[k - 1] \o more[k]
      BY <1>3, <3>1 DEF IsFlat
    <3>4. f[k] = g[k]
      BY <3>1, <3>2, <3>3
    <3> QED
      BY <3>4 DEF k
  <2> HIDE DEF S
  <2>4. n \in S
    BY <1>1, <2>2, <2>3, SetInduction
  <2>5. f[n] = g[n]
    BY <1>1, <1>5, <2>4 DEF S
  <2>6. n + 1 \in 1..(n + 1) /\ n + 1 # 1 /\ (n + 1) - 1 = n
    BY <1>1, <1>5
  <2>7. g[n + 1] = g[n] \o more[n + 1]
    BY <1>3, <2>6 DEF IsFlat
  <2> QED
    BY <1>1, <1>2, <1>3, <1>5, <2>1, <2>5, <2>7 DEF more
<1> QED
  BY <1>4, <1>5

\* Nothing put together is nothing.
LEMMA FlattenEmpty == FlattenSeq(<< >>) = << >>
  BY EmptySeq DEF FlattenSeq

\* A sequence of bytes is one of numbers.
LEMMA BytesAreNumbers == \A s \in Seq(Byte) : s \in Seq(Nat) /\ Len(s) \in Nat
<1>1. Byte \subseteq Nat
  BY DEF Byte
<1> QED
  BY <1>1, SeqMonotonic, LenProperties

\* The sequences that JoinDot and the encoding of a name put end to end.
Dotted(parts) == [i \in DOMAIN parts |-> IF i = 1 THEN parts[i] ELSE <<Dot>> \o parts[i]]
Counted(parts) == [i \in DOMAIN parts |-> <<Len(parts[i])>> \o parts[i]]

\* A function made from the members of a sequence, one by one, grows at its end.
LEMMA MapAppend ==
    ASSUME NEW s \in Seq(Seq(Byte)), NEW l \in Seq(Byte), NEW f, NEW g, NEW e \in Seq(Nat),
           f \in [DOMAIN s -> Seq(Nat)], g \in [DOMAIN Append(s, l) -> Seq(Nat)],
           \A i \in DOMAIN s : g[i] = f[i], g[Len(s) + 1] = e
    PROVE  f \in Seq(Seq(Nat)) /\ Len(f) = Len(s) /\ g = Append(f, e)
<1> DEFINE n == Len(s)
<1>1. n \in Nat /\ DOMAIN s = 1..n /\ Append(s, l) \in Seq(Seq(Byte)) /\ Len(Append(s, l)) = n + 1
  BY AppendProperties, LenProperties
<1>2. g \in [1..(n + 1) -> Seq(Nat)]
  BY <1>1, LenProperties
<1> HIDE DEF n
<1>3. f \in [1..n -> Seq(Nat)]
  BY <1>1
<1>4. f \in Seq(Seq(Nat)) /\ Len(f) = n
  BY <1>1, <1>3
<1>5. /\ Append(f, e) \in Seq(Seq(Nat)) /\ Len(Append(f, e)) = n + 1
      /\ \A i \in 1..n : Append(f, e)[i] = f[i]
      /\ Append(f, e)[n + 1] = e
  BY <1>4, AppendProperties
<1>6. \A i \in 1..n : g[i] = f[i]
  BY <1>1
<1>7. g[n + 1] = e
  BY DEF n
<1>8. Append(f, e) = [i \in 1..(n + 1) |-> Append(f, e)[i]]
  BY <1>5, LenProperties
<1> DEFINE h == Append(f, e)
<1> HIDE DEF h
<1>9. \A i \in 1..(n + 1) : g[i] = h[i]
  BY <1>1, <1>5, <1>6, <1>7 DEF h
<1>10. g = h
  <2>1. h \in [1..(n + 1) -> Seq(Nat)]
    BY <1>5, LenProperties DEF h
  <2>2. g = [i \in 1..(n + 1) |-> g[i]]
    BY <1>2
  <2>3. h = [i \in 1..(n + 1) |-> h[i]]
    BY <2>1
  <2>4. [i \in 1..(n + 1) |-> g[i]] = [i \in 1..(n + 1) |-> h[i]]
    BY <1>9, Zenon
  <2> QED
    BY <2>2, <2>3, <2>4, Zenon
<1> QED
  BY <1>4, <1>10 DEF h, n

\* One label more is joined after a dot.
LEMMA JoinAppend ==
    ASSUME NEW s \in Seq(Seq(Byte)), NEW l \in Seq(Byte)
    PROVE  JoinDot(Append(s, l)) = IF s = << >> THEN l ELSE JoinDot(s) \o (<<Dot>> \o l)
<1> DEFINE n == Len(s)
           more == Append(s, l)
           e == IF n = 0 THEN l ELSE <<Dot>> \o l
<1>1. /\ n \in Nat /\ DOMAIN s = 1..n /\ DOMAIN more = 1..(n + 1)
      /\ \A i \in 1..n : more[i] = s[i] /\ s[i] \in Seq(Nat)
      /\ more[n + 1] = l /\ (s = << >> <=> n = 0)
  BY AppendProperties, LenProperties, EmptySeq, BytesAreNumbers
<1>2. l \in Seq(Nat) /\ <<Dot>> \in Seq(Nat)
  BY BytesAreNumbers DEF Dot
<1>3. e \in Seq(Nat)
  BY <1>2, ConcatProperties
<1> HIDE DEF n
<1>4. Dotted(s) \in [1..n -> Seq(Nat)] /\ \A i \in 1..n : Dotted(s)[i] = IF i = 1 THEN s[i] ELSE <<Dot>> \o s[i]
  <2>1. \A i \in 1..n : <<Dot>> \o s[i] \in Seq(Nat)
    BY <1>1, <1>2, ConcatProperties
  <2> QED
    BY <1>1, <2>1 DEF Dotted
<1> HIDE DEF more
<1>5. \A i \in 1..n : Dotted(more)[i] = Dotted(s)[i]
  <2>1. \A i \in 1..n : i \in 1..(n + 1)
    BY <1>1
  <2> QED
    BY <1>1, <1>4, <2>1 DEF Dotted
<1>6. Dotted(more)[n + 1] = e
  <2>1. n + 1 \in 1..(n + 1) /\ (n + 1 = 1 <=> n = 0)
    BY <1>1
  <2> QED
    BY <1>1, <2>1 DEF Dotted
<1> HIDE DEF e
<1>7. Dotted(more) \in [1..(n + 1) -> Seq(Nat)]
  <2>0. \A i \in 1..(n + 1) : i \in 1..n \/ i = n + 1
    BY <1>1
  <2>a. \A i \in 1..n : Dotted(s)[i] \in Seq(Nat)
    BY <1>4
  <2>1. \A i \in 1..(n + 1) : Dotted(more)[i] \in Seq(Nat)
    BY <1>3, <1>5, <1>6, <2>0, <2>a, Zenon
  <2>2. Dotted(more) = [i \in 1..(n + 1) |-> Dotted(more)[i]]
    BY <1>1 DEF Dotted
  <2> QED
    BY <2>1, <2>2
<1>8. Dotted(s) \in Seq(Seq(Nat)) /\ Len(Dotted(s)) = n /\ Dotted(more) = Append(Dotted(s), e)
  <2> DEFINE f == Dotted(s)
             g == Dotted(more)
  <2>1. /\ f \in [DOMAIN s -> Seq(Nat)] /\ g \in [DOMAIN Append(s, l) -> Seq(Nat)]
        /\ (\A i \in DOMAIN s : g[i] = f[i]) /\ g[Len(s) + 1] = e
    BY <1>1, <1>4, <1>5, <1>6, <1>7 DEF n, more
  <2> HIDE DEF f, g
  <2>2. f \in Seq(Seq(Nat)) /\ Len(f) = Len(s) /\ g = Append(f, e)
    BY <1>3, <2>1, MapAppend
  <2> QED
    BY <2>2 DEF f, g, n
<1>9. FlattenSeq(Dotted(more)) = IF Dotted(s) = << >> THEN e ELSE FlattenSeq(Dotted(s)) \o e
  BY <1>3, <1>8, FlattenAppend
<1>10. (Dotted(s) = << >>) <=> (n = 0)
  BY <1>8, EmptySeq
<1> QED
  BY <1>1, <1>9, <1>10 DEF JoinDot, Dotted, more, e

\* One label more is encoded after the others.
LEMMA EncodedAppend ==
    ASSUME NEW s \in Seq(Seq(Byte)), NEW l \in Seq(Byte)
    PROVE  Encoded(Append(s, l)) = IF s = << >> THEN <<Len(l)>> \o l ELSE Encoded(s) \o (<<Len(l)>> \o l)
<1> DEFINE n == Len(s)
           more == Append(s, l)
           e == <<Len(l)>> \o l
<1>1. /\ n \in Nat /\ DOMAIN s = 1..n /\ DOMAIN more = 1..(n + 1)
      /\ \A i \in 1..n : more[i] = s[i] /\ s[i] \in Seq(Nat) /\ Len(s[i]) \in Nat
      /\ more[n + 1] = l /\ (s = << >> <=> n = 0)
  BY AppendProperties, LenProperties, EmptySeq, BytesAreNumbers
<1>2. l \in Seq(Nat) /\ Len(l) \in Nat
  BY BytesAreNumbers
<1>3. e \in Seq(Nat)
  <2>1. <<Len(l)>> \in Seq(Nat)
    BY <1>2
  <2> QED
    BY <1>2, <2>1, ConcatProperties
<1> HIDE DEF n
<1>4. Counted(s) \in [1..n -> Seq(Nat)] /\ \A i \in 1..n : Counted(s)[i] = <<Len(s[i])>> \o s[i]
  <2>1. \A i \in 1..n : <<Len(s[i])>> \in Seq(Nat)
    BY <1>1
  <2>2. \A i \in 1..n : <<Len(s[i])>> \o s[i] \in Seq(Nat)
    BY <1>1, <2>1, ConcatProperties
  <2> QED
    BY <1>1, <2>2 DEF Counted
<1> HIDE DEF more
<1>5. \A i \in 1..n : Counted(more)[i] = Counted(s)[i]
  <2>1. \A i \in 1..n : i \in 1..(n + 1)
    BY <1>1
  <2> QED
    BY <1>1, <1>4, <2>1 DEF Counted
<1>6. Counted(more)[n + 1] = e
  <2>1. n + 1 \in 1..(n + 1)
    BY <1>1
  <2> QED
    BY <1>1, <2>1 DEF Counted
<1> HIDE DEF e
<1>7. Counted(more) \in [1..(n + 1) -> Seq(Nat)]
  <2>0. \A i \in 1..(n + 1) : i \in 1..n \/ i = n + 1
    BY <1>1
  <2>a. \A i \in 1..n : Counted(s)[i] \in Seq(Nat)
    BY <1>4
  <2>1. \A i \in 1..(n + 1) : Counted(more)[i] \in Seq(Nat)
    BY <1>3, <1>5, <1>6, <2>0, <2>a, Zenon
  <2>2. Counted(more) = [i \in 1..(n + 1) |-> Counted(more)[i]]
    BY <1>1 DEF Counted
  <2> QED
    BY <2>1, <2>2
<1>8. Counted(s) \in Seq(Seq(Nat)) /\ Len(Counted(s)) = n /\ Counted(more) = Append(Counted(s), e)
  <2> DEFINE f == Counted(s)
             g == Counted(more)
  <2>1. /\ f \in [DOMAIN s -> Seq(Nat)] /\ g \in [DOMAIN Append(s, l) -> Seq(Nat)]
        /\ (\A i \in DOMAIN s : g[i] = f[i]) /\ g[Len(s) + 1] = e
    BY <1>1, <1>4, <1>5, <1>6, <1>7 DEF n, more
  <2> HIDE DEF f, g
  <2>2. f \in Seq(Seq(Nat)) /\ Len(f) = Len(s) /\ g = Append(f, e)
    BY <1>3, <2>1, MapAppend
  <2> QED
    BY <2>2 DEF f, g, n
<1>9. FlattenSeq(Counted(more)) = IF Counted(s) = << >> THEN e ELSE FlattenSeq(Counted(s)) \o e
  BY <1>3, <1>8, FlattenAppend
<1>10. (Counted(s) = << >>) <=> (n = 0)
  BY <1>8, EmptySeq
<1> QED
  BY <1>1, <1>9, <1>10 DEF Encoded, Counted, more, e

\* No labels give no bytes.
LEMMA NoLabels == JoinDot(<< >>) = << >> /\ Encoded(<< >>) = << >>
<1>1. \A f : f \in [{} -> {}] => f = << >>
  BY EmptySeq
<1>2. DOMAIN << >> = {}
  OBVIOUS
<1>3. Dotted(<< >>) = << >> /\ Counted(<< >>) = << >>
  BY <1>2 DEF Dotted, Counted
<1> QED
  BY <1>3, FlattenEmpty DEF JoinDot, Dotted, Encoded, Counted

-----------------------------------------------------------------------------
(* The handler *)

\* The parser's place in the query, which TypeOK carries, makes each bounds
\* check of the code enough for the slice that follows it.
Inv == TypeOK /\ NoPanic

Params == Seq([key : Nat, value : Seq(Nat)])

\* Any request, from a peer or from the fixture's client, and a step of the handler.
AnyRequest == [method : {"POST", "GET", "PUT"}, decodable : BOOLEAN, body : Seq(Byte)]
DohStep == (\E r \in AnyRequest : Receive(r)) \/ Handle \/ Written

\* What readDnsQuery returns holds a sequence of bytes or nothing.
LEMMA QueryTyped ==
    ASSUME NEW r \in AnyRequest, readDnsQuery(r) # << >>
    PROVE  readDnsQuery(r)[1] \in Seq(Byte)
<1>1. r.body \in Seq(Byte) /\ MaxBody \in Nat
  BY LimitAssumption DEF AnyRequest
<1>2. SubSeq(r.body, 1, IF Len(r.body) < MaxBody THEN Len(r.body) ELSE MaxBody) \in Seq(Byte)
  BY <1>1, SubSeqProperties, LenProperties
<1> QED
  BY <1>1, <1>2 DEF readDnsQuery

\* Two bytes make a 16-bit number.
LEMMA TwoBytes ==
    ASSUME NEW high \in Byte, NEW low \in Byte
    PROVE  256 * high + low \in Uint16
  BY DEF Byte, Uint16

\* A response whose parts are typed is typed.
LEMMA ReplyTyped ==
    ASSUME NEW question \in Seq(Byte), NEW type \in Uint16, NEW rdata \in Record,
           SubSeq(query, 1, 2) \in Seq(Byte)
    PROVE  Reply(200, question, type, rdata) \in Responses
  BY DEF Reply, Responses

\* A slice inside a query is a sequence of bytes.
LEMMA SubSeqTyped ==
    ASSUME NEW s \in Seq(Byte), NEW m \in 1..Len(s) + 1, NEW n \in 0..Len(s)
    PROVE  SubSeq(s, m, n) \in Seq(Byte)
  BY SubSeqProperties

\* A parameter added to typed parameters leaves them typed.
LEMMA AppendTyped ==
    ASSUME NEW params \in Params, NEW key \in Nat, NEW value \in Seq(Nat)
    PROVE  appendSvcParam(params, key, value) \in Params
<1>1. [key |-> key, value |-> value] \in [key : Nat, value : Seq(Nat)]
  OBVIOUS
<1> QED
  BY <1>1, AppendProperties DEF Params, appendSvcParam

\* So is a record in ServiceMode, with its parameters.
LEMMA ServiceModeTyped ==
    ASSUME NEW params \in Params
    PROVE  ServiceMode(params) \in Record
  BY EmptySeq DEF ServiceMode, Answer, Record, Params

\* Every record the resolver can send is typed, whatever name was asked for.
LEMMA RecordsTyped ==
    /\ None \in Record
    /\ Answer(0, << >>, << >>, Loopback) \in Record
    /\ \A name : svcParamFixture(name) \in Record
    /\ \A name : httpsRecord(echConfigs(name)) \in Record
<1>1. None \in Record
  BY EmptySeq DEF None, Record
<1>2. Loopback \in Seq(Byte) /\ Loopback \in Seq(Nat)
  BY DEF Loopback, Byte
<1>3. << >> \in Params /\ << >> \in Seq(Nat)
  BY EmptySeq DEF Params
<1>4. <<H1>> \in Seq(Nat) /\ <<H2>> \in Seq(Nat) /\ <<H3>> \in Seq(Nat) /\ <<H2, H1>> \in Seq(Nat)
      /\ << 0 >> \in Seq(Nat) /\ << 1 >> \in Seq(Nat) /\ << 2 >> \in Seq(Nat) /\ << 4 >> \in Seq(Nat)
  BY DEF H1, H2, H3
<1>5. Port \in Seq(Nat)
  <2>1. TargetPort % 65536 \in Nat
    BY LimitAssumption
  <2> QED BY <2>1 DEF Port
<1>6. \A name : echConfigs(name) \in Seq(Nat)
  BY <1>3, <1>4 DEF echConfigs
<1>7. \A name : httpsRecord(echConfigs(name)) \in Record
  <2> SUFFICES ASSUME NEW name PROVE httpsRecord(echConfigs(name)) \in Record
    OBVIOUS
  <2> DEFINE p1 == appendSvcParam(<< >>, 1, <<H2, H1>>)
             p2 == appendSvcParam(p1, 3, Port)
             p3 == appendSvcParam(p2, 4, Loopback)
             p4 == appendSvcParam(p3, 5, echConfigs(name))
  <2>1. p1 \in Params
    BY <1>3, <1>4, AppendTyped
  <2> HIDE DEF p1
  <2>2. p2 \in Params
    BY <2>1, <1>5, AppendTyped
  <2> HIDE DEF p2
  <2>3. p3 \in Params
    BY <2>2, <1>2, AppendTyped
  <2> HIDE DEF p3
  <2>4. p4 \in Params
    BY <2>3, <1>6, AppendTyped
  <2> HIDE DEF p4
  <2>5. ServiceMode(p4) \in Record
    BY <2>4, ServiceModeTyped
  <2> QED BY <2>5 DEF httpsRecord, p1, p2, p3, p4
<1>8. \A name : svcParamFixture(name) \in Record
  <2> SUFFICES ASSUME NEW name PROVE svcParamFixture(name) \in Record
    OBVIOUS
  <2> DEFINE a == appendSvcParam(<< >>, 1, <<H2>>)
             m == appendSvcParam(<< >>, 0, << 1 >>)
             h == appendSvcParam(<< >>, 1, <<H3>>)
  <2>1. a \in Params /\ m \in Params /\ h \in Params
    BY <1>3, <1>4, AppendTyped
  <2> HIDE DEF a, m, h
  <2>2. appendSvcParam(a, 2, << >>) \in Params /\ appendSvcParam(m, 1, <<H2>>) \in Params
        /\ appendSvcParam(h, 3, Port) \in Params /\ appendSvcParam(a, 3, Port) \in Params
    BY <2>1, <1>3, <1>4, <1>5, AppendTyped
  <2>3. /\ appendSvcParam(appendSvcParam(a, 2, << >>), 3, Port) \in Params
        /\ appendSvcParam(appendSvcParam(m, 1, <<H2>>), 3, Port) \in Params
        /\ appendSvcParam(appendSvcParam(a, 3, Port), 31337, << 0 >>) \in Params
    <3>1. appendSvcParam(appendSvcParam(a, 2, << >>), 3, Port) \in Params
      BY <2>2, <1>5, AppendTyped
    <3>2. appendSvcParam(appendSvcParam(m, 1, <<H2>>), 3, Port) \in Params
      BY <2>2, <1>5, AppendTyped
    <3> DEFINE b == appendSvcParam(a, 3, Port)
               v == << 0 >>
    <3>3. b \in Params /\ v \in Seq(Nat) /\ 31337 \in Nat
      BY <2>2, <1>4
    <3> HIDE DEF b, v
    <3>4. appendSvcParam(b, 31337, v) \in Params
      BY <3>3, AppendTyped
    <3> QED BY <3>1, <3>2, <3>4 DEF b, v
  <2>4. /\ ServiceMode(appendSvcParam(appendSvcParam(a, 2, << >>), 3, Port)) \in Record
        /\ ServiceMode(appendSvcParam(appendSvcParam(m, 1, <<H2>>), 3, Port)) \in Record
        /\ ServiceMode(appendSvcParam(h, 3, Port)) \in Record
        /\ ServiceMode(appendSvcParam(appendSvcParam(a, 3, Port), 31337, << 0 >>)) \in Record
    BY <2>2, <2>3, ServiceModeTyped
  <2>5. AliasMode(Bytes["green.secret.test"]) \in Record
    <3>1. Bytes["green.secret.test"] \in Seq(Byte)
      BY BytesAssumption DEF EchNames, SvcbNames
    <3> QED BY <3>1, EmptySeq DEF AliasMode, Answer, Record
  <2> QED BY <1>1, <2>4, <2>5 DEF svcParamFixture, a, m, h
<1>9. Answer(0, << >>, << >>, Loopback) \in Record
  BY <1>2, EmptySeq DEF Answer, Record
<1> QED BY <1>1, <1>7, <1>8, <1>9

\* The answer to a question is one typed record, or none.
LEMMA RdataTyped ==
    ASSUME NEW qtype, NEW name, Rdata(qtype, name) # << >>
    PROVE  Rdata(qtype, name)[1] \in Record
  BY RecordsTyped DEF Rdata

\* The two responses without a message are responses.
LEMMA NoReplyTyped == NoReply \in Responses /\ Refused \in Responses
<1>1. None \in Record /\ << >> \in Seq(Byte) /\ 0 \in Uint16
  BY RecordsTyped, EmptySeq DEF Uint16
<1> QED BY <1>1 DEF NoReply, Refused, Responses

\* The handler begins between two queries.
LEMMA InitInv == Init => Inv
  BY NoReplyTyped, EmptySeq DEF Init, Inv, TypeOK, NoPanic

\* Each step of the handler finds in the query the bytes it reads.
LEMMA StepInv == Inv /\ [DohStep]_dohVars => Inv'
<1> SUFFICES ASSUME Inv, [DohStep]_dohVars PROVE Inv'
  OBVIOUS
<1> USE DEF Inv, NoPanic
<1>0. NoReply \in Responses /\ Refused \in Responses
  BY NoReplyTyped
<1>20. ASSUME BadRequest PROVE Inv'
  BY <1>20, <1>0 DEF BadRequest, TypeOK
<1>1. CASE \E r \in AnyRequest : Receive(r)
  <2>1. PICK r \in AnyRequest : Receive(r)
    BY <1>1
  <2> QED BY <2>1, <1>0, QueryTyped, EmptySeq DEF Receive, TypeOK
<1>2. CASE ShortQuery
  BY <1>2, <1>20 DEF ShortQuery
<1>3. CASE StartQuestion
  BY <1>3 DEF StartQuestion, TypeOK, Header
<1>4. CASE NameRunsOut
  BY <1>4, <1>20 DEF NameRunsOut
<1>5. CASE BadLabel
  BY <1>5, <1>20 DEF BadLabel
<1>6. CASE Label
  <2>1. /\ position \in Header..Len(query) /\ Len(query) >= 17 /\ query \in Seq(Byte)
        /\ length \in Byte /\ position + 1 + length <= Len(query)
    BY <1>6 DEF Label, TypeOK, AtEnd, LabelFits, length
  <2>2. InRange(position + 1, position + 1 + length)
    BY <2>1 DEF InRange, Byte, Header
  <2>3. Slice(position + 1, position + 1 + length) \in Seq(Byte)
    <3>1. position + 2 \in 1..Len(query) + 1 /\ position + 1 + length \in 0..Len(query)
      BY <2>1, LenProperties DEF Byte, Header
    <3> QED BY <2>1, <3>1, SubSeqTyped DEF Slice
  <2>4. Append(labels, Slice(position + 1, position + 1 + length)) \in Seq(Seq(Byte))
    BY <2>3, AppendProperties DEF TypeOK
  <2>5. position + 1 + length \in Header..Len(query)
    BY <2>1, LenProperties DEF Byte, Header
  <2>6. /\ stage' = "labels" /\ position' = position + 1 + length
        /\ labels' = Append(labels, Slice(position + 1, position + 1 + length))
        /\ UNCHANGED <<query, response>>
    BY <1>6, <2>2 DEF Label
  <2> HIDE DEF Inv, NoPanic
  <2>7. TypeOK'
    BY <2>1, <2>4, <2>5, <2>6 DEF TypeOK, Inv, Header
  <2> QED BY <2>6, <2>7 DEF Inv, NoPanic
<1>7. CASE NameEnds
  BY <1>7, LenProperties DEF NameEnds, AtEnd, InRange, TypeOK, Header
<1>8. CASE ShortQuestion
  BY <1>8, <1>20 DEF ShortQuestion
<1>9. CASE Respond
  <2>1. /\ position \in Header..Len(query) /\ position + 4 <= Len(query) /\ query \in Seq(Byte)
    BY <1>9 DEF Respond, QuestionFits, TypeOK
  <2>2. InRange(Header, position + 4)
    BY <2>1 DEF InRange, Header
  <2> DEFINE type == Slice(position, position + 2)
             qtype == 256 * type[1] + type[2]
             answer == Rdata(qtype, questionName)
  <2>3. type[1] \in Byte /\ type[2] \in Byte
    BY <2>1, SubSeqProperties, LenProperties DEF Slice, Header
  <2> HIDE DEF type
  <2>4. qtype \in Uint16
    BY <2>3, TwoBytes
  <2>5. Slice(Header, position + 4) \in Seq(Byte) /\ SubSeq(query, 1, 2) \in Seq(Byte)
    BY <2>1, SubSeqProperties, LenProperties DEF Slice, Header
  <2> HIDE DEF qtype
  <2>6. answer # << >> => answer[1] \in Record
    BY RdataTyped
  <2> HIDE DEF answer
  <2>7. answer # << >> => Reply(200, Slice(Header, position + 4), qtype, answer[1]) \in Responses
    BY <2>4, <2>5, <2>6, ReplyTyped
  <2>8. stage' = "done" /\ response' \in Responses
    BY <1>9, <1>0, <2>2, <2>7 DEF Respond, type, qtype, answer
  <2> QED BY <1>9, <2>8 DEF Respond, TypeOK
<1>10. CASE Written
  BY <1>10, <1>0, EmptySeq DEF Written, TypeOK
<1>11. CASE UNCHANGED dohVars
  BY <1>11 DEF dohVars, TypeOK
<1> QED
  BY <1>1, <1>2, <1>3, <1>4, <1>5, <1>6, <1>7, <1>8, <1>9, <1>10, <1>11 DEF DohStep, Handle

\* The resolver's own steps are such steps.
LEMMA NextIsStep == Next => DohStep
  BY RequestsAssumption DEF Next, DohStep, AnyRequest

\* So they keep the invariant.
LEMMA NextInv == Inv /\ [Next]_dohVars => Inv'
  BY NextIsStep, StepInv

\* The two together, over all behaviours.
LEMMA Invariance == Spec => []Inv
  BY InitInv, NextInv, PTL DEF Spec

\* The handler's variables keep their types, and the parser stays inside the
\* query while it reads labels, for every set of requests.
THEOREM TypeCorrect == Spec => []TypeOK
<1>1. Inv => TypeOK BY DEF Inv
<1> QED BY <1>1, Invariance, PTL

\* dnsQuestion and dnsResponse read outside no query.
THEOREM NeverPanics == Spec => []NoPanic
<1>1. Inv => NoPanic BY DEF Inv
<1> QED BY <1>1, Invariance, PTL

\* Each turn of dnsQuestion's loop moves forward in the query.
LEMMA StepAdvances ==
    ASSUME Inv, DohStep, stage = "labels", stage' \in {"labels", "question"} PROVE position' > position
<1>0. position \in Nat /\ query \in Seq(Byte)
  BY DEF Inv, TypeOK
<1>1. CASE Label
  <2>1. Len(query) \in Nat /\ ~(position >= Len(query))
    BY <1>1, <1>0, LenProperties DEF Label, AtEnd
  <2>2. query[position + 1] \in Nat
    BY <2>1, <1>0, ElementOfSeq DEF Byte
  <2>3. length \in Nat
    BY <2>2 DEF length
  <2> QED
    BY <1>1, <1>0, <2>3 DEF Label
<1>2. CASE NameEnds
  BY <1>2, <1>0 DEF NameEnds
<1> QED
  BY <1>1, <1>2 DEF DohStep, Handle, Receive, ShortQuery, StartQuestion, NameRunsOut, BadLabel,
                    BadRequest, ShortQuestion, Respond, Written

\* So the parser ends on every query, whatever it holds.
THEOREM LoopAdvances == Spec => ParserAdvances
<1> DEFINE Advance == stage = "labels" /\ stage' \in {"labels", "question"} => position' > position
<1>1. Inv /\ [Next]_dohVars => [Advance]_dohVars
  BY NextIsStep, StepAdvances DEF dohVars
<1> QED
  BY <1>1, Invariance, PTL DEF Spec, ParserAdvances

-----------------------------------------------------------------------------
(* What a record carries *)

\* A record without parameters is well formed.
LEMMA BareWellFormed ==
    ASSUME NEW record, record.params = << >> PROVE WellFormed(record)
<1>1. DOMAIN << >> = {}
  OBVIOUS
<1> QED
  BY <1>1 DEF WellFormed

\* A sequence that goes on after l with e is what Append makes of them.
LEMMA AppendIs ==
    ASSUME NEW S, NEW l \in Seq(S), NEW e \in S, NEW r \in Seq(S), Len(r) = Len(l) + 1,
           r[Len(l) + 1] = e, \A i \in 1..Len(l) : r[i] = l[i]
    PROVE  Append(l, e) = r
<1>1. /\ Append(l, e) \in Seq(S) /\ Len(Append(l, e)) = Len(l) + 1
      /\ (\A i \in 1..Len(l) : Append(l, e)[i] = l[i]) /\ Append(l, e)[Len(l) + 1] = e
  BY AppendProperties
<1>2. \A i \in 1..(Len(l) + 1) : i \in 1..Len(l) \/ i = Len(l) + 1
  BY LenProperties
<1>3. \A i \in 1..(Len(l) + 1) : Append(l, e)[i] = r[i]
  BY <1>1, <1>2
<1> QED
  BY <1>1, <1>3, SeqEqual

\* So is one in ServiceMode with two keys that go up.
LEMMA TwoWellFormed ==
    ASSUME NEW a, NEW va, NEW b, NEW vb,
           a \in Nat, b \in Nat, a < b,
           a # 0, a # 2, b # 2
    PROVE  WellFormed(ServiceMode(appendSvcParam(appendSvcParam(<< >>, a, va), b, vb)))
<1> DEFINE p == [key |-> a, value |-> va]
           q == [key |-> b, value |-> vb]
           S == {p, q}
<1>1. p.key = a /\ p.value = va /\ q.key = b /\ q.value = vb /\ ToSet(<< 1 >>) = {1}
  BY DEF ToSet
<1>2. p \in S /\ q \in S
  OBVIOUS
<1> HIDE DEF p, q, S
<1>3. WellFormed(ServiceMode(<<p, q>>))
  BY <1>1 DEF WellFormed, ServiceMode, Answer
<1>4. appendSvcParam(<< >>, a, va) = <<p>>
  BY DEF appendSvcParam, p
<1>5. appendSvcParam(<<p>>, b, vb) = <<p, q>>
  <2> DEFINE l == <<p>>
             m == <<p, q>>
  <2>1. l \in Seq(S) /\ m \in Seq(S) /\ Len(m) = Len(l) + 1
    BY <1>2
  <2>2. m[Len(l) + 1] = q /\ \A i \in 1..Len(l) : m[i] = l[i]
    OBVIOUS
  <2> HIDE DEF l, m
  <2>3. Append(l, q) = m
    BY <1>2, <2>1, <2>2, AppendIs
  <2>4. appendSvcParam(l, b, vb) = Append(l, q)
    BY Zenon DEF appendSvcParam, q
  <2> QED
    BY <2>3, <2>4 DEF l, m
<1> QED
  BY <1>3, <1>4, <1>5

\* Three keys that go up may begin with "mandatory", for a key that is there, or have
\* "no-default-alpn" after "alpn".
LEMMA ThreeWellFormed ==
    ASSUME NEW a, NEW va, NEW b, NEW vb, NEW c, NEW vc,
           a \in Nat, b \in Nat, c \in Nat, a < b, b < c,
           a = 0 => b = 1 /\ va = << 1 >>, a # 2, b = 2 => a = 1, c # 2
    PROVE  WellFormed(ServiceMode(appendSvcParam(appendSvcParam(appendSvcParam(<< >>, a, va), b, vb), c, vc)))
<1> DEFINE p == [key |-> a, value |-> va]
           q == [key |-> b, value |-> vb]
           r == [key |-> c, value |-> vc]
           S == {p, q, r}
<1>1. p.key = a /\ p.value = va /\ q.key = b /\ q.value = vb /\ r.key = c /\ r.value = vc /\ ToSet(<< 1 >>) = {1}
  BY DEF ToSet
<1>2. p \in S /\ q \in S /\ r \in S
  OBVIOUS
<1> HIDE DEF p, q, r, S
<1>3. WellFormed(ServiceMode(<<p, q, r>>))
  BY <1>1 DEF WellFormed, ServiceMode, Answer
<1>4. appendSvcParam(<< >>, a, va) = <<p>>
  BY DEF appendSvcParam, p
<1>5. appendSvcParam(<<p>>, b, vb) = <<p, q>>
  <2> DEFINE l == <<p>>
             m == <<p, q>>
  <2>1. l \in Seq(S) /\ m \in Seq(S) /\ Len(m) = Len(l) + 1
    BY <1>2
  <2>2. m[Len(l) + 1] = q /\ \A i \in 1..Len(l) : m[i] = l[i]
    OBVIOUS
  <2> HIDE DEF l, m
  <2>3. Append(l, q) = m
    BY <1>2, <2>1, <2>2, AppendIs
  <2>4. appendSvcParam(l, b, vb) = Append(l, q)
    BY Zenon DEF appendSvcParam, q
  <2> QED
    BY <2>3, <2>4 DEF l, m
<1>6. appendSvcParam(<<p, q>>, c, vc) = <<p, q, r>>
  <2> DEFINE l == <<p, q>>
             m == <<p, q, r>>
  <2>1. l \in Seq(S) /\ m \in Seq(S) /\ Len(m) = Len(l) + 1
    BY <1>2
  <2>2. m[Len(l) + 1] = r /\ \A i \in 1..Len(l) : m[i] = l[i]
    OBVIOUS
  <2> HIDE DEF l, m
  <2>3. Append(l, r) = m
    BY <1>2, <2>1, <2>2, AppendIs
  <2>4. appendSvcParam(l, c, vc) = Append(l, r)
    BY Zenon DEF appendSvcParam, r
  <2> QED
    BY <2>3, <2>4 DEF l, m
<1> QED
  BY <1>3, <1>4, <1>5, <1>6

\* The same with four keys.
LEMMA FourWellFormed ==
    ASSUME NEW a, NEW va, NEW b, NEW vb, NEW c, NEW vc, NEW d, NEW vd,
           a \in Nat, b \in Nat, c \in Nat, d \in Nat, a < b, b < c, c < d,
           a = 0 => b = 1 /\ va = << 1 >>, a # 2, b = 2 => a = 1, c # 2, d # 2
    PROVE  WellFormed(ServiceMode(appendSvcParam(appendSvcParam(appendSvcParam(appendSvcParam(<< >>, a, va), b, vb), c, vc), d, vd)))
<1> DEFINE p == [key |-> a, value |-> va]
           q == [key |-> b, value |-> vb]
           r == [key |-> c, value |-> vc]
           s == [key |-> d, value |-> vd]
           S == {p, q, r, s}
<1>1. p.key = a /\ p.value = va /\ q.key = b /\ q.value = vb /\ r.key = c /\ r.value = vc /\ s.key = d /\ s.value = vd /\ ToSet(<< 1 >>) = {1}
  BY DEF ToSet
<1>2. p \in S /\ q \in S /\ r \in S /\ s \in S
  OBVIOUS
<1> HIDE DEF p, q, r, s, S
<1>3. WellFormed(ServiceMode(<<p, q, r, s>>))
  BY <1>1 DEF WellFormed, ServiceMode, Answer
<1>4. appendSvcParam(<< >>, a, va) = <<p>>
  BY DEF appendSvcParam, p
<1>5. appendSvcParam(<<p>>, b, vb) = <<p, q>>
  <2> DEFINE l == <<p>>
             m == <<p, q>>
  <2>1. l \in Seq(S) /\ m \in Seq(S) /\ Len(m) = Len(l) + 1
    BY <1>2
  <2>2. m[Len(l) + 1] = q /\ \A i \in 1..Len(l) : m[i] = l[i]
    OBVIOUS
  <2> HIDE DEF l, m
  <2>3. Append(l, q) = m
    BY <1>2, <2>1, <2>2, AppendIs
  <2>4. appendSvcParam(l, b, vb) = Append(l, q)
    BY Zenon DEF appendSvcParam, q
  <2> QED
    BY <2>3, <2>4 DEF l, m
<1>6. appendSvcParam(<<p, q>>, c, vc) = <<p, q, r>>
  <2> DEFINE l == <<p, q>>
             m == <<p, q, r>>
  <2>1. l \in Seq(S) /\ m \in Seq(S) /\ Len(m) = Len(l) + 1
    BY <1>2
  <2>2. m[Len(l) + 1] = r /\ \A i \in 1..Len(l) : m[i] = l[i]
    OBVIOUS
  <2> HIDE DEF l, m
  <2>3. Append(l, r) = m
    BY <1>2, <2>1, <2>2, AppendIs
  <2>4. appendSvcParam(l, c, vc) = Append(l, r)
    BY Zenon DEF appendSvcParam, r
  <2> QED
    BY <2>3, <2>4 DEF l, m
<1>7. appendSvcParam(<<p, q, r>>, d, vd) = <<p, q, r, s>>
  <2> DEFINE l == <<p, q, r>>
             m == <<p, q, r, s>>
  <2>1. l \in Seq(S) /\ m \in Seq(S) /\ Len(m) = Len(l) + 1
    BY <1>2
  <2>2. m[Len(l) + 1] = s /\ \A i \in 1..Len(l) : m[i] = l[i]
    OBVIOUS
  <2> HIDE DEF l, m
  <2>3. Append(l, s) = m
    BY <1>2, <2>1, <2>2, AppendIs
  <2>4. appendSvcParam(l, d, vd) = Append(l, s)
    BY Zenon DEF appendSvcParam, s
  <2> QED
    BY <2>3, <2>4 DEF l, m
<1> QED
  BY <1>3, <1>4, <1>5, <1>6, <1>7

\* Every record the resolver can send is well formed, whatever name was asked for.
LEMMA RecordsWellFormed ==
    /\ WellFormed(None)
    /\ WellFormed(Answer(0, << >>, << >>, Loopback))
    /\ \A name : WellFormed(svcParamFixture(name))
    /\ \A name : WellFormed(httpsRecord(echConfigs(name)))
<1>1. WellFormed(None) /\ WellFormed(Answer(0, << >>, << >>, Loopback)) /\ \A t : WellFormed(AliasMode(t))
  BY BareWellFormed DEF None, Answer, AliasMode
<1>2. ASSUME NEW list PROVE WellFormed(httpsRecord(list))
  <2> DEFINE v == <<H2, H1>>
  <2> HIDE DEF v
  <2>1. WellFormed(ServiceMode(appendSvcParam(appendSvcParam(appendSvcParam(
            appendSvcParam(<< >>, 1, v), 3, Port), 4, Loopback), 5, list)))
    BY FourWellFormed
  <2> QED
    BY <2>1 DEF httpsRecord, v
<1>3. /\ \A v, w, y : WellFormed(ServiceMode(appendSvcParam(appendSvcParam(appendSvcParam(<< >>, 1, v), 2, w), 3, y)))
      /\ \A w, y : WellFormed(ServiceMode(appendSvcParam(appendSvcParam(appendSvcParam(<< >>, 0, << 1 >>), 1, w), 3, y)))
      /\ \A v, w, y : WellFormed(ServiceMode(appendSvcParam(appendSvcParam(appendSvcParam(<< >>, 1, v), 3, w), 31337, y)))
      /\ \A v, w : WellFormed(ServiceMode(appendSvcParam(appendSvcParam(<< >>, 1, v), 3, w)))
  <2>1. ASSUME NEW v, NEW w, NEW y
        PROVE  /\ WellFormed(ServiceMode(appendSvcParam(appendSvcParam(appendSvcParam(<< >>, 1, v), 2, w), 3, y)))
               /\ WellFormed(ServiceMode(appendSvcParam(appendSvcParam(appendSvcParam(<< >>, 1, v), 3, w), 31337, y)))
               /\ WellFormed(ServiceMode(appendSvcParam(appendSvcParam(<< >>, 1, v), 3, w)))
    BY TwoWellFormed, ThreeWellFormed
  <2>2. ASSUME NEW w, NEW y
        PROVE  WellFormed(ServiceMode(appendSvcParam(appendSvcParam(appendSvcParam(<< >>, 0, << 1 >>), 1, w), 3, y)))
    <3> DEFINE v == << 1 >>
    <3>1. v = << 1 >>
      OBVIOUS
    <3> HIDE DEF v
    <3>2. WellFormed(ServiceMode(appendSvcParam(appendSvcParam(appendSvcParam(<< >>, 0, v), 1, w), 3, y)))
      BY <3>1, ThreeWellFormed
    <3> QED
      BY <3>2 DEF v
  <2> QED
    BY <2>1, <2>2
<1>4. \A name : WellFormed(svcParamFixture(name))
  BY <1>1, <1>3 DEF svcParamFixture
<1> QED
  BY <1>1, <1>2, <1>4

\* So the answer to a question, if there is one, is well formed.
LEMMA RdataWellFormed ==
    ASSUME NEW qtype, NEW name, Rdata(qtype, name) # << >>
    PROVE  WellFormed(Rdata(qtype, name)[1])
  BY RecordsWellFormed DEF Rdata

-----------------------------------------------------------------------------
(* The question that comes back *)

\* A slice, the byte after it and the slice after that are one slice.
LEMMA Adjacent ==
    ASSUME NEW S, NEW s \in Seq(S), NEW m \in 1..Len(s), NEW k \in (m - 1)..(Len(s) - 1), NEW n \in (k + 1)..Len(s)
    PROVE  SubSeq(s, m, k) \o (<<s[k + 1]>> \o SubSeq(s, k + 2, n)) = SubSeq(s, m, n)
<1>1. Len(s) \in Nat
  BY LenProperties
<1>2. SubSeq(s, k + 1, n) = <<s[k + 1]>> \o SubSeq(s, (k + 1) + 1, n)
  <2>1. k + 1 \in 1..Len(s) /\ n \in (k + 1)..Len(s)
    BY <1>1
  <2> QED
    BY <2>1, SubSeqRecursiveFirst
<1>3. SubSeq(s, m, k) \o SubSeq(s, k + 1, n) = SubSeq(s, m, n)
  <2>1. m \in 1..(Len(s) + 1) /\ k \in (m - 1)..Len(s) /\ n \in k..Len(s)
    BY <1>1
  <2> QED
    BY <2>1, ConcatAdjacentSubSeq
<1>4. (k + 1) + 1 = k + 2
  BY <1>1
<1> QED
  BY <1>2, <1>3, <1>4

\* A slice is as long as its bounds say and holds what lies between them.
LEMMA SliceIs ==
    ASSUME NEW S, NEW s \in Seq(S), NEW m \in 1..(Len(s) + 1), NEW n \in (m - 1)..Len(s)
    PROVE  /\ SubSeq(s, m, n) \in Seq(S) /\ Len(SubSeq(s, m, n)) = (n - m) + 1
           /\ \A i \in 1..((n - m) + 1) : SubSeq(s, m, n)[i] = s[(m + i) - 1]
<1>1. Len(s) \in Nat /\ m \in Int /\ n \in Int /\ \A i \in m..n : s[i] \in S
  BY LenProperties, ElementOfSeq
<1>2. /\ SubSeq(s, m, n) \in Seq(S) /\ Len(SubSeq(s, m, n)) = IF m <= n THEN n - m + 1 ELSE 0
      /\ \A i \in 1..n - m + 1 : SubSeq(s, m, n)[i] = s[m + i - 1]
  BY <1>1, SubSeqProperties
<1> QED
  BY <1>1, <1>2

\* What has been read of the name, encoded, is the query up to the parser's place.
Echo ==
    /\ stage = "read" => labels = << >>
    /\ stage = "labels" => Encoded(labels) = SubSeq(query, 13, position)
    /\ stage = "question" => Encoded(labels) \o << 0 >> = SubSeq(query, 13, position)
    /\ EchoesQuestion
    /\ SvcParamsWellFormed

\* No response but a successful one can break Echo when the handler is done or idle.
LEMMA EchoTrivial ==
    ASSUME stage \in {"done", "idle"}, response \in {NoReply, Refused} PROVE Echo
<1>1. response.rdata = None /\ response.status # 200
  BY DEF NoReply, Refused
<1>2. SvcParamsWellFormed
  BY <1>1, RecordsWellFormed DEF SvcParamsWellFormed
<1> QED
  BY <1>1, <1>2 DEF Echo, EchoesQuestion

\* The same of the state after a step.
LEMMA EchoTrivialNext ==
    ASSUME stage' \in {"done", "idle"}, response' \in {NoReply, Refused} PROVE Echo'
<1>1. response'.rdata = None /\ response'.status # 200
  BY DEF NoReply, Refused
<1>2. SvcParamsWellFormed'
  BY <1>1, RecordsWellFormed DEF SvcParamsWellFormed
<1> QED
  BY <1>1, <1>2 DEF Echo, EchoesQuestion

\* A step inside the parse leaves the response, which is not written yet, alone.
LEMMA EchoParsing ==
    ASSUME Echo, stage' \in {"labels", "question"}, response' = response,
           stage' = "labels" => (Encoded(labels) = SubSeq(query, 13, position))',
           stage' = "question" => (Encoded(labels) \o << 0 >> = SubSeq(query, 13, position))'
    PROVE  Echo'
  BY DEF Echo, EchoesQuestion, SvcParamsWellFormed

\* Every step of the handler keeps Echo.
LEMMA EchoStep == Inv /\ Echo /\ [DohStep]_dohVars => Echo'
<1> SUFFICES ASSUME Inv, Echo, [DohStep]_dohVars PROVE Echo'
  OBVIOUS
<1>0. TypeOK /\ stage # "panic"
  BY DEF Inv, NoPanic
<1>20. ASSUME BadRequest PROVE Echo'
  BY <1>20, EchoTrivialNext DEF BadRequest
<1>1. CASE \E r \in AnyRequest : Receive(r)
  <2>1. PICK r \in AnyRequest : Receive(r)
    BY <1>1
  <2>2. CASE stage' = "done"
    BY <2>1, <2>2, EchoTrivialNext DEF Receive
  <2>3. CASE stage' = "read"
    <3>1. response' = NoReply /\ labels' = << >>
      BY <2>1, <2>3 DEF Receive
    <3>2. SvcParamsWellFormed'
      BY <3>1, RecordsWellFormed DEF SvcParamsWellFormed, NoReply
    <3> QED
      BY <2>3, <3>1, <3>2 DEF Echo, EchoesQuestion
  <2> QED
    BY <2>1, <2>2, <2>3 DEF Receive
<1>2. CASE ShortQuery
  BY <1>2, <1>20 DEF ShortQuery
<1>3. CASE StartQuestion
  <2>1. /\ stage' = "labels" /\ labels' = << >> /\ query' = query /\ position' = 12 /\ response' = response
    BY <1>3 DEF StartQuestion, Echo, Header
  <2>2. SubSeq(query, 13, 12) = << >>
    BY <1>0, SubSeqEmpty
  <2>3. (Encoded(labels) = SubSeq(query, 13, position))'
    BY <2>1, <2>2, NoLabels
  <2> QED
    BY <2>1, <2>3, EchoParsing
<1>4. CASE NameRunsOut
  BY <1>4, <1>20 DEF NameRunsOut
<1>5. CASE BadLabel
  BY <1>5, <1>20 DEF BadLabel
<1>6. CASE Label
  <2> DEFINE l == SubSeq(query, position + 2, position + 1 + length)
             q == query
             k == position
             n == length
  <2>1. /\ k \in 12..Len(q) /\ q \in Seq(Byte) /\ Len(q) \in Nat /\ k < Len(q)
        /\ n = q[k + 1] /\ k + 1 + n <= Len(q) /\ labels \in Seq(Seq(Byte))
    BY <1>0, <1>6, LenProperties DEF Label, TypeOK, AtEnd, LabelFits, length, Header
  <2>2. n \in Nat
    BY <2>1, ElementOfSeq DEF Byte
  <2>3. /\ stage' = "labels" /\ position' = k + 1 + n /\ labels' = Append(labels, l)
        /\ query' = q /\ response' = response /\ Encoded(labels) = SubSeq(q, 13, k)
    <3>1. InRange(position + 1, position + 1 + length) /\ (position + 1) + 1 = position + 2
      BY <2>1, <2>2 DEF InRange
    <3>2. Slice(position + 1, position + 1 + length) = l
      BY <3>1 DEF Slice
    <3>3. Encoded(labels) = SubSeq(query, 13, position)
      BY <1>6 DEF Label, Echo
    <3> HIDE DEF l
    <3> QED
      BY <1>6, <3>1, <3>2, <3>3 DEF Label
  <2>4. l = SubSeq(q, k + 2, k + 1 + n)
    OBVIOUS
  <2> HIDE DEF l, q, k, n
  <2>5. l \in Seq(Byte) /\ Len(l) = n
    <3>1. k + 2 \in 1..(Len(q) + 1) /\ k + 1 + n \in ((k + 2) - 1)..Len(q) /\ ((k + 1 + n) - (k + 2)) + 1 = n
      <4>1. k \in Nat /\ Len(q) \in Nat /\ n \in Nat /\ k + 1 + n <= Len(q)
        BY <2>1, <2>2
      <4> QED
        BY <4>1
    <3> QED
      BY <2>1, <2>4, <3>1, SliceIs
  <2>6. SubSeq(q, 13, k) \o (<<q[k + 1]>> \o SubSeq(q, k + 2, k + 1 + n)) = SubSeq(q, 13, k + 1 + n)
    <3>1. 13 \in 1..Len(q) /\ k \in (13 - 1)..(Len(q) - 1) /\ k + 1 + n \in (k + 1)..Len(q)
      BY <2>1, <2>2
    <3> QED
      BY <2>1, <3>1, Adjacent
  <2>7. Encoded(Append(labels, l)) = IF labels = << >> THEN <<Len(l)>> \o l ELSE Encoded(labels) \o (<<Len(l)>> \o l)
    BY <2>1, <2>5, EncodedAppend
  <2>8. Encoded(labels) \o (<<n>> \o l) = SubSeq(q, 13, k + 1 + n)
    BY <2>1, <2>3, <2>4, <2>6
  <2>9. labels = << >> => Encoded(labels) \o (<<n>> \o l) = <<n>> \o l
    <3>1. <<n>> \in Seq(Nat) /\ l \in Seq(Nat)
      BY <2>2, <2>5, BytesAreNumbers
    <3>2. <<n>> \o l \in Seq(Nat)
      BY <3>1, ConcatProperties
    <3> QED
      BY <3>2, ConcatEmptySeq, NoLabels
  <2>10. Encoded(Append(labels, l)) = SubSeq(q, 13, k + 1 + n)
    BY <2>5, <2>7, <2>8, <2>9
  <2>11. (Encoded(labels) = SubSeq(query, 13, position))'
    BY <2>3, <2>10
  <2> QED
    BY <2>3, <2>11, EchoParsing
<1>7. CASE NameEnds
  <2>1. /\ position \in 12..Len(query) /\ query \in Seq(Byte) /\ Len(query) \in Nat
        /\ position < Len(query) /\ query[position + 1] = 0
    BY <1>0, <1>7, LenProperties DEF NameEnds, TypeOK, AtEnd, length, Header
  <2>2. /\ stage' = "question" /\ position' = position + 1 /\ labels' = labels
        /\ query' = query /\ response' = response /\ Encoded(labels) = SubSeq(query, 13, position)
    BY <1>7, <2>1 DEF NameEnds, InRange, Echo
  <2>3. SubSeq(query, 13, position + 1) = SubSeq(query, 13, (position + 1) - 1) \o <<query[position + 1]>>
    <3>1. 13 \in 1..Len(query) /\ position + 1 \in 13..Len(query)
      BY <2>1
    <3> QED
      BY <2>1, <3>1, SubSeqRecursiveSecond
  <2>4. (position + 1) - 1 = position
    BY <2>1
  <2>5. (Encoded(labels) \o << 0 >> = SubSeq(query, 13, position))'
    BY <2>1, <2>2, <2>3, <2>4
  <2> QED
    BY <2>2, <2>5, EchoParsing
<1>8. CASE ShortQuestion
  BY <1>8, <1>20 DEF ShortQuestion
<1>9. CASE Respond
  <2> DEFINE type == Slice(position, position + 2)
             qtype == 256 * type[1] + type[2]
             answer == Rdata(qtype, questionName)
             question == SubSeq(query, 13, position + 4)
  <2>1. /\ position \in 12..Len(query) /\ query \in Seq(Byte) /\ Len(query) \in Nat
        /\ position + 4 <= Len(query)
    BY <1>0, <1>9, LenProperties DEF Respond, TypeOK, QuestionFits, Header
  <2>2. /\ stage' = "done" /\ labels' = labels /\ query' = query
        /\ response' = IF answer = << >> THEN Refused ELSE Reply(200, question, qtype, answer[1])
    BY <1>9, <2>1 DEF Respond, InRange, Slice, Header
  <2>3. CASE answer = << >>
    BY <2>2, <2>3, EchoTrivialNext
  <2>4. CASE answer # << >>
    <3>1. WellFormed(answer[1])
      BY <2>4, RdataWellFormed
    <3>2. /\ type[1] = query[position + 1] /\ type[2] = query[position + 2]
      <4>1. position + 1 \in 1..(Len(query) + 1) /\ position + 2 \in ((position + 1) - 1)..Len(query)
            /\ ((position + 2) - (position + 1)) + 1 = 2
            /\ ((position + 1) + 1) - 1 = position + 1 /\ ((position + 1) + 2) - 1 = position + 2
        BY <2>1
      <4>2. \A i \in 1..2 : SubSeq(query, position + 1, position + 2)[i] = query[((position + 1) + i) - 1]
        BY <2>1, <4>1, SliceIs
      <4> QED
        BY <4>1, <4>2 DEF Slice
    <3> DEFINE encoded == Encoded(labels) \o << 0 >>
    <3>3. encoded = SubSeq(query, 13, position) /\ position >= 13
      <4>1. encoded = SubSeq(query, 13, position)
        BY <1>9 DEF Respond, Echo
      <4>2. position # 12
        <5> SUFFICES ASSUME position = 12 PROVE FALSE
          OBVIOUS
        <5>1. encoded = << >>
          BY <4>1, SubSeqEmpty
        <5> QED
          BY <5>1
      <4> QED
        BY <2>1, <4>1, <4>2
    <3> HIDE DEF encoded
    <3>4. Len(encoded) = position - 12 /\ \A i \in 1..(position - 12) : encoded[i] = query[12 + i]
      <4>1. 13 \in 1..(Len(query) + 1) /\ position \in (13 - 1)..Len(query) /\ (position - 13) + 1 = position - 12
        BY <2>1
      <4>2. Len(encoded) = (position - 13) + 1 /\ \A i \in 1..((position - 13) + 1) : encoded[i] = query[(13 + i) - 1]
        BY <2>1, <3>3, <4>1, SliceIs
      <4> QED
        BY <2>1, <4>1, <4>2
    <3>5. Len(question) = position - 8 /\ question \in Seq(Byte)
          /\ \A i \in 1..(position - 8) : question[i] = query[12 + i]
      <4>1. 13 \in 1..(Len(query) + 1) /\ position + 4 \in (13 - 1)..Len(query) /\ ((position + 4) - 13) + 1 = position - 8
        BY <2>1
      <4>2. Len(question) = ((position + 4) - 13) + 1 /\ question \in Seq(Byte)
            /\ \A i \in 1..(((position + 4) - 13) + 1) : question[i] = query[(13 + i) - 1]
        BY <2>1, <4>1, SliceIs
      <4> QED
        BY <2>1, <4>1, <4>2
    <3>6. SubSeq(question, 1, Len(encoded)) = encoded
      <4> DEFINE a == SubSeq(question, 1, position - 12)
      <4>1. a \in Seq(Byte) /\ Len(a) = position - 12 /\ \A i \in 1..(position - 12) : a[i] = question[i]
        <5>1. 1 \in 1..(Len(question) + 1) /\ position - 12 \in (1 - 1)..Len(question)
              /\ ((position - 12) - 1) + 1 = position - 12
          BY <2>1, <3>5
        <5>2. a \in Seq(Byte) /\ Len(a) = ((position - 12) - 1) + 1
              /\ \A i \in 1..(((position - 12) - 1) + 1) : a[i] = question[(1 + i) - 1]
          BY <3>5, <5>1, SliceIs
        <5> QED
          BY <2>1, <5>1, <5>2
      <4>2. encoded \in Seq(Byte)
        <5>1. 13 \in 1..(Len(query) + 1) /\ position \in (13 - 1)..Len(query)
          BY <2>1
        <5> QED
          BY <2>1, <3>3, <5>1, SliceIs
      <4> HIDE DEF a
      <4>3. \A i \in 1..(position - 12) : a[i] = encoded[i]
        <5>1. \A i \in 1..(position - 12) : i \in 1..(position - 8)
          BY <2>1
        <5> QED
          BY <3>4, <3>5, <4>1, <5>1
      <4>4. a = encoded
        BY <3>4, <4>1, <4>2, <4>3, SeqEqual
      <4> QED
        BY <3>4, <4>4 DEF a
    <3>7. /\ Len(question) = Len(encoded) + 4
          /\ question[Len(encoded) + 1] = query[position + 1] /\ question[Len(encoded) + 2] = query[position + 2]
      <4>1. /\ (position - 12) + 4 = position - 8
            /\ (position - 12) + 1 \in 1..(position - 8) /\ (position - 12) + 2 \in 1..(position - 8)
            /\ 12 + ((position - 12) + 1) = position + 1 /\ 12 + ((position - 12) + 2) = position + 2
        BY <2>1, <3>3
      <4>2. Len(encoded) = position - 12 /\ Len(question) = position - 8
        BY <3>4, <3>5
      <4>3. \A i \in 1..(position - 8) : question[i] = query[12 + i]
        BY <3>5
      <4>4. question[(position - 12) + 1] = query[12 + ((position - 12) + 1)]
            /\ question[(position - 12) + 2] = query[12 + ((position - 12) + 2)]
        BY <4>1, <4>3, Zenon
      <4> QED
        BY <4>1, <4>2, <4>4
    <3> HIDE DEF question, answer, type
    <3>8. /\ response'.status = 200 /\ response'.id = SubSeq(query, 1, 2) /\ response'.question = question
          /\ response'.type = qtype /\ response'.rdata = answer[1]
      BY <2>2, <2>4 DEF Reply
    <3>9. SvcParamsWellFormed'
      BY <3>1, <3>8 DEF SvcParamsWellFormed
    <3>10. EchoesQuestion'
      <4>1. qtype = 256 * question[Len(encoded) + 1] + question[Len(encoded) + 2]
        BY <3>2, <3>7
      <4> HIDE DEF qtype
      <4>2. PICK e : e = encoded
        OBVIOUS
      <4>3. Encoded(labels') \o << 0 >> = e
        BY <2>2, <4>2 DEF encoded
      <4>4. /\ response'.id = SubSeq(query', 1, 2) /\ Len(response'.question) = Len(e) + 4
            /\ SubSeq(response'.question, 1, Len(e)) = e
            /\ response'.type = 256 * (response'.question)[Len(e) + 1] + (response'.question)[Len(e) + 2]
        <5>1. response'.id = SubSeq(query', 1, 2) /\ response'.question = question
          BY <2>2, <3>8
        <5>2. Len(question) = Len(e) + 4
          BY <3>7, <4>2
        <5>3. SubSeq(question, 1, Len(e)) = e
          BY <3>6, <4>2
        <5>4. response'.type = 256 * question[Len(e) + 1] + question[Len(e) + 2]
          BY <3>8, <4>1, <4>2
        <5> QED
          BY <5>1, <5>2, <5>3, <5>4, Zenon
      <4> QED
        BY <4>3, <4>4, Zenon DEF EchoesQuestion
    <3> QED
      BY <2>2, <3>9, <3>10 DEF Echo
  <2> QED
    BY <2>3, <2>4
<1>10. CASE Written
  BY <1>10, EchoTrivialNext DEF Written
<1>11. CASE UNCHANGED dohVars
  <2>1. UNCHANGED <<stage, query, position, labels, response>>
    BY <1>11 DEF dohVars
  <2>2. EchoesQuestion' /\ SvcParamsWellFormed'
    <3>1. EchoesQuestion /\ SvcParamsWellFormed
      BY DEF Echo
    <3> QED
      BY <2>1, <3>1, Zenon DEF EchoesQuestion, SvcParamsWellFormed
  <2> QED
    BY <2>1, <2>2, Zenon DEF Echo
<1> QED
  BY <1>1, <1>2, <1>3, <1>4, <1>5, <1>6, <1>7, <1>8, <1>9, <1>10, <1>11 DEF DohStep, Handle

-----------------------------------------------------------------------------
(* The client's queries *)

\* Where the label after i ends.
NextDot(n, i) == Min({j \in i + 1..Len(n) + 1 : j > Len(n) \/ n[j] = Dot})

\* May a label start after i?
Starts(n, i) == i \in 0..Len(n) /\ (i = 0 \/ n[i] = Dot)

\* The label after i holds 1 to 63 bytes, none of them a dot, and ends at a dot or with the name.
LEMMA NextDotIs ==
    ASSUME NEW n \in Seq(Byte), Labelled(n), NEW i, Starts(n, i)
    PROVE  /\ NextDot(n, i) \in (i + 2)..(i + 64) /\ NextDot(n, i) \in 1..(Len(n) + 1)
           /\ NextDot(n, i) = Len(n) + 1 \/ Starts(n, NextDot(n, i))
           /\ \A k \in (i + 1)..(NextDot(n, i) - 1) : k \in 1..Len(n) /\ n[k] # Dot
<1> DEFINE T == {j \in i + 1..Len(n) + 1 : j > Len(n) \/ n[j] = Dot}
<1>0. Len(n) \in Nat /\ i \in 0..Len(n)
  BY LenProperties DEF Starts
<1>1. i < Len(n) /\ n[i + 1] # Dot /\ \E j \in i + 2..i + 64 : j = Len(n) + 1 \/ (j <= Len(n) /\ n[j] = Dot)
  BY DEF Labelled, Starts
<1>2. PICK j \in (i + 2)..(i + 64) : j = Len(n) + 1 \/ (j <= Len(n) /\ n[j] = Dot)
  BY <1>1
<1>3. j \in T /\ T \subseteq Nat
  BY <1>0, <1>2
<1> DEFINE m == NextDot(n, i)
<1>4. m \in T /\ \A x \in T : m <= x
  <2> HIDE DEF T
  <2>1. T \in SUBSET Nat /\ T # {}
    BY <1>3
  <2>2. Min(T) \in T /\ \A x \in T : Min(T) <= x
    BY <2>1, MinIsLeast
  <2> QED
    BY <2>2 DEF NextDot, T
<1> HIDE DEF m
<1>5. m \in (i + 1)..(Len(n) + 1) /\ (m > Len(n) \/ n[m] = Dot) /\ m <= j
  BY <1>3, <1>4
<1>6. m # i + 1
  BY <1>0, <1>1, <1>5
<1>7. m \in (i + 2)..(i + 64) /\ m \in 1..(Len(n) + 1)
  BY <1>0, <1>2, <1>5, <1>6
<1>8. m = Len(n) + 1 \/ Starts(n, m)
  BY <1>0, <1>5 DEF Starts
<1>9. ASSUME NEW k \in (i + 1)..(m - 1) PROVE k \in 1..Len(n) /\ n[k] # Dot
  <2>1. k \in 1..Len(n) /\ k \in (i + 1)..(Len(n) + 1) /\ ~(m <= k)
    BY <1>0, <1>5
  <2>2. k \notin T
    BY <1>4, <2>1
  <2> QED
    BY <2>1, <2>2
<1> QED
  BY <1>7, <1>8, <1>9 DEF m

\* The body of a name in a query, and the whole of it.
Body(n) == [i \in DOMAIN n |-> IF n[i] = Dot THEN NextDot(n, i) - i - 1 ELSE n[i]]

\* The bytes of a query: the header, the length of the first label, the name with a length
\* for each dot, 0, the type and the class.
LEMMA QueryBytes ==
    ASSUME NEW n \in Seq(Byte), Labelled(n), NEW q \in {1, 65}
    PROVE  /\ QueryFor(n, q) \in Seq(Byte) /\ Len(QueryFor(n, q)) = Len(n) + 18
           /\ QueryFor(n, q)[13] = NextDot(n, 0) - 1
           /\ \A i \in 1..Len(n) : QueryFor(n, q)[i + 13] = IF n[i] = Dot THEN NextDot(n, i) - i - 1 ELSE n[i]
           /\ QueryFor(n, q)[Len(n) + 14] = 0 /\ QueryFor(n, q)[Len(n) + 15] = 0 /\ QueryFor(n, q)[Len(n) + 16] = q
<1> DEFINE h == <<18, 52, 1, 0, 0, 1, 0, 0, 0, 0, 0, 0>>
           f == <<NextDot(n, 0) - 0 - 1>>
           b == Body(n)
           z == << 0 >>
           t == <<0, q, 0, 1>>
           L == Len(n)
<1>0. L \in Nat /\ DOMAIN n = 1..L /\ \A i \in 1..L : n[i] \in Byte
  BY LenProperties, ElementOfSeq
<1>1. QueryFor(n, q) = (h \o ((f \o b) \o z)) \o t
  BY DEF QueryFor, appendDnsName, NextDot, Body
<1>2. h \in Seq(Byte) /\ Len(h) = 12
  BY DEF Byte
<1>3. z \in Seq(Byte) /\ Len(z) = 1 /\ z[1] = 0
  BY DEF Byte
<1>4. t \in Seq(Byte) /\ Len(t) = 4 /\ t[1] = 0 /\ t[2] = q
  BY DEF Byte
<1>5. f \in Seq(Byte) /\ Len(f) = 1 /\ f[1] = NextDot(n, 0) - 1
  <2>1. Starts(n, 0)
    BY <1>0 DEF Starts
  <2>2. NextDot(n, 0) \in 2..64
    <3>1. PICK i : i = 0
      OBVIOUS
    <3>2. Starts(n, i)
      BY <2>1, <3>1
    <3>3. NextDot(n, i) \in (i + 2)..(i + 64)
      BY <3>2, NextDotIs
    <3> QED
      BY <3>1, <3>3
  <2>3. NextDot(n, 0) - 0 - 1 \in Byte /\ NextDot(n, 0) - 0 - 1 = NextDot(n, 0) - 1
    <3> DEFINE m == NextDot(n, 0)
    <3>1. m \in 2..64
      BY <2>2
    <3> HIDE DEF m
    <3>2. m - 0 - 1 \in Byte /\ m - 0 - 1 = m - 1
      BY <3>1 DEF Byte
    <3> QED
      BY <3>2 DEF m
  <2> QED
    BY <2>3
<1>6. b \in Seq(Byte) /\ Len(b) = L /\ \A i \in 1..L : b[i] = IF n[i] = Dot THEN NextDot(n, i) - i - 1 ELSE n[i]
  <2>1. ASSUME NEW i \in 1..L, n[i] = Dot PROVE NextDot(n, i) - i - 1 \in Byte
    <3>1. Starts(n, i)
      BY <1>0, <2>1 DEF Starts
    <3>2. NextDot(n, i) \in (i + 2)..(i + 64)
      BY <3>1, NextDotIs
    <3> QED
      BY <3>2 DEF Byte
  <2>2. b \in [1..L -> Byte]
    BY <1>0, <2>1 DEF Body
  <2>3. \A i \in 1..L : b[i] = IF n[i] = Dot THEN NextDot(n, i) - i - 1 ELSE n[i]
    BY <1>0 DEF Body
  <2> HIDE DEF b, L
  <2> QED
    BY <1>0, <2>2, <2>3
<1> HIDE DEF h, f, b, z, t, L
<1>7. f \o b \in Seq(Byte) /\ Len(f \o b) = L + 1
      /\ (f \o b)[1] = f[1] /\ \A i \in 1..L : (f \o b)[i + 1] = b[i]
  <2>a. f \in Seq(Byte) /\ b \in Seq(Byte)
    BY <1>5, <1>6
  <2>1. /\ f \o b \in Seq(Byte) /\ Len(f \o b) = Len(f) + Len(b)
        /\ \A i \in 1..(Len(f) + Len(b)) : (f \o b)[i] = IF i <= Len(f) THEN f[i] ELSE b[i - Len(f)]
    BY <2>a, ConcatProperties
  <2>2. \A i \in 1..L : i + 1 \in 1..(1 + L) /\ ~(i + 1 <= 1) /\ (i + 1) - 1 = i
    BY <1>0
  <2>3. 1 \in 1..(1 + L) /\ 1 + L = L + 1
    BY <1>0
  <2> QED
    BY <1>5, <1>6, <2>1, <2>2, <2>3
<1> DEFINE d == f \o b
<1> HIDE DEF d
<1>8. d \o z \in Seq(Byte) /\ Len(d \o z) = L + 2
      /\ (d \o z)[1] = f[1] /\ (\A i \in 1..L : (d \o z)[i + 1] = b[i]) /\ (d \o z)[L + 2] = 0
  <2>0. d \in Seq(Byte) /\ Len(d) = L + 1 /\ d[1] = f[1] /\ \A i \in 1..L : d[i + 1] = b[i]
    BY <1>7 DEF d
  <2>a. d \in Seq(Byte) /\ z \in Seq(Byte)
    BY <1>3, <2>0
  <2>1. /\ d \o z \in Seq(Byte) /\ Len(d \o z) = Len(d) + Len(z)
        /\ \A i \in 1..(Len(d) + Len(z)) : (d \o z)[i] = IF i <= Len(d) THEN d[i] ELSE z[i - Len(d)]
    BY <2>a, ConcatProperties
  <2>2. \A i \in 1..L : i + 1 \in 1..(L + 1 + 1) /\ i + 1 <= L + 1
    BY <1>0
  <2>3. 1 \in 1..(L + 1 + 1) /\ 1 <= L + 1 /\ L + 1 + 1 = L + 2 /\ L + 2 \in 1..(L + 1 + 1)
        /\ ~(L + 2 <= L + 1) /\ (L + 2) - (L + 1) = 1
    BY <1>0
  <2> QED
    BY <1>3, <2>0, <2>1, <2>2, <2>3
<1> DEFINE e == d \o z
<1> HIDE DEF e
<1>9. h \o e \in Seq(Byte) /\ Len(h \o e) = L + 14
      /\ (h \o e)[13] = f[1] /\ (\A i \in 1..L : (h \o e)[i + 13] = b[i]) /\ (h \o e)[L + 14] = 0
  <2>0. e \in Seq(Byte) /\ Len(e) = L + 2 /\ e[1] = f[1] /\ (\A i \in 1..L : e[i + 1] = b[i]) /\ e[L + 2] = 0
    BY <1>8 DEF e
  <2>a. h \in Seq(Byte) /\ e \in Seq(Byte)
    BY <1>2, <2>0
  <2>1. /\ h \o e \in Seq(Byte) /\ Len(h \o e) = Len(h) + Len(e)
        /\ \A i \in 1..(Len(h) + Len(e)) : (h \o e)[i] = IF i <= Len(h) THEN h[i] ELSE e[i - Len(h)]
    BY <2>a, ConcatProperties
  <2>2. \A i \in 1..L : i + 13 \in 1..(12 + (L + 2)) /\ ~(i + 13 <= 12) /\ (i + 13) - 12 = i + 1
    BY <1>0
  <2>3. /\ 13 \in 1..(12 + (L + 2)) /\ ~(13 <= 12) /\ 13 - 12 = 1 /\ 12 + (L + 2) = L + 14
        /\ L + 14 \in 1..(12 + (L + 2)) /\ ~(L + 14 <= 12) /\ (L + 14) - 12 = L + 2
    BY <1>0
  <2> QED
    BY <1>2, <2>0, <2>1, <2>2, <2>3
<1> DEFINE g == h \o e
<1> HIDE DEF g
<1>10. g \o t \in Seq(Byte) /\ Len(g \o t) = L + 18
      /\ (g \o t)[13] = f[1] /\ (\A i \in 1..L : (g \o t)[i + 13] = b[i]) /\ (g \o t)[L + 14] = 0
      /\ (g \o t)[L + 15] = 0 /\ (g \o t)[L + 16] = q
  <2>0. g \in Seq(Byte) /\ Len(g) = L + 14 /\ g[13] = f[1] /\ (\A i \in 1..L : g[i + 13] = b[i]) /\ g[L + 14] = 0
    BY <1>9 DEF g
  <2>a. g \in Seq(Byte) /\ t \in Seq(Byte)
    BY <1>4, <2>0
  <2>1. /\ g \o t \in Seq(Byte) /\ Len(g \o t) = Len(g) + Len(t)
        /\ \A i \in 1..(Len(g) + Len(t)) : (g \o t)[i] = IF i <= Len(g) THEN g[i] ELSE t[i - Len(g)]
    BY <2>a, ConcatProperties
  <2>2. \A i \in 1..L : i + 13 \in 1..((L + 14) + 4) /\ i + 13 <= L + 14
    BY <1>0
  <2>3. /\ 13 \in 1..((L + 14) + 4) /\ 13 <= L + 14 /\ (L + 14) + 4 = L + 18
        /\ L + 14 \in 1..((L + 14) + 4) /\ L + 14 <= L + 14
        /\ L + 15 \in 1..((L + 14) + 4) /\ ~(L + 15 <= L + 14) /\ (L + 15) - (L + 14) = 1
        /\ L + 16 \in 1..((L + 14) + 4) /\ ~(L + 16 <= L + 14) /\ (L + 16) - (L + 14) = 2
    BY <1>0
  <2>4. Len(g) = L + 14 /\ Len(t) = 4
    BY <1>4, <2>0
  <2>5. \A i \in 1..((L + 14) + 4) : (g \o t)[i] = IF i <= L + 14 THEN g[i] ELSE t[i - (L + 14)]
    BY <2>1, <2>4
  <2>6. \A i \in 1..L : (g \o t)[i + 13] = b[i]
    BY <2>0, <2>2, <2>5
  <2>7. (g \o t)[13] = f[1] /\ (g \o t)[L + 14] = 0
    BY <2>0, <2>3, <2>5
  <2>8. (g \o t)[L + 15] = 0 /\ (g \o t)[L + 16] = q
    <3>1. (g \o t)[L + 15] = t[(L + 15) - (L + 14)] /\ (g \o t)[L + 16] = t[(L + 16) - (L + 14)]
      BY <2>3, <2>5, Zenon
    <3>2. t[1] = 0 /\ t[2] = q
      BY <1>4
    <3> QED
      BY <2>3, <3>1, <3>2, Zenon
  <2>9. g \o t \in Seq(Byte) /\ Len(g \o t) = L + 18
    BY <2>1, <2>3, <2>4
  <2> QED
    BY <2>6, <2>7, <2>8, <2>9
<1>11. QueryFor(n, q) = g \o t
  BY <1>1 DEF g, e, d
<1>12. \A i \in 1..L : (g \o t)[i + 13] = IF n[i] = Dot THEN NextDot(n, i) - i - 1 ELSE n[i]
  BY <1>6, <1>10
<1>13. /\ g \o t \in Seq(Byte) /\ Len(g \o t) = L + 18 /\ (g \o t)[13] = NextDot(n, 0) - 1
       /\ (g \o t)[L + 14] = 0 /\ (g \o t)[L + 15] = 0 /\ (g \o t)[L + 16] = q
  BY <1>5, <1>10
<1> DEFINE r == g \o t
<1> HIDE DEF r
<1>14. /\ r \in Seq(Byte) /\ Len(r) = L + 18 /\ r[13] = NextDot(n, 0) - 1
       /\ \A i \in 1..L : r[i + 13] = IF n[i] = Dot THEN NextDot(n, i) - i - 1 ELSE n[i]
       /\ r[L + 14] = 0 /\ r[L + 15] = 0 /\ r[L + 16] = q
  BY <1>12, <1>13 DEF r
<1>15. QueryFor(n, q) = r
  BY <1>11 DEF r
<1> QED
  BY <1>14, <1>15, Zenon DEF L

-----------------------------------------------------------------------------
(* The client's query in the parser *)

\* The parser stands after byte i of the name n and has joined what lies before it.
Parsed(n, i) ==
    /\ i \in 0..(Len(n) + 1) /\ position = i + 12 /\ (i = Len(n) + 1 \/ Starts(n, i))
    /\ JoinDot(labels) = SubSeq(n, 1, i - 1) /\ (i = 0 <=> labels = << >>)

\* The response is the one to a question of type q about n.
Responds(n, q) ==
    IF Rdata(q, n) = << >> THEN response = Refused
    ELSE response.status = 200 /\ response.rdata = Rdata(q, n)[1]

\* The handler is at work on a query of type q about n, and gives n back.
Parsing(n, q) ==
    /\ query = QueryFor(n, q) /\ stage \in {"read", "labels", "question", "done"}
    /\ stage = "read" => labels = << >>
    /\ stage = "labels" => \E i \in 0..(Len(n) + 1) : Parsed(n, i)
    /\ stage = "question" => JoinDot(labels) = n /\ position = Len(n) + 14
    /\ stage = "done" => Responds(n, q)

\* The length byte at the parser's place: that of the next label, and 0 at the end.
LEMMA LengthIs ==
    ASSUME NEW n \in Seq(Byte), Labelled(n), NEW q \in {1, 65}, query = QueryFor(n, q),
           NEW i, Parsed(n, i)
    PROVE  /\ Len(query) = Len(n) + 18 /\ ~AtEnd
           /\ i = Len(n) + 1 => length = 0
           /\ i # Len(n) + 1 => Starts(n, i) /\ length = NextDot(n, i) - i - 1 /\ length # 0 /\ LabelFits
<1>0. /\ Len(n) \in Nat /\ i \in 0..(Len(n) + 1) /\ position = i + 12 /\ (i = Len(n) + 1 \/ Starts(n, i))
  BY LenProperties DEF Parsed
<1>1. /\ Len(query) = Len(n) + 18 /\ query[13] = NextDot(n, 0) - 1
      /\ \A k \in 1..Len(n) : query[k + 13] = IF n[k] = Dot THEN NextDot(n, k) - k - 1 ELSE n[k]
      /\ query[Len(n) + 14] = 0
  BY QueryBytes
<1>2. position < Len(query) /\ position + 1 = i + 13
  BY <1>0, <1>1
<1>3. length = query[i + 13] /\ ~AtEnd
  BY <1>0, <1>1, <1>2 DEF length, AtEnd
<1>4. CASE i = Len(n) + 1
  <2>1. i + 13 = Len(n) + 14
    BY <1>0, <1>4
  <2> QED
    BY <1>1, <1>3, <1>4, <2>1
<1>5. CASE i # Len(n) + 1
  <2>1. Starts(n, i)
    BY <1>0, <1>5
  <2>2. NextDot(n, i) \in (i + 2)..(i + 64) /\ NextDot(n, i) \in 1..(Len(n) + 1)
    BY <2>1, NextDotIs
  <2>3. length = NextDot(n, i) - i - 1
    <3>1. CASE i = 0
      <4>1. NextDot(n, 0) - 0 - 1 = NextDot(n, 0) - 1 /\ i + 13 = 13
        BY <2>2, <3>1
      <4> QED
        BY <1>1, <1>3, <3>1, <4>1
    <3>2. CASE i # 0
      <4>1. i \in 1..Len(n) /\ n[i] = Dot
        BY <1>0, <2>1, <3>2 DEF Starts
      <4> QED
        BY <1>1, <1>3, <4>1
    <3> QED
      BY <3>1, <3>2
  <2> DEFINE j == NextDot(n, i)
             L == Len(n)
             m == length
  <2>4. j \in (i + 2)..(i + 64) /\ j \in 1..(L + 1) /\ L \in Nat /\ i \in 0..(L + 1) /\ m = j - i - 1
    BY <1>0, <2>2, <2>3
  <2> HIDE DEF j, L, m
  <2>5. m # 0 /\ m <= 63 /\ i + 12 + 1 + m <= L + 18
    BY <2>4
  <2>6. LabelFits
    BY <1>0, <1>1, <2>5 DEF LabelFits, m, L
  <2> QED
    BY <1>1, <1>3, <1>5, <2>1, <2>3, <2>5, <2>6 DEF m
<1> QED
  BY <1>4, <1>5

\* The label the parser takes is that of the name.
LEMMA LabelIs ==
    ASSUME NEW n \in Seq(Byte), Labelled(n), NEW q \in {1, 65}, NEW i, Starts(n, i)
    PROVE  SubSeq(QueryFor(n, q), i + 14, NextDot(n, i) + 12) = SubSeq(n, i + 1, NextDot(n, i) - 1)
<1> DEFINE j == NextDot(n, i)
           L == Len(n)
           Q == QueryFor(n, q)
<1>1. /\ L \in Nat /\ i \in 0..L /\ j \in (i + 2)..(i + 64) /\ j \in 1..(L + 1)
      /\ \A k \in (i + 1)..(j - 1) : k \in 1..L /\ n[k] # Dot
  BY NextDotIs, LenProperties DEF Starts
<1>2. /\ Q \in Seq(Byte) /\ Len(Q) = L + 18
      /\ \A k \in 1..L : Q[k + 13] = IF n[k] = Dot THEN NextDot(n, k) - k - 1 ELSE n[k]
  BY QueryBytes
<1> HIDE DEF j, Q, L
<1>3. \A k \in (i + 1)..(j - 1) : Q[k + 13] = n[k]
  BY <1>1, <1>2
<1> DEFINE a == i + 14
           b == j + 12
           c == i + 1
           d == j - 1
<1>4. /\ a \in 1..(Len(Q) + 1) /\ b \in (a - 1)..Len(Q) /\ (b - a) + 1 = j - i - 1
      /\ c \in 1..(L + 1) /\ d \in (c - 1)..L /\ (d - c) + 1 = j - i - 1
  BY <1>1, <1>2
<1> HIDE DEF a, b, c, d
<1>5. /\ SubSeq(Q, a, b) \in Seq(Byte) /\ Len(SubSeq(Q, a, b)) = (b - a) + 1
      /\ \A k \in 1..((b - a) + 1) : SubSeq(Q, a, b)[k] = Q[(a + k) - 1]
  BY <1>2, <1>4, SliceIs
<1>6. /\ SubSeq(n, c, d) \in Seq(Byte) /\ Len(SubSeq(n, c, d)) = (d - c) + 1
      /\ \A k \in 1..((d - c) + 1) : SubSeq(n, c, d)[k] = n[(c + k) - 1]
  BY <1>4, SliceIs DEF L
<1>7. ASSUME NEW k \in 1..(j - i - 1) PROVE SubSeq(Q, a, b)[k] = SubSeq(n, c, d)[k]
  <2>1. (a + k) - 1 = (i + k) + 13 /\ (c + k) - 1 = i + k /\ i + k \in (i + 1)..(j - 1)
    BY <1>1 DEF a, c
  <2> QED
    BY <1>3, <1>4, <1>5, <1>6, <2>1
<1>8. SubSeq(Q, a, b) = SubSeq(n, c, d)
  <2> DEFINE x == SubSeq(Q, a, b)
             y == SubSeq(n, c, d)
  <2>1. x \in Seq(Byte) /\ y \in Seq(Byte) /\ Len(x) = Len(y) /\ Len(x) = j - i - 1
    BY <1>4, <1>5, <1>6
  <2>2. \A k \in 1..Len(x) : x[k] = y[k]
    BY <1>7, <2>1
  <2> HIDE DEF x, y
  <2>3. x = y
    BY <2>1, <2>2, SeqEqual
  <2> QED
    BY <2>3 DEF x, y
<1> QED
  BY <1>8 DEF j, Q, a, b, c, d

\* Lower case is left as it is.
LEMMA Lowered == ASSUME NEW n \in Seq(Byte), Labelled(n) PROVE ToLower(n) = n
<1>1. n = [i \in DOMAIN n |-> n[i]] /\ \A i \in DOMAIN n : n[i] \notin 65..90
  BY LenProperties DEF Labelled
<1> QED
  BY <1>1 DEF ToLower

\* Each step of the handler on such a query goes on to the answer about its name.
LEMMA ParsingStep ==
    ASSUME NEW n \in Seq(Byte), Labelled(n), NEW q \in {1, 65}, TypeOK, Parsing(n, q), Handle
    PROVE  Parsing(n, q)'
<1>0. Len(n) \in Nat /\ Len(query) = Len(n) + 18 /\ query \in Seq(Byte)
  BY QueryBytes, LenProperties DEF Parsing
<1>20. ASSUME stage = "labels" PROVE \E i \in 0..(Len(n) + 1) : Parsed(n, i)
  BY <1>20 DEF Parsing
<1>1. ~ShortQuery
  BY <1>0 DEF ShortQuery
<1>2. CASE StartQuestion
  <2>1. /\ stage' = "labels" /\ position' = 12 /\ query' = query /\ labels' = << >>
    BY <1>2 DEF StartQuestion, Parsing, Header
  <2>2. SubSeq(n, 1, 0 - 1) = << >>
    BY SubSeqEmpty
  <2>3. Starts(n, 0) /\ 0 \in 0..(Len(n) + 1) /\ 12 = 0 + 12
    BY <1>0 DEF Starts
  <2>4. Parsed(n, 0)'
    BY <2>1, <2>2, <2>3, NoLabels DEF Parsed
  <2> QED
    BY <2>1, <2>3, <2>4 DEF Parsing
<1>3. ~NameRunsOut
  <2> SUFFICES ASSUME NameRunsOut PROVE FALSE
    OBVIOUS
  <2>1. PICK i \in 0..(Len(n) + 1) : Parsed(n, i)
    BY <1>20 DEF NameRunsOut
  <2>2. ~AtEnd
    BY <2>1, LengthIs DEF Parsing
  <2> QED
    BY <2>2 DEF NameRunsOut
<1>4. ~BadLabel
  <2> SUFFICES ASSUME BadLabel PROVE FALSE
    OBVIOUS
  <2>1. PICK i \in 0..(Len(n) + 1) : Parsed(n, i)
    BY <1>20 DEF BadLabel
  <2>2. (i = Len(n) + 1 => length = 0) /\ (i # Len(n) + 1 => LabelFits)
    BY <2>1, LengthIs DEF Parsing
  <2> QED
    BY <2>2 DEF BadLabel
<1>5. CASE Label
  <2>1. PICK i \in 0..(Len(n) + 1) : Parsed(n, i)
    BY <1>20, <1>5 DEF Label
  <2> DEFINE j == NextDot(n, i)
             l == SubSeq(query, i + 14, j + 12)
  <2>2. Starts(n, i) /\ length = j - i - 1
    <3>1. i # Len(n) + 1
      BY <1>5, <2>1, LengthIs DEF Parsing, Label
    <3> QED
      BY <2>1, <3>1, LengthIs DEF Parsing
  <2>3. /\ i \in 0..Len(n) /\ j \in (i + 2)..(i + 64) /\ j \in 1..(Len(n) + 1)
        /\ (j = Len(n) + 1 \/ Starts(n, j))
    BY <2>2, NextDotIs DEF Starts
  <2>4. position = i + 12 /\ JoinDot(labels) = SubSeq(n, 1, i - 1) /\ (i = 0 <=> labels = << >>)
    BY <2>1 DEF Parsed
  <2>5. l = SubSeq(n, i + 1, j - 1)
    <3>1. query = QueryFor(n, q)
      BY DEF Parsing
    <3>2. \A k : Starts(n, k) =>
              SubSeq(QueryFor(n, q), k + 14, NextDot(n, k) + 12) = SubSeq(n, k + 1, NextDot(n, k) - 1)
      BY LabelIs, ZenonT(60)
    <3> QED
      BY <2>2, <3>1, <3>2, Zenon
  <2> HIDE DEF j
  <2>6. /\ position + 1 + length = j + 12 /\ (position + 1) + 1 = i + 14
        /\ position + 1 <= j + 12 /\ j + 12 <= Len(query)
    BY <1>0, <2>2, <2>3, <2>4
  <2>7. /\ stage' = "labels" /\ position' = j + 12 /\ labels' = Append(labels, l) /\ query' = query
    BY <1>5, <2>6 DEF Label, InRange, Slice
  <2>8. l \in Seq(Byte)
    <3>1. i + 1 \in 1..(Len(n) + 1) /\ j - 1 \in ((i + 1) - 1)..Len(n)
      BY <1>0, <2>3
    <3>2. SubSeq(n, i + 1, j - 1) \in Seq(Byte)
      BY <3>1, SliceIs
    <3> QED
      BY <2>5, <3>2
  <2> HIDE DEF l
  <2>9. labels \in Seq(Seq(Byte))
    BY DEF TypeOK
  <2>10. JoinDot(Append(labels, l)) = IF labels = << >> THEN l ELSE JoinDot(labels) \o (<<Dot>> \o l)
    BY <2>8, <2>9, JoinAppend
  <2>11. JoinDot(Append(labels, l)) = SubSeq(n, 1, j - 1)
    <3>1. CASE i = 0
      <4>1. i + 1 = 1
        BY <3>1
      <4> QED
        BY <2>4, <2>5, <2>10, <3>1, <4>1
    <3>2. CASE i # 0
      <4> DEFINE k == i - 1
                 m == j - 1
      <4>1. /\ 1 \in 1..Len(n) /\ k \in (1 - 1)..(Len(n) - 1) /\ m \in (k + 1)..Len(n)
            /\ k + 1 = i /\ k + 2 = i + 1
        BY <1>0, <2>3, <3>2
      <4> HIDE DEF k, m
      <4>2. SubSeq(n, 1, k) \o (<<n[k + 1]>> \o SubSeq(n, k + 2, m)) = SubSeq(n, 1, m)
        BY <4>1, Adjacent
      <4>3. n[i] = Dot
        BY <2>2, <3>2 DEF Starts
      <4>4. SubSeq(n, 1, i - 1) \o (<<Dot>> \o SubSeq(n, i + 1, j - 1)) = SubSeq(n, 1, j - 1)
        BY <4>1, <4>2, <4>3 DEF k, m
      <4> QED
        BY <2>4, <2>5, <2>10, <3>2, <4>4
    <3> QED
      BY <3>1, <3>2
  <2>12. Append(labels, l) # << >> /\ j # 0 /\ j \in 0..(Len(n) + 1)
    BY <1>0, <2>3, <2>8, <2>9, AppendProperties
  <2>13. Parsed(n, j)'
    BY <2>3, <2>7, <2>11, <2>12 DEF Parsed
  <2> QED
    BY <2>7, <2>12, <2>13 DEF Parsing
<1>6. CASE NameEnds
  <2>1. PICK i \in 0..(Len(n) + 1) : Parsed(n, i)
    BY <1>20, <1>6 DEF NameEnds
  <2>2. i = Len(n) + 1
    BY <1>6, <2>1, LengthIs DEF Parsing, NameEnds
  <2>3. position = Len(n) + 13 /\ JoinDot(labels) = SubSeq(n, 1, Len(n))
    <3>1. i - 1 = Len(n) /\ i + 12 = Len(n) + 13
      BY <1>0, <2>2
    <3> QED
      BY <2>1, <3>1 DEF Parsed
  <2>4. JoinDot(labels) = n
    BY <2>3, SubSeqFull
  <2>5. /\ stage' = "question" /\ position' = Len(n) + 14 /\ query' = query /\ labels' = labels
    BY <1>0, <1>6, <2>3 DEF NameEnds, InRange
  <2> QED
    BY <2>4, <2>5 DEF Parsing
<1>7. ~ShortQuestion
  BY <1>0 DEF ShortQuestion, QuestionFits, Parsing
<1>8. CASE Respond
  <2>1. JoinDot(labels) = n /\ position = Len(n) + 14
    BY <1>8 DEF Respond, Parsing
  <2>2. questionName = n
    BY <2>1, Lowered DEF questionName
  <2> DEFINE type == Slice(position, position + 2)
  <2>3. type[1] = 0 /\ type[2] = q
    <3> DEFINE a == Len(n) + 15
               b == Len(n) + 16
    <3>1. /\ a \in 1..(Len(query) + 1) /\ b \in (a - 1)..Len(query) /\ (b - a) + 1 = 2
          /\ (a + 1) - 1 = Len(n) + 15 /\ (a + 2) - 1 = Len(n) + 16 /\ position + 1 = a /\ position + 2 = b
      BY <1>0, <2>1
    <3> HIDE DEF a, b
    <3>2. \A k \in 1..((b - a) + 1) : SubSeq(query, a, b)[k] = query[(a + k) - 1]
      BY <1>0, <3>1, SliceIs
    <3>3. query[Len(n) + 15] = 0 /\ query[Len(n) + 16] = q
      BY QueryBytes DEF Parsing
    <3> QED
      BY <3>1, <3>2, <3>3 DEF Slice
  <2>4. InRange(Header, position + 4)
    BY <1>0, <2>1 DEF InRange, Header
  <2> HIDE DEF type
  <2>5. 256 * type[1] + type[2] = q
    BY <2>3
  <2>6. /\ stage' = "done" /\ query' = query
        /\ response' = IF Rdata(q, n) = << >> THEN Refused
                       ELSE Reply(200, Slice(Header, position + 4), q, Rdata(q, n)[1])
    BY <1>8, <2>2, <2>4, <2>5 DEF Respond, type
  <2>7. Responds(n, q)'
    BY <2>6 DEF Responds, Reply
  <2> QED
    BY <2>6, <2>7 DEF Parsing
<1> QED
  BY <1>1, <1>2, <1>3, <1>4, <1>5, <1>6, <1>7, <1>8 DEF Handle

\* A query of the client is read whole.
LEMMA ParsingStart ==
    ASSUME NEW n \in Seq(Byte), Labelled(n), NEW q \in {1, 65}, Len(n) + 18 <= MaxBody,
           NEW r, r.method \in {"GET", "POST"}, r.decodable, r.body = QueryFor(n, q), Receive(r)
    PROVE  Parsing(n, q)' /\ r.body \in Seq(Byte)
<1>0. Len(n) \in Nat /\ Len(r.body) = Len(n) + 18 /\ r.body \in Seq(Byte) /\ MaxBody \in Nat
  BY QueryBytes, LenProperties, LimitAssumption
<1>1. SubSeq(r.body, 1, Len(r.body)) = r.body
  BY <1>0, SubSeqFull
<1>2. readDnsQuery(r) = <<r.body>>
  <2>1. (IF Len(r.body) < MaxBody THEN Len(r.body) ELSE MaxBody) = Len(r.body)
    BY <1>0
  <2> QED
    BY <1>1, <2>1 DEF readDnsQuery
<1>3. stage' = "read" /\ query' = r.body /\ labels' = << >>
  BY <1>2 DEF Receive
<1> QED
  BY <1>0, <1>3 DEF Parsing

-----------------------------------------------------------------------------
(* Names under _8443._https. *)

\* The thirteen bytes of the prefix.
LEMMA AttrleafBytes ==
    /\ Attrleaf \in Seq(Byte) /\ Len(Attrleaf) = 13
    /\ Attrleaf[1] = 95 /\ Attrleaf[2] = 56 /\ Attrleaf[3] = 52 /\ Attrleaf[4] = 52 /\ Attrleaf[5] = 51
    /\ Attrleaf[6] = Dot /\ Attrleaf[13] = Dot
    /\ \A i \in 1..6 : Attrleaf[i + 6] = https[i]
<1> DEFINE p == <<95, 56, 52, 52, 51, 46>>
           d == <<Dot>>
<1>1. p \in Seq(Byte) /\ Len(p) = 6 /\ p[1] = 95 /\ p[2] = 56 /\ p[3] = 52 /\ p[4] = 52 /\ p[5] = 51 /\ p[6] = 46
  BY DEF Byte
<1>2. d \in Seq(Byte) /\ Len(d) = 1 /\ d[1] = Dot
  BY DEF Byte, Dot
<1>3. https \in Seq(Byte) /\ Len(https) = 6
  BY DEF Byte, https
<1> HIDE DEF p, d
<1>4. p \o https \in Seq(Byte) /\ Len(p \o https) = 12
      /\ \A i \in 1..12 : (p \o https)[i] = IF i <= 6 THEN p[i] ELSE https[i - 6]
  <2>0. p \in Seq(Byte) /\ https \in Seq(Byte)
    BY <1>1, <1>3
  <2>1. /\ p \o https \in Seq(Byte) /\ Len(p \o https) = Len(p) + Len(https)
        /\ \A i \in 1..(Len(p) + Len(https)) : (p \o https)[i] = IF i <= Len(p) THEN p[i] ELSE https[i - Len(p)]
    BY <2>0, ConcatProperties
  <2>2. 6 + 6 = 12
    OBVIOUS
  <2> QED
    BY <1>1, <1>3, <2>1, <2>2
<1> DEFINE h == p \o https
<1>5. h \in Seq(Byte) /\ Len(h) = 12 /\ \A i \in 1..12 : h[i] = IF i <= 6 THEN p[i] ELSE https[i - 6]
  BY <1>4
<1> HIDE DEF h
<1>6. h \o d \in Seq(Byte) /\ Len(h \o d) = 13
      /\ \A i \in 1..13 : (h \o d)[i] = IF i <= 12 THEN h[i] ELSE d[i - 12]
  <2>0. h \in Seq(Byte) /\ d \in Seq(Byte)
    BY <1>2, <1>5
  <2>1. /\ h \o d \in Seq(Byte) /\ Len(h \o d) = Len(h) + Len(d)
        /\ \A i \in 1..(Len(h) + Len(d)) : (h \o d)[i] = IF i <= Len(h) THEN h[i] ELSE d[i - Len(h)]
    BY <2>0, ConcatProperties
  <2>2. 12 + 1 = 13
    OBVIOUS
  <2> QED
    BY <1>2, <1>5, <2>1, <2>2
<1>7. Attrleaf = h \o d
  BY DEF Attrleaf, h, p, d
<1> DEFINE a == Attrleaf
<1>8. \A i \in 1..13 : a[i] = IF i <= 12 THEN h[i] ELSE d[i - 12]
  BY <1>6, <1>7
<1> HIDE DEF a
<1>9. \A i \in 1..6 : a[i] = p[i] /\ a[i + 6] = https[i]
  <2>1. \A i \in 1..6 : i \in 1..13 /\ i <= 12 /\ i \in 1..12 /\ i <= 6
    OBVIOUS
  <2>2. \A i \in 1..6 : i + 6 \in 1..13 /\ i + 6 <= 12 /\ i + 6 \in 1..12 /\ ~(i + 6 <= 6) /\ (i + 6) - 6 = i
    OBVIOUS
  <2> QED
    BY <1>5, <1>8, <2>1, <2>2
<1>10. a[13] = Dot
  BY <1>2, <1>8
<1>11. a[1] = 95 /\ a[2] = 56 /\ a[3] = 52 /\ a[4] = 52 /\ a[5] = 51 /\ a[6] = Dot
  BY <1>1, <1>9 DEF Dot
<1> QED
  BY <1>6, <1>7, <1>9, <1>10, <1>11 DEF a

\* The name under the prefix: the prefix and then the name.
LEMMA PrefixedBytes ==
    ASSUME NEW n \in Seq(Byte)
    PROVE  /\ Attrleaf \o n \in Seq(Byte) /\ Len(Attrleaf \o n) = Len(n) + 13
           /\ \A i \in 1..13 : (Attrleaf \o n)[i] = Attrleaf[i]
           /\ \A i \in 1..Len(n) : (Attrleaf \o n)[i + 13] = n[i]
<1> DEFINE a == Attrleaf
<1>1. a \in Seq(Byte) /\ Len(a) = 13 /\ Len(n) \in Nat
  BY AttrleafBytes, LenProperties
<1> HIDE DEF a
<1>2. a \in Seq(Byte)
  BY <1>1
<1>3. /\ a \o n \in Seq(Byte) /\ Len(a \o n) = Len(a) + Len(n)
      /\ \A i \in 1..(Len(a) + Len(n)) : (a \o n)[i] = IF i <= Len(a) THEN a[i] ELSE n[i - Len(a)]
  BY <1>2, ConcatProperties
<1>4. /\ \A i \in 1..13 : i \in 1..(13 + Len(n)) /\ i <= 13
      /\ \A i \in 1..Len(n) : i + 13 \in 1..(13 + Len(n)) /\ ~(i + 13 <= 13) /\ (i + 13) - 13 = i
      /\ 13 + Len(n) = Len(n) + 13
  BY <1>1
<1> QED
  BY <1>1, <1>3, <1>4 DEF a

\* No byte of the prefix but its sixth and last is a dot, and none is a capital.
LEMMA AttrleafDots ==
    \A i \in 1..13 : Attrleaf[i] \notin 65..90 /\ (Attrleaf[i] = Dot <=> i = 6 \/ i = 13)
<1> DEFINE a == Attrleaf
<1>1. /\ a[1] = 95 /\ a[2] = 56 /\ a[3] = 52 /\ a[4] = 52 /\ a[5] = 51
      /\ a[6] = Dot /\ a[13] = Dot /\ \A i \in 1..6 : a[i + 6] = https[i]
  BY AttrleafBytes
<1>2. https[1] = 95 /\ https[2] = 104 /\ https[3] = 116 /\ https[4] = 116 /\ https[5] = 112 /\ https[6] = 115
  BY DEF https
<1> HIDE DEF a
<1>3. a[7] = 95 /\ a[8] = 104 /\ a[9] = 116 /\ a[10] = 116 /\ a[11] = 112 /\ a[12] = 115
  <2>1. a[1 + 6] = 95 /\ a[2 + 6] = 104 /\ a[3 + 6] = 116 /\ a[4 + 6] = 116 /\ a[5 + 6] = 112 /\ a[6 + 6] = 115
    BY <1>1, <1>2
  <2> QED
    BY <2>1
<1>4. \A i \in 1..13 : a[i] \notin 65..90 /\ (a[i] = Dot <=> i = 6 \/ i = 13)
  BY <1>1, <1>3 DEF Dot
<1> QED
  BY <1>4 DEF a

\* A labelled name is labelled under the prefix too.
LEMMA PrefixedLabelled ==
    ASSUME NEW n \in Seq(Byte), Labelled(n) PROVE Labelled(Attrleaf \o n)
<1> DEFINE s == Attrleaf \o n
           L == Len(n)
<1>0. L \in Nat /\ DOMAIN n = 1..L
  BY LenProperties
<1>1. /\ s \in Seq(Byte) /\ Len(s) = L + 13 /\ DOMAIN s = 1..(L + 13)
      /\ \A i \in 1..13 : s[i] = Attrleaf[i]
      /\ \A i \in 1..L : s[i + 13] = n[i]
  BY PrefixedBytes, LenProperties
<1> HIDE DEF s, L
<1>2. \A i \in 1..13 : s[i] \notin 65..90 /\ (s[i] = Dot <=> i = 6 \/ i = 13)
  BY <1>1, AttrleafDots
<1>3. \A i \in 1..(L + 13) : i \in 1..13 \/ (i - 13 \in 1..L /\ s[i] = n[i - 13])
  <2>1. \A i \in 1..(L + 13) : i \in 1..13 \/ (i - 13 \in 1..L /\ (i - 13) + 13 = i)
    BY <1>0
  <2> QED
    BY <1>1, <2>1
<1>4. \A i \in DOMAIN s : s[i] \notin 65..90
  <2>1. \A i \in 1..L : n[i] \notin 65..90
    BY <1>0 DEF Labelled
  <2> SUFFICES ASSUME NEW i \in 1..(L + 13) PROVE s[i] \notin 65..90
    BY <1>1
  <2>2. CASE i \in 1..13
    BY <1>2, <2>2
  <2>3. CASE i - 13 \in 1..L /\ s[i] = n[i - 13]
    BY <2>1, <2>3
  <2> QED
    BY <1>3, <2>2, <2>3
<1>5. ASSUME NEW i \in 0..Len(s), i = 0 \/ s[i] = Dot
      PROVE  /\ i < Len(s) /\ s[i + 1] # Dot
             /\ \E j \in i + 2..i + 64 : j = Len(s) + 1 \/ (j <= Len(s) /\ s[j] = Dot)
  <2>1. CASE i = 0
    <3>1. 6 \in i + 2..i + 64 /\ 6 <= Len(s) /\ s[6] = Dot /\ s[i + 1] # Dot /\ i < Len(s)
      BY <1>0, <1>1, <1>2, <2>1
    <3> QED
      BY <3>1
  <2>2. CASE i = 6
    <3>1. 13 \in i + 2..i + 64 /\ 13 <= Len(s) /\ s[13] = Dot /\ s[i + 1] # Dot /\ i < Len(s)
      BY <1>0, <1>1, <1>2, <2>2
    <3> QED
      BY <3>1
  <2>3. CASE i >= 13
    <3> DEFINE k == i - 13
    <3>1. k \in 0..L /\ (k = 0 \/ n[k] = Dot) /\ k + 13 = i
      BY <1>0, <1>1, <1>3, <1>5, <2>3
    <3>2. k < L /\ n[k + 1] # Dot /\ \E j \in k + 2..k + 64 : j = L + 1 \/ (j <= L /\ n[j] = Dot)
      BY <3>1 DEF Labelled, L
    <3>3. PICK j \in k + 2..k + 64 : j = L + 1 \/ (j <= L /\ n[j] = Dot)
      BY <3>2
    <3> HIDE DEF k
    <3>4. i < Len(s) /\ s[i + 1] # Dot
      <4>1. k + 1 \in 1..L /\ (k + 1) + 13 = i + 1
        BY <1>0, <3>1, <3>2
      <4>2. s[(k + 1) + 13] = n[k + 1]
        BY <1>1, <4>1
      <4> QED
        BY <1>0, <1>1, <3>1, <3>2, <4>1, <4>2
    <3>5. j + 13 \in i + 2..i + 64
      BY <1>0, <3>1
    <3>6. j + 13 = Len(s) + 1 \/ (j + 13 <= Len(s) /\ s[j + 13] = Dot)
      <4>1. CASE j = L + 1
        <5>1. j + 13 = (L + 13) + 1
          BY <1>0, <4>1
        <5> QED
          BY <1>1, <5>1
      <4>2. CASE j <= L /\ n[j] = Dot
        <5>1. j \in 1..L /\ j + 13 <= L + 13
          BY <1>0, <3>1, <4>2
        <5> QED
          BY <1>1, <4>2, <5>1
      <4> QED
        BY <3>3, <4>1, <4>2
    <3> QED
      BY <3>4, <3>5, <3>6
  <2>4. i = 0 \/ i = 6 \/ i >= 13
    <3> SUFFICES ASSUME i # 0, ~(i >= 13) PROVE i = 6
      OBVIOUS
    <3>1. i \in 0..(L + 13)
      BY <1>1
    <3>2. i \in 1..13 /\ i # 13
      BY <1>0, <3>1
    <3> QED
      BY <1>2, <1>5, <3>2
  <2> QED
    BY <2>1, <2>2, <2>3, <2>4
<1>6. Labelled(s)
  BY <1>4, <1>5 DEF Labelled
<1> QED
  BY <1>6 DEF s

\* Is f the function of ParseUint16 on text?
IsValue(f, text) == f = [i \in 0..Len(text) |-> IF i = 0 THEN 0 ELSE 10 * f[i - 1] + text[i] - 48]

\* "8443" is a port.
LEMMA PortParses ==
    ASSUME NEW text, Len(text) = 4, DOMAIN text = 1..4,
           text[1] = 56, text[2] = 52, text[3] = 52, text[4] = 51, text # << >>
    PROVE  ParseUint16(text)
<1> DEFINE v == [i \in 0..4 |-> IF i = 0 THEN 0 ELSE IF i = 1 THEN 8 ELSE IF i = 2 THEN 84
                                ELSE IF i = 3 THEN 844 ELSE 8443]
           w == [i \in 0..4 |-> IF i = 0 THEN 0 ELSE 10 * v[i - 1] + text[i] - 48]
<1>1. v[0] = 0 /\ v[1] = 8 /\ v[2] = 84 /\ v[3] = 844 /\ v[4] = 8443
  OBVIOUS
<1>2. \A i \in 0..4 : v[i] = IF i = 0 THEN 0 ELSE 10 * v[i - 1] + text[i] - 48
  <2> HIDE DEF v
  <2>1. v[1] = 10 * v[1 - 1] + text[1] - 48
    BY <1>1
  <2>2. v[2] = 10 * v[2 - 1] + text[2] - 48
    BY <1>1
  <2>3. v[3] = 10 * v[3 - 1] + text[3] - 48
    BY <1>1
  <2>4. v[4] = 10 * v[4 - 1] + text[4] - 48
    BY <1>1
  <2>5. \A i \in 0..4 : i = 0 \/ i = 1 \/ i = 2 \/ i = 3 \/ i = 4
    OBVIOUS
  <2> QED
    BY <1>1, <2>1, <2>2, <2>3, <2>4, <2>5
<1>3. \E f : IsValue(f, text)
  <2>1. v = w
    BY <1>2
  <2>2. IsValue(v, text)
    BY <2>1 DEF IsValue
  <2> HIDE DEF v
  <2> QED
    BY <2>2
<1>4. ASSUME NEW f, IsValue(f, text) PROVE f[Len(text)] <= 65535
  <2>1. \A i \in 0..4 : f[i] = IF i = 0 THEN 0 ELSE 10 * f[i - 1] + text[i] - 48
    BY <1>4 DEF IsValue
  <2>2. f[0] = 0
    BY <2>1
  <2>3. f[1] = 8
    <3>1. f[1] = 10 * f[1 - 1] + text[1] - 48
      BY <2>1
    <3> QED
      BY <2>2, <3>1
  <2>4. f[2] = 84
    <3>1. f[2] = 10 * f[2 - 1] + text[2] - 48
      BY <2>1
    <3> QED
      BY <2>3, <3>1
  <2>5. f[3] = 844
    <3>1. f[3] = 10 * f[3 - 1] + text[3] - 48
      BY <2>1
    <3> QED
      BY <2>4, <3>1
  <2>6. f[4] = 8443
    <3>1. f[4] = 10 * f[4 - 1] + text[4] - 48
      BY <2>1
    <3> QED
      BY <2>5, <3>1
  <2> QED
    BY <2>6
<1>5. \A i \in DOMAIN text : text[i] \in 48..57
  OBVIOUS
<1> DEFINE g == CHOOSE f : IsValue(f, text)
<1>6. IsValue(g, text)
  BY <1>3
<1> HIDE DEF g
<1>7. g[Len(text)] <= 65535
  BY <1>4, <1>6
<1> HIDE DEF v, w
<1> QED
  BY <1>5, <1>7 DEF ParseUint16, g, IsValue

\* A name that does not start as a port does is left alone.
LEMMA StripBare == ASSUME NEW n, n[1] # Underscore PROVE stripAttrleafPort(n) = n
  BY DEF stripAttrleafPort

\* A name under the prefix loses it.
LEMMA StripAttrleaf == ASSUME NEW n \in Seq(Byte) PROVE stripAttrleafPort(Attrleaf \o n) = n
<1> DEFINE s == Attrleaf \o n
           L == Len(n)
           dots == {i \in DOMAIN s : s[i] = Dot}
<1>0. L \in Nat
  BY LenProperties
<1>1. /\ s \in Seq(Byte) /\ Len(s) = L + 13 /\ DOMAIN s = 1..(L + 13)
      /\ \A i \in 1..13 : s[i] = Attrleaf[i]
      /\ \A i \in 1..L : s[i + 13] = n[i]
  BY PrefixedBytes, LenProperties
<1> HIDE DEF s, L
<1>2. \A i \in 1..13 : s[i] = Dot <=> i = 6 \/ i = 13
  BY <1>1, AttrleafDots
<1>3. 6 \in dots /\ 13 \in dots /\ dots \in SUBSET (1..(L + 13)) /\ dots \in SUBSET Nat
  BY <1>0, <1>1, <1>2
<1>4. \A i \in dots : i = 6 \/ i >= 13
  <2> SUFFICES ASSUME NEW i \in dots, ~(i >= 13) PROVE i = 6
    OBVIOUS
  <2>1. i \in 1..13 /\ i # 13 /\ s[i] = Dot
    BY <1>0, <1>1
  <2> QED
    BY <1>2, <2>1
<1> HIDE DEF dots
<1>5. Min(dots) = 6
  <2>1. \A i \in dots : 6 <= i
    BY <1>3, <1>4
  <2> QED
    BY <1>3, <2>1, MinIs
<1>6. Min(dots \ {6}) = 13
  <2>1. dots \ {6} \in SUBSET Nat /\ 13 \in dots \ {6} /\ \A i \in dots \ {6} : 13 <= i
    BY <1>3, <1>4
  <2> QED
    BY <2>1, MinIs
<1>7. Cardinality(dots) >= 2
  <2> DEFINE two == {6} \cup {13}
  <2>1. IsFiniteSet(1..(L + 13))
    BY <1>0, FS_Interval
  <2>2. IsFiniteSet(dots)
    BY <1>3, <2>1, FS_Subset
  <2>3. IsFiniteSet({6}) /\ Cardinality({6}) = 1
    BY FS_Singleton
  <2>4. Cardinality(two) = Cardinality({6}) + 1
    <3>1. 13 \notin {6}
      OBVIOUS
    <3> QED
      BY <2>3, <3>1, FS_AddElement
  <2>5. two \in SUBSET dots
    BY <1>3
  <2> HIDE DEF two
  <2>6. Cardinality(two) <= Cardinality(dots) /\ Cardinality(dots) \in Nat
    BY <2>2, <2>5, FS_Subset, FS_CardinalityType
  <2> QED
    BY <2>3, <2>4, <2>6
<1>8. SubSeq(s, 7, 12) = https
  <2> DEFINE x == SubSeq(s, 7, 12)
  <2>1. 7 \in 1..(Len(s) + 1) /\ 12 \in (7 - 1)..Len(s) /\ (12 - 7) + 1 = 6
    BY <1>0, <1>1
  <2>2. x \in Seq(Byte) /\ Len(x) = (12 - 7) + 1 /\ \A i \in 1..((12 - 7) + 1) : x[i] = s[(7 + i) - 1]
    BY <1>1, <2>1, SliceIs
  <2> HIDE DEF x
  <2>3. https \in Seq(Byte) /\ Len(https) = 6
    BY DEF https, Byte
  <2>4. \A i \in 1..6 : x[i] = https[i]
    <3>1. \A i \in 1..6 : (7 + i) - 1 = i + 6 /\ i + 6 \in 1..13
      OBVIOUS
    <3> QED
      <4>1. \A i \in 1..6 : Attrleaf[i + 6] = https[i]
        BY AttrleafBytes
      <4>2. \A i \in 1..6 : x[i] = s[(7 + i) - 1]
        BY <2>1, <2>2
      <4>3. \A i \in 1..6 : x[i] = s[i + 6]
        BY <3>1, <4>2
      <4>4. \A i \in 1..6 : s[i + 6] = Attrleaf[i + 6]
        BY <1>1, <3>1
      <4> QED
        BY <4>1, <4>3, <4>4
  <2>5. x = https
    <3>1. Len(x) = Len(https) /\ \A i \in 1..Len(x) : x[i] = https[i]
      BY <2>1, <2>2, <2>3, <2>4
    <3> HIDE DEF https
    <3> QED
      BY <2>2, <2>3, <3>1, SeqEqual
  <2> QED
    BY <2>5 DEF x
<1>9. s[1] = Underscore
  BY <1>1, AttrleafBytes DEF Underscore
<1>10. ParseUint16(SubSeq(s, 2, 5))
  <2> DEFINE x == SubSeq(s, 2, 5)
  <2>1. 2 \in 1..(Len(s) + 1) /\ 5 \in (2 - 1)..Len(s) /\ (5 - 2) + 1 = 4
    BY <1>0, <1>1
  <2>2. x \in Seq(Byte) /\ Len(x) = (5 - 2) + 1 /\ \A i \in 1..((5 - 2) + 1) : x[i] = s[(2 + i) - 1]
    BY <1>1, <2>1, SliceIs
  <2> HIDE DEF x
  <2>3. x[1] = s[2] /\ x[2] = s[3] /\ x[3] = s[4] /\ x[4] = s[5]
    <3>1. x[1] = s[(2 + 1) - 1] /\ x[2] = s[(2 + 2) - 1] /\ x[3] = s[(2 + 3) - 1] /\ x[4] = s[(2 + 4) - 1]
      BY <2>1, <2>2
    <3> QED
      BY <3>1
  <2>4. x[1] = 56 /\ x[2] = 52 /\ x[3] = 52 /\ x[4] = 51
    BY <1>1, <2>3, AttrleafBytes
  <2>5. Len(x) = 4 /\ DOMAIN x = 1..4 /\ x # << >>
    <3>1. Len(x) = 4
      BY <2>1, <2>2
    <3>2. x \in Seq(Byte)
      BY <2>2
    <3>3. DOMAIN x = 1..Len(x)
      BY <3>2, LenProperties
    <3>4. x # << >>
      BY <3>1
    <3> QED
      BY <3>1, <3>3, <3>4
  <2>6. ParseUint16(x)
    BY <2>4, <2>5, PortParses
  <2> QED
    BY <2>6 DEF x
<1>11. SubSeq(s, 14, Len(s)) = n
  <2> DEFINE x == SubSeq(s, 14, Len(s))
  <2>a. Len(s) = L + 13 /\ L \in Nat /\ s \in Seq(Byte)
    BY <1>0, <1>1
  <2> HIDE DEF L
  <2>1. 14 \in 1..(Len(s) + 1) /\ Len(s) \in (14 - 1)..Len(s) /\ (Len(s) - 14) + 1 = L
    BY <2>a
  <2>2. x \in Seq(Byte) /\ Len(x) = (Len(s) - 14) + 1 /\ \A i \in 1..((Len(s) - 14) + 1) : x[i] = s[(14 + i) - 1]
    BY <2>a, <2>1, SliceIs
  <2> HIDE DEF x
  <2>3. \A i \in 1..L : x[i] = n[i]
    <3>1. \A i \in 1..L : (14 + i) - 1 = i + 13
      BY <1>0
    <3> QED
      BY <1>1, <2>1, <2>2, <3>1
  <2>4. Len(x) = Len(n) /\ \A i \in 1..Len(x) : x[i] = n[i]
    BY <2>1, <2>2, <2>3 DEF L
  <2>5. x = n
    BY <2>2, <2>4, SeqEqual
  <2> QED
    BY <2>5 DEF x
<1>12. stripAttrleafPort(s) = SubSeq(s, 14, Len(s))
  <2>1. 6 + 1 = 7 /\ 13 - 1 = 12 /\ 6 - 1 = 5 /\ 13 + 1 = 14 /\ 6 > 2
    OBVIOUS
  <2>2. stripAttrleafPort(s) =
            IF /\ Cardinality(dots) >= 2
               /\ SubSeq(s, Min(dots) + 1, Min(dots \ {Min(dots)}) - 1) = https
               /\ Min(dots) > 2 /\ s[1] = Underscore
               /\ ParseUint16(SubSeq(s, 2, Min(dots) - 1))
            THEN SubSeq(s, Min(dots \ {Min(dots)}) + 1, Len(s))
            ELSE s
    BY DEF stripAttrleafPort, dots
  <2> QED
    BY <1>5, <1>6, <1>7, <1>8, <1>9, <1>10, <2>1, <2>2
<1> QED
  BY <1>11, <1>12 DEF s

-----------------------------------------------------------------------------
(* What the client is told *)

\* Every host has a text the parser gives back, and its queries are read whole.
LEMMA Texts ==
    ASSUME NEW h \in Hosts
    PROVE  /\ Text(h) \in Seq(Byte) /\ Labelled(Text(h)) /\ Text(h)[1] # Underscore
           /\ Len(Text(h)) + 31 <= MaxBody /\ Len(Text(h)) \in Nat /\ MaxBody \in Nat
<1>0. MaxBody \in Nat /\ DOMAIN Bytes = SvcbNames \cup EchNames
  BY LimitAssumption, BytesAssumption
<1>1. CASE h \in DOMAIN Bytes
  <2>1. Text(h) = Bytes[h]
    BY <1>1 DEF Text
  <2>2. Bytes[h] \in Seq(Byte)
    BY <1>0, <1>1, BytesAssumption
  <2>3. Labelled(Bytes[h]) /\ Bytes[h][1] # Underscore /\ Len(Bytes[h]) + 31 <= MaxBody
    BY <1>1, NamesAssumption
  <2> QED
    BY <1>0, <2>1, <2>2, <2>3, LenProperties
<1>2. CASE h \notin DOMAIN Bytes
  <2> DEFINE u == << 120 >>
  <2>1. Text(h) = u
    BY <1>2 DEF Text, Unknown
  <2>2. u \in Seq(Byte) /\ Len(u) = 1 /\ DOMAIN u = 1..1 /\ u[1] = 120
    BY DEF Byte
  <2> HIDE DEF u
  <2>3. Labelled(u) /\ u[1] # Underscore
    <3>1. \A i \in 0..1 : i = 0 \/ i = 1
      OBVIOUS
    <3>2. \A i \in DOMAIN u : u[i] \notin 65..90
      <4>1. SUFFICES ASSUME NEW i \in DOMAIN u PROVE u[i] \notin 65..90
        OBVIOUS
      <4>2. DOMAIN u = 1..1 /\ u[1] = 120
        BY <2>2
      <4>3. i \in 1..1
        BY <4>1, <4>2
      <4>4. i = 1
        BY <4>3
      <4> QED
        BY <4>2, <4>4
    <3>3. ASSUME NEW i \in 0..Len(u), i = 0 \/ u[i] = Dot
          PROVE  /\ i < Len(u) /\ u[i + 1] # Dot
                 /\ \E j \in i + 2..i + 64 : j = Len(u) + 1 \/ (j <= Len(u) /\ u[j] = Dot)
      <4>1. i = 0
        BY <2>2, <3>1, <3>3 DEF Dot
      <4>2. 2 \in i + 2..i + 64 /\ 2 = Len(u) + 1 /\ i < Len(u) /\ i + 1 = 1
        BY <2>2, <4>1
      <4> QED
        BY <2>2, <4>2 DEF Dot
    <3> QED
      BY <2>2, <3>2, <3>3 DEF Labelled, Underscore
  <2>4. 32 <= MaxBody
    <3> DEFINE g == Bytes["green.secret.test"]
    <3>1. "green.secret.test" \in DOMAIN Bytes
      BY <1>0 DEF EchNames
    <3>2. g \in Seq(Byte) /\ Labelled(g) /\ Len(g) + 31 <= MaxBody
      BY <1>0, <3>1, BytesAssumption, NamesAssumption
    <3> HIDE DEF g
    <3>3. Len(g) \in Nat
      BY <3>2, LenProperties
    <3>4. 0 < Len(g)
      <4>1. 0 \in 0..Len(g)
        BY <3>3
      <4> QED
        BY <3>2, <4>1 DEF Labelled
    <3> QED
      BY <1>0, <3>2, <3>3, <3>4
  <2> QED
    BY <1>0, <2>1, <2>2, <2>3, <2>4
<1> QED
  BY <1>1, <1>2

\* The parameters that hold an ECH config list.
Ech5(params) == {p \in Range(params) : p.key = 5}

\* One parameter more: an ECH config list only under its own key.
LEMMA EchAppend ==
    ASSUME NEW params \in Params, NEW key \in Nat, NEW value \in Seq(Nat)
    PROVE  Ech5(appendSvcParam(params, key, value)) =
               Ech5(params) \cup (IF key = 5 THEN {[key |-> key, value |-> value]} ELSE {})
<1> DEFINE e == [key |-> key, value |-> value]
           T == [key : Nat, value : Seq(Nat)]
<1>1. e \in T /\ e.key = key
  OBVIOUS
<1>2. params \in Seq(T)
  BY DEF Params
<1> HIDE DEF e, T
<1>3. /\ Len(params) \in Nat /\ DOMAIN params = 1..Len(params)
      /\ DOMAIN Append(params, e) = 1..(Len(params) + 1)
      /\ (\A i \in 1..Len(params) : Append(params, e)[i] = params[i]) /\ Append(params, e)[Len(params) + 1] = e
  BY <1>1, <1>2, AppendProperties, LenProperties
<1>4. Range(Append(params, e)) = Range(params) \cup {e}
  <2>1. \A i \in 1..(Len(params) + 1) : i \in 1..Len(params) \/ i = Len(params) + 1
    BY <1>3
  <2>2. \A i \in 1..Len(params) : i \in 1..(Len(params) + 1)
    BY <1>3
  <2>3. Len(params) + 1 \in 1..(Len(params) + 1)
    BY <1>3
  <2> QED
    BY <1>3, <2>1, <2>2, <2>3 DEF Range
<1>5. appendSvcParam(params, key, value) = Append(params, e)
  BY DEF appendSvcParam, e
<1>6. Ech5(Append(params, e)) = Ech5(params) \cup (IF key = 5 THEN {e} ELSE {})
  BY <1>1, <1>4 DEF Ech5
<1> QED
  BY <1>5, <1>6 DEF e

\* No parameters, no config list.
LEMMA EchNone == << >> \in Params /\ Ech5(<< >>) = {}
<1>1. DOMAIN << >> = {}
  OBVIOUS
<1>2. Range(<< >>) = {}
  BY <1>1 DEF Range
<1> QED
  BY <1>2, EmptySeq DEF Params, Ech5

\* The values the resolver appends.
LEMMA ValuesTyped ==
    /\ << >> \in Seq(Nat) /\ <<H2>> \in Seq(Nat) /\ <<H3>> \in Seq(Nat) /\ <<H2, H1>> \in Seq(Nat)
    /\ << 0 >> \in Seq(Nat) /\ << 1 >> \in Seq(Nat) /\ Loopback \in Seq(Nat) /\ Port \in Seq(Nat)
<1>1. TargetPort % 65536 \in Nat
  BY LimitAssumption
<1>2. Port \in Seq(Nat)
  BY <1>1 DEF Port
<1> QED
  BY <1>2, EmptySeq DEF H1, H2, H3, Loopback

\* An HTTPS record carries one config list, the one it was made with.
LEMMA HttpsRecordIs ==
    ASSUME NEW list \in Seq(Nat)
    PROVE  /\ httpsRecord(list).present /\ httpsRecord(list).priority = 1
           /\ Ech5(httpsRecord(list).params) = {[key |-> 5, value |-> list]}
<1> DEFINE v == <<H2, H1>>
           p1 == appendSvcParam(<< >>, 1, v)
           p2 == appendSvcParam(p1, 3, Port)
           p3 == appendSvcParam(p2, 4, Loopback)
           p4 == appendSvcParam(p3, 5, list)
<1>0. v \in Seq(Nat) /\ Port \in Seq(Nat) /\ Loopback \in Seq(Nat)
  BY ValuesTyped
<1> HIDE DEF v
<1>1. p1 \in Params /\ Ech5(p1) = {}
  <2>1. p1 \in Params /\ Ech5(p1) = Ech5(<< >>) \cup (IF 1 = 5 THEN {[key |-> 1, value |-> v]} ELSE {})
    BY <1>0, EchNone, AppendTyped, EchAppend
  <2> QED
    BY <2>1, EchNone
<1> HIDE DEF p1
<1>2. p2 \in Params /\ Ech5(p2) = {}
  <2>1. p2 \in Params /\ Ech5(p2) = Ech5(p1) \cup (IF 3 = 5 THEN {[key |-> 3, value |-> Port]} ELSE {})
    BY <1>0, <1>1, AppendTyped, EchAppend
  <2> QED
    BY <1>1, <2>1
<1> HIDE DEF p2
<1>3. p3 \in Params /\ Ech5(p3) = {}
  <2>1. p3 \in Params /\ Ech5(p3) = Ech5(p2) \cup (IF 4 = 5 THEN {[key |-> 4, value |-> Loopback]} ELSE {})
    BY <1>0, <1>2, AppendTyped, EchAppend
  <2> QED
    BY <1>2, <2>1
<1> HIDE DEF p3
<1>4. Ech5(p4) = {[key |-> 5, value |-> list]}
  <2>1. Ech5(p4) = Ech5(p3) \cup (IF 5 = 5 THEN {[key |-> 5, value |-> list]} ELSE {})
    BY <1>0, <1>3, EchAppend
  <2> QED
    BY <1>3, <2>1
<1> HIDE DEF p4
<1>5. httpsRecord(list) = ServiceMode(p4)
  BY DEF httpsRecord, p4, p3, p2, p1, v
<1> QED
  BY <1>4, <1>5 DEF ServiceMode, Answer

\* What dnsResponse looks up under a name without its prefix.
Lookup(text) ==
    IF svcParamFixture(text).present THEN <<svcParamFixture(text)>>
    ELSE IF echConfigs(text) # << >> THEN <<httpsRecord(echConfigs(text))>>
    ELSE << >>

\* It is the answer to an HTTPS question.
LEMMA RdataLookup == ASSUME NEW name PROVE Rdata(65, name) = Lookup(stripAttrleafPort(name))
  BY DEF Rdata, Lookup

\* The config published for a host, 0 for none; the alias leads to green's.
Published(h) ==
    IF h \in {"green.secret.test", "alias.svcb.test"} THEN 1
    ELSE IF h = "retry.secret.test" THEN 2
    ELSE IF h = "disabled.secret.test" THEN 4
    ELSE IF h = Issue1561 THEN 6 ELSE 0

\* Different names have different texts.
LEMMA TextsDiffer ==
    ASSUME NEW m \in SvcbNames \cup EchNames, NEW n \in SvcbNames \cup EchNames, m # n
    PROVE  Bytes[m] # Bytes[n]
<1>1. m \in DOMAIN Bytes /\ n \in DOMAIN Bytes
  BY BytesAssumption
<1> QED
  BY <1>1, NamesAssumption

\* An ECH name gets its config list.
LEMMA ToldEch ==
    ASSUME NEW h \in EchNames
    PROVE  Lookup(Bytes[h]) = <<httpsRecord(<<Published(h)>>)>>
<1> DEFINE t == Bytes[h]
<1>1. /\ t # Bytes["alias.svcb.test"] /\ t # Bytes["nodefaultalpn.svcb.test"] /\ t # Bytes["mandatory.svcb.test"]
      /\ t # Bytes["h3only.svcb.test"] /\ t # Bytes["unknownparam.svcb.test"]
  BY TextsDiffer DEF EchNames, SvcbNames
<1>2. /\ h # "green.secret.test" => t # Bytes["green.secret.test"]
      /\ h # "retry.secret.test" => t # Bytes["retry.secret.test"]
  BY TextsDiffer DEF EchNames, SvcbNames
<1>3. echConfigs(t) = <<Published(h)>>
  BY <1>2 DEF echConfigs, Published, EchNames
<1> HIDE DEF t
<1>4. svcParamFixture(t) = None
  BY <1>1 DEF svcParamFixture
<1>5. ~None.present
  BY DEF None
<1>6. <<Published(h)>> # << >>
  OBVIOUS
<1>7. Lookup(t) = <<httpsRecord(<<Published(h)>>)>>
  BY <1>3, <1>4, <1>5, <1>6 DEF Lookup
<1> QED
  BY <1>7 DEF t

\* The alias gets green's name.
LEMMA ToldAlias == Lookup(Bytes["alias.svcb.test"]) = <<AliasMode(Bytes["green.secret.test"])>>
<1> DEFINE r == AliasMode(Bytes["green.secret.test"])
<1>1. svcParamFixture(Bytes["alias.svcb.test"]) = r
  BY DEF svcParamFixture
<1>2. r.present
  BY DEF AliasMode, Answer
<1> HIDE DEF r
<1> QED
  BY <1>1, <1>2 DEF Lookup, r

\* Another host the resolver does not know gets nothing.
LEMMA ToldNothing == Lookup(Unknown) = << >>
<1> DEFINE t == Unknown
<1>1. \A n \in SvcbNames \cup EchNames : t # Bytes[n]
  BY NamesAssumption, BytesAssumption
<1> HIDE DEF t
<1>2. svcParamFixture(t) = None
  BY <1>1 DEF svcParamFixture, SvcbNames
<1>3. echConfigs(t) = << >>
  BY <1>1 DEF echConfigs, EchNames
<1>4. ~None.present
  BY DEF None
<1> QED
  BY <1>2, <1>3, <1>4 DEF Lookup, t

\* A record in ServiceMode without a config list.
Plain(record) == record.present /\ record.priority = 1 /\ Ech5(record.params) = {}

\* Two or three parameters with other keys make one.
LEMMA PlainRecord ==
    ASSUME NEW a \in Nat \ {5}, NEW b \in Nat \ {5}, NEW va \in Seq(Nat), NEW vb \in Seq(Nat)
    PROVE  /\ Plain(ServiceMode(appendSvcParam(appendSvcParam(<< >>, a, va), b, vb)))
           /\ \A c \in Nat \ {5}, vc \in Seq(Nat) :
                  Plain(ServiceMode(appendSvcParam(appendSvcParam(appendSvcParam(<< >>, a, va), b, vb), c, vc)))
<1> DEFINE p1 == appendSvcParam(<< >>, a, va)
           p2 == appendSvcParam(p1, b, vb)
<1>1. p1 \in Params /\ Ech5(p1) = {}
  <2>1. p1 \in Params /\ Ech5(p1) = Ech5(<< >>) \cup (IF a = 5 THEN {[key |-> a, value |-> va]} ELSE {})
    BY EchNone, AppendTyped, EchAppend
  <2> QED
    BY <2>1, EchNone
<1> HIDE DEF p1
<1>2. p2 \in Params /\ Ech5(p2) = {}
  <2>1. p2 \in Params /\ Ech5(p2) = Ech5(p1) \cup (IF b = 5 THEN {[key |-> b, value |-> vb]} ELSE {})
    BY <1>1, AppendTyped, EchAppend
  <2> QED
    BY <1>1, <2>1
<1> HIDE DEF p2
<1>3. \A p : Ech5(p) = {} => Plain(ServiceMode(p))
  BY DEF Plain, ServiceMode, Answer
<1>4. ASSUME NEW c \in Nat \ {5}, NEW vc \in Seq(Nat) PROVE Plain(ServiceMode(appendSvcParam(p2, c, vc)))
  <2>1. Ech5(appendSvcParam(p2, c, vc)) = Ech5(p2) \cup (IF c = 5 THEN {[key |-> c, value |-> vc]} ELSE {})
    BY <1>2, EchAppend
  <2>2. Ech5(appendSvcParam(p2, c, vc)) = {}
    BY <1>2, <2>1
  <2> QED
    BY <1>3, <2>2
<1>5. Plain(ServiceMode(p2))
  BY <1>2, <1>3
<1> QED
  BY <1>4, <1>5 DEF p2, p1

\* The other svcb.test names get such a record.
LEMMA ToldSvcb ==
    ASSUME NEW h \in SvcbNames, h # "alias.svcb.test"
    PROVE  \E record : Lookup(Bytes[h]) = <<record>> /\ Plain(record)
<1> DEFINE t == Bytes[h]
           r == svcParamFixture(t)
           h2 == <<H2>>
           h3 == <<H3>>
           no == << >>
           zero == << 0 >>
           one == << 1 >>
<1>0. h2 \in Seq(Nat) /\ h3 \in Seq(Nat) /\ no \in Seq(Nat) /\ zero \in Seq(Nat) /\ one \in Seq(Nat) /\ Port \in Seq(Nat)
  BY ValuesTyped
<1>1. /\ \A n \in SvcbNames : n # h => t # Bytes[n]
  BY TextsDiffer
<1> HIDE DEF h2, h3, no, zero, one, t
<1>2. /\ Plain(ServiceMode(appendSvcParam(appendSvcParam(appendSvcParam(<< >>, 1, h2), 2, no), 3, Port)))
      /\ Plain(ServiceMode(appendSvcParam(appendSvcParam(appendSvcParam(<< >>, 0, one), 1, h2), 3, Port)))
      /\ Plain(ServiceMode(appendSvcParam(appendSvcParam(<< >>, 1, h3), 3, Port)))
      /\ Plain(ServiceMode(appendSvcParam(appendSvcParam(appendSvcParam(<< >>, 1, h2), 3, Port), 31337, zero)))
  <2>1. Plain(ServiceMode(appendSvcParam(appendSvcParam(appendSvcParam(<< >>, 1, h2), 2, no), 3, Port)))
    BY <1>0, PlainRecord
  <2>2. Plain(ServiceMode(appendSvcParam(appendSvcParam(appendSvcParam(<< >>, 0, one), 1, h2), 3, Port)))
    BY <1>0, PlainRecord
  <2>3. Plain(ServiceMode(appendSvcParam(appendSvcParam(<< >>, 1, h3), 3, Port)))
    BY <1>0, PlainRecord
  <2>4. Plain(ServiceMode(appendSvcParam(appendSvcParam(appendSvcParam(<< >>, 1, h2), 3, Port), 31337, zero)))
    BY <1>0, PlainRecord
  <2> QED
    BY <2>1, <2>2, <2>3, <2>4
<1>3. Plain(r)
  <2>1. CASE h = "nodefaultalpn.svcb.test"
    BY <1>1, <1>2, <2>1 DEF svcParamFixture, SvcbNames, t, h2, no
  <2>2. CASE h = "mandatory.svcb.test"
    BY <1>1, <1>2, <2>2 DEF svcParamFixture, SvcbNames, t, h2, one
  <2>3. CASE h = "h3only.svcb.test"
    BY <1>1, <1>2, <2>3 DEF svcParamFixture, SvcbNames, t, h3
  <2>4. CASE h = "unknownparam.svcb.test"
    BY <1>1, <1>2, <2>4 DEF svcParamFixture, SvcbNames, t, h2, zero
  <2> QED
    BY <2>1, <2>2, <2>3, <2>4 DEF SvcbNames
<1> HIDE DEF r
<1>4. Lookup(t) = <<r>>
  BY <1>3 DEF Lookup, Plain, r
<1> QED
  BY <1>3, <1>4 DEF t

-----------------------------------------------------------------------------
(* The client's lookups *)

AskedName(type) == IF type = "A" THEN Text(host) ELSE (IF bare THEN << >> ELSE Attrleaf) \o asked
QType(type) == IF type = "A" THEN 1 ELSE 65
States == {"none", "asked", "answered", "failed", "lost"}

\* The name asked for is the host's, or green's once the alias was followed, and what
\* the resolver is at work on for the client is the client's query about it.
Exchange ==
    /\ host \in Hosts /\ level \in {"noTls13", "noEch", "ech"} /\ bare \in BOOLEAN
    /\ asked = Text(host) \/ (host = "alias.svcb.test" /\ asked = Bytes["green.secret.test"])
    /\ lookup \in [Types -> States]
    /\ peer \in Types => lookup[peer] = "asked" /\ Parsing(AskedName(peer), QType(peer))

\* An issue1561 client never asks.
Settled == host = Issue1561 => lookup = [t \in Types |-> "answered"]

\* The text asked for is that of a host.
LEMMA AskedIsText == ASSUME Exchange PROVE host \in Hosts /\ \E h \in Hosts : asked = Text(h)
<1>1. "green.secret.test" \in Hosts /\ "green.secret.test" \in DOMAIN Bytes
  BY BytesAssumption DEF Hosts, EchNames
<1>2. Text("green.secret.test") = Bytes["green.secret.test"]
  BY <1>1 DEF Text
<1> QED
  BY <1>1, <1>2 DEF Exchange

\* What the client asks for can be parsed back and is read whole.
LEMMA AskedNameIs ==
    ASSUME Exchange, NEW t \in Types
    PROVE  /\ AskedName(t) \in Seq(Byte) /\ Labelled(AskedName(t)) /\ Len(AskedName(t)) + 18 <= MaxBody
           /\ QType(t) \in {1, 65}
           /\ t = "HTTPS" => stripAttrleafPort(AskedName(t)) = asked
<1>0. QType(t) \in {1, 65}
  BY DEF QType
<1>1. CASE t = "A"
  <2>1. AskedName(t) = Text(host) /\ host \in Hosts
    BY <1>1, AskedIsText DEF AskedName
  <2>2. /\ Text(host) \in Seq(Byte) /\ Labelled(Text(host))
        /\ Len(Text(host)) + 31 <= MaxBody /\ Len(Text(host)) \in Nat /\ MaxBody \in Nat
    BY <2>1, Texts
  <2>3. Len(Text(host)) + 18 <= MaxBody
    BY <2>2
  <2> QED
    BY <1>0, <1>1, <2>1, <2>2, <2>3
<1>2. CASE t = "HTTPS"
  <2>1. /\ asked \in Seq(Byte) /\ Labelled(asked) /\ asked[1] # Underscore
        /\ Len(asked) + 31 <= MaxBody /\ Len(asked) \in Nat /\ MaxBody \in Nat
    BY AskedIsText, Texts
  <2>2. CASE bare
    <3>1. AskedName(t) = asked
      <4>1. << >> \o asked = asked
        BY <2>1, ConcatEmptySeq
      <4> QED
        BY <1>2, <2>2, <4>1 DEF AskedName
    <3>2. stripAttrleafPort(asked) = asked
      BY <2>1, StripBare
    <3>3. Len(asked) + 18 <= MaxBody
      BY <2>1
    <3> QED
      BY <1>0, <2>1, <3>1, <3>2, <3>3
  <2>3. CASE ~bare
    <3>1. AskedName(t) = Attrleaf \o asked
      BY <1>2, <2>3 DEF AskedName
    <3>2. Attrleaf \o asked \in Seq(Byte) /\ Len(Attrleaf \o asked) = Len(asked) + 13
      BY <2>1, PrefixedBytes
    <3>3. Labelled(Attrleaf \o asked) /\ stripAttrleafPort(Attrleaf \o asked) = asked
      BY <2>1, PrefixedLabelled, StripAttrleaf
    <3>4. (Len(asked) + 13) + 18 <= MaxBody
      BY <2>1
    <3> QED
      BY <1>0, <3>1, <3>2, <3>3, <3>4
  <2> QED
    BY <2>2, <2>3
<1> QED
  BY <1>1, <1>2 DEF Types

\* The client's query.
LEMMA ClientQueryIs ==
    ASSUME Exchange, NEW t \in Types
    PROVE  /\ ClientQuery(t) \in AnyRequest /\ ClientQuery(t).method \in {"GET", "POST"}
           /\ ClientQuery(t).decodable /\ ClientQuery(t).body = QueryFor(AskedName(t), QType(t))
<1>1. ClientQuery(t).body = QueryFor(AskedName(t), QType(t))
  BY DEF ClientQuery, AskedName, QType, Types
<1>2. ClientQuery(t).method \in {"GET", "POST"} /\ ClientQuery(t).decodable
  BY DEF ClientQuery
<1>3. QueryFor(AskedName(t), QType(t)) \in Seq(Byte)
  <2>1. AskedName(t) \in Seq(Byte) /\ Labelled(AskedName(t)) /\ QType(t) \in {1, 65}
    BY AskedNameIs
  <2> QED
    BY <2>1, QueryBytes
<1> DEFINE body == IF t = "A" THEN QueryFor(Text(host), 1)
                   ELSE QueryFor((IF bare THEN << >> ELSE Attrleaf) \o asked, 65)
<1>4. body \in Seq(Byte)
  BY <1>1, <1>3 DEF ClientQuery
<1>5. ClientQuery(t) = [method |-> IF bare THEN "GET" ELSE "POST", decodable |-> TRUE, body |-> body]
  BY DEF ClientQuery
<1> HIDE DEF body
<1>6. ClientQuery(t) \in AnyRequest
  BY <1>4, <1>5 DEF AnyRequest
<1> QED
  BY <1>1, <1>2, <1>6

\* What the handler is at work on does not change by itself.
LEMMA ParsingKept ==
    ASSUME NEW n, NEW q, Parsing(n, q), UNCHANGED dohVars PROVE Parsing(n, q)'
  BY DEF Parsing, Parsed, Responds, dohVars

\* Every step of the fixture is a step of the handler or leaves it alone.
LEMMA FixtureIsDoh == ASSUME Exchange, [FixtureNext]_vars PROVE [DohStep]_dohVars
<1>1. ASSUME NEW t \in Types, Ask(t) PROVE DohStep
  <2>1. ClientQuery(t) \in AnyRequest
    BY ClientQueryIs
  <2> QED
    BY <1>1, <2>1 DEF Ask, DohStep
<1>2. CASE OtherPeer
  BY <1>2, RequestsAssumption DEF OtherPeer, DohStep, AnyRequest
<1>3. CASE Serve \/ OtherAnswered \/ Answered
  BY <1>3 DEF Serve, OtherAnswered, Answered, DohStep
<1>4. CASE ResolutionFails \/ ResolvedOnly \/ Connect
  BY <1>4 DEF ResolutionFails, ResolvedOnly, Connect
<1>5. CASE UNCHANGED vars
  BY <1>5 DEF vars
<1>6. CASE Over
  BY <1>6 DEF Over, vars
<1> QED
  BY <1>1, <1>2, <1>3, <1>4, <1>5, <1>6 DEF FixtureNext

\* What the client makes of the answer to its HTTPS query: nothing for a name without a
\* record, the alias to follow, or the host's config if it has one.
LEMMA ToldHttps ==
    ASSUME Exchange, peer = "HTTPS", stage = "done", host # Issue1561
    PROVE  \/ host \in CtNames /\ response.status # 200
           \/ host = "alias.svcb.test" /\ IsAlias /\ response.rdata.target = Bytes["green.secret.test"]
           \/ /\ host \notin CtNames /\ response.status = 200 /\ response.rdata.present /\ ~IsAlias
              /\ EchParam # {} => (CHOOSE p \in EchParam : TRUE).value[1] = Published(host)
              /\ EchParam = {} => Published(host) = 0
<1>1. Responds(AskedName("HTTPS"), 65) /\ stripAttrleafPort(AskedName("HTTPS")) = asked
  <2>1. Parsing(AskedName("HTTPS"), QType("HTTPS"))
    BY DEF Exchange, Types
  <2>2. QType("HTTPS") = 65 /\ "HTTPS" \in Types
    BY DEF QType, Types
  <2> QED
    BY <2>1, <2>2, AskedNameIs DEF Parsing
<1>2. IF Lookup(asked) = << >> THEN response = Refused
      ELSE response.status = 200 /\ response.rdata = Lookup(asked)[1]
  BY <1>1, RdataLookup DEF Responds
<1>3. EchParam = Ech5(response.rdata.params)
  BY DEF EchParam, Ech5
<1>4. DOMAIN Bytes = SvcbNames \cup EchNames
  BY BytesAssumption
<1>5. CASE host \in CtNames
  <2>1. host \notin DOMAIN Bytes /\ host # "alias.svcb.test"
    BY <1>4, <1>5 DEF CtNames, SvcbNames, EchNames
  <2>2. asked = Unknown
    BY <2>1 DEF Exchange, Text
  <2>3. response.status # 200
    BY <1>2, <2>2, ToldNothing DEF Refused
  <2> QED
    BY <1>5, <2>3
<1>6. ASSUME NEW h \in EchNames, asked = Bytes[h], Published(h) = Published(host), host \notin CtNames
      PROVE  /\ host \notin CtNames /\ response.status = 200 /\ response.rdata.present /\ ~IsAlias
             /\ EchParam # {} => (CHOOSE p \in EchParam : TRUE).value[1] = Published(host)
             /\ EchParam = {} => Published(host) = 0
  <2> DEFINE list == <<Published(h)>>
             r == httpsRecord(list)
             e == [key |-> 5, value |-> list]
  <2>1. list \in Seq(Nat) /\ list[1] = Published(host) /\ e.value = list
    BY <1>6 DEF Published
  <2>2. Lookup(asked) = <<r>>
    BY <1>6, ToldEch
  <2> HIDE DEF list
  <2>3. r.present /\ r.priority = 1 /\ Ech5(r.params) = {e}
    BY <2>1, HttpsRecordIs
  <2> HIDE DEF r, e
  <2>4. response.status = 200 /\ response.rdata = r
    BY <1>2, <2>2
  <2>5. EchParam = {e}
    BY <1>3, <2>3, <2>4
  <2>6. (CHOOSE p \in EchParam : TRUE) = e
    BY <2>5
  <2>7. ~IsAlias
    BY <2>3, <2>4 DEF IsAlias
  <2> QED
    BY <1>6, <2>1, <2>3, <2>4, <2>5, <2>6, <2>7
<1>7. CASE host \in EchNames
  <2>1. asked = Bytes[host] /\ host \notin CtNames
    BY <1>4, <1>7 DEF Exchange, Text, EchNames, CtNames
  <2> QED
    BY <1>6, <1>7, <2>1
<1>8. CASE host = "alias.svcb.test" /\ asked = Bytes["green.secret.test"]
  <2>1. "green.secret.test" \in EchNames /\ Published("green.secret.test") = Published(host) /\ host \notin CtNames
    BY <1>8 DEF EchNames, Published, CtNames
  <2> QED
    BY <1>6, <1>8, <2>1
<1>9. CASE host = "alias.svcb.test" /\ asked = Text(host)
  <2>1. asked = Bytes["alias.svcb.test"]
    BY <1>4, <1>9 DEF Text, SvcbNames
  <2> DEFINE r == AliasMode(Bytes["green.secret.test"])
  <2>2. r.present /\ r.priority = 0 /\ r.target = Bytes["green.secret.test"]
    BY DEF AliasMode, Answer
  <2>3. Lookup(asked) = <<r>>
    BY <2>1, ToldAlias
  <2> HIDE DEF r
  <2>4. response.status = 200 /\ response.rdata = r
    BY <1>2, <2>3
  <2>5. IsAlias
    BY <2>2, <2>4 DEF IsAlias
  <2> QED
    BY <1>9, <2>2, <2>4, <2>5
<1>10. CASE host \in SvcbNames /\ host # "alias.svcb.test"
  <2>1. asked = Bytes[host] /\ host \notin CtNames /\ Published(host) = 0
    BY <1>4, <1>10 DEF Exchange, Text, SvcbNames, CtNames, Published, Issue1561
  <2>2. PICK r : Lookup(asked) = <<r>> /\ Plain(r)
    BY <1>10, <2>1, ToldSvcb
  <2>3. response.status = 200 /\ response.rdata = r
    BY <1>2, <2>2
  <2>4. response.rdata.present /\ ~IsAlias /\ EchParam = {}
    BY <1>3, <2>2, <2>3 DEF Plain, IsAlias
  <2> QED
    BY <2>1, <2>3, <2>4
<1> QED
  BY <1>5, <1>7, <1>8, <1>9, <1>10 DEF Exchange, Hosts

\* The answer to its A query is always an address.
LEMMA ToldAddress ==
    ASSUME Exchange, peer = "A", stage = "done"
    PROVE  response.status = 200 /\ response.rdata.present
<1>1. Parsing(AskedName("A"), QType("A")) /\ QType("A") = 1
  BY DEF Exchange, Types, QType
<1>2. Responds(AskedName("A"), 1)
  BY <1>1 DEF Parsing
<1> DEFINE r == Answer(0, << >>, << >>, Loopback)
<1>3. r.present
  BY DEF Answer
<1> HIDE DEF r
<1>4. Rdata(1, AskedName("A")) = <<r>>
  BY DEF Rdata, r
<1> QED
  BY <1>2, <1>3, <1>4 DEF Responds

\* The exchange goes on as it began, whatever other peers send.
LEMMA ExchangeStep == ASSUME Inv, Exchange, Settled, [FixtureNext]_vars PROVE Exchange'
<1>0. TypeOK
  BY DEF Inv
<1>20. ASSUME UNCHANGED <<dohVars, host, level, bare, peer, lookup, asked>> PROVE Exchange'
  <2>1. CASE peer \in Types
    <3>1. Parsing(AskedName(peer), QType(peer))
      BY <2>1 DEF Exchange
    <3>2. PICK n, q : n = AskedName(peer) /\ q = QType(peer)
      OBVIOUS
    <3>3. Parsing(n, q)
      BY <3>1, <3>2
    <3>4. Parsing(n, q)'
      BY <1>20, <3>3, ParsingKept
    <3>5. AskedName(peer)' = n /\ QType(peer)' = q
      BY <1>20, <3>2 DEF AskedName, QType, Text
    <3>7. Parsing(AskedName(peer), QType(peer))'
      BY <3>4, <3>5
    <3> QED
      BY <1>20, <3>7 DEF Exchange
  <2>2. CASE peer \notin Types
    BY <1>20, <2>2 DEF Exchange
  <2> QED
    BY <2>1, <2>2
<1>1. ASSUME NEW t \in Types, Ask(t) PROVE Exchange'
  <2>1. /\ ClientQuery(t).method \in {"GET", "POST"} /\ ClientQuery(t).decodable
        /\ ClientQuery(t).body = QueryFor(AskedName(t), QType(t))
    BY ClientQueryIs
  <2>2. /\ AskedName(t) \in Seq(Byte) /\ Labelled(AskedName(t)) /\ Len(AskedName(t)) + 18 <= MaxBody
        /\ QType(t) \in {1, 65}
    BY AskedNameIs
  <2>3. PICK n, q, r : n = AskedName(t) /\ q = QType(t) /\ r = ClientQuery(t)
    OBVIOUS
  <2>4. Receive(r)
    BY <1>1, <2>3 DEF Ask
  <2>5. Parsing(n, q)'
    BY <2>1, <2>2, <2>3, <2>4, ParsingStart
  <2>6. /\ peer' = t /\ lookup' = [lookup EXCEPT ![t] = "asked"]
        /\ UNCHANGED <<host, level, bare, asked>>
    BY <1>1 DEF Ask
  <2>7. AskedName(t)' = n /\ QType(t)' = q
    BY <2>3, <2>6 DEF AskedName, QType, Text
  <2>8. Parsing(AskedName(peer), QType(peer))'
    BY <2>5, <2>6, <2>7
  <2>9. lookup' \in [Types -> States] /\ lookup'[t] = "asked"
    BY <2>6 DEF Exchange, States
  <2> QED
    BY <2>6, <2>8, <2>9 DEF Exchange
<1>2. CASE OtherPeer
  BY <1>2 DEF OtherPeer, Exchange, Types
<1>3. CASE Serve
  <2>1. UNCHANGED <<host, level, bare, peer, lookup, asked>> /\ Handle
    BY <1>3 DEF Serve, clientVars
  <2>2. CASE peer \in Types
    <3>1. Parsing(AskedName(peer), QType(peer))
      BY <2>2 DEF Exchange
    <3>2. AskedName(peer) \in Seq(Byte) /\ Labelled(AskedName(peer)) /\ QType(peer) \in {1, 65}
      BY <2>2, AskedNameIs
    <3>3. PICK n, q : n = AskedName(peer) /\ q = QType(peer)
      OBVIOUS
    <3>4. Parsing(n, q)'
      BY <1>0, <2>1, <3>1, <3>2, <3>3, ParsingStep
    <3>5. AskedName(peer)' = n /\ QType(peer)' = q
      BY <2>1, <3>3 DEF AskedName, QType, Text
    <3>6. Parsing(AskedName(peer), QType(peer))'
      BY <3>4, <3>5
    <3> QED
      BY <2>1, <3>6 DEF Exchange
  <2>3. CASE peer \notin Types
    BY <2>1, <2>3 DEF Exchange
  <2> QED
    BY <2>2, <2>3
<1>4. CASE OtherAnswered
  BY <1>4 DEF OtherAnswered, Exchange, Types
<1>5. CASE ResolutionFails \/ ResolvedOnly \/ Connect
  BY <1>5, <1>20 DEF ResolutionFails, ResolvedOnly, Connect
<1>6. CASE UNCHANGED vars
  BY <1>6, <1>20 DEF vars, clientVars
<1>7. CASE Over
  BY <1>7, <1>20 DEF Over, vars, clientVars
<1>8. CASE Answered
  <2>1. /\ peer \in Types /\ stage = "done" /\ peer' = "none" /\ UNCHANGED <<host, level, bare>>
    BY <1>8 DEF Answered, Written
  <2>2. lookup' \in [Types -> States]
    <3>1. \E s \in States : lookup' = [lookup EXCEPT ![peer] = s]
      BY <1>8 DEF Answered, States
    <3> QED
      BY <2>1, <3>1 DEF Exchange
  <2>3. CASE asked' = asked
    BY <2>1, <2>2, <2>3 DEF Exchange, Types
  <2>4. CASE asked' # asked
    <3>1. peer = "HTTPS" /\ IsAlias /\ asked' = response.rdata.target
      BY <1>8, <2>4 DEF Answered
    <3>2. host # Issue1561
      BY <2>1 DEF Settled, Exchange
    <3>3. host = "alias.svcb.test" /\ response.rdata.target = Bytes["green.secret.test"]
      BY <2>1, <3>1, <3>2, ToldHttps DEF IsAlias
    <3>4. peer' \notin Types
      BY <2>1 DEF Types
    <3> QED
      BY <2>1, <2>2, <3>1, <3>3, <3>4 DEF Exchange
  <2> QED
    BY <2>3, <2>4
<1> QED
  BY <1>1, <1>2, <1>3, <1>4, <1>5, <1>6, <1>7, <1>8 DEF FixtureNext

-----------------------------------------------------------------------------
(* The origin's handshakes *)

\* The public name of each config the client may hold.
LEMMA PublicNames ==
    /\ PublicName(1) = "green.public.test" /\ PublicName(2) = "retry.public.test"
    /\ PublicName(3) = "retry.public.test" /\ PublicName(4) = "disabled.public.test"
    /\ PublicName(6) = "issue1561.public.test"
<1> USE DEF newECHKey, greenKey, retryStaleKey, retryKey, disabledStaleKey, disabledKey,
            issue1561StaleKey, issue1561Key
<1>1. ASSUME NEW k \in Keys PROVE /\ k.id = 1 => k.publicName = "green.public.test"
                                  /\ k.id \in {2, 3} => k.publicName = "retry.public.test"
                                  /\ k.id = 4 => k.publicName = "disabled.public.test"
                                  /\ k.id = 6 => k.publicName = "issue1561.public.test"
  BY DEF Keys
<1>2. /\ greenKey \in Keys /\ retryStaleKey \in Keys /\ retryKey \in Keys /\ disabledStaleKey \in Keys
      /\ issue1561StaleKey \in Keys
  BY DEF Keys
<1>3. greenKey.id = 1 /\ retryStaleKey.id = 2 /\ retryKey.id = 3 /\ disabledStaleKey.id = 4 /\ issue1561StaleKey.id = 6
  OBVIOUS
<1>4. \A id \in {1, 2, 3, 4, 6} : \E k \in Keys : k.id = id
  BY <1>2, <1>3
<1>5. \A id \in {1, 2, 3, 4, 6} : (CHOOSE k \in Keys : k.id = id) \in Keys /\ (CHOOSE k \in Keys : k.id = id).id = id
  BY <1>4
<1> QED
  BY <1>1, <1>5 DEF PublicName

\* The hosts a client connects to by name.
Targets == EchNames \cup CtNames

\* A hello without ECH is answered for the name in the clear.
LEMMA PlainHello ==
    ASSUME NEW h \in Targets, NEW x, x = Handshake([serverName |-> h, inner |-> h, ech |-> 0])
    PROVE  ~x.accepted /\ x.serverName = h /\ h \in x.certificate.dnsNames
<1>1. GetEncryptedClientHelloKeys(h) = {}
  BY DEF GetEncryptedClientHelloKeys, Targets, EchNames, CtNames
<1>2. GetCertificate(h).dnsNames = targetCertificate.dnsNames /\ h \in targetCertificate.dnsNames
  BY DEF GetCertificate, targetCertificate, newLeaf, Targets, EchNames, CtNames
<1> QED
  BY <1>1, <1>2 DEF Handshake

\* A hello under a current config is taken for the name inside.
LEMMA AcceptedHello ==
    ASSUME NEW h \in Targets, NEW id \in {1, 3}, NEW x,
           x = Handshake([serverName |-> PublicName(id), inner |-> h, ech |-> id])
    PROVE  x.accepted /\ x.serverName = h /\ h \in x.certificate.dnsNames
           /\ Report(x) = [echAccepted |-> TRUE, serverName |-> h]
<1>1. \E k \in GetEncryptedClientHelloKeys(PublicName(id)) : k.id = id
  BY PublicNames DEF GetEncryptedClientHelloKeys, greenKey, retryKey, newECHKey
<1>2. GetCertificate(h).dnsNames = targetCertificate.dnsNames /\ h \in targetCertificate.dnsNames
  BY DEF GetCertificate, targetCertificate, newLeaf, Targets, EchNames, CtNames
<1>3. x.serverName = h /\ x.certificate = GetCertificate(h)
  BY <1>1 DEF Handshake
<1>4. x.accepted = (\E k \in GetEncryptedClientHelloKeys(PublicName(id)) : k.id = id)
  BY DEF Handshake
<1>5. x.accepted = TRUE
  BY <1>1, <1>4
<1>6. Report(x) = [echAccepted |-> TRUE, serverName |-> h]
  BY <1>3, <1>5 DEF Report
<1> QED
  BY <1>2, <1>3, <1>5, <1>6

\* A hello under a stale config is rejected under its public name, and only retry's
\* key has a config to send back.
LEMMA RejectedHello ==
    ASSUME NEW h, NEW id \in {2, 4, 6}, NEW x,
           x = Handshake([serverName |-> PublicName(id), inner |-> h, ech |-> id])
    PROVE  /\ ~x.accepted /\ PublicName(id) \in x.certificate.dnsNames
           /\ x.retry = IF id = 2 THEN {3} ELSE {}
<1> DEFINE keys == GetEncryptedClientHelloKeys(PublicName(id))
           key == IF id = 2 THEN retryKey ELSE IF id = 4 THEN disabledKey ELSE issue1561Key
<1>1. keys = {key}
  BY PublicNames DEF GetEncryptedClientHelloKeys
<1>2. key.id # id /\ key.id = IF id = 2 THEN 3 ELSE IF id = 4 THEN 5 ELSE 7
  BY DEF retryKey, disabledKey, issue1561Key, newECHKey
<1>3. key.retryable <=> id = 2
  BY DEF retryKey, disabledKey, issue1561Key, newECHKey
<1> HIDE DEF keys, key
<1>4. ~\E k \in keys : k.id = id
  BY <1>1, <1>2
<1>5. {k.id : k \in {j \in keys : j.retryable}} = IF id = 2 THEN {3} ELSE {}
  BY <1>1, <1>2, <1>3
<1>6. ~x.accepted /\ x.certificate = GetCertificate(PublicName(id))
  BY <1>4 DEF Handshake, keys
<1>7. x.retry = {k.id : k \in {j \in keys : j.retryable}}
  BY <1>4 DEF Handshake, keys
<1>8. PublicName(id) \in GetCertificate(PublicName(id)).dnsNames
  BY PublicNames DEF GetCertificate, targetCertificate, issue1561Certificate, newLeaf
<1> QED
  BY <1>5, <1>6, <1>7, <1>8

-----------------------------------------------------------------------------
(* The call *)

\* What the client knows of its host: every address query is answered, an HTTPS query
\* fails for the hosts without a record and for no other, and the config of a client
\* that has not yet connected is the one published for its host.
Told ==
    /\ Settled
    /\ lookup["A"] # "failed"
    /\ lookup["HTTPS"] = "failed" => host \in CtNames
    /\ lookup["HTTPS"] = "answered" => host \notin CtNames
    /\ hellos = << >> => config = IF lookup["HTTPS"] = "answered" THEN Published(host) ELSE 0

\* A call that goes on after a hello is retry's with the config it was sent, or
\* disabled's without one, and its one hello did not name the host.
Retrying ==
    /\ level = "ech" /\ lookup["HTTPS"] = "answered"
    /\ (host = "retry.secret.test" /\ config = 3) \/ (host = "disabled.secret.test" /\ config = 0)
    /\ \E h : hellos = <<h>> /\ h.ech # 0 /\ h.serverName # host

\* The client's handshakes so far.
Called ==
    /\ hellos # << >> => Resolved /\ host \notin SvcbNames
    /\ host = Issue1561 => level = "ech"
    /\ outcome = "" /\ hellos # << >> => Retrying
    /\ outcome \in {"ech", "plain"} => hellos # << >>
    /\ OutcomePerName
    /\ SecretNameHidden

\* What every state of the fixture satisfies.
FixtureInv == Inv /\ Echo /\ Exchange /\ Told /\ Called

\* A client without hellos has nothing to answer for but a bad certificate.
LEMMA CalledEmpty ==
    ASSUME hellos = << >>, outcome \notin {"ech", "plain", "badCertificate"}, host = Issue1561 => level = "ech"
    PROVE  Called
  BY DEF Called, OutcomePerName, SecretNameHidden

\* The same of the state after a step.
LEMMA CalledEmptyNext ==
    ASSUME hellos' = << >>, outcome' \notin {"ech", "plain", "badCertificate"},
           host' = Issue1561 => level' = "ech"
    PROVE  Called'
  BY DEF Called, OutcomePerName, SecretNameHidden

\* The fixture starts so.
LEMMA FixtureInitInv == ASSUME FixtureInit PROVE FixtureInv
<1>1. Inv
  BY InitInv DEF FixtureInit
<1>2. Echo
  BY EchoTrivial DEF FixtureInit, Init
<1>3. "A" \in Types /\ "HTTPS" \in Types
  BY DEF Types
<1>4. Exchange /\ Told
  <2>1. CASE host = Issue1561
    <3>1. lookup = [t \in Types |-> "answered"] /\ config = 6
      BY <2>1 DEF FixtureInit, issue1561StaleKey, newECHKey
    <3>2. Published(host) = 6 /\ host \notin CtNames
      BY <2>1 DEF Published, Issue1561, CtNames
    <3> QED
      BY <1>3, <3>1, <3>2 DEF FixtureInit, Exchange, Told, Settled, States, Types
  <2>2. CASE host # Issue1561
    BY <1>3, <2>2 DEF FixtureInit, Exchange, Told, Settled, States, Types
  <2> QED
    BY <2>1, <2>2
<1>5. Called
  <2>1. hellos = << >> /\ outcome = "" /\ (host = Issue1561 => level = "ech")
    BY DEF FixtureInit
  <2> QED
    BY <2>1, CalledEmpty
<1> QED
  BY <1>1, <1>2, <1>4, <1>5 DEF FixtureInv

\* A call is not touched by a step that leaves the client's part of it alone.
LEMMA CalledKept ==
    ASSUME Called, UNCHANGED <<host, level, lookup, config, hellos, outcome>> PROVE Called'
  BY DEF Called, Resolved, Retrying, OutcomePerName, SecretNameHidden

\* Nor does what it knows change then.
LEMMA ToldKept ==
    ASSUME Told, UNCHANGED <<host, lookup, config, hellos>> PROVE Told'
  BY DEF Told, Settled

\* While a lookup is still to come the client has sent no hello.
LEMMA BeforeHello ==
    ASSUME Exchange, Called, NEW t \in Types, lookup[t] \in {"none", "asked"}
    PROVE  hellos = << >> /\ outcome \notin {"ech", "plain"}
  BY DEF Exchange, Called, Resolved, Types

\* Asking.
LEMMA AskTold ==
    ASSUME Exchange, Told, Called, NEW t \in Types, Ask(t) PROVE Told' /\ Called'
<1>1. /\ outcome = "" /\ lookup[t] = "none" /\ lookup' = [lookup EXCEPT ![t] = "asked"]
      /\ UNCHANGED <<host, level, bare, asked, config, hellos, outcome>>
  BY DEF Ask
<1>2. hellos = << >>
  BY <1>1, BeforeHello
<1>3. host # Issue1561
  BY <1>1 DEF Told, Settled
<1>4. Told'
  BY <1>1, <1>2, <1>3 DEF Told, Settled, Exchange, Types
<1>5. Called'
  BY <1>1, <1>2, <1>3, CalledEmptyNext
<1> QED
  BY <1>4, <1>5

\* Being answered.
LEMMA AnsweredTold ==
    ASSUME Exchange, Told, Called, Answered PROVE Told' /\ Called'
<1>1. /\ peer \in Types /\ stage = "done" /\ UNCHANGED <<host, level, hellos, outcome>>
  BY DEF Answered, Written
<1>2. lookup[peer] = "asked"
  BY <1>1 DEF Exchange
<1>3. hellos = << >> /\ outcome \notin {"ech", "plain"}
  BY <1>1, <1>2, BeforeHello
<1>4. host # Issue1561
  BY <1>1, <1>2 DEF Told, Settled
<1>5. Called'
  <2>1. outcome # "badCertificate"
    BY DEF Called, OutcomePerName
  <2> QED
    BY <1>1, <1>3, <1>4, <2>1, CalledEmptyNext
<1>6. CASE lookup' = [lookup EXCEPT ![peer] = "lost"] /\ UNCHANGED config
  BY <1>1, <1>2, <1>3, <1>4, <1>5, <1>6 DEF Told, Settled, Exchange, Types
<1>7. CASE peer = "HTTPS" /\ IsAlias /\ lookup' = [lookup EXCEPT ![peer] = "none"] /\ UNCHANGED config
  BY <1>1, <1>2, <1>3, <1>4, <1>5, <1>7 DEF Told, Settled, Exchange, Types
<1> DEFINE ok == response.status = 200 /\ response.rdata.present
<1>8. CASE /\ ~(peer = "HTTPS" /\ IsAlias)
           /\ lookup' = [lookup EXCEPT ![peer] = IF ok THEN "answered" ELSE "failed"]
           /\ config' = IF peer = "HTTPS" /\ ok /\ EchParam # {}
                        THEN (CHOOSE p \in EchParam : TRUE).value[1] ELSE config
  <2>1. CASE peer = "A"
    <3>1. ok
      BY <1>1, <2>1, ToldAddress
    <3>2. lookup' = [lookup EXCEPT !["A"] = "answered"] /\ config' = config
      BY <1>8, <2>1, <3>1
    <3> QED
      BY <1>1, <1>3, <1>4, <1>5, <3>2 DEF Told, Settled, Exchange, Types
  <2>2. CASE peer = "HTTPS" /\ host \in CtNames /\ response.status # 200
    <3>1. lookup' = [lookup EXCEPT !["HTTPS"] = "failed"] /\ config' = config
      BY <1>8, <2>2
    <3> QED
      BY <1>1, <1>2, <1>3, <1>4, <1>5, <2>2, <3>1 DEF Told, Settled, Exchange, Types
  <2>3. CASE /\ peer = "HTTPS" /\ host \notin CtNames /\ response.status = 200 /\ response.rdata.present
             /\ EchParam # {} => (CHOOSE p \in EchParam : TRUE).value[1] = Published(host)
             /\ EchParam = {} => Published(host) = 0
    <3>1. config = 0
      BY <1>2, <1>3, <2>3 DEF Told
    <3>2. lookup' = [lookup EXCEPT !["HTTPS"] = "answered"] /\ config' = Published(host)
      BY <1>8, <2>3, <3>1
    <3>3. Published(host)' = Published(host)
      BY <1>1 DEF Published
    <3> QED
      BY <1>1, <1>3, <1>4, <1>5, <2>3, <3>2, <3>3 DEF Told, Settled, Exchange, Types
  <2> QED
    BY <1>1, <1>4, <1>8, <2>1, <2>2, <2>3, ToldHttps DEF Types
<1> QED
  BY <1>5, <1>6, <1>7, <1>8 DEF Answered

\* A hello under no config.
LEMMA ConnectPlain ==
    ASSUME Exchange, Told, Called, Connect, level # "ech" \/ config = 0
    PROVE  /\ hellos' = Append(hellos, [serverName |-> host, inner |-> host, ech |-> 0])
           /\ outcome' = IF level = "noTls13" THEN "noTls13" ELSE "plain"
<1> DEFINE hello == [serverName |-> host, inner |-> host, ech |-> 0]
<1>1. ClientHello = hello
  BY DEF ClientHello
<1>2. host \in Targets
  <2>1. host \notin SvcbNames /\ Resolved /\ outcome = ""
    BY DEF Connect
  <2>2. host # Issue1561
    <3>1. SUFFICES ASSUME host = Issue1561 PROVE FALSE
      OBVIOUS
    <3>2. hellos = << >>
      BY <2>1, <3>1 DEF Called, Retrying, Issue1561
    <3>3. config = 6
      BY <3>1, <3>2 DEF Told, Settled, Types, Published, Issue1561
    <3>4. level = "ech"
      BY <3>1 DEF Called
    <3> QED
      BY <3>3, <3>4
  <2> QED
    BY <2>1, <2>2 DEF Exchange, Hosts, Targets
<1>3. PICK x : x = Handshake(hello)
  OBVIOUS
<1>4. ~x.accepted /\ x.serverName = host /\ host \in x.certificate.dnsNames
  BY <1>2, <1>3, PlainHello
<1>5. hello.ech = 0
  OBVIOUS
<1>6. Report(x) # [echAccepted |-> TRUE, serverName |-> host]
  BY <1>4 DEF Report
<1> HIDE DEF hello
<1>7. hellos' = Append(hellos, hello)
  BY <1>1 DEF Connect
<1>8. outcome' = IF level = "noTls13" THEN "noTls13" ELSE "plain"
  BY <1>1, <1>3, <1>4, <1>5, <1>6 DEF Connect
<1> QED
  BY <1>7, <1>8 DEF hello

\* A hello under a current config.
LEMMA ConnectAccepted ==
    ASSUME Connect, host \in EchNames, level = "ech", config \in {1, 3}
    PROVE  /\ hellos' = Append(hellos, [serverName |-> PublicName(config), inner |-> host, ech |-> config])
           /\ outcome' = "ech"
<1> DEFINE hello == [serverName |-> PublicName(config), inner |-> host, ech |-> config]
<1>1. ClientHello = hello
  BY DEF ClientHello
<1>2. host \in Targets
  BY DEF Targets
<1>3. PICK x : x = Handshake(hello)
  OBVIOUS
<1>4. x.accepted /\ host \in x.certificate.dnsNames /\ Report(x) = [echAccepted |-> TRUE, serverName |-> host]
  BY <1>2, <1>3, AcceptedHello
<1> HIDE DEF hello
<1>5. hellos' = Append(hellos, hello)
  BY <1>1 DEF Connect
<1>6. outcome' = "ech"
  BY <1>1, <1>3, <1>4 DEF Connect
<1> QED
  BY <1>5, <1>6 DEF hello

\* A first hello under a stale config.
LEMMA ConnectRejected ==
    ASSUME Connect, hellos = << >>, level = "ech", config \in {2, 4, 6}
    PROVE  /\ hellos' = Append(hellos, [serverName |-> PublicName(config), inner |-> host, ech |-> config])
           /\ outcome' = IF host = Issue1561 THEN "rejected" ELSE ""
           /\ host # Issue1561 => config' = IF config = 2 THEN 3 ELSE 0
<1> DEFINE hello == [serverName |-> PublicName(config), inner |-> host, ech |-> config]
<1>1. ClientHello = hello
  BY DEF ClientHello
<1>3. PICK x : x = Handshake(hello)
  OBVIOUS
<1>4. /\ ~x.accepted /\ PublicName(config) \in x.certificate.dnsNames
      /\ x.retry = IF config = 2 THEN {3} ELSE {}
  BY <1>3, RejectedHello
<1>5. hello.ech # 0 /\ hello.serverName = PublicName(config)
  OBVIOUS
<1> HIDE DEF hello
<1>6. hellos' = Append(hellos, hello)
  BY <1>1 DEF Connect
<1>7. outcome' = IF host = Issue1561 THEN "rejected" ELSE ""
  BY <1>1, <1>3, <1>4, <1>5 DEF Connect
<1> DEFINE retry == Handshake(ClientHello).retry
<1>8. ASSUME host # Issue1561
      PROVE  config' = IF retry # {} THEN CHOOSE id \in retry : TRUE ELSE 0
  BY <1>1, <1>3, <1>4, <1>5, <1>8, Zenon DEF Connect
<1>9. retry = IF config = 2 THEN {3} ELSE {}
  BY <1>1, <1>3, <1>4
<1> HIDE DEF retry
<1>10. host # Issue1561 => config' = IF config = 2 THEN 3 ELSE 0
  BY <1>8, <1>9
<1> QED
  BY <1>6, <1>7, <1>10 DEF hello

\* Connecting.
LEMMA ConnectCalled ==
    ASSUME Exchange, Told, Called, Connect PROVE Told' /\ Called'
<1>1. Resolved /\ host \notin SvcbNames /\ UNCHANGED <<host, level, lookup>>
  BY DEF Connect
<1>2. hellos = << >> \/ Retrying
  BY DEF Called, Connect
<1>3. PICK h : hellos' = Append(hellos, h) /\ h = ClientHello
  BY DEF Connect
<1>4. CASE hellos = << >>
  <2>1. hellos' = <<h>>
    BY <1>3, <1>4
  <2>2. DOMAIN hellos' = {1} /\ Len(hellos') = 1 /\ hellos'[1] = h /\ hellos' # << >>
    BY <2>1
  <2>3. Told'
    BY <1>1, <2>2 DEF Told, Settled
  <2>4. Resolved'
    BY <1>1 DEF Resolved
  <2>5. CASE level # "ech" \/ config = 0
    <3>1. outcome' \in {"noTls13", "plain"}
      BY <2>5, ConnectPlain
    <3>2. ~(level = "ech" /\ lookup["HTTPS"] = "answered")
      <4>1. SUFFICES ASSUME level = "ech", lookup["HTTPS"] = "answered" PROVE FALSE
        OBVIOUS
      <4>2. Published(host) = 0 /\ host \notin CtNames
        BY <1>4, <2>5, <4>1 DEF Told
      <4> QED
        BY <1>1, <4>2 DEF Exchange, Hosts, EchNames, Issue1561, Published
    <3>3. OutcomePerName'
      <4>1. ~(level' = "ech" /\ lookup'["HTTPS"] = "answered") /\ outcome' # "ech" /\ Len(hellos') # 2
        BY <1>1, <2>2, <3>1, <3>2
      <4> QED
        BY <3>1, <4>1 DEF OutcomePerName
    <3>4. SecretNameHidden'
      BY <1>1, <3>2 DEF SecretNameHidden
    <3> QED
      BY <1>1, <2>2, <2>3, <2>4, <3>1, <3>3, <3>4 DEF Called
  <2>6. CASE level = "ech" /\ config # 0
    <3>1. lookup["HTTPS"] = "answered" /\ config = Published(host)
      BY <1>4, <2>6 DEF Told
    <3>2. h = [serverName |-> PublicName(config), inner |-> host, ech |-> config]
      BY <1>3, <2>6 DEF ClientHello
    <3>3. h.serverName = PublicName(config) /\ h.ech # 0
      BY <2>6, <3>2
    <3>4. \/ host = "green.secret.test" /\ config = 1
          \/ host = "retry.secret.test" /\ config = 2
          \/ host = "disabled.secret.test" /\ config = 4
          \/ host = Issue1561 /\ config = 6
      BY <1>1, <2>6, <3>1 DEF Published, SvcbNames
    <3>5. h.serverName # host
      BY <3>3, <3>4, PublicNames DEF Issue1561
    <3>6. SecretNameHidden'
      BY <1>1, <2>2, <3>5 DEF SecretNameHidden
    <3>7. CASE host = "green.secret.test"
      <4>1. outcome' = "ech"
        BY <2>6, <3>4, <3>7, ConnectAccepted DEF EchNames, Issue1561
      <4>2. OutcomePerName'
        <5>1. /\ level' = "ech" /\ lookup'["HTTPS"] = "answered" /\ host' = "green.secret.test"
              /\ Len(hellos') # 2
          BY <1>1, <2>2, <2>6, <3>1, <3>7
        <5> QED
          BY <4>1, <5>1 DEF OutcomePerName
      <4> QED
        BY <1>1, <2>2, <2>3, <2>4, <2>6, <3>6, <4>1, <4>2 DEF Called
    <3>8. CASE host # "green.secret.test"
      <4>1. /\ outcome' = IF host = Issue1561 THEN "rejected" ELSE ""
            /\ host # Issue1561 => config' = IF config = 2 THEN 3 ELSE 0
        BY <1>4, <2>6, <3>4, <3>8, ConnectRejected
      <4>2. OutcomePerName'
        BY <4>1 DEF OutcomePerName
      <4>3. host # Issue1561 => Retrying'
        <5>0. host # Issue1561 => config' = IF config = 2 THEN 3 ELSE 0
          BY <4>1
        <5>1. host # Issue1561 => \/ host = "retry.secret.test" /\ config' = 3
                                  \/ host = "disabled.secret.test" /\ config' = 0
          BY <3>4, <3>8, <5>0
        <5>2. \E g : hellos' = <<g>> /\ g.ech # 0 /\ g.serverName # host'
          BY <1>1, <2>1, <3>3, <3>5
        <5> QED
          BY <1>1, <2>6, <3>1, <5>1, <5>2 DEF Retrying
      <4> QED
        BY <1>1, <2>2, <2>3, <2>4, <2>6, <3>6, <4>1, <4>2, <4>3 DEF Called
    <3> QED
      BY <3>7, <3>8
  <2> QED
    BY <2>5, <2>6
<1>5. CASE Retrying
  <2>1. PICK g : hellos = <<g>> /\ g.ech # 0 /\ g.serverName # host
    BY <1>5 DEF Retrying
  <2>2. hellos' = <<g, h>>
    <3>1. Append(<<g>>, h) = <<g, h>>
      <4> DEFINE S == {g, h}
                 l == <<g>>
                 r == <<g, h>>
      <4>1. l \in Seq(S) /\ r \in Seq(S) /\ h \in S
        OBVIOUS
      <4>2. Len(r) = Len(l) + 1 /\ r[Len(l) + 1] = h /\ \A i \in 1..Len(l) : r[i] = l[i]
        OBVIOUS
      <4> HIDE DEF S, l, r
      <4>3. Append(l, h) = r
        BY <4>1, <4>2, AppendIs
      <4> QED
        BY <4>3 DEF l, r
    <3> QED
      BY <1>3, <2>1, <3>1
  <2>3. DOMAIN hellos' = {1, 2} /\ Len(hellos') = 2 /\ hellos'[1] = g /\ hellos'[2] = h /\ hellos' # << >>
    BY <2>2
  <2>4. Told' /\ Resolved'
    BY <1>1, <2>3 DEF Told, Settled, Resolved
  <2>5. level = "ech" /\ lookup["HTTPS"] = "answered"
    BY <1>5 DEF Retrying
  <2>6. CASE host = "retry.secret.test" /\ config = 3
    <3>1. outcome' = "ech"
      BY <2>5, <2>6, ConnectAccepted DEF EchNames
    <3>2. h.serverName # host
      <4>1. h = [serverName |-> PublicName(3), inner |-> host, ech |-> 3]
        BY <1>3, <2>5, <2>6 DEF ClientHello
      <4> QED
        BY <2>6, <4>1, PublicNames
    <3>3. OutcomePerName'
      BY <1>1, <2>3, <2>5, <2>6, <3>1 DEF OutcomePerName
    <3>4. SecretNameHidden'
      BY <1>1, <2>1, <2>3, <3>2 DEF SecretNameHidden
    <3> QED
      BY <1>1, <2>3, <2>4, <2>5, <3>1, <3>3, <3>4 DEF Called
  <2>7. CASE host = "disabled.secret.test" /\ config = 0
    <3>1. outcome' = "plain"
      BY <2>5, <2>7, ConnectPlain
    <3>2. OutcomePerName'
      BY <1>1, <2>3, <2>5, <2>7, <3>1 DEF OutcomePerName
    <3>3. SecretNameHidden'
      <4>1. ASSUME NEW i \in DOMAIN hellos', hellos'[i].serverName = host'
            PROVE  i > 1 /\ hellos'[i - 1].ech # 0
        <5>1. i = 2
          BY <1>1, <2>1, <2>3, <4>1
        <5> QED
          BY <2>1, <2>3, <5>1
      <4> QED
        BY <1>1, <2>7, <4>1 DEF SecretNameHidden
    <3> QED
      BY <1>1, <2>3, <2>4, <2>5, <3>1, <3>2, <3>3 DEF Called
  <2> QED
    BY <1>5, <2>6, <2>7 DEF Retrying
<1> QED
  BY <1>2, <1>4, <1>5

\* Every step of the fixture keeps the invariant.
LEMMA FixtureStep == ASSUME FixtureInv, [FixtureNext]_vars PROVE FixtureInv'
<1>1. Inv /\ Echo /\ Exchange /\ Told /\ Called /\ Settled
  BY DEF FixtureInv, Told
<1>2. [DohStep]_dohVars
  BY <1>1, FixtureIsDoh
<1>3. Inv' /\ Echo'
  BY <1>1, <1>2, StepInv, EchoStep
<1>4. Exchange'
  BY <1>1, ExchangeStep
<1>5. Told' /\ Called'
  <2>1. ASSUME NEW t \in Types, Ask(t) PROVE Told' /\ Called'
    BY <1>1, <2>1, AskTold
  <2>2. CASE Answered
    BY <1>1, <2>2, AnsweredTold
  <2>3. CASE Connect
    BY <1>1, <2>3, ConnectCalled
  <2>4. CASE OtherPeer \/ Serve \/ OtherAnswered \/ Over \/ UNCHANGED vars
    <3>1. UNCHANGED <<host, level, lookup, config, hellos, outcome>>
      BY <2>4 DEF OtherPeer, Serve, OtherAnswered, Over, vars, clientVars
    <3> QED
      BY <1>1, <3>1, ToldKept, CalledKept
  <2>5. CASE ResolutionFails \/ ResolvedOnly
    <3>1. /\ UNCHANGED <<host, level, lookup, config, hellos>>
          /\ outcome = "" /\ outcome' \in {"unresolved", "resolved"}
      BY <2>5 DEF ResolutionFails, ResolvedOnly
    <3>2. OutcomePerName' /\ SecretNameHidden'
      BY <1>1, <3>1 DEF Called, OutcomePerName, SecretNameHidden
    <3>3. Called'
      BY <1>1, <3>1, <3>2 DEF Called, Resolved
    <3> QED
      BY <1>1, <3>1, <3>3, ToldKept
  <2> QED
    BY <2>1, <2>2, <2>3, <2>4, <2>5 DEF FixtureNext
<1> QED
  BY <1>3, <1>4, <1>5 DEF FixtureInv

\* It holds in every state of the fixture.
THEOREM FixtureInvariant == FixtureSpec => []FixtureInv
<1>1. FixtureInit => FixtureInv
  BY FixtureInitInv
<1>2. FixtureInv /\ [FixtureNext]_vars => FixtureInv'
  BY FixtureStep
<1> QED
  BY <1>1, <1>2, PTL DEF FixtureSpec

\* The resolver reads outside no query and its loop moves forward with the client's
\* queries among the other peers' too.
THEOREM FixtureIsSafe == FixtureSpec => []NoPanic /\ ParserAdvances
<1> DEFINE Advance == stage = "labels" /\ stage' \in {"labels", "question"} => position' > position
<1>1. FixtureInv => NoPanic
  BY DEF FixtureInv, Inv
<1>2. FixtureInv /\ [FixtureNext]_vars => [Advance]_dohVars
  <2>1. SUFFICES ASSUME FixtureInv, [FixtureNext]_vars PROVE [Advance]_dohVars
    OBVIOUS
  <2>2. Inv /\ [DohStep]_dohVars
    BY <2>1, FixtureIsDoh DEF FixtureInv
  <2> QED
    BY <2>2, StepAdvances DEF dohVars
<1> QED
  BY <1>1, <1>2, FixtureInvariant, PTL DEF FixtureSpec, ParserAdvances

\* What dnsResponse sends echoes the question and is well formed, and every name's
\* lookup ends with the config published for it: a lookup fails only without a record.
THEOREM AnswersAreSoundHolds == FixtureSpec => []AnswersAreSound
<1>1. FixtureInv => AnswersAreSound
  <2>1. SUFFICES ASSUME FixtureInv PROVE AnswersAreSound
    OBVIOUS
  <2>2. EchoesQuestion /\ SvcParamsWellFormed
    BY <2>1 DEF FixtureInv, Echo
  <2>3. "failed" \in Range(lookup) => host \in CtNames
    BY <2>1 DEF FixtureInv, Told, Exchange, Types, Range
  <2>4. host = "alias.svcb.test" /\ lookup["HTTPS"] = "answered" => config = 1
    BY <2>1 DEF FixtureInv, Told, Called, Published, SvcbNames
  <2>5. greenKey.id = 1
    BY DEF greenKey, newECHKey
  <2> QED
    BY <2>2, <2>3, <2>4, <2>5 DEF AnswersAreSound, PublishedConfigArrives
<1> QED
  BY <1>1, FixtureInvariant, PTL

\* Every call ends as EncryptedClientHelloTest states for its name and platform, and no
\* certificate the origin chooses is one the client cannot verify.
THEOREM OutcomePerNameHolds == FixtureSpec => []OutcomePerName
<1>1. FixtureInv => OutcomePerName
  BY DEF FixtureInv, Called
<1> QED
  BY <1>1, FixtureInvariant, PTL

\* A client that got its config list never puts the secret name in the clear, but for
\* disabled after the origin rejected its ECH.
THEOREM SecretNameHiddenHolds == FixtureSpec => []SecretNameHidden
<1>1. FixtureInv => SecretNameHidden
  BY DEF FixtureInv, Called
<1> QED
  BY <1>1, FixtureInvariant, PTL
=============================================================================
