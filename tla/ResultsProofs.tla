---------------------------- MODULE ResultsProofs ----------------------------
(***************************************************************************)
(* The page says what the artifacts say, for any number of artifacts, in   *)
(* any order, with any suites, cases, reports and records: red is exact    *)
(* and merging loses nothing.                                              *)
(*                                                                         *)
(* Two of the script's loops are recursive functions over a sequence.      *)
(* What they compute is proved by induction over sets of numbers, as the   *)
(* prover has no induction over predicates.                                *)
(***************************************************************************)
EXTENDS Results, FiniteSetTheorems, SequenceTheorems, WellFoundedInduction, TLAPS

-----------------------------------------------------------------------------
(* Numbers and sequences *)

\* A set of numbers that is not empty has a least member.
LEMMA LeastNumber ==
    ASSUME NEW T \in SUBSET Nat, T # {}
    PROVE  \E m \in T : \A n \in T : m <= n
<1>1. PICK m \in T : \A n \in T : ~(<<n, m>> \in OpToRel(<, Nat))
  <2> HIDE DEF OpToRel
  <2> QED
    BY NatLessThanWellFounded, WFMin, Zenon
<1>2. \A n \in T : n < m => <<n, m>> \in OpToRel(<, Nat)
  BY DEF OpToRel
<1>3. \A n \in T : ~(n < m)
  BY <1>1, <1>2, Zenon
<1> QED
  BY <1>3

\* Induction, stated with a set.
LEMMA SetInduction ==
    ASSUME NEW S, 0 \in S, \A n \in Nat : n \in S => n + 1 \in S
    PROVE  \A n \in Nat : n \in S
<1> SUFFICES ASSUME Nat \ S # {} PROVE FALSE
  OBVIOUS
<1>1. PICK m \in Nat \ S : \A n \in Nat \ S : m <= n
  BY LeastNumber
<1>2. m # 0 /\ m - 1 \in Nat /\ m - 1 \in S
  BY <1>1
<1> QED
  BY <1>1, <1>2

\* Min is the least member.
LEMMA MinIsLeast ==
    ASSUME NEW S \in SUBSET Nat, S # {}
    PROVE  Min(S) \in S /\ \A n \in S : Min(S) <= n
<1>1. \E m \in S : \A n \in S : m <= n
  BY LeastNumber
<1> QED
  BY <1>1 DEF Min

\* Finite sets without a common member add up.
LEMMA DisjointUnion ==
    ASSUME NEW S, NEW T, IsFiniteSet(S), IsFiniteSet(T), S \cap T = {}
    PROVE  /\ IsFiniteSet(S \cup T)
           /\ Cardinality(S) \in Nat /\ Cardinality(T) \in Nat
           /\ Cardinality(S \cup T) = Cardinality(S) + Cardinality(T)
<1>1. Cardinality(S) \in Nat /\ Cardinality(T) \in Nat
  BY FS_CardinalityType
<1>2. IsFiniteSet(S \cup T) /\ Cardinality(S \cup T) = Cardinality(S) + Cardinality(T) - Cardinality(S \cap T)
  BY FS_Union
<1>3. Cardinality(S \cap T) = 0
  BY FS_EmptySet
<1> QED
  BY <1>1, <1>2, <1>3

\* SetToSeq lists a finite set: every member, and each once.
LEMMA Listed ==
    ASSUME NEW S, IsFiniteSet(S), NEW f, f = SetToSeq(S)
    PROVE  /\ f \in Seq(S) /\ Len(f) = Cardinality(S) /\ Cardinality(S) \in Nat
           /\ \A i, j \in 1..Len(f) : f[i] = f[j] => i = j
           /\ \A x \in S : \E i \in 1..Len(f) : f[i] = x
<1> DEFINE n == Cardinality(S)
<1>1. n \in Nat /\ ExistsBijection(1..n, S)
  BY FS_CardinalityType
<1>2. \E g \in [1..n -> S] : IsInjective(g)
  BY <1>1 DEF ExistsBijection, Bijection, Injection, Surjection, IsInjective
<1>3. f \in [1..n -> S] /\ IsInjective(f)
  BY <1>2 DEF SetToSeq
<1>4. f \in Injection(1..n, S)
  BY <1>3 DEF Injection, IsInjective
<1>5. IsFiniteSet(1..n) /\ Cardinality(1..n) = n
  BY <1>1, FS_Interval
<1>6. f \in Surjection(1..n, S)
  BY <1>4, <1>5, FS_Injection
<1>7. f \in Seq(S) /\ Len(f) = n
  BY <1>1, <1>3, SeqDef
<1> QED
  BY <1>1, <1>3, <1>6, <1>7 DEF Surjection, IsInjective

\* Finitely many finite sets have finitely many members.
LEMMA FiniteUnion ==
    ASSUME NEW g, NEW m \in Nat, \A j \in 1..m : IsFiniteSet(g[j])
    PROVE  IsFiniteSet(UNION {g[j] : j \in 1..m})
<1> DEFINE U(n) == UNION {g[j] : j \in 1..n}
           S == {n \in Nat : n <= m => IsFiniteSet(U(n))}
<1>1. 0 \in S
  <2>1. U(0) = {}
    OBVIOUS
  <2> QED
    BY <2>1, FS_EmptySet
<1>2. ASSUME NEW n \in Nat, n \in S PROVE n + 1 \in S
  <2> SUFFICES ASSUME n + 1 <= m PROVE IsFiniteSet(U(n + 1))
    OBVIOUS
  <2>1. n + 1 \in 1..m /\ n <= m /\ 1..(n + 1) = (1..n) \cup {n + 1}
    OBVIOUS
  <2>2. U(n + 1) = U(n) \cup g[n + 1]
    BY <2>1
  <2>3. IsFiniteSet(U(n)) /\ IsFiniteSet(g[n + 1])
    BY <1>2, <2>1
  <2> HIDE DEF U
  <2>4. IsFiniteSet(U(n) \cup g[n + 1])
    BY <2>3, FS_Union
  <2> QED
    BY <2>2, <2>4, Zenon
<1> HIDE DEF S
<1>3. \A n \in Nat : n \in S
  BY <1>1, <1>2, SetInduction
<1> QED
  BY <1>3 DEF S

-----------------------------------------------------------------------------
(* Suites and colours *)

CaseStatuses == {"passed", "failed", "expected", "skipped"}
SuiteRecords ==
    [reporting : BOOLEAN, severity : {"critical", "watch"},
     passed : Nat, failed : Nat, expected : Nat, skipped : Nat]

\* The cases of a suite that are counted under a status.
Counted(suite, artifact, status) ==
    {c \in suite.cases : CaseStatus(suite.class, c[2], artifact) = status}

\* A file of an artifact, as ContentsAssumption has it.
IsFile(suite) ==
    /\ IsFiniteSet(suite.cases)
    /\ \A c \in suite.cases : c[2].xml \in {"passed", "failed", "skipped", "assumption"}

\* Files, each of which is known by the file it was read from.
AreFiles(files) == (\A s \in files : IsFile(s)) /\ \A s, t \in files : s.file = t.file => s = t

\* The record of a file has the type of a suite, and its counts add up to its cases.
LEMMA SuiteTyped ==
    ASSUME NEW suite, IsFile(suite), NEW artifact, NEW r, r = parse_suite(suite, artifact)
    PROVE  /\ r \in SuiteRecords
           /\ r.passed + r.failed + r.expected + r.skipped = Cardinality(suite.cases)
<1> DEFINE P == Counted(suite, artifact, "passed")
           F == Counted(suite, artifact, "failed")
           E == Counted(suite, artifact, "expected")
           S == Counted(suite, artifact, "skipped")
<1>1. \A c \in suite.cases : CaseStatus(suite.class, c[2], artifact) \in CaseStatuses
  BY DEF CaseStatus, CaseStatuses, IsFile
<1>2. /\ P \cup F \cup E \cup S = suite.cases
      /\ P \cap F = {} /\ (P \cup F) \cap E = {} /\ (P \cup F \cup E) \cap S = {}
      /\ P \in SUBSET suite.cases /\ F \in SUBSET suite.cases
      /\ E \in SUBSET suite.cases /\ S \in SUBSET suite.cases
  BY <1>1 DEF Counted, CaseStatuses
<1>3. IsFiniteSet(P) /\ IsFiniteSet(F) /\ IsFiniteSet(E) /\ IsFiniteSet(S)
  BY <1>2, FS_Subset DEF IsFile
<1>4. /\ r.passed = Cardinality(P) /\ r.failed = Cardinality(F)
      /\ r.expected = Cardinality(E) /\ r.skipped = Cardinality(S)
      /\ r = [reporting |-> r.reporting, severity |-> r.severity, passed |-> r.passed,
              failed |-> r.failed, expected |-> r.expected, skipped |-> r.skipped]
      /\ r.reporting \in BOOLEAN /\ r.severity \in {"critical", "watch"}
  BY DEF parse_suite, severity_of, Counted
<1> HIDE DEF P, F, E, S
<1>5. Cardinality(P) \in Nat /\ Cardinality(F) \in Nat /\ Cardinality(E) \in Nat /\ Cardinality(S) \in Nat
  BY <1>3, FS_CardinalityType
<1>6. IsFiniteSet(P \cup F) /\ Cardinality(P \cup F) = Cardinality(P) + Cardinality(F)
  BY <1>2, <1>3, DisjointUnion
<1>7. /\ IsFiniteSet((P \cup F) \cup E)
      /\ Cardinality((P \cup F) \cup E) = Cardinality(P \cup F) + Cardinality(E)
  BY <1>2, <1>3, <1>6, DisjointUnion
<1>8. Cardinality((P \cup F \cup E) \cup S) = Cardinality(P \cup F \cup E) + Cardinality(S)
  BY <1>2, <1>3, <1>7, DisjointUnion
<1>9. r \in SuiteRecords
  BY <1>4, <1>5 DEF SuiteRecords
<1> QED
  BY <1>2, <1>4, <1>5, <1>6, <1>7, <1>8, <1>9

\* Does the suite gate or is it critical?
Gates(suite) ==
    \/ suite.class \in CRITICAL_SUITES
    \/ suite.task \notin REPORTING_TASKS /\ suite.class \notin REPORTING_CLASSES

\* A failure that nothing excuses.
Unexcused(suite, case, artifact) ==
    case[2].xml = "failed" /\ ~expected_reason(suite.class, normalise_case(case[2].name), artifact)

\* A suite is red exactly if it gates and has a failure that nothing excuses.
LEMMA SuiteRed ==
    ASSUME NEW suite, IsFile(suite), NEW artifact
    PROVE  suite_status(parse_suite(suite, artifact)) = "failed"
               <=> Gates(suite) /\ \E c \in suite.cases : Unexcused(suite, c, artifact)
<1> DEFINE F == Counted(suite, artifact, "failed")
           r == parse_suite(suite, artifact)
<1>1. IsFiniteSet(F) /\ Cardinality(F) \in Nat
  BY FS_Subset, FS_CardinalityType DEF IsFile, Counted
<1>2. Cardinality(F) > 0 <=> F # {}
  BY <1>1, FS_EmptySet
<1>3. F # {} <=> \E c \in suite.cases : Unexcused(suite, c, artifact)
  BY DEF Counted, CaseStatus, Unexcused, IsFile
<1>4. r.failed = Cardinality(F) /\ r.severity = severity_of(suite.class)
      /\ r.reporting = (suite.task \in REPORTING_TASKS \/ suite.class \in REPORTING_CLASSES)
  BY DEF parse_suite, Counted
<1> HIDE DEF F, r
<1>5. suite_status(r) = "failed" <=> r.failed > 0 /\ (~r.reporting \/ r.severity = "critical")
  BY DEF suite_status
<1>6. (~r.reporting \/ r.severity = "critical") <=> Gates(suite)
  BY <1>4 DEF Gates, severity_of
<1> QED
  BY <1>2, <1>3, <1>4, <1>5, <1>6 DEF r

\* The worst of a set is red exactly if red is in it.
LEMMA WorstRed ==
    ASSUME NEW statuses
    PROVE  roll_up(statuses) = "failed" <=> "failed" \in statuses
<1> DEFINE Order == <<"failed", "finding", "expected", "passed", "skipped">>
           present == {i \in DOMAIN Order : Order[i] \in statuses}
<1>1. DOMAIN Order = 1..5 /\ \A i \in 1..5 : Order[i] = "failed" <=> i = 1
  OBVIOUS
<1>2. present \in SUBSET Nat
  BY <1>1
<1>3. present # {} => Min(present) \in present /\ \A n \in present : Min(present) <= n
  BY <1>2, MinIsLeast
<1>4. 1 \in present <=> "failed" \in statuses
  BY <1>1
<1>5. roll_up(statuses) = IF present = {} THEN "unknown" ELSE Order[Min(present)]
  BY DEF roll_up
<1>6. \A i \in present : i \in 1..5
  BY <1>1
<1> HIDE DEF present
<1>7. CASE present = {}
  BY <1>4, <1>5, <1>7
<1>8. CASE present # {}
  <2>1. Order[Min(present)] = "failed" <=> Min(present) = 1
    BY <1>1, <1>3, <1>6, <1>8
  <2>2. Min(present) = 1 <=> 1 \in present
    BY <1>3, <1>6, <1>8
  <2> QED
    BY <1>4, <1>5, <1>8, <2>1, <2>2
<1> QED
  BY <1>7, <1>8

\* Some status is the worst of those that are there.
Statuses == {"failed", "finding", "expected", "passed", "skipped"}

LEMMA WorstKnown ==
    ASSUME NEW statuses, statuses # {}, statuses \subseteq Statuses
    PROVE  roll_up(statuses) \in Statuses
<1> DEFINE Order == <<"failed", "finding", "expected", "passed", "skipped">>
           present == {i \in DOMAIN Order : Order[i] \in statuses}
<1>1. DOMAIN Order = 1..5 /\ \A i \in 1..5 : Order[i] \in Statuses
  BY DEF Statuses
<1>2. \A x \in Statuses : \E i \in 1..5 : Order[i] = x
  <2>1. /\ Order[1] = "failed" /\ Order[2] = "finding" /\ Order[3] = "expected"
        /\ Order[4] = "passed" /\ Order[5] = "skipped"
    OBVIOUS
  <2> QED
    BY <2>1 DEF Statuses
<1>3. present \in SUBSET Nat /\ present # {}
  BY <1>1, <1>2
<1>4. Min(present) \in present
  BY <1>3, MinIsLeast
<1>5. roll_up(statuses) = Order[Min(present)]
  BY <1>3 DEF roll_up
<1> QED
  BY <1>1, <1>4, <1>5

-----------------------------------------------------------------------------
(* Totals *)

Counts == {"passed", "failed", "expected", "skipped"}

\* Is f the function Total computes, on the first m suites?
IsSum(f, suites, count, m) ==
    f = [n \in 0..m |-> IF n = 0 THEN 0 ELSE f[n - 1] + suites[n][count]]

\* It exists, for every length.
LEMMA SumExists ==
    ASSUME NEW suites, NEW count
    PROVE  \A m \in Nat : \E f : IsSum(f, suites, count, m)
<1> DEFINE S == {m \in Nat : \E f : IsSum(f, suites, count, m)}
<1>1. 0 \in S
  <2>1. IsSum([n \in 0..0 |-> 0], suites, count, 0)
    BY DEF IsSum
  <2> QED
    BY <2>1
<1>2. ASSUME NEW m \in Nat, m \in S PROVE m + 1 \in S
  <2>1. PICK f : IsSum(f, suites, count, m)
    BY <1>2
  <2> DEFINE g == [n \in 0..(m + 1) |-> IF n <= m THEN f[n] ELSE f[m] + suites[m + 1][count]]
  <2>2. ASSUME NEW n \in 0..(m + 1)
        PROVE  g[n] = IF n = 0 THEN 0 ELSE g[n - 1] + suites[n][count]
    <3>1. CASE n <= m
      <4>1. n \in 0..m /\ (n # 0 => n - 1 \in 0..m /\ g[n - 1] = f[n - 1])
        BY <3>1
      <4>2. f[n] = IF n = 0 THEN 0 ELSE f[n - 1] + suites[n][count]
        BY <2>1, <4>1 DEF IsSum
      <4> QED
        BY <3>1, <4>1, <4>2
    <3>2. CASE n = m + 1
      <4>1. g[m] = f[m] /\ n - 1 = m /\ n # 0 /\ ~(n <= m)
        BY <3>2
      <4> QED
        BY <3>2, <4>1
    <3> QED
      BY <3>1, <3>2
  <2>3. IsSum(g, suites, count, m + 1)
    BY <2>2 DEF IsSum
  <2> HIDE DEF g
  <2> QED
    BY <2>3
<1> HIDE DEF S
<1>3. \A m \in Nat : m \in S
  BY <1>1, <1>2, SetInduction
<1> QED
  BY <1>3 DEF S

\* Total is its value for all the suites.
LEMMA TotalIsSum ==
    ASSUME NEW suites, NEW count, Len(suites) \in Nat
    PROVE  \E f : IsSum(f, suites, count, Len(suites)) /\ Total(suites, count) = f[Len(suites)]
<1>1. PICK f : IsSum(f, suites, count, Len(suites))
  BY SumExists
<1> QED
  BY <1>1 DEF Total, IsSum

\* The total of no suites is 0, and one more suite adds its count.
LEMMA TotalAppend ==
    ASSUME NEW count \in Counts
    PROVE  /\ Total(<<>>, count) = 0
           /\ \A t \in Seq(SuiteRecords) : Total(t, count) \in Nat
           /\ \A t \in Seq(SuiteRecords), x \in SuiteRecords :
                 Total(Append(t, x), count) = Total(t, count) + x[count]
<1>0. \A x \in SuiteRecords : x[count] \in Nat
  BY DEF SuiteRecords, Counts
<1>1. Total(<<>>, count) = 0
  <2>1. Len(<<>>) = 0
    OBVIOUS
  <2>2. PICK f : IsSum(f, <<>>, count, 0) /\ Total(<<>>, count) = f[0]
    BY <2>1, TotalIsSum
  <2> QED
    BY <2>2 DEF IsSum
<1>2. ASSUME NEW t \in Seq(SuiteRecords) PROVE Total(t, count) \in Nat
  <2>1. PICK f : IsSum(f, t, count, Len(t)) /\ Total(t, count) = f[Len(t)]
    BY TotalIsSum, LenProperties
  <2> DEFINE S == {n \in Nat : n <= Len(t) => f[n] \in Nat}
  <2>2. 0 \in S
    BY <2>1, LenProperties DEF IsSum
  <2>3. ASSUME NEW n \in Nat, n \in S PROVE n + 1 \in S
    <3> SUFFICES ASSUME n + 1 <= Len(t) PROVE f[n + 1] \in Nat
      OBVIOUS
    <3>1. Len(t) \in Nat /\ n + 1 \in 1..Len(t) /\ n + 1 \in 0..Len(t) /\ f[n] \in Nat
      BY <2>3, LenProperties
    <3>2. f[n + 1] = f[n] + t[n + 1][count]
      BY <2>1, <3>1 DEF IsSum
    <3>3. t[n + 1] \in SuiteRecords
      BY <3>1, ElementOfSeq
    <3> QED
      BY <1>0, <3>1, <3>2, <3>3
  <2> HIDE DEF S
  <2>4. \A n \in Nat : n \in S
    BY <2>2, <2>3, SetInduction
  <2> QED
    BY <2>1, <2>4, LenProperties DEF S
<1>3. ASSUME NEW t \in Seq(SuiteRecords), NEW x \in SuiteRecords
      PROVE  Total(Append(t, x), count) = Total(t, count) + x[count]
  <2> DEFINE u == Append(t, x)
  <2>0. /\ Len(t) \in Nat /\ u \in Seq(SuiteRecords) /\ Len(u) = Len(t) + 1
        /\ \A i \in 1..Len(t) : u[i] = t[i]
        /\ u[Len(t) + 1] = x
    BY LenProperties, AppendProperties
  <2> HIDE DEF u
  <2>1. PICK f : IsSum(f, t, count, Len(t)) /\ Total(t, count) = f[Len(t)]
    BY <2>0, TotalIsSum
  <2>2. PICK g : IsSum(g, u, count, Len(u)) /\ Total(u, count) = g[Len(u)]
    BY <2>0, TotalIsSum
  <2> DEFINE S == {n \in Nat : n <= Len(t) => f[n] = g[n]}
  <2>3. 0 \in S
    BY <2>0, <2>1, <2>2 DEF IsSum
  <2>4. ASSUME NEW n \in Nat, n \in S PROVE n + 1 \in S
    <3> SUFFICES ASSUME n + 1 <= Len(t) PROVE f[n + 1] = g[n + 1]
      OBVIOUS
    <3>1. n + 1 \in 0..Len(t) /\ n + 1 \in 0..Len(u) /\ f[n] = g[n] /\ u[n + 1] = t[n + 1]
      BY <2>0, <2>4
    <3>2. f[n + 1] = f[n] + t[n + 1][count]
      BY <2>1, <3>1 DEF IsSum
    <3>3. g[n + 1] = g[n] + u[n + 1][count]
      BY <2>2, <3>1 DEF IsSum
    <3> QED
      BY <3>1, <3>2, <3>3
  <2> HIDE DEF S
  <2>5. \A n \in Nat : n \in S
    BY <2>3, <2>4, SetInduction
  <2>6. g[Len(t)] = f[Len(t)]
    BY <2>0, <2>5 DEF S
  <2>7. g[Len(u)] = g[Len(t)] + u[Len(u)][count]
    BY <2>0, <2>2 DEF IsSum
  <2> QED
    BY <2>0, <2>1, <2>2, <2>6, <2>7 DEF u
<1> QED
  BY <1>1, <1>2, <1>3

\* All the cases the suites count.
AllCases(suites) ==
    Total(suites, "passed") + Total(suites, "failed") + Total(suites, "expected") + Total(suites, "skipped")
Size(r) == r.passed + r.failed + r.expected + r.skipped

\* They are none for no suites, and one more suite adds its own.
LEMMA AllCasesAppend ==
    /\ AllCases(<<>>) = 0
    /\ \A t \in Seq(SuiteRecords) : AllCases(t) \in Nat
    /\ \A t \in Seq(SuiteRecords), x \in SuiteRecords : AllCases(Append(t, x)) = AllCases(t) + Size(x)
<1>1. "passed" \in Counts /\ "failed" \in Counts /\ "expected" \in Counts /\ "skipped" \in Counts
  BY DEF Counts
<1>2. AllCases(<<>>) = 0
  BY <1>1, TotalAppend DEF AllCases
<1>3. ASSUME NEW t \in Seq(SuiteRecords)
      PROVE  /\ Total(t, "passed") \in Nat /\ Total(t, "failed") \in Nat
             /\ Total(t, "expected") \in Nat /\ Total(t, "skipped") \in Nat
  BY <1>1, TotalAppend
<1>4. ASSUME NEW t \in Seq(SuiteRecords), NEW x \in SuiteRecords
      PROVE  AllCases(Append(t, x)) = AllCases(t) + Size(x)
  <2> DEFINE a == Total(t, "passed")
             b == Total(t, "failed")
             c == Total(t, "expected")
             d == Total(t, "skipped")
             p == x.passed
             q == x.failed
             r == x.expected
             s == x.skipped
  <2>1. /\ Total(Append(t, x), "passed") = a + p /\ Total(Append(t, x), "failed") = b + q
        /\ Total(Append(t, x), "expected") = c + r /\ Total(Append(t, x), "skipped") = d + s
    BY <1>1, TotalAppend
  <2>2. p \in Nat /\ q \in Nat /\ r \in Nat /\ s \in Nat
    BY DEF SuiteRecords
  <2>3. a \in Nat /\ b \in Nat /\ c \in Nat /\ d \in Nat
    BY <1>3
  <2>4. /\ AllCases(Append(t, x)) = (a + p) + (b + q) + (c + r) + (d + s)
        /\ Size(x) = p + q + r + s /\ AllCases(t) = a + b + c + d
    BY <2>1 DEF AllCases, Size
  <2> HIDE DEF a, b, c, d, p, q, r, s
  <2>5. (a + p) + (b + q) + (c + r) + (d + s) = (a + b + c + d) + (p + q + r + s)
    BY <2>2, <2>3
  <2> QED
    BY <2>4, <2>5
<1> QED
  BY <1>2, <1>3, <1>4 DEF AllCases

\* Suites added at the end add their cases.
LEMMA AllCasesConcat ==
    ASSUME NEW s \in Seq(SuiteRecords)
    PROVE  \A t \in Seq(SuiteRecords) : AllCases(s \o t) = AllCases(s) + AllCases(t)
<1> DEFINE S == {n \in Nat : \A t \in Seq(SuiteRecords) :
                                Len(t) = n => AllCases(s \o t) = AllCases(s) + AllCases(t)}
<1>1. 0 \in S
  <2> SUFFICES ASSUME NEW t \in Seq(SuiteRecords), Len(t) = 0
               PROVE  AllCases(s \o t) = AllCases(s) + AllCases(t)
    OBVIOUS
  <2>1. t = <<>> /\ s \o <<>> = s
    BY EmptySeq, ConcatEmptySeq
  <2>2. AllCases(<<>>) = 0 /\ AllCases(s) \in Nat
    BY AllCasesAppend
  <2> QED
    BY <2>1, <2>2
<1>2. ASSUME NEW n \in Nat, n \in S PROVE n + 1 \in S
  <2> SUFFICES ASSUME NEW t \in Seq(SuiteRecords), Len(t) = n + 1
               PROVE  AllCases(s \o t) = AllCases(s) + AllCases(t)
    OBVIOUS
  <2>1. t # <<>>
    BY EmptySeq
  <2>2. PICK u \in Seq(SuiteRecords), x \in SuiteRecords : t = Append(u, x)
    BY <2>1, SequenceEmptyOrAppend
  <2>3. Len(u) = n
    BY <2>2, AppendProperties, LenProperties
  <2>4. AllCases(s \o u) = AllCases(s) + AllCases(u)
    BY <1>2, <2>3
  <2>5. s \o Append(u, x) = Append(s \o u, x)
    <3>1. Append(u, x) = u \o <<x>> /\ <<x>> \in Seq(SuiteRecords)
      BY AppendIsConcat
    <3>2. s \o u \in Seq(SuiteRecords)
      BY ConcatProperties
    <3>3. Append(s \o u, x) = (s \o u) \o <<x>>
      BY <3>2, AppendIsConcat
    <3> QED
      BY <3>1, <3>3, ConcatAssociative
  <2>6. s \o u \in Seq(SuiteRecords)
    BY ConcatProperties
  <2>7. AllCases(Append(s \o u, x)) = AllCases(s \o u) + Size(x)
    BY <2>6, AllCasesAppend
  <2>8. AllCases(Append(u, x)) = AllCases(u) + Size(x)
    BY AllCasesAppend
  <2>9. AllCases(s) \in Nat /\ AllCases(u) \in Nat /\ Size(x) \in Nat
    <3>1. x.passed \in Nat /\ x.failed \in Nat /\ x.expected \in Nat /\ x.skipped \in Nat
      BY DEF SuiteRecords
    <3>2. Size(x) \in Nat
      <4> DEFINE p == x.passed  q == x.failed  e == x.expected  k == x.skipped
      <4> HIDE DEF p, q, e, k
      <4>1. p \in Nat /\ q \in Nat /\ e \in Nat /\ k \in Nat => p + q + e + k \in Nat
        OBVIOUS
      <4> QED
        BY <3>1, <4>1 DEF Size, p, q, e, k
    <3> QED
      BY <3>2, AllCasesAppend
  <2> QED
    BY <2>2, <2>4, <2>5, <2>7, <2>8, <2>9
<1> HIDE DEF S
<1>3. \A n \in Nat : n \in S
  BY <1>1, <1>2, SetInduction
<1> QED
  BY <1>3, LenProperties DEF S

\* What the files f[1] to f[n] of the artifact named a say, case by case.
CasesUpTo(a, f, n) == UNION {{<<a, f[i].file, c>> : c \in f[i].cases} : i \in 1..n}

\* The records of the files f of an artifact.
RecordsOf(f, artifact) == [i \in DOMAIN f |-> parse_suite(f[i], artifact)]

\* The records of an artifact's files count each of its cases once.
LEMMA FilesCounted ==
    ASSUME NEW a, NEW artifact, NEW files, IsFiniteSet(files), AreFiles(files),
           NEW f, f = SetToSeq(files),
           NEW t, t = RecordsOf(f, artifact)
    PROVE  /\ t \in Seq(SuiteRecords) /\ Len(t) = Len(f) /\ DOMAIN t = DOMAIN f
           /\ IsFiniteSet(CasesUpTo(a, f, Len(f)))
           /\ AllCases(t) = Cardinality(CasesUpTo(a, f, Len(f)))
<1>1. /\ f \in Seq(files) /\ Len(f) \in Nat /\ DOMAIN f = 1..Len(f)
      /\ \A i, j \in 1..Len(f) : f[i] = f[j] => i = j
      /\ \A i \in 1..Len(f) : f[i] \in files /\ IsFile(f[i])
  BY Listed, LenProperties, ElementOfSeq DEF AreFiles
<1>2. \A i \in 1..Len(f) : t[i] \in SuiteRecords /\ Size(t[i]) = Cardinality(f[i].cases)
  BY <1>1, SuiteTyped DEF Size, RecordsOf
<1>3. t \in Seq(SuiteRecords) /\ Len(t) = Len(f) /\ DOMAIN t = DOMAIN f
  <2>1. t \in [1..Len(f) -> SuiteRecords]
    BY <1>1, <1>2 DEF RecordsOf
  <2> QED
    BY <1>1, <2>1, SeqDef
<1> DEFINE prefix(n) == SubSeq(t, 1, n)
           S == {n \in Nat : n <= Len(f) =>
                    /\ IsFiniteSet(CasesUpTo(a, f, n))
                    /\ AllCases(prefix(n)) = Cardinality(CasesUpTo(a, f, n))}
<1>4. 0 \in S
  <2>1. prefix(0) = <<>>
    BY SubSeqEmpty
  <2>2. CasesUpTo(a, f, 0) = {}
    BY DEF CasesUpTo
  <2> QED
    BY <2>1, <2>2, FS_EmptySet, AllCasesAppend
<1>5. ASSUME NEW n \in Nat, n \in S PROVE n + 1 \in S
  <2> SUFFICES ASSUME n + 1 <= Len(f)
               PROVE  /\ IsFiniteSet(CasesUpTo(a, f, n + 1))
                      /\ AllCases(prefix(n + 1)) = Cardinality(CasesUpTo(a, f, n + 1))
    OBVIOUS
  <2> DEFINE new == {<<a, f[n + 1].file, c>> : c \in f[n + 1].cases}
  <2>1. n + 1 \in 1..Len(f) /\ n <= Len(f) /\ n \in 0..Len(t) /\ n + 1 \in 1..Len(t)
    BY <1>1, <1>3
  <2>2. IsFiniteSet(CasesUpTo(a, f, n)) /\ AllCases(prefix(n)) = Cardinality(CasesUpTo(a, f, n))
    BY <1>5, <2>1
  <2>3. CasesUpTo(a, f, n + 1) = CasesUpTo(a, f, n) \cup new
    <3>1. 1..(n + 1) = (1..n) \cup {n + 1}
      OBVIOUS
    <3> QED
      BY <3>1 DEF CasesUpTo
  <2>4. CasesUpTo(a, f, n) \cap new = {}
    <3> SUFFICES ASSUME NEW i \in 1..n, NEW c, NEW d, <<a, f[i].file, c>> = <<a, f[n + 1].file, d>> PROVE FALSE
      BY DEF CasesUpTo
    <3>1. f[i].file = f[n + 1].file /\ f[i] \in files /\ f[n + 1] \in files /\ i \in 1..Len(f)
      BY <1>1, <2>1
    <3> QED
      BY <1>1, <2>1, <3>1 DEF AreFiles
  <2>5. IsFiniteSet(new) /\ Cardinality(new) = Cardinality(f[n + 1].cases)
    <3> DEFINE g == [c \in f[n + 1].cases |-> <<a, f[n + 1].file, c>>]
    <3>1. g \in Bijection(f[n + 1].cases, new)
      BY DEF Bijection, Injection, Surjection, IsInjective
    <3>2. IsFiniteSet(f[n + 1].cases)
      BY <1>1, <2>1 DEF IsFile
    <3> QED
      BY <3>1, <3>2, FS_Bijection DEF ExistsBijection
  <2> HIDE DEF new
  <2>6. /\ IsFiniteSet(CasesUpTo(a, f, n + 1))
        /\ Cardinality(CasesUpTo(a, f, n + 1)) = Cardinality(CasesUpTo(a, f, n)) + Cardinality(new)
    <3>1. IsFiniteSet(CasesUpTo(a, f, n)) /\ IsFiniteSet(new)
      BY <2>2, <2>5
    <3>2. /\ IsFiniteSet(CasesUpTo(a, f, n) \cup new)
          /\ Cardinality(CasesUpTo(a, f, n) \cup new) = Cardinality(CasesUpTo(a, f, n)) + Cardinality(new)
      BY <2>4, <3>1, DisjointUnion
    <3> QED
      BY <2>3, <3>2, Zenon
  <2>7. prefix(n) \in Seq(SuiteRecords) /\ prefix(n + 1) = Append(prefix(n), t[n + 1]) /\ t[n + 1] \in SuiteRecords
    <3>1. t[n + 1] \in SuiteRecords
      BY <1>2, <2>1
    <3>2. prefix(n) \in Seq(SuiteRecords)
      BY <1>2, <1>3, <2>1, SubSeqProperties
    <3>3. prefix(n + 1) = prefix(n) \o <<t[n + 1]>>
      <4>1. 1 \in 1..Len(t) /\ n + 1 \in 1..Len(t) /\ (n + 1) - 1 = n
        BY <2>1
      <4> QED
        BY <1>3, <4>1, SubSeqRecursiveSecond
    <3> QED
      BY <3>1, <3>2, <3>3, AppendIsConcat
  <2>8. AllCases(prefix(n + 1)) = AllCases(prefix(n)) + Size(t[n + 1])
    BY <2>7, AllCasesAppend
  <2> QED
    BY <1>2, <2>1, <2>2, <2>5, <2>6, <2>8
<1> HIDE DEF S
<1>6. \A n \in Nat : n \in S
  BY <1>4, <1>5, SetInduction
<1>7. prefix(Len(f)) = t
  BY <1>3, SubSeqFull
<1>8. Len(f) \in S
  BY <1>1, <1>6
<1>9. /\ IsFiniteSet(CasesUpTo(a, f, Len(f)))
      /\ AllCases(prefix(Len(f))) = Cardinality(CasesUpTo(a, f, Len(f)))
  BY <1>1, <1>8 DEF S
<1> QED
  BY <1>3, <1>7, <1>9

\* The cases are finitely many.
LEMMA FilesFinite ==
    ASSUME NEW a, NEW artifact, NEW files, IsFiniteSet(files), AreFiles(files),
           NEW f, f = SetToSeq(files)
    PROVE  IsFiniteSet(CasesUpTo(a, f, Len(f)))
<1> DEFINE t == RecordsOf(f, artifact)
<1> HIDE DEF t
<1>1. t = RecordsOf(f, artifact)
  BY DEF t
<1> QED
  BY <1>1, FilesCounted

\* There is one record per file.
LEMMA FilesTyped ==
    ASSUME NEW artifact, NEW files, IsFiniteSet(files), AreFiles(files),
           NEW f, f = SetToSeq(files),
           NEW t, t = RecordsOf(f, artifact)
    PROVE  t \in Seq(SuiteRecords) /\ Len(t) = Len(f)
  BY FilesCounted

\* The counts alone.
LEMMA FilesAddUp ==
    ASSUME NEW a, NEW artifact, NEW files, IsFiniteSet(files), AreFiles(files),
           NEW f, f = SetToSeq(files),
           NEW t, t = RecordsOf(f, artifact)
    PROVE  AllCases(t) = Cardinality(CasesUpTo(a, f, Len(f)))
  BY FilesCounted

-----------------------------------------------------------------------------
(* Endpoints *)

Readings == {"absent", "unreadable", "up", "down"}

\* What a set of readings comes to.
Verdict(S) == IF "down" \in S THEN "down" ELSE IF "up" \in S THEN "up" ELSE "absent"

\* One more reading, or the readings of one more artifact, and the verdict is of both.
LEMMA VerdictMerged ==
    ASSUME NEW S
    PROVE  /\ \A x \in Readings : Merged(Verdict(S), x) = Verdict(S \cup {x})
           /\ \A T : Merged(Verdict(S), Verdict(T)) = Verdict(S \cup T)
  BY DEF Merged, Verdict, Readings

\* Is f the function parse_endpoints computes, on the first m reports?
IsMerge(f, reports, m) ==
    f = [n \in 0..m |-> IF n = 0 THEN "absent" ELSE Merged(f[n - 1], reports[n])]

\* It exists, for every length.
LEMMA MergeExists ==
    ASSUME NEW reports
    PROVE  \A m \in Nat : \E f : IsMerge(f, reports, m)
<1> DEFINE S == {m \in Nat : \E f : IsMerge(f, reports, m)}
<1>1. 0 \in S
  <2>1. IsMerge([n \in 0..0 |-> "absent"], reports, 0)
    BY DEF IsMerge
  <2> QED
    BY <2>1
<1>2. ASSUME NEW m \in Nat, m \in S PROVE m + 1 \in S
  <2>1. PICK f : IsMerge(f, reports, m)
    BY <1>2
  <2> DEFINE g == [n \in 0..(m + 1) |-> IF n <= m THEN f[n] ELSE Merged(f[m], reports[m + 1])]
  <2>2. ASSUME NEW n \in 0..(m + 1)
        PROVE  g[n] = IF n = 0 THEN "absent" ELSE Merged(g[n - 1], reports[n])
    <3>1. CASE n <= m
      <4>1. n \in 0..m /\ (n # 0 => n - 1 \in 0..m /\ g[n - 1] = f[n - 1])
        BY <3>1
      <4>2. f[n] = IF n = 0 THEN "absent" ELSE Merged(f[n - 1], reports[n])
        BY <2>1, <4>1 DEF IsMerge
      <4> QED
        BY <3>1, <4>1, <4>2
    <3>2. CASE n = m + 1
      <4>1. g[m] = f[m] /\ n - 1 = m /\ n # 0 /\ ~(n <= m)
        BY <3>2
      <4> QED
        BY <3>2, <4>1
    <3> QED
      BY <3>1, <3>2
  <2>3. IsMerge(g, reports, m + 1)
    BY <2>2 DEF IsMerge
  <2> HIDE DEF g
  <2> QED
    BY <2>3
<1> HIDE DEF S
<1>3. \A m \in Nat : m \in S
  BY <1>1, <1>2, SetInduction
<1> QED
  BY <1>3 DEF S

\* The reports of an artifact come to the verdict of all of them, in whatever order.
LEMMA ReportsMerged ==
    ASSUME NEW reports \in Seq(Readings)
    PROVE  parse_endpoints(reports) = Verdict(Range(reports))
<1>0. Len(reports) \in Nat /\ DOMAIN reports = 1..Len(reports) /\ \A i \in 1..Len(reports) : reports[i] \in Readings
  BY LenProperties, ElementOfSeq
<1>1. PICK f : IsMerge(f, reports, Len(reports)) /\ parse_endpoints(reports) = f[Len(reports)]
  <2>1. \E f : IsMerge(f, reports, Len(reports))
    BY <1>0, MergeExists
  <2> QED
    BY <2>1 DEF parse_endpoints, IsMerge
<1> DEFINE upTo(n) == {reports[i] : i \in 1..n}
           S == {n \in Nat : n <= Len(reports) => f[n] = Verdict(upTo(n))}
<1>3. 0 \in S
  <2>1. f[0] = "absent"
    BY <1>0, <1>1 DEF IsMerge
  <2>2. upTo(0) = {}
    OBVIOUS
  <2> QED
    BY <2>1, <2>2 DEF Verdict
<1>4. ASSUME NEW n \in Nat, n \in S PROVE n + 1 \in S
  <2> SUFFICES ASSUME n + 1 <= Len(reports) PROVE f[n + 1] = Verdict(upTo(n + 1))
    OBVIOUS
  <2>1. n + 1 \in 0..Len(reports) /\ n + 1 \in 1..Len(reports) /\ f[n] = Verdict(upTo(n))
    BY <1>0, <1>4
  <2>2. f[n + 1] = Merged(f[n], reports[n + 1])
    BY <1>1, <2>1 DEF IsMerge
  <2>3. upTo(n + 1) = upTo(n) \cup {reports[n + 1]}
    <3>1. 1..(n + 1) = (1..n) \cup {n + 1}
      OBVIOUS
    <3> QED
      BY <3>1
  <2>4. reports[n + 1] \in Readings
    BY <1>0, <2>1
  <2> HIDE DEF upTo
  <2>5. Merged(Verdict(upTo(n)), reports[n + 1]) = Verdict(upTo(n) \cup {reports[n + 1]})
    BY <2>4, VerdictMerged
  <2> QED
    BY <2>1, <2>2, <2>3, <2>5
<1> HIDE DEF S
<1>5. \A n \in Nat : n \in S
  BY <1>3, <1>4, SetInduction
<1>6. f[Len(reports)] = Verdict(upTo(Len(reports)))
  BY <1>0, <1>5 DEF S
<1>7. Range(reports) = upTo(Len(reports))
  BY <1>0 DEF Range
<1> QED
  BY <1>1, <1>6, <1>7

-----------------------------------------------------------------------------
(* TLS policy records *)

\* The records hold what the artifacts in S reported, one record for each platform.
IsPolicy(policy, S) ==
    /\ policy \in Seq(Range(policy))
    /\ \A i, j \in DOMAIN policy : policy[i].platform = policy[j].platform => i = j
    /\ \A i \in DOMAIN policy :
          DOMAIN policy[i].checks =
              UNION {DOMAIN FirstReadable(input[a].policies)[1] : a \in {b \in S : input[b].platform = policy[i].platform}}
    /\ \A a \in S : \E i \in DOMAIN policy : policy[i].platform = input[a].platform

\* Another artifact's checks are added to its platform's record, or to a new one.
LEMMA PolicyMerged ==
    ASSUME NEW policy, NEW S, IsPolicy(policy, S), NEW a
    PROVE  IsPolicy(MergedPolicy(policy, input[a].platform, FirstReadable(input[a].policies)[1]), S \cup {a})
<1> DEFINE platform == input[a].platform
           checks == FirstReadable(input[a].policies)[1]
           same == {i \in DOMAIN policy : policy[i].platform = platform}
           new == MergedPolicy(policy, platform, checks)
<1>0. Len(policy) \in Nat /\ DOMAIN policy = 1..Len(policy) /\ policy \in Seq(Range(policy))
  BY LenProperties DEF IsPolicy
<1>1. CASE same = {}
  <2> DEFINE x == [platform |-> platform, checks |-> checks]
             R == Range(policy) \cup {x}
  <2>1. new = Append(policy, x)
    BY <1>1 DEF MergedPolicy
  <2>2. policy \in Seq(R)
    <3>1. Range(policy) \subseteq R
      OBVIOUS
    <3> HIDE DEF R
    <3> QED
      BY <1>0, <3>1, SeqMonotonic
  <2> HIDE DEF new
  <2>3. /\ new \in Seq(R) /\ Len(new) = Len(policy) + 1 /\ DOMAIN new = 1..(Len(policy) + 1)
        /\ \A i \in 1..Len(policy) : new[i] = policy[i]
        /\ new[Len(policy) + 1] = x
    <3>1. x \in R
      OBVIOUS
    <3> HIDE DEF R, x
    <3> QED
      BY <2>1, <2>2, <3>1, AppendProperties, LenProperties
  <2>4. new \in Seq(Range(new))
    BY <2>3, SeqOfRange
  <2>5. x.platform = platform /\ x.checks = checks
    OBVIOUS
  <2> HIDE DEF x
  <2>6. \A i, j \in DOMAIN new : new[i].platform = new[j].platform => i = j
    BY <1>0, <1>1, <2>3, <2>5 DEF IsPolicy
  <2>7. \A b \in S : input[b].platform # platform
    BY <1>1 DEF IsPolicy
  <2>8. ASSUME NEW i \in DOMAIN new
        PROVE  DOMAIN new[i].checks =
                   UNION {DOMAIN FirstReadable(input[c].policies)[1] : c \in {b \in S \cup {a} : input[b].platform = new[i].platform}}
    <3>1. CASE i = Len(policy) + 1
      <4>1. {b \in S \cup {a} : input[b].platform = new[i].platform} = {a}
        BY <2>3, <2>5, <2>7, <3>1
      <4> QED
        BY <2>3, <2>5, <3>1, <4>1
    <3>2. CASE i \in 1..Len(policy)
      <4>1. new[i] = policy[i] /\ policy[i].platform # platform
        BY <1>0, <1>1, <2>3, <3>2
      <4>2. {b \in S \cup {a} : input[b].platform = new[i].platform}
                = {b \in S : input[b].platform = policy[i].platform}
        BY <4>1
      <4> QED
        BY <1>0, <3>2, <4>1, <4>2 DEF IsPolicy
    <3> QED
      BY <1>0, <2>3, <3>1, <3>2
  <2>9. \A b \in S \cup {a} : \E i \in DOMAIN new : new[i].platform = input[b].platform
    BY <1>0, <2>3, <2>5 DEF IsPolicy
  <2> QED
    BY <2>4, <2>6, <2>8, <2>9 DEF IsPolicy, new
<1>2. CASE same # {}
  <2> DEFINE m == Min(same)
             old == policy[m].checks
             all == [c \in DOMAIN old \cup DOMAIN checks |-> IF c \in DOMAIN checks THEN checks[c] ELSE old[c]]
             x == [platform |-> platform, checks |-> all]
             R == Range(policy) \cup {x}
  <2>1. m \in same
    <3>1. same \in SUBSET Nat
      BY <1>0
    <3> HIDE DEF same
    <3> QED
      BY <1>2, <3>1, MinIsLeast
  <2>2. m \in DOMAIN policy /\ policy[m].platform = platform
    BY <2>1
  <2>3. new = [policy EXCEPT ![m] = x]
    BY <1>2 DEF MergedPolicy
  <2>4. DOMAIN x.checks = DOMAIN old \cup DOMAIN checks /\ x.platform = platform
    OBVIOUS
  <2>5. policy \in Seq(R) /\ x \in R
    <3>1. Range(policy) \subseteq R /\ x \in R
      OBVIOUS
    <3> HIDE DEF R
    <3> QED
      BY <1>0, <3>1, SeqMonotonic
  <2> HIDE DEF new, x, m
  <2>6. /\ new \in Seq(R) /\ DOMAIN new = DOMAIN policy
        /\ \A i \in DOMAIN policy : new[i] = IF i = m THEN x ELSE policy[i]
    <3> HIDE DEF R
    <3> QED
      BY <1>0, <2>2, <2>3, <2>5, ExceptSeq, LenProperties
  <2>7. new \in Seq(Range(new))
    BY <2>6, SeqOfRange
  <2>8. \A i \in DOMAIN policy : new[i].platform = policy[i].platform
    BY <2>2, <2>4, <2>6
  <2>9. ASSUME NEW i \in DOMAIN new
        PROVE  DOMAIN new[i].checks =
                   UNION {DOMAIN FirstReadable(input[c].policies)[1] : c \in {b \in S \cup {a} : input[b].platform = new[i].platform}}
    <3> DEFINE before == {b \in S : input[b].platform = policy[i].platform}
    <3>0. DOMAIN policy[i].checks = UNION {DOMAIN FirstReadable(input[c].policies)[1] : c \in before}
      BY <2>6 DEF IsPolicy
    <3>1. CASE i = m
      <4>1. {b \in S \cup {a} : input[b].platform = new[i].platform} = before \cup {a}
        BY <2>2, <2>6, <2>8, <3>1
      <4>2. DOMAIN new[i].checks = DOMAIN policy[i].checks \cup DOMAIN checks
        BY <2>4, <2>6, <3>1
      <4> HIDE DEF before
      <4> QED
        BY <3>0, <4>1, <4>2
    <3>2. CASE i # m
      <4>1. new[i] = policy[i] /\ policy[i].platform # platform
        BY <2>2, <2>6, <3>2 DEF IsPolicy
      <4>2. {b \in S \cup {a} : input[b].platform = new[i].platform} = before
        BY <4>1
      <4> QED
        BY <3>0, <4>1, <4>2
    <3> QED
      BY <3>1, <3>2
  <2>10. \A i, j \in DOMAIN new : new[i].platform = new[j].platform => i = j
    BY <2>6, <2>8 DEF IsPolicy
  <2>11. \A b \in S \cup {a} : \E i \in DOMAIN new : new[i].platform = input[b].platform
    BY <2>2, <2>6, <2>8 DEF IsPolicy
  <2> QED
    BY <2>7, <2>9, <2>10, <2>11 DEF IsPolicy, new
<1> QED
  BY <1>1, <1>2

-----------------------------------------------------------------------------
(* The invariant: what is merged so far is what the artifacts read so far say *)

\* The artifacts of a version that were read, what they say case by case, those
\* of them that have a policy record, and the readings of all.
ReadOf(v) == {a \in Artifacts \ todo : input[a].version = v}
CasesIn(a) == UNION {{<<a, s.file, c>> : c \in s.cases} : s \in Suites(input[a])}
CasesRead(v) == UNION {CasesIn(a) : a \in ReadOf(v)}
WithPolicy(v) == {a \in ReadOf(v) : Suites(input[a]) # {} /\ FirstReadable(input[a].policies) # <<>>}
ReadingsRead == UNION {Range(input[a].reports) : a \in {b \in Artifacts \ todo : Suites(input[b]) # {}}}
Shown == {v \in Versions : cards[v].suites # <<>>}

Typed ==
    /\ input \in [Artifacts -> Contents] /\ todo \subseteq Artifacts
    /\ DOMAIN cards = Versions /\ cards = [v \in Versions |-> cards[v]]

\* The suites of a card are those of the artifacts read.
RecordsIn(a) == {parse_suite(s, input[a]) : s \in Suites(input[a])}
SuitesRead ==
    \A v \in Versions :
        LET suites == cards[v].suites
        IN  /\ suites \in Seq(SuiteRecords)
            /\ \A i \in DOMAIN suites : \E a \in ReadOf(v) : suites[i] \in RecordsIn(a)
            /\ \A a \in ReadOf(v) : \A r \in RecordsIn(a) : \E i \in DOMAIN suites : suites[i] = r

\* They count every case once.
CasesCounted ==
    \A v \in Versions : IsFiniteSet(CasesRead(v)) /\ AllCases(cards[v].suites) = Cardinality(CasesRead(v))

PolicyRead == \A v \in Versions : IsPolicy(cards[v].policy, WithPolicy(v))
EndpointRead == endpoint = Verdict(ReadingsRead)

\* The page is made of the cards, once all artifacts are read.
PageShows ==
    /\ page.state \in {"none", "failed", "written"}
    /\ page.state = "written" =>
          /\ todo = {} /\ Shown # {}
          /\ page.versions = [v \in Shown |-> VersionOf(cards[v])]
          /\ page.status = roll_up({VersionOf(cards[v]).status : v \in Shown})

Inv == Typed /\ SuitesRead /\ CasesCounted /\ PolicyRead /\ EndpointRead /\ PageShows

\* What ContentsAssumption says of an XML file.
IsXml(file) ==
    /\ file.suites \in Seq(Range(file.suites))
    /\ ~file.wrapped => Len(file.suites) = 1
    /\ \A j \in DOMAIN file.suites :
          /\ IsFiniteSet(file.suites[j].cases)
          /\ \A k \in file.suites[j].cases : k.xml \in {"passed", "failed", "skipped", "assumption"}

\* A testsuite that is not read because another one comes before it in a wrapper.
Hidden(file, j) ==
    file.wrapped /\ j > 1 /\ (file.suites[1].cases # {} \/ file.suites[1].others)

\* What is read of a file is each case of each testsuite that is not hidden.
LEMMA RootCases ==
    ASSUME NEW file, IsXml(file)
    PROVE  Root(file).cases =
               UNION {{<<j, c>> : c \in file.suites[j].cases} :
                         j \in {i \in DOMAIN file.suites : ~Hidden(file, i)}}
<1> DEFINE first == file.suites[1]
           whole == file.wrapped /\ (file.suites = <<>> \/ (first.cases = {} /\ ~first.others))
           read == IF whole THEN DOMAIN file.suites ELSE {1}
<1>1. Root(file).cases = UNION {{<<j, c>> : c \in file.suites[j].cases} : j \in read}
  BY DEF Root
<1>2. Len(file.suites) \in Nat /\ DOMAIN file.suites = 1..Len(file.suites)
  BY LenProperties DEF IsXml
<1>3. file.suites # <<>> => 1 \in DOMAIN file.suites
  BY <1>2, EmptySeq DEF IsXml
<1>4. file.suites = <<>> => DOMAIN file.suites = {}
  OBVIOUS
<1>5. read = {i \in DOMAIN file.suites : ~Hidden(file, i)}
  <2>1. CASE whole
    BY <1>4, <2>1 DEF Hidden
  <2>2. CASE ~whole /\ file.wrapped
    BY <1>2, <1>3, <2>2 DEF Hidden
  <2>3. CASE ~file.wrapped
    <3>0. Len(file.suites) = 1
      BY <2>3, Zenon DEF IsXml
    <3>1. DOMAIN file.suites = {1}
      BY <1>2, <3>0
    <3> QED
      BY <2>3, <3>1 DEF Hidden
  <2> QED
    BY <2>1, <2>2, <2>3
<1> HIDE DEF read
<1> QED
  BY <1>1, <1>5

\* It is a file as the counting has it.
LEMMA RootTyped ==
    ASSUME NEW file, IsXml(file)
    PROVE  IsFile(Root(file))
<1> DEFINE n == Len(file.suites)
           g == [j \in 1..n |-> {<<j, c>> : c \in file.suites[j].cases}]
           all == UNION {g[j] : j \in 1..n}
<1>1. n \in Nat /\ DOMAIN file.suites = 1..n
  BY LenProperties DEF IsXml
<1>2. ASSUME NEW j \in 1..n PROVE IsFiniteSet(g[j])
  <2> DEFINE cases == file.suites[j].cases
             h == [c \in cases |-> <<j, c>>]
  <2>1. IsFiniteSet(cases)
    BY <1>1 DEF IsXml
  <2>2. g[j] = {<<j, c>> : c \in cases}
    OBVIOUS
  <2>3. h \in Bijection(cases, {<<j, c>> : c \in cases})
    BY DEF Bijection, Injection, Surjection, IsInjective
  <2> QED
    BY <2>1, <2>2, <2>3, FS_Bijection DEF ExistsBijection
<1>3. IsFiniteSet(all)
  <2> HIDE DEF g
  <2> QED
    BY <1>1, <1>2, FiniteUnion
<1>4. ASSUME NEW x \in Root(file).cases
      PROVE  \E j \in 1..n : x \in g[j] /\ \E c \in file.suites[j].cases : x = << j, c >>
  <2>1. PICK j \in DOMAIN file.suites : x \in {<<j, c>> : c \in file.suites[j].cases}
    BY RootCases
  <2> QED
    BY <1>1, <2>1
<1>5. Root(file).cases \in SUBSET all
  <2> HIDE DEF g
  <2> QED
    BY <1>4
<1>6. IsFiniteSet(Root(file).cases)
  BY <1>3, <1>5, FS_Subset
<1>7. \A x \in Root(file).cases : x[2].xml \in {"passed", "failed", "skipped", "assumption"}
  <2> SUFFICES ASSUME NEW x \in Root(file).cases
               PROVE  x[2].xml \in {"passed", "failed", "skipped", "assumption"}
    OBVIOUS
  <2>1. PICK j \in 1..n : \E c \in file.suites[j].cases : x = <<j, c>>
    BY <1>4
  <2>2. PICK c \in file.suites[j].cases : x = <<j, c>>
    BY <2>1
  <2>3. c.xml \in {"passed", "failed", "skipped", "assumption"}
    BY <1>1 DEF IsXml
  <2> QED
    BY <2>2, <2>3
<1> QED
  BY <1>6, <1>7 DEF IsFile

\* The first file that can be read is there if one can be read, and it is that one.
LEMMA FirstRead ==
    ASSUME NEW files, Len(files) \in Nat, DOMAIN files = 1..Len(files)
    PROVE  /\ FirstReadable(files) # <<>> <=> \E i \in DOMAIN files : files[i].readable
           /\ FirstReadable(files) # <<>> =>
                 DOMAIN FirstReadable(files)[1] =
                     UNION {DOMAIN files[i].record : i \in {j \in DOMAIN files :
                               files[j].readable /\ \A k \in 1..j - 1 : ~files[k].readable}}
<1> DEFINE readable == {i \in DOMAIN files : files[i].readable}
           firsts == {j \in DOMAIN files : files[j].readable /\ \A k \in 1..j - 1 : ~files[k].readable}
           m == Min(readable)
<1>1. FirstReadable(files) = IF readable = {} THEN <<>> ELSE <<files[m].record>>
  BY DEF FirstReadable
<1>2. readable # {} => m \in readable /\ \A n \in readable : m <= n
  <2>1. readable \in SUBSET Nat
    OBVIOUS
  <2> HIDE DEF readable
  <2> QED
    BY <2>1, MinIsLeast
<1> HIDE DEF m
<1>3. readable # {} => firsts = {m}
  <2> SUFFICES ASSUME readable # {} PROVE firsts = {m}
    OBVIOUS
  <2>1. m \in 1..Len(files) /\ files[m].readable /\ \A n \in 1..Len(files) : files[n].readable => m <= n
    BY <1>2
  <2>2. m \in firsts
    BY <2>1
  <2>3. ASSUME NEW j \in firsts PROVE j = m
    <3>1. j \in 1..Len(files) /\ m <= j /\ ~(m \in 1..j - 1)
      BY <2>1
    <3> QED
      BY <2>1, <3>1
  <2> QED
    BY <2>2, <2>3
<1>4. FirstReadable(files) # <<>> <=> readable # {}
  BY <1>1
<1>5. readable # {} => FirstReadable(files)[1] = files[m].record
  BY <1>1
<1>6. readable # {} => UNION {DOMAIN files[i].record : i \in firsts} = DOMAIN files[m].record
  <2> HIDE DEF firsts
  <2> QED
    BY <1>3
<1> QED
  BY <1>4, <1>5, <1>6

\* A suite that was read is known by its file.
LEMMA SuiteOf ==
    ASSUME NEW artifact, NEW s \in Suites(artifact)
    PROVE  s.file \in artifact.files /\ s.file.readable /\ s = Root(s.file) /\ s.task = s.file.task
<1>1. PICK f \in artifact.files : f.readable /\ s = Root(f)
  BY DEF Suites
<1>2. Root(f).file = f /\ Root(f).task = f.task
  BY DEF Root
<1> QED
  BY <1>1, <1>2

\* What ContentsAssumption says of the artifacts that are there.
LEMMA InputTyped ==
    ASSUME Typed, NEW a \in Artifacts
    PROVE  /\ IsFiniteSet(Suites(input[a])) /\ AreFiles(Suites(input[a]))
           /\ input[a].reports \in Seq(Readings)
           /\ input[a].version \in Versions
           /\ \A f \in input[a].files : IsXml(f)
           /\ Len(input[a].policies) \in Nat /\ DOMAIN input[a].policies = 1..Len(input[a].policies)
<1> DEFINE files == {f \in input[a].files : f.readable}
           root == [f \in files |-> Root(f)]
<1>1. input[a] \in Contents
  BY DEF Typed
<1>2. IsFiniteSet(files) /\ \A f \in input[a].files : IsXml(f)
  <2>1. IsFiniteSet(input[a].files) /\ files \in SUBSET input[a].files
    BY <1>1, ContentsAssumption
  <2> QED
    BY <1>1, <2>1, FS_Subset, ContentsAssumption DEF IsXml
<1>3. IsFiniteSet(Suites(input[a]))
  <2>1. Suites(input[a]) = {Root(f) : f \in files}
    BY DEF Suites
  <2>2. root \in Surjection(files, Suites(input[a]))
    <3> HIDE DEF files
    <3> QED
      BY <2>1 DEF Surjection
  <2> HIDE DEF files, root
  <2> QED
    BY <1>2, <2>2, FS_Surjection
<1>4. AreFiles(Suites(input[a]))
  <2>1. ASSUME NEW s \in Suites(input[a]) PROVE IsFile(s)
    <3>1. s.file \in input[a].files /\ s = Root(s.file)
      BY SuiteOf
    <3>2. IsFile(Root(s.file))
      BY <1>2, <3>1, RootTyped
    <3> QED
      BY <3>1, <3>2
  <2>2. ASSUME NEW s \in Suites(input[a]), NEW t \in Suites(input[a]), s.file = t.file PROVE s = t
    <3>1. s = Root(s.file) /\ t = Root(t.file)
      BY SuiteOf
    <3> QED
      BY <2>2, <3>1
  <2> QED
    BY <2>1, <2>2 DEF AreFiles
<1>5. input[a].reports \in Seq(Readings)
  BY <1>1, ContentsAssumption DEF Readings
<1>6. input[a].version \in Versions
  BY DEF Versions
<1>7. Len(input[a].policies) \in Nat /\ DOMAIN input[a].policies = 1..Len(input[a].policies)
  <2>1. input[a].policies \in Seq(Range(input[a].policies))
    BY <1>1, ContentsAssumption
  <2> QED
    BY <2>1, LenProperties
<1> QED
  BY <1>2, <1>3, <1>4, <1>5, <1>6, <1>7

\* Before anything is read every card is empty.
LEMMA InitInv == Init => Inv
<1> SUFFICES ASSUME Init PROVE Inv
  OBVIOUS
<1>1. Typed
  BY DEF Init, Typed
<1>2. /\ \A v \in Versions : ReadOf(v) = {} /\ CasesRead(v) = {} /\ WithPolicy(v) = {}
      /\ ReadingsRead = {}
  BY DEF Init, ReadOf, CasesRead, WithPolicy, ReadingsRead
<1>3. \A v \in Versions : cards[v].suites = <<>> /\ cards[v].policy = <<>>
  BY DEF Init, NoCard
<1>4. SuitesRead
  <2>1. <<>> \in Seq(SuiteRecords) /\ DOMAIN <<>> = {}
    BY EmptySeq
  <2> QED
    BY <1>2, <1>3, <2>1 DEF SuitesRead
<1>5. CasesCounted
  BY <1>2, <1>3, AllCasesAppend, FS_EmptySet DEF CasesCounted
<1>6. PolicyRead
  <2>1. IsPolicy(<<>>, {})
    <3>1. <<>> \in Seq(Range(<<>>))
      BY EmptySeq
    <3>2. DOMAIN <<>> = {}
      OBVIOUS
    <3> QED
      BY <3>1, <3>2 DEF IsPolicy
  <2> QED
    BY <1>2, <1>3, <2>1 DEF PolicyRead
<1>7. EndpointRead
  BY <1>2 DEF Init, EndpointRead, Verdict
<1>8. PageShows
  BY DEF Init, PageShows, NoPage
<1> QED
  BY <1>1, <1>4, <1>5, <1>6, <1>7, <1>8 DEF Inv

\* The artifact read is added to what was read of its version, and to no other.
LEMMA ReadMore ==
    ASSUME Typed, NEW a \in Artifacts, ReadArtifact(a)
    PROVE  /\ input' = input /\ Versions' = Versions /\ page' = page /\ page.state = "none"
           /\ a \in todo /\ todo' = todo \ {a}
           /\ \A v \in Versions :
                 /\ ReadOf(v)' = IF v = input[a].version THEN ReadOf(v) \cup {a} ELSE ReadOf(v)
                 /\ CasesRead(v)' = IF v = input[a].version THEN CasesRead(v) \cup CasesIn(a) ELSE CasesRead(v)
                 /\ WithPolicy(v)' = IF /\ v = input[a].version /\ Suites(input[a]) # {}
                                        /\ FirstReadable(input[a].policies) # <<>>
                                     THEN WithPolicy(v) \cup {a} ELSE WithPolicy(v)
           /\ ReadingsRead' = IF Suites(input[a]) # {} THEN ReadingsRead \cup Range(input[a].reports)
                              ELSE ReadingsRead
<1>1. input' = input /\ page' = page /\ page.state = "none" /\ a \in todo /\ todo' = todo \ {a}
  BY DEF ReadArtifact
<1>2. Versions' = Versions
  BY <1>1 DEF Versions
<1>3. Artifacts \ todo' = (Artifacts \ todo) \cup {a}
  BY <1>1 DEF Typed
<1>4. \A v \in Versions : ReadOf(v)' = IF v = input[a].version THEN ReadOf(v) \cup {a} ELSE ReadOf(v)
  BY <1>1, <1>3 DEF ReadOf
<1>5. \A b : CasesIn(b)' = CasesIn(b)
  BY <1>1 DEF CasesIn
<1>6. \A v \in Versions :
        CasesRead(v)' = IF v = input[a].version THEN CasesRead(v) \cup CasesIn(a) ELSE CasesRead(v)
  <2> SUFFICES ASSUME NEW v \in Versions
               PROVE  CasesRead(v)' = IF v = input[a].version THEN CasesRead(v) \cup CasesIn(a) ELSE CasesRead(v)
    OBVIOUS
  <2>1. CasesRead(v)' = UNION {CasesIn(b) : b \in ReadOf(v)'}
    BY <1>5 DEF CasesRead
  <2> QED
    BY <1>4, <2>1 DEF CasesRead
<1>7. \A v \in Versions :
        WithPolicy(v)' = IF v = input[a].version /\ Suites(input[a]) # {} /\ FirstReadable(input[a].policies) # <<>>
                         THEN WithPolicy(v) \cup {a} ELSE WithPolicy(v)
  BY <1>1, <1>4 DEF WithPolicy
<1>8. ReadingsRead' = IF Suites(input[a]) # {} THEN ReadingsRead \cup Range(input[a].reports) ELSE ReadingsRead
  <2> DEFINE old == {b \in Artifacts \ todo : Suites(input[b]) # {}}
             new == {b \in Artifacts \ todo' : Suites(input[b]) # {}}
  <2>1. ReadingsRead' = UNION {Range(input[b].reports) : b \in new}
    BY <1>1 DEF ReadingsRead
  <2>2. ReadingsRead = UNION {Range(input[b].reports) : b \in old}
    BY DEF ReadingsRead
  <2>3. new = IF Suites(input[a]) # {} THEN old \cup {a} ELSE old
    BY <1>3
  <2> HIDE DEF old, new
  <2> QED
    BY <2>1, <2>2, <2>3
<1> QED
  BY <1>1, <1>2, <1>4, <1>6, <1>7, <1>8

\* Without suites an artifact changes nothing but what is still to be read.
LEMMA SkippedInv == ASSUME Inv, NEW a \in Artifacts, ReadArtifact(a), Suites(input[a]) = {} PROVE Inv'
<1>1. Typed
  BY DEF Inv
<1>2. cards' = cards /\ endpoint' = endpoint
  BY DEF ReadArtifact
<1>3. /\ input' = input /\ Versions' = Versions /\ page' = page /\ page.state = "none" /\ todo' = todo \ {a}
      /\ \A v \in Versions :
            /\ ReadOf(v)' = IF v = input[a].version THEN ReadOf(v) \cup {a} ELSE ReadOf(v)
            /\ CasesRead(v)' = IF v = input[a].version THEN CasesRead(v) \cup CasesIn(a) ELSE CasesRead(v)
            /\ WithPolicy(v)' = WithPolicy(v)
      /\ ReadingsRead' = ReadingsRead
  BY <1>1, ReadMore
<1>4. CasesIn(a) = {}
  BY DEF CasesIn
<1>5. Typed'
  BY <1>1, <1>2, <1>3 DEF Typed
<1>6. SuitesRead'
  <2>1. RecordsIn(a) = {} /\ \A b : RecordsIn(b)' = RecordsIn(b)
    BY <1>3 DEF RecordsIn
  <2> QED
    BY <1>2, <1>3, <2>1 DEF Inv, SuitesRead
<1>7. CasesCounted'
  BY <1>2, <1>3, <1>4 DEF Inv, CasesCounted
<1>8. PolicyRead'
  BY <1>2, <1>3 DEF Inv, PolicyRead, IsPolicy
<1>9. EndpointRead'
  BY <1>2, <1>3 DEF Inv, EndpointRead
<1>10. PageShows'
  BY <1>3 DEF Inv, PageShows
<1> QED
  BY <1>5, <1>6, <1>7, <1>8, <1>9, <1>10 DEF Inv

\* An artifact with suites adds them, its record and its readings to the card of its version.
LEMMA MergedInv == ASSUME Inv, NEW a \in Artifacts, ReadArtifact(a), Suites(input[a]) # {} PROVE Inv'
<1> DEFINE art == input[a]
           f == SetToSeq(Suites(art))
           t == [i \in DOMAIN f |-> parse_suite(f[i], art)]
           card == AddArtifact(cards[art.version], art, t)
<1>1. Typed
  BY DEF Inv
<1>2. /\ IsFiniteSet(Suites(art)) /\ AreFiles(Suites(art))
      /\ art.reports \in Seq(Readings) /\ art.version \in Versions
  BY <1>1, InputTyped
<1>3. cards' = [cards EXCEPT ![art.version] = card] /\ endpoint' = Merged(endpoint, parse_endpoints(art.reports))
  BY DEF ReadArtifact
<1>4. /\ card.suites = cards[art.version].suites \o t
      /\ card.policy = IF FirstReadable(art.policies) = <<>> THEN cards[art.version].policy
                       ELSE MergedPolicy(cards[art.version].policy, art.platform, FirstReadable(art.policies)[1])
  BY DEF AddArtifact
<1> HIDE DEF card
<1>5. /\ f \in Seq(Suites(art)) /\ Len(f) \in Nat /\ DOMAIN f = 1..Len(f)
      /\ \A i \in 1..Len(f) : f[i] \in Suites(art)
      /\ \A s \in Suites(art) : \E i \in 1..Len(f) : f[i] = s
  <2>1. IsFiniteSet(Suites(art)) /\ f = SetToSeq(Suites(art))
    BY <1>2
  <2> HIDE DEF f, art
  <2>2. f \in Seq(Suites(art))
    BY <2>1, Listed
  <2>3. \A s \in Suites(art) : \E i \in 1..Len(f) : f[i] = s
    BY <2>1, Listed
  <2> QED
    BY <2>2, <2>3, LenProperties, ElementOfSeq
<1>6. /\ t \in Seq(SuiteRecords) /\ Len(t) = Len(f)
      /\ IsFiniteSet(CasesUpTo(a, f, Len(f))) /\ AllCases(t) = Cardinality(CasesUpTo(a, f, Len(f)))
  <2>1. IsFiniteSet(Suites(art)) /\ (AreFiles(Suites(art)))
    BY <1>2
  <2>2. f = SetToSeq(Suites(art)) /\ t = RecordsOf(f, art)
    BY DEF RecordsOf
  <2> HIDE DEF f, t, art
  <2>3. t \in Seq(SuiteRecords)
    BY <2>1, <2>2, FilesTyped
  <2>4. Len(t) = Len(f)
    BY <2>1, <2>2, FilesTyped
  <2>5. IsFiniteSet(CasesUpTo(a, f, Len(f)))
    BY <2>1, <2>2, FilesFinite
  <2>6. AllCases(t) = Cardinality(CasesUpTo(a, f, Len(f)))
    BY <2>1, <2>2, FilesAddUp
  <2> QED
    BY <2>3, <2>4, <2>5, <2>6
<1>7. CasesIn(a) = CasesUpTo(a, f, Len(f))
  <2> HIDE DEF f
  <2>1. Suites(art) = {f[i] : i \in 1..Len(f)}
    BY <1>5
  <2> QED
    BY <2>1 DEF CasesIn, CasesUpTo
<1>8. \A i \in 1..Len(f) : t[i] = parse_suite(f[i], art)
  BY <1>5
<1> HIDE DEF f, t
<1>9. /\ input' = input /\ Versions' = Versions /\ page' = page /\ page.state = "none"
      /\ a \in todo /\ todo' = todo \ {a}
      /\ \A v \in Versions :
            /\ ReadOf(v)' = IF v = art.version THEN ReadOf(v) \cup {a} ELSE ReadOf(v)
            /\ CasesRead(v)' = IF v = art.version THEN CasesRead(v) \cup CasesIn(a) ELSE CasesRead(v)
            /\ WithPolicy(v)' = IF v = art.version /\ FirstReadable(art.policies) # <<>>
                                THEN WithPolicy(v) \cup {a} ELSE WithPolicy(v)
      /\ ReadingsRead' = ReadingsRead \cup Range(art.reports)
  BY <1>1, ReadMore
<1>10. \A v \in Versions : cards'[v] = IF v = art.version THEN card ELSE cards[v]
  BY <1>1, <1>3 DEF Typed
<1>11. Typed'
  <2>1. DOMAIN cards' = Versions /\ cards' = [v \in Versions |-> cards'[v]]
    BY <1>1, <1>3 DEF Typed
  <2> QED
    BY <1>1, <1>9, <2>1 DEF Typed
<1>12. SuitesRead'
  <2> SUFFICES ASSUME NEW v \in Versions
               PROVE  /\ cards'[v].suites \in Seq(SuiteRecords)
                      /\ \A i \in DOMAIN cards'[v].suites : \E b \in ReadOf(v)' :
                            cards'[v].suites[i] \in RecordsIn(b)
                      /\ \A b \in ReadOf(v)' : \A r \in RecordsIn(b) : \E i \in DOMAIN cards'[v].suites :
                            cards'[v].suites[i] = r
    <3>1. \A b : RecordsIn(b)' = RecordsIn(b)
      BY <1>9 DEF RecordsIn
    <3> QED
      BY <1>9, <3>1 DEF SuitesRead
  <2> DEFINE old == cards[v].suites
  <2>1. /\ old \in Seq(SuiteRecords) /\ Len(old) \in Nat /\ DOMAIN old = 1..Len(old)
        /\ \A i \in DOMAIN old : \E b \in ReadOf(v) : old[i] \in RecordsIn(b)
        /\ \A b \in ReadOf(v) : \A r \in RecordsIn(b) : \E i \in DOMAIN old : old[i] = r
    BY LenProperties DEF Inv, SuitesRead
  <2>2. CASE v # art.version
    BY <1>9, <1>10, <2>1, <2>2
  <2>3. CASE v = art.version
    <3> DEFINE new == old \o t
    <3>1. cards'[v].suites = new /\ ReadOf(v)' = ReadOf(v) \cup {a}
      BY <1>4, <1>9, <1>10, <2>3
    <3>2. /\ new \in Seq(SuiteRecords) /\ Len(new) = Len(old) + Len(t) /\ DOMAIN new = 1..(Len(old) + Len(t))
          /\ \A i \in 1..Len(old) : new[i] = old[i]
          /\ \A i \in 1..Len(t) : new[Len(old) + i] = t[i]
      <4>1. /\ new \in Seq(SuiteRecords) /\ Len(new) = Len(old) + Len(t)
            /\ \A i \in 1..(Len(old) + Len(t)) : new[i] = IF i <= Len(old) THEN old[i] ELSE t[i - Len(old)]
        <5>1. old \in Seq(SuiteRecords) /\ t \in Seq(SuiteRecords)
          BY <1>6, <2>1
        <5> HIDE DEF t, old
        <5> QED
          BY <5>1, ConcatProperties
      <4>2. \A i \in 1..Len(t) : new[Len(old) + i] = t[i]
        <5> SUFFICES ASSUME NEW i \in 1..Len(t) PROVE new[Len(old) + i] = t[i]
          OBVIOUS
        <5>1. Len(old) + i \in 1..(Len(old) + Len(t)) /\ ~(Len(old) + i <= Len(old)) /\ (Len(old) + i) - Len(old) = i
          BY <1>5, <1>6, <2>1
        <5> HIDE DEF new, old
        <5> QED
          BY <4>1, <5>1
      <4> QED
        BY <1>5, <1>6, <2>1, <4>1, <4>2, LenProperties
    <3> HIDE DEF new, old
    <3>3. ASSUME NEW i \in DOMAIN new
          PROVE  \E b \in ReadOf(v) \cup {a} : new[i] \in RecordsIn(b)
      <4>1. CASE i \in 1..Len(old)
        BY <2>1, <3>2, <4>1
      <4>2. CASE i \notin 1..Len(old)
        <5>1. i - Len(old) \in 1..Len(t) /\ i = Len(old) + (i - Len(old))
          BY <1>5, <1>6, <2>1, <3>2, <4>2
        <5>2. new[i] = t[i - Len(old)]
          BY <3>2, <5>1
        <5>3. new[i] = parse_suite(f[i - Len(old)], art) /\ f[i - Len(old)] \in Suites(art)
          BY <1>5, <1>6, <1>8, <5>1, <5>2
        <5> QED
          BY <5>3 DEF RecordsIn
      <4> QED
        BY <4>1, <4>2
    <3>4. ASSUME NEW b \in ReadOf(v) \cup {a}, NEW r \in RecordsIn(b)
          PROVE  \E i \in DOMAIN new : new[i] = r
      <4>1. CASE b \in ReadOf(v)
        <5>1. PICK i \in DOMAIN old : old[i] = r
          BY <2>1, <4>1
        <5>2. i \in DOMAIN new /\ new[i] = old[i]
          BY <1>5, <1>6, <2>1, <3>2, <5>1
        <5> QED
          BY <5>1, <5>2
      <4>2. CASE b = a
        <5>0. PICK s \in Suites(art) : r = parse_suite(s, art)
          BY <4>2 DEF RecordsIn
        <5>1. PICK i \in 1..Len(f) : f[i] = s
          BY <1>5
        <5>2. Len(old) + i \in DOMAIN new /\ new[Len(old) + i] = t[i]
          BY <1>5, <1>6, <2>1, <3>2, <5>1
        <5> QED
          BY <1>8, <5>0, <5>1, <5>2
      <4> QED
        BY <4>1, <4>2
    <3> QED
      BY <3>1, <3>2, <3>3, <3>4
  <2> QED
    BY <2>2, <2>3
<1>13. CasesCounted'
  <2> SUFFICES ASSUME NEW v \in Versions
               PROVE  IsFiniteSet(CasesRead(v)') /\ AllCases(cards'[v].suites) = Cardinality(CasesRead(v)')
    BY <1>9 DEF CasesCounted, AllCases, Total
  <2>1. IsFiniteSet(CasesRead(v)) /\ AllCases(cards[v].suites) = Cardinality(CasesRead(v))
    BY DEF Inv, CasesCounted
  <2>2. CASE v # art.version
    BY <1>9, <1>10, <2>1, <2>2
  <2>3. CASE v = art.version
    <3>1. CasesRead(v) \cap CasesIn(a) = {}
      <4>1. a \notin ReadOf(v)
        BY <1>9 DEF ReadOf
      <4> QED
        BY <4>1 DEF CasesRead, CasesIn
    <3>2. /\ IsFiniteSet(CasesRead(v) \cup CasesIn(a))
          /\ Cardinality(CasesRead(v) \cup CasesIn(a)) = Cardinality(CasesRead(v)) + Cardinality(CasesIn(a))
      <4>1. IsFiniteSet(CasesIn(a)) /\ IsFiniteSet(CasesRead(v))
        BY <1>6, <1>7, <2>1
      <4> QED
        BY <3>1, <4>1, DisjointUnion
    <3>3. AllCases(cards[v].suites \o t) = AllCases(cards[v].suites) + AllCases(t)
      <4>1. cards[v].suites \in Seq(SuiteRecords)
        BY DEF Inv, SuitesRead
      <4> QED
        BY <1>6, <4>1, AllCasesConcat
    <3>4. cards'[v].suites = cards[v].suites \o t /\ CasesRead(v)' = CasesRead(v) \cup CasesIn(a)
      BY <1>4, <1>9, <1>10, <2>3
    <3> QED
      BY <1>6, <1>7, <2>1, <3>2, <3>3, <3>4
  <2> QED
    BY <2>2, <2>3
<1>14. PolicyRead'
  <2> SUFFICES ASSUME NEW v \in Versions PROVE IsPolicy(cards'[v].policy, WithPolicy(v)')
    BY <1>9 DEF PolicyRead, IsPolicy
  <2>1. IsPolicy(cards[v].policy, WithPolicy(v))
    BY DEF Inv, PolicyRead
  <2>2. IsPolicy(MergedPolicy(cards[v].policy, art.platform, FirstReadable(art.policies)[1]), WithPolicy(v) \cup {a})
    BY <2>1, PolicyMerged
  <2> QED
    BY <1>4, <1>9, <1>10, <2>1, <2>2
<1>15. EndpointRead'
  <2>1. parse_endpoints(art.reports) = Verdict(Range(art.reports))
    BY <1>2, ReportsMerged
  <2>2. Merged(Verdict(ReadingsRead), Verdict(Range(art.reports))) = Verdict(ReadingsRead \cup Range(art.reports))
    BY VerdictMerged
  <2> QED
    BY <1>3, <1>9, <2>1, <2>2 DEF Inv, EndpointRead, Verdict
<1>16. PageShows'
  BY <1>9 DEF Inv, PageShows
<1> QED
  BY <1>11, <1>12, <1>13, <1>14, <1>15, <1>16 DEF Inv

\* A step that reads nothing leaves what was read as it is.
LEMMA ReadUnchanged ==
    ASSUME Inv, UNCHANGED <<input, todo, cards, endpoint>>
    PROVE  Typed' /\ SuitesRead' /\ CasesCounted' /\ PolicyRead' /\ EndpointRead'
<1>1. Versions' = Versions /\ (\A v : ReadOf(v)' = ReadOf(v)) /\ (\A a : CasesIn(a)' = CasesIn(a))
  BY DEF Versions, ReadOf, CasesIn
<1>2. Typed'
  BY <1>1 DEF Inv, Typed
<1>3. SuitesRead'
  <2>1. \A a : RecordsIn(a)' = RecordsIn(a)
    BY DEF RecordsIn
  <2> QED
    BY <1>1, <2>1 DEF Inv, SuitesRead
<1>4. CasesCounted'
  <2>1. \A v : CasesRead(v)' = CasesRead(v)
    BY <1>1 DEF CasesRead
  <2> QED
    BY <1>1, <2>1 DEF Inv, CasesCounted
<1>5. PolicyRead'
  <2>1. \A v : WithPolicy(v)' = WithPolicy(v)
    BY <1>1 DEF WithPolicy
  <2> QED
    BY <1>1, <2>1 DEF Inv, PolicyRead, IsPolicy
<1>6. EndpointRead'
  BY DEF Inv, EndpointRead, ReadingsRead
<1> QED
  BY <1>2, <1>3, <1>4, <1>5, <1>6

\* The last step makes the page of the cards, and changes no card.
LEMMA WrittenInv == Inv /\ Write => Inv'
<1> SUFFICES ASSUME Inv, Write PROVE Inv'
  OBVIOUS
<1>1. UNCHANGED <<input, todo, cards, endpoint>> /\ todo = {}
  BY DEF Write
<1>2. Versions' = Versions /\ Shown' = Shown
  BY <1>1 DEF Versions, Shown
<1>3. Typed' /\ SuitesRead' /\ CasesCounted' /\ PolicyRead' /\ EndpointRead'
  BY <1>1, ReadUnchanged DEF Inv
<1>4. PageShows'
  <2> DEFINE versions == [v \in Shown |-> VersionOf(cards[v])]
  <2>1. page' = IF Shown = {} THEN NoPage("failed")
                ELSE [state |-> "written", versions |-> versions,
                      status |-> roll_up({versions[v].status : v \in Shown})]
    BY DEF Write, Shown
  <2>2. {versions[v].status : v \in Shown} = {VersionOf(cards[v]).status : v \in Shown}
    OBVIOUS
  <2>3. CASE Shown = {}
    BY <2>1, <2>3 DEF PageShows, NoPage
  <2>4. CASE Shown # {}
    <3>1. /\ page'.state = "written" /\ page'.versions = versions
          /\ page'.status = roll_up({VersionOf(cards[v]).status : v \in Shown})
      BY <2>1, <2>2, <2>4
    <3> QED
      BY <1>1, <1>2, <2>4, <3>1 DEF PageShows
  <2> QED
    BY <2>3, <2>4
<1> QED
  BY <1>3, <1>4 DEF Inv

\* The invariant holds throughout.
THEOREM Invariance == Spec => []Inv
<1>1. Init => Inv
  BY InitInv
<1>2. Inv /\ [Next]_vars => Inv'
  <2> SUFFICES ASSUME Inv, [Next]_vars PROVE Inv'
    OBVIOUS
  <2>1. ASSUME NEW a \in Artifacts, ReadArtifact(a) PROVE Inv'
    BY <2>1, SkippedInv, MergedInv
  <2>2. CASE Write
    BY <2>2, WrittenInv
  <2>3. CASE UNCHANGED vars
    <3>1. Shown' = Shown
      BY <2>3 DEF vars, Shown, Versions
    <3>2. PageShows'
      BY <2>3, <3>1 DEF vars, Inv, PageShows
    <3> QED
      BY <2>3, <3>2, ReadUnchanged DEF vars, Inv
  <2> QED
    BY <2>1, <2>2, <2>3 DEF Next
<1> QED
  BY <1>1, <1>2, PTL DEF Spec

-----------------------------------------------------------------------------
(* The theorems *)

\* An artifact is skipped if none of its files can be parsed.
LEMMA SkippedAre == \A a \in Artifacts : Suites(input[a]) # {} <=> a \in WithResults
  BY DEF Suites, WithResults

\* In the end what was read is what is recorded, but for the cases of unreadable
\* files and those that a wrapper hides.
LEMMA AllRead ==
    ASSUME Typed, todo = {}, NEW v \in Versions
    PROVE  CasesRead(v) = CasesOf(v)
<1>1. ReadOf(v) = {a \in Artifacts : input[a].version = v}
  BY DEF ReadOf
<1>2. ASSUME NEW x \in CasesRead(v) PROVE x \in CasesOf(v)
  <2>1. PICK a \in ReadOf(v) : x \in CasesIn(a)
    BY DEF CasesRead
  <2>2. PICK s \in Suites(input[a]) : \E y \in s.cases : x = <<a, s.file, y>>
    BY <2>1 DEF CasesIn
  <2>3. s.file \in input[a].files /\ s.file.readable /\ s = Root(s.file)
    BY SuiteOf
  <2>4. a \in Artifacts /\ IsXml(s.file)
    BY <2>3, InputTyped DEF ReadOf
  <2>5. PICK j \in DOMAIN s.file.suites : \E c \in s.file.suites[j].cases :
            x = <<a, s.file, <<j, c>>>> /\ ~Hidden(s.file, j)
    BY <2>2, <2>3, <2>4, RootCases
  <2>6. x \in Recorded(v)
    BY <1>1, <2>3, <2>5 DEF Recorded
  <2>7. x[2] = s.file /\ x[3][1] = j
    BY <2>5
  <2> QED
    BY <2>3, <2>5, <2>6, <2>7 DEF CasesOf, Unreadable, Dropped, Hidden
<1>3. ASSUME NEW x \in CasesOf(v) PROVE x \in CasesRead(v)
  <2>1. x \in Recorded(v) /\ x \notin Unreadable(v) /\ x \notin Dropped(v)
    BY DEF CasesOf
  <2> DEFINE Here(a, f) == UNION {{<<a, f, <<j, c>>>> : c \in f.suites[j].cases} : j \in DOMAIN f.suites}
  <2>a. PICK a \in ReadOf(v) : \E f \in input[a].files : x \in Here(a, f)
    BY <1>1, <2>1 DEF Recorded
  <2>b. PICK f \in input[a].files : x \in Here(a, f)
    BY <2>a
  <2>c. PICK j \in DOMAIN f.suites : \E c \in f.suites[j].cases : x = <<a, f, <<j, c>>>>
    BY <2>b
  <2>2. PICK c \in f.suites[j].cases : x = <<a, f, <<j, c>>>>
    BY <2>c
  <2>3. x[2] = f /\ x[3][1] = j
    BY <2>2
  <2>4. f.readable /\ ~Hidden(f, j)
    BY <2>1, <2>3 DEF Unreadable, Dropped, Hidden
  <2>5. IsXml(f)
    BY InputTyped DEF ReadOf
  <2>6. <<j, c>> \in Root(f).cases
    BY <2>4, <2>5, RootCases
  <2>7. Root(f) \in Suites(input[a]) /\ Root(f).file = f
    BY <2>4 DEF Suites, Root
  <2>8. x \in CasesIn(a)
    BY <2>2, <2>6, <2>7 DEF CasesIn
  <2> QED
    BY <2>8 DEF CasesRead
<1> QED
  BY <1>2, <1>3

\* The status of a card is red exactly if one of its artifacts has a failure in a
\* gating or critical suite that nothing excuses.
LEMMA VersionRed ==
    ASSUME Inv, NEW v \in Versions
    PROVE  VersionOf(cards[v]).status = "failed"
               <=> \E a \in ReadOf(v) : \E s \in Suites(input[a]) :
                      Gates(s) /\ \E c \in s.cases : Unexcused(s, c, input[a])
<1> DEFINE suites == cards[v].suites
           statuses == {suite_status(suites[i]) : i \in DOMAIN suites}
<1>1. VersionOf(cards[v]).status = "failed" <=> "failed" \in statuses
  BY WorstRed DEF VersionOf
<1>2. ASSUME NEW a \in ReadOf(v), NEW s \in Suites(input[a])
      PROVE  suite_status(parse_suite(s, input[a])) = "failed"
                <=> Gates(s) /\ \E c \in s.cases : Unexcused(s, c, input[a])
  <2>1. IsFile(s)
    BY InputTyped DEF Inv, ReadOf, AreFiles
  <2> QED
    BY <2>1, SuiteRed
<1>3. /\ \A i \in DOMAIN suites : \E a \in ReadOf(v) : \E s \in Suites(input[a]) :
            suites[i] = parse_suite(s, input[a])
      /\ \A a \in ReadOf(v) : \A s \in Suites(input[a]) : \E i \in DOMAIN suites :
            suites[i] = parse_suite(s, input[a])
  <2>1. \A a, r : r \in RecordsIn(a) <=> \E s \in Suites(input[a]) : r = parse_suite(s, input[a])
    BY DEF RecordsIn
  <2>2. /\ \A i \in DOMAIN suites : \E a \in ReadOf(v) : suites[i] \in RecordsIn(a)
        /\ \A a \in ReadOf(v) : \A r \in RecordsIn(a) : \E i \in DOMAIN suites : suites[i] = r
    BY DEF Inv, SuitesRead
  <2>3. ASSUME NEW i \in DOMAIN suites
        PROVE  \E a \in ReadOf(v) : \E s \in Suites(input[a]) : suites[i] = parse_suite(s, input[a])
    <3>1. PICK a \in ReadOf(v) : suites[i] \in RecordsIn(a)
      BY <2>2
    <3> HIDE DEF suites
    <3> QED
      BY <2>1, <3>1
  <2>4. ASSUME NEW a \in ReadOf(v), NEW s \in Suites(input[a])
        PROVE  \E i \in DOMAIN suites : suites[i] = parse_suite(s, input[a])
    <3>1. parse_suite(s, input[a]) \in RecordsIn(a)
      BY DEF RecordsIn
    <3> QED
      BY <2>2, <3>1
  <2> QED
    BY <2>3, <2>4
<1>4. "failed" \in statuses
          <=> \E a \in ReadOf(v) : \E s \in Suites(input[a]) : suite_status(parse_suite(s, input[a])) = "failed"
  BY <1>3
<1> QED
  BY <1>1, <1>2, <1>4

\* The variables of the collector keep their types, and a snapshot has one of the five
\* statuses of a suite, never the one roll_up keeps for an empty list (collect_results.py:466-471).
THEOREM TypeCorrect == Spec => []TypeOK
<1>1. Inv => TypeOK
  <2> SUFFICES ASSUME Inv PROVE TypeOK
    OBVIOUS
  <2>1. \A v \in Versions : \A i \in DOMAIN cards[v].suites : cards[v].suites[i] \in SuiteRecords
    BY ElementOfSeq, LenProperties DEF Inv, SuitesRead
  <2>2. \A s \in SuiteRecords : /\ s.reporting \in BOOLEAN /\ s.severity \in {"critical", "watch"}
                                /\ {s.passed, s.failed, s.expected, s.skipped} \subseteq Nat
    BY DEF SuiteRecords
  <2>3. endpoint \in {"absent", "up", "down"}
    BY DEF Inv, EndpointRead, Verdict
  <2>4. ASSUME page.state = "written" PROVE page.status \in Statuses
    <3>1. ASSUME NEW v \in Shown PROVE VersionOf(cards[v]).status \in Statuses
      <4> DEFINE suites == cards[v].suites
                 statuses == {suite_status(suites[i]) : i \in DOMAIN suites}
      <4>1. suites # <<>> /\ suites \in Seq(SuiteRecords)
        BY DEF Shown, Inv, SuitesRead
      <4>2. 1 \in DOMAIN suites
        <5> HIDE DEF suites
        <5> QED
          BY <4>1, EmptySeq, LenProperties
      <4>3. statuses # {} /\ statuses \subseteq Statuses
        BY <4>2 DEF suite_status, Statuses
      <4>4. VersionOf(cards[v]).status = roll_up(statuses)
        BY DEF VersionOf
      <4> HIDE DEF statuses
      <4> QED
        BY <4>3, <4>4, WorstKnown
    <3>2. Shown # {} /\ page.status = roll_up({VersionOf(cards[v]).status : v \in Shown})
      BY <2>4 DEF Inv, PageShows
    <3> DEFINE statuses == {VersionOf(cards[v]).status : v \in Shown}
    <3>3. statuses # {} /\ statuses \subseteq Statuses
      BY <3>1, <3>2
    <3> HIDE DEF statuses
    <3>4. roll_up(statuses) \in Statuses
      BY <3>3, WorstKnown
    <3> QED
      BY <3>2, <3>4 DEF statuses
  <2> QED
    BY <2>1, <2>2, <2>3, <2>4 DEF Inv, Typed, PageShows, TypeOK, Statuses
<1> QED
  BY <1>1, Invariance, PTL

\* The page's red is reserved for a result nobody predicted, and shows every such
\* result in a suite that gates or is critical.
THEOREM RedIsExactHolds == Spec => []RedIsExact
<1>1. Inv => RedIsExact
  <2> SUFFICES ASSUME Inv, Written
               PROVE  page.status = "failed" <=>
                          \E v \in Versions : \E x \in CasesOf(v) :
                              Unpredicted(x) /\ (\/ Root(x[2]).class \in CRITICAL_SUITES
                                                 \/ /\ x[2].task \notin REPORTING_TASKS
                                                    /\ Root(x[2]).class \notin REPORTING_CLASSES)
    BY DEF RedIsExact
  <2> DEFINE Red(v) == \E a \in ReadOf(v) : \E s \in Suites(input[a]) :
                          Gates(s) /\ \E c \in s.cases : Unexcused(s, c, input[a])
  <2>1. todo = {} /\ page.status = roll_up({VersionOf(cards[v]).status : v \in Shown})
    BY DEF Inv, PageShows, Written
  <2>2. page.status = "failed" <=> \E v \in Shown : VersionOf(cards[v]).status = "failed"
    BY <2>1, WorstRed
  <2>3. \A v \in Versions : VersionOf(cards[v]).status = "failed" <=> Red(v)
    BY VersionRed
  <2>4. ASSUME NEW v \in Versions, Red(v) PROVE v \in Shown
    <3>0. PICK a \in ReadOf(v) : RecordsIn(a) # {}
      BY <2>4 DEF RecordsIn
    <3>1. PICK i : i \in DOMAIN cards[v].suites
      BY <3>0 DEF Inv, SuitesRead
    <3>2. DOMAIN <<>> = {}
      OBVIOUS
    <3> QED
      BY <3>1, <3>2 DEF Shown
  <2>5. page.status = "failed" <=> \E v \in Versions : Red(v)
    BY <2>2, <2>3, <2>4 DEF Shown
  <2>6. ASSUME NEW v \in Versions
        PROVE  Red(v) <=> \E x \in CasesOf(v) : Unpredicted(x) /\ Gates(Root(x[2]))
    <3>1. CasesOf(v) = UNION {CasesIn(a) : a \in ReadOf(v)}
      BY <2>1, AllRead DEF Inv, CasesRead
    <3>2. ASSUME NEW a, NEW s \in Suites(input[a]), NEW c
          PROVE  /\ Unpredicted(<< a, s.file, c >>) <=> Unexcused(s, c, input[a])
                 /\ << a, s.file, c >>[2] = s.file /\ Root(s.file) = s
      <4>1. Root(s.file) = s
        BY SuiteOf
      <4> QED
        BY <4>1 DEF Unpredicted, Unexcused
    <3>3. ASSUME NEW x \in CasesOf(v), Unpredicted(x), Gates(Root(x[2])) PROVE Red(v)
      <4>1. PICK a \in ReadOf(v) : x \in CasesIn(a)
        BY <3>1
      <4>2. PICK s \in Suites(input[a]) : \E c \in s.cases : x = <<a, s.file, c>>
        BY <4>1 DEF CasesIn
      <4>3. PICK c \in s.cases : x = <<a, s.file, c>>
        BY <4>2
      <4>4. Unexcused(s, c, input[a]) /\ Gates(s)
        BY <3>2, <3>3, <4>3
      <4> QED
        BY <4>4
    <3>4. ASSUME Red(v) PROVE \E x \in CasesOf(v) : Unpredicted(x) /\ Gates(Root(x[2]))
      <4>1. PICK a \in ReadOf(v) : \E s \in Suites(input[a]) :
                Gates(s) /\ \E c \in s.cases : Unexcused(s, c, input[a])
        BY <3>4
      <4>2. PICK s \in Suites(input[a]) : Gates(s) /\ \E c \in s.cases : Unexcused(s, c, input[a])
        BY <4>1
      <4>3. PICK c \in s.cases : Unexcused(s, c, input[a])
        BY <4>2
      <4>4. <<a, s.file, c>> \in CasesOf(v)
        BY <3>1 DEF CasesIn
      <4> QED
        BY <3>2, <4>2, <4>3, <4>4
    <3> QED
      BY <3>3, <3>4
  <2>7. \A f : Gates(Root(f)) <=> \/ Root(f).class \in CRITICAL_SUITES
                                  \/ /\ f.task \notin REPORTING_TASKS
                                     /\ Root(f).class \notin REPORTING_CLASSES
    <3>1. \A f : Root(f).task = f.task
      BY DEF Root
    <3> QED
      BY <3>1 DEF Gates
  <2> QED
    BY <2>5, <2>6, <2>7
<1> QED
  BY <1>1, Invariance, PTL

\* Every case that was read is counted once, every policy check that was read is kept,
\* and a reading of down wins, in whatever order the artifacts are read.  What is not
\* read is exactly the cases of unreadable files and those a wrapper hides.
THEOREM MergeLosesNothingHolds == Spec => []MergeLosesNothing
<1>1. Inv => CountsAddUp
  <2> SUFFICES ASSUME Inv, Written, NEW v \in DOMAIN page.versions
               PROVE  Sum(page.versions[v]) = Cardinality(CasesOf(v))
    BY DEF CountsAddUp
  <2>1. todo = {} /\ page.versions = [w \in Shown |-> VersionOf(cards[w])]
    BY DEF Inv, PageShows, Written
  <2>2. v \in Shown /\ v \in Versions /\ page.versions[v] = VersionOf(cards[v])
    BY <2>1 DEF Shown
  <2>3. AllCases(cards[v].suites) = Cardinality(CasesRead(v))
    BY <2>2 DEF Inv, CasesCounted
  <2>4. CasesRead(v) = CasesOf(v)
    BY <2>1, <2>2, AllRead DEF Inv
  <2>5. Sum(page.versions[v]) = AllCases(cards[v].suites)
    BY <2>2 DEF AllCases, VersionOf, Sum
  <2> QED
    BY <2>3, <2>4, <2>5
<1>2. Inv => PolicyComplete
  <2> SUFFICES ASSUME Inv, todo = {}, NEW v \in Versions
               PROVE  LET policy == cards[v].policy
                          Of(p) == {a \in WithResults :
                                       /\ input[a].version = v /\ input[a].platform = p
                                       /\ \E i \in DOMAIN input[a].policies : input[a].policies[i].readable}
                      IN  /\ \A i, j \in DOMAIN policy : policy[i].platform = policy[j].platform => i = j
                          /\ \A i \in DOMAIN policy :
                                DOMAIN policy[i].checks = UNION {ChecksOf(a) : a \in Of(policy[i].platform)}
                          /\ \A a \in Artifacts : a \in Of(input[a].platform) =>
                                \E i \in DOMAIN policy : policy[i].platform = input[a].platform
    BY DEF PolicyComplete
  <2> DEFINE policy == cards[v].policy
             Of(p) == {a \in WithResults :
                          /\ input[a].version = v /\ input[a].platform = p
                          /\ \E i \in DOMAIN input[a].policies : input[a].policies[i].readable}
  <2>1. IsPolicy(policy, WithPolicy(v))
    BY DEF Inv, PolicyRead
  <2>2. ASSUME NEW a \in Artifacts
        PROVE  /\ FirstReadable(input[a].policies) # <<>>
                      <=> \E i \in DOMAIN input[a].policies : input[a].policies[i].readable
               /\ FirstReadable(input[a].policies) # <<>> =>
                      DOMAIN FirstReadable(input[a].policies)[1] = ChecksOf(a)
    <3>1. Len(input[a].policies) \in Nat /\ DOMAIN input[a].policies = 1..Len(input[a].policies)
      BY InputTyped DEF Inv
    <3> QED
      BY <3>1, FirstRead DEF ChecksOf
  <2>3. \A a : a \in WithPolicy(v) <=> a \in Of(input[a].platform)
    BY <2>2, SkippedAre DEF WithPolicy, ReadOf, WithResults
  <2>4. \A p : {b \in WithPolicy(v) : input[b].platform = p} = Of(p)
    BY <2>3
  <2>5. \A a \in WithPolicy(v) : DOMAIN FirstReadable(input[a].policies)[1] = ChecksOf(a)
    BY <2>2 DEF WithPolicy, ReadOf
  <2>6. ASSUME NEW i \in DOMAIN policy
        PROVE  DOMAIN policy[i].checks = UNION {ChecksOf(a) : a \in Of(policy[i].platform)}
    <3> DEFINE T == {b \in WithPolicy(v) : input[b].platform = policy[i].platform}
    <3>1. DOMAIN policy[i].checks = UNION {DOMAIN FirstReadable(input[a].policies)[1] : a \in T}
      BY <2>1 DEF IsPolicy
    <3>2. \A a \in T : DOMAIN FirstReadable(input[a].policies)[1] = ChecksOf(a)
      BY <2>5
    <3>3. T = Of(policy[i].platform)
      BY <2>4
    <3> HIDE DEF T, Of
    <3> QED
      BY <3>1, <3>2, <3>3
  <2>7. \A a \in Artifacts : a \in Of(input[a].platform) =>
            \E i \in DOMAIN policy : policy[i].platform = input[a].platform
    <3> HIDE DEF Of
    <3> QED
      BY <2>1, <2>3 DEF IsPolicy
  <2> QED
    BY <2>1, <2>6, <2>7 DEF IsPolicy
<1>3. Inv => DownWins
  <2> SUFFICES ASSUME Inv, todo = {}
               PROVE  endpoint = Verdict(UNION {Range(input[a].reports) : a \in WithResults})
    BY DEF DownWins, Verdict
  <2>1. {b \in Artifacts \ todo : Suites(input[b]) # {}} = WithResults
    BY SkippedAre DEF WithResults
  <2>2. ReadingsRead = UNION {Range(input[a].reports) : a \in WithResults}
    BY <2>1 DEF ReadingsRead
  <2> QED
    BY <2>2 DEF Inv, EndpointRead
<1>4. Inv => MergeLosesNothing
  BY <1>1, <1>2, <1>3 DEF MergeLosesNothing
<1> QED
  BY <1>4, Invariance, PTL
=============================================================================
