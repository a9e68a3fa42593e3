-------------------------- MODULE StatusSiteProofs --------------------------
(***************************************************************************)
(* The published history is sound for any workflows, limits and failures:  *)
(* what collect_results.py makes of a history of any length, and what the  *)
(* one active build may rely on between its fetch and its deploy.          *)
(*                                                                         *)
(* The history is filtered by a recursive function.  What it returns is    *)
(* proved by induction over sets of numbers: a set that holds 0 and the    *)
(* successor of each of its members holds every number.                    *)
(***************************************************************************)
EXTENDS StatusSite, SequenceTheorems, WellFoundedInduction, TLAPS

-----------------------------------------------------------------------------
(* Numbers *)

\* A set of numbers that is not empty has a least member.
LEMMA LeastNumber ==
    ASSUME NEW T \in SUBSET Nat, T # {}
    PROVE  \E m \in T : \A n \in T : m <= n
<1>1. PICK m \in T : \A n \in T : ~(<<n, m>> \in OpToRel(<, Nat))
  <2> HIDE DEF OpToRel
  <2> QED
    BY NatLessThanWellFounded, WFMin, Zenon
<1>2. \A n \in T : n < m => <<n, m>> \in OpToRel(<, Nat)
  BY DEF OpToRel
<1>3. \A n \in T : ~(n < m)
  BY <1>1, <1>2, Zenon
<1> QED
  BY <1>3

\* Induction, stated with a set.
LEMMA SetInduction ==
    ASSUME NEW S, 0 \in S, \A n \in Nat : n \in S => n + 1 \in S
    PROVE  \A n \in Nat : n \in S
<1> SUFFICES ASSUME Nat \ S # {} PROVE FALSE
  OBVIOUS
<1>1. PICK m \in Nat \ S : \A n \in Nat \ S : m <= n
  BY LeastNumber
<1>2. m # 0 /\ m - 1 \in Nat /\ m - 1 \in S
  BY <1>1
<1> QED
  BY <1>1, <1>2

\* A bounded set of numbers that is not empty has a greatest member, which is
\* what Max chooses.
LEMMA MaxIsGreatest ==
    ASSUME NEW S \in SUBSET Nat, S # {}, NEW bound \in Nat, \A x \in S : x <= bound
    PROVE  Max(S) \in S /\ \A x \in S : x <= Max(S)
<1> DEFINE Bounds == {n \in Nat : \A x \in S : x <= n}
<1>1. PICK m \in Bounds : \A n \in Bounds : m <= n
  <2>1. Bounds \in SUBSET Nat /\ Bounds # {}
    OBVIOUS
  <2> HIDE DEF Bounds
  <2> QED
    BY <2>1, LeastNumber
<1>2. m \in S
  <2> SUFFICES ASSUME m \notin S PROVE FALSE
    OBVIOUS
  <2>1. \A x \in S : x <= m - 1 /\ m - 1 \in Nat
    OBVIOUS
  <2>2. m - 1 \in Bounds
    BY <2>1
  <2> QED
    BY <1>1, <2>2
<1>3. \E y \in S : \A x \in S : y >= x
  BY <1>2
<1> QED
  BY <1>3, Zenon DEF Max

-----------------------------------------------------------------------------
(* The filter *)

\* Is f the filter's function on the first m entries of h?
IsKept(f, h, key, m) ==
    f = [n \in 0..m |-> IF n = 0 THEN <<>>
                        ELSE IF h[n].key = key THEN f[n - 1]
                        ELSE Append(f[n - 1], h[n])]

\* The recursive function of Others exists, for every length.
LEMMA KeptExists ==
    ASSUME NEW h, NEW key
    PROVE  \A m \in Nat : \E f : IsKept(f, h, key, m)
<1> DEFINE S == {m \in Nat : \E f : IsKept(f, h, key, m)}
<1>1. 0 \in S
  <2>1. IsKept([n \in 0..0 |-> <<>>], h, key, 0)
    BY DEF IsKept
  <2> QED
    BY <2>1
<1>2. ASSUME NEW m \in Nat, m \in S PROVE m + 1 \in S
  <2>1. PICK f : IsKept(f, h, key, m)
    BY <1>2
  <2> DEFINE last == IF h[m + 1].key = key THEN f[m] ELSE Append(f[m], h[m + 1])
             g == [n \in 0..(m + 1) |-> IF n <= m THEN f[n] ELSE last]
  <2>2. \A n \in 0..(m + 1) : g[n] = IF n = 0 THEN <<>>
                                     ELSE IF h[n].key = key THEN g[n - 1]
                                     ELSE Append(g[n - 1], h[n])
    <3> SUFFICES ASSUME NEW n \in 0..(m + 1)
                 PROVE  g[n] = IF n = 0 THEN <<>>
                               ELSE IF h[n].key = key THEN g[n - 1]
                               ELSE Append(g[n - 1], h[n])
      OBVIOUS
    <3>1. CASE n <= m
      <4>1. n \in 0..m /\ (n # 0 => n - 1 \in 0..m /\ g[n - 1] = f[n - 1])
        BY <3>1
      <4>2. f[n] = IF n = 0 THEN <<>>
                   ELSE IF h[n].key = key THEN f[n - 1]
                   ELSE Append(f[n - 1], h[n])
        BY <2>1, <4>1 DEF IsKept
      <4> QED
        BY <3>1, <4>1, <4>2
    <3>2. CASE n = m + 1
      <4>1. g[m] = f[m] /\ n - 1 = m /\ n # 0 /\ ~(n <= m)
        BY <3>2
      <4> QED
        BY <3>2, <4>1
    <3> QED
      BY <3>1, <3>2
  <2>3. IsKept(g, h, key, m + 1)
    BY <2>2 DEF IsKept
  <2> HIDE DEF g
  <2> QED
    BY <2>3
<1> HIDE DEF S
<1>3. \A m \in Nat : m \in S
  BY <1>1, <1>2, SetInduction
<1> QED
  BY <1>3 DEF S

\* Others returns that function's value at the whole history.
LEMMA OthersIsKept ==
    ASSUME NEW h, NEW key, Len(h) \in Nat
    PROVE  \E f : IsKept(f, h, key, Len(h)) /\ Others(h, key) = f[Len(h)]
<1>1. PICK f : IsKept(f, h, key, Len(h))
  BY KeptExists
<1> QED
  BY <1>1 DEF Others, IsKept

\* No two entries have the same key.
KeysDiffer(h) == \A i, j \in 1..Len(h) : h[i].key = h[j].key => i = j

\* r is what a filter for key leaves of the first n entries of h: entries of h
\* with other keys, all of them, without repetition, and unless one is missing
\* each in its place.
Filtered(r, h, key, n) ==
    /\ r \in Seq(Summaries) /\ Len(r) <= n
    /\ \A j \in 1..Len(r) : \E i \in 1..n : r[j] = h[i] /\ h[i].key # key
    /\ \A i \in 1..n : h[i].key # key => \E j \in 1..Len(r) : r[j] = h[i]
    /\ KeysDiffer(h) => KeysDiffer(r)
    /\ Len(r) = n => \A i \in 1..n : r[i] = h[i]

\* The filter leaves exactly the entries with other keys, in any history.
LEMMA OthersFiltered ==
    ASSUME NEW h \in Seq(Summaries), NEW key
    PROVE  Filtered(Others(h, key), h, key, Len(h))
<1>1. PICK f : IsKept(f, h, key, Len(h)) /\ Others(h, key) = f[Len(h)]
  BY OthersIsKept, LenProperties
<1> DEFINE S == {n \in Nat : n <= Len(h) => Filtered(f[n], h, key, n)}
<1>2. 0 \in S
  <2>1. f[0] = <<>>
    BY <1>1, LenProperties DEF IsKept
  <2>2. f[0] \in Seq(Summaries) /\ Len(f[0]) = 0
    BY <2>1, EmptySeq
  <2> QED
    BY <2>2 DEF Filtered, KeysDiffer
<1>3. ASSUME NEW n \in Nat, n \in S PROVE n + 1 \in S
  <2> SUFFICES ASSUME n + 1 <= Len(h) PROVE Filtered(f[n + 1], h, key, n + 1)
    OBVIOUS
  <2>1. Filtered(f[n], h, key, n) /\ h[n + 1] \in Summaries /\ Len(h) \in Nat
    BY <1>3, LenProperties, ElementOfSeq
  <2>2. f[n + 1] = IF h[n + 1].key = key THEN f[n] ELSE Append(f[n], h[n + 1])
    <3>1. n + 1 \in 0..Len(h) /\ n + 1 # 0 /\ (n + 1) - 1 = n
      BY <2>1
    <3> QED
      BY <1>1, <3>1, Zenon DEF IsKept
  <2>3. CASE h[n + 1].key = key
    <3>1. f[n + 1] = f[n] /\ Len(f[n]) \in Nat
      BY <2>1, <2>2, <2>3, LenProperties DEF Filtered
    <3> QED
      BY <2>1, <2>3, <3>1 DEF Filtered
  <2>4. CASE h[n + 1].key # key
    <3> DEFINE r == f[n]
               s == f[n + 1]
    <3>1. s = Append(r, h[n + 1]) /\ r \in Seq(Summaries)
      BY <2>1, <2>2, <2>4 DEF Filtered
    <3>2. /\ s \in Seq(Summaries) /\ Len(s) = Len(r) + 1 /\ s[Len(s)] = h[n + 1]
          /\ \A j \in 1..Len(r) : s[j] = r[j]
          /\ Len(r) \in Nat /\ Len(r) <= n
      BY <2>1, <3>1, AppendProperties, LenProperties DEF Filtered
    <3> HIDE DEF r, s
    <3>3. \A j \in 1..Len(s) : \E i \in 1..(n + 1) : s[j] = h[i] /\ h[i].key # key
      <4> SUFFICES ASSUME NEW j \in 1..Len(s)
                   PROVE  \E i \in 1..(n + 1) : s[j] = h[i] /\ h[i].key # key
        OBVIOUS
      <4>1. CASE j = Len(s)
        BY <2>4, <3>2, <4>1
      <4>2. CASE j \in 1..Len(r)
        <5>1. PICK i \in 1..n : r[j] = h[i] /\ h[i].key # key
          BY <2>1, <4>2 DEF Filtered, r
        <5> QED
          BY <3>2, <4>2, <5>1
      <4>3. j = Len(s) \/ j \in 1..Len(r)
        BY <3>2
      <4> QED
        BY <4>1, <4>2, <4>3
    <3>4. \A i \in 1..(n + 1) : h[i].key # key => \E j \in 1..Len(s) : s[j] = h[i]
      <4> SUFFICES ASSUME NEW i \in 1..(n + 1), h[i].key # key
                   PROVE  \E j \in 1..Len(s) : s[j] = h[i]
        OBVIOUS
      <4>1. CASE i = n + 1
        BY <3>2, <4>1
      <4>2. CASE i \in 1..n
        <5>1. PICK j \in 1..Len(r) : r[j] = h[i]
          BY <2>1, <4>2 DEF Filtered, r
        <5> QED
          BY <3>2, <5>1
      <4> QED
        BY <4>1, <4>2
    <3>5. ASSUME KeysDiffer(h) PROVE KeysDiffer(s)
      <4> SUFFICES ASSUME NEW a \in 1..Len(s), NEW b \in 1..Len(s), s[a].key = s[b].key, a # b
                   PROVE  FALSE
        BY DEF KeysDiffer
      <4>1. \A j \in 1..Len(r) : s[j].key # h[n + 1].key
        <5> SUFFICES ASSUME NEW j \in 1..Len(r), s[j].key = h[n + 1].key PROVE FALSE
          OBVIOUS
        <5>1. PICK i \in 1..n : r[j] = h[i]
          BY <2>1 DEF Filtered, r
        <5>2. h[i].key = h[n + 1].key /\ i \in 1..Len(h) /\ n + 1 \in 1..Len(h) /\ i # n + 1
          BY <2>1, <3>2, <5>1
        <5> QED
          BY <3>5, <5>2 DEF KeysDiffer
      <4>2. a \in 1..Len(r) /\ b \in 1..Len(r)
        BY <3>2, <4>1
      <4>3. r[a].key = r[b].key
        BY <3>2, <4>2
      <4> QED
        BY <2>1, <3>5, <4>2, <4>3 DEF Filtered, KeysDiffer, r
    <3>6. ASSUME Len(s) = n + 1, NEW i \in 1..(n + 1) PROVE s[i] = h[i]
      <4>1. Len(r) = n
        BY <3>2, <3>6
      <4>2. CASE i = n + 1
        BY <3>2, <3>6, <4>2
      <4>3. CASE i \in 1..n
        BY <2>1, <3>2, <4>1, <4>3 DEF Filtered, r
      <4> QED
        BY <4>2, <4>3
    <3>7. Len(s) <= n + 1
      BY <3>2
    <3> QED
      BY <3>2, <3>3, <3>4, <3>5, <3>6, <3>7 DEF Filtered, s
  <2> QED
    BY <2>3, <2>4
<1>4. \A n \in Nat : n \in S
  <2> HIDE DEF S
  <2> QED
    BY <1>2, <1>3, SetInduction
<1> QED
  BY <1>1, <1>4, LenProperties

-----------------------------------------------------------------------------
(* What collect_results.py makes of a history *)

\* Every combination in h is in a, but for the oldest when the limit is met.
Keeps(h, a) ==
    \A i \in DOMAIN h : \/ i = 1 /\ Len(a) = HistoryLimit
                        \/ \E j \in DOMAIN a : a[j].key = h[i].key

\* The compact form of a snapshot is an entry of a history.
LEMMA SummaryTyped ==
    ASSUME NEW snapshot \in Results
    PROVE  summarise(snapshot) \in Summaries /\ summarise(snapshot).key = snapshot.key
  BY DEF summarise, Results, Summaries

\* The snapshot becomes the last entry, the entries are otherwise those of the
\* old history, keys stay unique, and no other combination is dropped but the
\* oldest, when the history is full (collect_results.py:697-699).
LEMMA AppendedKeeps ==
    ASSUME NEW h \in Histories, NEW snapshot \in Results, NEW a, a = Appended(h, snapshot)
    PROVE  /\ a \in Histories /\ Len(a) > 0 /\ a[Len(a)] = summarise(snapshot)
           /\ \A j \in 1..Len(a) : \/ a[j] = summarise(snapshot)
                                   \/ \E i \in 1..Len(h) : a[j] = h[i]
           /\ KeysDiffer(h) => KeysDiffer(a)
           /\ Keeps(h, a)
<1> DEFINE r == Others(h, snapshot.key)
           x == summarise(snapshot)
           t == Append(r, x)
<1>1. h \in Seq(Summaries) /\ Len(h) \in Nat /\ Len(h) <= HistoryLimit /\ DOMAIN h = 1..Len(h)
  BY LenProperties DEF Histories
<1>2. HistoryLimit \in Nat /\ HistoryLimit > 0
  BY ConstantsAssumption
<1>3. Filtered(r, h, x.key, Len(h)) /\ x \in Summaries /\ x.key = snapshot.key
  BY <1>1, OthersFiltered, SummaryTyped
<1>4. a = Capped(t)
  BY DEF Appended
<1> HIDE DEF r, x
<1>5. r \in Seq(Summaries) /\ Len(r) \in Nat /\ Len(r) <= Len(h)
  BY <1>3, LenProperties DEF Filtered
<1>6. /\ t \in Seq(Summaries) /\ Len(t) = Len(r) + 1 /\ t[Len(t)] = x
      /\ \A j \in 1..Len(r) : t[j] = r[j]
  BY <1>3, <1>5, AppendProperties
<1> HIDE DEF t
\* One entry is dropped, or none.
<1>7. PICK d \in {0, 1} :
         /\ a \in Seq(Summaries) /\ Len(a) = Len(t) - d /\ Len(a) <= HistoryLimit /\ Len(a) > 0
         /\ \A j \in 1..Len(a) : a[j] = t[j + d]
         /\ d = 1 => Len(a) = HistoryLimit /\ Len(r) = Len(h)
  <2>1. CASE Len(t) <= HistoryLimit
    <3>1. a = t
      BY <1>4, <2>1 DEF Capped
    <3> QED
      BY <1>5, <1>6, <2>1, <3>1
  <2>2. CASE ~(Len(t) <= HistoryLimit)
    <3>1. Len(t) = HistoryLimit + 1 /\ Len(r) = Len(h)
      BY <1>1, <1>2, <1>5, <1>6, <2>2
    <3>2. a = SubSeq(t, 2, Len(t))
      BY <1>2, <1>4, <2>2, <3>1 DEF Capped
    <3>3. 2 \in 1..Len(t) + 1 /\ Len(t) \in 0..Len(t)
      BY <1>2, <3>1
    <3>4. /\ a \in Seq(Summaries) /\ Len(a) = HistoryLimit
          /\ \A j \in 1..Len(a) : a[j] = t[j + 1]
      BY <1>2, <1>6, <3>1, <3>2, <3>3, SubSeqProperties
    <3> QED
      BY <1>2, <3>1, <3>4
  <2> QED
    BY <2>1, <2>2
<1>8. a \in Histories /\ Len(a) > 0 /\ DOMAIN a = 1..Len(a)
  BY <1>7, LenProperties DEF Histories
<1>9. a[Len(a)] = x
  BY <1>5, <1>6, <1>7
<1>10. \A j \in 1..Len(a) : a[j] # x => j + d \in 1..Len(r) /\ a[j] = r[j + d]
  BY <1>5, <1>6, <1>7
<1>11. \A j \in 1..Len(a) : a[j] = x \/ \E i \in 1..Len(h) : a[j] = h[i]
  BY <1>3, <1>10 DEF Filtered
<1>12. ASSUME KeysDiffer(h) PROVE KeysDiffer(a)
  <2> SUFFICES ASSUME NEW i \in 1..Len(a), NEW j \in 1..Len(a), a[i].key = a[j].key, i < j
               PROVE  FALSE
    BY <1>7 DEF KeysDiffer
  <2>1. i + d \in 1..Len(r) /\ a[i] = r[i + d] /\ a[i].key # x.key
    <3>1. i + d \in 1..Len(r) /\ a[i] = r[i + d]
      BY <1>5, <1>6, <1>7
    <3>2. PICK l \in 1..Len(h) : r[i + d] = h[l] /\ h[l].key # x.key
      BY <1>3, <3>1 DEF Filtered
    <3> QED
      BY <3>1, <3>2
  <2>2. j + d \in 1..Len(r) /\ a[j] = r[j + d]
    BY <1>10, <2>1
  <2>3. i + d = j + d
    BY <1>3, <1>12, <2>1, <2>2, SMTT(30) DEF Filtered, KeysDiffer
  <2> QED
    BY <2>3
<1>13. Keeps(h, a)
  <2> SUFFICES ASSUME NEW i \in 1..Len(h), ~(i = 1 /\ Len(a) = HistoryLimit)
               PROVE  \E j \in 1..Len(a) : a[j].key = h[i].key
    BY <1>1, <1>8 DEF Keeps
  <2>1. CASE h[i].key = x.key
    BY <1>7, <1>9, <2>1, SMTT(30)
  <2>2. CASE h[i].key # x.key /\ d = 0
    <3>1. PICK j \in 1..Len(r) : r[j] = h[i]
      BY <1>3, <2>2 DEF Filtered
    <3>2. j \in 1..Len(a) /\ a[j] = h[i]
      BY <1>5, <1>6, <1>7, <2>2, <3>1
    <3> QED
      BY <3>2
  <2>3. CASE d = 1
    <3>1. r[i] = h[i] /\ i # 1 /\ i \in 1..Len(r)
      BY <1>3, <1>7, <2>3 DEF Filtered
    <3>2. i - 1 \in 1..Len(a) /\ a[i - 1] = r[i]
      BY <1>5, <1>6, <1>7, <2>3, <3>1, SMTT(30)
    <3> QED
      BY <3>1, <3>2
  <2> QED
    BY <2>1, <2>2, <2>3
<1> QED
  BY <1>8, <1>9, <1>11, <1>12, <1>13 DEF x

-----------------------------------------------------------------------------
(* The inductive invariant *)

\* The concurrency group: at most one build is active, and the others are as new.
OneBuild ==
    /\ \A b, c \in Builds : build[b].pc # "idle" /\ build[c].pc # "idle" => b = c
    /\ \A b \in Builds : build[b].pc = "idle" => build[b] = Idle

\* A build walks through the workflows it has left, and has nothing to deploy
\* before it has fetched something.
BuildOrder ==
    \A b \in Builds :
       /\ build[b].pc = "download" => build[b].k <= Len(TestWorkflows)
       /\ build[b].pc \in {"download", "fetch", "collect", "carryLatest"} =>
             build[b].latest = NoResult
       /\ build[b].pc \in {"download", "fetch", "carryLatest", "carryHistory"} =>
             build[b].history = <<>> /\ ~build[b].lost

\* The last entry of the history is the picture on the page, unless one of the
\* two files could not be had, and keys are unique.
Agree(latest, history) ==
    /\ history # <<>> /\ latest # NoResult => history[Len(history)] = summarise(latest)
    /\ KeysDiffer(history)

\* What the build has is still what is published: nobody deploys meanwhile.
FetchedIsPublished ==
    /\ Agree(site.latest, site.history)
    /\ \A b \in Builds :
          /\ build[b].pc = "collect" =>
                build[b].history = IF build[b].lost THEN <<>> ELSE site.history
          /\ build[b].pc = "carryHistory" => build[b].latest \in {NoResult, site.latest}
          /\ build[b].pc = "deploy" =>
                /\ Agree(build[b].latest, build[b].history)
                /\ ~build[b].lost => Keeps(site.history, build[b].history)

\* A time at or after one when a probe found the endpoint up.
Witnessed(time) == \E t \in upTimes : t <= time

\* The times of artifacts are in the past, and a run that found the endpoint up
\* has a probe behind it.
RunsWitness ==
    /\ \A w \in Workflows : \A i \in 1..Len(runs[w]) :
          runs[w][i].at <= clock /\ (runs[w][i].up => Witnessed(runs[w][i].at))
    /\ \A b \in Builds, w \in Workflows :
          /\ build[b].got[w].at <= clock
          /\ build[b].got[w].up => Witnessed(build[b].got[w].at)

HistoryWitnessed(h) == \A i \in 1..Len(h) : h[i].endpoint = "up" => Witnessed(h[i].finishedAt)

LatestWitnessed(r) == r.reachable # 0 => Witnessed(r.reachable)

\* So does every entry that has it up, and every time of last reachability.
FilesWitness ==
    /\ LatestWitnessed(site.latest) /\ HistoryWitnessed(site.history)
    /\ \A b \in Builds :
          LatestWitnessed(build[b].latest) /\ HistoryWitnessed(build[b].history)

\* The inductive invariant.
Inv ==
    /\ TypeOK
    /\ OneBuild /\ BuildOrder /\ FetchedIsPublished /\ RunsWitness /\ FilesWitness

\* What stands for nothing is typed.
LEMMA NothingTyped ==
    /\ NoRun \in GotType
    /\ NoResult \in Results /\ <<>> \in Histories /\ Idle \in BuildType
<1>1. NoRun \in GotType
  BY DEF NoRun, GotType
<1>2. NoResult \in Results
  BY DEF NoResult, Results
<1>3. <<>> \in Histories
  BY ConstantsAssumption, EmptySeq DEF Histories
<1>4. 1 \in 1..Len(TestWorkflows) + 1
  BY ConstantsAssumption, LenProperties
<1> QED
  BY <1>1, <1>2, <1>3, <1>4 DEF Idle, BuildType

\* With no run, no build and an empty site the invariant holds.
LEMMA InitInv == Init => Inv
<1> SUFFICES ASSUME Init PROVE Inv
  OBVIOUS
<1>1. TypeOK
  <2>1. runs \in [Workflows -> Seq(RunType)]
    BY EmptySeq DEF Init
  <2>2. build \in [Builds -> BuildType] /\ site \in [latest : Results, history : Histories]
    BY NothingTyped DEF Init
  <2>3. /\ started \in 0..MaxRuns /\ pushes \in 0..MaxPushes
        /\ expiries \in 0..MaxExpiries /\ failures \in 0..MaxFailures
    BY ConstantsAssumption DEF Init
  <2> QED
    BY <2>1, <2>2, <2>3 DEF Init, TypeOK
<1>2. \A b \in Builds : build[b] = Idle
  BY DEF Init
<1>3. OneBuild /\ BuildOrder
  <2>1. Idle.pc = "idle"
    BY DEF Idle
  <2> QED
    BY <1>2, <2>1 DEF OneBuild, BuildOrder
<1>4. FetchedIsPublished
  BY <1>2, EmptySeq DEF Init, FetchedIsPublished, Agree, KeysDiffer, Idle
<1>5. RunsWitness
  BY <1>2, EmptySeq DEF Init, RunsWitness, Idle, NoRun
<1>6. FilesWitness
  BY <1>2, EmptySeq DEF Init, FilesWitness, LatestWitnessed, HistoryWitnessed, Idle, NoResult
<1> QED
  BY <1>1, <1>3, <1>4, <1>5, <1>6 DEF Inv

\* The picture a build makes of the runs at hand: it is typed, and a time of
\* last reachability or an endpoint that is up has a witness.
LEMMA SnapshotWitnessed ==
    ASSUME clock \in Nat, upTimes \in SUBSET Nat,
           NEW got \in [Workflows -> GotType],
           NEW h \in Histories,
           \A w \in Workflows : got[w].at <= clock /\ (got[w].up => Witnessed(got[w].at)),
           HistoryWitnessed(h)
    PROVE  /\ Snapshot(got, h) \in Results
           /\ LatestWitnessed(Snapshot(got, h))
           /\ Snapshot(got, h).endpoint = "up" => Witnessed(Snapshot(got, h).finishedAt)
<1> DEFINE times == {got[w].at : w \in Workflows}
           finishedAt == Max(times)
           endpoint == EndpointState(got)
           seen == {i \in DOMAIN h : h[i].endpoint = "up"}
           reachable == merge_endpoints(endpoint, h, finishedAt)
<1>p. Prober \in Workflows
  BY ConstantsAssumption
<1>1. finishedAt \in Nat /\ got[Prober].at <= finishedAt
  <2>1. times \in SUBSET Nat /\ times # {} /\ \A x \in times : x <= clock
    BY <1>p DEF GotType
  <2>2. finishedAt \in times /\ \A x \in times : x <= finishedAt
    <3> HIDE DEF times
    <3> QED
      BY <2>1, MaxIsGreatest
  <2> QED
    BY <1>p, <2>1, <2>2
<1>2. endpoint \in {"up", "down", "absent"} /\ (endpoint = "up" => Witnessed(finishedAt))
  <2> HIDE DEF finishedAt
  <2> QED
    BY <1>p, <1>1 DEF EndpointState, Witnessed, GotType
<1>3. ASSUME seen # {}
      PROVE  h[Max(seen)].finishedAt \in Nat /\ Witnessed(h[Max(seen)].finishedAt)
  <2>1. h \in Seq(Summaries) /\ Len(h) \in Nat /\ DOMAIN h = 1..Len(h)
    BY LenProperties DEF Histories
  <2>2. seen \in SUBSET Nat /\ \A x \in seen : x <= Len(h)
    BY <2>1
  <2>3. Max(seen) \in seen
    <3> HIDE DEF seen
    <3> QED
      BY <1>3, <2>1, <2>2, MaxIsGreatest
  <2>4. Max(seen) \in 1..Len(h) /\ h[Max(seen)].endpoint = "up"
    BY <2>1, <2>3
  <2>5. h[Max(seen)] \in Summaries
    BY <2>1, <2>4, ElementOfSeq
  <2> QED
    BY <2>4, <2>5 DEF HistoryWitnessed, Summaries
<1>4. reachable \in Nat /\ (reachable # 0 => Witnessed(reachable))
  <2> HIDE DEF finishedAt, endpoint
  <2>1. reachable = IF endpoint = "up" THEN finishedAt
                    ELSE IF endpoint = "down" /\ seen # {} THEN h[Max(seen)].finishedAt ELSE 0
    BY <1>2 DEF merge_endpoints
  <2> HIDE DEF reachable, seen
  <2> QED
    BY <1>1, <1>2, <1>3, <2>1
<1>5. Snapshot(got, h) = [key |-> [w \in Workflows |-> got[w].num], finishedAt |-> finishedAt,
                          shown |-> [w \in Workflows |-> got[w].done],
                          endpoint |-> endpoint, reachable |-> reachable]
  BY DEF Snapshot
<1>6. /\ [w \in Workflows |-> got[w].num] \in [Workflows -> Nat]
      /\ [w \in Workflows |-> got[w].done] \in [Workflows -> Nat]
  BY DEF GotType
<1> HIDE DEF finishedAt, endpoint, reachable
<1> QED
  BY <1>1, <1>2, <1>4, <1>5, <1>6 DEF Results, LatestWitnessed

\* A run of a test workflow begins, ends, is repeated or expires, or the site is
\* pushed to: builds and site stay, and a witness stays one.
LEMMA WorldInv ==
    ASSUME Inv,
           \/ \E w \in Workflows : Begin(w)
           \/ \E w \in Workflows : \E i \in DOMAIN runs[w] :
                 Rerun(w, i) \/ Complete(w, i) \/ Expire(w, i)
           \/ OtherCompletion \/ Push \/ Skip
           \/ UNCHANGED vars
    PROVE  Inv'
<1>1. /\ build' = build /\ site' = site /\ failures' = failures
      /\ clock' \in Nat /\ clock <= clock'
  BY DEF Begin, Rerun, Complete, CompleteRun, Expire, OtherCompletion, Push, Skip, worldVars,
         vars, bounded, Inv, TypeOK
<1>u. upTimes \subseteq upTimes' /\ upTimes' \in SUBSET Nat
  <2>1. ASSUME NEW w \in Workflows, NEW i \in DOMAIN runs[w], NEW k \in {"complete", "unusable"},
               NEW u \in BOOLEAN, NEW c \in BOOLEAN, CompleteRun(w, i, k, u, c)
        PROVE  upTimes \subseteq upTimes' /\ upTimes' \in SUBSET Nat
    <3>1. PICK at \in IF k = "complete" THEN runs[w][i].began + 1..clock' ELSE {0} :
             upTimes' = IF u THEN upTimes \cup {at} ELSE upTimes
      BY <2>1 DEF CompleteRun
    <3>2. runs[w][i] \in RunType
      BY ElementOfSeq, LenProperties DEF Inv, TypeOK
    <3>3. at \in Nat
      BY <1>1, <3>1, <3>2 DEF RunType
    <3> QED
      BY <3>1, <3>3 DEF Inv, TypeOK
  <2>2. CASE upTimes' = upTimes
    BY <2>2 DEF Inv, TypeOK
  <2> QED
    BY <2>1, <2>2, ZenonT(30) DEF Begin, Rerun, Complete, Expire, OtherCompletion, Push, Skip,
       worldVars, vars
<1>2. \A time \in Nat : Witnessed(time) => Witnessed(time)'
  BY <1>u DEF Witnessed
<1>3. OneBuild' /\ BuildOrder' /\ FetchedIsPublished'
  BY <1>1 DEF Inv, OneBuild, BuildOrder, FetchedIsPublished
<1>4. FilesWitness'
  <2>1. \A h \in Histories : HistoryWitnessed(h) => HistoryWitnessed(h)'
    <3> SUFFICES ASSUME NEW h \in Histories, HistoryWitnessed(h) PROVE HistoryWitnessed(h)'
      OBVIOUS
    <3>1. \A i \in 1..Len(h) : h[i] \in Summaries
      BY ElementOfSeq DEF Histories
    <3>2. \A i \in 1..Len(h) : h[i].finishedAt \in Nat
      BY <3>1 DEF Summaries
    <3> QED
      BY <1>2, <3>2 DEF HistoryWitnessed
  <2>2. \A r \in Results : LatestWitnessed(r) => LatestWitnessed(r)'
    BY <1>2 DEF LatestWitnessed, Results
  <2>3. \A b \in Builds : build[b].latest \in Results /\ build[b].history \in Histories
    BY DEF Inv, TypeOK, BuildType
  <2>4. site.latest \in Results /\ site.history \in Histories
    BY DEF Inv, TypeOK
  <2>5. /\ \A b \in Builds :
             LatestWitnessed(build[b].latest)' /\ HistoryWitnessed(build[b].history)'
        /\ LatestWitnessed(site.latest)' /\ HistoryWitnessed(site.history)'
    BY <1>1, <2>1, <2>2, <2>3, <2>4 DEF Inv, FilesWitness, LatestWitnessed, HistoryWitnessed
  <2> QED
    BY <2>5 DEF FilesWitness
\* The runs change in one place.
<1>5. /\ runs' \in [Workflows -> Seq(RunType)]
      /\ \A w \in Workflows : \A i \in 1..Len(runs'[w]) :
            /\ runs'[w][i].at <= clock'
            /\ runs'[w][i].up => \E t \in upTimes' : t <= runs'[w][i].at
  <2> DEFINE Good(r) == /\ r \in RunType /\ r.at <= clock'
                        /\ r.up => \E t \in upTimes' : t <= r.at
             AllGood(s) == s \in Seq(RunType) /\ \A i \in 1..Len(s) : Good(s[i])
  <2>1. \A w \in Workflows : AllGood(runs[w])
    <3> SUFFICES ASSUME NEW w \in Workflows PROVE AllGood(runs[w])
      OBVIOUS
    <3>1. runs[w] \in Seq(RunType)
      BY DEF Inv, TypeOK
    <3>2. \A i \in 1..Len(runs[w]) : runs[w][i] \in RunType
      BY <3>1, ElementOfSeq
    <3>3. \A i \in 1..Len(runs[w]) :
             runs[w][i].at <= clock /\ (runs[w][i].up => Witnessed(runs[w][i].at))
      BY DEF Inv, RunsWitness
    <3>4. \A i \in 1..Len(runs[w]) : runs[w][i].at \in Nat /\ clock \in Nat
      BY <3>2 DEF RunType, Inv, TypeOK
    <3> QED
      BY <1>1, <1>u, <3>1, <3>2, <3>3, <3>4 DEF Witnessed
  <2>f. runs' = [v \in Workflows |-> runs'[v]]
    <3>1. runs = [v \in Workflows |-> runs[v]]
      BY DEF Inv, TypeOK
    <3>2. runs' = runs \/ \E w \in Workflows : \E s : runs' = [runs EXCEPT ![w] = s]
      <4>1. ASSUME NEW w \in Workflows, NEW i \in DOMAIN runs[w],
                   NEW k \in {"complete", "unusable"}, NEW u \in BOOLEAN, NEW c \in BOOLEAN,
                   CompleteRun(w, i, k, u, c)
            PROVE  \E s : runs' = [runs EXCEPT ![w] = s]
        BY <4>1 DEF CompleteRun
      <4>2. ASSUME NEW w \in Workflows, NEW i \in DOMAIN runs[w], Rerun(w, i) \/ Expire(w, i)
            PROVE  \E s : runs' = [runs EXCEPT ![w] = s]
        BY <4>2 DEF Rerun, Expire
      <4>3. ASSUME NEW w \in Workflows, Begin(w) PROVE \E s : runs' = [runs EXCEPT ![w] = s]
        BY <4>3 DEF Begin
      <4>4. CASE OtherCompletion \/ Push \/ Skip \/ UNCHANGED vars
        BY <4>4 DEF OtherCompletion, Push, Skip, worldVars, vars
      <4> QED
        BY <4>1, <4>2, <4>3, <4>4, SMTT(30) DEF Complete
    <3> QED
      BY <3>1, <3>2
  <2>2. SUFFICES \A w \in Workflows : AllGood(runs'[w])
    BY <2>f, Zenon
  <2>3. ASSUME NEW w \in Workflows, Begin(w), NEW v \in Workflows PROVE AllGood(runs'[v])
    <3> DEFINE new == [kind |-> "running", up |-> FALSE, counts |-> FALSE,
                       began |-> clock, done |-> 0, at |-> 0]
    <3>1. runs' = [runs EXCEPT ![w] = Append(runs[w], new)]
      BY <2>3 DEF Begin
    <3>2. Good(new) /\ new \in RunType
      BY <1>1 DEF RunType, Inv, TypeOK
    <3>3. AllGood(runs[w])
      BY <2>1
    <3> HIDE DEF new, Good
    <3>4. AllGood(Append(runs[w], new))
      BY <3>2, <3>3, AppendProperties, LenProperties
    <3> HIDE DEF AllGood
    <3> QED
      BY <2>1, <3>1, <3>4 DEF Inv, TypeOK
  <2>4. ASSUME NEW w \in Workflows, NEW i \in DOMAIN runs[w],
               Rerun(w, i) \/ Complete(w, i) \/ Expire(w, i),
               NEW v \in Workflows
        PROVE  AllGood(runs'[v])
    <3>1. /\ runs[w] \in Seq(RunType) /\ i \in 1..Len(runs[w]) /\ Good(runs[w][i])
      BY <2>1, <2>4, LenProperties
    <3>2. PICK r : Good(r) /\ runs' = [runs EXCEPT ![w] = [runs[w] EXCEPT ![i] = r]]
      <4>1. CASE Rerun(w, i)
        <5> DEFINE new == [runs[w][i] EXCEPT !.kind = "running"]
        <5>1. runs' = [runs EXCEPT ![w] = [runs[w] EXCEPT ![i] = new]]
          BY <4>1 DEF Rerun
        <5>2. Good(new)
          BY <3>1 DEF RunType
        <5> QED
          BY <5>1, <5>2
      <4>2. CASE Expire(w, i)
        <5> DEFINE new == [runs[w][i] EXCEPT !.kind = "unusable"]
        <5>1. runs' = [runs EXCEPT ![w] = [runs[w] EXCEPT ![i] = new]]
          BY <4>2 DEF Expire
        <5>2. Good(new)
          BY <3>1 DEF RunType
        <5> QED
          BY <5>1, <5>2
      <4>3. ASSUME NEW k \in {"complete", "unusable"}, NEW u \in BOOLEAN, NEW c \in BOOLEAN,
                   CompleteRun(w, i, k, u, c)
            PROVE  \E r : Good(r) /\ runs' = [runs EXCEPT ![w] = [runs[w] EXCEPT ![i] = r]]
        <5>1. PICK at \in IF k = "complete" THEN runs[w][i].began + 1..clock' ELSE {0} :
                 /\ runs' = [runs EXCEPT ![w] = [runs[w] EXCEPT ![i] =
                       [kind |-> k, up |-> u, counts |-> c, began |-> runs[w][i].began,
                        done |-> clock', at |-> at]]]
                 /\ upTimes' = IF u THEN upTimes \cup {at} ELSE upTimes
          BY <4>3 DEF CompleteRun
        <5> DEFINE new == [kind |-> k, up |-> u, counts |-> c, began |-> runs[w][i].began,
                           done |-> clock', at |-> at]
        <5>2. runs[w][i].began \in Nat /\ at \in Nat /\ at <= clock'
          BY <1>1, <3>1, <5>1 DEF RunType
        <5>3. Good(new)
          BY <1>1, <5>1, <5>2 DEF RunType
        <5> QED
          BY <5>1, <5>3
      <4> QED
        BY <2>4, <4>1, <4>2, <4>3 DEF Complete
    <3>3. r \in RunType
      BY <3>2
    <3>4. AllGood(runs[w])
      BY <2>1
    <3> HIDE DEF Good
    <3>5. AllGood([runs[w] EXCEPT ![i] = r])
      BY <3>1, <3>2, <3>3, <3>4, ExceptSeq
    <3> HIDE DEF AllGood
    <3> QED
      BY <2>1, <3>2, <3>5 DEF Inv, TypeOK
  <2>5. CASE OtherCompletion \/ Push \/ Skip \/ UNCHANGED vars
    <3> HIDE DEF AllGood
    <3> QED
      BY <2>1, <2>5 DEF OtherCompletion, Push, Skip, worldVars, vars
  <2> HIDE DEF AllGood
  <2> QED
    BY <2>3, <2>4, <2>5
<1>6. RunsWitness'
  <2>1. \A b \in Builds, w \in Workflows : build[b].got[w].at \in Nat
    BY DEF Inv, TypeOK, BuildType, GotType
  <2>2. \A b \in Builds, w \in Workflows :
           /\ build'[b].got[w].at <= clock'
           /\ build'[b].got[w].up => \E t \in upTimes' : t <= build'[b].got[w].at
    <3> SUFFICES ASSUME NEW b \in Builds, NEW w \in Workflows
                 PROVE  /\ build[b].got[w].at <= clock'
                        /\ build[b].got[w].up => \E t \in upTimes' : t <= build[b].got[w].at
      BY <1>1
    <3>1. /\ build[b].got[w].at <= clock
          /\ build[b].got[w].up => \E t \in upTimes : t <= build[b].got[w].at
      BY DEF Inv, RunsWitness, Witnessed
    <3>2. clock \in Nat /\ build[b].got[w].at \in Nat
      BY <2>1 DEF Inv, TypeOK
    <3> QED
      BY <1>1, <1>u, <3>1, <3>2
  <2> QED
    BY <1>1, <1>5, <2>2 DEF RunsWitness, Witnessed
<1>7. TypeOK'
  <2>1. pending' \in {"none", "build", "skip"} /\ dropped' \in BOOLEAN
    BY ZenonT(30) DEF Begin, Rerun, Complete, Joins, Expire, OtherCompletion, Push, Skip,
       worldVars, vars, Inv, TypeOK
  <2>2. /\ \/ started' = started
           \/ started < MaxRuns /\ started' = started + 1
        /\ \/ pushes' = pushes
           \/ pushes < MaxPushes /\ pushes' = pushes + 1
        /\ \/ expiries' = expiries
           \/ expiries < MaxExpiries /\ expiries' = expiries + 1
    BY DEF Begin, Rerun, Complete, CompleteRun, Expire, OtherCompletion, Push, Skip, worldVars,
           vars, bounded
  <2>3. started' \in 0..MaxRuns /\ pushes' \in 0..MaxPushes /\ expiries' \in 0..MaxExpiries
    BY <2>2, ConstantsAssumption DEF Inv, TypeOK
  <2> QED
    BY <1>1, <1>u, <1>5, <2>1, <2>3 DEF Inv, TypeOK
<1> QED
  BY <1>3, <1>4, <1>6, <1>7 DEF Inv

-----------------------------------------------------------------------------
(* A build *)

\* What the invariant says of the record x of one build, beside the site s.
Sound(x, s) ==
    /\ x \in BuildType
    /\ x.pc = "idle" => x = Idle
    /\ x.pc = "download" => x.k <= Len(TestWorkflows)
    /\ x.pc \in {"download", "fetch", "collect", "carryLatest"} => x.latest = NoResult
    /\ x.pc \in {"download", "fetch", "carryLatest", "carryHistory"} =>
          x.history = <<>> /\ ~x.lost
    /\ x.pc = "collect" => x.history = IF x.lost THEN <<>> ELSE s.history
    /\ x.pc = "carryHistory" => x.latest \in {NoResult, s.latest}
    /\ x.pc = "deploy" => /\ Agree(x.latest, x.history)
                          /\ ~x.lost => Keeps(s.history, x.history)
    /\ \A w \in Workflows : x.got[w].at <= clock /\ (x.got[w].up => Witnessed(x.got[w].at))
    /\ LatestWitnessed(x.latest) /\ HistoryWitnessed(x.history)

\* What it says of the site s.
SiteSound(s) ==
    /\ s \in [latest : Results, history : Histories]
    /\ Agree(s.latest, s.history) /\ LatestWitnessed(s.latest) /\ HistoryWitnessed(s.history)

\* The invariant, one build at a time.
LEMMA InvIsSound ==
    ASSUME Inv
    PROVE  SiteSound(site) /\ \A b \in Builds : Sound(build[b], site)
<1>1. SiteSound(site)
  BY DEF Inv, TypeOK, FetchedIsPublished, FilesWitness, SiteSound
<1>2. ASSUME NEW b \in Builds PROVE Sound(build[b], site)
  <2>1. build[b] \in BuildType
    BY DEF Inv, TypeOK
  <2>2. \A w \in Workflows :
           build[b].got[w].at <= clock /\ (build[b].got[w].up => Witnessed(build[b].got[w].at))
    BY DEF Inv, RunsWitness
  <2>3. LatestWitnessed(build[b].latest) /\ HistoryWitnessed(build[b].history)
    BY DEF Inv, FilesWitness
  <2> QED
    BY <2>1, <2>2, <2>3, Zenon DEF Inv, OneBuild, BuildOrder, FetchedIsPublished, Sound
<1> QED
  BY <1>1, <1>2

\* A build that stands for nothing is sound.
LEMMA IdleIsSound ==
    ASSUME Inv, NEW s PROVE Sound(Idle, s)
<1>1. \A w \in Workflows : Idle.got[w] = NoRun
  BY DEF Idle
<1>2. /\ Idle.pc = "idle" /\ Idle.latest = NoResult /\ Idle.history = <<>>
      /\ NoResult.reachable = 0 /\ Len(<<>>) = 0 /\ NoRun.at = 0 /\ NoRun.up = FALSE
  BY EmptySeq DEF Idle, NoResult, NoRun
<1>3. LatestWitnessed(Idle.latest) /\ HistoryWitnessed(Idle.history)
  BY <1>2 DEF LatestWitnessed, HistoryWitnessed
<1>4. 0 <= clock
  BY DEF Inv, TypeOK
<1> QED
  BY <1>1, <1>2, <1>3, <1>4, NothingTyped DEF Sound

\* While one build takes a step the others are idle: the concurrency group.
LEMMA OthersAreIdle ==
    ASSUME Inv, NEW b \in Builds, StartBuild(b) \/ BuildStep(b) \/ Abort(b)
    PROVE  /\ \A c \in Builds \ {b} : build'[c] = build[c] /\ build[c] = Idle
           /\ build' = [build EXCEPT ![b] = build'[b]]
<1>1. \A c \in Builds \ {b} : build'[c] = build[c]
  BY DEF StartBuild, BuildStep, Download, FetchHistory, Collect, CarryLatest, CarryHistory,
         Deploy, Abort, Inv, TypeOK
<1>2. StartBuild(b) \/ build[b].pc # "idle"
  BY DEF BuildStep, Download, FetchHistory, Collect, CarryLatest, CarryHistory, Deploy, Abort
<1>3. \A c \in Builds \ {b} : build[c].pc = "idle"
  BY <1>2 DEF StartBuild, Inv, OneBuild
<1>4. \E x : build' = [build EXCEPT ![b] = x]
  BY DEF StartBuild, BuildStep, Download, FetchHistory, Collect, CarryLatest, CarryHistory,
         Deploy, Abort
<1>5. build' = [build EXCEPT ![b] = build'[b]]
  BY <1>4 DEF Inv, TypeOK
<1> QED
  BY <1>1, <1>3, <1>5 DEF Inv, OneBuild

\* A step of one build keeps the invariant if it leaves the build and the site sound.
LEMMA SoundStep ==
    ASSUME Inv, NEW b \in Builds, StartBuild(b) \/ BuildStep(b) \/ Abort(b),
           Sound(build'[b], site'), SiteSound(site')
    PROVE  Inv'
<1>1. UNCHANGED worldVars
  BY DEF StartBuild, BuildStep, Download, FetchHistory, Collect, CarryLatest, CarryHistory,
         Deploy, Abort
<1>2. /\ \A c \in Builds \ {b} : build'[c] = build[c] /\ build[c] = Idle
      /\ build' = [build EXCEPT ![b] = build'[b]]
  BY OthersAreIdle
<1>3. \A c \in Builds : Sound(build'[c], site')
  BY <1>2, IdleIsSound
<1>4. TypeOK'
  <2>1. failures' \in 0..MaxFailures
    <3>1. failures' = failures \/ (failures < MaxFailures /\ failures' = failures + 1)
      BY DEF StartBuild, BuildStep, Download, FetchHistory, Collect, CarryLatest, CarryHistory,
             Deploy, Abort
    <3> QED
      BY <3>1, ConstantsAssumption DEF Inv, TypeOK
  <2>2. pending' \in {"none", "build", "skip"}
    BY DEF StartBuild, BuildStep, Download, FetchHistory, Collect, CarryLatest, CarryHistory,
           Deploy, Abort, Inv, TypeOK
  <2>3. build' \in [Builds -> BuildType]
    BY <1>2 DEF Sound, Inv, TypeOK
  <2>4. site' \in [latest : Results, history : Histories]
    BY DEF SiteSound
  <2> QED
    BY <1>1, <2>1, <2>2, <2>3, <2>4 DEF worldVars, Inv, TypeOK
<1>5. OneBuild'
  <2>1. Idle.pc = "idle"
    BY DEF Idle
  <2>2. \A c \in Builds \ {b} : build'[c].pc = "idle"
    BY <1>2, <2>1
  <2>3. \A c \in Builds : build'[c].pc = "idle" => build'[c] = Idle
    BY <1>3, Zenon DEF Sound
  <2> QED
    BY <2>2, <2>3 DEF OneBuild
<1>6. BuildOrder'
  BY <1>3, Zenon DEF BuildOrder, Sound
<1>7. FetchedIsPublished'
  BY <1>3, Zenon DEF FetchedIsPublished, Sound, SiteSound
<1>8. RunsWitness'
  <2>1. \A c \in Builds, w \in Workflows :
          /\ build'[c].got[w].at <= clock
          /\ build'[c].got[w].up => \E t \in upTimes : t <= build'[c].got[w].at
    BY <1>3, Zenon DEF Sound, Witnessed
  <2> QED
    BY <1>1, <2>1 DEF RunsWitness, Witnessed, worldVars, Inv
<1>9. FilesWitness'
  <2>1. upTimes' = upTimes
    BY <1>1 DEF worldVars
  <2>2. /\ \A c \in Builds :
             LatestWitnessed(build'[c].latest) /\ HistoryWitnessed(build'[c].history)
        /\ LatestWitnessed(site'.latest) /\ HistoryWitnessed(site'.history)
    BY <1>3, Zenon DEF Sound, SiteSound
  <2> QED
    BY <2>1, <2>2 DEF FilesWitness, LatestWitnessed, HistoryWitnessed, Witnessed
<1> QED
  BY <1>4, <1>5, <1>6, <1>7, <1>8, <1>9 DEF Inv

\* A build starts with nothing, at the first workflow.
LEMMA StartSound ==
    ASSUME Inv, NEW b \in Builds, StartBuild(b)
    PROVE  Sound(build'[b], site')
<1> DEFINE x == [Idle EXCEPT !.pc = "download"]
<1>1. build'[b] = x /\ site' = site
  BY DEF StartBuild, Inv, TypeOK, OneBuild
<1>2. 1 <= Len(TestWorkflows)
  <2>1. Prober \in {TestWorkflows[i] : i \in DOMAIN TestWorkflows}
    BY ConstantsAssumption DEF Workflows, Range
  <2> QED
    BY <2>1, ConstantsAssumption, LenProperties
<1>3. Sound(Idle, site) /\ Idle \in BuildType
  BY IdleIsSound, NothingTyped
<1>4. x \in BuildType
  BY <1>3 DEF BuildType
<1>5. /\ x.pc = "download" /\ x.k = 1 /\ x.latest = Idle.latest /\ x.history = Idle.history
      /\ x.got = Idle.got /\ x.latest = NoResult /\ x.history = <<>> /\ ~x.lost
  BY DEF Idle
<1> HIDE DEF x
<1>6. Sound(x, site)
  BY <1>2, <1>3, <1>4, <1>5 DEF Sound
<1> QED
  BY <1>1, <1>6

\* A download takes a run that exists, and with it a completion time in the past.
LEMMA DownloadSound ==
    ASSUME Inv, NEW b \in Builds, Download(b)
    PROVE  Sound(build'[b], site')
<1> DEFINE w == TestWorkflows[build[b].k]
           old == build[b]
<1>1. old \in BuildType /\ Sound(old, site) /\ old.pc = "download" /\ site' = site
  BY InvIsSound DEF Download, Sound
<1>2. old.k \in 1..Len(TestWorkflows) /\ old.k + 1 \in 1..Len(TestWorkflows) + 1
  <2>1. old.k \in 1..Len(TestWorkflows) + 1 /\ old.k <= Len(TestWorkflows)
    BY <1>1 DEF Sound, BuildType
  <2> QED
    BY <2>1, ConstantsAssumption, LenProperties
<1>3. w \in Workflows
  BY <1>2, ConstantsAssumption, ElementOfSeq
<1>4. PICK i \in Usable(w) \cup {0} :
         build' = [build EXCEPT ![b] =
            [old EXCEPT !.got = [old.got EXCEPT ![w] = IF i = 0 THEN NoRun
                           ELSE [num |-> i, done |-> runs[w][i].done,
                                 at |-> runs[w][i].at, up |-> runs[w][i].up]],
                        !.k = old.k + 1,
                        !.pc = AfterDownload(old.k, [old.got EXCEPT ![w] = IF i = 0 THEN NoRun
                           ELSE [num |-> i, done |-> runs[w][i].done,
                                 at |-> runs[w][i].at, up |-> runs[w][i].up]])]]
  <2> DEFINE Taken(i) == IF i = 0 THEN NoRun
                         ELSE [num |-> i, done |-> runs[w][i].done,
                                 at |-> runs[w][i].at, up |-> runs[w][i].up]
             Got(i) == [old.got EXCEPT ![w] = Taken(i)]
  <2>1. PICK i \in Usable(w) \cup {0} :
           build' = [build EXCEPT ![b].got = Got(i), ![b].k = @ + 1,
                                  ![b].pc = AfterDownload(old.k, Got(i))]
    BY Zenon DEF Download
  <2>2. build \in [Builds -> BuildType]
    BY DEF Inv, TypeOK
  <2> HIDE DEF Got
  <2>3. build' = [build EXCEPT ![b] = [old EXCEPT !.got = Got(i), !.k = old.k + 1,
                                                 !.pc = AfterDownload(old.k, Got(i))]]
    BY <2>1, <2>2 DEF BuildType
  <2> QED
    BY <2>3 DEF Got
<1> DEFINE taken == IF i = 0 THEN NoRun
                    ELSE [num |-> i, done |-> runs[w][i].done,
                                 at |-> runs[w][i].at, up |-> runs[w][i].up]
           got == [old.got EXCEPT ![w] = taken]
           x == [old EXCEPT !.got = got, !.k = old.k + 1, !.pc = AfterDownload(old.k, got)]
<1>5. /\ taken \in GotType
      /\ taken.at <= clock /\ (taken.up => Witnessed(taken.at))
  <2>1. CASE i = 0
    BY <2>1 DEF NoRun, GotType, Inv, TypeOK
  <2>2. CASE i # 0
    <3>1. runs[w] \in Seq(RunType) /\ i \in DOMAIN runs[w]
      BY <1>3, <2>2 DEF Usable, Listed, Inv, TypeOK
    <3>2. i \in 1..Len(runs[w]) /\ i \in Nat /\ runs[w][i] \in RunType
      BY <3>1, LenProperties, ElementOfSeq
    <3>3. runs[w][i].at <= clock /\ (runs[w][i].up => Witnessed(runs[w][i].at))
      BY <1>3, <3>2 DEF Inv, RunsWitness
    <3>4. runs[w][i].at \in Nat /\ runs[w][i].done \in Nat /\ runs[w][i].up \in BOOLEAN
      BY <3>2 DEF RunType
    <3>5. taken = [num |-> i, done |-> runs[w][i].done,
                                 at |-> runs[w][i].at, up |-> runs[w][i].up]
      BY <2>2
    <3> HIDE DEF taken, w
    <3> QED
      BY <3>2, <3>3, <3>4, <3>5 DEF GotType
  <2> QED
    BY <2>1, <2>2
<1>6. build'[b] = x
  BY <1>4 DEF Inv, TypeOK
<1> HIDE DEF taken, w
<1>7. /\ got \in [Workflows -> GotType]
      /\ \A v \in Workflows : got[v].at <= clock /\ (got[v].up => Witnessed(got[v].at))
  <2>1. /\ old.got \in [Workflows -> GotType]
        /\ \A v \in Workflows : old.got[v].at <= clock
                                /\ (old.got[v].up => Witnessed(old.got[v].at))
    BY <1>1 DEF BuildType, Sound
  <2>2. \A v \in Workflows : got[v] = IF v = w THEN taken ELSE old.got[v]
    BY <2>1
  <2>3. got \in [Workflows -> GotType]
    BY <1>5, <2>1
  <2> HIDE DEF got
  <2> QED
    BY <1>5, <2>1, <2>2, <2>3
<1> HIDE DEF got
<1>8. /\ AfterDownload(old.k, got) \in {"download", "fetch", "carryLatest"}
      /\ AfterDownload(old.k, got) = "download" => old.k < Len(TestWorkflows)
  BY DEF AfterDownload
<1>9. x \in BuildType
  BY <1>1, <1>2, <1>7, <1>8 DEF BuildType
<1>10. /\ x.pc = AfterDownload(old.k, got) /\ x.k = old.k + 1 /\ x.got = got
       /\ x.latest = old.latest /\ x.history = old.history /\ x.lost = old.lost
  BY <1>1 DEF BuildType
<1>11. x.pc = "download" => x.k <= Len(TestWorkflows)
  BY <1>2, <1>8, <1>10, ConstantsAssumption, LenProperties
<1>12. /\ old.latest = NoResult /\ old.history = <<>> /\ ~old.lost
       /\ LatestWitnessed(old.latest) /\ HistoryWitnessed(old.history)
  BY <1>1, Zenon DEF Sound
<1> HIDE DEF x, old
<1>13. Sound(x, site)
  BY <1>7, <1>8, <1>9, <1>10, <1>11, <1>12 DEF Sound
<1> QED
  BY <1>1, <1>6, <1>13

\* What a fetch brings, or fails to bring, into a build.
LEMMA FetchSound ==
    ASSUME Inv, NEW b \in Builds, FetchHistory(b) \/ CarryLatest(b) \/ CarryHistory(b)
    PROVE  Sound(build'[b], site')
<1> DEFINE old == build[b]
<1>1. Sound(old, site) /\ SiteSound(site) /\ site' = site
  BY InvIsSound DEF FetchHistory, CarryLatest, CarryHistory
<1>2. old \in BuildType /\ site.latest \in Results /\ site.history \in Histories
  BY <1>1 DEF Sound, SiteSound
<1>3. /\ \A w \in Workflows : old.got[w].at <= clock
                              /\ (old.got[w].up => Witnessed(old.got[w].at))
      /\ LatestWitnessed(old.latest) /\ HistoryWitnessed(old.history)
      /\ LatestWitnessed(site.latest) /\ HistoryWitnessed(site.history)
      /\ Agree(site.latest, site.history)
  BY <1>1, Zenon DEF Sound, SiteSound
<1>4. build \in [Builds -> BuildType]
  BY DEF Inv, TypeOK
<1>5. ASSUME FetchHistory(b) PROVE Sound(build'[b], site)
  <2>1. old.pc = "fetch" /\ old.latest = NoResult /\ old.history = <<>> /\ ~old.lost
    BY <1>1, <1>5 DEF FetchHistory, Sound
  <2>2. CASE build' = [build EXCEPT ![b].pc = "collect", ![b].history = site.history]
    <3> DEFINE x == [old EXCEPT !.pc = "collect", !.history = site.history]
    <3>1. build'[b] = x
      BY <1>4, <2>2
    <3>2. x \in BuildType
      BY <1>2 DEF BuildType
    <3>3. /\ x.pc = "collect" /\ x.history = site.history /\ x.latest = old.latest
          /\ x.lost = old.lost /\ x.got = old.got
      BY <1>2 DEF BuildType
    <3> HIDE DEF x, old
    <3>4. Sound(x, site)
      BY <1>3, <2>1, <3>2, <3>3 DEF Sound
    <3> QED
      BY <3>1, <3>4
  <2>3. CASE build' = [build EXCEPT ![b].pc = "collect", ![b].history = <<>>, ![b].lost = TRUE]
    <3> DEFINE x == [old EXCEPT !.pc = "collect", !.history = <<>>, !.lost = TRUE]
    <3>1. build'[b] = x
      BY <1>4, <2>3
    <3>2. x \in BuildType
      BY <1>2, NothingTyped DEF BuildType
    <3>3. /\ x.pc = "collect" /\ x.history = <<>> /\ x.latest = old.latest
          /\ x.lost = TRUE /\ x.got = old.got
      BY <1>2 DEF BuildType
    <3> HIDE DEF x, old
    <3>4. Sound(x, site)
      BY <1>3, <2>1, <3>2, <3>3 DEF Sound
    <3> QED
      BY <3>1, <3>4
  <2> QED
    BY <1>5, <2>2, <2>3 DEF FetchHistory
<1>6. ASSUME CarryLatest(b) PROVE Sound(build'[b], site)
  <2>1. old.pc = "carryLatest" /\ old.latest = NoResult /\ old.history = <<>> /\ ~old.lost
    BY <1>1, <1>6 DEF CarryLatest, Sound
  <2>2. PICK latest \in {NoResult, site.latest} :
           build'[b] = [old EXCEPT !.pc = "carryHistory", !.latest = latest]
    <3>1. CASE build' = [build EXCEPT ![b].pc = "carryHistory", ![b].latest = site.latest]
      BY <1>4, <3>1
    <3>2. CASE build' = [build EXCEPT ![b].pc = "carryHistory"]
      <4>1. build'[b] = [old EXCEPT !.pc = "carryHistory"]
        BY <1>4, <3>2
      <4>2. [old EXCEPT !.pc = "carryHistory"]
               = [old EXCEPT !.pc = "carryHistory", !.latest = NoResult]
        BY <1>2, <2>1 DEF BuildType
      <4> QED
        BY <4>1, <4>2
    <3> QED
      BY <1>6, <3>1, <3>2 DEF CarryLatest
  <2> DEFINE x == [old EXCEPT !.pc = "carryHistory", !.latest = latest]
  <2>3. latest \in Results /\ LatestWitnessed(latest)
    BY <1>2, <1>3, <2>1, <2>2, NothingTyped
  <2>4. x \in BuildType
    BY <1>2, <2>3 DEF BuildType
  <2>5. /\ x.pc = "carryHistory" /\ x.history = old.history /\ x.latest = latest
        /\ x.lost = old.lost /\ x.got = old.got
    BY <1>2 DEF BuildType
  <2> HIDE DEF x, old
  <2>6. Sound(x, site)
    BY <1>3, <2>1, <2>2, <2>3, <2>4, <2>5 DEF Sound
  <2> QED
    BY <2>2, <2>6 DEF x
<1>7. ASSUME CarryHistory(b) PROVE Sound(build'[b], site)
  <2>1. /\ old.pc = "carryHistory" /\ old.latest \in {NoResult, site.latest}
        /\ old.history = <<>> /\ ~old.lost
    BY <1>1, <1>7 DEF CarryHistory, Sound
  <2>2. CASE build' = [build EXCEPT ![b].pc = "deploy", ![b].history = site.history]
    <3> DEFINE x == [old EXCEPT !.pc = "deploy", !.history = site.history]
    <3>1. build'[b] = x
      BY <1>4, <2>2
    <3>2. x \in BuildType
      BY <1>2 DEF BuildType
    <3>3. /\ x.pc = "deploy" /\ x.history = site.history /\ x.latest = old.latest
          /\ x.lost = old.lost /\ x.got = old.got
      BY <1>2 DEF BuildType
    <3> HIDE DEF x, old
    <3>4. Agree(x.latest, x.history) /\ Keeps(site.history, x.history)
      BY <1>3, <2>1, <3>3 DEF Agree, Keeps
    <3>5. Sound(x, site)
      BY <1>3, <2>1, <3>2, <3>3, <3>4 DEF Sound
    <3> QED
      BY <3>1, <3>5
  <2>3. CASE build' = [build EXCEPT ![b].pc = "deploy", ![b].lost = TRUE]
    <3> DEFINE x == [old EXCEPT !.pc = "deploy", !.lost = TRUE]
    <3>1. build'[b] = x
      BY <1>4, <2>3
    <3>2. x \in BuildType
      BY <1>2 DEF BuildType
    <3>3. /\ x.pc = "deploy" /\ x.history = <<>> /\ x.latest = old.latest
          /\ x.lost = TRUE /\ x.got = old.got /\ old.history = <<>>
      BY <1>2, <2>1 DEF BuildType
    <3> HIDE DEF x, old
    <3>4. Agree(x.latest, x.history)
      BY <3>3, EmptySeq DEF Agree, KeysDiffer
    <3>5. Sound(x, site)
      BY <1>3, <2>1, <3>2, <3>3, <3>4 DEF Sound
    <3> QED
      BY <3>1, <3>5
  <2> QED
    BY <1>7, <2>2, <2>3 DEF CarryHistory
<1> QED
  BY <1>1, <1>5, <1>6, <1>7

\* The collection keeps what it read and adds what it found.
LEMMA CollectSound ==
    ASSUME Inv, NEW b \in Builds, Collect(b)
    PROVE  Sound(build'[b], site')
<1> DEFINE old == build[b]
           h == build[b].history
           snapshot == Snapshot(build[b].got, build[b].history)
           a == Appended(h, snapshot)
           x == [old EXCEPT !.pc = "deploy", !.latest = snapshot, !.history = a]
           y == [old EXCEPT !.pc = "deploy", !.history = <<>>, !.lost = TRUE]
<1>1. Sound(old, site) /\ SiteSound(site) /\ site' = site /\ old.pc = "collect"
  BY InvIsSound DEF Collect
<1>2. /\ old \in BuildType /\ h \in Histories
      /\ old.got \in [Workflows -> GotType]
  BY <1>1 DEF Sound, BuildType
<1>3. /\ \A w \in Workflows : old.got[w].at <= clock
                              /\ (old.got[w].up => Witnessed(old.got[w].at))
      /\ HistoryWitnessed(h) /\ Agree(site.latest, site.history)
      /\ h = IF old.lost THEN <<>> ELSE site.history
  BY <1>1, Zenon DEF Sound, SiteSound
<1>4. /\ snapshot \in Results /\ LatestWitnessed(snapshot)
      /\ snapshot.endpoint = "up" => Witnessed(snapshot.finishedAt)
  <2>1. clock \in Nat /\ upTimes \in SUBSET Nat
    BY DEF Inv, TypeOK
  <2> HIDE DEF snapshot
  <2> QED
    BY <1>2, <1>3, <2>1, SnapshotWitnessed DEF snapshot
<1>5. build'[b] = x \/ build'[b] = y
  BY DEF Collect, Inv, TypeOK
\* Nothing was written.
<1>y. Sound(y, site)
  <2>1. y \in BuildType
    BY <1>2, NothingTyped DEF BuildType
  <2>2. /\ y.pc = "deploy" /\ y.history = <<>> /\ y.latest = old.latest /\ y.lost = TRUE
        /\ y.got = old.got
    BY <1>2 DEF BuildType
  <2>3. old.latest = NoResult /\ LatestWitnessed(old.latest)
    BY <1>1, Zenon DEF Sound
  <2> HIDE DEF y, old, snapshot, h, a, x
  <2>4. Agree(y.latest, y.history) /\ HistoryWitnessed(y.history)
    BY <2>2, EmptySeq DEF Agree, KeysDiffer, HistoryWitnessed
  <2> QED
    BY <1>3, <2>1, <2>2, <2>3, <2>4 DEF Sound
<1> HIDE DEF snapshot, h, y
<1>6. /\ a \in Histories /\ Len(a) > 0 /\ a[Len(a)] = summarise(snapshot)
      /\ \A j \in 1..Len(a) : \/ a[j] = summarise(snapshot)
                              \/ \E i \in 1..Len(h) : a[j] = h[i]
      /\ KeysDiffer(h) => KeysDiffer(a)
      /\ Keeps(h, a)
  BY <1>2, <1>4, AppendedKeeps
<1> HIDE DEF a
<1>7. HistoryWitnessed(a)
  BY <1>3, <1>4, <1>6 DEF HistoryWitnessed, summarise
<1>8. KeysDiffer(h)
  BY <1>3, EmptySeq DEF Agree, KeysDiffer
<1>9. x \in BuildType
  BY <1>2, <1>4, <1>6 DEF BuildType
<1>10. /\ x.pc = "deploy" /\ x.latest = snapshot /\ x.history = a /\ x.lost = old.lost
       /\ x.got = old.got
  BY <1>2 DEF BuildType
<1> HIDE DEF x, old
<1>11. Agree(x.latest, x.history) /\ (~x.lost => Keeps(site.history, x.history))
  BY <1>3, <1>6, <1>8, <1>10 DEF Agree
<1>12. Sound(x, site)
  BY <1>3, <1>4, <1>7, <1>9, <1>10, <1>11 DEF Sound
<1> QED
  BY <1>1, <1>5, <1>y, <1>12

\* Every step of a build keeps the invariant.
LEMMA BuildInv ==
    ASSUME Inv, NEW b \in Builds, StartBuild(b) \/ BuildStep(b) \/ Abort(b)
    PROVE  Inv'
<1>1. SiteSound(site) /\ Sound(build[b], site)
  BY InvIsSound
<1>2. CASE StartBuild(b)
  <2>1. site' = site
    BY <1>2 DEF StartBuild
  <2> QED
    BY <1>1, <1>2, <2>1, StartSound, SoundStep
<1>3. CASE Download(b)
  <2>1. site' = site
    BY <1>3 DEF Download
  <2> QED
    BY <1>1, <1>3, <2>1, DownloadSound, SoundStep
<1>4. CASE FetchHistory(b) \/ CarryLatest(b) \/ CarryHistory(b)
  <2>1. site' = site
    BY <1>4 DEF FetchHistory, CarryLatest, CarryHistory
  <2> QED
    BY <1>1, <1>4, <2>1, FetchSound, SoundStep
<1>5. CASE Collect(b)
  <2>1. site' = site
    BY <1>5 DEF Collect
  <2> QED
    BY <1>1, <1>5, <2>1, CollectSound, SoundStep
<1>6. CASE Deploy(b)
  <2>1. build'[b] = Idle /\ site' = [latest |-> build[b].latest, history |-> build[b].history]
    BY <1>6 DEF Deploy, Inv, TypeOK
  <2>2. site'.latest = build[b].latest /\ site'.history = build[b].history
    BY <2>1
  <2>3. build[b].latest \in Results /\ build[b].history \in Histories
    BY DEF Inv, TypeOK, BuildType
  <2>4. /\ Agree(build[b].latest, build[b].history)
        /\ LatestWitnessed(build[b].latest) /\ HistoryWitnessed(build[b].history)
    BY <1>1, <1>6 DEF Sound, Deploy
  <2>5. SiteSound(site')
    BY <2>1, <2>2, <2>3, <2>4 DEF SiteSound
  <2> QED
    BY <1>6, <2>1, <2>5, IdleIsSound, SoundStep
<1>7. CASE Abort(b)
  <2>1. build'[b] = Idle /\ site' = site
    BY <1>7 DEF Abort, Inv, TypeOK
  <2> QED
    BY <1>1, <1>7, <2>1, IdleIsSound, SoundStep
<1> QED
  BY <1>2, <1>3, <1>4, <1>5, <1>6, <1>7 DEF BuildStep

-----------------------------------------------------------------------------
(* The theorems *)

\* The invariant holds in every reachable state, whatever the workflows, the
\* limits and the number of failures.
THEOREM Invariant == Spec => []Inv
<1>1. Inv /\ [Next]_vars => Inv'
  <2> SUFFICES ASSUME Inv, [Next]_vars PROVE Inv'
    OBVIOUS
  <2> QED
    BY WorldInv, BuildInv DEF Next
<1> QED
  BY InitInv, <1>1, PTL DEF Spec

\* Type correctness: in particular the published history never exceeds
\* HISTORY_LIMIT, and the walk never reads past the last workflow.
THEOREM TypeCorrect == Spec => []TypeOK
<1>1. Inv => TypeOK
  BY DEF Inv
<1> QED
  BY Invariant, <1>1, PTL

\* The picture on the page is the last block of its history, and no combination of
\* runs has two entries, for histories of any length (collect_results.py:697-703).
THEOREM FilesAgreeHolds == Spec => []FilesAgree
<1>1. Inv => FilesAgree
  <2> SUFFICES ASSUME Inv PROVE FilesAgree
    OBVIOUS
  <2>1. DOMAIN site.history = 1..Len(site.history)
    BY LenProperties DEF Inv, TypeOK, Histories
  <2> QED
    BY <2>1 DEF Inv, FetchedIsPublished, Agree, KeysDiffer, FilesAgree
<1> QED
  BY Invariant, <1>1, PTL

\* A time of last reachability always has a probe before it that found the endpoint
\* up (collect_results.py:353-365), however old the history it comes from.
THEOREM ReachableHasWitnessHolds == Spec => []ReachableHasWitness
<1>1. Inv => ReachableHasWitness
  BY DEF Inv, FilesWitness, LatestWitnessed, Witnessed, ReachableHasWitness
<1> QED
  BY Invariant, <1>1, PTL

\* A deploy whose fetch succeeded keeps every combination published before, but
\* for the oldest when the history is full (collect_results.py:697-699), because
\* the group lets nobody deploy between the fetch and the deploy (pages.yml:36).
THEOREM NoEntryLostHolds == Spec => NoEntryLost
<1> DEFINE Kept == \A b \in Builds :
         build[b].pc = "deploy" /\ build'[b].pc = "idle" /\ site' # site /\ ~build[b].lost =>
           \A i \in DOMAIN site.history :
              \/ i = 1 /\ Len(site'.history) = HistoryLimit
              \/ \E j \in DOMAIN site'.history :
                    site'.history[j].key = site.history[i].key
<1>1. Inv /\ [Next]_vars => [Kept]_vars
  <2> SUFFICES ASSUME Inv, [Next]_vars, site' # site,
                      NEW b \in Builds, build[b].pc = "deploy", ~build[b].lost
               PROVE  Keeps(site.history, site'.history)
    BY DEF Keeps
  <2>1. PICK c \in Builds : Deploy(c)
    <3>1. ASSUME NEW c \in Builds, BuildStep(c) PROVE Deploy(c)
      BY <3>1, Zenon DEF BuildStep, Download, FetchHistory, Collect, CarryLatest, CarryHistory
    <3>2. ASSUME NEW w \in Workflows, NEW i, Begin(w) \/ Rerun(w, i) \/ Complete(w, i) \/ Expire(w, i)
          PROVE  FALSE
      BY <3>2, Zenon DEF Begin, Rerun, Complete, CompleteRun, Expire
    <3>3. ~(OtherCompletion \/ Push \/ Skip)
      BY Zenon DEF OtherCompletion, Push, Skip
    <3>4. ASSUME NEW c \in Builds, StartBuild(c) \/ Abort(c) PROVE FALSE
      BY <3>4, Zenon DEF StartBuild, Abort
    <3> QED
      BY <3>1, <3>2, <3>3, <3>4 DEF Next, vars
  <2>2. c = b
    BY <2>1 DEF Deploy, Inv, OneBuild
  <2>3. site'.history = build[b].history
    BY <2>1, <2>2 DEF Deploy
  <2> QED
    BY <2>3 DEF Inv, FetchedIsPublished
<1> QED
  BY Invariant, <1>1, PTL DEF Spec, NoEntryLost

=============================================================================
