------------------------------- MODULE Results ------------------------------
(***************************************************************************)
(* What site/tools/collect_results.py makes of the artifacts it is given:  *)
(* test cases are classified, suites get a status, artifacts are merged    *)
(* per OkHttp version, and the page gets the worst status of all.          *)
(*                                                                         *)
(* StatusSite has the files and the history around it; here is what is in  *)
(* them.  The artifacts are read one at a time, in the order of their      *)
(* names; as names are arbitrary so is the order.  One endpoint stands for *)
(* all of them, and one of the first-wins records (ClientHello, DoH        *)
(* matrix, Alt-Svc) for the three.  Labels, links, times and messages are  *)
(* left out, and so is the order of suites, which is for display.          *)
(***************************************************************************)
EXTENDS Integers, Sequences, SequencesExt

CONSTANTS
    Artifacts,  \* the directories below --artifacts
    Contents    \* what an artifact may contain, see Init

\* Files are finite, and each case and report is of one of the kinds below.
ASSUME ContentsAssumption ==
    \A c \in Contents :
        /\ IsFiniteSet(c.files)
        /\ \A f \in c.files :
              /\ f.suites \in Seq(Range(f.suites))
              /\ ~f.wrapped => Len(f.suites) = 1
              /\ \A j \in DOMAIN f.suites :
                    /\ IsFiniteSet(f.suites[j].cases)
                    /\ \A k \in f.suites[j].cases :
                          k.xml \in {"passed", "failed", "skipped", "assumption"}
        /\ c.policies \in Seq(Range(c.policies))
        /\ c.reports \in Seq({"absent", "unreadable", "up", "down"})

VARIABLES
    input,      \* what is in each artifact
    todo,       \* the artifacts still to be read
    cards,      \* versions: what was merged for each OkHttp version so far
    endpoint,   \* merge_endpoints: "absent", "up", "down"
    page        \* what main did: "none" yet, "failed", or "written" with the snapshot

vars == <<input, todo, cards, endpoint, page>>

Versions == {input[a].version : a \in Artifacts}
NoCard == [suites |-> <<>>, policy |-> <<>>, hello |-> <<>>, ech |-> <<>>]
NoPage(state) == [state |-> state, status |-> "none", versions |-> <<>>]

\* A snapshot never has the status roll_up keeps for an empty list.
TypeOK ==
    /\ todo \subseteq Artifacts
    /\ DOMAIN cards = Versions
    /\ \A v \in Versions : \A i \in DOMAIN cards[v].suites :
          LET s == cards[v].suites[i]
          IN  /\ s.reporting \in BOOLEAN /\ s.severity \in {"critical", "watch"}
              /\ {s.passed, s.failed, s.expected, s.skipped} \subseteq Nat
    /\ endpoint \in {"absent", "up", "down"}
    /\ page.state \in {"none", "failed", "written"}
    /\ page.state = "written" =>
          page.status \in {"failed", "finding", "expected", "passed", "skipped"}

(***************************************************************************)
(* An artifact: the version and the platform it ran on, its XML files, the *)
(* endpoint reports of its Gradle tasks, and of each kind of record its    *)
(* files in the order of their names, each readable or not: TLS policies,  *)
(* functions from checks to answers, ClientHellos and ECH observations.    *)
(* An XML file that is well formed holds one testsuite, or several in a    *)
(* wrapper that has a name of its own; beside its cases a testsuite may    *)
(* have other elements.  A case has the name JUnit gives it, in which a    *)
(* parameter list or a device is noise and an argument is not, and what    *)
(* the XML says of it; AndroidJUnitRunner writes a failed assumption as a  *)
(* failure.                                                                *)
(***************************************************************************)
Init ==
    /\ input \in [Artifacts -> Contents]
    /\ todo = Artifacts
    /\ cards = [v \in Versions |-> NoCard]
    /\ endpoint = "absent"
    /\ page = NoPage("none")

-----------------------------------------------------------------------------
(* Classification *)

REPORTING_TASKS == {"loomTest", "hostileTest", "postQuantumTest", "echTest",
                    "echConscryptTest", "echPlatformTest", "networkTest"}
REPORTING_CLASSES == {"EncryptedClientHelloTest", "PublicEncryptedClientHelloTest"}
CRITICAL_SUITES == {"EchTest", "EchConscryptTest", "EchClientHelloTest",
                    "EncryptedClientHelloTest", "PublicEncryptedClientHelloTest",
                    "PostQuantumTest"}

severity_of(class) == IF class \in CRITICAL_SUITES THEN "critical" ELSE "watch"

\* The cases that fail on purpose, by suite.
EXPECTED_FAILURES(class) ==
    LET Retried == {"echIsRetriedOnStaleTlsEchDev", "tlsIsNotUsedOnTls12TlsEchDev"}
        Ech == Retried \cup {"cloudflareUsesEch", "echIsAcceptedOnTlsEchDev",
                             "echIsAcceptedOnDefoIe"}
    IN  CASE class = "PostQuantumTest" ->
               {[base |-> "connectsToPostQuantumOnlyServer", arg |-> ""]}
          [] class = "EchTest" ->
               [base : Ech, arg : {"", "JDK"}] \cup [base : Retried, arg : {"CONSCRYPT_ECH"}]
          [] class = "EchConscryptTest" -> {[base |-> "tls12IsReachedWithoutEch", arg |-> ""]}
          [] OTHER -> {}

\* The device and the parameter list go, the argument stays.
normalise_case(raw) == [base |-> raw.base, arg |-> raw.arg]

\* Is there a reason for this case to fail?
expected_reason(class, name, artifact) ==
    \/ /\ class = "BasicLoomTest" /\ name = [base |-> "testHttpsRequest", arg |-> ""]
       /\ 21 <= artifact.jdk /\ artifact.jdk < 24
    \/ /\ class = "CertificateTransparencyTest"
       /\ name = [base |-> "unloggedCertificateIsRejectedWhenCtIsEnforced", arg |-> ""]
       /\ artifact.api = "37.1" /\ artifact.arch = "x86_64"
    \/ name \in EXPECTED_FAILURES(class)

\* A failed assumption is a skip; a failure or a skip with a reason is expected.
CaseStatus(class, case, artifact) ==
    LET raw == CASE case.xml = "passed"                  -> "passed"
                 [] case.xml = "failed"                  -> "failed"
                 [] case.xml \in {"skipped", "assumption"} -> "skipped"
    IN  IF raw # "passed" /\ expected_reason(class, normalise_case(case.name), artifact)
        THEN "expected" ELSE raw

\* The element that is read of a file: its testsuite, of a wrapper the first.  An
\* element without children counts as false, and then it is the wrapper itself
\* with the cases of all its testsuites.  A case is known by its testsuite's place.
Root(file) ==
    LET first == file.suites[1]
        whole == file.wrapped /\ (file.suites = <<>> \/ (first.cases = {} /\ ~first.others))
        read == IF whole THEN DOMAIN file.suites ELSE {1}
    IN  [file |-> file, task |-> file.task, class |-> IF whole THEN file.name ELSE first.class,
         cases |-> UNION {{<<j, c>> : c \in file.suites[j].cases} : j \in read}]

\* The file as a suite record.
parse_suite(suite, artifact) ==
    LET Count(status) ==
            Cardinality({c \in suite.cases : CaseStatus(suite.class, c[2], artifact) = status})
    IN  [reporting |-> suite.task \in REPORTING_TASKS \/ suite.class \in REPORTING_CLASSES,
         severity |-> severity_of(suite.class),
         passed |-> Count("passed"), failed |-> Count("failed"),
         expected |-> Count("expected"), skipped |-> Count("skipped")]

\* What is read of the files of an artifact; one that cannot be parsed is skipped.
Suites(artifact) == {Root(f) : f \in {g \in artifact.files : g.readable}}

\* Mutant: a suite that has expected failures is taken for expected as a whole.
suite_status_expectedFirst(suite) ==
    CASE suite.expected > 0                      -> "expected"
      [] suite.expected = 0 /\ suite.failed > 0  ->
           IF ~suite.reporting \/ suite.severity = "critical" THEN "failed" ELSE "finding"
      [] OTHER                                   ->
           IF suite.passed > 0 THEN "passed" ELSE "skipped"

suite_status(suite) ==
    IF suite.failed > 0
    THEN IF ~suite.reporting \/ suite.severity = "critical" THEN "failed" ELSE "finding"
    ELSE IF suite.expected > 0 THEN "expected"
    ELSE IF suite.passed > 0 THEN "passed" ELSE "skipped"

\* The worst of a set.
roll_up(statuses) ==
    LET Order == <<"failed", "finding", "expected", "passed", "skipped">>
        present == {i \in DOMAIN Order : Order[i] \in statuses}
    IN  IF present = {} THEN "unknown" ELSE Order[Min(present)]

-----------------------------------------------------------------------------
(* Endpoints *)

\* Mutant: the last reading wins.
Merged_last(old, new) == IF new \in {"absent", "unreadable"} THEN old ELSE new

\* A reading of down replaces one of up and is not replaced.
Merged(old, new) ==
    IF /\ new \notin {"absent", "unreadable"}
       /\ old = "absent" \/ (old = "up" /\ new # "up")
    THEN new ELSE old

\* One report per Gradle task; one that cannot be read is passed over.
parse_endpoints(reports) ==
    LET merged[n \in 0..Len(reports)] ==
            IF n = 0 THEN "absent" ELSE Merged(merged[n - 1], reports[n])
    IN  merged[Len(reports)]

-----------------------------------------------------------------------------
(* Merging *)

\* parse_tls_policy and parse_client_hello: the first file that can be read, or none.
FirstReadable(files) ==
    LET readable == {i \in DOMAIN files : files[i].readable}
    IN  IF readable = {} THEN <<>> ELSE <<files[Min(readable)].record>>

\* All of them that can be read.
parse_ech_results(files) ==
    FlattenSeq([i \in DOMAIN files |-> IF files[i].readable THEN files[i].record ELSE <<>>])

\* The record of the platform takes the new checks, or a record is added.
MergedPolicy(records, platform, checks) ==
    LET same == {i \in DOMAIN records : records[i].platform = platform}
        With(old) == [c \in DOMAIN old \cup DOMAIN checks |->
                         IF c \in DOMAIN checks THEN checks[c] ELSE old[c]]
    IN  IF same = {} THEN Append(records, [platform |-> platform, checks |-> checks])
        ELSE [records EXCEPT ![Min(same)] = [platform |-> platform, checks |-> With(@.checks)]]

\* The loop body of group_by_version.
AddArtifact(card, artifact, suites) ==
    [suites |-> card.suites \o suites,
     policy |-> IF FirstReadable(artifact.policies) = <<>> THEN card.policy
                ELSE MergedPolicy(card.policy, artifact.platform,
                                  FirstReadable(artifact.policies)[1]),
     hello |-> IF card.hello = <<>> THEN FirstReadable(artifact.hellos) ELSE card.hello,
     ech |-> card.ech \o parse_ech_results(artifact.ech)]

\* parse_artifact, and the artifact's share of group_by_version and of
\* merge_endpoints.  Without a suite that can be read it is skipped as a whole.
ReadArtifact(a) ==
    /\ page.state = "none" /\ a \in todo
    /\ todo' = todo \ {a}
    /\ LET art == input[a]
           files == SetToSeq(Suites(art))
           suites == [i \in DOMAIN files |-> parse_suite(files[i], art)]
       IN  IF Suites(art) = {} THEN UNCHANGED <<cards, endpoint>>
           ELSE /\ cards' = [cards EXCEPT ![art.version] = AddArtifact(@, art, suites)]
                /\ endpoint' = Merged(endpoint, parse_endpoints(art.reports))
    /\ UNCHANGED <<input, page>>

\* The sum of a count over the suites of a card.
Total(suites, count) ==
    LET sum[n \in 0..Len(suites)] == IF n = 0 THEN 0 ELSE sum[n - 1] + suites[n][count]
    IN  sum[Len(suites)]

\* The closing part of group_by_version for one version.
VersionOf(card) ==
    [status |-> roll_up({suite_status(card.suites[i]) : i \in DOMAIN card.suites}),
     passed |-> Total(card.suites, "passed"), failed |-> Total(card.suites, "failed"),
     expected |-> Total(card.suites, "expected"), skipped |-> Total(card.suites, "skipped")]

\* No artifact had results: main returns 1.  Otherwise the snapshot is written.
Write ==
    /\ page.state = "none" /\ todo = {}
    /\ LET shown == {v \in Versions : cards[v].suites # <<>>}
           versions == [v \in shown |-> VersionOf(cards[v])]
       IN  page' = IF shown = {} THEN NoPage("failed")
                   ELSE [state |-> "written", versions |-> versions,
                         status |-> roll_up({versions[v].status : v \in shown})]
    /\ UNCHANGED <<input, todo, cards, endpoint>>

Next == (\E a \in Artifacts : ReadArtifact(a)) \/ Write

Spec == Init /\ [][Next]_vars

-----------------------------------------------------------------------------
(* Properties *)

Written == page.state = "written"

\* Everything the artifacts of a version hold, case by case: the artifact, the
\* file, the place of the testsuite in it and the case.
Recorded(v) ==
    UNION {UNION {UNION {{<<a, f, <<j, c>>>> : c \in f.suites[j].cases} : j \in DOMAIN f.suites} :
                     f \in input[a].files} : a \in {b \in Artifacts : input[b].version = v}}

\* What is lost of it: the cases of a file that cannot be parsed, and in a wrapper
\* whose first testsuite is not empty those of the others.
Unreadable(v) == {x \in Recorded(v) : ~x[2].readable}
Dropped(v) ==
    {x \in Recorded(v) :
        /\ x[2].wrapped /\ x[3][1] > 1
        /\ x[2].suites[1].cases # {} \/ x[2].suites[1].others}

CasesOf(v) == Recorded(v) \ (Unreadable(v) \cup Dropped(v))

\* A failure that nobody predicted: the assertion failed, and neither the table
\* nor the two exceptions name the case for the platform it ran on.
Unpredicted(x) ==
    /\ x[3][2].xml = "failed"
    /\ ~expected_reason(Root(x[2]).class, normalise_case(x[3][2].name), input[x[1]])

\* "the page's red is reserved for a result nobody predicted" and no such result
\* that is read, in a suite that gates or is critical, is ever shown in another
\* colour, however many green, amber or skipped cases, suites, artifacts and
\* versions are merged with it (collect_results.py:42-47, 106-116, 452-471, 585-592).
RedIsExact ==
    Written =>
        (page.status = "failed" <=>
            \E v \in Versions : \E x \in CasesOf(v) :
                Unpredicted(x) /\ (\/ Root(x[2]).class \in CRITICAL_SUITES
                                   \/ /\ x[2].task \notin REPORTING_TASKS
                                      /\ Root(x[2]).class \notin REPORTING_CLASSES))

\* The four counts of a version.
Sum(version) == version.passed + version.failed + version.expected + version.skipped

\* Merging drops no case and counts none twice: a version's four counts add up to
\* the cases in its artifacts, less those of unreadable files and those a wrapper
\* hides (collect_results.py:233-234, 303-308, 497-500, 538-558, 590-593).
CountsAddUp ==
    Written => \A v \in DOMAIN page.versions : Sum(page.versions[v]) = Cardinality(CasesOf(v))

\* The artifacts that are not skipped.
WithResults == {a \in Artifacts : \E f \in input[a].files : f.readable}

\* "any probe that failed makes the endpoint down", in whatever order tasks and
\* artifacts are read and whichever reports are unreadable
\* (collect_results.py:316-318, 348-351).
DownWins ==
    todo = {} =>
        LET readings == UNION {Range(input[a].reports) : a \in WithResults}
        IN  endpoint = IF "down" \in readings THEN "down"
                       ELSE IF "up" \in readings THEN "up" ELSE "absent"

\* The checks in the first policy file of an artifact that can be read.
ChecksOf(a) ==
    LET files == input[a].policies
    IN  UNION {DOMAIN files[i].record : i \in {j \in DOMAIN files :
                  files[j].readable /\ \A k \in 1..j - 1 : ~files[k].readable}}

\* A version has one TLS policy record per platform, with every check of the first
\* readable record of each of its artifacts from that platform: public and fixture
\* suites complete each other (collect_results.py:412-423, 570-582).
PolicyComplete ==
    todo = {} => \A v \in Versions :
        LET policy == cards[v].policy
            Of(p) == {a \in WithResults :
                         /\ input[a].version = v /\ input[a].platform = p
                         /\ \E i \in DOMAIN input[a].policies : input[a].policies[i].readable}
        IN  /\ \A i, j \in DOMAIN policy : policy[i].platform = policy[j].platform => i = j
            /\ \A i \in DOMAIN policy :
                  DOMAIN policy[i].checks = UNION {ChecksOf(a) : a \in Of(policy[i].platform)}
            /\ \A a \in Artifacts : a \in Of(input[a].platform) =>
                  \E i \in DOMAIN policy : policy[i].platform = input[a].platform

\* Merging loses nothing that was read, in whatever order tasks and artifacts are read:
\* every case of it counts once, every check of an artifact's policy is kept, and a
\* reading of down wins over up (collect_results.py:313-333, 412-423, 497-500, 535-594).
MergeLosesNothing == CountsAddUp /\ PolicyComplete /\ DownWins

=============================================================================
