----------------------------- MODULE StatusSite -----------------------------
(***************************************************************************)
(* How the status site is published: .github/workflows/pages.yml with      *)
(* site/tools/collect_results.py.                                          *)
(*                                                                         *)
(* A build takes from each test workflow the newest completed run that     *)
(* carries results, fetches the history off the deployed site, appends a   *)
(* summary and deploys.  The deployed site is the only store.  Test runs   *)
(* complete in any order, are re-run and lose their artifacts meanwhile.   *)
(*                                                                         *)
(* Results are reduced to the run and the attempt they came from, the time *)
(* its first artifact gives and the state of one endpoint, which the       *)
(* network workflow probes.                                                *)
(***************************************************************************)
EXTENDS Integers, Sequences, FiniteSetsExt, Functions

CONSTANTS
    TestWorkflows,  \* TEST_WORKFLOWS, a sequence
    Prober,         \* the workflow whose artifacts hold an endpoint report
    WalkLimit,      \* --limit of gh run list, 10
    HistoryLimit,   \* HISTORY_LIMIT, 120
    Builds,         \* slots for builds in progress, numbers
    MaxRuns,        \* bound: test runs and re-runs started
    MaxPushes,      \* bound: builds started by a push or by hand
    MaxExpiries,    \* bound: runs whose artifacts expire
    MaxFailures     \* bound: requests and steps that fail

Workflows == Range(TestWorkflows)

ASSUME ConstantsAssumption ==
    /\ TestWorkflows \in Seq(Workflows) /\ Prober \in Workflows
    /\ Builds # {} /\ Builds \subseteq Nat
    /\ WalkLimit \in Nat \ {0} /\ HistoryLimit \in Nat \ {0}
    /\ MaxRuns \in Nat /\ MaxPushes \in Nat /\ MaxExpiries \in Nat /\ MaxFailures \in Nat

VARIABLES
    runs,      \* per workflow its runs, indexed by run number
    clock,     \* completions so far
    pending,   \* what waits in the concurrency group: a build, or a run to be skipped
    build,     \* what the job of each slot has so far
    site,      \* the deployed data directory
    upTimes,   \* history: when probes found the endpoint up
    dropped,   \* history: has a run to be skipped taken the place of the last build?
    started, pushes, expiries, failures  \* the bounded counters

bounded == <<started, pushes, expiries, failures>>
vars == <<runs, clock, pending, build, site, upTimes, dropped, bounded>>

NoRun == [num |-> 0, done |-> 0, at |-> 0, up |-> FALSE]
NoResult == [key |-> [w \in Workflows |-> 0], shown |-> [w \in Workflows |-> 0],
             finishedAt |-> 0, endpoint |-> "absent", reachable |-> 0]
Idle == [pc |-> "idle", k |-> 1, got |-> [w \in Workflows |-> NoRun],
         latest |-> NoResult, history |-> <<>>, lost |-> FALSE]

Summaries == [key : [Workflows -> Nat], finishedAt : Nat, endpoint : {"up", "down", "absent"}]
Results == [key : [Workflows -> Nat], shown : [Workflows -> Nat], finishedAt : Nat,
            endpoint : {"up", "down", "absent"}, reachable : Nat]
Histories == {h \in Seq(Summaries) : Len(h) <= HistoryLimit}

\* began and done are the times of its first start and its last completion, at
\* is the finishedAt of its first artifact.
RunType == [kind : {"running", "complete", "unusable"}, up : BOOLEAN, counts : BOOLEAN,
            began : Nat, done : Nat, at : Nat]

GotType == [num : Nat, done : Nat, at : Nat, up : BOOLEAN]

BuildType ==
    [pc : {"idle", "download", "fetch", "collect", "carryLatest", "carryHistory", "deploy"},
     k : 1..Len(TestWorkflows) + 1, got : [Workflows -> GotType],
     latest : Results, history : Histories, lost : BOOLEAN]

TypeOK ==
    /\ runs \in [Workflows -> Seq(RunType)]
    /\ clock \in Nat /\ upTimes \in SUBSET Nat
    /\ pending \in {"none", "build", "skip"} /\ dropped \in BOOLEAN
    /\ build \in [Builds -> BuildType]
    /\ site \in [latest : Results, history : Histories]
    /\ started \in 0..MaxRuns /\ pushes \in 0..MaxPushes
    /\ expiries \in 0..MaxExpiries /\ failures \in 0..MaxFailures

Init ==
    /\ runs = [w \in Workflows |-> <<>>]
    /\ clock = 0 /\ upTimes = {}
    /\ pending = "none" /\ dropped = FALSE
    /\ build = [b \in Builds |-> Idle]
    /\ site = [latest |-> NoResult, history |-> <<>>]
    /\ started = 0 /\ pushes = 0 /\ expiries = 0 /\ failures = 0

-----------------------------------------------------------------------------
(* The test workflows on main *)

\* A run of a test workflow starts.
Begin(w) ==
    /\ started < MaxRuns
    /\ runs' = [runs EXCEPT ![w] =
                  Append(@, [kind |-> "running", up |-> FALSE, counts |-> FALSE,
                             began |-> clock, done |-> 0, at |-> 0])]
    /\ started' = started + 1
    /\ UNCHANGED <<clock, pending, build, site, upTimes, dropped, pushes, expiries, failures>>

\* A completed run is run again under its number: by hand, or by rerun-flaky.
Rerun(w, i) ==
    /\ started < MaxRuns
    /\ runs[w][i].kind # "running"
    /\ runs' = [runs EXCEPT ![w][i].kind = "running"]
    /\ started' = started + 1
    /\ UNCHANGED <<clock, pending, build, site, upTimes, dropped, pushes, expiries, failures>>

\* A run of pages.yml joins the group, in place of the one waiting there.
Joins(p) ==
    /\ pending' = p
    /\ dropped' = (p = "skip" /\ (dropped \/ pending = "build"))

\* What a run completes as: "complete" if it has artifacts and each holds JUnit
\* XML, "unusable" if it has none or one with its metadata only.  Each job wrote its
\* artifact's time when it ended, in this attempt or, if only failed jobs were run
\* again, in an earlier one.  The endpoint is up if every artifact's probe found it
\* so, the first one's among them.
CompleteRun(w, i, k, u, c) ==
    /\ runs[w][i].kind = "running"
    /\ u => w = Prober /\ k = "complete"
    /\ clock' = clock + 1
    /\ \E at \in IF k = "complete" THEN runs[w][i].began + 1..clock' ELSE {0} :
          /\ runs' = [runs EXCEPT ![w][i] = [kind |-> k, up |-> u, counts |-> c,
                                            began |-> @.began, done |-> clock', at |-> at]]
          /\ upTimes' = IF u THEN upTimes \cup {at} ELSE upTimes
    /\ UNCHANGED <<build, site, bounded>>

\* Mutant: a trigger that finds a build in progress starts none.
Complete_ignoredWhileBuilding(w, i) ==
    \E k \in {"complete", "unusable"}, u \in BOOLEAN, c \in BOOLEAN :
        /\ CompleteRun(w, i, k, u, c)
        /\ IF c /\ \E b \in Builds : build[b].pc # "idle"
           THEN UNCHANGED <<pending, dropped>>
           ELSE Joins(IF c THEN "build" ELSE "skip")

\* workflow_run: completed.  Its conclusion is looked at by the job's if, and not
\* before the run of pages.yml has joined the group: a test run that was cancelled
\* or skipped, which can hold results all the same, takes the place as well.
Complete(w, i) ==
    \E k \in {"complete", "unusable"}, u \in BOOLEAN, c \in BOOLEAN :
        /\ CompleteRun(w, i, k, u, c)
        /\ Joins(IF c THEN "build" ELSE "skip")

\* A test run of a pull request or of another branch completes: its pages run
\* joins the same group, since its event is workflow_run and not pull_request.
OtherCompletion ==
    /\ Joins("skip")
    /\ UNCHANGED <<runs, clock, build, site, upTimes, bounded>>

\* A push to the site, or a dispatch.
Push ==
    /\ pushes < MaxPushes
    /\ pushes' = pushes + 1
    /\ Joins("build")
    /\ UNCHANGED <<runs, clock, build, site, upTimes, started, expiries, failures>>

\* retention-days have passed.
Expire(w, i) ==
    /\ expiries < MaxExpiries
    /\ runs[w][i].kind = "complete"
    /\ runs' = [runs EXCEPT ![w][i].kind = "unusable"]
    /\ expiries' = expiries + 1
    /\ UNCHANGED <<clock, pending, build, site, upTimes, dropped, started, pushes, failures>>

-----------------------------------------------------------------------------
(* A build *)

worldVars == <<runs, clock, upTimes, dropped, started, pushes, expiries>>

\* Slots are interchangeable: a build takes the first free one, if there is one.
FirstFree == Min({c \in Builds : build[c].pc = "idle"} \cup {Max(Builds) + 1})

\* Mutant: no concurrency group.
StartBuild_concurrent(b) ==
    /\ pending = "build" /\ b = FirstFree
    /\ pending' = "none"
    /\ build' = [build EXCEPT ![b].pc = "download"]
    /\ UNCHANGED <<worldVars, site, failures>>

\* The group lets one build run at a time.
StartBuild(b) ==
    /\ pending = "build" /\ b = FirstFree /\ \A c \in Builds : build[c].pc = "idle"
    /\ pending' = "none"
    /\ build' = [build EXCEPT ![b].pc = "download"]
    /\ UNCHANGED <<worldVars, site, failures>>

\* The job's if: a run whose test run is not to be published ends when its turn comes.
Skip ==
    /\ pending = "skip" /\ \A c \in Builds : build[c].pc = "idle"
    /\ pending' = "none"
    /\ UNCHANGED <<worldVars, build, site, failures>>

\* gh run list --status completed --limit: the newest completed runs.
Listed(w) ==
    {i \in DOMAIN runs[w] :
        /\ runs[w][i].kind # "running"
        /\ Cardinality({j \in i + 1..Len(runs[w]) : runs[w][j].kind # "running"}) < WalkLimit}

\* metadata_count and usable.
Usable(w) == {i \in Listed(w) : runs[w][i].kind = "complete"}

\* After the last workflow: found, or not.
AfterDownload(k, got) ==
    IF k < Len(TestWorkflows) THEN "download"
    ELSE IF \E w \in Workflows : got[w].num # 0 THEN "fetch" ELSE "carryLatest"

\* The walk takes the newest usable run; a download that fails, for whatever
\* reason, is passed over, so that an older run or none is taken.
Download(b) ==
    LET w == TestWorkflows[build[b].k]
        newest == IF Usable(w) = {} THEN 0 ELSE Max(Usable(w))
    IN  /\ build[b].pc = "download"
        /\ \E i \in Usable(w) \cup {0} :
              /\ i = newest \/ (i < newest /\ failures < MaxFailures)
              /\ failures' = IF i = newest THEN failures ELSE failures + 1
              /\ LET got == [build[b].got EXCEPT ![w] = IF i = 0 THEN NoRun
                          ELSE [num |-> i, done |-> runs[w][i].done, at |-> runs[w][i].at,
                                up |-> runs[w][i].up]]
                 IN  build' = [build EXCEPT ![b].got = got, ![b].k = @ + 1,
                                            ![b].pc = AfterDownload(build[b].k, got)]
        /\ UNCHANGED <<worldVars, pending, site>>

\* curl of history.json.  Any failure starts a new history, not only a 404.
FetchHistory(b) ==
    /\ build[b].pc = "fetch"
    /\ \/ /\ build' = [build EXCEPT ![b].pc = "collect", ![b].history = site.history]
          /\ UNCHANGED failures
       \/ /\ failures < MaxFailures /\ failures' = failures + 1
          /\ build' = [build EXCEPT ![b].pc = "collect", ![b].history = <<>>, ![b].lost = TRUE]
    /\ UNCHANGED <<worldVars, pending, site>>

\* The endpoint in the artifacts at hand.
EndpointState(got) ==
    IF got[Prober].num = 0 THEN "absent" ELSE IF got[Prober].up THEN "up" ELSE "down"

\* Mutant: every endpoint that was probed is taken to be reachable.
merge_endpoints_alwaysNow(endpoint, history, finishedAt) ==
    IF endpoint = "absent" THEN 0 ELSE finishedAt

\* lastReachableAt: now, or the last entry of the history that has it up.
merge_endpoints(endpoint, history, finishedAt) ==
    LET seen == {i \in DOMAIN history : history[i].endpoint = "up"}
    IN  CASE endpoint = "up"                  -> finishedAt
          [] endpoint = "down" /\ seen # {}   -> history[Max(seen)].finishedAt
          [] OTHER                            -> 0

\* The snapshot main builds from the runs at hand and the history it read: the
\* time is the newest of those the runs' first artifacts give.
Snapshot(got, history) ==
    LET finishedAt == Max({got[w].at : w \in Workflows})
        endpoint == EndpointState(got)
    IN  [key |-> [w \in Workflows |-> got[w].num], shown |-> [w \in Workflows |-> got[w].done],
         finishedAt |-> finishedAt, endpoint |-> endpoint,
         reachable |-> merge_endpoints(endpoint, history, finishedAt)]

\* The compact form kept in the history.
summarise(snapshot) ==
    [key |-> snapshot.key, finishedAt |-> snapshot.finishedAt, endpoint |-> snapshot.endpoint]

\* The last HISTORY_LIMIT entries.
Capped(h) == IF Len(h) <= HistoryLimit THEN h ELSE SubSeq(h, Len(h) - HistoryLimit + 1, Len(h))

\* Mutant: an entry is added, and replaces none.
Others_keepsAll(history, key) == history

\* The entries of the other combinations of runs, in their order.
Others(history, key) ==
    LET kept[n \in 0..Len(history)] ==
            IF n = 0 THEN <<>>
            ELSE IF history[n].key = key THEN kept[n - 1]
            ELSE Append(kept[n - 1], history[n])
    IN  kept[Len(history)]

\* The same combination of runs replaces its entry.
Appended(history, snapshot) ==
    Capped(Append(Others(history, snapshot.key), summarise(snapshot)))

\* collect_results.py writes both files.  If it fails the step does not, since tee
\* is the last of the pipe: the deploy goes out with neither.
Collect(b) ==
    /\ build[b].pc = "collect"
    /\ \/ /\ LET snapshot == Snapshot(build[b].got, build[b].history)
             IN  build' = [build EXCEPT ![b].pc = "deploy", ![b].latest = snapshot,
                                        ![b].history = Appended(build[b].history, snapshot)]
          /\ UNCHANGED failures
       \/ /\ failures < MaxFailures /\ failures' = failures + 1
          /\ build' = [build EXCEPT ![b].pc = "deploy", ![b].history = <<>>, ![b].lost = TRUE]
    /\ UNCHANGED <<worldVars, pending, site>>

\* Nothing was found: each published file is fetched, or is missing from the deploy.
CarryLatest(b) ==
    /\ build[b].pc = "carryLatest"
    /\ \/ /\ build' = [build EXCEPT ![b].pc = "carryHistory", ![b].latest = site.latest]
          /\ UNCHANGED failures
       \/ /\ failures < MaxFailures /\ failures' = failures + 1
          /\ build' = [build EXCEPT ![b].pc = "carryHistory"]
    /\ UNCHANGED <<worldVars, pending, site>>

CarryHistory(b) ==
    /\ build[b].pc = "carryHistory"
    /\ \/ /\ build' = [build EXCEPT ![b].pc = "deploy", ![b].history = site.history]
          /\ UNCHANGED failures
       \/ /\ failures < MaxFailures /\ failures' = failures + 1
          /\ build' = [build EXCEPT ![b].pc = "deploy", ![b].lost = TRUE]
    /\ UNCHANGED <<worldVars, pending, site>>

Deploy(b) ==
    /\ build[b].pc = "deploy"
    /\ site' = [latest |-> build[b].latest, history |-> build[b].history]
    /\ build' = [build EXCEPT ![b] = Idle]
    /\ UNCHANGED <<worldVars, pending, failures>>

\* A step fails, or the run is cancelled by hand: nothing is deployed.
Abort(b) ==
    /\ build[b].pc # "idle" /\ failures < MaxFailures
    /\ failures' = failures + 1
    /\ build' = [build EXCEPT ![b] = Idle]
    /\ UNCHANGED <<worldVars, pending, site>>

BuildStep(b) ==
    \/ Download(b) \/ FetchHistory(b) \/ Collect(b)
    \/ CarryLatest(b) \/ CarryHistory(b) \/ Deploy(b)

Next ==
    \/ \E w \in Workflows : Begin(w)
    \/ \E w \in Workflows : \E i \in DOMAIN runs[w] :
          Rerun(w, i) \/ Complete(w, i) \/ Expire(w, i)
    \/ OtherCompletion \/ Push \/ Skip
    \/ \E b \in Builds : StartBuild(b) \/ BuildStep(b) \/ Abort(b)

Spec == Init /\ [][Next]_vars

-----------------------------------------------------------------------------
(* Properties *)

\* The two published files tell of one collection: the picture on the page is
\* the last block of its history, whichever of the files had to be carried
\* forward (collect_results.py:701-703, pages.yml:174-183), and no combination of
\* runs has two entries, also when the walk falls back to an older run and a
\* combination comes up again after others (collect_results.py:687-688, 697).
FilesAgree ==
    /\ site.history # <<>> /\ site.latest # NoResult =>
         site.history[Len(site.history)] = summarise(site.latest)
    /\ \A i, j \in DOMAIN site.history :
         site.history[i].key = site.history[j].key => i = j

\* "the history published last time is fetched back and appended to"
\* (pages.yml:151-152): a deploy whose fetch succeeded keeps the entry of every
\* combination published before it, but for the oldest when the limit is met.
NoEntryLost ==
    [][\A b \in Builds :
         build[b].pc = "deploy" /\ build'[b].pc = "idle" /\ site' # site /\ ~build[b].lost =>
           \A i \in DOMAIN site.history :
              \/ i = 1 /\ Len(site'.history) = HistoryLimit
              \/ \E j \in DOMAIN site'.history :
                    site'.history[j].key = site.history[i].key]_vars

\* An endpoint is never given a time of last reachability before which no probe
\* found it up: the time comes from its own state or from an entry that had it up,
\* through re-runs, fall-backs to older runs and carried files
\* (collect_results.py:353-365, 622-625).
ReachableHasWitness ==
    site.latest.reachable # 0 => \E t \in upTimes : t <= site.latest.reachable

\* The results of every attempt that ended on main with results, and was neither
\* cancelled nor skipped, are on the page or superseded there by a newer run.
AllShown ==
    \A w \in Workflows : \A i \in Usable(w) :
        runs[w][i].counts =>
            site.latest.key[w] > i \/ site.latest.shown[w] = runs[w][i].done

\* No trigger is lost between the group, the builds and the runs that complete or
\* are run again while one is downloading (pages.yml:7-12, 35-40, 111-148): when
\* nothing runs, waits or is being built, the page is up to date, unless a build
\* failed, which nothing repeats, or a run to be skipped took the place of the last
\* build that waited.
QuietMeansShown ==
    /\ failures = 0 /\ ~dropped /\ pending = "none"
    /\ \A b \in Builds : build[b].pc = "idle"
    /\ \A w \in Workflows : \A i \in DOMAIN runs[w] : runs[w][i].kind # "running"
    => AllShown

=============================================================================
