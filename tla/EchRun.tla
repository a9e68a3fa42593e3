------------------------------- MODULE EchRun -------------------------------
(***************************************************************************)
(* One run of the Android ECH suite: android-ech/run-ech-test.sh on the    *)
(* host, the fixture process it starts (ech-fixture's EchFixtureService),  *)
(* the endpoint file by which the two talk, and the device.                *)
(*                                                                         *)
(* The service publishes the file once its two containers are up and stops *)
(* them when the file is gone.  The script waits for the file, waits for   *)
(* the device, runs three suites, and on the way out deletes the file,     *)
(* gives the service twenty seconds and kills it.                          *)
(*                                                                         *)
(* The script runs under set -e, which bash suspends in run_suite where    *)
(* the call is followed by ||: for the public and the fixture suite, not   *)
(* for the Certificate Transparency suite.  Deadlines may pass at any      *)
(* time.  The device comes and goes, at most MaxRestarts times.            *)
(***************************************************************************)
EXTENDS Integers, Sequences

CONSTANT MaxRestarts  \* bound: how often the device drops back while it is used

ASSUME MaxRestartsAssumption == MaxRestarts \in Nat

\* PublicEncryptedClientHelloTest, CertificateTransparencyTest, EncryptedClientHelloTest
Suites == <<"public", "ct", "fixture">>

\* no_results_status
NoResults == 86

VARIABLES
    smoke,       \* --smoke-only
    script,      \* where the script is
    n,           \* the suite it is at, an index in Suites
    samples,     \* ready_samples; -1 while adb wait-for-device blocks
    status,      \* run_suite's status
    cases,       \* does results_dir hold a <testcase?
    recorded,    \* the results moved aside for each suite
    exit,        \* the exit status, -1 while the script runs
    file,        \* the endpoint file: "absent", "stale", "empty", "own"
    endpoint,    \* the file the script took the ports from
    service,     \* where the service's main thread is
    stopped,     \* the service's AtomicBoolean
    containers,  \* the containers that are up
    term,        \* the kill: "no", "sent", then where the shutdown hook is,
                 \* or "cut" if the JVM ended without its work being done
    device,      \* "offline", "booting", "ready"
    restarts     \* times the device dropped back

svcVars == <<service, stopped, containers>>
devVars == <<device, restarts>>
suiteVars == <<n, samples, status, cases, recorded>>
vars == <<smoke, script, suiteVars, exit, file, endpoint, svcVars, term, devVars>>

InReadyWait == script \in {"deviceWait", "suiteWait", "retryWait"}
InSuites == script \in {"suiteWait", "gradle", "retryWait", "retryGradle", "settle"}

TypeOK ==
    /\ smoke \in BOOLEAN
    /\ script \in {"start", "await", "deviceWait", "forward", "suiteWait", "gradle",
                   "retryWait", "retryGradle", "settle", "cleanup", "grace", "reap", "done"}
    /\ n \in 1..Len(Suites)
    /\ samples \in -1..2
    /\ status \in {0, 1, NoResults}
    /\ cases \in BOOLEAN
    /\ recorded \in [{"public", "ct", "fixture"} -> {"none", "empty", "passed", "failed"}]
    /\ exit \in {-1, 0, 1, NoResults, 143}
    /\ file \in {"absent", "stale", "empty", "own"}
    /\ endpoint \in {"none", "stale", "own"}
    /\ service \in {"unstarted", "boot", "targetUp", "dohUp", "hooked", "created",
                    "polling", "stopDoh", "stopTarget", "returned", "exited"}
    /\ stopped \in BOOLEAN
    /\ containers \subseteq {"target", "doh"}
    /\ term \in {"no", "sent", "stopDoh", "stopTarget", "handled", "cut"}
    /\ device \in {"offline", "booting", "ready"}
    /\ restarts \in 0..MaxRestarts

Init ==
    /\ smoke \in BOOLEAN
    /\ script = "start"
    /\ n = 1 /\ samples = -1 /\ status = 0 /\ cases = FALSE
    /\ recorded = [s \in {"public", "ct", "fixture"} |-> "none"]
    /\ exit = -1
    /\ file \in {"absent", "stale"}  \* a killed run leaves its file behind
    /\ endpoint = "none"
    /\ service = "unstarted" /\ stopped = FALSE /\ containers = {}
    /\ term = "no"
    /\ device \in {"offline", "booting", "ready"}
    /\ restarts = 0

-----------------------------------------------------------------------------
(* The script up to the suites *)

\* The script ends with a status: the EXIT trap runs cleanup.
Exit(code) == exit' = code /\ script' = "cleanup"

\* Mutant: a file left by an earlier run is not removed.
Start_keepsFile ==
    /\ script = "start"
    /\ service' = "boot"
    /\ script' = "await"
    /\ UNCHANGED <<smoke, suiteVars, exit, file, endpoint, stopped, containers, term, devVars>>

\* rm -f of the endpoint file, then the service is started in the background.
Start ==
    /\ script = "start"
    /\ file' = "absent"
    /\ service' = "boot"
    /\ script' = "await"
    /\ UNCHANGED <<smoke, suiteVars, exit, endpoint, stopped, containers, term, devVars>>

\* The file is there and has content: its metadata is read and is valid, or not.
FixtureFound ==
    /\ script = "await" /\ file \in {"own", "stale"}
    /\ endpoint' = file
    /\ \/ Exit(1)
       \/ smoke /\ Exit(0)
       \/ ~smoke /\ script' = "deviceWait" /\ UNCHANGED exit
    /\ UNCHANGED <<smoke, suiteVars, file, svcVars, term, devVars>>

\* The service has died, or the start-up deadline has passed.
FixtureMissing ==
    /\ script = "await" /\ file \notin {"own", "stale"}
    /\ Exit(1)
    /\ UNCHANGED <<smoke, suiteVars, file, endpoint, svcVars, term, devVars>>

-----------------------------------------------------------------------------
(* wait_for_device_ready *)

\* Is errexit in force where the script is now?
ErrExit == InSuites => Suites[n] = "ct"

AfterWait ==
    CASE script = "deviceWait" -> "forward"
      [] script = "suiteWait"  -> "gradle"
      [] script = "retryWait"  -> "retryGradle"

\* adb wait-for-device returns; it has no deadline of its own.
waitForDevice ==
    /\ InReadyWait /\ samples = -1 /\ device # "offline"
    /\ samples' = 0
    /\ UNCHANGED <<smoke, script, n, status, cases, recorded, exit, file, endpoint,
                   svcVars, term, devVars>>

\* One probe.  Three good ones in a row end the wait.  With no transport the
\* assignment of getprop's output fails, which errexit takes for the end.
probe ==
    /\ InReadyWait /\ samples >= 0
    /\ CASE device = "ready" /\ samples = 2 ->
              samples' = -1 /\ script' = AfterWait /\ UNCHANGED exit
         [] device = "ready" /\ samples < 2 ->
              samples' = samples + 1 /\ UNCHANGED <<script, exit>>
         [] device = "offline" /\ ErrExit ->
              samples' = -1 /\ Exit(1)
         [] OTHER ->
              samples' = 0 /\ UNCHANGED <<script, exit>>
    /\ UNCHANGED <<smoke, n, status, cases, recorded, file, endpoint, svcVars, term, devVars>>

\* The deadline passes: return 1, fatal only under errexit.
waitTimesOut ==
    /\ InReadyWait /\ samples >= 0
    /\ samples' = -1
    /\ IF ErrExit THEN Exit(1) ELSE script' = AfterWait /\ UNCHANGED exit
    /\ UNCHANGED <<smoke, n, status, cases, recorded, file, endpoint, svcVars, term, devVars>>

\* adb reverse for the two ports, the API level, and wait_for_public_network,
\* which can only make the public cases skip.  adb fails without the device.
forward ==
    /\ script = "forward"
    /\ \/ device # "offline" /\ script' = "suiteWait" /\ UNCHANGED exit
       \/ Exit(1)
    /\ UNCHANGED <<smoke, suiteVars, file, endpoint, svcVars, term, devVars>>

-----------------------------------------------------------------------------
(* run_suite *)

\* What an instrumentation run can leave: test cases need a ready device and
\* Gradle returns 0 only if they all passed; with none it may still return 0.
Outcome(c, s) == (c => device = "ready") /\ s \in {0, 1}

\* Mutant: a failed run is repeated whether or not it recorded anything.
gradle_retriesFailures ==
    /\ script = "gradle"
    /\ \E c \in BOOLEAN, s \in {0, 1} :
          /\ Outcome(c, s)
          /\ cases' = c
          /\ status' = IF c THEN s ELSE 0
          /\ script' = IF c /\ s = 0 THEN "settle" ELSE "retryWait"
    /\ UNCHANGED <<smoke, n, samples, recorded, exit, file, endpoint, svcVars, term, devVars>>

\* The first run of connectedDebugAndroidTest; none recorded, one more try.
gradle ==
    /\ script = "gradle"
    /\ \E c \in BOOLEAN, s \in {0, 1} :
          /\ Outcome(c, s)
          /\ cases' = c
          /\ status' = IF c THEN s ELSE 0
          /\ script' = IF c THEN "settle" ELSE "retryWait"
    /\ UNCHANGED <<smoke, n, samples, recorded, exit, file, endpoint, svcVars, term, devVars>>

\* The second run.
retryGradle ==
    /\ script = "retryGradle"
    /\ \E c \in BOOLEAN, s \in {0, 1} :
          /\ Outcome(c, s)
          /\ cases' = c
          /\ status' = s
    /\ script' = "settle"
    /\ UNCHANGED <<smoke, n, samples, recorded, exit, file, endpoint, svcVars, term, devVars>>

\* Mutant: Gradle's word is taken for a run that recorded nothing.
Verdict_trustsGradle == status

\* What run_suite returns: a run that recorded nothing has a status of its own.
Verdict == IF cases THEN status ELSE NoResults

\* The results are moved aside and the caller looks at the status: the public
\* and the fixture suite are fatal only without results, the CT suite always.
settle ==
    /\ script = "settle"
    /\ recorded' = [recorded EXCEPT ![Suites[n]] =
                       IF ~cases THEN "empty" ELSE IF status = 0 THEN "passed" ELSE "failed"]
    /\ IF Verdict = NoResults \/ (Suites[n] = "ct" /\ Verdict # 0)
       THEN Exit(Verdict) /\ UNCHANGED n
       ELSE IF n = Len(Suites)
            THEN Exit(0) /\ UNCHANGED n
            ELSE script' = "suiteWait" /\ n' = n + 1 /\ UNCHANGED exit
    /\ cases' = FALSE /\ status' = 0  \* rm -rf of the results, a new local status
    /\ UNCHANGED <<smoke, samples, file, endpoint, svcVars, term, devVars>>

\* The job is cancelled.
Cancel ==
    /\ script \notin {"start", "cleanup", "grace", "reap", "done"}
    /\ Exit(143)
    /\ UNCHANGED <<smoke, suiteVars, file, endpoint, svcVars, term, devVars>>

-----------------------------------------------------------------------------
(* cleanup *)

\* rm -f of the endpoint file: the service is asked to stop.
removeFile ==
    /\ script = "cleanup"
    /\ file' = "absent"
    /\ script' = "grace"
    /\ UNCHANGED <<smoke, suiteVars, exit, endpoint, svcVars, term, devVars>>

\* Mutant: a service that does not stop by itself is not killed.
killService_missing ==
    /\ script = "grace" /\ service # "exited"
    /\ script' = "reap"
    /\ UNCHANGED <<smoke, suiteVars, exit, file, endpoint, svcVars, term, devVars>>

\* Twenty seconds have passed and the service is still there.  What is killed is
\* the gradlew client, which Gradle answers by ending the service it has forked.
killService ==
    /\ script = "grace" /\ service # "exited"
    /\ term' = "sent"
    /\ script' = "reap"
    /\ UNCHANGED <<smoke, suiteVars, exit, file, endpoint, svcVars, devVars>>

\* wait returns: the client is gone, after the service or because of the kill.
reap ==
    /\ script = "reap" \/ (script = "grace" /\ service = "exited")
    /\ script' = "done"
    /\ UNCHANGED <<smoke, suiteVars, exit, file, endpoint, svcVars, term, devVars>>

-----------------------------------------------------------------------------
(* The service *)

scriptVars == <<smoke, script, suiteVars, exit, endpoint>>

\* target.start(): the origin's container.
startTarget ==
    /\ service = "boot"
    /\ service' = "targetUp" /\ containers' = containers \cup {"target"}
    /\ UNCHANGED <<scriptVars, file, stopped, term, devVars>>

\* Mutant: the resolver's container is configured and not started.
startDoh_notStarted ==
    /\ service = "targetUp"
    /\ service' = "dohUp"
    /\ UNCHANGED <<scriptVars, file, stopped, containers, term, devVars>>

\* The metadata is read and the resolver's container started.
startDoh ==
    /\ service = "targetUp"
    /\ service' = "dohUp" /\ containers' = containers \cup {"doh"}
    /\ UNCHANGED <<scriptVars, file, stopped, term, devVars>>

\* Building, starting or asking a container fails outside the try block: the
\* exception ends main and nothing here stops what is up.
startFails ==
    /\ service \in {"boot", "targetUp", "dohUp"}
    /\ service' = "exited"
    /\ UNCHANGED <<scriptVars, file, stopped, containers, term, devVars>>

\* addShutdownHook.
addShutdownHook ==
    /\ service = "dohUp"
    /\ service' = "hooked"
    /\ UNCHANGED <<scriptVars, file, stopped, containers, term, devVars>>

\* Files.writeString creates the file, then fills it.
createFile ==
    /\ service = "hooked"
    /\ service' = "created" /\ file' = "empty"
    /\ UNCHANGED <<scriptVars, stopped, containers, term, devVars>>

writeFile ==
    /\ service = "created"
    /\ service' = "polling"
    /\ file' = IF file = "empty" THEN "own" ELSE file
    /\ UNCHANGED <<scriptVars, stopped, containers, term, devVars>>

\* The file is gone, or could not be written: the finally block deletes it and
\* calls stop(), which does the work unless the hook has begun it.
fileGone ==
    /\ \/ service = "polling" /\ file = "absent"
       \/ service \in {"hooked", "created"}
    /\ file' = "absent"
    /\ stopped' = TRUE
    /\ service' = IF stopped THEN "returned" ELSE "stopDoh"
    /\ UNCHANGED <<scriptVars, containers, term, devVars>>

\* stop(), on the main thread or on the hook's.
stopDoh ==
    /\ \/ service = "stopDoh" /\ service' = "stopTarget" /\ UNCHANGED term
       \/ term = "stopDoh" /\ term' = "stopTarget" /\ UNCHANGED service
    /\ containers' = containers \ {"doh"}
    /\ UNCHANGED <<scriptVars, file, stopped, devVars>>

\* Mutant: only the resolver is stopped.
stopTarget_forgotten ==
    /\ \/ service = "stopTarget" /\ UNCHANGED term
       \/ term = "stopTarget" /\ term' = "handled"
    /\ service' = "exited"
    /\ UNCHANGED <<scriptVars, file, stopped, containers, devVars>>

\* The JVM ends when main returns, or when the hook does.
stopTarget ==
    /\ \/ service = "stopTarget" /\ UNCHANGED term
       \/ term = "stopTarget" /\ term' = "handled"
    /\ service' = "exited"
    /\ containers' = containers \ {"target"}
    /\ UNCHANGED <<scriptVars, file, stopped, devVars>>

\* SIGTERM.  Before the hook is installed the JVM just ends.  The hook calls
\* stop(), main running on meanwhile; if main has begun it the hook is done at
\* once and the JVM ends under main's feet.
terminated ==
    /\ term = "sent" /\ service \notin {"unstarted", "exited"}
    /\ IF service \in {"boot", "targetUp", "dohUp"} \/ stopped
       THEN term' = "cut" /\ service' = "exited" /\ UNCHANGED stopped
       ELSE term' = "stopDoh" /\ stopped' = TRUE /\ UNCHANGED service
    /\ UNCHANGED <<scriptVars, file, containers, devVars>>

-----------------------------------------------------------------------------
(* The device *)

boots ==
    /\ device # "ready"
    /\ device' = IF device = "offline" THEN "booting" ELSE "ready"
    /\ UNCHANGED <<scriptVars, file, svcVars, term, restarts>>

\* A service of the device restarts, or its transport is lost.
dropsBack ==
    /\ device # "offline" /\ restarts < MaxRestarts
    /\ \/ device' = "offline"
       \/ device = "ready" /\ device' = "booting"
    /\ restarts' = restarts + 1
    /\ UNCHANGED <<scriptVars, file, svcVars, term>>

ScriptStep ==
    \/ Start \/ FixtureFound \/ FixtureMissing
    \/ waitForDevice \/ probe \/ waitTimesOut \/ forward
    \/ gradle \/ retryGradle \/ settle
    \/ removeFile \/ killService \/ reap

ServiceStep ==
    \/ startTarget \/ startDoh \/ startFails \/ addShutdownHook \/ createFile
    \/ writeFile \/ fileGone \/ stopDoh \/ stopTarget \/ terminated

Next == ScriptStep \/ ServiceStep \/ Cancel \/ boots \/ dropsBack

(***************************************************************************)
(* Fairness: both processes are scheduled, and a booting emulator comes    *)
(* up.  A cancellation and the device's restarts carry none.               *)
(***************************************************************************)
Spec ==
    /\ Init /\ [][Next]_vars
    /\ WF_vars(ScriptStep) /\ WF_vars(ServiceStep) /\ WF_vars(boots)

-----------------------------------------------------------------------------
(* Properties *)

\* "Never let that turn an empty instrumentation attempt into a green job"
\* (run-ech-test.sh:224-225): a full run that exits 0 has recorded test cases
\* for every suite, whatever Gradle returned and however the device behaved.
GreenMeansResults ==
    exit = 0 /\ ~smoke => \A s \in DOMAIN recorded : recorded[s] \in {"passed", "failed"}

\* An instrumentation run of the Certificate Transparency suite has just
\* recorded a failing case.
CtFailed ==
    InSuites /\ script \in {"retryWait", "settle"} /\ Suites[n] = "ct" /\ cases /\ status = 1

\* "This suite gates" (run-ech-test.sh:273), and the retry is for a run that
\* recorded nothing, not for one that failed (run-ech-test.sh:206-214): once a
\* case of the CT suite has failed the script never exits 0, whatever runs later.
CtFailureEndsRed == [](CtFailed => [](exit # 0))

\* The ports and the CA the script uses come from the fixture it started, not
\* from a file that an earlier, killed run left (run-ech-test.sh:24, 41, 55).
UsesOwnFixture == endpoint # "stale"

\* Both containers are up for as long as a suite may be using them: the file is
\* published last and withdrawn first (EchFixtureService.kt:80-131,
\* run-ech-test.sh:37-50).
FixtureUpDuringSuites == InSuites => containers = {"target", "doh"}

\* A service that got as far as its shutdown hook leaves no container behind,
\* however the script's removal of the file and its kill fall among the steps
\* of the file's creation and of stop() (EchFixtureService.kt:72-78, 112-131).
\* The one exception is the kill that finds main inside stop().
NoContainerLeft ==
    service = "exited" /\ stopped /\ term # "cut" => containers = {}

\* The script always ends, with the service gone: also when the file appears
\* only after cleanup has removed it (run-ech-test.sh:37-51).
ScriptEnds == <>[](script = "done" /\ service = "exited")

=============================================================================
