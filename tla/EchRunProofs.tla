---------------------------- MODULE EchRunProofs ----------------------------
(***************************************************************************)
(* The Android ECH run is safe however often the device drops back: what   *)
(* the script, the service and the shutdown hook may rely on of each other *)
(* at every step, and from it the four invariants and the gate of the CT   *)
(* suite.                                                                  *)
(***************************************************************************)
EXTENDS EchRun, TLAPS

\* The script has its exit status and is in the EXIT trap.
Ending == script \in {"cleanup", "grace", "reap", "done"}

\* The script has read the endpoint file and may use the fixture.
Using == script \in {"deviceWait", "forward"} \/ InSuites

\* The exit status is set exactly on the way into cleanup.
ExitIsLast == exit = -1 <=> ~Ending

\* The service lives between the script's Start and its own end; it is killed
\* by the last step of cleanup only.
ServiceIsStarted ==
    /\ script = "start" <=> service = "unstarted"
    /\ term # "no" => script \in {"reap", "done"}

\* A file that another run left is gone before this one looks for it.
FileIsOwn ==
    /\ file = "stale" => script = "start"
    /\ endpoint # "stale"
    /\ ~Ending /\ file = "own" => service = "polling"
    /\ Using => file = "own"

\* Only a full run gets past the file, and nothing of an empty attempt is
\* carried into its repetition.
FullRun ==
    /\ Using => ~smoke
    /\ script \in {"retryWait", "retryGradle"} => ~cases

\* The suites before the current one have recorded test cases.
EarlierRecorded ==
    ~Ending => \A i \in 1..(n - 1) : recorded[Suites[i]] \in {"passed", "failed"}

\* stop() is entered once, by main or by the shutdown hook.
OneStops ==
    /\ stopped => \/ service \in {"stopDoh", "stopTarget", "exited"}
                  \/ term \in {"stopDoh", "stopTarget"}
    /\ service \in {"stopDoh", "stopTarget"} => stopped /\ term \in {"no", "sent"}
    /\ term \in {"stopDoh", "stopTarget"} =>
          stopped /\ service \in {"hooked", "created", "polling", "returned"}
    /\ service = "returned" => stopped
    /\ term \in {"handled", "cut"} => service = "exited"

\* Which containers are up, by where main and the hook are.
ContainersUp ==
    /\ service \in {"unstarted", "boot"} => containers = {}
    /\ service = "targetUp" => containers = {"target"}
    /\ service \in {"dohUp", "hooked", "created", "polling"} /\ ~stopped =>
          containers = {"target", "doh"}
    /\ "stopTarget" \in {service, term} => "doh" \notin containers

\* The inductive invariant.
Inv ==
    /\ TypeOK
    /\ ExitIsLast /\ ServiceIsStarted /\ FileIsOwn /\ FullRun
    /\ EarlierRecorded /\ OneStops /\ ContainersUp
    /\ GreenMeansResults /\ NoContainerLeft

\* Before the script starts anything there is no service, no container and no
\* exit status, and at most a file of an earlier run.
LEMMA InitInv == Init => Inv
<1> SUFFICES ASSUME Init PROVE Inv
  OBVIOUS
<1>1. TypeOK
  <2>1. n \in 1..Len(Suites)
    BY DEF Init, Suites
  <2>2. recorded \in [{"public", "ct", "fixture"} -> {"none", "empty", "passed", "failed"}]
    BY DEF Init
  <2>3. restarts \in 0..MaxRestarts /\ samples \in -1..2
    BY MaxRestartsAssumption DEF Init
  <2> QED
    BY <2>1, <2>2, <2>3 DEF Init, TypeOK
<1>2. ExitIsLast /\ ServiceIsStarted /\ FileIsOwn /\ FullRun
  BY DEF Init, ExitIsLast, ServiceIsStarted, FileIsOwn, FullRun, Ending, Using, InSuites
<1>3. EarlierRecorded /\ OneStops /\ ContainersUp
  BY DEF Init, EarlierRecorded, OneStops, ContainersUp
<1>4. GreenMeansResults /\ NoContainerLeft
  BY DEF Init, GreenMeansResults, NoContainerLeft
<1> QED
  BY <1>1, <1>2, <1>3, <1>4 DEF Inv

\* run_suite's last step: the only one that records results and the only one
\* that lets a full run exit 0.
LEMMA SettleInv == Inv /\ settle => Inv'
<1> SUFFICES ASSUME Inv, settle PROVE Inv'
  OBVIOUS
<1> USE DEF Inv, Exit, Verdict, NoResults, Suites, svcVars, devVars
<1>1. /\ UNCHANGED <<smoke, samples, file, endpoint, svcVars, term, devVars>>
      /\ script = "settle" /\ cases' = FALSE /\ status' = 0
      /\ n \in {1, 2, 3}
  BY DEF settle, TypeOK
<1>2. recorded' = [recorded EXCEPT ![Suites[n]] =
                      IF ~cases THEN "empty" ELSE IF status = 0 THEN "passed" ELSE "failed"]
  BY DEF settle
<1>3. \/ script' = "cleanup" /\ exit' \in {1, NoResults} /\ n' = n
      \/ script' = "cleanup" /\ exit' = 0 /\ n' = n /\ n = 3 /\ cases
      \/ script' = "suiteWait" /\ exit' = exit /\ n' = n + 1 /\ n < 3 /\ cases
  BY <1>1 DEF settle, TypeOK
<1>4. TypeOK'
  <2>1. recorded' \in [{"public", "ct", "fixture"} -> {"none", "empty", "passed", "failed"}]
    BY <1>2 DEF TypeOK
  <2>2. n' \in 1..Len(Suites) /\ script' \in {"cleanup", "suiteWait"}
    BY <1>1, <1>3
  <2>3. exit' \in {-1, 0, 1, NoResults, 143}
    BY <1>3 DEF TypeOK
  <2>4. cases' \in BOOLEAN /\ status' \in {0, 1, NoResults}
    BY <1>1
  <2> HIDE DEF Suites, NoResults
  <2> QED
    BY <1>1, <2>1, <2>2, <2>3, <2>4 DEF TypeOK
<1>5. EarlierRecorded' /\ GreenMeansResults'
  <2>1. \A i \in 1..(n - 1) : recorded[Suites[i]] \in {"passed", "failed"}
    BY <1>1 DEF EarlierRecorded, Ending
  <2>2. cases => \A i \in 1..n : recorded'[Suites[i]] \in {"passed", "failed"}
    BY <1>1, <1>2, <2>1 DEF TypeOK
  <2>3. DOMAIN recorded' = {Suites[1], Suites[2], Suites[3]}
    BY <1>2 DEF TypeOK
  <2>4. EarlierRecorded'
    BY <1>1, <1>3, <2>2 DEF EarlierRecorded, Ending
  <2>5. GreenMeansResults'
    BY <1>1, <1>3, <2>2, <2>3 DEF GreenMeansResults, ExitIsLast, Ending
  <2> QED
    BY <2>4, <2>5
<1>6. ExitIsLast' /\ ServiceIsStarted' /\ FileIsOwn' /\ FullRun'
  BY <1>1, <1>3
  DEF ExitIsLast, ServiceIsStarted, FileIsOwn, FullRun, Ending, Using, InSuites, TypeOK
<1>7. OneStops' /\ ContainersUp' /\ NoContainerLeft'
  BY <1>1 DEF OneStops, ContainersUp, NoContainerLeft
<1> QED
  BY <1>4, <1>5, <1>6, <1>7

\* The script's other steps: the fixture is looked for, the suites are run
\* while the file is there, and cleanup removes it before it kills anything.
LEMMA ScriptInv == Inv /\ (ScriptStep \/ Cancel) => Inv'
<1> SUFFICES ASSUME Inv, ScriptStep \/ Cancel PROVE Inv'
  OBVIOUS
<1> USE DEF Inv, TypeOK, ExitIsLast, ServiceIsStarted, FileIsOwn, FullRun, EarlierRecorded,
            OneStops, ContainersUp, GreenMeansResults, NoContainerLeft, Ending, Using,
            InSuites, InReadyWait, svcVars, devVars, suiteVars, Exit
<1>1. CASE Start
  BY <1>1 DEF Start
<1>2. CASE FixtureFound
  BY <1>2 DEF FixtureFound
<1>3. CASE FixtureMissing
  BY <1>3 DEF FixtureMissing
<1>4. CASE waitForDevice
  BY <1>4 DEF waitForDevice
<1>5. CASE probe
  BY <1>5 DEF probe, AfterWait
<1>6. CASE waitTimesOut
  BY <1>6 DEF waitTimesOut, AfterWait
<1>7. CASE forward
  BY <1>7 DEF forward
<1>8. CASE gradle
  BY <1>8 DEF gradle
<1>9. CASE retryGradle
  BY <1>9 DEF retryGradle
<1>10. CASE settle
  BY <1>10, SettleInv
<1>11. CASE removeFile
  BY <1>11 DEF removeFile
<1>12. CASE killService
  BY <1>12 DEF killService
<1>13. CASE reap
  BY <1>13 DEF reap
<1>14. CASE Cancel
  BY <1>14 DEF Cancel
<1> QED
  BY <1>1, <1>2, <1>3, <1>4, <1>5, <1>6, <1>7, <1>8, <1>9, <1>10, <1>11, <1>12, <1>13,
     <1>14 DEF ScriptStep

\* A step of the service leaves the script's own state alone.
LEMMA ServiceFrame ==
    ASSUME Inv, UNCHANGED <<scriptVars, devVars>>
    PROVE  ExitIsLast' /\ FullRun' /\ EarlierRecorded' /\ GreenMeansResults'
  BY DEF Inv, ExitIsLast, FullRun, EarlierRecorded, GreenMeansResults, Ending, Using,
         InSuites, scriptVars, suiteVars

\* The service's steps: containers go up before the file is written, and down
\* only once the file is gone or the script has killed the service.
LEMMA ServiceInv == Inv /\ ServiceStep => Inv'
<1> SUFFICES ASSUME Inv, ServiceStep PROVE Inv'
  OBVIOUS
<1>f. UNCHANGED <<scriptVars, devVars>>
  BY DEF ServiceStep, startTarget, startDoh, startFails, addShutdownHook, createFile,
         writeFile, fileGone, stopDoh, stopTarget, terminated
<1>g. ExitIsLast' /\ FullRun' /\ EarlierRecorded' /\ GreenMeansResults'
  BY <1>f, ServiceFrame
<1> SUFFICES (TypeOK /\ ServiceIsStarted /\ FileIsOwn /\ OneStops /\ ContainersUp
                 /\ NoContainerLeft)'
  BY <1>g DEF Inv
<1> USE <1>f DEF Inv, TypeOK, ServiceIsStarted, FileIsOwn, OneStops, ContainersUp,
                 NoContainerLeft, Ending, Using, InSuites, scriptVars, suiteVars, devVars
<1>1. CASE startTarget
  <2>1. containers' = {"target"}
    BY <1>1 DEF startTarget
  <2> QED
    BY <1>1, <2>1 DEF startTarget
<1>2. CASE startDoh
  <2>1. containers' = {"target", "doh"}
    BY <1>2 DEF startDoh
  <2> QED
    BY <1>2, <2>1 DEF startDoh
<1>3. CASE startFails
  BY <1>3 DEF startFails
<1>4. CASE addShutdownHook
  BY <1>4 DEF addShutdownHook
<1>5. CASE createFile
  BY <1>5 DEF createFile
<1>6. CASE writeFile
  BY <1>6 DEF writeFile
<1>7. CASE fileGone
  BY <1>7 DEF fileGone
<1>8. CASE stopDoh
  BY <1>8 DEF stopDoh
<1>9. CASE stopTarget
  <2>1. containers' = {}
    BY <1>9 DEF stopTarget
  <2> QED
    BY <1>9, <2>1 DEF stopTarget
<1>10. CASE terminated
  <2>1. term = "sent" /\ service \notin {"unstarted", "exited"} /\ UNCHANGED <<file, containers>>
    BY <1>10 DEF terminated
  <2>2. CASE service \in {"boot", "targetUp", "dohUp"} \/ stopped
    <3>1. term' = "cut" /\ service' = "exited" /\ stopped' = stopped
      BY <1>10, <2>2 DEF terminated
    <3> QED
      BY <2>1, <3>1
  <2>3. CASE ~(service \in {"boot", "targetUp", "dohUp"} \/ stopped)
    <3>1. term' = "stopDoh" /\ stopped' = TRUE /\ service' = service
      BY <1>10, <2>3 DEF terminated
    <3>2. service \in {"hooked", "created", "polling"}
      BY <2>1, <2>3
    <3> QED
      BY <2>1, <3>1, <3>2
  <2> QED
    BY <2>2, <2>3
<1> QED
  BY <1>1, <1>2, <1>3, <1>4, <1>5, <1>6, <1>7, <1>8, <1>9, <1>10 DEF ServiceStep

\* Neither the device nor a step of anything else concerns the invariant.
LEMMA DeviceInv == Inv /\ (boots \/ dropsBack \/ UNCHANGED vars) => Inv'
<1> SUFFICES ASSUME Inv, boots \/ dropsBack \/ UNCHANGED vars PROVE Inv'
  OBVIOUS
<1>1. UNCHANGED <<scriptVars, file, svcVars, term>>
  BY DEF boots, dropsBack, vars, scriptVars
<1>2. device' \in {"offline", "booting", "ready"} /\ restarts' \in 0..MaxRestarts
  BY MaxRestartsAssumption DEF boots, dropsBack, vars, devVars, Inv, TypeOK
<1> QED
  BY <1>1, <1>2
  DEF Inv, TypeOK, ExitIsLast, ServiceIsStarted, FileIsOwn, FullRun, EarlierRecorded, OneStops,
      ContainersUp, GreenMeansResults, NoContainerLeft, Ending, Using, InSuites, scriptVars,
      suiteVars, svcVars

\* Every step, of the script, the service or the device, keeps the invariant.
LEMMA NextInv == Inv /\ [Next]_vars => Inv'
  BY ScriptInv, ServiceInv, DeviceInv DEF Next

\* The inductive invariant holds of every run of the script.
THEOREM Invariant == Spec => []Inv
  BY InitInv, NextInv, PTL DEF Spec

\* Every variable keeps its type, whatever the interleaving of the script, the
\* service, the hook and the device.
THEOREM TypeCorrect == Spec => []TypeOK
<1>1. Inv => TypeOK
  BY DEF Inv
<1> QED
  BY Invariant, <1>1, PTL

\* A full run that exits 0 has recorded test cases for each of the three suites
\* (run-ech-test.sh:199-231), however often the device restarts.
THEOREM GreenMeansResultsHolds == Spec => []GreenMeansResults
<1>1. Inv => GreenMeansResults
  BY DEF Inv
<1> QED
  BY Invariant, <1>1, PTL

\* The script never takes its ports from a file it did not cause to be written.
THEOREM UsesOwnFixtureHolds == Spec => []UsesOwnFixture
<1>1. Inv => UsesOwnFixture
  BY DEF Inv, FileIsOwn, UsesOwnFixture
<1> QED
  BY Invariant, <1>1, PTL

\* Both containers are up whenever a suite may be using them: the file is there,
\* so main is polling it, and nobody has entered stop().
THEOREM FixtureUpDuringSuitesHolds == Spec => []FixtureUpDuringSuites
<1>1. Inv => FixtureUpDuringSuites
  <2> SUFFICES ASSUME Inv, InSuites PROVE containers = {"target", "doh"}
    BY DEF FixtureUpDuringSuites
  <2>1. service = "polling" /\ term = "no"
    BY DEF Inv, FileIsOwn, ServiceIsStarted, Using, Ending, InSuites
  <2>2. ~stopped
    BY <2>1 DEF Inv, OneStops
  <2> QED
    BY <2>1, <2>2 DEF Inv, ContainersUp
<1> QED
  BY Invariant, <1>1, PTL

\* A service that entered stop() leaves no container behind, unless the kill
\* found main inside it.
THEOREM NoContainerLeftHolds == Spec => []NoContainerLeft
<1>1. Inv => NoContainerLeft
  BY DEF Inv
<1> QED
  BY Invariant, <1>1, PTL

\* What a failed CT case leaves for good: it is about to be settled, or the
\* script is on its way out with a status other than 0.
Gated == CtFailed \/ (Ending /\ exit # 0)

\* Once gated, always gated: settle, a cancellation and cleanup are all that can
\* happen to the script, and none of them sets the exit status to 0.
LEMMA GatedIsStable == Inv /\ Gated /\ [Next]_vars => Gated'
<1> SUFFICES ASSUME Inv, Gated, [Next]_vars PROVE Gated'
  OBVIOUS
<1>1. ASSUME UNCHANGED scriptVars PROVE Gated'
  BY <1>1 DEF Gated, CtFailed, Ending, InSuites, scriptVars, suiteVars
<1>2. CASE CtFailed
  <2>1. script = "settle" /\ Suites[n] = "ct" /\ cases /\ status = 1
    BY <1>2 DEF CtFailed, Inv, FullRun
  <2>2. CASE ScriptStep
    <3>1. settle
      BY <2>1, <2>2
      DEF ScriptStep, Start, FixtureFound, FixtureMissing, waitForDevice, probe, waitTimesOut,
          forward, gradle, retryGradle, removeFile, killService, reap, InReadyWait
    <3> QED
      BY <2>1, <3>1 DEF settle, Verdict, Exit, Gated, Ending, NoResults
  <2>3. CASE Cancel
    BY <2>3 DEF Cancel, Exit, Gated, Ending
  <2>4. CASE ServiceStep \/ boots \/ dropsBack \/ UNCHANGED vars
    BY <1>1, <2>4
    DEF ServiceStep, startTarget, startDoh, startFails, addShutdownHook, createFile, writeFile,
        fileGone, stopDoh, stopTarget, terminated, boots, dropsBack, vars, scriptVars
  <2> QED
    BY <2>2, <2>3, <2>4 DEF Next
<1>3. CASE Ending /\ exit # 0
  <2>1. Ending' /\ exit' = exit
    BY <1>3
    DEF Next, ScriptStep, ServiceStep, Start, FixtureFound, FixtureMissing, waitForDevice, probe,
        waitTimesOut, forward, gradle, retryGradle, settle, removeFile, killService, reap, Cancel,
        startTarget, startDoh, startFails, addShutdownHook, createFile, writeFile, fileGone,
        stopDoh, stopTarget, terminated, boots, dropsBack, vars, scriptVars, Ending, InReadyWait
  <2> QED
    BY <1>3, <2>1 DEF Gated
<1> QED
  BY <1>2, <1>3 DEF Gated

\* Once a case of the CT suite has failed the script never exits 0
\* (run-ech-test.sh:206-214, 273-277).
THEOREM CtFailureEndsRedHolds == Spec => CtFailureEndsRed
<1>1. CtFailed => Gated
  BY DEF Gated
<1>2. Inv /\ Gated => exit # 0
  BY DEF Inv, ExitIsLast, Gated, CtFailed, Ending
<1> QED
  BY Invariant, GatedIsStable, <1>1, <1>2, PTL DEF Spec, CtFailureEndsRed

=============================================================================
