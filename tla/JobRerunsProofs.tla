-------------------------- MODULE JobRerunsProofs ---------------------------
(***************************************************************************)
(* The job re-runs dashboard for any number of workflows, issues, triggers *)
(* and failed requests: what the one active run of the script may rely on  *)
(* between its read of the issue and its write.                            *)
(***************************************************************************)
EXTENDS JobReruns, FiniteSetTheorems, TLAPS

\* The concurrency group: at most one run of the script is active.
OneRun == \A q, r \in Runs : run[q].pc # "idle" /\ run[r].pc # "idle" => q = r

\* At most one dashboard is open, and it is the one the active run has read:
\* nobody else creates one meanwhile.
OneDashboard ==
    /\ \A i, j \in open : i = j
    /\ \A r \in Runs : PastRead(r) => /\ run[r].issue \in 0..created
                                      /\ open \subseteq {run[r].issue}

\* An issue that does not exist yet is blank.
FutureIsBlank ==
    \A i \in Issues : i > created => /\ ticked[i] = {}
                                     /\ \A w \in Workflows : shown[i][w] = 0

\* A run dispatches what it selected, nothing before it has read the issue, and
\* writes when it is through.
SelectedFirst ==
    \A r \in Runs :
       /\ run[r].accepted \subseteq run[r].selected
       /\ run[r].todo \subseteq run[r].selected
       /\ ~PastRead(r) => run[r].accepted = {}
       /\ run[r].pc = "write" => run[r].todo = {}

\* No table is ahead of the workflows, nor of what a run is about to write.
TablesLag ==
    /\ \A i \in Issues, w \in Workflows : shown[i][w] <= latest[w]
    /\ \A r \in Runs, w \in Workflows :
          run[r].pc = "write" =>
             /\ run[r].seen[w] <= latest[w]
             /\ run[r].issue # NoIssue => shown[run[r].issue][w] <= run[r].seen[w]

\* A workflow may be dispatched without being asked for when the active run has it
\* still to dispatch, or when its box is ticked and no active run has just
\* dispatched it.
AtRisk(w) ==
    /\ w \notin asked
    /\ \/ \E r \in Runs : PastRead(r) /\ w \in run[r].todo
       \/ /\ \E i \in open : w \in ticked[i]
          /\ \A r \in Runs : PastRead(r) => w \notin run[r].accepted

\* Every dispatch that nobody asked for, made or still possible, has a failed
\* request behind it.
ServedOnce ==
    \A w \in Workflows : /\ unasked[w] <= failures
                         /\ AtRisk(w) => unasked[w] < failures

\* Until a request fails, what is wanted will be dispatched by the active run or
\* was ticked behind its back; with no dashboard nothing is wanted.
WantedIsTodo ==
    /\ open = {} => wanted = {}
    /\ failures = 0 =>
          \A r \in Runs : PastRead(r) => wanted \subseteq late \cup run[r].todo

\* OnlyLateTicksAreLost, of the one open dashboard.
LostWereLate ==
    failures = 0 => \A i \in open : wanted \ ticked[i] \subseteq late

\* The inductive invariant.
Inv ==
    /\ TypeOK
    /\ OneRun /\ OneDashboard /\ FutureIsBlank /\ SelectedFirst /\ TablesLag
    /\ ServedOnce /\ WantedIsTodo /\ LostWereLate

-----------------------------------------------------------------------------

\* With at most one dashboard open, dashboard_issue finds it.
LEMMA Dashboard ==
    ASSUME TypeOK, OneDashboard
    PROVE  /\ open = {} => dashboard_issue = NoIssue
           /\ \A i \in open : dashboard_issue = i
           /\ open \subseteq Issues /\ 1..created \subseteq Issues
<1>1. open \subseteq Issues /\ 1..created \subseteq Issues
  BY BoundsAssumption DEF TypeOK, Issues
<1>2. open = {} => dashboard_issue = NoIssue
  BY DEF dashboard_issue
<1>3. ASSUME NEW i \in open PROVE dashboard_issue = i
  <2>1. \A j \in open : j <= i
    BY <1>1, <1>3 DEF OneDashboard, Issues
  <2>2. (CHOOSE k \in open : \A j \in open : j <= k) \in open
    BY <1>3, <2>1
  <2> QED
    BY <1>3, <2>2 DEF dashboard_issue, OneDashboard
<1> QED
  BY <1>1, <1>2, <1>3

\* An idle run has the type of a run.
LEMMA IdleTyped == Idle \in RunType
<1>1. [w \in Workflows |-> 0] \in [Workflows -> 0..MaxRun]
  BY BoundsAssumption
<1> QED
  BY <1>1 DEF Idle, RunType

\* The numbers of runs can be compared.
LEMMA Numbers ==
    ASSUME TypeOK, NEW w \in Workflows
    PROVE  /\ latest[w] \in Int
           /\ \A i \in Issues : shown[i][w] \in Int
           /\ \A r \in Runs : run[r].seen[w] \in Int
  BY DEF TypeOK, RunType

\* With no run and no issue the invariant holds.
LEMMA InitInv == Init => Inv
<1> SUFFICES ASSUME Init PROVE Inv
  OBVIOUS
<1>1. TypeOK
  <2>1. run \in [Runs -> RunType]
    BY IdleTyped DEF Init
  <2>2. shown \in [Issues -> [Workflows -> 0..MaxRun]] /\ latest \in [Workflows -> 0..MaxRun]
    BY BoundsAssumption DEF Init
  <2>3. created \in 0..MaxIssues /\ failures \in 0..MaxFailures /\ foreign \in 0..MaxForeign
    BY BoundsAssumption DEF Init
  <2>4. open \subseteq 1..created /\ ticked \in [Issues -> SUBSET Workflows]
    BY DEF Init
  <2> QED
    BY <2>1, <2>2, <2>3, <2>4 DEF Init, TypeOK
<1>2. \A r \in Runs : run[r] = Idle
  BY DEF Init
<1>3. OneRun /\ OneDashboard /\ SelectedFirst
  BY <1>2 DEF Init, OneRun, OneDashboard, SelectedFirst, PastRead, Idle
<1>4. FutureIsBlank /\ TablesLag
  BY <1>2 DEF Init, FutureIsBlank, TablesLag, Idle
<1>5. ServedOnce /\ WantedIsTodo /\ LostWereLate
  BY <1>2 DEF Init, ServedOnce, AtRisk, WantedIsTodo, LostWereLate, PastRead, Idle
<1> QED
  BY <1>1, <1>3, <1>4, <1>5 DEF Inv

\* Every step keeps the types; the newest open issue exists because there is one.
LEMMA TypeInv == TypeOK /\ OneDashboard /\ [Next]_vars => TypeOK'
<1> SUFFICES ASSUME TypeOK, OneDashboard, [Next]_vars PROVE TypeOK'
  OBVIOUS
<1> USE BoundsAssumption, IdleTyped DEF TypeOK, Trigger, CountForeign, Events, Issues
<1>1. ASSUME NEW i \in Issues, NEW w \in Workflows, Tick(i, w) PROVE TypeOK'
  BY <1>1 DEF Tick
<1>2. ASSUME NEW i \in Issues, NEW w \in Workflows, Untick(i, w) PROVE TypeOK'
  BY <1>2 DEF Untick
<1>3. ASSUME EditOther PROVE TypeOK'
  BY <1>3 DEF EditOther
<1>4. ASSUME TriggerRefresh PROVE TypeOK'
  BY <1>4 DEF TriggerRefresh
<1>5. ASSUME NEW w \in Workflows, Scheduled(w) PROVE TypeOK'
  BY <1>5 DEF Scheduled
<1>6. ASSUME NEW i \in Issues, Close(i) PROVE TypeOK'
  BY <1>6 DEF Close
<1>7. ASSUME NEW r \in Runs, Start(r) PROVE TypeOK'
  BY <1>7 DEF Start, RunType
<1>8. ASSUME NEW r \in Runs, Ignore(r) PROVE TypeOK'
  BY <1>8 DEF Ignore
<1>9. ASSUME NEW r \in Runs, Read(r) PROVE TypeOK'
  <2>1. run[r] \in RunType
    OBVIOUS
  <2>2. PICK found \in Issues \cup {NoIssue}, boxes \in SUBSET Workflows,
             before \in [Workflows -> 0..MaxRun] :
          run' = [run EXCEPT ![r] =
                    IF @.event \in Issues /\ @.event # found
                    THEN Idle
                    ELSE [@ EXCEPT !.pc = "dispatch", !.issue = found, !.selected = boxes,
                                   !.todo = boxes, !.before = before]]
    <3>1. dashboard_issue \in Issues \cup {NoIssue}
      BY Dashboard
    <3>2. CASE dashboard_issue = NoIssue
      <4>1. run[r].before \in [Workflows -> 0..MaxRun]
        BY <2>1 DEF RunType
      <4> QED
        BY <1>9, <3>2, <4>1 DEF Read
    <3>3. CASE dashboard_issue # NoIssue
      BY <1>9, <3>1, <3>3 DEF Read
    <3> QED
      BY <3>2, <3>3
  <2>3. run' \in [Runs -> RunType]
    BY <2>1, <2>2 DEF RunType
  <2> QED
    BY <1>9, <2>3 DEF Read
<1>10. ASSUME NEW r \in Runs, NEW w \in Workflows, dispatch(r, w) PROVE TypeOK'
  <2>1. run' = [run EXCEPT ![r] = 
                         [run[r] EXCEPT !.todo = run[r].todo \ {w},
                                        !.accepted = run[r].accepted \cup {w}]]
    BY <1>10 DEF dispatch
  <2>2. run[r] \in RunType
    OBVIOUS
  <2>3. [run[r] EXCEPT !.todo = run[r].todo \ {w},
               !.accepted = run[r].accepted \cup {w}] \in RunType
    BY <2>2 DEF RunType
  <2>4. run' \in [Runs -> RunType]
    BY <2>1, <2>3
  <2> QED
    BY <1>10, <2>4 DEF dispatch
<1>11. ASSUME NEW r \in Runs, latest_run(r) PROVE TypeOK'
  <2>1. run' = [run EXCEPT ![r] = [@ EXCEPT !.pc = "write", !.seen = latest]]
    BY <1>11 DEF latest_run
  <2>2. run[r] \in RunType /\ latest \in [Workflows -> 0..MaxRun]
    OBVIOUS
  <2>3. [run[r] EXCEPT !.pc = "write", !.seen = latest] \in RunType
    BY <2>2 DEF RunType
  <2>4. run' \in [Runs -> RunType]
    BY <2>1, <2>3
  <2> QED
    BY <1>11, <2>4 DEF latest_run
<1>12. ASSUME NEW r \in Runs, update_issue(r) PROVE TypeOK'
  BY <1>12 DEF update_issue, RunType
<1>13. ASSUME NEW r \in Runs, create_issue(r) PROVE TypeOK'
  BY <1>13, SMTT(30) DEF create_issue, RunType
<1>14. ASSUME NEW r \in Runs, Abort(r) PROVE TypeOK'
  BY <1>14 DEF Abort
<1>15. ASSUME NEW r \in Runs, NEW w \in Workflows, dispatchRejected(r, w) PROVE TypeOK'
  <2>1. run' = [run EXCEPT ![r] = [run[r] EXCEPT !.todo = run[r].todo \ {w}]]
    BY <1>15 DEF dispatchRejected
  <2>2. run[r] \in RunType
    OBVIOUS
  <2>3. [run[r] EXCEPT !.todo = run[r].todo \ {w}] \in RunType
    BY <2>2 DEF RunType
  <2>4. run' \in [Runs -> RunType]
    BY <2>1, <2>3
  <2> QED
    BY <1>15, <2>4 DEF dispatchRejected
<1>16. ASSUME UNCHANGED vars PROVE TypeOK'
  BY <1>16 DEF vars
<1> QED
  BY <1>1, <1>2, <1>3, <1>4, <1>5, <1>6, <1>7, <1>8, <1>9, <1>10, <1>11, <1>12,
     <1>13, <1>14, <1>15, <1>16 DEF Next, RunStep

\* What the steps of a run make of its state, field by field.
LEMMA RunEffects ==
    ASSUME TypeOK, NEW r \in Runs
    PROVE  /\ Start(r) => run'[r] = [Idle EXCEPT !.pc = "start", !.event = pending]
           /\ Ignore(r) \/ update_issue(r) \/ create_issue(r) \/ Abort(r) => run'[r] = Idle
           /\ Read(r) => \/ run'[r] = Idle
                         \/ /\ run'[r].pc = "dispatch" /\ run'[r].issue = dashboard_issue
                            /\ run'[r].accepted = run[r].accepted
                            /\ run'[r].todo = run'[r].selected
                            /\ run'[r].selected = IF dashboard_issue = NoIssue THEN {}
                                                  ELSE ticked[dashboard_issue]
           /\ \A w \in Workflows : dispatch(r, w) =>
                 /\ run'[r].pc = "dispatch" /\ run'[r].issue = run[r].issue
                 /\ run'[r].selected = run[r].selected
                 /\ run'[r].todo = run[r].todo \ {w}
                 /\ run'[r].accepted = run[r].accepted \cup {w}
           /\ \A w \in Workflows : dispatchRejected(r, w) =>
                 /\ run'[r].pc = "dispatch" /\ run'[r].issue = run[r].issue
                 /\ run'[r].selected = run[r].selected
                 /\ run'[r].todo = run[r].todo \ {w}
                 /\ run'[r].accepted = run[r].accepted
           /\ latest_run(r) =>
                 /\ run'[r].pc = "write" /\ run'[r].issue = run[r].issue
                 /\ run'[r].selected = run[r].selected /\ run'[r].todo = run[r].todo
                 /\ run'[r].accepted = run[r].accepted /\ run'[r].seen = latest
<1> USE DEF TypeOK
<1>1. Start(r) => run'[r] = [Idle EXCEPT !.pc = "start", !.event = pending]
  BY DEF Start
<1>2. Ignore(r) \/ update_issue(r) \/ create_issue(r) \/ Abort(r) => run'[r] = Idle
  BY DEF Ignore, update_issue, create_issue, Abort
<1>3. Read(r) => \/ run'[r] = Idle
                 \/ /\ run'[r].pc = "dispatch" /\ run'[r].issue = dashboard_issue
                    /\ run'[r].accepted = run[r].accepted
                    /\ run'[r].todo = run'[r].selected
                    /\ run'[r].selected = IF dashboard_issue = NoIssue THEN {}
                                          ELSE ticked[dashboard_issue]
  BY DEF Read, RunType
<1>4. ASSUME NEW w \in Workflows, dispatch(r, w)
      PROVE  /\ run'[r].pc = "dispatch" /\ run'[r].issue = run[r].issue
             /\ run'[r].selected = run[r].selected
             /\ run'[r].todo = run[r].todo \ {w}
             /\ run'[r].accepted = run[r].accepted \cup {w}
  BY <1>4 DEF dispatch, RunType
<1>5. ASSUME NEW w \in Workflows, dispatchRejected(r, w)
      PROVE  /\ run'[r].pc = "dispatch" /\ run'[r].issue = run[r].issue
             /\ run'[r].selected = run[r].selected
             /\ run'[r].todo = run[r].todo \ {w}
             /\ run'[r].accepted = run[r].accepted
  BY <1>5 DEF dispatchRejected, RunType
<1>6. ASSUME latest_run(r)
      PROVE  /\ run'[r].pc = "write" /\ run'[r].issue = run[r].issue
             /\ run'[r].selected = run[r].selected /\ run'[r].todo = run[r].todo
             /\ run'[r].accepted = run[r].accepted /\ run'[r].seen = latest
  BY <1>6 DEF latest_run, RunType
<1> QED
  BY <1>1, <1>2, <1>3, <1>4, <1>5, <1>6

\* A step of one run leaves the others alone, and they are idle.
LEMMA OthersAreIdle ==
    ASSUME TypeOK, OneRun, NEW r \in Runs,
           \/ RunStep(r) \/ Abort(r)
           \/ \E w \in Workflows : dispatchRejected(r, w)
    PROVE  \A q \in Runs \ {r} : /\ run'[q] = run[q]
                                 /\ run[q].pc = "idle"
                                 /\ ~PastRead(q) /\ ~PastRead(q)'
<1>1. \A q \in Runs \ {r} : run'[q] = run[q]
  BY DEF RunStep, Start, Ignore, Read, dispatch, latest_run, update_issue, create_issue, Abort,
         dispatchRejected, TypeOK
<1>2. Start(r) \/ run[r].pc # "idle"
  BY DEF RunStep, Ignore, Read, dispatch, latest_run, update_issue, create_issue, Abort,
         dispatchRejected
<1>3. \A q \in Runs \ {r} : run[q].pc = "idle"
  BY <1>2 DEF Start, OneRun
<1> QED
  BY <1>1, <1>3 DEF PastRead

\* Steps of maintainers and of GitHub leave the runs alone.
LEMMA OutsideInv ==
    ASSUME Inv, TypeOK',
           \/ \E i \in Issues, w \in Workflows : Tick(i, w) \/ Untick(i, w)
           \/ EditOther \/ TriggerRefresh
           \/ \E w \in Workflows : Scheduled(w)
           \/ \E i \in Issues : Close(i)
           \/ UNCHANGED vars
    PROVE  Inv'
<1>d. /\ open = {} => dashboard_issue = NoIssue
      /\ \A i \in open : dashboard_issue = i
      /\ open \subseteq Issues /\ 1..created \subseteq Issues
  BY Dashboard DEF Inv
<1>r. run' = run /\ created' = created /\ shown' = shown /\ unasked' = unasked
      /\ failures' = failures /\ open' \subseteq open
  BY DEF Tick, Untick, EditOther, TriggerRefresh, Scheduled, Close, vars
<1>1. OneRun' /\ OneDashboard' /\ SelectedFirst'
  BY <1>r DEF Inv, OneRun, OneDashboard, SelectedFirst, PastRead
<1> SUFFICES (FutureIsBlank /\ TablesLag /\ ServedOnce /\ WantedIsTodo /\ LostWereLate)'
  BY <1>1 DEF Inv
<1> USE DEF Inv, PastRead
<1>2. ASSUME NEW i \in Issues, NEW w \in Workflows, Tick(i, w)
      PROVE  (FutureIsBlank /\ TablesLag /\ ServedOnce /\ WantedIsTodo /\ LostWereLate)'
  <2>1. /\ i \in 1..created /\ ticked' = [ticked EXCEPT ![i] = @ \cup {w}]
        /\ UNCHANGED <<open, latest>>
    BY <1>2 DEF Tick
  <2>2. FutureIsBlank' /\ TablesLag'
    BY <1>r, <2>1 DEF FutureIsBlank, TablesLag, TypeOK, Issues
  <2>3. CASE i \in open
    <3>1. /\ asked' = asked \cup {w} /\ wanted' = wanted \cup {w}
          /\ late' = IF \E r \in Runs : PastRead(r) /\ run[r].issue = i
                     THEN late \cup {w} ELSE late \ {w}
      BY <1>2, <1>d, <2>3 DEF Tick
    <3>2. \A r \in Runs : PastRead(r) => run[r].issue = i
      BY <2>3 DEF OneDashboard
    <3>3. ServedOnce'
      BY <1>r, <1>d, <2>1, <3>1 DEF ServedOnce, AtRisk, TypeOK
    <3>4. WantedIsTodo'
      BY <1>r, <2>1, <2>3, <3>1, <3>2 DEF WantedIsTodo
    <3>5. LostWereLate'
      BY <1>r, <1>d, <2>1, <2>3, <3>1 DEF LostWereLate, OneDashboard, TypeOK
    <3> QED
      BY <2>2, <3>3, <3>4, <3>5
  <2>4. CASE i \notin open
    <3>1. UNCHANGED <<asked, wanted, late>>
      <4>1. dashboard_issue # i
        BY <1>d, <2>1, <2>4 DEF NoIssue, TypeOK, Issues
      <4> QED
        BY <1>2, <4>1 DEF Tick
    <3> QED
      BY <1>r, <1>d, <2>1, <2>2, <2>4, <3>1 DEF ServedOnce, AtRisk, WantedIsTodo, LostWereLate, TypeOK
  <2> QED
    BY <2>3, <2>4
<1>3. ASSUME NEW i \in Issues, NEW w \in Workflows, Untick(i, w)
      PROVE  (FutureIsBlank /\ TablesLag /\ ServedOnce /\ WantedIsTodo /\ LostWereLate)'
  <2>1. /\ ticked' = [ticked EXCEPT ![i] = @ \ {w}]
        /\ wanted' = IF i = dashboard_issue THEN wanted \ {w} ELSE wanted
        /\ UNCHANGED <<open, latest, asked, late>>
    BY <1>3 DEF Untick
  <2>2. FutureIsBlank' /\ TablesLag'
    BY <1>r, <2>1 DEF FutureIsBlank, TablesLag, TypeOK
  <2>3. ServedOnce'
    BY <1>r, <1>d, <2>1 DEF ServedOnce, AtRisk, TypeOK
  <2>4. WantedIsTodo'
    BY <1>r, <2>1 DEF WantedIsTodo
  <2>5. LostWereLate'
    BY <1>r, <1>d, <2>1 DEF LostWereLate, OneDashboard, TypeOK
  <2> QED
    BY <2>2, <2>3, <2>4, <2>5
<1>4. ASSUME NEW w \in Workflows, Scheduled(w)
      PROVE  (FutureIsBlank /\ TablesLag /\ ServedOnce /\ WantedIsTodo /\ LostWereLate)'
  <2>1. TablesLag'
    <3>1. \A v \in Workflows : latest'[v] \in Int /\ latest[v] <= latest'[v]
      BY <1>4 DEF Scheduled, TypeOK
    <3>2. \A r \in Runs : run[r].issue # NoIssue => run[r].issue \in Issues
      BY DEF TypeOK, RunType
    <3> QED
      BY <1>r, <3>1, <3>2, Numbers DEF TablesLag
  <2> QED
    BY <1>r, <1>4, <2>1 DEF Scheduled, FutureIsBlank, ServedOnce, AtRisk, WantedIsTodo, LostWereLate
<1>5. ASSUME NEW i \in Issues, Close(i)
      PROVE  (FutureIsBlank /\ TablesLag /\ ServedOnce /\ WantedIsTodo /\ LostWereLate)'
  BY <1>r, <1>5
  DEF Close, FutureIsBlank, TablesLag, ServedOnce, AtRisk, WantedIsTodo, LostWereLate
<1>6. CASE EditOther \/ TriggerRefresh \/ UNCHANGED vars
  BY <1>r, <1>6
  DEF EditOther, TriggerRefresh, vars, FutureIsBlank, TablesLag, ServedOnce, AtRisk, WantedIsTodo,
      LostWereLate
<1> QED
  BY <1>2, <1>3, <1>4, <1>5, <1>6

\* Steps of the script.
LEMMA RunInv ==
    ASSUME Inv, TypeOK', NEW r \in Runs,
           \/ RunStep(r) \/ Abort(r)
           \/ \E w \in Workflows : dispatchRejected(r, w)
    PROVE  Inv'
<1>d. /\ open = {} => dashboard_issue = NoIssue
      /\ \A i \in open : dashboard_issue = i
      /\ open \subseteq Issues /\ 1..created \subseteq Issues
  BY Dashboard DEF Inv
<1>q. \A q \in Runs \ {r} : /\ run'[q] = run[q]
                            /\ run[q].pc = "idle"
                            /\ ~PastRead(q) /\ ~PastRead(q)'
  BY OthersAreIdle DEF Inv
<1>1. OneRun'
  BY <1>q DEF OneRun
<1> SUFFICES (OneDashboard /\ FutureIsBlank /\ SelectedFirst /\ TablesLag /\ ServedOnce
                 /\ WantedIsTodo /\ LostWereLate)'
  BY <1>1 DEF Inv
<1> USE <1>q DEF Inv
\* The run ends, or has not read the issue yet: there is no reader left.
<1>2. ASSUME Start(r) \/ Ignore(r) \/ Abort(r) \/ (Read(r) /\ run'[r] = Idle)
      PROVE  (OneDashboard /\ FutureIsBlank /\ SelectedFirst /\ TablesLag /\ ServedOnce
                 /\ WantedIsTodo /\ LostWereLate)'
  <2>1. /\ run'[r].pc \in {"idle", "start"}
        /\ run'[r].accepted = {} /\ run'[r].selected = {} /\ run'[r].todo = {}
    <3>1. CASE Start(r)
      <4>1. run'[r] = [Idle EXCEPT !.pc = "start", !.event = pending]
        BY <3>1, RunEffects
      <4> QED
        BY <4>1 DEF Idle
    <3>2. CASE run'[r] = Idle
      BY <3>2 DEF Idle
    <3> QED
      BY <1>2, <3>1, <3>2, RunEffects
  <2>2. /\ UNCHANGED <<created, open, ticked, shown, latest, asked, wanted, late, unasked>>
        /\ \/ failures' = failures /\ run[r].pc \in {"idle", "start"}
           \/ failures' = failures + 1
    BY <1>2 DEF Start, Ignore, Abort, Read
  <2>3. OneDashboard' /\ FutureIsBlank' /\ SelectedFirst' /\ TablesLag'
    BY <2>1, <2>2 DEF OneDashboard, FutureIsBlank, SelectedFirst, TablesLag, PastRead
  <2>4. ServedOnce'
    <3>1. CASE failures' = failures /\ run[r].pc \in {"idle", "start"}
      BY <2>1, <2>2, <3>1 DEF ServedOnce, AtRisk, PastRead
    <3>2. CASE failures' = failures + 1
      BY <2>2, <3>2 DEF ServedOnce, TypeOK
    <3> QED
      BY <2>2, <3>1, <3>2
  <2>5. WantedIsTodo' /\ LostWereLate'
    <3>1. failures' = 0 => failures = 0 /\ run[r].pc \in {"idle", "start"}
      BY <2>2 DEF TypeOK
    <3> QED
      BY <2>1, <2>2, <3>1 DEF WantedIsTodo, LostWereLate, PastRead
  <2> QED
    BY <2>3, <2>4, <2>5
\* The read: with no other reader every ticked box is still to be served.
<1>3. ASSUME Read(r), run'[r] # Idle
      PROVE  (OneDashboard /\ FutureIsBlank /\ SelectedFirst /\ TablesLag /\ ServedOnce
                 /\ WantedIsTodo /\ LostWereLate)'
  <2>1. /\ run'[r].pc = "dispatch" /\ run'[r].issue = dashboard_issue
        /\ run'[r].accepted = run[r].accepted
        /\ run'[r].todo = run'[r].selected
        /\ run'[r].selected = IF dashboard_issue = NoIssue THEN {} ELSE ticked[dashboard_issue]
    BY <1>3, RunEffects
  <2>2. /\ run[r].pc = "start"
        /\ UNCHANGED <<created, open, ticked, shown, latest, asked, wanted, late, unasked,
                       failures>>
    BY <1>3 DEF Read
  <2>3. OneDashboard'
    BY <1>d, <2>1, <2>2 DEF OneDashboard, PastRead, TypeOK, NoIssue
  <2>4. FutureIsBlank' /\ SelectedFirst' /\ TablesLag'
    BY <2>1, <2>2 DEF FutureIsBlank, SelectedFirst, TablesLag, PastRead
  <2>5. ServedOnce'
    <3>1. ~PastRead(r) /\ run'[r].accepted = {}
      BY <2>1, <2>2 DEF PastRead, SelectedFirst
    <3>2. ASSUME NEW w \in Workflows, AtRisk(w)' PROVE AtRisk(w)
      <4>1. w \notin asked /\ (w \in run'[r].todo \/ \E i \in open : w \in ticked[i])
        BY <2>2, <3>2 DEF AtRisk, PastRead
      <4>2. \E i \in open : w \in ticked[i]
        BY <1>d, <2>1, <4>1 DEF NoIssue
      <4> QED
        BY <3>1, <4>1, <4>2 DEF AtRisk
    <3> QED
      BY <2>2, <3>2 DEF ServedOnce
  <2>6. WantedIsTodo' /\ LostWereLate'
    <3>1. failures = 0 => wanted \subseteq late \cup run'[r].todo
      BY <1>d, <2>1 DEF WantedIsTodo, LostWereLate, NoIssue, Issues
    <3> QED
      BY <2>1, <2>2, <3>1 DEF WantedIsTodo, LostWereLate, PastRead
  <2> QED
    BY <2>3, <2>4, <2>5, <2>6
\* A dispatch: the box stays ticked until the write, and the run knows it.
<1>4. ASSUME NEW w \in Workflows, dispatch(r, w)
      PROVE  (OneDashboard /\ FutureIsBlank /\ SelectedFirst /\ TablesLag /\ ServedOnce
                 /\ WantedIsTodo /\ LostWereLate)'
  <2>1. /\ run'[r].pc = "dispatch" /\ run'[r].issue = run[r].issue
        /\ run'[r].selected = run[r].selected
        /\ run'[r].todo = run[r].todo \ {w}
        /\ run'[r].accepted = run[r].accepted \cup {w}
    BY <1>4, RunEffects
  <2>2. /\ run[r].pc = "dispatch" /\ w \in run[r].todo
        /\ latest' = [latest EXCEPT ![w] = IF @ < MaxRun THEN @ + 1 ELSE @]
        /\ unasked' = [unasked EXCEPT ![w] = IF w \in asked THEN @ ELSE @ + 1]
        /\ asked' = asked \ {w} /\ wanted' = wanted \ {w}
        /\ UNCHANGED <<created, open, ticked, shown, late, failures>>
    BY <1>4 DEF dispatch
  <2>3. OneDashboard' /\ FutureIsBlank' /\ SelectedFirst'
    BY <2>1, <2>2 DEF OneDashboard, FutureIsBlank, SelectedFirst, PastRead
  <2>4. TablesLag'
    <3>1. \A v \in Workflows : latest'[v] \in Int /\ latest[v] <= latest'[v]
      BY <2>2 DEF TypeOK
    <3> QED
      BY <2>1, <2>2, <3>1, Numbers DEF TablesLag
  <2>5. ServedOnce'
    <3>1. w \in asked \/ AtRisk(w)
      BY <2>2 DEF AtRisk, PastRead
    <3>2. ~AtRisk(w)'
      BY <2>1 DEF AtRisk, PastRead
    <3>3. \A v \in Workflows \ {w} : AtRisk(v)' => AtRisk(v)
      BY <2>1, <2>2 DEF AtRisk, PastRead
    <3>4. unasked'[w] = (IF w \in asked THEN unasked[w] ELSE unasked[w] + 1)
      BY <2>2 DEF TypeOK
    <3>5. unasked'[w] <= failures'
      BY <2>2, <3>1, <3>4 DEF ServedOnce, TypeOK
    <3>6. \A v \in Workflows \ {w} : unasked'[v] = unasked[v]
      BY <2>2 DEF TypeOK
    <3> QED
      BY <2>2, <3>2, <3>3, <3>5, <3>6 DEF ServedOnce
  <2>6. WantedIsTodo' /\ LostWereLate'
    BY <2>1, <2>2 DEF WantedIsTodo, LostWereLate, PastRead
  <2> QED
    BY <2>3, <2>4, <2>5, <2>6
\* A dispatch that is rejected is a failure.
<1>5. ASSUME NEW w \in Workflows, dispatchRejected(r, w)
      PROVE  (OneDashboard /\ FutureIsBlank /\ SelectedFirst /\ TablesLag /\ ServedOnce
                 /\ WantedIsTodo /\ LostWereLate)'
  <2>1. /\ run'[r].pc = "dispatch" /\ run'[r].issue = run[r].issue
        /\ run'[r].selected = run[r].selected
        /\ run'[r].todo = run[r].todo \ {w}
        /\ run'[r].accepted = run[r].accepted
    BY <1>5, RunEffects
  <2>2. /\ run[r].pc = "dispatch" /\ failures' = failures + 1 /\ failures' # 0
        /\ UNCHANGED <<created, open, ticked, shown, latest, wanted, unasked>>
    BY <1>5 DEF dispatchRejected, TypeOK
  <2>3. ServedOnce'
    BY <2>2 DEF ServedOnce, TypeOK
  <2> QED
    BY <2>1, <2>2, <2>3
    DEF OneDashboard, FutureIsBlank, SelectedFirst, TablesLag, WantedIsTodo, LostWereLate, PastRead
\* The latest runs are read, and no table is ahead of them.
<1>6. ASSUME latest_run(r)
      PROVE  (OneDashboard /\ FutureIsBlank /\ SelectedFirst /\ TablesLag /\ ServedOnce
                 /\ WantedIsTodo /\ LostWereLate)'
  <2>1. /\ run'[r].pc = "write" /\ run'[r].issue = run[r].issue
        /\ run'[r].selected = run[r].selected /\ run'[r].todo = run[r].todo
        /\ run'[r].accepted = run[r].accepted /\ run'[r].seen = latest
    BY <1>6, RunEffects
  <2>2. /\ run[r].pc = "dispatch" /\ run[r].todo = {}
        /\ UNCHANGED <<created, open, ticked, shown, latest, asked, wanted, late, unasked,
                       failures>>
    BY <1>6 DEF latest_run
  <2>3. OneDashboard' /\ FutureIsBlank' /\ SelectedFirst'
    BY <2>1, <2>2 DEF OneDashboard, FutureIsBlank, SelectedFirst, PastRead
  <2>4. TablesLag'
    <3>1. run[r].issue # NoIssue => run[r].issue \in Issues
      BY DEF TypeOK, RunType
    <3> QED
      BY <2>1, <2>2, <3>1, Numbers DEF TablesLag
  <2>5. ServedOnce' /\ WantedIsTodo' /\ LostWereLate'
    BY <2>1, <2>2 DEF ServedOnce, AtRisk, WantedIsTodo, LostWereLate, PastRead
  <2> QED
    BY <2>3, <2>4, <2>5
\* The write: what is wanted and not served was ticked behind the run's back.
<1>7. ASSUME update_issue(r)
      PROVE  (OneDashboard /\ FutureIsBlank /\ SelectedFirst /\ TablesLag /\ ServedOnce
                 /\ WantedIsTodo /\ LostWereLate)'
  <2>1. run'[r].pc = "idle" /\ run'[r].accepted = {} /\ run'[r].selected = {} /\ run'[r].todo = {}
    BY <1>7, RunEffects DEF Idle
  <2>2. /\ run[r].pc = "write" /\ run[r].issue # NoIssue
        /\ UNCHANGED <<created, open, latest, asked, wanted, late, unasked, failures>>
    BY <1>7 DEF update_issue
  <2>3. \/ /\ ticked' = [ticked EXCEPT ![run[r].issue] = {}]
           /\ shown' = [shown EXCEPT ![run[r].issue] = run[r].seen]
        \/ run[r].accepted = {} /\ UNCHANGED <<ticked, shown>>
    BY <1>7 DEF update_issue, MustWrite, SelectedFirst
  <2>4. PastRead(r) /\ run[r].todo = {} /\ run[r].issue \in 1..created /\ open \subseteq {run[r].issue}
    BY <2>2 DEF PastRead, SelectedFirst, OneDashboard, NoIssue, TypeOK
  <2>5. OneDashboard' /\ SelectedFirst'
    BY <2>1, <2>2 DEF OneDashboard, SelectedFirst, PastRead
  <2>6. FutureIsBlank'
    <3>1. \A i \in Issues : i > created => i # run[r].issue
      BY <2>4 DEF TypeOK, Issues
    <3>2. \A i \in Issues : i > created => ticked'[i] = ticked[i] /\ shown'[i] = shown[i]
      BY <2>3, <3>1 DEF TypeOK
    <3> QED
      BY <2>2, <3>2 DEF FutureIsBlank
  <2>7. TablesLag'
    <3>1. \A w \in Workflows : run[r].seen[w] <= latest[w]
      BY <2>2 DEF TablesLag
    <3> QED
      BY <2>1, <2>2, <2>3, <3>1 DEF TablesLag, TypeOK
  <2>8. ServedOnce'
    <3>1. ASSUME NEW w \in Workflows, AtRisk(w)' PROVE AtRisk(w)
      <4>1. w \notin asked /\ \E i \in open : w \in ticked'[i]
        BY <2>1, <2>2, <3>1 DEF AtRisk, PastRead
      <4>2. run[r].accepted = {} /\ ticked' = ticked
        BY <1>d, <2>3, <2>4, <4>1 DEF TypeOK
      <4> QED
        BY <4>1, <4>2 DEF AtRisk
    <3> QED
      BY <2>2, <3>1 DEF ServedOnce
  <2>9. WantedIsTodo' /\ LostWereLate'
    <3>1. failures = 0 => wanted \subseteq late
      BY <2>4 DEF WantedIsTodo
    <3> QED
      BY <2>1, <2>2, <3>1 DEF WantedIsTodo, LostWereLate, PastRead
  <2> QED
    BY <2>5, <2>6, <2>7, <2>8, <2>9
\* A new dashboard: there was none, and the new one is blank.
<1>8. ASSUME create_issue(r)
      PROVE  (OneDashboard /\ FutureIsBlank /\ SelectedFirst /\ TablesLag /\ ServedOnce
                 /\ WantedIsTodo /\ LostWereLate)'
  <2>1. run'[r].pc = "idle" /\ run'[r].accepted = {} /\ run'[r].selected = {} /\ run'[r].todo = {}
    BY <1>8, RunEffects DEF Idle
  <2>2. /\ run[r].pc = "write" /\ run[r].issue = NoIssue
        /\ created < MaxIssues /\ created' = created + 1 /\ open' = open \cup {created + 1}
        /\ shown' = [shown EXCEPT ![created + 1] = run[r].seen]
        /\ UNCHANGED <<ticked, latest, asked, wanted, late, unasked, failures>>
    BY <1>8 DEF create_issue
  <2>3. open = {} /\ wanted = {} /\ open' = {created + 1} /\ created + 1 \in Issues
    <3>1. open = {}
      BY <1>d, <2>2 DEF OneDashboard, PastRead, NoIssue, Issues
    <3>2. created + 1 \in Issues
      BY <2>2, BoundsAssumption DEF TypeOK, Issues
    <3> QED
      BY <2>2, <3>1, <3>2 DEF WantedIsTodo
  <2>4. OneDashboard' /\ SelectedFirst'
    BY <2>1, <2>3 DEF OneDashboard, SelectedFirst, PastRead
  <2>5. FutureIsBlank' /\ ticked[created + 1] = {}
    <3>1. \A i \in Issues : i > created + 1 => i > created /\ i # created + 1
      BY DEF TypeOK, Issues
    <3>2. created + 1 > created
      BY DEF TypeOK
    <3> QED
      BY <2>2, <2>3, <3>1, <3>2 DEF FutureIsBlank, TypeOK
  <2>6. TablesLag'
    <3>1. \A w \in Workflows : run[r].seen[w] <= latest[w]
      BY <2>2 DEF TablesLag
    <3> QED
      BY <2>1, <2>2, <3>1 DEF TablesLag, TypeOK
  <2>7. ServedOnce'
    <3>1. \A w \in Workflows : ~AtRisk(w)'
      BY <2>1, <2>2, <2>3, <2>5 DEF AtRisk, PastRead
    <3> QED
      BY <2>2, <3>1 DEF ServedOnce
  <2>8. WantedIsTodo' /\ LostWereLate'
    BY <2>1, <2>2, <2>3 DEF WantedIsTodo, LostWereLate, PastRead
  <2> QED
    BY <2>4, <2>5, <2>6, <2>7, <2>8
<1> QED
  BY <1>2, <1>3, <1>4, <1>5, <1>6, <1>7, <1>8 DEF RunStep

\* Every step, of maintainers, of GitHub or of the script, keeps the invariant.
LEMMA NextInv == Inv /\ [Next]_vars => Inv'
<1> SUFFICES ASSUME Inv, [Next]_vars PROVE Inv'
  OBVIOUS
<1>1. TypeOK'
  BY TypeInv DEF Inv
<1> QED
  BY <1>1, OutsideInv, RunInv DEF Next

\* The inductive invariant holds of the dashboard and its script.
THEOREM Invariant == Spec => []Inv
  BY InitInv, NextInv, PTL DEF Spec

\* Every variable keeps its type.
THEOREM TypeCorrect == Spec => []TypeOK
<1>1. Inv => TypeOK
  BY DEF Inv
<1> QED
  BY Invariant, <1>1, PTL

\* There is never more than one open dashboard, and a workflow is dispatched beyond
\* what was ticked at most once for every request that failed, for any workflows,
\* any number of issues and any interleaving of triggers (job_reruns.py:250-279).
THEOREM NothingIsDoneTwiceHolds == Spec => []NothingIsDoneTwice
<1>1. Inv => NothingIsDoneTwice
  <2> SUFFICES ASSUME Inv PROVE NothingIsDoneTwice
    OBVIOUS
  <2>1. Cardinality(open) <= 1
    <3>1. CASE open = {}
      BY <3>1, FS_EmptySet
    <3>2. CASE open # {}
      <4>1. PICK i \in open : open = {i}
        BY <3>2 DEF Inv, OneDashboard
      <4> QED
        <5>1. Cardinality({i}) = 1
          BY FS_Singleton
        <5> QED
          BY <4>1, <5>1
    <3> QED
      BY <3>1, <3>2
  <2> QED
    BY <2>1 DEF NothingIsDoneTwice, Inv, ServedOnce
<1> QED
  BY Invariant, <1>1, PTL

\* Until a request fails the only ticks that are lost are those that fell between
\* a run's read of the issue and its write (job_reruns.py:256, 273).
THEOREM OnlyLateTicksAreLostHolds == Spec => []OnlyLateTicksAreLost
<1>1. Inv => OnlyLateTicksAreLost
  <2> SUFFICES ASSUME Inv, failures = 0, open # {}
               PROVE  wanted \ ticked[dashboard_issue] \subseteq late
    BY DEF OnlyLateTicksAreLost
  <2>1. dashboard_issue \in open
    BY Dashboard DEF Inv
  <2> QED
    BY <2>1 DEF Inv, LostWereLate
<1> QED
  BY Invariant, <1>1, PTL

\* No step takes a table back to an older run (job-reruns.yml:31-39).
LEMMA TableStep ==
    ASSUME Inv, [Next]_vars
    PROVE  \A i \in Issues, w \in Workflows : shown'[i][w] >= shown[i][w]
<1>1. CASE shown' = shown
  BY <1>1, Numbers DEF Inv
<1>2. ASSUME NEW r \in Runs, update_issue(r)
      PROVE  \A i \in Issues, w \in Workflows : shown'[i][w] >= shown[i][w]
  <2>1. shown' = [shown EXCEPT ![run[r].issue] = run[r].seen] \/ shown' = shown
    BY <1>2 DEF update_issue
  <2>2. \A w \in Workflows : shown[run[r].issue][w] <= run[r].seen[w]
    BY <1>2 DEF update_issue, Inv, TablesLag
  <2> QED
    BY <2>1, <2>2, Numbers DEF Inv, TypeOK
<1>3. ASSUME NEW r \in Runs, create_issue(r)
      PROVE  \A i \in Issues, w \in Workflows : shown'[i][w] >= shown[i][w]
  <2>1. shown' = [shown EXCEPT ![created + 1] = run[r].seen]
    BY <1>3 DEF create_issue
  <2>2. created + 1 \in Issues => \A w \in Workflows : shown[created + 1][w] = 0
    BY DEF Inv, FutureIsBlank, TypeOK
  <2>3. \A w \in Workflows : run[r].seen[w] \in Nat
    BY DEF Inv, TypeOK, RunType
  <2> QED
    BY <2>1, <2>2, <2>3, Numbers DEF Inv, TypeOK
<1> QED
  BY <1>1, <1>2, <1>3
  DEF Next, RunStep, Tick, Untick, EditOther, TriggerRefresh, Scheduled, Close, Start, Ignore,
      Read, dispatch, latest_run, Abort, dispatchRejected, vars

\* A table never goes back, however triggers and failures interleave: the group
\* lets no second run come between a run's look at the workflows and its write.
THEOREM TableNeverGoesBackHolds == Spec => TableNeverGoesBack
<1>1. Inv /\ [Next]_vars =>
         [\A i \in Issues, w \in Workflows : shown'[i][w] >= shown[i][w]]_vars
  BY TableStep
<1> QED
  BY Invariant, <1>1, PTL DEF Spec, TableNeverGoesBack

=============================================================================
