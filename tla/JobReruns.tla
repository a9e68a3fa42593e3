------------------------------ MODULE JobReruns -----------------------------
(***************************************************************************)
(* The job re-runs dashboard: .github/scripts/job_reruns.py, run by        *)
(* .github/workflows/job-reruns.yml.                                       *)
(*                                                                         *)
(* Maintainers tick boxes in an issue.  An edit of any issue, a completed  *)
(* scheduled workflow, a push or a manual dispatch triggers a run of the   *)
(* script.  A run reads the issue, dispatches the ticked workflows, asks   *)
(* for the latest run of each, and writes the issue anew with every box    *)
(* cleared.  The concurrency group lets one run proceed, keeps one more    *)
(* pending and cancels a pending run when a newer one arrives.             *)
(*                                                                         *)
(* GitHub is modelled from how the script uses it: any request can fail,   *)
(* and edits made with the workflow's own token trigger no run.            *)
(***************************************************************************)
EXTENDS Integers, FiniteSets

CONSTANTS
    Workflows,    \* WORKFLOWS; the order of the dispatch loop is left open
    Runs,         \* slots for runs of the script
    MaxIssues,    \* bound: dashboard issues ever created
    MaxRun,       \* bound: runs told apart of one workflow
    MaxFailures,  \* bound: requests that fail
    MaxForeign    \* bound: edits of other issues, closed dashboards included

ASSUME BoundsAssumption ==
    /\ MaxIssues \in Nat \ {0}
    /\ MaxRun \in Nat
    /\ MaxFailures \in Nat
    /\ MaxForeign \in Nat

Issues == 1..MaxIssues

(***************************************************************************)
(* What triggers a run: an edit of another issue, anything that is not an  *)
(* issue edit, or an edit of a dashboard issue, named by its number.       *)
(***************************************************************************)
Foreign == 0
Refresh == -1
Nothing == -2
Events == Issues \cup {Foreign, Refresh}

NoIssue == 0

VARIABLES
    created,   \* the number of dashboard issues created; they are 1..created
    open,      \* those that are open
    ticked,    \* the ticked boxes of each issue
    shown,     \* the latest run of each workflow as each issue's table shows it
    latest,    \* the latest scheduled or dispatched run of each workflow
    pending,   \* the trigger of the pending run of the concurrency group
    run,       \* the runs of the script
    asked,     \* history: workflows ticked and not dispatched since
    wanted,    \* history: the same, less those a maintainer unticked again
    late,      \* history: those ticked while a run was between read and write
    refused,   \* history: wanted workflows whose dispatch was refused
    unasked,   \* history: how often each was dispatched without being asked for
    failures,  \* requests that have failed
    foreign    \* edits of other issues

vars == <<created, open, ticked, shown, latest, pending, run, asked, wanted,
          late, refused, unasked, failures, foreign>>

Idle == [pc |-> "idle", event |-> Nothing, issue |-> NoIssue, selected |-> {},
         before |-> [w \in Workflows |-> 0], todo |-> {},
         accepted |-> {}, seen |-> [w \in Workflows |-> 0]]

RunType ==
    [pc : {"idle", "start", "dispatch", "write"}, event : Events \cup {Nothing},
     issue : Issues \cup {NoIssue}, selected : SUBSET Workflows,
     before : [Workflows -> 0..MaxRun], todo : SUBSET Workflows,
     accepted : SUBSET Workflows, seen : [Workflows -> 0..MaxRun]]

TypeOK ==
    /\ created \in 0..MaxIssues
    /\ open \subseteq 1..created
    /\ ticked \in [Issues -> SUBSET Workflows]
    /\ shown \in [Issues -> [Workflows -> 0..MaxRun]]
    /\ latest \in [Workflows -> 0..MaxRun]
    /\ pending \in Events \cup {Nothing}
    /\ run \in [Runs -> RunType]
    /\ asked \subseteq Workflows
    /\ wanted \subseteq Workflows
    /\ late \subseteq Workflows
    /\ refused \subseteq Workflows
    /\ unasked \in [Workflows -> Nat]
    /\ failures \in 0..MaxFailures
    /\ foreign \in 0..MaxForeign

Init ==
    /\ created = 0
    /\ open = {}
    /\ ticked = [i \in Issues |-> {}]
    /\ shown = [i \in Issues |-> [w \in Workflows |-> 0]]
    /\ latest = [w \in Workflows |-> 0]
    /\ pending = Nothing
    /\ run = [r \in Runs |-> Idle]
    /\ asked = {} /\ wanted = {} /\ late = {} /\ refused = {}
    /\ unasked = [w \in Workflows |-> 0]
    /\ failures = 0 /\ foreign = 0

\* dashboard_issue: the newest open issue with the dashboard's label, title and
\* marker, which is the order in which the API lists them.
dashboard_issue ==
    IF open = {} THEN NoIssue ELSE CHOOSE i \in open : \A j \in open : j <= i

\* Is a run of the script between its read of the issue and its write?
PastRead(r) == run[r].pc \in {"dispatch", "write"}

-----------------------------------------------------------------------------
(* Maintainers and triggers *)

\* A trigger makes its run the pending one of the group, in place of another.
Trigger(e) == pending' = e

\* An edit of another issue, a closed dashboard included, uses up the bound.
CountForeign(i) ==
    /\ i # dashboard_issue => foreign < MaxForeign
    /\ foreign' = IF i = dashboard_issue THEN foreign ELSE foreign + 1

\* A box of the dashboard, or of one that was closed, is ticked.
Tick(i, w) ==
    /\ i \in 1..created /\ w \notin ticked[i]
    /\ CountForeign(i)
    /\ ticked' = [ticked EXCEPT ![i] = @ \cup {w}]
    /\ Trigger(i)
    /\ IF i = dashboard_issue
       THEN /\ asked' = asked \cup {w}
            /\ wanted' = wanted \cup {w}
            /\ late' = IF \E r \in Runs : PastRead(r) /\ run[r].issue = i
                       THEN late \cup {w} ELSE late \ {w}
            /\ refused' = refused \ {w}
       ELSE UNCHANGED <<asked, wanted, late, refused>>
    /\ UNCHANGED <<created, open, shown, latest, run, unasked, failures>>

\* A box of the dashboard is unticked by hand.
Untick(i, w) ==
    /\ i \in 1..created /\ w \in ticked[i]
    /\ CountForeign(i)
    /\ ticked' = [ticked EXCEPT ![i] = @ \ {w}]
    /\ Trigger(i)
    /\ wanted' = IF i = dashboard_issue THEN wanted \ {w} ELSE wanted
    /\ refused' = IF i = dashboard_issue THEN refused \ {w} ELSE refused
    /\ UNCHANGED <<created, open, shown, latest, run, asked, late, unasked, failures>>

\* Another issue is edited.
EditOther ==
    /\ foreign < MaxForeign
    /\ foreign' = foreign + 1
    /\ Trigger(Foreign)
    /\ UNCHANGED <<created, open, ticked, shown, latest, run, asked, wanted,
                   late, refused, unasked, failures>>

\* A workflow run completes, the script is pushed, or the job is run by hand.
TriggerRefresh ==
    /\ Trigger(Refresh)
    /\ UNCHANGED <<created, open, ticked, shown, latest, run, asked, wanted,
                   late, refused, unasked, failures, foreign>>

\* A scheduled run of a workflow starts.
Scheduled(w) ==
    /\ latest[w] < MaxRun
    /\ latest' = [latest EXCEPT ![w] = @ + 1]
    /\ UNCHANGED <<created, open, ticked, shown, pending, run, asked, wanted,
                   late, refused, unasked, failures, foreign>>

\* A maintainer closes the dashboard; what was ticked in it is not wanted any more.
Close(i) ==
    /\ i \in open
    /\ open' = open \ {i}
    /\ wanted' = {} /\ refused' = {}
    /\ UNCHANGED <<created, ticked, shown, latest, pending, run, asked, late,
                   unasked, failures, foreign>>

-----------------------------------------------------------------------------
(* A run of the script *)

\* Mutant: the concurrency group is missing.
Start_concurrent(r) ==
    /\ pending # Nothing
    /\ run[r].pc = "idle"
    /\ run' = [run EXCEPT ![r] = [Idle EXCEPT !.pc = "start", !.event = pending]]
    /\ pending' = Nothing
    /\ UNCHANGED <<created, open, ticked, shown, latest, asked, wanted, late, refused,
                   unasked, failures, foreign>>

\* The group is free: the pending run starts.
Start(r) ==
    /\ pending # Nothing
    /\ \A q \in Runs : run[q].pc = "idle"
    /\ run' = [run EXCEPT ![r] = [Idle EXCEPT !.pc = "start", !.event = pending]]
    /\ pending' = Nothing
    /\ UNCHANGED <<created, open, ticked, shown, latest, asked, wanted, late, refused,
                   unasked, failures, foreign>>

\* is_dashboard_issue is false of the issue in the event.
Ignore(r) ==
    /\ run[r].pc = "start" /\ run[r].event = Foreign
    /\ run' = [run EXCEPT ![r] = Idle]
    /\ UNCHANGED <<created, open, ticked, shown, latest, pending, asked, wanted,
                   late, refused, unasked, failures, foreign>>

\* Mutant: only an edit of the dashboard dispatches, while any run clears the boxes.
Read_editsOnly(r) ==
    /\ run[r].pc = "start" /\ run[r].event # Foreign
    /\ LET found == dashboard_issue
           boxes == IF found = NoIssue THEN {} ELSE ticked[found]
       IN  run' = [run EXCEPT ![r] =
                     IF @.event \in Issues /\ @.event # found
                     THEN Idle
                     ELSE [@ EXCEPT !.pc = "dispatch", !.issue = found, !.selected = boxes,
                                    !.todo = IF run[r].event = Refresh THEN {} ELSE boxes,
                                    !.before = IF found = NoIssue THEN run[r].before
                                               ELSE shown[found]]]
    /\ UNCHANGED <<created, open, ticked, shown, latest, pending, asked, wanted,
                   late, refused, unasked, failures, foreign>>

\* ensure_label and dashboard_issue; an edit of an issue that is not the one
\* found ends the run, otherwise selected_workflows picks the ticked ones.
Read(r) ==
    /\ run[r].pc = "start" /\ run[r].event # Foreign
    /\ LET found == dashboard_issue
           boxes == IF found = NoIssue THEN {} ELSE ticked[found]
       IN  run' = [run EXCEPT ![r] =
                     IF @.event \in Issues /\ @.event # found
                     THEN Idle
                     ELSE [@ EXCEPT !.pc = "dispatch", !.issue = found,
                                    !.selected = boxes, !.todo = boxes,
                                    !.before = IF found = NoIssue THEN run[r].before
                                               ELSE shown[found]]]
    /\ UNCHANGED <<created, open, ticked, shown, latest, pending, asked, wanted,
                   late, refused, unasked, failures, foreign>>

\* dispatch succeeds: GitHub queues a run of the workflow.
dispatch(r, w) ==
    /\ run[r].pc = "dispatch" /\ w \in run[r].todo
    /\ run' = [run EXCEPT ![r].todo = @ \ {w}, ![r].accepted = @ \cup {w}]
    /\ latest' = [latest EXCEPT ![w] = IF @ < MaxRun THEN @ + 1 ELSE @]
    /\ unasked' = [unasked EXCEPT ![w] = IF w \in asked THEN @ ELSE @ + 1]
    /\ asked' = asked \ {w} /\ wanted' = wanted \ {w} /\ refused' = refused \ {w}
    /\ UNCHANGED <<created, open, ticked, shown, pending, late, failures, foreign>>

\* dispatch raises ApiError: "dispatch failed" is recorded and the loop goes on.
dispatchRejected(r, w) ==
    /\ run[r].pc = "dispatch" /\ w \in run[r].todo
    /\ failures < MaxFailures
    /\ failures' = failures + 1
    /\ run' = [run EXCEPT ![r].todo = @ \ {w}]
    /\ refused' = refused \cup ({w} \cap wanted)
    /\ UNCHANGED <<created, open, ticked, shown, latest, pending, asked, wanted,
                   late, unasked, foreign>>

\* latest_run of every workflow, and render_body.
latest_run(r) ==
    /\ run[r].pc = "dispatch" /\ run[r].todo = {}
    /\ run' = [run EXCEPT ![r].pc = "write", ![r].seen = latest]
    /\ UNCHANGED <<created, open, ticked, shown, latest, pending, asked, wanted,
                   late, refused, unasked, failures, foreign>>

\* body != issue.get("body"): boxes were ticked or the table shows other runs.
MustWrite(r) == run[r].selected # {} \/ run[r].seen # run[r].before

\* update_issue: the whole body is replaced, with every box cleared.  The Result
\* column is not modelled, so a body that has none of the changes above may
\* still differ and be written.
update_issue(r) ==
    /\ run[r].pc = "write" /\ run[r].issue # NoIssue
    /\ \/ /\ ticked' = [ticked EXCEPT ![run[r].issue] = {}]
          /\ shown' = [shown EXCEPT ![run[r].issue] = run[r].seen]
       \/ ~MustWrite(r) /\ UNCHANGED <<ticked, shown>>
    /\ run' = [run EXCEPT ![r] = Idle]
    /\ UNCHANGED <<created, open, latest, pending, asked, wanted, late, refused, unasked,
                   failures, foreign>>

\* create_issue, when the read found none.
create_issue(r) ==
    /\ run[r].pc = "write" /\ run[r].issue = NoIssue
    /\ created < MaxIssues
    /\ created' = created + 1
    /\ open' = open \cup {created + 1}
    /\ shown' = [shown EXCEPT ![created + 1] = run[r].seen]
    /\ run' = [run EXCEPT ![r] = Idle]
    /\ UNCHANGED <<ticked, latest, pending, asked, wanted, late, refused, unasked,
                   failures, foreign>>

\* Any other request fails, or a dispatch fails below HTTP, which nothing
\* catches: the run ends where it is.
Abort(r) ==
    /\ run[r].pc # "idle"
    /\ failures < MaxFailures
    /\ failures' = failures + 1
    /\ run' = [run EXCEPT ![r] = Idle]
    /\ UNCHANGED <<created, open, ticked, shown, latest, pending, asked, wanted,
                   late, refused, unasked, foreign>>

RunStep(r) ==
    \/ Start(r) \/ Ignore(r) \/ Read(r)
    \/ \E w \in Workflows : dispatch(r, w)
    \/ latest_run(r) \/ update_issue(r) \/ create_issue(r)

Next ==
    \/ \E i \in Issues, w \in Workflows : Tick(i, w) \/ Untick(i, w)
    \/ EditOther \/ TriggerRefresh
    \/ \E w \in Workflows : Scheduled(w)
    \/ \E i \in Issues : Close(i)
    \/ \E r \in Runs :
          \/ RunStep(r) \/ Abort(r)
          \/ \E w \in Workflows : dispatchRejected(r, w)

(***************************************************************************)
(* Fairness.  GitHub starts a pending run and a run that is not failed     *)
(* goes on; the four scheduled workflows complete every day, and each      *)
(* completion triggers a refresh.                                          *)
(***************************************************************************)
Fairness == (\A r \in Runs : WF_vars(RunStep(r))) /\ WF_vars(TriggerRefresh)

Spec == Init /\ [][Next]_vars

FairSpec == Spec /\ Fairness

-----------------------------------------------------------------------------
(* Properties *)

\* The updates stay in order, "so a slower API response cannot overwrite a newer
\* view of the runs" (job-reruns.yml:31-32): a table never goes back.
TableNeverGoesBack ==
    [][\A i \in Issues, w \in Workflows : shown'[i][w] >= shown[i][w]]_vars

\* However triggers, failures and a closing of the issue interleave, there is at
\* most one open dashboard, and a workflow is dispatched beyond what was ticked at
\* most once for every request that failed: no trigger finds a box still ticked
\* that an earlier run has served, unless that run was cut short
\* (job_reruns.py:250-279, job-reruns.yml:34-39).
NothingIsDoneTwice ==
    /\ Cardinality(open) <= 1
    /\ \A w \in Workflows : unasked[w] <= failures

\* Until a request fails, a box is cleared and its workflow left out only when
\* the tick fell between a run's read and its write (job_reruns.py:256, 273).
OnlyLateTicksAreLost ==
    failures = 0 /\ open # {} =>
        wanted \ ticked[dashboard_issue] \subseteq late

\* Once failures and edits of other issues cease, a ticked box is served and
\* cleared, whichever trigger brings about the next run: it does not stay for
\* ever, and its workflow is dispatched unless the maintainer takes the tick back,
\* the tick fell between a run's read and its write, or GitHub refused the
\* dispatch (job_reruns.py:256-273).
BoxesAreServed ==
    \A w \in Workflows :
        /\ (open # {} /\ w \in ticked[dashboard_issue]) ~>
                (open = {} \/ w \notin ticked[dashboard_issue])
        /\ (open # {} /\ w \in ticked[dashboard_issue] \cap wanted) ~>
                (open = {} \/ w \notin wanted \/ w \in late \cup refused)

\* What the README and the issue itself say: "Checking one or more items under Run
\* now dispatches exactly those workflows", "the workflow clears the accepted boxes"
\* (README.md:640-642, job_reruns.py:211-212): a tick that is not taken back is
\* either dispatched or still in the issue.
TicksAreNotLost ==
    open # {} => wanted \subseteq ticked[dashboard_issue]

=============================================================================
