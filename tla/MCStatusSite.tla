---------------------------- MODULE MCStatusSite ----------------------------
(***************************************************************************)
(* Instances of StatusSite: two workflows, of which one probes.            *)
(***************************************************************************)
EXTENDS StatusSite

MCTestWorkflows == <<"containers", "network">>

\* Bound: the last of the runs is for behaviours without a push, an expiry or a
\* failure, which fill the walk; the others have one run less.
RunsOrMishaps == started < MaxRuns \/ pushes + expiries + failures = 0

=============================================================================
