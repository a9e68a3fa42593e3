---------------------------- MODULE MCJobReruns -----------------------------
(* Model checking of JobReruns: symmetry over workflows and run slots.       *)
EXTENDS JobReruns, TLC

Symmetry == Permutations(Workflows) \cup Permutations(Runs)
=============================================================================
