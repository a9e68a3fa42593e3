---------------------------- MODULE MCHelloCache ----------------------------
(* Model checking of HelloCache: symmetry over connections and addresses.   *)
EXTENDS HelloCache, TLC

Symmetry == Permutations(Conns) \cup Permutations(Addrs)
=============================================================================
