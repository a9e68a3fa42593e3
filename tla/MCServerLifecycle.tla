------------------------- MODULE MCServerLifecycle --------------------------
(* Model checking of ServerLifecycle: one listener of each kind, in the      *)
(* order main configures them.                                               *)
EXTENDS ServerLifecycle

MCOrder == <<"https", "tls10", "mtls", "raw">>
=============================================================================
