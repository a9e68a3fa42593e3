---------------------------- MODULE HelloReport -----------------------------
(***************************************************************************)
(* What /tls promises about "offered" (test-server/tls.go:308-310), with   *)
(* no map and no addresses: the server holds each connection's own         *)
(* ClientHello from the handshake until that connection ends, it may only  *)
(* lose it by forgetting all it holds at once, and a report shows the      *)
(* connection's own hello exactly when it is held.                         *)
(***************************************************************************)
CONSTANT Conns

VARIABLES
    held,  \* the connections whose ClientHello the server holds
    said   \* what the last report for each connection showed

vars == <<held, said>>

Init == held = {} /\ said = [c \in Conns |-> "nothing"]

\* A new connection takes the slot c: nothing is held or was said for it.
Begin(c) ==
    /\ c \notin held
    /\ said' = [said EXCEPT ![c] = "nothing"]
    /\ UNCHANGED held

\* The handshake of c records its hello; a reset loses every other one.
Record(c) ==
    /\ held' \in {held \cup {c}, {c}}
    /\ UNCHANGED said

\* The connection c ends.
Forget(c) ==
    /\ held' = held \ {c}
    /\ UNCHANGED said

\* A report for the connection c.
Report(c) ==
    /\ said' = [said EXCEPT ![c] = IF c \in held THEN "own" ELSE "unavailable"]
    /\ UNCHANGED held

Next == \E c \in Conns : Begin(c) \/ Record(c) \/ Forget(c) \/ Report(c)

Spec == Init /\ [][Next]_vars
=============================================================================
