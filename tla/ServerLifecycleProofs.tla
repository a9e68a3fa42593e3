----------------------- MODULE ServerLifecycleProofs ------------------------
(***************************************************************************)
(* The life of the test server, for any listeners in any order: what the   *)
(* goroutines of a listener have done to its socket by the time main's     *)
(* wg.Wait() returns, and why the process ended.                           *)
(***************************************************************************)
EXTENDS ServerLifecycle, TLAPS

\* main has not come to a listener of a later step, and nothing runs for it.
NotYetConfigured ==
    /\ \A i \in DOMAIN Order : i >= step => Order[i] \notin listed
    /\ \A l \in Listeners \ listed : serving[l] = "none" /\ socket[l] = "none"

\* While the process runs every listener /info reports has been started.
ListedIsStarted == Running => \A l \in listed : serving[l] # "none"

\* Shutdown is called after a signal only, so a socket that was closed under
\* the accept loop tells of one.
ClosedByASignal ==
    \A l \in Listeners :
       /\ InShutdown(l) => signalled
       /\ serving[l] = "accepting" /\ socket[l] = "closed" => signalled

\* A listener whose goroutine is gone failed or was told to go, and only a
\* failed raw listener leaves its socket open.
ReturnedForAReason ==
    \A l \in Listeners :
       /\ serving[l] = "starting" => socket[l] = "none"
       /\ serving[l] = "returned" =>
             /\ l \in failed \/ signalled
             /\ socket[l] = "open" => l = Raw /\ l \in failed

\* The process survives the failures of optional listeners and of raw only.
SurvivesOptional == process \in {"running", "stopped"} => failed \subseteq Optional \cup {Raw}

\* A process that stopped by itself has no goroutine left.
StoppedIsOver ==
    process = "stopped" =>
        \A l \in listed : serving[l] = "returned"

\* The inductive invariant.
Inv ==
    /\ TypeOK
    /\ NotYetConfigured /\ ListedIsStarted /\ ClosedByASignal /\ ReturnedForAReason
    /\ SurvivesOptional /\ StoppedIsOver /\ OnlyRequiredFailuresAreFatal

\* When main returns no listener is still bound, but for the socket of a raw
\* listener whose accept loop failed: serveRaw leaves it to the goroutine that
\* waits for the signal (hostile.go:165-177, main.go:181-192).
StopReleasesSockets ==
    process = "stopped" =>
        \A l \in Listeners : socket[l] = "open" => l = Raw /\ Raw \in failed

-----------------------------------------------------------------------------

\* Order is a sequence of listeners without repetition.
LEMMA OrderTyped ==
    /\ Len(Order) \in Nat /\ DOMAIN Order = 1..Len(Order)
    /\ \A i \in 1..Len(Order) : Order[i] \in Listeners
    /\ \A i, j \in 1..Len(Order) : Order[i] = Order[j] => i = j
    /\ Optional \subseteq Listeners /\ Raw \notin Optional
    /\ MaxActive \in Nat
  BY OrderAssumption DEF Listeners, IsInjective, Range

\* Before main has loaded its certificates nothing is listed or running.
LEMMA InitInv == Init => Inv
<1> SUFFICES ASSUME Init PROVE Inv
  OBVIOUS
<1>1. TypeOK
  <2>1. step \in 0..(Len(Order) + 1) /\ active \in [Listeners -> 0..MaxActive]
    BY OrderTyped DEF Init
  <2> QED
    BY <2>1 DEF Init, TypeOK
<1>2. NotYetConfigured /\ ListedIsStarted /\ ClosedByASignal /\ ReturnedForAReason
  BY DEF Init, NotYetConfigured, ListedIsStarted, ClosedByASignal, ReturnedForAReason, InShutdown
<1>3. SurvivesOptional /\ StoppedIsOver /\ OnlyRequiredFailuresAreFatal
  BY DEF Init, SurvivesOptional, StoppedIsOver, OnlyRequiredFailuresAreFatal
<1> QED
  BY <1>1, <1>2, <1>3 DEF Inv

\* Each step of main, of a serving goroutine and of a shutdown goroutine keeps
\* the invariant.
LEMMA NextInv == Inv /\ [Next]_vars => Inv'
<1> SUFFICES ASSUME Inv, [Next]_vars PROVE Inv'
  OBVIOUS
<1> USE OrderTyped
    DEF Inv, TypeOK, NotYetConfigured, ListedIsStarted, ClosedByASignal, ReturnedForAReason,
        SurvivesOptional, StoppedIsOver, OnlyRequiredFailuresAreFatal, Running, InShutdown
<1>1. CASE loadCertificates
  BY <1>1 DEF loadCertificates
<1>2. CASE skip
  BY <1>2 DEF skip
<1>3. CASE serve
  BY <1>3 DEF serve, shutdownWith
<1>4. CASE serveRawListener
  <2>1. /\ Running /\ step \in 1..Len(Order) /\ Order[step] = Raw /\ Raw \in Listeners
        /\ listed' = listed \cup {Raw} /\ step' = step + 1
        /\ UNCHANGED <<disabled, selfMade, active, signalled>>
    BY <1>4 DEF serveRawListener
  <2>2. CASE /\ socket' = [socket EXCEPT ![Raw] = "open"]
             /\ serving' = [serving EXCEPT ![Raw] = "accepting"]
             /\ shutdownWith(Raw)
             /\ UNCHANGED <<failed, process>>
    BY <2>1, <2>2 DEF shutdownWith
  <2>3. CASE /\ failed' = failed \cup {Raw}
             /\ process' = "fatal"
             /\ UNCHANGED <<socket, serving, stopper>>
    BY <2>1, <2>3
  <2> QED
    BY <1>4, <2>2, <2>3 DEF serveRawListener
<1>5. CASE stop
  BY <1>5 DEF stop, AllReturned
<1>6. CASE loadCertificatesFails
  BY <1>6 DEF loadCertificatesFails
<1>7. CASE signal
  BY <1>7 DEF signal
<1>8. CASE serveRawFails
  BY <1>8 DEF serveRawFails
<1>9. ASSUME NEW l \in Listeners, Listen(l) PROVE Inv'
  <2>1. /\ Running /\ serving[l] = "starting"
        /\ UNCHANGED <<disabled, selfMade, step, listed, stopper, active, failed, signalled, process>>
    BY <1>9 DEF Listen
  <2>2. CASE InShutdown(l)
    <3>1. serving' = [serving EXCEPT ![l] = "returned"] /\ socket' = socket
      BY <1>9, <2>2 DEF Listen
    <3> QED
      BY <2>1, <2>2, <3>1
  <2>3. CASE ~InShutdown(l)
    <3>1. /\ serving' = [serving EXCEPT ![l] = "accepting"]
          /\ socket' = [socket EXCEPT ![l] = "open"]
      BY <1>9, <2>3 DEF Listen
    <3> QED
      BY <2>1, <2>3, <3>1
  <2> QED
    BY <2>2, <2>3
<1>10. ASSUME NEW l \in Listeners, RunFails(l) PROVE Inv'
  BY <1>10 DEF RunFails
<1>11. ASSUME NEW l \in Listeners, AcceptLoopEnds(l) PROVE Inv'
  BY <1>11 DEF AcceptLoopEnds
<1>12. ASSUME NEW l \in Listeners, Request(l) PROVE Inv'
  BY <1>12 DEF Request
<1>13. ASSUME NEW l \in Listeners, Answer(l) PROVE Inv'
  BY <1>13 DEF Answer
<1>14. ASSUME NEW l \in Listeners, Shutdown(l) PROVE Inv'
  BY <1>14 DEF Shutdown
<1>15. ASSUME NEW l \in Listeners, Drained(l) PROVE Inv'
  BY <1>15 DEF Drained
<1>16. CASE UNCHANGED vars
  BY <1>16 DEF vars
<1> QED
  BY <1>1, <1>2, <1>3, <1>4, <1>5, <1>6, <1>7, <1>8, <1>9, <1>10, <1>11, <1>12, <1>13, <1>14,
     <1>15, <1>16 DEF Next, MainStep

\* The inductive invariant holds of the server, with or without fairness.
THEOREM Invariant == Spec => []Inv
  BY InitInv, NextInv, PTL DEF Spec

\* Every variable keeps its type, for any number of listeners and requests.
THEOREM TypeCorrect == FairSpec => []TypeOK
<1>1. Inv => TypeOK
  BY DEF Inv
<1> QED
  BY Invariant, <1>1, PTL DEF FairSpec

\* The process dies of a failure only if the certificates could not be had or a
\* required listener failed, whatever listeners there are (main.go:63-72, 110-119).
THEOREM OnlyRequiredFailuresAreFatalHolds == FairSpec => []OnlyRequiredFailuresAreFatal
<1>1. Inv => OnlyRequiredFailuresAreFatal
  BY DEF Inv
<1> QED
  BY Invariant, <1>1, PTL DEF FairSpec

\* Without a signal the process ends cleanly only when all it had to serve were
\* listeners it may lose, and it lost them.
THEOREM NoUnaskedStopHolds == FairSpec => []NoUnaskedStop
<1>1. Inv => NoUnaskedStop
  <2> SUFFICES ASSUME Inv, process = "stopped", ~signalled
               PROVE  listed \subseteq failed /\ listed \subseteq Optional \cup {Raw}
    BY DEF NoUnaskedStop
  <2>1. \A l \in listed : serving[l] = "returned"
    BY DEF Inv, StoppedIsOver
  <2>2. listed \subseteq failed
    BY <2>1 DEF Inv, TypeOK, ReturnedForAReason
  <2> QED
    BY <2>2 DEF Inv, SurvivesOptional
<1> QED
  BY Invariant, <1>1, PTL DEF FairSpec

\* A process that has stopped has released its sockets, but for a failed raw one.
THEOREM StopReleasesSocketsHolds == FairSpec => []StopReleasesSockets
<1>1. Inv => StopReleasesSockets
  <2> SUFFICES ASSUME Inv, process = "stopped", NEW l \in Listeners, socket[l] = "open"
               PROVE  l = Raw /\ Raw \in failed
    BY DEF StopReleasesSockets
  <2>1. l \in listed
    BY DEF Inv, NotYetConfigured
  <2>2. serving[l] = "returned"
    BY <2>1 DEF Inv, StoppedIsOver
  <2> QED
    BY <2>2 DEF Inv, ReturnedForAReason
<1> QED
  BY Invariant, <1>1, PTL DEF FairSpec

=============================================================================
