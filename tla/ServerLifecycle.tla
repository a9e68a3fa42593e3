-------------------------- MODULE ServerLifecycle ---------------------------
(***************************************************************************)
(* Start-up and shutdown of the test server (test-server/main.go).         *)
(*                                                                         *)
(* main loads or mints the certificates, then goes through the listeners   *)
(* in a fixed order: it appends each one to the list /info reports, starts *)
(* a goroutine that binds and serves it, and starts another that shuts it  *)
(* down when a signal arrives.  The raw listener is bound by main itself   *)
(* and served by serveRaw (hostile.go).  main then waits for the serving   *)
(* goroutines.  A required listener that fails ends the process; an        *)
(* optional one, TLS 1.0 or 1.1, is given up.                              *)
(*                                                                         *)
(* net/http is modelled from how main uses it: ListenAndServe binds and    *)
(* accepts until an error or until Shutdown, which closes the socket,      *)
(* makes ListenAndServe return ErrServerClosed and then waits, up to five  *)
(* seconds, for the requests in flight.                                    *)
(***************************************************************************)
EXTENDS Integers, Sequences, SequencesExt

CONSTANTS
    Order,      \* the listeners in the order main configures them
    Raw,        \* the raw listener
    Optional,   \* the versionListeners with optional: true
    NeedsCA,    \* mtls and the bad chains: run only with a minted CA
    MaxActive   \* bound: requests in flight on one listener

Listeners == Range(Order)

ASSUME OrderAssumption ==
    /\ Order \in Seq(Listeners) /\ IsInjective(Order)
    /\ Optional \subseteq Listeners \ {Raw}
    /\ NeedsCA \subseteq Listeners \ {Raw}
    /\ MaxActive \in Nat

VARIABLES
    disabled,   \* the listeners whose address variable is set to ""
    selfMade,   \* certs.selfMade: no certificate was supplied
    step,       \* "load", the index in Order main is at, or Len(Order) + 1
    listed,     \* s.listeners
    serving,    \* the serving goroutine: "none", "starting", "accepting", "returned"
    socket,     \* "none", "open", "closed"
    stopper,    \* the goroutine shutdownWith starts: "none", "armed", "draining", "done"
    active,     \* requests in flight
    failed,     \* history: listeners whose run ended with an error of its own
    signalled,  \* has SIGINT or SIGTERM cancelled ctx?
    process     \* "running", "fatal", "killed", "stopped"

vars == <<disabled, selfMade, step, listed, serving, socket, stopper, active,
          failed, signalled, process>>

TypeOK ==
    /\ disabled \subseteq Listeners
    /\ selfMade \in BOOLEAN
    /\ step \in 0..(Len(Order) + 1)
    /\ listed \subseteq Listeners
    /\ serving \in [Listeners -> {"none", "starting", "accepting", "returned"}]
    /\ socket \in [Listeners -> {"none", "open", "closed"}]
    /\ stopper \in [Listeners -> {"none", "armed", "draining", "done"}]
    /\ active \in [Listeners -> 0..MaxActive]
    /\ failed \subseteq Listeners
    /\ signalled \in BOOLEAN
    /\ process \in {"running", "fatal", "killed", "stopped"}

Running == process = "running"

\* wg.Wait() returns once every serving goroutine has.
AllReturned == \A l \in Listeners : serving[l] \in {"none", "returned"}

\* main has been through every listener.
Configured == step = Len(Order) + 1

Init ==
    /\ disabled \in SUBSET Listeners
    /\ selfMade \in BOOLEAN
    /\ step = 0
    /\ listed = {}
    /\ serving = [l \in Listeners |-> "none"]
    /\ socket = [l \in Listeners |-> "none"]
    /\ stopper = [l \in Listeners |-> "none"]
    /\ active = [l \in Listeners |-> 0]
    /\ failed = {}
    /\ signalled = FALSE
    /\ process = "running"

-----------------------------------------------------------------------------
(* main *)

\* loadCertificates succeeds: newCA, the leaves and the client identity are
\* minted, or the supplied pair is read.
loadCertificates ==
    /\ Running /\ step = 0
    /\ step' = 1
    /\ UNCHANGED <<disabled, selfMade, listed, serving, socket, stopper, active,
                   failed, signalled, process>>

\* loadCertificates fails: only one of the two files is named, or the pair
\* cannot be read, or minting fails.
loadCertificatesFails ==
    /\ Running /\ step = 0
    /\ process' = "fatal"
    /\ UNCHANGED <<disabled, selfMade, step, listed, serving, socket, stopper,
                   active, failed, signalled>>

\* A listener with an empty address is skipped, and so are mtls and the bad
\* chains of a server with a supplied certificate (its badChains is empty).
Skipped(l) == l \in disabled \/ (l \in NeedsCA /\ ~selfMade)

\* main goes on to the next listener.
skip ==
    /\ Running /\ step \in 1..Len(Order)
    /\ Skipped(Order[step])
    /\ step' = step + 1
    /\ UNCHANGED <<disabled, selfMade, listed, serving, socket, stopper, active,
                   failed, signalled, process>>

\* shutdownWith, and the goroutine that closes the raw socket: both wait for ctx.
shutdownWith(l) == stopper' = [stopper EXCEPT ![l] = "armed"]

\* An http.Server listener: addListener, serve, shutdownWith.
serve ==
    /\ Running /\ step \in 1..Len(Order)
    /\ LET l == Order[step] IN
          /\ ~Skipped(l) /\ l # Raw
          /\ listed' = listed \cup {l}
          /\ serving' = [serving EXCEPT ![l] = "starting"]
          /\ shutdownWith(l)
    /\ step' = step + 1
    /\ UNCHANGED <<disabled, selfMade, socket, active, failed, signalled, process>>

\* Mutant: nothing closes the raw socket on shutdown.
serveRawListener_neverClosed ==
    /\ Running /\ step \in 1..Len(Order)
    /\ Order[step] = Raw /\ ~Skipped(Raw)
    /\ listed' = listed \cup {Raw}
    /\ \/ /\ socket' = [socket EXCEPT ![Raw] = "open"]
          /\ serving' = [serving EXCEPT ![Raw] = "accepting"]
          /\ UNCHANGED <<stopper, failed, process>>
       \/ /\ failed' = failed \cup {Raw}
          /\ process' = "fatal"
          /\ UNCHANGED <<socket, serving, stopper>>
    /\ step' = step + 1
    /\ UNCHANGED <<disabled, selfMade, active, signalled>>

\* The raw listener: addListener, then main binds the socket itself.
serveRawListener ==
    /\ Running /\ step \in 1..Len(Order)
    /\ Order[step] = Raw /\ ~Skipped(Raw)
    /\ listed' = listed \cup {Raw}
    /\ \/ /\ socket' = [socket EXCEPT ![Raw] = "open"]
          /\ serving' = [serving EXCEPT ![Raw] = "accepting"]
          /\ shutdownWith(Raw)
          /\ UNCHANGED <<failed, process>>
       \/ /\ failed' = failed \cup {Raw}
          /\ process' = "fatal"
          /\ UNCHANGED <<socket, serving, stopper>>
    /\ step' = step + 1
    /\ UNCHANGED <<disabled, selfMade, active, signalled>>

\* wg.Wait() returns, "stopped" is logged and main returns.  The process ends
\* whatever requests or shutdown goroutines are still there.
stop ==
    /\ Running /\ Configured /\ AllReturned
    /\ process' = "stopped"
    /\ UNCHANGED <<disabled, selfMade, step, listed, serving, socket, stopper,
                   active, failed, signalled>>

\* A signal: from signal.NotifyContext on it cancels ctx; before, it kills.
signal ==
    /\ Running /\ ~signalled
    /\ IF step = 0
       THEN process' = "killed" /\ UNCHANGED signalled
       ELSE signalled' = TRUE /\ UNCHANGED process
    /\ UNCHANGED <<disabled, selfMade, step, listed, serving, socket, stopper,
                   active, failed>>

-----------------------------------------------------------------------------
(* The serving goroutines *)

\* Shutdown was called on the listener's server.
InShutdown(l) == stopper[l] \in {"draining", "done"}

\* ListenAndServe: bind and accept, or ErrServerClosed after a Shutdown.
Listen(l) ==
    /\ Running /\ serving[l] = "starting"
    /\ IF InShutdown(l)
       THEN serving' = [serving EXCEPT ![l] = "returned"] /\ UNCHANGED socket
       ELSE /\ serving' = [serving EXCEPT ![l] = "accepting"]
            /\ socket' = [socket EXCEPT ![l] = "open"]
    /\ UNCHANGED <<disabled, selfMade, step, listed, stopper, active, failed,
                   signalled, process>>

\* Mutant: an optional listener's error is as fatal as any.
RunFails_alwaysFatal(l) ==
    /\ Running /\ l # Raw /\ ~InShutdown(l)
    /\ serving[l] \in {"starting", "accepting"}
    /\ serving' = [serving EXCEPT ![l] = "returned"]
    /\ socket' = [socket EXCEPT ![l] = IF @ = "open" THEN "closed" ELSE @]
    /\ failed' = failed \cup {l}
    /\ process' = "fatal"
    /\ UNCHANGED <<disabled, selfMade, step, listed, stopper, active, signalled>>

\* Mutant: no listener's error is fatal.
RunFails_neverFatal(l) ==
    /\ Running /\ l # Raw /\ ~InShutdown(l)
    /\ serving[l] \in {"starting", "accepting"}
    /\ serving' = [serving EXCEPT ![l] = "returned"]
    /\ socket' = [socket EXCEPT ![l] = IF @ = "open" THEN "closed" ELSE @]
    /\ failed' = failed \cup {l}
    /\ UNCHANGED <<disabled, selfMade, step, listed, stopper, active, signalled, process>>

\* ListenAndServe fails to bind, or Accept fails for good: fatal unless the
\* listener is optional.  Serve closes its socket as it returns.
RunFails(l) ==
    /\ Running /\ l # Raw /\ ~InShutdown(l)
    /\ serving[l] \in {"starting", "accepting"}
    /\ serving' = [serving EXCEPT ![l] = "returned"]
    /\ socket' = [socket EXCEPT ![l] = IF @ = "open" THEN "closed" ELSE @]
    /\ failed' = failed \cup {l}
    /\ process' = IF l \in Optional THEN process ELSE "fatal"
    /\ UNCHANGED <<disabled, selfMade, step, listed, stopper, active, signalled>>

\* The socket was closed under the accept loop: ErrServerClosed, or serveRaw's nil.
AcceptLoopEnds(l) ==
    /\ Running /\ serving[l] = "accepting" /\ socket[l] = "closed"
    /\ serving' = [serving EXCEPT ![l] = "returned"]
    /\ UNCHANGED <<disabled, selfMade, step, listed, socket, stopper, active,
                   failed, signalled, process>>

\* serveRaw gives up on any Accept error that is not a timeout, such as running
\* out of file descriptors, and leaves the socket open.
serveRawFails ==
    /\ Running /\ Raw \in Listeners
    /\ serving[Raw] = "accepting" /\ socket[Raw] = "open"
    /\ serving' = [serving EXCEPT ![Raw] = "returned"]
    /\ failed' = failed \cup {Raw}
    /\ UNCHANGED <<disabled, selfMade, step, listed, socket, stopper, active,
                   signalled, process>>

\* A request is accepted, or for raw a connection.
Request(l) ==
    /\ Running /\ serving[l] = "accepting" /\ socket[l] = "open"
    /\ active[l] < MaxActive
    /\ active' = [active EXCEPT ![l] = @ + 1]
    /\ UNCHANGED <<disabled, selfMade, step, listed, serving, socket, stopper,
                   failed, signalled, process>>

\* A request is answered.
Answer(l) ==
    /\ Running /\ active[l] > 0
    /\ active' = [active EXCEPT ![l] = @ - 1]
    /\ UNCHANGED <<disabled, selfMade, step, listed, serving, socket, stopper,
                   failed, signalled, process>>

-----------------------------------------------------------------------------
(* The goroutines of shutdownWith and the one that closes the raw socket *)

\* ctx is done: Shutdown closes the socket, then drains; raw is only closed.
Shutdown(l) ==
    /\ Running /\ stopper[l] = "armed" /\ signalled
    /\ stopper' = [stopper EXCEPT ![l] = IF l = Raw THEN "done" ELSE "draining"]
    /\ socket' = [socket EXCEPT ![l] = IF @ = "open" THEN "closed" ELSE @]
    /\ UNCHANGED <<disabled, selfMade, step, listed, serving, active, failed,
                   signalled, process>>

\* Shutdown returns: nothing is in flight, or the five seconds are over.
Drained(l) ==
    /\ Running /\ stopper[l] = "draining"
    /\ stopper' = [stopper EXCEPT ![l] = "done"]
    /\ UNCHANGED <<disabled, selfMade, step, listed, serving, socket, active,
                   failed, signalled, process>>

MainStep == loadCertificates \/ skip \/ serve \/ serveRawListener \/ stop

Next ==
    \/ MainStep
    \/ loadCertificatesFails
    \/ signal
    \/ serveRawFails
    \/ \E l \in Listeners :
          \/ Listen(l) \/ RunFails(l) \/ AcceptLoopEnds(l)
          \/ Request(l) \/ Answer(l)
          \/ Shutdown(l) \/ Drained(l)

(***************************************************************************)
(* Fairness: every goroutine that can go on does, by the Go scheduler.     *)
(* Signals, failures and requests come from outside and carry none.        *)
(***************************************************************************)
Fairness ==
    /\ WF_vars(MainStep)
    /\ \A l \in Listeners :
          /\ WF_vars(Listen(l))
          /\ WF_vars(AcceptLoopEnds(l))
          /\ WF_vars(Shutdown(l))

Spec == Init /\ [][Next]_vars

FairSpec == Spec /\ Fairness

-----------------------------------------------------------------------------
(* Properties *)

\* Losing an obsolete TLS version "should cost us that one listener, not the
\* whole server" (main.go:112-113): the process only dies of a failure when
\* the certificates could not be had or a listener that is required failed.
OnlyRequiredFailuresAreFatal ==
    process = "fatal" => step = 0 \/ failed \ Optional # {}

\* The process ends of its own accord, with no signal and a clean exit, only
\* when it was configured with nothing but listeners it may lose, and has lost
\* them all (main.go:63-72, 110-119, 192).
NoUnaskedStop ==
    process = "stopped" /\ ~signalled =>
        listed \subseteq failed /\ listed \subseteq Optional \cup {Raw}

\* A signal always ends the process, whenever it arrives during start-up and
\* whatever is in flight (main.go:60, 181-184, 192, 217-224).
SignalEndsProcess == signalled ~> ~Running

=============================================================================
