----------------------------- MODULE HelloCache -----------------------------
(***************************************************************************)
(* The ClientHello cache of the test server (test-server/tls.go) and the   *)
(* connections that fill, read and empty it.                               *)
(*                                                                         *)
(* Every TLS listener of the process shares one helloCache, a map guarded  *)
(* by a mutex.  GetConfigForClient puts the ClientHello in it while the    *)
(* connection's goroutine is in the handshake, the /tls handler looks it   *)
(* up while it serves a request, and the ConnState hook drops it when the  *)
(* connection is closed or hijacked.  The key is the remote address.       *)
(*                                                                         *)
(* A ClientHello is identified with the connection that sent it: the value *)
(* the map holds for an address is a member of Conns.  A member of Conns   *)
(* is a slot for one connection at a time and is used again once the       *)
(* server has nothing left to do for the previous one.                     *)
(***************************************************************************)
EXTENDS Integers, FiniteSets

CONSTANTS
    Conns,        \* slots for connections the server is dealing with
    Addrs,        \* remote addresses (ip:port)
    Listeners,    \* the TLS listeners
    H2Listeners,  \* the listeners that offer h2 in ALPN
    Limit,        \* the literal 1024 in put
    AddrReuse,    \* may an address come back while the server still deals
                  \* with an earlier connection from it?
    NoHello       \* nil: no entry in the map

\* What a /tls report can say: nothing reported yet, "offeredUnavailable", or
\* the hello of a connection.
NoReport == "no report"
Unavailable == "unavailable"

ASSUME ConstantsAssumption ==
    /\ IsFiniteSet(Conns)
    /\ IsFiniteSet(Addrs)
    /\ H2Listeners \subseteq Listeners
    /\ Limit \in Nat
    /\ AddrReuse \in BOOLEAN
    /\ {NoHello, NoReport, Unavailable} \cap Conns = {}

VARIABLES
    hellos,    \* helloCache.hellos: address -> the connection whose hello is held
    phase,     \* where the connection is in net/http's life cycle
    remote,    \* conn.RemoteAddr()
    listener,  \* the listener that accepted the connection
    h2,        \* was h2 negotiated?
    inflight,  \* is a handler running that may yet read the cache or hijack?
    report,    \* "offered" of the last /tls report made for the connection
    wiped      \* history: the connections whose entry a reset of the map discarded

vars == <<hellos, phase, remote, listener, h2, inflight, report, wiped>>

(***************************************************************************)
(* Phases.  "idle": no connection.  "accepted": the handshake waits for a  *)
(* ClientHello.  "hello": GetConfigForClient has run, the handshake has    *)
(* not ended.  "serving": requests are read.  "hijacked": a handler took   *)
(* the transport over.  "closed": net/http has closed the transport and    *)
(* has yet to call the ConnState hook.                                     *)
(***************************************************************************)
Phases == {"idle", "accepted", "hello", "serving", "hijacked", "closed"}

\* Connections whose transport is open.
Open(c) == phase[c] \in {"accepted", "hello", "serving", "hijacked"}

\* Connections the server still has something to do for: the phase is not idle
\* or, on h2, a handler has outlived the connection.
Busy(c) == phase[c] # "idle" \/ inflight[c]

\* Connections that may have put a hello which their hook has not yet dropped.
Undropped(c) == phase[c] \in {"hello", "serving", "closed"}

\* The addresses the map has an entry for; len(c.hellos) is its cardinality.
Keys == {a \in Addrs : hellos[a] # NoHello}

TypeOK ==
    /\ hellos \in [Addrs -> Conns \cup {NoHello}]
    /\ phase \in [Conns -> Phases]
    /\ remote \in [Conns -> Addrs]
    /\ listener \in [Conns -> Listeners]
    /\ h2 \in [Conns -> BOOLEAN]
    /\ inflight \in [Conns -> BOOLEAN]
    /\ report \in [Conns -> Conns \cup {NoReport, Unavailable}]
    /\ wiped \in SUBSET Conns

-----------------------------------------------------------------------------
(* The map operations; each holds the mutex throughout, so each is atomic. *)

\* len(c.hellos) > 1024, the test that guards the reset.
Full == Cardinality(Keys) > Limit

\* Mutant: the bound is forgotten.
put_noReset(c) ==
    /\ hellos' = [hellos EXCEPT ![remote[c]] = c]
    /\ wiped' = wiped

\* put: reset the map when it is over its bound, then record the hello.
\* (crypto/tls always sets hello.Conn, so the nil test never returns early.)
put(c) ==
    /\ hellos' = IF Full
                 THEN [a \in Addrs |-> IF a = remote[c] THEN c ELSE NoHello]
                 ELSE [hellos EXCEPT ![remote[c]] = c]
    /\ wiped' = IF Full THEN wiped \cup {hellos[a] : a \in Keys} ELSE wiped

\* get: nil when there is no entry.
get(a) == IF hellos[a] = NoHello THEN Unavailable ELSE hellos[a]

\* Mutant: the whole map is cleared.
drop_all(c) == hellos' = [a \in Addrs |-> NoHello]

\* drop: delete the entry for the connection's address, whosever it is.
drop(c) == hellos' = [hellos EXCEPT ![remote[c]] = NoHello]

-----------------------------------------------------------------------------
Init ==
    /\ hellos = [a \in Addrs |-> NoHello]
    /\ phase = [c \in Conns |-> "idle"]
    /\ \E a \in Addrs : remote = [c \in Conns |-> a]
    /\ \E l \in Listeners : listener = [c \in Conns |-> l]
    /\ h2 = [c \in Conns |-> FALSE]
    /\ inflight = [c \in Conns |-> FALSE]
    /\ report = [c \in Conns |-> NoReport]
    /\ wiped = {}

\* Mutant: the key is the host without its port.
Accept_hostKey(c, a, l) ==
    /\ ~Busy(c)
    /\ \A d \in Conns : Open(d) => <<remote[d], listener[d]>> # <<a, l>>
    /\ AddrReuse \/ \A d \in Conns : Busy(d) => remote[d] # a
    /\ phase' = [phase EXCEPT ![c] = "accepted"]
    /\ remote' = [remote EXCEPT ![c] = CHOOSE host \in Addrs : TRUE]
    /\ listener' = [listener EXCEPT ![c] = l]
    /\ h2' = [h2 EXCEPT ![c] = FALSE]
    /\ report' = [report EXCEPT ![c] = NoReport]
    /\ wiped' = wiped \ {c}
    /\ UNCHANGED <<hellos, inflight>>

\* Accept: TCP lets one client address be connected to two listeners at once,
\* never twice to the same one.  Without AddrReuse the client's kernel hands out
\* an address only when no earlier connection from it is still being dealt with.
Accept(c, a, l) ==
    /\ ~Busy(c)
    /\ \A d \in Conns : Open(d) => <<remote[d], listener[d]>> # <<a, l>>
    /\ AddrReuse \/ \A d \in Conns : Busy(d) => remote[d] # a
    /\ phase' = [phase EXCEPT ![c] = "accepted"]
    /\ remote' = [remote EXCEPT ![c] = a]
    /\ listener' = [listener EXCEPT ![c] = l]
    /\ h2' = [h2 EXCEPT ![c] = FALSE]
    /\ report' = [report EXCEPT ![c] = NoReport]
    /\ wiped' = wiped \ {c}
    /\ UNCHANGED <<hellos, inflight>>

\* The ClientHello arrives: crypto/tls calls GetConfigForClient.
GetConfigForClient(c) ==
    /\ phase[c] = "accepted"
    /\ put(c)
    /\ phase' = [phase EXCEPT ![c] = "hello"]
    /\ UNCHANGED <<remote, listener, h2, inflight, report>>

\* The handshake completes and ALPN has chosen the protocol.
HandshakeDone(c) ==
    /\ phase[c] = "hello"
    /\ phase' = [phase EXCEPT ![c] = "serving"]
    /\ \E p \in BOOLEAN :
          /\ p => listener[c] \in H2Listeners
          /\ h2' = [h2 EXCEPT ![c] = p]
    /\ UNCHANGED <<hellos, remote, listener, inflight, report, wiped>>

\* The handshake fails, or ReadHeaderTimeout ends it: the transport is closed.
HandshakeFail(c) ==
    /\ phase[c] \in {"accepted", "hello"}
    /\ phase' = [phase EXCEPT ![c] = "closed"]
    /\ UNCHANGED <<hellos, remote, listener, h2, inflight, report, wiped>>

\* A request arrives and its handler is started: on HTTP/1.1 in the
\* connection's own goroutine, on h2 in one of its own.
StartRequest(c) ==
    /\ phase[c] = "serving"
    /\ ~inflight[c]
    /\ inflight' = [inflight EXCEPT ![c] = TRUE]
    /\ UNCHANGED <<hellos, phase, remote, listener, h2, report, wiped>>

\* The handler calls handshake(r), which looks the hello up by r.RemoteAddr.
\* On h2 the connection may be gone by now.
handshake(c) ==
    /\ inflight[c]
    /\ report' = [report EXCEPT ![c] = get(remote[c])]
    /\ inflight' = [inflight EXCEPT ![c] = FALSE]
    /\ UNCHANGED <<hellos, phase, remote, listener, h2, wiped>>

\* Mutant: the hook does not answer StateHijacked.
Hijack_noDrop(c) ==
    /\ phase[c] = "serving"
    /\ inflight[c] /\ ~h2[c]
    /\ phase' = [phase EXCEPT ![c] = "hijacked"]
    /\ inflight' = [inflight EXCEPT ![c] = FALSE]
    /\ UNCHANGED <<hellos, remote, listener, h2, report, wiped>>

\* A hostile handler takes the transport over (HTTP/1.1 only): net/http calls
\* the hook with StateHijacked before Hijack returns.
Hijack(c) ==
    /\ phase[c] = "serving"
    /\ inflight[c] /\ ~h2[c]
    /\ phase' = [phase EXCEPT ![c] = "hijacked"]
    /\ inflight' = [inflight EXCEPT ![c] = FALSE]
    /\ drop(c)
    /\ UNCHANGED <<remote, listener, h2, report, wiped>>

\* The hijacking handler closes the transport; no further hook runs.
HijackedClose(c) ==
    /\ phase[c] = "hijacked"
    /\ phase' = [phase EXCEPT ![c] = "idle"]
    /\ UNCHANGED <<hellos, remote, listener, h2, inflight, report, wiped>>

\* The connection ends and net/http closes the transport.  On HTTP/1.1 the
\* goroutine is past its handler; on h2 handlers may still be running.
CloseTransport(c) ==
    /\ phase[c] = "serving"
    /\ inflight[c] => h2[c]
    /\ phase' = [phase EXCEPT ![c] = "closed"]
    /\ UNCHANGED <<hellos, remote, listener, h2, inflight, report, wiped>>

\* Mutant: the hook does not answer StateClosed.
ConnStateClosed_noDrop(c) ==
    /\ phase[c] = "closed"
    /\ phase' = [phase EXCEPT ![c] = "idle"]
    /\ UNCHANGED <<hellos, remote, listener, h2, inflight, report, wiped>>

\* net/http calls the hook with StateClosed, after the transport is closed.
ConnStateClosed(c) ==
    /\ phase[c] = "closed"
    /\ phase' = [phase EXCEPT ![c] = "idle"]
    /\ drop(c)
    /\ UNCHANGED <<remote, listener, h2, inflight, report, wiped>>

Next ==
    \E c \in Conns :
        \/ \E a \in Addrs, l \in Listeners : Accept(c, a, l)
        \/ GetConfigForClient(c)
        \/ HandshakeDone(c)
        \/ HandshakeFail(c)
        \/ StartRequest(c)
        \/ handshake(c)
        \/ Hijack(c)
        \/ HijackedClose(c)
        \/ CloseTransport(c)
        \/ ConnStateClosed(c)

(***************************************************************************)
(* Fairness.  ReadHeaderTimeout bounds a handshake, and a goroutine that   *)
(* has closed a transport goes on to call the hook.  Nothing bounds how    *)
(* long a client stays connected, so neither requests nor the end of a     *)
(* connection carry any fairness.                                          *)
(***************************************************************************)
Fairness ==
    \A c \in Conns :
        /\ WF_vars(HandshakeDone(c) \/ HandshakeFail(c))
        /\ WF_vars(ConnStateClosed(c))

Spec == Init /\ [][Next]_vars

FairSpec == Spec /\ Fairness

-----------------------------------------------------------------------------
(***************************************************************************)
(* The refinement of HelloReport.  A hello is held when the map has it     *)
(* under its connection's address; a report is the connection's own or,    *)
(* where HelloReport allows none, another connection's.                    *)
(***************************************************************************)
heldBar == {c \in Conns : hellos[remote[c]] = c}

saidBar ==
    [c \in Conns |-> CASE report[c] = NoReport    -> "nothing"
                       [] report[c] = Unavailable -> "unavailable"
                       [] report[c] = c           -> "own"
                       [] OTHER                   -> "another's"]

HR == INSTANCE HelloReport WITH held <- heldBar, said <- saidBar

-----------------------------------------------------------------------------
(* Properties *)

\* The map never outgrows the bound put enforces: it is reset when it holds more
\* than Limit entries, so it holds at most one more (tls.go:364-371).
MapBounded == Cardinality(Keys) <= Limit + 1

\* Every entry belongs to a connection that put it and whose hook has yet to
\* run: no sequence of closes, hijacks, failed handshakes and reused addresses
\* leaves an entry behind (tls.go:321-325, 364-366).
NoLeak ==
    \A a \in Keys : Undropped(hellos[a]) /\ remote[hellos[a]] = a

\* However addresses come back, a connection that is being served loses its
\* hello only to a reset or to another connection from its own address, and that
\* one is on another listener or is already closed, its hook running late; the
\* end of any other connection never takes it (tls.go:321-325, 358-383).
OnlySharersTakeHellos ==
    [][\A c \in Conns :
         /\ phase[c] \in {"hello", "serving"} /\ phase'[c] \in {"hello", "serving"}
         /\ hellos[remote[c]] = c /\ hellos'[remote[c]] # c
         => \/ c \in wiped'
            \/ \E d \in Conns \ {c} :
                  /\ remote[d] = remote[c] /\ phase'[d] # phase[d]
                  /\ listener[d] # listener[c] \/ phase[d] = "closed"]_vars

\* What the comment in tlsServerWith says: the hello is "keyed by the connection
\* it arrived on", so a report never shows another connection's (tls.go:308-309).
KeyedByConnection ==
    \A c \in Conns : report[c] \in {NoReport, Unavailable, c}

\* When addresses are not reused early, /tls reports the hello of the very
\* connection the request came on, or says that it has none; in particular for
\* an h2 handler that outlived its connection (tls.go:445-451).
ReportsOwnHello ==
    ~AddrReuse => KeyedByConnection

\* When addresses are not reused early, a connection that is being served has
\* its hello in the map unless a reset of the full map discarded it: no other
\* connection's put or drop can take it away (tls.go:358-383).
ServedHelloIsHeld ==
    ~AddrReuse =>
        \A c \in Conns :
            phase[c] \in {"hello", "serving"} /\ c \notin wiped
                => hellos[remote[c]] = c

\* With no more connections at once than the bound admits, the reset that is
\* "belt and braces" never discards a hello (tls.go:364-369).
NoResetBelowLimit == Cardinality(Conns) <= Limit + 1 => wiped = {}

\* A peer that opens connections and never completes a handshake does not keep
\* its entry: a hello that was put is eventually served or dropped
\* (tls.go:320-325, 364-366).
UnfinishedHandshakeIsDropped ==
    \A c \in Conns :
        phase[c] = "hello" ~>
            (phase[c] = "serving" \/ \A a \in Addrs : hellos[a] # c)

\* When addresses are not reused early, the map keyed by address behaves as if
\* it were keyed by the connection, as tls.go:308-310 puts it: a connection's
\* hello is lost only at its own end or in a reset, and a report shows it
\* exactly when it is held.  MCHelloCache_unique checks it.
ImplementsHelloReport == HR!Spec

=============================================================================
