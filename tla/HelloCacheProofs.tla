-------------------------- MODULE HelloCacheProofs --------------------------
(***************************************************************************)
(* Proofs about HelloCache, for any number of connections, addresses and   *)
(* listeners and any limit.                                                *)
(*                                                                         *)
(* The inductive invariant is TypeOK, NoLeak and AddrsDistinct: where      *)
(* addresses are not reused early, connections the server still deals with *)
(* have different addresses.  Everything else follows from it in one step. *)
(***************************************************************************)
EXTENDS HelloCache, FiniteSetTheorems, TLAPS

\* Accept's last guard, kept by every other step (tls.go:321-325: a connection
\* is only done with once its hook has dropped its entry).
AddrsDistinct ==
    ~AddrReuse =>
        \A c, d \in Conns : Busy(c) /\ Busy(d) /\ c # d => remote[c] # remote[d]

IndInv == TypeOK /\ NoLeak /\ AddrsDistinct

\* The initial state has an empty map and no connections (tls.go:354-356).
LEMMA InitIndInv == Init => IndInv
<1> SUFFICES ASSUME Init PROVE IndInv
  OBVIOUS
<1>1. TypeOK
  BY DEF Init, TypeOK, Phases, NoReport
<1>2. Keys = {}
  BY DEF Init, Keys
<1>3. \A c \in Conns : ~Busy(c)
  BY DEF Init, Busy
<1> QED
  BY <1>1, <1>2, <1>3 DEF IndInv, NoLeak, AddrsDistinct

\* Every step keeps the state well typed.
LEMMA TypeStep == TypeOK /\ [Next]_vars => TypeOK'
<1> SUFFICES ASSUME TypeOK, [Next]_vars PROVE TypeOK'
  OBVIOUS
<1> USE ConstantsAssumption DEF TypeOK, Phases
<1>1. ASSUME NEW c \in Conns, NEW a \in Addrs, NEW l \in Listeners, Accept(c, a, l)
      PROVE  TypeOK'
  BY <1>1 DEF Accept
<1>2. ASSUME NEW c \in Conns, GetConfigForClient(c) PROVE TypeOK'
  <2>1. hellos' \in [Addrs -> Conns \cup {NoHello}]
    BY <1>2 DEF GetConfigForClient, put
  <2>2. {hellos[a] : a \in Keys} \subseteq Conns
    BY DEF Keys
  <2>3. wiped' \in SUBSET Conns
    BY <1>2, <2>2 DEF GetConfigForClient, put
  <2> QED
    BY <1>2, <2>1, <2>3 DEF GetConfigForClient
<1>3. ASSUME NEW c \in Conns, HandshakeDone(c) PROVE TypeOK'
  BY <1>3 DEF HandshakeDone
<1>4. ASSUME NEW c \in Conns, HandshakeFail(c) PROVE TypeOK'
  BY <1>4 DEF HandshakeFail
<1>5. ASSUME NEW c \in Conns, StartRequest(c) PROVE TypeOK'
  BY <1>5 DEF StartRequest
<1>6. ASSUME NEW c \in Conns, handshake(c) PROVE TypeOK'
  BY <1>6 DEF handshake, get
<1>7. ASSUME NEW c \in Conns, Hijack(c) PROVE TypeOK'
  BY <1>7 DEF Hijack, drop
<1>8. ASSUME NEW c \in Conns, HijackedClose(c) PROVE TypeOK'
  BY <1>8 DEF HijackedClose
<1>9. ASSUME NEW c \in Conns, CloseTransport(c) PROVE TypeOK'
  BY <1>9 DEF CloseTransport
<1>10. ASSUME NEW c \in Conns, ConnStateClosed(c) PROVE TypeOK'
  BY <1>10 DEF ConnStateClosed, drop
<1>11. CASE UNCHANGED vars
  BY <1>11 DEF vars
<1> QED
  BY <1>1, <1>2, <1>3, <1>4, <1>5, <1>6, <1>7, <1>8, <1>9, <1>10, <1>11 DEF Next

\* No step leaves an entry whose connection has already been dropped or now has
\* another address: only a connection in the handshake puts one, it is the
\* connection's own hook that ends Undropped, and that hook drops the address.
LEMMA NoLeakStep == TypeOK /\ NoLeak /\ [Next]_vars => NoLeak'
<1> SUFFICES ASSUME TypeOK, NoLeak, [Next]_vars PROVE NoLeak'
  OBVIOUS
<1> USE ConstantsAssumption DEF TypeOK, NoLeak, Keys, Undropped
<1>1. ASSUME NEW c \in Conns, NEW a \in Addrs, NEW l \in Listeners, Accept(c, a, l)
      PROVE  NoLeak'
  BY <1>1 DEF Accept, Busy
<1>2. ASSUME NEW c \in Conns, GetConfigForClient(c) PROVE NoLeak'
  BY <1>2 DEF GetConfigForClient, put
<1>3. ASSUME NEW c \in Conns, HandshakeDone(c) PROVE NoLeak'
  BY <1>3 DEF HandshakeDone
<1>4. ASSUME NEW c \in Conns, HandshakeFail(c) PROVE NoLeak'
  BY <1>4 DEF HandshakeFail
<1>5. ASSUME NEW c \in Conns, StartRequest(c) PROVE NoLeak'
  BY <1>5 DEF StartRequest
<1>6. ASSUME NEW c \in Conns, handshake(c) PROVE NoLeak'
  BY <1>6 DEF handshake
<1>7. ASSUME NEW c \in Conns, Hijack(c) PROVE NoLeak'
  BY <1>7 DEF Hijack, drop
<1>8. ASSUME NEW c \in Conns, HijackedClose(c) PROVE NoLeak'
  BY <1>8 DEF HijackedClose
<1>9. ASSUME NEW c \in Conns, CloseTransport(c) PROVE NoLeak'
  BY <1>9 DEF CloseTransport
<1>10. ASSUME NEW c \in Conns, ConnStateClosed(c) PROVE NoLeak'
  BY <1>10 DEF ConnStateClosed, drop
<1>11. CASE UNCHANGED vars
  BY <1>11 DEF vars
<1> QED
  BY <1>1, <1>2, <1>3, <1>4, <1>5, <1>6, <1>7, <1>8, <1>9, <1>10, <1>11 DEF Next

\* Only Accept makes a connection busy, and its guard asks for a free address.
LEMMA AddrsDistinctStep == TypeOK /\ AddrsDistinct /\ [Next]_vars => AddrsDistinct'
<1> SUFFICES ASSUME TypeOK, AddrsDistinct, [Next]_vars PROVE AddrsDistinct'
  OBVIOUS
<1> USE ConstantsAssumption DEF TypeOK, AddrsDistinct, Busy
<1>1. ASSUME NEW c \in Conns, NEW a \in Addrs, NEW l \in Listeners, Accept(c, a, l)
      PROVE  AddrsDistinct'
  BY <1>1 DEF Accept
<1>2. ASSUME NEW c \in Conns, GetConfigForClient(c) PROVE AddrsDistinct'
  BY <1>2 DEF GetConfigForClient
<1>3. ASSUME NEW c \in Conns, HandshakeDone(c) PROVE AddrsDistinct'
  BY <1>3 DEF HandshakeDone
<1>4. ASSUME NEW c \in Conns, HandshakeFail(c) PROVE AddrsDistinct'
  BY <1>4 DEF HandshakeFail
<1>5. ASSUME NEW c \in Conns, StartRequest(c) PROVE AddrsDistinct'
  BY <1>5 DEF StartRequest
<1>6. ASSUME NEW c \in Conns, handshake(c) PROVE AddrsDistinct'
  BY <1>6 DEF handshake
<1>7. ASSUME NEW c \in Conns, Hijack(c) PROVE AddrsDistinct'
  BY <1>7 DEF Hijack
<1>8. ASSUME NEW c \in Conns, HijackedClose(c) PROVE AddrsDistinct'
  BY <1>8 DEF HijackedClose
<1>9. ASSUME NEW c \in Conns, CloseTransport(c) PROVE AddrsDistinct'
  BY <1>9 DEF CloseTransport
<1>10. ASSUME NEW c \in Conns, ConnStateClosed(c) PROVE AddrsDistinct'
  BY <1>10 DEF ConnStateClosed
<1>11. CASE UNCHANGED vars
  BY <1>11 DEF vars
<1> QED
  BY <1>1, <1>2, <1>3, <1>4, <1>5, <1>6, <1>7, <1>8, <1>9, <1>10, <1>11 DEF Next

\* The three parts together are an invariant of the cache.
THEOREM Invariance == Spec => []IndInv
<1>1. IndInv /\ [Next]_vars => IndInv'
  BY TypeStep, NoLeakStep, AddrsDistinctStep DEF IndInv
<1> QED
  BY InitIndInv, <1>1, PTL DEF Spec

\* The state of the cache and its connections stays well typed.
THEOREM TypeCorrect == Spec => []TypeOK
  BY Invariance, PTL DEF IndInv

\* No sequence of handshakes, hijacks, closes and reused addresses leaves an
\* entry behind in the map (tls.go:321-325, 358-383).
THEOREM NoEntryLeaks == Spec => []NoLeak
  BY Invariance, PTL DEF IndInv

\* Accept's other guard: TCP never connects one address twice to one listener, so
\* two open connections differ in the address or in the listener.
OpenDistinct ==
    \A c, d \in Conns : Open(c) /\ Open(d) /\ c # d =>
        remote[c] # remote[d] \/ listener[c] # listener[d]

\* Only Accept opens a connection, and its guard asks for the pair to be free.
LEMMA OpenDistinctHolds == Spec => []OpenDistinct
<1>1. Init => OpenDistinct
  BY DEF Init, OpenDistinct, Open
<1>2. TypeOK /\ OpenDistinct /\ [Next]_vars => OpenDistinct'
  <2> SUFFICES ASSUME TypeOK, OpenDistinct, [Next]_vars PROVE OpenDistinct'
    OBVIOUS
  <2> USE DEF TypeOK, OpenDistinct, Open
  <2>1. ASSUME NEW c \in Conns, NEW a \in Addrs, NEW l \in Listeners, Accept(c, a, l)
        PROVE  OpenDistinct'
    BY <2>1 DEF Accept, Busy
  <2>2. ASSUME NEW c \in Conns,
               \/ GetConfigForClient(c) \/ HandshakeDone(c) \/ HandshakeFail(c)
               \/ Hijack(c) \/ HijackedClose(c) \/ CloseTransport(c) \/ ConnStateClosed(c)
        PROVE  OpenDistinct'
    <3>1. /\ remote' = remote /\ listener' = listener
          /\ \A d \in Conns : Open(d)' => Open(d)
      BY <2>2 DEF GetConfigForClient, HandshakeDone, HandshakeFail, Hijack, HijackedClose,
             CloseTransport, ConnStateClosed
    <3> QED
      BY <3>1
  <2>3. ASSUME NEW c \in Conns, StartRequest(c) \/ handshake(c) PROVE OpenDistinct'
    BY <2>3 DEF StartRequest, handshake
  <2>4. CASE UNCHANGED vars
    BY <2>4 DEF vars
  <2> QED
    BY <2>1, <2>2, <2>3, <2>4 DEF Next
<1> QED
  BY TypeCorrect, <1>1, <1>2, PTL DEF Spec

\* A served connection loses its hello only to a reset or to a connection from its
\* own address that is on another listener or already closed (tls.go:321-325, 358-383).
THEOREM SharersTakeHellos == Spec => OnlySharersTakeHellos
<1> DEFINE Taken(c) == /\ phase[c] \in {"hello", "serving"} /\ phase'[c] \in {"hello", "serving"}
                       /\ hellos[remote[c]] = c /\ hellos'[remote[c]] # c
           By(c) == \/ c \in wiped'
                    \/ \E d \in Conns \ {c} :
                          /\ remote[d] = remote[c] /\ phase'[d] # phase[d]
                          /\ listener[d] # listener[c] \/ phase[d] = "closed"
<1>1. IndInv /\ OpenDistinct /\ [Next]_vars => [\A c \in Conns : Taken(c) => By(c)]_vars
  <2> SUFFICES ASSUME IndInv, OpenDistinct, [Next]_vars, NEW c \in Conns, Taken(c) PROVE By(c)
    OBVIOUS
  <2>1. TypeOK /\ hellos' # hellos /\ Open(c) /\ remote[c] \in Addrs
    BY DEF IndInv, TypeOK, Open
  <2>2. PICK d \in Conns : GetConfigForClient(d) \/ Hijack(d) \/ ConnStateClosed(d)
    BY <2>1 DEF Next, Accept, HandshakeDone, HandshakeFail, StartRequest, handshake,
           HijackedClose, CloseTransport, vars
  <2>3. d # c
    BY <2>1, <2>2 DEF GetConfigForClient, Hijack, ConnStateClosed, TypeOK
  <2>4. CASE GetConfigForClient(d)
    <3>1. CASE Full
      BY <2>1, <2>4, <3>1, ConstantsAssumption DEF GetConfigForClient, put, Keys
    <3>2. CASE ~Full
      <4>1. remote[d] = remote[c] /\ phase'[d] # phase[d] /\ Open(d)
        BY <2>1, <2>4, <3>2 DEF GetConfigForClient, put, TypeOK, Open
      <4> QED
        BY <2>1, <2>3, <4>1 DEF OpenDistinct
    <3> QED
      BY <3>1, <3>2
  <2>5. CASE Hijack(d)
    <3>1. remote[d] = remote[c] /\ phase'[d] # phase[d] /\ Open(d)
      BY <2>1, <2>5 DEF Hijack, drop, TypeOK, Open
    <3> QED
      BY <2>1, <2>3, <3>1 DEF OpenDistinct
  <2>6. CASE ConnStateClosed(d)
    BY <2>1, <2>3, <2>6 DEF ConnStateClosed, drop, TypeOK
  <2> QED
    BY <2>2, <2>4, <2>5, <2>6
<1> QED
  BY Invariance, OpenDistinctHolds, <1>1, PTL DEF Spec, OnlySharersTakeHellos

\* Where addresses are not reused early, whatever the map holds under the
\* address of a connection the server deals with is that connection's own.
LEMMA EntryIsOwn ==
    ASSUME IndInv, ~AddrReuse, NEW c \in Conns, Busy(c)
    PROVE  hellos[remote[c]] \in {c, NoHello}
  BY DEF IndInv, TypeOK, NoLeak, AddrsDistinct, Keys, Undropped, Busy

\* Where addresses are not reused early, /tls reports the connection's own hello
\* or none, also from an h2 handler that outlived it (tls.go:425-451).
THEOREM OwnHelloReported == Spec => []ReportsOwnHello
<1>1. Init => ReportsOwnHello
  BY DEF Init, ReportsOwnHello, KeyedByConnection
<1>2. IndInv /\ ReportsOwnHello /\ [Next]_vars => ReportsOwnHello'
  <2> SUFFICES ASSUME IndInv, ReportsOwnHello, [Next]_vars, ~AddrReuse
               PROVE  KeyedByConnection'
    BY DEF ReportsOwnHello
  <2> USE DEF ReportsOwnHello, KeyedByConnection
  <2>1. TypeOK
    BY DEF IndInv
  <2>2. ASSUME NEW c \in Conns, NEW a \in Addrs, NEW l \in Listeners, Accept(c, a, l)
        PROVE  KeyedByConnection'
    BY <2>1, <2>2 DEF Accept, TypeOK
  <2>3. ASSUME NEW c \in Conns, handshake(c) PROVE KeyedByConnection'
    <3>1. hellos[remote[c]] \in {c, NoHello}
      BY <2>1, <2>3, EntryIsOwn DEF handshake, Busy
    <3>2. get(remote[c]) \in {Unavailable, c}
      BY <3>1 DEF get
    <3> QED
      BY <2>1, <2>3, <3>2 DEF handshake, TypeOK
  <2>4. CASE UNCHANGED report
    BY <2>4
  <2> QED
    BY <2>2, <2>3, <2>4
    DEF Next, GetConfigForClient, HandshakeDone, HandshakeFail, StartRequest,
        Hijack, HijackedClose, CloseTransport, ConnStateClosed, vars
<1> QED
  BY Invariance, <1>1, <1>2, PTL DEF Spec

\* Where addresses are not reused early, nothing but a reset of the full map
\* takes the hello of a connection away while it is served (tls.go:358-383).
THEOREM ServedHelloHeld == Spec => []ServedHelloIsHeld
<1>1. Init => ServedHelloIsHeld
  BY DEF Init, ServedHelloIsHeld
<1>2. IndInv /\ ServedHelloIsHeld /\ [Next]_vars => ServedHelloIsHeld'
  <2> SUFFICES ASSUME IndInv, ServedHelloIsHeld, [Next]_vars, ~AddrReuse,
                      NEW d \in Conns,
                      phase'[d] \in {"hello", "serving"}, d \notin wiped'
               PROVE  hellos'[remote'[d]] = d
    BY DEF ServedHelloIsHeld
  <2> USE DEF ServedHelloIsHeld, TypeOK, Busy
  <2>1. TypeOK /\ AddrsDistinct /\ NoLeak
    BY DEF IndInv
  <2>2. ASSUME NEW c \in Conns, NEW a \in Addrs, NEW l \in Listeners, Accept(c, a, l)
        PROVE  hellos'[remote'[d]] = d
    BY <2>1, <2>2 DEF Accept
  <2>3. ASSUME NEW c \in Conns, GetConfigForClient(c) PROVE hellos'[remote'[d]] = d
    <3>1. CASE c = d
      BY <2>1, <2>3, <3>1 DEF GetConfigForClient, put
    <3>2. CASE c # d
      <4>1. /\ phase[d] \in {"hello", "serving"} /\ remote' = remote
            /\ phase[c] = "accepted"
        BY <2>1, <2>3, <3>2 DEF GetConfigForClient
      <4>2. remote[c] # remote[d]
        BY <2>1, <3>2, <4>1 DEF AddrsDistinct
      <4>3. d \notin wiped
        BY <2>1, <2>3 DEF GetConfigForClient, put
      <4>4. hellos[remote[d]] = d
        BY <4>1, <4>3
      <4>5. remote[d] \in Keys
        BY <2>1, <4>4, ConstantsAssumption DEF Keys
      <4>6. ~Full
        BY <2>3, <4>4, <4>5 DEF GetConfigForClient, put
      <4> QED
        BY <2>1, <2>3, <4>1, <4>2, <4>4, <4>6 DEF GetConfigForClient, put
    <3> QED
      BY <3>1, <3>2
  <2>4. ASSUME NEW c \in Conns, Hijack(c) PROVE hellos'[remote'[d]] = d
    BY <2>1, <2>4 DEF Hijack, drop, AddrsDistinct
  <2>5. ASSUME NEW c \in Conns, ConnStateClosed(c) PROVE hellos'[remote'[d]] = d
    BY <2>1, <2>5 DEF ConnStateClosed, drop, AddrsDistinct
  <2>6. ASSUME NEW c \in Conns, HandshakeDone(c) PROVE hellos'[remote'[d]] = d
    BY <2>1, <2>6 DEF HandshakeDone
  <2>7. ASSUME NEW c \in Conns,
               \/ HandshakeFail(c) \/ StartRequest(c) \/ handshake(c)
               \/ HijackedClose(c) \/ CloseTransport(c)
        PROVE  hellos'[remote'[d]] = d
    BY <2>1, <2>7 DEF HandshakeFail, StartRequest, handshake, HijackedClose, CloseTransport
  <2>8. CASE UNCHANGED vars
    BY <2>8 DEF vars
  <2> QED
    BY <2>2, <2>3, <2>4, <2>5, <2>6, <2>7, <2>8 DEF Next
<1> QED
  BY Invariance, <1>1, <1>2, PTL DEF Spec

\* A subset of the addresses is finite and has at most as many members as the
\* set it is part of.
LEMMA KeysMonotone ==
    ASSUME NEW S, NEW T, S \subseteq T, T \subseteq Addrs
    PROVE  /\ IsFiniteSet(S) /\ IsFiniteSet(T)
           /\ Cardinality(S) \in Nat /\ Cardinality(T) \in Nat
           /\ Cardinality(S) <= Cardinality(T)
<1>1. IsFiniteSet(T)
  BY FS_Subset, ConstantsAssumption
<1>2. IsFiniteSet(S) /\ Cardinality(S) <= Cardinality(T)
  BY <1>1, FS_Subset
<1> QED
  BY <1>1, <1>2, FS_CardinalityType

\* The map holds at most one entry more than the limit (tls.go:364-371).
THEOREM MapIsBounded == Spec => []MapBounded
<1>1. Init => MapBounded
  <2> SUFFICES ASSUME Init PROVE MapBounded
    OBVIOUS
  <2>1. Keys = {}
    BY DEF Init, Keys
  <2> QED
    BY <2>1, FS_EmptySet, ConstantsAssumption DEF MapBounded
<1>2. TypeOK /\ MapBounded /\ [Next]_vars => MapBounded'
  <2> SUFFICES ASSUME TypeOK, MapBounded, [Next]_vars PROVE MapBounded'
    OBVIOUS
  <2>1. Keys \subseteq Addrs /\ Keys' \subseteq Addrs
    BY DEF Keys
  <2>2. CASE Keys' \subseteq Keys
    BY <2>1, <2>2, KeysMonotone, ConstantsAssumption DEF MapBounded
  <2>3. ASSUME NEW c \in Conns, GetConfigForClient(c) PROVE MapBounded'
    <3>1. remote[c] \in Addrs
      BY DEF TypeOK
    <3>2. CASE Full
      <4>1. Keys' = {remote[c]}
        BY <2>3, <3>1, <3>2, ConstantsAssumption DEF GetConfigForClient, put, Keys
      <4>2. Cardinality(Keys') = 1
        BY <4>1, FS_Singleton
      <4> QED
        BY <4>2, ConstantsAssumption DEF MapBounded
    <3>3. CASE ~Full
      <4>1. Keys' \subseteq Keys \cup {remote[c]}
        BY <2>3, <3>1, <3>3 DEF GetConfigForClient, put, Keys, TypeOK
      <4>2. IsFiniteSet(Keys) /\ Cardinality(Keys) \in Nat
        BY <2>1, KeysMonotone
      <4>3. Cardinality(Keys) <= Limit
        BY <3>3, <4>2, ConstantsAssumption DEF Full
      <4>4. Cardinality(Keys \cup {remote[c]}) \in {Cardinality(Keys), Cardinality(Keys) + 1}
        BY <4>2, FS_AddElement
      <4>5. Keys \cup {remote[c]} \subseteq Addrs
        BY <2>1, <3>1
      <4>6. /\ Cardinality(Keys') \in Nat
            /\ Cardinality(Keys \cup {remote[c]}) \in Nat
            /\ Cardinality(Keys') <= Cardinality(Keys \cup {remote[c]})
        BY <4>1, <4>5, KeysMonotone
      <4> QED
        BY <4>2, <4>3, <4>4, <4>6, ConstantsAssumption DEF MapBounded
    <3> QED
      BY <3>2, <3>3
  <2>4. ASSUME NEW c \in Conns, Hijack(c) \/ ConnStateClosed(c) PROVE Keys' \subseteq Keys
    BY <2>4 DEF Hijack, ConnStateClosed, drop, Keys, TypeOK
  <2>5. CASE UNCHANGED hellos
    BY <2>2, <2>5 DEF Keys
  <2> QED
    BY <2>2, <2>3, <2>4, <2>5
    DEF Next, Accept, HandshakeDone, HandshakeFail, StartRequest, handshake,
        HijackedClose, CloseTransport, vars
<1> QED
  BY TypeCorrect, <1>1, <1>2, PTL DEF Spec

\* With at most Limit + 1 connections at once a put never finds the map full:
\* the entries belong to different connections, none of them the one that is
\* about to put its own (tls.go:364-369).
THEOREM NoReset == Spec => []NoResetBelowLimit
<1>1. Init => NoResetBelowLimit
  BY DEF Init, NoResetBelowLimit
<1>2. IndInv /\ NoResetBelowLimit /\ [Next]_vars => NoResetBelowLimit'
  <2> SUFFICES ASSUME IndInv, wiped = {}, [Next]_vars, Cardinality(Conns) <= Limit + 1
               PROVE  wiped' = {}
    BY DEF NoResetBelowLimit
  <2>1. ASSUME NEW c \in Conns, GetConfigForClient(c) PROVE wiped' = {}
    <3> DEFINE f == [a \in Keys |-> hellos[a]]
    <3>1. f \in [Keys -> Conns \ {c}]
      BY <2>1 DEF IndInv, TypeOK, NoLeak, Undropped, Keys, GetConfigForClient
    <3>2. \A a, b \in Keys : f[a] = f[b] => a = b
      BY DEF IndInv, NoLeak
    <3>3. f \in Injection(Keys, Conns \ {c})
      BY <3>1, <3>2 DEF Injection, IsInjective
    <3>4. /\ IsFiniteSet(Conns \ {c})
          /\ Cardinality(Conns \ {c}) = Cardinality(Conns) - 1
      BY FS_RemoveElement, ConstantsAssumption
    <3>5. Cardinality(Keys) <= Cardinality(Conns \ {c})
      BY <3>3, <3>4, FS_Injection
    <3>6. Cardinality(Keys) \in Nat /\ Cardinality(Conns) \in Nat
      BY KeysMonotone, FS_CardinalityType, ConstantsAssumption DEF Keys
    <3>7. ~Full
      BY <3>4, <3>5, <3>6, ConstantsAssumption DEF Full
    <3> QED
      BY <2>1, <3>7 DEF GetConfigForClient, put
  <2>2. ASSUME NEW c \in Conns, NEW a \in Addrs, NEW l \in Listeners, Accept(c, a, l)
        PROVE  wiped' = {}
    BY <2>2 DEF Accept
  <2> QED
    BY <2>1, <2>2
    DEF Next, HandshakeDone, HandshakeFail, StartRequest, handshake, Hijack,
        HijackedClose, CloseTransport, ConnStateClosed, vars
<1> QED
  BY Invariance, <1>1, <1>2, PTL DEF Spec

\* Where addresses are not reused early, the cache implements HelloReport: the
\* map keyed by address behaves as one keyed by the connection (tls.go:308-310).
THEOREM Refinement == ~AddrReuse => (Spec => ImplementsHelloReport)
<1> SUFFICES ASSUME ~AddrReuse PROVE Spec => HR!Spec
  BY DEF ImplementsHelloReport
<1> USE ConstantsAssumption
<1>1. Init => HR!Init
  <2> SUFFICES ASSUME Init PROVE HR!Init
    OBVIOUS
  <2>1. heldBar = {}
    BY DEF Init, heldBar
  <2>2. saidBar = [c \in Conns |-> "nothing"]
    BY DEF Init, saidBar, NoReport, Unavailable
  <2> QED
    BY <2>1, <2>2 DEF HR!Init
<1>2. IndInv /\ ReportsOwnHello /\ [Next]_vars => [HR!Next]_HR!vars
  <2> SUFFICES ASSUME IndInv, ReportsOwnHello, [Next]_vars PROVE [HR!Next]_HR!vars
    OBVIOUS
  <2>1. TypeOK /\ NoLeak /\ AddrsDistinct
    BY DEF IndInv
  <2>2. ASSUME NEW c \in Conns, NEW a \in Addrs, NEW l \in Listeners, Accept(c, a, l)
        PROVE  HR!Begin(c)
    <3>1. \A b \in Addrs : hellos[b] # c
      BY <2>1, <2>2 DEF NoLeak, Keys, Undropped, Accept, Busy
    <3>2. c \notin heldBar
      BY <2>1, <3>1 DEF heldBar, TypeOK
    <3>3. heldBar' = heldBar
      BY <2>1, <2>2, <3>1 DEF heldBar, TypeOK, Accept
    <3>4. saidBar' = [saidBar EXCEPT ![c] = "nothing"]
      BY <2>1, <2>2 DEF saidBar, TypeOK, Accept, NoReport, Unavailable
    <3> QED
      BY <3>2, <3>3, <3>4 DEF HR!Begin
  <2>3. ASSUME NEW c \in Conns, GetConfigForClient(c) PROVE HR!Record(c)
    <3>1. saidBar' = saidBar
      BY <2>3 DEF GetConfigForClient, saidBar
    <3>2. CASE Full
      <4>1. heldBar' = {c}
        BY <2>1, <2>3, <3>2 DEF GetConfigForClient, put, heldBar, TypeOK
      <4> QED
        BY <3>1, <4>1 DEF HR!Record
    <3>3. CASE ~Full
      <4>1. hellos[remote[c]] \in {c, NoHello}
        BY <2>3, EntryIsOwn DEF Busy, GetConfigForClient
      <4>2. heldBar' = heldBar \cup {c}
        BY <2>1, <2>3, <3>3, <4>1 DEF GetConfigForClient, put, heldBar, TypeOK
      <4> QED
        BY <3>1, <4>2 DEF HR!Record
    <3> QED
      BY <3>2, <3>3
  <2>4. ASSUME NEW c \in Conns, Hijack(c) \/ ConnStateClosed(c) PROVE HR!Forget(c)
    <3>1. hellos[remote[c]] \in {c, NoHello}
      BY <2>4, EntryIsOwn DEF Busy, Hijack, ConnStateClosed
    <3>2. heldBar' = heldBar \ {c}
      BY <2>1, <2>4, <3>1 DEF Hijack, ConnStateClosed, drop, heldBar, TypeOK
    <3>3. saidBar' = saidBar
      BY <2>4 DEF Hijack, ConnStateClosed, saidBar
    <3> QED
      BY <3>2, <3>3 DEF HR!Forget
  <2>5. ASSUME NEW c \in Conns, handshake(c) PROVE HR!Report(c)
    <3>1. hellos[remote[c]] \in {c, NoHello}
      BY <2>5, EntryIsOwn DEF Busy, handshake
    <3>2. heldBar' = heldBar
      BY <2>5 DEF handshake, heldBar
    <3>3. c \in heldBar <=> hellos[remote[c]] = c
      BY DEF heldBar
    <3>4. saidBar' = [saidBar EXCEPT ![c] = IF c \in heldBar THEN "own" ELSE "unavailable"]
      BY <2>1, <2>5, <3>1, <3>3
      DEF handshake, get, saidBar, TypeOK, NoReport, Unavailable
    <3> QED
      BY <3>2, <3>4 DEF HR!Report
  <2>6. CASE UNCHANGED <<hellos, remote, report>>
    BY <2>6 DEF HR!vars, heldBar, saidBar
  <2> QED
    BY <2>2, <2>3, <2>4, <2>5, <2>6
    DEF Next, HR!Next, HandshakeDone, HandshakeFail, StartRequest, HijackedClose,
        CloseTransport, vars
<1> QED
  BY Invariance, OwnHelloReported, <1>1, <1>2, PTL DEF Spec, HR!Spec

=============================================================================
