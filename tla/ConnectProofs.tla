---------------------------- MODULE ConnectProofs ----------------------------
(***************************************************************************)
(* Theorems about the connections to service abilities of module Connect,  *)
(* for every set of clients, services and bundles, every number of calls   *)
(* and crashes, callers that wait and callers that do not: the records     *)
(* stay well typed, an ability has one service record and a client process *)
(* one connection to it, and the service uses no record it has deleted.    *)
(***************************************************************************)
EXTENDS Connect, FiniteSetTheorems, SequenceTheorems, WellFoundedInduction, TLAPS

-----------------------------------------------------------------------------
(* The invariant.                                                          *)

Fields == {"rec", "app", "lastToken", "dangling", "reread", "proc", "box", "status"}

ServiceState == {"INACTIVE", "INITIAL"}

ServiceMessage ==
    [type : {"init", "exit", "quit"}]
    \cup [type : {"transact"}, token : Token, ability : Ability, state : ServiceState]
    \cup [type : {"connect", "disconnect"}, token : Token]

ServiceProcess(q) ==
    /\ DOMAIN q = {"bundle", "phase", "watched", "inited", "inbox", "hosted"}
    /\ q.bundle \in Bundle
    /\ q.inbox \in Seq(ServiceMessage)
    /\ TokenMap(q.hosted, BOOLEAN)

Typed(s) ==
    /\ DOMAIN s = Fields
    /\ TokenMap(s.rec, ServiceType)
    /\ TokenMap(s.app, AppType)
    /\ s.lastToken \in Nat
    /\ DOMAIN s.proc \subseteq Token
    /\ \A p \in DOMAIN s.proc : ServiceProcess(s.proc[p])
    /\ DOMAIN s.box \subseteq Client

\* The tokens of the records have been drawn.
Drawn(s) ==
    /\ \A t \in DOMAIN s.rec : t <= s.lastToken
    /\ \A i \in DOMAIN s.app : i <= s.lastToken

\* An ability has one service record, a client one connection to it.
OneEach(s) ==
    /\ \A t, u \in DOMAIN s.rec : s.rec[t].ability = s.rec[u].ability => t = u
    /\ \A t \in DOMAIN s.rec : \A q, r \in s.rec[t].conns : q.client = r.client => q = r

\* A service points to the record of a process of its bundle, or to none.
Placed(s) ==
    \A t \in DOMAIN s.rec : s.rec[t].app # 0 =>
       /\ s.rec[t].app \in DOMAIN s.app
       /\ s.app[s.rec[t].app].bundle = BundleOf[s.rec[t].ability]

SInv(s) ==
    /\ Typed(s)
    /\ s.dangling = FALSE /\ s.reread \in BOOLEAN
    /\ Drawn(s)
    /\ OneEach(s)
    /\ Placed(s)
    /\ PendingListed(s)

ServiceRequest ==
    [id : {"start", "stop"}, service : Ability]
    \cup [id : {"connect"}, client : Client, token : Nat, conn : Conn, service : Ability]
    \cup [id : {"disconnect"}, client : Client, token : Nat]
    \cup [id : {"connectDone", "disconnectDone"}, token : Token]
    \cup [id : {"attach"}, proc : Token]
    \cup [id : {"done"}, token : Token, state : ServiceState]
    \cup [id : {"restart"}, bundle : Bundle, proc : Token]
    \cup [id : {"clientDied"}, client : Client]

\* What the callers and the queue hold.
CallersTyped ==
    /\ amsQ \in Seq(ServiceRequest)
    /\ lib \in [Client -> [store : SUBSET Conn, stub : Conn \cup {None},
                           clearing : Conn \cup {None}, corrupt : BOOLEAN]]
    /\ view \in [Client -> [Conn -> [told : {"idle", "asked", "connected"},
                                     service : Ability]]]

IInv == SInv(State) /\ CallersTyped

-----------------------------------------------------------------------------
(* Steps on a part of the state.                                           *)

\* r has every field of s outside F.
Only(s, r, F) == DOMAIN r = Fields /\ \A f \in Fields \ F : r[f] = s[f]

\* r has the same services in the same processes as s.
Kept(s, r) ==
    /\ r.app = s.app /\ r.lastToken = s.lastToken
    /\ DOMAIN r.rec = DOMAIN s.rec
    /\ \A t \in DOMAIN s.rec :
          r.rec[t].ability = s.rec[t].ability /\ r.rec[t].app = s.rec[t].app

\* r has the very records of s.
SameRecords(s, r) == r.rec = s.rec /\ r.app = s.app /\ r.lastToken = s.lastToken

LEMMA SameKept == ASSUME NEW s, NEW r, SameRecords(s, r) PROVE Kept(s, r)
BY DEF SameRecords, Kept

LEMMA KeptTransitive ==
    ASSUME NEW s, NEW r, NEW u, Kept(s, r), Kept(r, u)
    PROVE  Kept(s, u)
BY DEF Kept

LEMMA BoxStep ==
    ASSUME NEW s, SInv(s), NEW r, Only(s, r, {"box", "status"}), DOMAIN r.box \subseteq Client
    PROVE  SInv(r)
<1>1. /\ DOMAIN r = Fields /\ r.rec = s.rec /\ r.app = s.app /\ r.proc = s.proc
      /\ r.lastToken = s.lastToken /\ r.dangling = s.dangling /\ r.reread = s.reread
  BY DEF Only, Fields
<1>. QED
  BY <1>1 DEF SInv, Typed, Drawn, OneEach, Placed, PendingListed

LEMMA StatusKeeps ==
    ASSUME NEW s, SInv(s), NEW x
    PROVE  SInv([s EXCEPT !.status = x]) /\ SameRecords(s, [s EXCEPT !.status = x])
<1>. DEFINE r == [s EXCEPT !.status = x]
<1>1. Only(s, r, {"box", "status"}) /\ r.box = s.box
  BY DEF SInv, Typed, Only, Fields
<1>. HIDE DEF r
<1>2. SInv(r) /\ SameRecords(s, r)
  BY <1>1, BoxStep DEF SInv, Typed, SameRecords, Only, Fields
<1>. QED
  BY <1>2 DEF r

LEMMA ProcStep ==
    ASSUME NEW s, SInv(s), NEW r, Only(s, r, {"proc", "status"}),
           DOMAIN r.proc \subseteq Token, \A p \in DOMAIN r.proc : ServiceProcess(r.proc[p])
    PROVE  SInv(r)
<1>1. /\ DOMAIN r = Fields /\ r.rec = s.rec /\ r.app = s.app /\ r.box = s.box
      /\ r.lastToken = s.lastToken /\ r.dangling = s.dangling /\ r.reread = s.reread
  BY DEF Only, Fields
<1>. QED
  BY <1>1 DEF SInv, Typed, Drawn, OneEach, Placed, PendingListed

\* Records that keep their ability and their process.
LEMMA RecordsStep ==
    ASSUME NEW s, SInv(s), NEW r, Only(s, r, {"rec", "status"}),
           DOMAIN r.rec = DOMAIN s.rec,
           \A t \in DOMAIN s.rec :
              /\ r.rec[t] \in ServiceType
              /\ r.rec[t].ability = s.rec[t].ability /\ r.rec[t].app = s.rec[t].app
              /\ \A p, q \in r.rec[t].conns : p.client = q.client => p = q
    PROVE  SInv(r)
<1>1. /\ DOMAIN r = Fields /\ r.app = s.app /\ r.box = s.box /\ r.proc = s.proc
      /\ r.lastToken = s.lastToken /\ r.dangling = s.dangling /\ r.reread = s.reread
  BY DEF Only, Fields
<1>2. Typed(r)
  BY <1>1 DEF SInv, Typed, TokenMap
<1>3. Drawn(r) /\ OneEach(r)
  BY <1>1 DEF SInv, Drawn, OneEach
<1>4. Placed(r) /\ PendingListed(r)
  BY <1>1 DEF SInv, Placed, PendingListed
<1>. QED
  BY <1>1, <1>2, <1>3, <1>4 DEF SInv

LEMMA RecordStep ==
    ASSUME NEW s, SInv(s), NEW t \in DOMAIN s.rec, NEW y \in ServiceType,
           y.ability = s.rec[t].ability, y.app = s.rec[t].app,
           \A p, q \in y.conns : p.client = q.client => p = q,
           NEW r, Only(s, r, {"rec", "status"}), r.rec = [s.rec EXCEPT ![t] = y]
    PROVE  SInv(r) /\ Kept(s, r)
<1>1. \A u \in DOMAIN s.rec : s.rec[u] \in ServiceType
  BY DEF SInv, Typed, TokenMap
<1>2. \A u \in DOMAIN s.rec : \A p, q \in s.rec[u].conns : p.client = q.client => p = q
  BY DEF SInv, OneEach
<1>3. DOMAIN r.rec = DOMAIN s.rec /\ \A u \in DOMAIN s.rec : r.rec[u] = IF u = t THEN y ELSE s.rec[u]
  OBVIOUS
<1>4. Kept(s, r)
  BY <1>3 DEF Only, Fields, Kept
<1>. QED
  BY <1>1, <1>2, <1>3, <1>4, RecordsStep

\* The record of a service.
LEMMA ServiceRecord ==
    ASSUME NEW s, SInv(s), NEW t \in DOMAIN s.rec
    PROVE  /\ s.rec[t] \in ServiceType /\ t \in Token /\ s.rec[t].app \in Nat
           /\ s.rec[t].ability \in Ability /\ s.rec[t].app \in DOMAIN s.app \cup {0}
           /\ s.rec[t].conns \subseteq ConnType
           /\ \A p, q \in s.rec[t].conns : p.client = q.client => p = q
           /\ DOMAIN s = Fields
BY DEF SInv, Typed, TokenMap, OneEach, Placed, ServiceType

LEMMA SetConnectStatusKeeps ==
    ASSUME NEW s, SInv(s), NEW t \in DOMAIN s.rec, NEW x \in ConnectStatus
    PROVE  SInv(SetConnectStatus(s, t, x)) /\ Kept(s, SetConnectStatus(s, t, x))
<1>. DEFINE y == [s.rec[t] EXCEPT !.connect = x]
            r == SetConnectStatus(s, t, x)
<1>1. s.rec[t] \in ServiceType /\ DOMAIN s = Fields
      /\ \A p, q \in s.rec[t].conns : p.client = q.client => p = q
  BY ServiceRecord
<1>2. y \in ServiceType /\ y.ability = s.rec[t].ability /\ y.app = s.rec[t].app
      /\ y.conns = s.rec[t].conns
  BY <1>1 DEF ServiceType
<1>3. Only(s, r, {"rec", "status"}) /\ r.rec = [s.rec EXCEPT ![t] = y]
  BY <1>1 DEF Only, Fields, SetConnectStatus
<1>. HIDE DEF y, r
<1>4. SInv(r) /\ Kept(s, r)
  BY <1>1, <1>2, <1>3, RecordStep
<1>. QED
  BY <1>4 DEF r

LEMMA SetConnsKeeps ==
    ASSUME NEW s, SInv(s), NEW t \in DOMAIN s.rec, NEW x \in SUBSET ConnType,
           \A p, q \in x : p.client = q.client => p = q
    PROVE  SInv([s EXCEPT !.rec[t].conns = x]) /\ Kept(s, [s EXCEPT !.rec[t].conns = x])
<1>. DEFINE y == [s.rec[t] EXCEPT !.conns = x]
            r == [s EXCEPT !.rec[t].conns = x]
<1>1. s.rec[t] \in ServiceType /\ DOMAIN s = Fields
  BY ServiceRecord
<1>2. y \in ServiceType /\ y.ability = s.rec[t].ability /\ y.app = s.rec[t].app
      /\ y.conns = x
  BY <1>1 DEF ServiceType
<1>3. Only(s, r, {"rec", "status"}) /\ r.rec = [s.rec EXCEPT ![t] = y]
  BY <1>1 DEF Only, Fields
<1>. HIDE DEF y, r
<1>4. SInv(r) /\ Kept(s, r)
  BY <1>1, <1>2, <1>3, RecordStep
<1>. QED
  BY <1>4 DEF r

LEMMA WithoutConnsKeeps ==
    ASSUME NEW s, SInv(s), NEW t \in DOMAIN s.rec, NEW gone
    PROVE  SInv(WithoutConns(s, t, gone)) /\ Kept(s, WithoutConns(s, t, gone))
<1>. DEFINE x == s.rec[t].conns \ gone
<1>1. x \in SUBSET ConnType /\ \A p, q \in x : p.client = q.client => p = q
  BY ServiceRecord
<1>2. WithoutConns(s, t, gone) = [s EXCEPT !.rec[t].conns = x]
  BY DEF WithoutConns
<1>. HIDE DEF x
<1>3. SInv([s EXCEPT !.rec[t].conns = x]) /\ Kept(s, [s EXCEPT !.rec[t].conns = x])
  BY <1>1, SetConnsKeeps
<1>. QED
  BY <1>2, <1>3


-----------------------------------------------------------------------------
(* Sets of tokens.                                                         *)

LEMMA Least ==
    ASSUME NEW S \in SUBSET Nat, S # {}
    PROVE  \E m \in S : \A x \in S : m <= x
<1>. DEFINE L == OpToRel(<, Nat)
<1>1. PICK m \in S : \A x \in S : ~(<<x, m>> \in L)
  <2>. HIDE DEF L
  <2>1. IsWellFoundedOn(L, Nat)
    BY NatLessThanWellFounded DEF L
  <2>. QED
    BY <2>1, WFMin
<1>2. \A x, y \in Nat : x < y => <<x, y>> \in L
  BY DEF OpToRel
<1>3. \A x \in S : x \in Nat
  OBVIOUS
<1>. HIDE DEF L
<1>4. ASSUME NEW x \in S PROVE m <= x
  <2>1. x \in Nat /\ m \in Nat
    BY <1>3
  <2>2. ~(x < m)
    BY <1>1, <1>2, <2>1
  <2>. QED
    BY <2>1, <2>2
<1>. QED
  BY <1>4

LEMMA Greatest ==
    ASSUME NEW n \in Nat, NEW S \in SUBSET (0..n), S # {}
    PROVE  \E m \in S : \A x \in S : x <= m
<1>. DEFINE D == {n - x : x \in S}
<1>0. \A x \in S : x \in Nat /\ x <= n
  OBVIOUS
<1>1. D \in SUBSET Nat /\ D # {}
  <2>1. \A x \in S : n - x \in Nat
    BY <1>0
  <2>. QED
    BY <2>1
<1>2. PICK d \in D : \A x \in D : d <= x
  <2>. HIDE DEF D
  <2>. QED
    BY <1>1, Least
<1>3. PICK m \in S : d = n - m
  OBVIOUS
<1>4. ASSUME NEW x \in S PROVE x <= m
  <2>1. n - m <= n - x
    BY <1>2, <1>3
  <2>. QED
    BY <1>0, <2>1
<1>. QED
  BY <1>4

\* FirstOf: the least token, or 0.
LEMMA FirstOfTokens ==
    ASSUME NEW S \in SUBSET Token
    PROVE  /\ FirstOf(S) = 0 <=> S = {}
           /\ FirstOf(S) # 0 => FirstOf(S) \in S
<1>1. CASE S = {}
  BY <1>1 DEF FirstOf
<1>2. CASE S # {}
  <2>1. \E m \in S : \A x \in S : m <= x
    BY <1>2, Least DEF Token
  <2>2. FirstOf(S) = CHOOSE m \in S : \A x \in S : m <= x
    BY <1>2 DEF FirstOf, Min
  <2>3. FirstOf(S) \in S
    BY <2>1, <2>2
  <2>. QED
    BY <1>2, <2>3 DEF Token
<1>. QED
  BY <1>1, <1>2

\* InOrder: a sequence of elements of the set.
LEMMA InOrderElements ==
    ASSUME NEW n \in Nat, NEW S \in SUBSET (0..n)
    PROVE  InOrder(S) \in Seq(S)
<1>. DEFINE Below(t) == {u \in S : u < t}
<1>0. \A x \in S : x \in Nat
  OBVIOUS
<1>1. /\ IsFiniteSet(S) /\ Cardinality(S) \in Nat
      /\ \A t : IsFiniteSet(Below(t)) /\ Cardinality(Below(t)) \in Nat
  <2>1. IsFiniteSet(0..n)
    BY FS_Interval
  <2>2. \A T \in SUBSET (0..n) : IsFiniteSet(T) /\ Cardinality(T) \in Nat
    BY <2>1, FS_Subset, FS_CardinalityType
  <2>. QED
    BY <2>2
<1>2. ASSUME NEW k \in Nat, k < Cardinality(S)
      PROVE  \E t \in S : Cardinality(Below(t)) = k
  <2>. DEFINE T == {t \in S : Cardinality(Below(t)) >= k}
  <2>1. S # {}
    BY <1>1, <1>2, FS_EmptySet
  <2>2. PICK m \in S : \A x \in S : x <= m
    BY <2>1, Greatest
  <2>3. Cardinality(Below(m)) = Cardinality(S) - 1
    <3>1. Below(m) = S \ {m}
      <4>1. \A x \in S : x < m <=> x # m
        BY <1>0, <2>2
      <4>. QED
        BY <4>1
    <3>. QED
      BY <1>1, <3>1, FS_RemoveElement
  <2>4. m \in T
    BY <1>1, <1>2, <2>3
  <2>5. PICK t \in T : \A x \in T : t <= x
    <3>1. T \in SUBSET Nat /\ T # {}
      BY <1>0, <2>4
    <3>. HIDE DEF T
    <3>. QED
      BY <3>1, Least
  <2>6. ASSUME Cardinality(Below(t)) # k PROVE FALSE
    <3>0. t \in S /\ Cardinality(Below(t)) > k
      BY <1>1, <2>5, <2>6
    <3>1. Below(t) # {} /\ Below(t) \in SUBSET (0..n)
      <4>1. Cardinality(Below(t)) # 0
        BY <1>1, <3>0
      <4>. HIDE DEF T
      <4>. QED
        BY <4>1, FS_EmptySet
    <3>2. PICK v \in Below(t) : \A x \in Below(t) : x <= v
      <4>. HIDE DEF Below
      <4>. QED
        BY <3>1, Greatest
    <3>3. Below(v) = Below(t) \ {v}
      <4>1. \A x \in S : x < v <=> x < t /\ x # v
        BY <1>0, <3>0, <3>2
      <4>. QED
        BY <4>1
    <3>4. Cardinality(Below(v)) = Cardinality(Below(t)) - 1
      <4>1. IsFiniteSet(Below(t)) /\ v \in Below(t)
        BY <1>1, <3>2
      <4>. HIDE DEF Below
      <4>. QED
        BY <3>3, <4>1, FS_RemoveElement
    <3>5. v \in T
      <4>1. v \in S
        BY <3>2
      <4>2. Cardinality(Below(v)) >= k
        <5>. HIDE DEF Below, T
        <5>. QED
          BY <1>1, <3>0, <3>4
      <4>. HIDE DEF Below
      <4>. QED
        BY <4>1, <4>2
    <3>. QED
      BY <1>0, <2>5, <3>0, <3>2, <3>5
  <2>. QED
    BY <2>5, <2>6
<1>3. ASSUME NEW i \in 1..Cardinality(S) PROVE InOrder(S)[i] \in S
  <2>1. i - 1 \in Nat /\ i - 1 < Cardinality(S)
    BY <1>1
  <2>2. \E t \in S : Cardinality(Below(t)) = i - 1
    BY <1>2, <2>1
  <2>. QED
    BY <2>2 DEF InOrder
<1>4. InOrder(S) = [i \in 1..Cardinality(S) |-> InOrder(S)[i]]
  BY DEF InOrder
<1>. HIDE DEF Below
<1>. QED
  BY <1>1, <1>3, <1>4, IsASeq


-----------------------------------------------------------------------------
(* Messages to the processes and the clients.                              *)

LEMMA SendKeeps ==
    ASSUME NEW s, SInv(s), NEW id \in DOMAIN s.app, NEW m \in ServiceMessage
    PROVE  SInv(Send(s, id, m)) /\ SameRecords(s, Send(s, id, m))
<1>. DEFINE r == Send(s, id, m)
            y == [s.proc[id] EXCEPT !.inbox = Append(@, m)]
<1>1. DOMAIN s = Fields /\ DOMAIN s.proc \subseteq Token
      /\ \A p \in DOMAIN s.proc : ServiceProcess(s.proc[p])
  BY DEF SInv, Typed
<1>2. CASE s.app[id].attached /\ Alive(s, id)
  <2>1. id \in DOMAIN s.proc
    BY <1>2 DEF Alive
  <2>2. ServiceProcess(y)
    <3>1. ServiceProcess(s.proc[id])
      BY <1>1, <2>1
    <3>2. Append(s.proc[id].inbox, m) \in Seq(ServiceMessage)
      BY <3>1 DEF ServiceProcess
    <3>. QED
      BY <3>1, <3>2 DEF ServiceProcess
  <2>3. Only(s, r, {"proc", "status"}) /\ r.proc = [s.proc EXCEPT ![id] = y]
    BY <1>1, <1>2 DEF Only, Fields, Send
  <2>. HIDE DEF y, r
  <2>4. /\ DOMAIN r.proc = DOMAIN s.proc
        /\ \A p \in DOMAIN s.proc : r.proc[p] = IF p = id THEN y ELSE s.proc[p]
    BY <2>3
  <2>5. SInv(r)
    BY <1>1, <2>2, <2>3, <2>4, ProcStep
  <2>6. SameRecords(s, r)
    BY <2>3 DEF Only, Fields, SameRecords
  <2>. QED
    BY <2>5, <2>6 DEF r
<1>3. CASE ~(s.app[id].attached /\ Alive(s, id))
  <2>1. r = [s EXCEPT !.status = "transact"]
    BY <1>3 DEF Send
  <2>2. SInv(r)
    BY <2>1, StatusKeeps
  <2>3. SameRecords(s, r)
    BY <1>1, <2>1 DEF SameRecords, Fields
  <2>. QED
    BY <2>2, <2>3
<1>. QED
  BY <1>2, <1>3

LEMMA CallAppKeeps ==
    ASSUME NEW s, SInv(s), NEW t \in DOMAIN s.rec, NEW m \in ServiceMessage
    PROVE  SInv(CallApp(s, t, m)) /\ SameRecords(s, CallApp(s, t, m))
<1>1. CASE s.rec[t].app = 0
  <2>1. CallApp(s, t, m) = [s EXCEPT !.status = "transact"]
    <3>1. 0 \notin DOMAIN s.app
      BY DEF SInv, Typed, TokenMap, Token
    <3>. QED
      BY <1>1, <3>1 DEF CallApp
  <2>2. SameRecords(s, [s EXCEPT !.status = "transact"])
    BY DEF SameRecords, SInv, Typed, Fields
  <2>. QED
    BY <2>1, <2>2, StatusKeeps
<1>2. CASE s.rec[t].app # 0
  <2>1. s.rec[t].app \in DOMAIN s.app
    BY <1>2, ServiceRecord
  <2>2. CallApp(s, t, m) = Send(s, s.rec[t].app, m)
    BY <1>2, <2>1 DEF CallApp
  <2>. QED
    BY <2>1, <2>2, SendKeeps
<1>. QED
  BY <1>1, <1>2

LEMMA TransactKeeps ==
    ASSUME NEW s, SInv(s), NEW t \in DOMAIN s.rec, NEW state \in ServiceState
    PROVE  SInv(Transact(s, t, state)) /\ SameRecords(s, Transact(s, t, state))
<1>. DEFINE m == [type |-> "transact", token |-> t, ability |-> s.rec[t].ability, state |-> state]
<1>1. m \in ServiceMessage
  BY ServiceRecord DEF ServiceMessage
<1>2. Transact(s, t, state) = CallApp(s, t, m)
  BY DEF Transact
<1>. HIDE DEF m
<1>. QED
  BY <1>1, <1>2, CallAppKeeps

LEMMA CallServiceKeeps ==
    ASSUME NEW s, SInv(s), NEW t \in DOMAIN s.rec, NEW type \in {"connect", "disconnect"}
    PROVE  SInv(CallService(s, t, type)) /\ SameRecords(s, CallService(s, t, type))
<1>. DEFINE m == [type |-> type, token |-> t]
<1>1. m \in ServiceMessage
  BY ServiceRecord DEF ServiceMessage
<1>2. CallService(s, t, type) = CallApp(s, t, m)
  BY DEF CallService
<1>. HIDE DEF m
<1>. QED
  BY <1>1, <1>2, CallAppKeeps

LEMMA TellAllKeeps ==
    ASSUME NEW s, SInv(s), NEW ts \in SUBSET DOMAIN s.rec, NEW type
    PROVE  SInv(TellAll(s, ts, type)) /\ SameRecords(s, TellAll(s, ts, type))
<1>. DEFINE r == TellAll(s, ts, type)
<1>1. DOMAIN s = Fields /\ DOMAIN s.box \subseteq Client
  BY DEF SInv, Typed
<1>2. \A t \in ts : s.rec[t].app \in DOMAIN s.app \cup {0}
  BY ServiceRecord
<1>3. /\ DOMAIN r = Fields /\ r.rec = s.rec /\ r.app = s.app /\ r.proc = s.proc
      /\ r.lastToken = s.lastToken /\ r.status = s.status /\ r.reread = s.reread
      /\ DOMAIN r.box = DOMAIN s.box
  BY <1>1 DEF Fields, TellAll
<1>4. r.dangling = (s.dangling \/ \E t \in ts : s.rec[t].app \notin DOMAIN s.app \cup {0})
  BY <1>1 DEF Fields, TellAll
<1>. HIDE DEF r
<1>5. r.dangling = FALSE
  <2>1. s.dangling = FALSE
    BY DEF SInv
  <2>. QED
    BY <1>2, <1>4, <2>1
<1>6. Only(s, r, {"box", "status"})
  BY <1>1, <1>3, <1>5 DEF Only, Fields, SInv
<1>7. SInv(r)
  BY <1>1, <1>3, <1>6, BoxStep
<1>. QED
  BY <1>3, <1>7 DEF r, SameRecords

LEMMA TellKeeps ==
    ASSUME NEW s, SInv(s), NEW r, NEW type, NEW a
    PROVE  SInv(Tell(s, r, type, a))
<1>. DEFINE x == Tell(s, r, type, a)
<1>1. Only(s, x, {"box", "status"}) /\ DOMAIN x.box = DOMAIN s.box /\ DOMAIN s.box \subseteq Client
  BY DEF SInv, Typed, Only, Fields, Tell
<1>. HIDE DEF x
<1>2. SInv(x)
  BY <1>1, BoxStep
<1>. QED
  BY <1>2 DEF x


-----------------------------------------------------------------------------
(* The operations of a service's record.                                   *)

LEMMA StopKeeps ==
    ASSUME NEW s, SInv(s), NEW t \in DOMAIN s.rec
    PROVE  SInv(Stop(s, t))
<1>. DEFINE s1 == SetConnectStatus(s, t, "STOPPING")
<1>1. SInv(s1) /\ t \in DOMAIN s1.rec
  BY SetConnectStatusKeeps DEF ConnectStatus, Kept
<1>2. Stop(s, t) = Transact(s1, t, "INITIAL")
  BY DEF Stop
<1>. HIDE DEF s1
<1>. QED
  BY <1>1, <1>2, TransactKeeps DEF ServiceState

\* A connect or disconnect transaction with the status it leaves.
LEMMA CallWithStatusKeeps ==
    ASSUME NEW s, SInv(s), NEW t \in DOMAIN s.rec, NEW x \in ConnectStatus,
           NEW type \in {"connect", "disconnect"}
    PROVE  SInv(CallService(SetConnectStatus(s, t, x), t, type))
<1>. DEFINE s1 == SetConnectStatus(s, t, x)
<1>1. SInv(s1) /\ t \in DOMAIN s1.rec
  BY SetConnectStatusKeeps DEF Kept
<1>. HIDE DEF s1
<1>2. SInv(CallService(s1, t, type))
  BY <1>1, CallServiceKeeps
<1>. QED
  BY <1>2 DEF s1

LEMMA FailKeeps ==
    ASSUME NEW s, SInv(s)
    PROVE  /\ SInv(Fail(s)) /\ SameRecords(s, Fail(s))
           /\ SInv(Succeed(s)) /\ SameRecords(s, Succeed(s))
BY StatusKeeps DEF Fail, Succeed

LEMMA ConnectAbilityDoneKeeps ==
    ASSUME NEW s, SInv(s), NEW t \in DOMAIN s.rec
    PROVE  SInv(ConnectAbilityDone(s, t)) /\ Kept(s, ConnectAbilityDone(s, t))
<1>1. CASE s.rec[t].app = 0
  BY <1>1, FailKeeps, SameKept DEF ConnectAbilityDone
<1>2. CASE s.rec[t].app # 0
  <2>. DEFINE s1 == Succeed(s)
              s2 == TellAll(s1, {t}, "connected")
              x  == {[r EXCEPT !.status = "CONNECTED"] : r \in s2.rec[t].conns}
  <2>1. SInv(s1) /\ SameRecords(s, s1)
    BY FailKeeps
  <2>2. ConnectAbilityDone(s, t) = [s2 EXCEPT !.rec[t].conns = x]
    BY <1>2 DEF ConnectAbilityDone
  <2>3. SInv(s2) /\ SameRecords(s, s2)
    <3>1. {t} \in SUBSET DOMAIN s1.rec
      BY <2>1 DEF SameRecords
    <3>. HIDE DEF s1
    <3>2. SInv(s2) /\ SameRecords(s1, s2)
      BY <2>1, <3>1, TellAllKeeps
    <3>. QED
      BY <2>1, <3>2 DEF SameRecords
  <2>. HIDE DEF s2
  <2>4. /\ t \in DOMAIN s2.rec /\ s2.rec[t].conns \subseteq ConnType
        /\ \A p, q \in s2.rec[t].conns : p.client = q.client => p = q
    <3>1. t \in DOMAIN s2.rec
      BY <2>3 DEF SameRecords
    <3>. QED
      BY <2>3, <3>1, ServiceRecord
  <2>5. x \in SUBSET ConnType
    BY <2>4 DEF ConnType
  <2>6. ASSUME NEW p \in x, NEW q \in x, p.client = q.client PROVE p = q
    <3>1. \A r \in s2.rec[t].conns : [r EXCEPT !.status = "CONNECTED"].client = r.client
      BY <2>4 DEF ConnType
    <3>2. PICK a \in s2.rec[t].conns : p = [a EXCEPT !.status = "CONNECTED"]
      OBVIOUS
    <3>3. PICK b \in s2.rec[t].conns : q = [b EXCEPT !.status = "CONNECTED"]
      OBVIOUS
    <3>4. a.client = b.client
      BY <2>6, <3>1, <3>2, <3>3
    <3>5. a = b
      BY <2>4, <3>4
    <3>. QED
      BY <3>2, <3>3, <3>5
  <2>. HIDE DEF x
  <2>7. /\ SInv([s2 EXCEPT !.rec[t].conns = x])
        /\ Kept(s2, [s2 EXCEPT !.rec[t].conns = x])
    BY <2>3, <2>4, <2>5, <2>6, SetConnsKeeps
  <2>. QED
    BY <2>2, <2>3, <2>7, SameKept, KeptTransitive
<1>. QED
  BY <1>1, <1>2

LEMMA DisconnectAbilityKeeps ==
    ASSUME NEW s, SInv(s), NEW t \in DOMAIN s.rec, NEW c
    PROVE  SInv(DisconnectAbility(s, t, c))
<1>. DEFINE s0 == Succeed(s)
            s1 == WithoutConns(s0, t, GetConnectRecord(s, t, c))
<1>1. SInv(s0) /\ t \in DOMAIN s0.rec
  BY FailKeeps DEF SameRecords
<1>2. SInv(s1) /\ t \in DOMAIN s1.rec
  <2>. HIDE DEF s0
  <2>. QED
    BY <1>1, WithoutConnsKeeps DEF Kept
<1>3. DisconnectAbility(s, t, c) \in
         {Fail(s), s1, CallService(SetConnectStatus(s1, t, "DISCONNECTING"), t, "disconnect")}
  BY DEF DisconnectAbility
<1>. HIDE DEF s1
<1>4. SInv(CallService(SetConnectStatus(s1, t, "DISCONNECTING"), t, "disconnect"))
  BY <1>2, CallWithStatusKeeps DEF ConnectStatus
<1>. QED
  BY <1>2, <1>3, <1>4, FailKeeps

LEMMA DisconnectAbilityDoneKeeps ==
    ASSUME NEW s, SInv(s), NEW t \in DOMAIN s.rec
    PROVE  SInv(DisconnectAbilityDone(s, t))
<1>1. DisconnectAbilityDone(s, t) \in
         {Fail(s), Stop(s, t)}
         \cup {Succeed(SetConnectStatus(s, t, x)) : x \in {"INIT", "DISCONNECT"}}
  BY DEF DisconnectAbilityDone
<1>2. \A x \in {"INIT", "DISCONNECT"} : SInv(Succeed(SetConnectStatus(s, t, x)))
  BY SetConnectStatusKeeps, FailKeeps DEF ConnectStatus
<1>. QED
  BY <1>1, <1>2, FailKeeps, StopKeeps

LEMMA ForceStopKeeps ==
    ASSUME NEW s, SInv(s), NEW t \in DOMAIN s.rec
    PROVE  SInv(ForceStopServiceAbility(s, t))
<1>. DEFINE s1 == [s EXCEPT !.rec[t].forceStop = TRUE]
            y  == [s.rec[t] EXCEPT !.forceStop = TRUE]
<1>1. /\ s.rec[t] \in ServiceType /\ DOMAIN s = Fields
      /\ \A p, q \in s.rec[t].conns : p.client = q.client => p = q
  BY ServiceRecord
<1>2. y \in ServiceType /\ y.ability = s.rec[t].ability /\ y.app = s.rec[t].app
      /\ y.conns = s.rec[t].conns
  BY <1>1 DEF ServiceType
<1>3. Only(s, s1, {"rec", "status"}) /\ s1.rec = [s.rec EXCEPT ![t] = y]
  BY <1>1 DEF Only, Fields
<1>4. ForceStopServiceAbility(s, t) \in
         {Fail(s), Fail(s1), Stop(s1, t),
          CallService(SetConnectStatus(s1, t, "DISCONNECTING"), t, "disconnect")}
  BY DEF ForceStopServiceAbility
<1>. HIDE DEF y, s1
<1>5. SInv(s1) /\ t \in DOMAIN s1.rec
  BY <1>1, <1>2, <1>3, RecordStep
<1>6. SInv(CallService(SetConnectStatus(s1, t, "DISCONNECTING"), t, "disconnect"))
  BY <1>5, CallWithStatusKeeps DEF ConnectStatus
<1>. QED
  BY <1>4, <1>5, <1>6, FailKeeps, StopKeeps

LEMMA StopAbilityDoneKeeps ==
    ASSUME NEW s, SInv(s), NEW t \in DOMAIN s.rec
    PROVE  SInv(StopAbilityDone(s, t)) /\ Kept(s, StopAbilityDone(s, t))
<1>1. CASE s.rec[t].app = 0
  BY <1>1, FailKeeps, SameKept DEF StopAbilityDone
<1>2. CASE s.rec[t].app # 0
  <2>. DEFINE s1 == Succeed(s)
              s2 == SetConnectStatus(s1, t, "STOPPED")
  <2>1. SInv(s1) /\ SameRecords(s, s1) /\ t \in DOMAIN s1.rec
    BY FailKeeps DEF SameRecords
  <2>2. SInv(s2) /\ Kept(s1, s2)
    <3>. HIDE DEF s1
    <3>. QED
      BY <2>1, SetConnectStatusKeeps DEF ConnectStatus
  <2>3. StopAbilityDone(s, t) = TellAll(s2, {t}, "disconnected")
    BY <1>2 DEF StopAbilityDone
  <2>. HIDE DEF s1, s2
  <2>4. {t} \in SUBSET DOMAIN s2.rec
    BY <2>1, <2>2 DEF Kept
  <2>5. /\ SInv(TellAll(s2, {t}, "disconnected"))
        /\ SameRecords(s2, TellAll(s2, {t}, "disconnected"))
    BY <2>2, <2>4, TellAllKeeps
  <2>. QED
    BY <2>1, <2>2, <2>3, <2>5, SameKept, KeptTransitive
<1>. QED
  BY <1>1, <1>2

-----------------------------------------------------------------------------
(* Records and processes that come and go.                                 *)

LEMMA AppOfBundle ==
    ASSUME NEW s, SInv(s), NEW b
    PROVE  /\ AppOf(s, b) \in DOMAIN s.app \cup {0}
           /\ AppOf(s, b) # 0 => AppOf(s, b) \in AppsOf(s, b)
           /\ AppOf(s, b) # 0 => s.app[AppOf(s, b)].bundle = b
<1>1. AppOf(s, b) # 0 => AppOf(s, b) \in AppsOf(s, b)
  BY DEF AppOf
<1>. QED
  BY <1>1 DEF AppsOf

\* The next token is one nobody has.
LEMMA NextToken ==
    ASSUME NEW s, SInv(s)
    PROVE  /\ s.lastToken \in Nat /\ s.lastToken + 1 \in Token
           /\ s.lastToken + 1 \notin DOMAIN s.rec /\ s.lastToken + 1 \notin DOMAIN s.app
           /\ \A t \in DOMAIN s.rec : t \in Nat /\ t <= s.lastToken + 1
           /\ \A i \in DOMAIN s.app : i \in Nat /\ i <= s.lastToken + 1
<1>1. s.lastToken \in Nat /\ TokenMap(s.rec, ServiceType) /\ TokenMap(s.app, AppType)
  BY DEF SInv, Typed
<1>2. /\ \A t \in DOMAIN s.rec : t \in Nat /\ t <= s.lastToken
      /\ \A i \in DOMAIN s.app : i \in Nat /\ i <= s.lastToken
  BY <1>1 DEF SInv, Drawn, TokenMap, Token
<1>. QED
  BY <1>1, <1>2 DEF Token

LEMMA StartAppProcessKeeps ==
    ASSUME NEW s, SInv(s), NEW b \in Bundle, NEW fails
    PROVE  /\ SInv(StartAppProcess(s, b, fails))
           /\ StartAppProcess(s, b, fails).rec = s.rec
<1>. DEFINE id == s.lastToken + 1
            r == StartAppProcess(s, b, fails)
            slot == NewApp(b)
            new == NewProcess(b)
<1>1. DOMAIN s = Fields /\ TokenMap(s.app, AppType) /\ DOMAIN s.proc \subseteq Token
      /\ \A p \in DOMAIN s.proc : ServiceProcess(s.proc[p])
  BY DEF SInv, Typed
<1>2. /\ DOMAIN r = Fields /\ r.lastToken = id /\ r.rec = s.rec /\ r.box = s.box
      /\ r.dangling = s.dangling /\ r.reread = s.reread
      /\ \/ r.app = s.app /\ r.proc = s.proc
         \/ r.app = With(s.app, id, slot) /\ r.proc = With(s.proc, id, new)
  BY <1>1 DEF StartAppProcess, Fields
<1>3. slot \in AppType /\ slot.pending = 0
  BY DEF NewApp, AppType
<1>4. ServiceProcess(new)
  <2>1. new.inbox \in Seq(ServiceMessage) /\ TokenMap(new.hosted, BOOLEAN)
    BY DEF NewProcess, TokenMap
  <2>. QED
    BY <2>1 DEF NewProcess, ServiceProcess
<1>5. /\ id \in Token /\ id \in Nat /\ id \notin DOMAIN s.app
      /\ \A t \in DOMAIN s.rec : t \in Nat /\ t <= id
      /\ \A i \in DOMAIN s.app : i \in Nat /\ i <= id
  BY NextToken DEF Token
<1>. HIDE DEF id, r, slot, new
<1>6. /\ TokenMap(r.app, AppType)
      /\ DOMAIN s.app \subseteq DOMAIN r.app
      /\ \A i \in DOMAIN s.app : r.app[i] = s.app[i]
      /\ \A i \in DOMAIN r.app : i \in DOMAIN s.app \/ (i = id /\ r.app[i].pending = 0)
  <2>1. CASE r.app = s.app
    BY <1>1, <2>1
  <2>2. CASE r.app = With(s.app, id, slot)
    BY <1>1, <1>3, <1>5, <2>2 DEF With, TokenMap
  <2>. QED
    BY <1>2, <2>1, <2>2
<1>7. /\ DOMAIN r.proc \subseteq Token
      /\ \A p \in DOMAIN r.proc : ServiceProcess(r.proc[p])
  BY <1>1, <1>2, <1>4, <1>5 DEF With
<1>8. Typed(r)
  BY <1>2, <1>5, <1>6, <1>7 DEF Typed, SInv
<1>9. Drawn(r)
  <2>1. \A t \in DOMAIN r.rec : t <= r.lastToken
    BY <1>2, <1>5
  <2>2. ASSUME NEW i \in DOMAIN r.app PROVE i <= r.lastToken
    <3>1. i \in DOMAIN s.app \/ i = id
      BY <1>6
    <3>2. i <= id
      BY <1>5, <3>1
    <3>. QED
      BY <1>2, <3>2
  <2>. QED
    BY <2>1, <2>2 DEF Drawn
<1>10. OneEach(r) /\ Placed(r)
  BY <1>2, <1>6 DEF OneEach, Placed, SInv
<1>11. PendingListed(r)
  BY <1>2, <1>6 DEF PendingListed, SInv
<1>12. SInv(r)
  BY <1>2, <1>8, <1>9, <1>10, <1>11 DEF SInv
<1>. QED
  BY <1>2, <1>12 DEF r

\* A service without a process waits in the pending slot of one of its bundle.
LEMMA WaitKeeps ==
    ASSUME NEW s, SInv(s), NEW t \in DOMAIN s.rec, s.rec[t].app = 0,
           NEW id \in DOMAIN s.app, s.app[id].bundle = BundleOf[s.rec[t].ability]
    PROVE  /\ SInv([s EXCEPT !.rec[t].app = id, !.app[id].pending = t])
           /\ DOMAIN [s EXCEPT !.rec[t].app = id, !.app[id].pending = t].rec = DOMAIN s.rec
<1>. DEFINE r == [s EXCEPT !.rec[t].app = id, !.app[id].pending = t]
            x == [s.rec[t] EXCEPT !.app = id]
            y == [s.app[id] EXCEPT !.pending = t]
<1>1. DOMAIN s = Fields /\ TokenMap(s.rec, ServiceType) /\ TokenMap(s.app, AppType)
  BY DEF SInv, Typed
<1>2. s.rec[t] \in ServiceType /\ s.app[id] \in AppType /\ id \in Nat /\ id # 0
      /\ t \in Nat /\ t # 0
  BY <1>1 DEF TokenMap, Token
<1>3. /\ DOMAIN r = Fields /\ r.lastToken = s.lastToken /\ r.proc = s.proc /\ r.box = s.box
      /\ r.dangling = s.dangling /\ r.reread = s.reread
      /\ r.rec = [s.rec EXCEPT ![t] = x] /\ r.app = [s.app EXCEPT ![id] = y]
  BY <1>1 DEF Fields
<1>4. /\ x \in ServiceType /\ x.app = id /\ x.ability = s.rec[t].ability
      /\ x.conns = s.rec[t].conns
  BY <1>2 DEF ServiceType
<1>5. y \in AppType /\ y.bundle = s.app[id].bundle /\ y.pending = t
  BY <1>2 DEF AppType
<1>. HIDE DEF r, x, y
<1>6. /\ DOMAIN r.rec = DOMAIN s.rec
      /\ \A u \in DOMAIN s.rec : r.rec[u] = IF u = t THEN x ELSE s.rec[u]
      /\ DOMAIN r.app = DOMAIN s.app
      /\ \A i \in DOMAIN s.app : r.app[i] = IF i = id THEN y ELSE s.app[i]
  BY <1>3
<1>7. Typed(r)
  BY <1>1, <1>3, <1>4, <1>5, <1>6 DEF Typed, SInv, TokenMap
<1>8. Drawn(r)
  BY <1>3, <1>6 DEF Drawn, SInv
<1>9. OneEach(r)
  BY <1>4, <1>6 DEF OneEach, SInv
<1>10. Placed(r)
  BY <1>4, <1>5, <1>6 DEF Placed, SInv
<1>11. PendingListed(r)
  <2>1. \A i \in DOMAIN s.app : s.app[i].pending # t
    BY <1>1, <1>2 DEF PendingListed, SInv, TokenMap, Token
  <2>. QED
    BY <1>4, <1>5, <1>6, <2>1 DEF PendingListed, SInv
<1>12. SInv(r)
  BY <1>3, <1>7, <1>8, <1>9, <1>10, <1>11 DEF SInv
<1>. QED
  BY <1>6, <1>12 DEF r

LEMMA StartServiceProcessKeeps ==
    ASSUME NEW s, SInv(s), NEW t \in DOMAIN s.rec, NEW fails
    PROVE  /\ SInv(StartServiceProcess(s, t, fails))
           /\ DOMAIN StartServiceProcess(s, t, fails).rec = DOMAIN s.rec
<1>. DEFINE b  == BundleOf[s.rec[t].ability]
            s1 == StartAppProcess(s, b, fails)
            id == AppOf(s1, b)
<1>1. CASE s.rec[t].app # 0
  <2>1. StartServiceProcess(s, t, fails) = Transact(s, t, "INACTIVE")
    BY <1>1 DEF StartServiceProcess
  <2>. QED
    BY <2>1, TransactKeeps DEF ServiceState, SameRecords
<1>2. CASE s.rec[t].app = 0
  <2>1. b \in Bundle
    BY ServiceRecord, BundleAssumption
  <2>2. SInv(s1) /\ s1.rec = s.rec
    BY <2>1, StartAppProcessKeeps
  <2>3. StartServiceProcess(s, t, fails) =
           IF id = 0 THEN s1 ELSE [s1 EXCEPT !.rec[t].app = id, !.app[id].pending = t]
    BY <1>2 DEF StartServiceProcess
  <2>. HIDE DEF s1
  <2>4. CASE id = 0
    BY <2>2, <2>3, <2>4
  <2>5. CASE id # 0
    <3>1. id \in DOMAIN s1.app /\ s1.app[id].bundle = b
      BY <2>2, <2>5, AppOfBundle
    <3>. HIDE DEF id
    <3>2. t \in DOMAIN s1.rec /\ s1.rec[t].app = 0
          /\ s1.app[id].bundle = BundleOf[s1.rec[t].ability]
      BY <1>2, <2>2, <3>1
    <3>3. /\ SInv([s1 EXCEPT !.rec[t].app = id, !.app[id].pending = t])
          /\ DOMAIN [s1 EXCEPT !.rec[t].app = id, !.app[id].pending = t].rec = DOMAIN s1.rec
      BY <2>2, <3>1, <3>2, WaitKeeps
    <3>. QED
      BY <2>2, <2>3, <2>5, <3>3
  <2>. QED
    BY <2>4, <2>5
<1>. QED
  BY <1>1, <1>2

LEMMA DeleteRecordsKeeps ==
    ASSUME NEW s, SInv(s), NEW gone \in SUBSET DOMAIN s.rec
    PROVE  /\ SInv(DeleteRecords(s, gone))
           /\ DeleteRecords(s, gone).rec = Drop(s.rec, gone)
           /\ DOMAIN DeleteRecords(s, gone).app = DOMAIN s.app
           /\ \A i \in DOMAIN s.app : DeleteRecords(s, gone).app[i].bundle = s.app[i].bundle
<1>. DEFINE r == DeleteRecords(s, gone)
            cleared(i) == s.app[i].pending \in gone /\ s.rec[s.app[i].pending].app = i
<1>1. DOMAIN s = Fields /\ TokenMap(s.rec, ServiceType) /\ TokenMap(s.app, AppType)
      /\ s.dangling = FALSE
  BY DEF SInv, Typed
<1>2. /\ DOMAIN r = Fields /\ r.lastToken = s.lastToken /\ r.proc = s.proc /\ r.box = s.box
      /\ r.rec = Drop(s.rec, gone) /\ r.reread = s.reread
      /\ r.app = [i \in DOMAIN s.app |->
                    IF cleared(i) THEN [s.app[i] EXCEPT !.pending = 0] ELSE s.app[i]]
  BY <1>1 DEF DeleteRecords, Fields
<1>3. r.dangling = FALSE
  <2>1. \A t \in gone : s.rec[t].app \in DOMAIN s.app \cup {0}
    BY ServiceRecord
  <2>2. r.dangling = (s.dangling \/ \E t \in gone : s.rec[t].app \notin DOMAIN s.app \cup {0})
    BY <1>1 DEF DeleteRecords, Fields
  <2>. QED
    BY <1>1, <2>1, <2>2
<1>. HIDE DEF r
<1>4. /\ TokenMap(r.rec, ServiceType) /\ DOMAIN r.rec = DOMAIN s.rec \ gone
      /\ \A u \in DOMAIN s.rec \ gone : r.rec[u] = s.rec[u]
  BY <1>1, <1>2 DEF TokenMap, Drop
<1>5. ASSUME NEW i \in DOMAIN s.app
      PROVE  /\ r.app[i] \in AppType /\ r.app[i].bundle = s.app[i].bundle
             /\ r.app[i].pending = IF cleared(i) THEN 0 ELSE s.app[i].pending
  <2>1. s.app[i] \in AppType
    BY <1>1 DEF TokenMap
  <2>2. r.app[i] = IF cleared(i) THEN [s.app[i] EXCEPT !.pending = 0] ELSE s.app[i]
    BY <1>2
  <2>. HIDE DEF cleared
  <2>. QED
    BY <2>1, <2>2 DEF AppType
<1>6. DOMAIN r.app = DOMAIN s.app
  BY <1>2
<1>7. Typed(r)
  BY <1>1, <1>2, <1>4, <1>5, <1>6 DEF Typed, SInv, TokenMap
<1>8. Drawn(r) /\ OneEach(r)
  BY <1>2, <1>4, <1>6 DEF Drawn, OneEach, SInv
<1>9. Placed(r)
  BY <1>4, <1>5, <1>6 DEF Placed, SInv
<1>10. PendingListed(r)
  BY <1>4, <1>5, <1>6 DEF PendingListed, SInv
<1>. QED
  BY <1>2, <1>3, <1>5, <1>6, <1>7, <1>8, <1>9, <1>10 DEF SInv, r

\* An app record goes once no service points to it.
LEMMA RemoveAppsKeeps ==
    ASSUME NEW s, SInv(s), NEW ids, \A t \in DOMAIN s.rec : s.rec[t].app \notin ids
    PROVE  SInv(RemoveApps(s, ids))
<1>. DEFINE r == RemoveApps(s, ids)
<1>1. DOMAIN s = Fields /\ TokenMap(s.app, AppType)
  BY DEF SInv, Typed
<1>2. /\ DOMAIN r = Fields /\ r.rec = s.rec /\ r.lastToken = s.lastToken /\ r.proc = s.proc
      /\ r.box = s.box /\ r.dangling = s.dangling /\ r.reread = s.reread /\ r.app = Drop(s.app, ids)
  BY <1>1 DEF RemoveApps, Fields
<1>. HIDE DEF r
<1>3. /\ TokenMap(r.app, AppType) /\ DOMAIN r.app = DOMAIN s.app \ ids
      /\ \A i \in DOMAIN s.app \ ids : r.app[i] = s.app[i]
  BY <1>1, <1>2 DEF TokenMap, Drop
<1>4. Typed(r) /\ Drawn(r) /\ OneEach(r)
  BY <1>2, <1>3 DEF Typed, SInv, Drawn, OneEach
<1>5. Placed(r) /\ PendingListed(r)
  BY <1>2, <1>3 DEF Placed, PendingListed, SInv
<1>6. SInv(r)
  BY <1>2, <1>4, <1>5 DEF SInv
<1>. QED
  BY <1>6 DEF r

LEMMA FindServiceListed ==
    ASSUME NEW s, SInv(s), NEW a
    PROVE  /\ FindService(s, a) = 0 => \A t \in DOMAIN s.rec : s.rec[t].ability # a
           /\ FindService(s, a) # 0 => FindService(s, a) \in DOMAIN s.rec
<1>. DEFINE S == {t \in DOMAIN s.rec : s.rec[t].ability = a}
<1>1. S \in SUBSET Token
  BY DEF SInv, Typed, TokenMap
<1>2. FindService(s, a) = FirstOf(S)
  BY DEF FindService
<1>3. FirstOf(S) = 0 <=> S = {}
  <2>. HIDE DEF S
  <2>. QED
    BY <1>1, FirstOfTokens
<1>4. FirstOf(S) # 0 => FirstOf(S) \in S
  <2>. HIDE DEF S
  <2>. QED
    BY <1>1, FirstOfTokens
<1>. QED
  BY <1>2, <1>3, <1>4

\* The memory with a record of service a.
WithService(s, a, wait) ==
    [s EXCEPT !.lastToken = s.lastToken + 1,
              !.rec = With(@, s.lastToken + 1, NewService(s, a, wait))]

LEMMA NewServiceKeeps ==
    ASSUME NEW s, SInv(s), NEW a \in Ability, NEW wait \in BOOLEAN, FindService(s, a) = 0
    PROVE  /\ SInv(WithService(s, a, wait))
           /\ s.lastToken + 1 \in DOMAIN WithService(s, a, wait).rec
<1>. DEFINE t == s.lastToken + 1
            new == NewService(s, a, wait)
            r == WithService(s, a, wait)
<1>1. DOMAIN s = Fields /\ TokenMap(s.rec, ServiceType) /\ TokenMap(s.app, AppType)
  BY DEF SInv, Typed
<1>2. /\ DOMAIN r = Fields /\ r.app = s.app /\ r.lastToken = t /\ r.proc = s.proc
      /\ r.box = s.box /\ r.dangling = s.dangling /\ r.reread = s.reread /\ r.rec = With(s.rec, t, new)
  BY <1>1 DEF Fields, WithService
<1>3. new.app \in DOMAIN s.app \cup {0}
      /\ (new.app # 0 => s.app[new.app].bundle = BundleOf[a])
  BY AppOfBundle DEF NewService
<1>4. new \in ServiceType
  <2>1. new.app \in Nat
    BY <1>1, <1>3 DEF TokenMap, Token
  <2>. QED
    BY <2>1 DEF NewService, ServiceType, ConnectStatus
<1>5. new.ability = a /\ new.conns = {}
  BY DEF NewService
<1>6. /\ t \in Token /\ t \in Nat /\ t \notin DOMAIN s.rec
      /\ \A u \in DOMAIN s.rec : u \in Nat /\ u <= t
      /\ \A i \in DOMAIN s.app : i \in Nat /\ i <= t
  BY NextToken DEF Token
<1>7. \A u \in DOMAIN s.rec : s.rec[u].ability # a
  BY FindServiceListed
<1>. HIDE DEF t, new, r
<1>8. /\ DOMAIN r.rec = DOMAIN s.rec \cup {t} /\ r.rec[t] = new
      /\ \A u \in DOMAIN s.rec : r.rec[u] = s.rec[u]
  BY <1>2, <1>6 DEF With
<1>9. Typed(r)
  <2>1. TokenMap(r.rec, ServiceType)
    BY <1>1, <1>4, <1>6, <1>8 DEF TokenMap
  <2>. QED
    BY <1>1, <1>2, <1>6, <2>1 DEF Typed, SInv
<1>10. Drawn(r)
  <2>1. ASSUME NEW u \in DOMAIN r.rec PROVE u <= t
    BY <1>6, <1>8
  <2>2. \A i \in DOMAIN r.app : i <= t
    BY <1>2, <1>6
  <2>. QED
    BY <1>2, <2>1, <2>2 DEF Drawn
<1>11. OneEach(r)
  BY <1>5, <1>7, <1>8 DEF OneEach, SInv
<1>12. Placed(r)
  BY <1>2, <1>3, <1>5, <1>8 DEF Placed, SInv
<1>13. PendingListed(r)
  BY <1>2, <1>6, <1>8 DEF PendingListed, SInv
<1>. QED
  BY <1>2, <1>8, <1>9, <1>10, <1>11, <1>12, <1>13 DEF SInv, t, r

LEMMA StartServiceKeeps ==
    ASSUME NEW s, SInv(s), NEW a \in Ability, NEW wait \in BOOLEAN, NEW fails
    PROVE  SInv(StartService(s, a, wait, fails))
<1>1. CASE FindService(s, a) # 0
  BY <1>1, FailKeeps DEF StartService
<1>2. CASE FindService(s, a) = 0
  <2>. DEFINE t  == s.lastToken + 1
              s1 == WithService(s, a, wait)
              s2 == StartServiceProcess(s1, t, fails)
  <2>1. SInv(s1) /\ t \in DOMAIN s1.rec
    BY <1>2, NewServiceKeeps
  <2>2. StartService(s, a, wait, fails) \in {DeleteRecords(s2, {t}), s2}
    BY <1>2 DEF StartService, WithService
  <2>. HIDE DEF s1, t
  <2>3. SInv(s2) /\ t \in DOMAIN s2.rec
    BY <2>1, StartServiceProcessKeeps
  <2>. HIDE DEF s2
  <2>4. SInv(DeleteRecords(s2, {t}))
    BY <2>3, DeleteRecordsKeeps
  <2>. QED
    BY <2>2, <2>3, <2>4
<1>. QED
  BY <1>1, <1>2

-----------------------------------------------------------------------------
(* The tasks.                                                              *)

ConnectRequests == [id : {"connect"}, client : Client, token : Nat, conn : Conn, service : Ability]

LEMMA PerformConnectTaskKeeps ==
    ASSUME NEW s, SInv(s), NEW t \in DOMAIN s.rec, NEW r \in ConnectRequests
    PROVE  SInv(PerformConnectTask(s, t, r))
<1>. DEFINE known == GetConnectRecord(s, t, r.client) # {}
            s0 == Succeed(s)
            x  == s.rec[t].conns \cup {NewConnection(r)}
            s1 == IF known THEN s0 ELSE [s0 EXCEPT !.rec[t].conns = @ \cup {NewConnection(r)}]
<1>1. SInv(s0) /\ SameRecords(s, s0)
  BY FailKeeps
<1>2. NewConnection(r) \in ConnType /\ NewConnection(r).client = r.client
  BY DEF NewConnection, ConnType, ConnectRequests
<1>3. SInv(s1) /\ t \in DOMAIN s1.rec
  <2>1. CASE known
    BY <1>1, <2>1 DEF SameRecords
  <2>2. CASE ~known
    <3>1. x \in SUBSET ConnType /\ \A p, q \in x : p.client = q.client => p = q
      BY <1>2, <2>2, ServiceRecord DEF GetConnectRecord
    <3>2. s1 = [s0 EXCEPT !.rec[t].conns = x]
      BY <1>1, <2>2 DEF SameRecords
    <3>. HIDE DEF x, s0, s1
    <3>3. SInv([s0 EXCEPT !.rec[t].conns = x]) /\ Kept(s0, [s0 EXCEPT !.rec[t].conns = x])
      BY <1>1, <3>1, SetConnsKeeps DEF SameRecords
    <3>. QED
      BY <1>1, <3>2, <3>3 DEF Kept, SameRecords
  <2>. QED
    BY <2>1, <2>2
<1>4. PerformConnectTask(s, t, r) \in
         {SetConnectStatus(s1, t, "WAIT_CONNECT"), ConnectAbilityDone(s1, t), s1,
          CallService(SetConnectStatus(s1, t, "CONNECTING"), t, "connect")}
  BY DEF PerformConnectTask
<1>. HIDE DEF s1
<1>5. /\ SInv(SetConnectStatus(s1, t, "WAIT_CONNECT"))
      /\ SInv(CallService(SetConnectStatus(s1, t, "CONNECTING"), t, "connect"))
  BY <1>3, SetConnectStatusKeeps, CallWithStatusKeeps DEF ConnectStatus
<1>6. SInv(ConnectAbilityDone(s1, t))
  BY <1>3, ConnectAbilityDoneKeeps
<1>. QED
  BY <1>3, <1>4, <1>5, <1>6

LEMMA ConnectAbilityKeeps ==
    ASSUME NEW s, SInv(s), NEW r \in ConnectRequests, NEW visible, NEW fails
    PROVE  SInv(ConnectAbility(s, r, visible, fails))
<1>. DEFINE s1 == IF FindService(s, r.service) = 0
                  THEN StartService(s, r.service, TRUE, fails) ELSE Succeed(s)
            s2 == IF s1.status = "ok" THEN ConnectTask(s1, r) ELSE s1
            s3 == IF visible THEN s2 ELSE Fail(s)
<1>1. r.service \in Ability
  BY DEF ConnectRequests
<1>2. SInv(s1)
  BY <1>1, StartServiceKeeps, FailKeeps
<1>3. SInv(ConnectTask(s1, r))
  <2>. HIDE DEF s1
  <2>. DEFINE t == FindService(s1, r.service)
  <2>1. t # 0 => t \in DOMAIN s1.rec
    BY <1>2, FindServiceListed
  <2>2. ConnectTask(s1, r) \in {Fail(s1), PerformConnectTask(s1, t, r)}
        /\ (t = 0 => ConnectTask(s1, r) = Fail(s1))
    BY DEF ConnectTask
  <2>. HIDE DEF t
  <2>. QED
    BY <1>2, <2>1, <2>2, FailKeeps, PerformConnectTaskKeeps
<1>4. SInv(s3)
  <2>. HIDE DEF s1
  <2>. QED
    BY <1>2, <1>3, FailKeeps
<1>5. ConnectAbility(s, r, visible, fails) \in {s3, Tell(s3, r, "failed", r.service)}
  BY DEF ConnectAbility
<1>. HIDE DEF s3
<1>6. SInv(Tell(s3, r, "failed", r.service))
  BY <1>4, TellKeeps
<1>. QED
  BY <1>4, <1>5, <1>6

LEMMA ConnectDoneTaskKeeps ==
    ASSUME NEW s, SInv(s), NEW t
    PROVE  SInv(ConnectDoneTask(s, t))
<1>1. CASE Found(s, t) /\ ~IsPerformStop(s, t)
  <2>1. t \in DOMAIN s.rec
    BY <1>1 DEF Found
  <2>2. SInv(ConnectAbilityDone(s, t)) /\ t \in DOMAIN ConnectAbilityDone(s, t).rec
    BY <2>1, ConnectAbilityDoneKeeps DEF Kept
  <2>3. SInv(SetConnectStatus(ConnectAbilityDone(s, t), t, "CONNECTED"))
    BY <2>2, SetConnectStatusKeeps DEF ConnectStatus
  <2>. QED
    BY <1>1, <2>3 DEF ConnectDoneTask
<1>2. CASE ~(Found(s, t) /\ ~IsPerformStop(s, t))
  BY <1>2, FailKeeps DEF ConnectDoneTask
<1>. QED
  BY <1>1, <1>2

LEMMA DisconnectTaskKeeps ==
    ASSUME NEW s, SInv(s), NEW c, NEW token
    PROVE  SInv(DisconnectTask(s, c, token))
<1>. DEFINE S == {t \in DOMAIN s.rec :
                    \E r \in s.rec[t].conns : r.client = c /\ r.token = token}
            t == FindConnection(s, c, token)
<1>1. S \in SUBSET Token /\ S \subseteq DOMAIN s.rec
  BY DEF SInv, Typed, TokenMap
<1>2. t = FirstOf(S)
  BY DEF FindConnection
<1>3. t # 0 => t \in DOMAIN s.rec
  <2>. HIDE DEF S
  <2>. QED
    BY <1>1, <1>2, FirstOfTokens
<1>4. DisconnectTask(s, c, token) = IF t = 0 THEN Fail(s) ELSE DisconnectAbility(s, t, c)
  BY DEF DisconnectTask
<1>. HIDE DEF t
<1>. QED
  BY <1>3, <1>4, FailKeeps, DisconnectAbilityKeeps

LEMMA DisconnectDoneTaskKeeps ==
    ASSUME NEW s, SInv(s), NEW t
    PROVE  SInv(DisconnectDoneTask(s, t))
BY FailKeeps, DisconnectAbilityDoneKeeps DEF DisconnectDoneTask, Found

LEMMA TerminateServiceTaskKeeps ==
    ASSUME NEW s, SInv(s), NEW a, NEW visible
    PROVE  SInv(TerminateServiceTask(s, a, visible))
<1>. DEFINE t == FindService(s, a)
<1>1. t # 0 => t \in DOMAIN s.rec
  BY FindServiceListed
<1>2. /\ TerminateServiceTask(s, a, visible) \in
            {Fail(s), Succeed(DeleteRecords(s, {t})), ForceStopServiceAbility(s, t)}
      /\ t = 0 => TerminateServiceTask(s, a, visible) = Fail(s)
  BY DEF TerminateServiceTask
<1>. HIDE DEF t
<1>3. CASE t = 0
  BY <1>2, <1>3, FailKeeps
<1>4. CASE t # 0
  <2>1. SInv(DeleteRecords(s, {t}))
    BY <1>1, <1>4, DeleteRecordsKeeps
  <2>. QED
    BY <1>1, <1>2, <1>4, <2>1, FailKeeps, ForceStopKeeps
<1>. QED
  BY <1>3, <1>4

LEMMA InactivateTaskKeeps ==
    ASSUME NEW s, SInv(s), NEW t
    PROVE  SInv(InactivateTask(s, t))
<1>1. CASE ~Found(s, t)
  BY <1>1, FailKeeps DEF InactivateTask
<1>2. CASE Found(s, t)
  <2>. DEFINE y  == [s.rec[t] EXCEPT !.state = "INACTIVE"]
              s1 == [s EXCEPT !.rec[t].state = "INACTIVE", !.status = "ok"]
  <2>1. /\ t \in DOMAIN s.rec /\ s.rec[t] \in ServiceType /\ DOMAIN s = Fields
        /\ \A p, q \in s.rec[t].conns : p.client = q.client => p = q
    BY <1>2, ServiceRecord DEF Found
  <2>2. y \in ServiceType /\ y.ability = s.rec[t].ability /\ y.app = s.rec[t].app
        /\ y.conns = s.rec[t].conns
    BY <2>1 DEF ServiceType
  <2>3. Only(s, s1, {"rec", "status"}) /\ s1.rec = [s.rec EXCEPT ![t] = y]
    BY <2>1 DEF Only, Fields
  <2>4. InactivateTask(s, t) \in
           {s1, CallService(SetConnectStatus(s1, t, "CONNECTING"), t, "connect")}
    BY <1>2 DEF InactivateTask
  <2>. HIDE DEF y, s1
  <2>5. SInv(s1) /\ t \in DOMAIN s1.rec
    BY <2>1, <2>2, <2>3, RecordStep
  <2>6. SInv(CallService(SetConnectStatus(s1, t, "CONNECTING"), t, "connect"))
    BY <2>5, CallWithStatusKeeps DEF ConnectStatus
  <2>. QED
    BY <2>4, <2>5, <2>6
<1>. QED
  BY <1>1, <1>2

\* A process exits once its services have other processes.
LEMMA ExitAppKeeps ==
    ASSUME NEW s, SInv(s), NEW t \in DOMAIN s.rec,
           \A u \in DOMAIN s.rec : s.rec[u].app = s.rec[t].app => u = t
    PROVE  SInv(ExitApp(s, t)) /\ DOMAIN ExitApp(s, t).rec = DOMAIN s.rec
<1>. DEFINE m  == [type |-> "exit"]
            s1 == CallApp(s, t, m)
            id == s.rec[t].app
            s2 == [s1 EXCEPT !.rec[t].app = 0]
            y  == [s1.rec[t] EXCEPT !.app = 0]
<1>1. m \in ServiceMessage
  BY DEF ServiceMessage
<1>2. SInv(s1) /\ SameRecords(s, s1)
  <2>. HIDE DEF m
  <2>. QED
    BY <1>1, CallAppKeeps
<1>3. CASE s1.status # "ok"
  <2>1. ExitApp(s, t) = s1
    BY <1>3 DEF ExitApp
  <2>. QED
    BY <1>2, <2>1 DEF SameRecords
<1>4. CASE s1.status = "ok"
  <2>1. ExitApp(s, t) = [RemoveAppRecord(s1, id) EXCEPT !.rec[t].app = 0]
    BY <1>4 DEF ExitApp
  <2>. DEFINE r == [RemoveAppRecord(s1, id) EXCEPT !.rec[t].app = 0]
              behind == \E i \in DOMAIN s1.app : i > id
  <2>. HIDE DEF s1
  <2>2. /\ DOMAIN s1 = Fields /\ TokenMap(s1.app, AppType)
        /\ s1.rec = s.rec /\ s1.app = s.app /\ s1.lastToken = s.lastToken
        /\ s1.rec[t] \in ServiceType /\ TokenMap(s1.rec, ServiceType)
    BY <1>2, ServiceRecord DEF SInv, Typed, SameRecords
  <2>3. /\ DOMAIN r = Fields /\ r.lastToken = s1.lastToken /\ r.proc = s1.proc
        /\ r.box = s1.box /\ r.dangling = s1.dangling /\ r.app = Drop(s1.app, {id})
        /\ r.rec = [s1.rec EXCEPT ![t] = y]
        /\ r.reread = (s1.reread \/ behind)
    BY <2>2 DEF RemoveApps, RemoveAppRecord, Fields
  <2>4. y \in ServiceType /\ y.app = 0 /\ y.ability = s1.rec[t].ability
        /\ y.conns = s1.rec[t].conns
    BY <2>2 DEF ServiceType
  <2>. HIDE DEF r, y, id, behind
  <2>12. r.reread \in BOOLEAN
    BY <2>3, Zenon
  <2>5. /\ DOMAIN r.rec = DOMAIN s1.rec
        /\ \A u \in DOMAIN s1.rec : r.rec[u] = IF u = t THEN y ELSE s1.rec[u]
        /\ DOMAIN r.app = DOMAIN s1.app \ {id}
        /\ \A i \in DOMAIN s1.app \ {id} : r.app[i] = s1.app[i]
    BY <2>3 DEF Drop
  <2>6. \A u \in DOMAIN s1.rec : u # t => s1.rec[u].app # id
    BY <2>2 DEF id
  <2>7. Typed(r)
    <3>1. TokenMap(r.rec, ServiceType) /\ TokenMap(r.app, AppType)
      BY <2>2, <2>4, <2>5 DEF TokenMap
    <3>. QED
      BY <1>2, <2>3, <3>1 DEF Typed, SInv
  <2>8. Drawn(r) /\ OneEach(r)
    BY <1>2, <2>3, <2>4, <2>5 DEF Drawn, OneEach, SInv
  <2>9. Placed(r)
    BY <1>2, <2>4, <2>5, <2>6 DEF Placed, SInv
  <2>10. PendingListed(r)
    <3>1. s1.rec[t].app = id
      BY <2>2 DEF id
    <3>. QED
      BY <1>2, <2>5, <3>1 DEF PendingListed, SInv
  <2>11. SInv(r)
    BY <1>2, <2>3, <2>7, <2>8, <2>9, <2>10, <2>12 DEF SInv
  <2>. QED
    BY <2>1, <2>2, <2>5, <2>11 DEF r
<1>. QED
  BY <1>3, <1>4

\* The only service of its bundle is the only one of its process.
LEMMA LastService ==
    ASSUME NEW s, SInv(s), NEW t \in DOMAIN s.rec,
           CountServiceInApp(s, BundleOf[s.rec[t].ability]) = 1
    PROVE  \A u \in DOMAIN s.rec :
              BundleOf[s.rec[u].ability] = BundleOf[s.rec[t].ability] => u = t
<1>. DEFINE S == {u \in DOMAIN s.rec : BundleOf[s.rec[u].ability] = BundleOf[s.rec[t].ability]}
<1>1. IsFiniteSet(S)
  <2>1. s.lastToken \in Nat /\ S \subseteq 0..s.lastToken
    BY DEF SInv, Typed, Drawn, TokenMap, Token
  <2>2. IsFiniteSet(0..s.lastToken)
    BY <2>1, FS_Interval
  <2>. HIDE DEF S
  <2>. QED
    BY <2>1, <2>2, FS_Subset
<1>2. Cardinality(S) = 1
  BY DEF CountServiceInApp
<1>3. \E x : S = {x}
  <2>. HIDE DEF S
  <2>. QED
    BY <1>1, <1>2, FS_Singleton
<1>. QED
  BY <1>3

LEMMA StopTaskKeeps ==
    ASSUME NEW s, SInv(s), NEW t
    PROVE  SInv(StopTask(s, t))
<1>1. CASE ~Found(s, t)
  BY <1>1, FailKeeps DEF StopTask
<1>2. CASE Found(s, t)
  <2>. DEFINE y    == [s.rec[t] EXCEPT !.state = "INITIAL"]
              s1   == [s EXCEPT !.rec[t].state = "INITIAL", !.status = "ok"]
              s2   == StopAbilityDone(s1, t)
              last == CountServiceInApp(s, BundleOf[s.rec[t].ability]) = 1
  <2>1. /\ t \in DOMAIN s.rec /\ s.rec[t] \in ServiceType /\ DOMAIN s = Fields
        /\ \A p, q \in s.rec[t].conns : p.client = q.client => p = q
    BY <1>2, ServiceRecord DEF Found
  <2>2. y \in ServiceType /\ y.ability = s.rec[t].ability /\ y.app = s.rec[t].app
        /\ y.conns = s.rec[t].conns
    BY <2>1 DEF ServiceType
  <2>3. Only(s, s1, {"rec", "status"}) /\ s1.rec = [s.rec EXCEPT ![t] = y]
    BY <2>1 DEF Only, Fields
  <2>4. \/ StopTask(s, t) = Fail(s1)
        \/ StopTask(s, t) = DeleteRecords(IF last THEN ExitApp(s2, t) ELSE s2, {t})
    BY <1>2 DEF StopTask
  <2>. HIDE DEF y, s1, last
  <2>5. SInv(s1) /\ Kept(s, s1) /\ t \in DOMAIN s1.rec
    BY <2>1, <2>2, <2>3, RecordStep DEF Kept
  <2>6. SInv(s2) /\ Kept(s1, s2)
    BY <2>5, StopAbilityDoneKeeps
  <2>. HIDE DEF s2
  <2>7. t \in DOMAIN s2.rec /\ Kept(s, s2)
    BY <2>5, <2>6, KeptTransitive DEF Kept
  <2>8. SInv(DeleteRecords(s2, {t}))
    BY <2>6, <2>7, DeleteRecordsKeeps
  <2>9. ASSUME last PROVE SInv(DeleteRecords(ExitApp(s2, t), {t}))
    <3>1. CASE s2.rec[t].app = 0
      <4>1. ExitApp(s2, t) = CallApp(s2, t, [type |-> "exit"])
        <5>1. CallApp(s2, t, [type |-> "exit"]) = [s2 EXCEPT !.status = "transact"]
          <6>1. 0 \notin DOMAIN s2.app
            BY <2>6 DEF SInv, Typed, TokenMap, Token
          <6>. QED
            BY <3>1, <6>1 DEF CallApp
        <5>2. [s2 EXCEPT !.status = "transact"].status = "transact"
          BY <2>6 DEF SInv, Typed, Fields
        <5>3. CallApp(s2, t, [type |-> "exit"]).status # "ok"
          BY <5>1, <5>2
        <5>. QED
          BY <5>3 DEF ExitApp
      <4>2. SInv(CallApp(s2, t, [type |-> "exit"]))
            /\ SameRecords(s2, CallApp(s2, t, [type |-> "exit"]))
        <5>. DEFINE m == [type |-> "exit"]
        <5>1. m \in ServiceMessage
          BY DEF ServiceMessage
        <5>. HIDE DEF m
        <5>2. SInv(CallApp(s2, t, m)) /\ SameRecords(s2, CallApp(s2, t, m))
          BY <2>6, <2>7, <5>1, CallAppKeeps
        <5>. QED
          BY <5>2 DEF m
      <4>. QED
        BY <2>7, <4>1, <4>2, DeleteRecordsKeeps DEF SameRecords
    <3>2. CASE s2.rec[t].app # 0
      <4>1. \A u \in DOMAIN s2.rec : s2.rec[u].app = s2.rec[t].app => u = t
        <5>1. \A u \in DOMAIN s.rec :
                 BundleOf[s.rec[u].ability] = BundleOf[s.rec[t].ability] => u = t
          BY <2>1, <2>9, LastService DEF last
        <5>2. \A u \in DOMAIN s.rec :
                 s.rec[u].app = s.rec[t].app /\ s.rec[t].app # 0 =>
                    BundleOf[s.rec[u].ability] = BundleOf[s.rec[t].ability]
          BY <2>1 DEF SInv, Placed
        <5>. QED
          BY <2>1, <2>7, <3>2, <5>1, <5>2 DEF Kept
      <4>2. SInv(ExitApp(s2, t)) /\ DOMAIN ExitApp(s2, t).rec = DOMAIN s2.rec
        BY <2>6, <2>7, <4>1, ExitAppKeeps
      <4>. QED
        BY <2>7, <4>2, DeleteRecordsKeeps
    <3>. QED
      BY <3>1, <3>2
  <2>. QED
    BY <2>4, <2>5, <2>8, <2>9, FailKeeps
<1>. QED
  BY <1>1, <1>2

LEMMA AbilityTransactionKeeps ==
    ASSUME NEW s, SInv(s), NEW t, NEW state
    PROVE  SInv(AbilityTransaction(s, t, state))
BY InactivateTaskKeeps, StopTaskKeeps DEF AbilityTransaction

\* An app record whose slot is kept or cleared.
LEMMA AppStep ==
    ASSUME NEW s, SInv(s), NEW id \in DOMAIN s.app, NEW y \in AppType,
           y.bundle = s.app[id].bundle, y.pending \in {0, s.app[id].pending},
           NEW r, Only(s, r, {"app", "status"}), r.app = [s.app EXCEPT ![id] = y]
    PROVE  SInv(r)
<1>1. /\ DOMAIN r = Fields /\ r.rec = s.rec /\ r.proc = s.proc /\ r.box = s.box
      /\ r.lastToken = s.lastToken /\ r.dangling = s.dangling /\ r.reread = s.reread
  BY DEF Only, Fields
<1>2. /\ DOMAIN r.app = DOMAIN s.app
      /\ \A i \in DOMAIN s.app : r.app[i] = IF i = id THEN y ELSE s.app[i]
  OBVIOUS
<1>3. Typed(r)
  <2>1. TokenMap(r.app, AppType)
    BY <1>2 DEF SInv, Typed, TokenMap
  <2>. QED
    BY <1>1, <2>1 DEF SInv, Typed
<1>4. Drawn(r) /\ OneEach(r)
  BY <1>1, <1>2 DEF Drawn, OneEach, SInv
<1>5. Placed(r)
  BY <1>1, <1>2 DEF Placed, SInv
<1>6. PendingListed(r)
  BY <1>1, <1>2 DEF PendingListed, SInv
<1>. QED
  BY <1>1, <1>3, <1>4, <1>5, <1>6 DEF SInv

LEMMA SlotClearedKeeps ==
    ASSUME NEW s, SInv(s), NEW id \in DOMAIN s.app
    PROVE  SInv([s EXCEPT !.app[id].pending = 0])
<1>. DEFINE y == [s.app[id] EXCEPT !.pending = 0]
            r == [s EXCEPT !.app[id].pending = 0]
<1>1. s.app[id] \in AppType /\ DOMAIN s = Fields
  BY DEF SInv, Typed, TokenMap
<1>2. y \in AppType /\ y.bundle = s.app[id].bundle /\ y.pending = 0
  BY <1>1 DEF AppType
<1>3. Only(s, r, {"app", "status"}) /\ r.app = [s.app EXCEPT ![id] = y]
  BY <1>1 DEF Only, Fields
<1>. HIDE DEF y, r
<1>4. SInv(r)
  BY <1>2, <1>3, AppStep
<1>. QED
  BY <1>4 DEF r

\* A process is attached, and watched from then on.
LEMMA AttachedKeeps ==
    ASSUME NEW s, SInv(s), NEW id \in DOMAIN s.app
    PROVE  /\ SInv([s EXCEPT !.app[id].attached = TRUE, !.proc[id].watched = TRUE])
           /\ [s EXCEPT !.app[id].attached = TRUE, !.proc[id].watched = TRUE].rec = s.rec
           /\ DOMAIN [s EXCEPT !.app[id].attached = TRUE, !.proc[id].watched = TRUE].app
                 = DOMAIN s.app
<1>. DEFINE y == [s.app[id] EXCEPT !.attached = TRUE]
            q == [s.proc[id] EXCEPT !.watched = TRUE]
            u == [s EXCEPT !.app = [s.app EXCEPT ![id] = y]]
            r == [u EXCEPT !.proc = [s.proc EXCEPT ![id] = q]]
<1>1. s.app[id] \in AppType /\ DOMAIN s = Fields /\ DOMAIN s.proc \subseteq Token
      /\ \A p \in DOMAIN s.proc : ServiceProcess(s.proc[p])
  BY DEF SInv, Typed, TokenMap
<1>2. r = [s EXCEPT !.app[id].attached = TRUE, !.proc[id].watched = TRUE]
  BY <1>1 DEF Fields
<1>3. y \in AppType /\ y.bundle = s.app[id].bundle /\ y.pending = s.app[id].pending
  BY <1>1 DEF AppType
<1>4. id \in DOMAIN s.proc => ServiceProcess(q)
  BY <1>1 DEF ServiceProcess
<1>5. Only(s, u, {"app", "status"}) /\ u.app = [s.app EXCEPT ![id] = y] /\ u.proc = s.proc
      /\ u.rec = s.rec /\ DOMAIN u = Fields
  BY <1>1 DEF Only, Fields
<1>6. SInv(u)
  <2>. HIDE DEF u, y
  <2>. QED
    BY <1>3, <1>5, AppStep
<1>. HIDE DEF u
<1>7. Only(u, r, {"proc", "status"}) /\ r.proc = [s.proc EXCEPT ![id] = q]
      /\ r.rec = s.rec /\ r.app = [s.app EXCEPT ![id] = y]
  BY <1>5 DEF Only, Fields
<1>. HIDE DEF r, q, y
<1>8. /\ DOMAIN r.proc = DOMAIN s.proc
      /\ \A p \in DOMAIN s.proc : r.proc[p] = IF p = id THEN q ELSE s.proc[p]
  BY <1>7
<1>9. SInv(r)
  BY <1>1, <1>4, <1>6, <1>7, <1>8, ProcStep
<1>. QED
  BY <1>2, <1>7, <1>9

LEMMA AttachTaskKeeps ==
    ASSUME NEW s, SInv(s), NEW id
    PROVE  SInv(AttachTask(s, id))
<1>1. CASE id \notin DOMAIN s.app
  BY <1>1, FailKeeps DEF AttachTask
<1>2. CASE id \in DOMAIN s.app
  <2>. DEFINE m  == [type |-> "init"]
              s0 == [s EXCEPT !.app[id].attached = TRUE, !.proc[id].watched = TRUE]
              s1 == Send(s0, id, m)
              t  == s.app[id].pending
              s2 == Transact(s1, t, "INACTIVE")
  <2>1. m \in ServiceMessage
    BY DEF ServiceMessage
  <2>2. SInv(s0) /\ s0.rec = s.rec /\ DOMAIN s0.app = DOMAIN s.app
    BY <1>2, AttachedKeeps
  <2>3. \/ AttachTask(s, id) = s1
        \/ t # 0 /\ AttachTask(s, id) = [s2 EXCEPT !.app[id].pending = 0]
    BY <1>2 DEF AttachTask
  <2>4. t # 0 => t \in DOMAIN s.rec
    BY <1>2 DEF SInv, PendingListed
  <2>. HIDE DEF s0, m, t
  <2>5. SInv(s1) /\ SameRecords(s0, s1)
    BY <1>2, <2>1, <2>2, SendKeeps
  <2>. HIDE DEF s1
  <2>6. ASSUME t # 0 PROVE SInv([s2 EXCEPT !.app[id].pending = 0])
    <3>1. SInv(s2) /\ SameRecords(s1, s2)
      BY <2>2, <2>4, <2>5, <2>6, TransactKeeps DEF SameRecords, ServiceState
    <3>2. id \in DOMAIN s2.app
      BY <1>2, <2>2, <2>5, <3>1 DEF SameRecords
    <3>. HIDE DEF s2
    <3>. QED
      BY <3>1, <3>2, SlotClearedKeeps
  <2>. QED
    BY <2>3, <2>5, <2>6
<1>. QED
  BY <1>1, <1>2

\* The services of a bundle go with its processes.
LEMMA RestartAppKeeps ==
    ASSUME NEW s, SInv(s), NEW b
    PROVE  SInv(RestartApp(s, b))
<1>. DEFINE mine == {t \in DOMAIN s.rec : BundleOf[s.rec[t].ability] = b}
            s1 == TellAll(s, mine, "disconnected")
            s2 == DeleteRecords(s1, mine)
<1>1. RestartApp(s, b) = RemoveApps(s2, AppsOf(s, b))
  BY DEF RestartApp
<1>2. SInv(s1) /\ SameRecords(s, s1)
  BY TellAllKeeps
<1>3. mine \in SUBSET DOMAIN s.rec
  OBVIOUS
<1>4. \A t \in DOMAIN s.rec \ mine : s.rec[t].app \notin AppsOf(s, b)
  <2>1. \A t \in DOMAIN s.rec \ mine : BundleOf[s.rec[t].ability] # b
    OBVIOUS
  <2>. QED
    BY <2>1 DEF SInv, Placed, AppsOf, Typed, TokenMap, Token
<1>. HIDE DEF mine, s1
<1>5. SInv(s2) /\ s2.rec = Drop(s1.rec, mine)
  BY <1>2, <1>3, DeleteRecordsKeeps DEF SameRecords
<1>6. \A t \in DOMAIN s2.rec : s2.rec[t].app \notin AppsOf(s, b)
  BY <1>2, <1>4, <1>5 DEF SameRecords, Drop
<1>. HIDE DEF s2
<1>. QED
  BY <1>1, <1>5, <1>6, RemoveAppsKeeps

\* The connections of a page go, and services it was alone with are stopped.
LEMMA ClearPagesKeeps ==
    ASSUME NEW s, SInv(s), NEW token
    PROVE  SInv(ClearPages(s, token))
<1>. DEFINE over    == LastOfPage(s, token)
            inApp(p) == {t \in over : s.rec[t].app = p}
            of(p)   == InOrder(inApp(p))
            stop(t) == [type |-> "transact", token |-> t,
                        ability |-> s.rec[t].ability, state |-> "INITIAL"]
            posted(p) == [i \in DOMAIN of(p) |-> stop(of(p)[i])]
            recs    == [t \in DOMAIN s.rec |->
                          [s.rec[t] EXCEPT !.conns = @ \ ConnsOfToken(s, t, token)]]
            procs   == [p \in DOMAIN s.proc |->
                          IF p \in DOMAIN s.app /\ s.app[p].attached /\ Alive(s, p)
                          THEN [s.proc[p] EXCEPT !.inbox = @ \o posted(p)]
                          ELSE s.proc[p]]
            s1 == [s EXCEPT !.rec = recs]
            r  == ClearPages(s, token)
<1>1. /\ DOMAIN s = Fields /\ TokenMap(s.rec, ServiceType) /\ s.dangling = FALSE
      /\ DOMAIN s.proc \subseteq Token /\ s.lastToken \in Nat
      /\ \A p \in DOMAIN s.proc : ServiceProcess(s.proc[p])
  BY DEF SInv, Typed
<1>2. over \subseteq DOMAIN s.rec /\ over \subseteq 0..s.lastToken
  <2>1. over \subseteq DOMAIN s.rec
    BY DEF LastOfPage
  <2>2. DOMAIN s.rec \subseteq 0..s.lastToken
    BY <1>1 DEF SInv, Drawn, TokenMap, Token
  <2>. QED
    BY <2>1, <2>2
<1>3. \A t \in over : s.rec[t].app \in DOMAIN s.app \cup {0}
  BY <1>2, ServiceRecord
<1>4. ASSUME NEW p PROVE posted(p) \in Seq(ServiceMessage)
  <2>1. inApp(p) \in SUBSET (0..s.lastToken) /\ inApp(p) \subseteq DOMAIN s.rec
    BY <1>2
  <2>2. of(p) \in Seq(inApp(p))
    <3>. HIDE DEF inApp
    <3>. QED
      BY <1>1, <2>1, InOrderElements
  <2>3. \A t \in inApp(p) : stop(t) \in ServiceMessage
    BY <1>1, <2>1, ServiceRecord DEF ServiceMessage, ServiceState
  <2>. HIDE DEF of, inApp, stop
  <2>4. /\ Len(of(p)) \in Nat /\ DOMAIN of(p) = 1..Len(of(p))
        /\ \A i \in 1..Len(of(p)) : of(p)[i] \in inApp(p)
    BY <2>2
  <2>5. \A i \in 1..Len(of(p)) : stop(of(p)[i]) \in ServiceMessage
    BY <2>3, <2>4
  <2>6. posted(p) = [i \in 1..Len(of(p)) |-> stop(of(p)[i])]
    BY <2>4
  <2>. QED
    BY <2>4, <2>5, <2>6, IsASeq
<1>5. SInv(s1)
  <2>1. Only(s, s1, {"rec", "status"}) /\ s1.rec = recs
    BY <1>1 DEF Only, Fields
  <2>2. ASSUME NEW t \in DOMAIN s.rec
        PROVE  /\ recs[t] \in ServiceType
               /\ recs[t].ability = s.rec[t].ability /\ recs[t].app = s.rec[t].app
               /\ recs[t].conns \subseteq s.rec[t].conns
    <3>1. recs[t] = [s.rec[t] EXCEPT !.conns = s.rec[t].conns \ ConnsOfToken(s, t, token)]
      OBVIOUS
    <3>2. s.rec[t] \in ServiceType
      BY <1>1 DEF TokenMap
    <3>. HIDE DEF recs
    <3>. QED
      BY <3>1, <3>2 DEF ServiceType
  <2>3. DOMAIN recs = DOMAIN s.rec
    OBVIOUS
  <2>4. \A t \in DOMAIN s.rec : \A p, q \in s.rec[t].conns : p.client = q.client => p = q
    BY DEF SInv, OneEach
  <2>5. \A t \in DOMAIN s.rec : \A p, q \in recs[t].conns : p.client = q.client => p = q
    <3>. HIDE DEF recs
    <3>. QED
      BY <2>2, <2>4
  <2>. HIDE DEF recs, s1
  <2>. QED
    BY <2>1, <2>2, <2>3, <2>5, RecordsStep
<1>6. /\ DOMAIN r = Fields /\ r.rec = recs /\ r.app = s.app /\ r.lastToken = s.lastToken
      /\ r.box = s.box /\ r.status = s.status /\ r.proc = procs /\ r.reread = s.reread
  BY <1>1 DEF ClearPages, Fields
<1>7. r.dangling = FALSE
  <2>1. r.dangling = (s.dangling \/ \E t \in over : s.rec[t].app \notin DOMAIN s.app \cup {0})
    BY <1>1 DEF ClearPages, Fields
  <2>. HIDE DEF r, over
  <2>. QED
    BY <1>1, <1>3, <2>1
<1>8. DOMAIN procs = DOMAIN s.proc /\ \A p \in DOMAIN s.proc : ServiceProcess(procs[p])
  <2>1. ASSUME NEW p \in DOMAIN s.proc PROVE ServiceProcess(procs[p])
    <3>1. ServiceProcess(s.proc[p]) /\ posted(p) \in Seq(ServiceMessage)
      BY <1>1, <1>4
    <3>. HIDE DEF posted
    <3>2. s.proc[p].inbox \o posted(p) \in Seq(ServiceMessage)
      BY <3>1 DEF ServiceProcess
    <3>3. ServiceProcess([s.proc[p] EXCEPT !.inbox = @ \o posted(p)])
      BY <3>1, <3>2 DEF ServiceProcess
    <3>. QED
      BY <3>1, <3>3
  <2>. QED
    BY <2>1
<1>9. Only(s1, r, {"proc", "status"})
  <2>1. /\ DOMAIN s1 = Fields /\ s1.rec = recs /\ s1.app = s.app
        /\ s1.lastToken = s.lastToken /\ s1.dangling = s.dangling /\ s1.reread = s.reread /\ s1.box = s.box
    BY <1>1 DEF Fields
  <2>. HIDE DEF s1, r, recs, procs
  <2>. QED
    BY <1>1, <1>6, <1>7, <2>1 DEF Only, Fields
<1>. HIDE DEF s1, r, procs
<1>10. SInv(r)
  BY <1>1, <1>5, <1>6, <1>8, <1>9, ProcStep
<1>. QED
  BY <1>10 DEF r

-----------------------------------------------------------------------------
(* The steps of module Connect.                                            *)

LEMMA StateFields ==
    /\ DOMAIN State = Fields /\ State.rec = rec /\ State.app = app
    /\ State.lastToken = lastToken /\ State.dangling = dangling /\ State.proc = proc
    /\ State.reread = reread
    /\ State.box = box /\ State.status = "ok"
BY DEF State, Fields

LEMMA InitEstablishes == Init => IInv
<1>. SUFFICES ASSUME Init PROVE IInv
  OBVIOUS
<1>1. /\ rec = <<>> /\ app = <<>> /\ proc = <<>> /\ lastToken = LastPage
      /\ dangling = FALSE /\ reread = FALSE /\ DOMAIN box = Client
  BY DEF Init
<1>2. LastPage \in Nat
  BY ConnectAssumption
<1>3. Typed(State)
  BY <1>1, <1>2, StateFields DEF Typed, TokenMap
<1>4. Drawn(State) /\ OneEach(State) /\ Placed(State) /\ PendingListed(State)
  BY <1>1, StateFields DEF Drawn, OneEach, Placed, PendingListed
<1>5. SInv(State)
  BY <1>1, <1>3, <1>4, StateFields DEF SInv
<1>6. CallersTyped
  <2>1. (CHOOSE a \in Ability : TRUE) \in Ability
    BY ConnectAssumption
  <2>. DEFINE a0 == CHOOSE a \in Ability : TRUE
  <2>. HIDE DEF a0
  <2>2. a0 \in Ability
    BY <2>1 DEF a0
  <2>3. view = [c \in Client |-> [k \in Conn |-> [told |-> "idle", service |-> a0]]]
    BY DEF Init, a0
  <2>4. amsQ \in Seq(ServiceRequest)
    BY DEF Init
  <2>5. lib \in [Client -> [store : SUBSET Conn, stub : Conn \cup {None},
                            clearing : Conn \cup {None}, corrupt : BOOLEAN]]
    BY DEF Init
  <2>. QED
    BY <2>2, <2>3, <2>4, <2>5 DEF CallersTyped
<1>. QED
  BY <1>5, <1>6 DEF IInv

LEMMA CommitKeeps ==
    ASSUME NEW s, SInv(s), Commit(s)
    PROVE  SInv(State')
<1>1. /\ DOMAIN State' = Fields /\ State'.rec = s.rec /\ State'.app = s.app
      /\ State'.lastToken = s.lastToken /\ State'.dangling = s.dangling /\ State'.reread = s.reread
      /\ State'.proc = s.proc /\ State'.box = s.box
  BY DEF State, Fields, Commit
<1>2. Only(s, State', {"box", "status"}) /\ DOMAIN State'.box \subseteq Client
  BY <1>1 DEF Only, Fields, SInv, Typed
<1>. QED
  BY <1>2, BoxStep

\* A step of a client changes its callbacks.
LEMMA ClientKeeps ==
    ASSUME SInv(State), UNCHANGED <<rec, app, lastToken, dangling, reread, proc>>,
           DOMAIN box' \subseteq Client
    PROVE  SInv(State')
<1>1. /\ DOMAIN State' = Fields /\ State'.rec = rec /\ State'.app = app
      /\ State'.lastToken = lastToken /\ State'.dangling = dangling /\ State'.reread = reread
      /\ State'.proc = proc /\ State'.box = box'
  BY DEF State, Fields
<1>2. Only(State, State', {"box", "status"}) /\ DOMAIN State'.box \subseteq Client
  BY <1>1, StateFields DEF Only, Fields
<1>. QED
  BY <1>2, BoxStep

\* A step of a process changes the processes.
LEMMA ProcessKeeps ==
    ASSUME SInv(State), UNCHANGED <<rec, app, lastToken, dangling, reread, box>>,
           DOMAIN proc' \subseteq Token, \A p \in DOMAIN proc' : ServiceProcess(proc'[p])
    PROVE  SInv(State')
<1>1. /\ DOMAIN State' = Fields /\ State'.rec = rec /\ State'.app = app
      /\ State'.lastToken = lastToken /\ State'.dangling = dangling /\ State'.reread = reread
      /\ State'.proc = proc' /\ State'.box = box
  BY DEF State, Fields
<1>2. /\ Only(State, State', {"proc", "status"})
      /\ DOMAIN State'.proc \subseteq Token
      /\ \A p \in DOMAIN State'.proc : ServiceProcess(State'.proc[p])
  BY <1>1, StateFields DEF Only, Fields
<1>. QED
  BY <1>2, ProcStep

\* The request at the head of the queue, and one that is added to it.
LEMMA HeadTyped ==
    ASSUME CallersTyped, NEW id, Serves(id)
    PROVE  /\ amsQ # <<>> /\ Head(amsQ) \in ServiceRequest /\ Head(amsQ).id = id
           /\ Tail(amsQ) \in Seq(ServiceRequest)
BY DEF CallersTyped, Serves

\* A handler's step.
LEMMA HandleKeeps ==
    ASSUME CallersTyped, amsQ # <<>>, NEW s, SInv(s), Handle(s)
    PROVE  IInv'
<1>1. SInv(State')
  BY CommitKeeps DEF Handle
<1>2. Tail(amsQ) \in Seq(ServiceRequest)
  BY DEF CallersTyped
<1>3. CallersTyped'
  BY <1>2 DEF CallersTyped, Handle
<1>. QED
  BY <1>1, <1>3 DEF IInv

LEMMA AmsStepKeeps ==
    ASSUME IInv, AmsNext
    PROVE  IInv'
<1>. DEFINE m == Head(amsQ)
<1>1. SInv(State) /\ CallersTyped
  BY DEF IInv
<1>2. CASE AmsStart
  <2>1. amsQ # <<>> /\ m \in ServiceRequest /\ m.id = "start"
    BY <1>1, <1>2, HeadTyped DEF AmsStart
  <2>2. m.service \in Ability
    BY <2>1 DEF ServiceRequest
  <2>3. PICK fails \in SpawnFailures : Handle(StartService(State, m.service, FALSE, fails))
    BY <1>2 DEF AmsStart
  <2>4. SInv(StartService(State, m.service, FALSE, fails))
    BY <1>1, <2>2, StartServiceKeeps
  <2>. QED
    BY <1>1, <2>1, <2>3, <2>4, HandleKeeps
<1>3. CASE AmsConnect
  <2>1. amsQ # <<>> /\ m \in ServiceRequest /\ m.id = "connect"
    BY <1>1, <1>3, HeadTyped DEF AmsConnect
  <2>2. m \in ConnectRequests
    BY <2>1 DEF ServiceRequest, ConnectRequests
  <2>3. PICK fails \in SpawnFailures :
           Handle(ConnectAbility(State, m, m.service \in Visible[m.client], fails))
    BY <1>3 DEF AmsConnect
  <2>. DEFINE visible == m.service \in Visible[m.client]
  <2>. HIDE DEF visible, m
  <2>4. SInv(ConnectAbility(State, m, visible, fails))
    BY <1>1, <2>2, ConnectAbilityKeeps
  <2>5. Handle(ConnectAbility(State, m, visible, fails))
    BY <2>3 DEF visible
  <2>. QED
    BY <1>1, <2>1, <2>4, <2>5, HandleKeeps DEF m
<1>4. CASE AmsDisconnect
  <2>1. amsQ # <<>>
    BY <1>4 DEF AmsDisconnect, Serves
  <2>. QED
    BY <1>1, <1>4, <2>1, DisconnectTaskKeeps, HandleKeeps DEF AmsDisconnect
<1>5. CASE AmsConnectDone
  <2>1. amsQ # <<>>
    BY <1>5 DEF AmsConnectDone, Serves
  <2>. QED
    BY <1>1, <1>5, <2>1, ConnectDoneTaskKeeps, HandleKeeps DEF AmsConnectDone
<1>6. CASE AmsDisconnectDone
  <2>1. amsQ # <<>>
    BY <1>6 DEF AmsDisconnectDone, Serves
  <2>. QED
    BY <1>1, <1>6, <2>1, DisconnectDoneTaskKeeps, HandleKeeps DEF AmsDisconnectDone
<1>7. CASE AmsTerminateService
  <2>1. amsQ # <<>>
    BY <1>7 DEF AmsTerminateService, Serves
  <2>. QED
    BY <1>1, <1>7, <2>1, TerminateServiceTaskKeeps, HandleKeeps DEF AmsTerminateService
<1>8. CASE AmsAttach
  <2>1. amsQ # <<>>
    BY <1>8 DEF AmsAttach, Serves
  <2>. QED
    BY <1>1, <1>8, <2>1, AttachTaskKeeps, HandleKeeps DEF AmsAttach
<1>9. CASE AmsTransactionDone
  <2>1. amsQ # <<>>
    BY <1>9 DEF AmsTransactionDone, Serves
  <2>. QED
    BY <1>1, <1>9, <2>1, AbilityTransactionKeeps, HandleKeeps DEF AmsTransactionDone
<1>10. CASE AmsRestart
  <2>1. amsQ # <<>>
    BY <1>10 DEF AmsRestart, Serves
  <2>. QED
    BY <1>1, <1>10, <2>1, RestartAppKeeps, HandleKeeps DEF AmsRestart
<1>11. CASE AmsClientDied
  <2>1. amsQ # <<>>
    BY <1>11 DEF AmsClientDied, Serves
  <2>. QED
    BY <1>1, <1>11, <2>1, ClearPagesKeeps, HandleKeeps DEF AmsClientDied
<1>. QED
  BY <1>2, <1>3, <1>4, <1>5, <1>6, <1>7, <1>8, <1>9, <1>10, <1>11 DEF AmsNext

-----------------------------------------------------------------------------
(* The callers.                                                            *)

LibType == [store : SUBSET Conn, stub : Conn \cup {None}, clearing : Conn \cup {None},
            corrupt : BOOLEAN]
ViewType == [told : {"idle", "asked", "connected"}, service : Ability]

LEMMA ScheduleAmsKeeps ==
    ASSUME IInv, NEW m \in ServiceRequest, ScheduleAms(m)
    PROVE  amsQ' \in Seq(ServiceRequest)
<1>1. amsQ \in Seq(ServiceRequest)
  BY DEF IInv, CallersTyped
<1>. QED
  BY <1>1 DEF ScheduleAms

\* A client's step on its own memory.
LEMMA CallerKeeps ==
    ASSUME IInv, UNCHANGED <<rec, app, lastToken, dangling, reread, proc>>,
           DOMAIN box' \subseteq Client,
           amsQ' \in Seq(ServiceRequest), lib' \in [Client -> LibType],
           view' \in [Client -> [Conn -> ViewType]]
    PROVE  IInv'
<1>1. SInv(State')
  BY ClientKeeps DEF IInv
<1>2. CallersTyped'
  BY DEF CallersTyped, LibType, ViewType
<1>. QED
  BY <1>1, <1>2 DEF IInv

LEMMA CallersMemory ==
    ASSUME IInv
    PROVE  /\ amsQ \in Seq(ServiceRequest) /\ lib \in [Client -> LibType]
           /\ view \in [Client -> [Conn -> ViewType]] /\ Alives \subseteq Client
BY StateFields DEF IInv, CallersTyped, LibType, ViewType, SInv, Typed, Alives

LEMMA ClientConnectKeeps ==
    ASSUME IInv, NEW c \in Client, NEW k \in Conn, NEW a \in Wanted[c], ClientConnect(c, k, a)
    PROVE  IInv'
<1>. DEFINE m == ConnectRequest(c, k, a)
<1>1. a \in Ability
  BY ConnectAssumption
<1>2. m \in ServiceRequest
  <2>1. TokenOf(c) \in Nat
    BY ConnectAssumption DEF TokenOf, DefaultToken
  <2>. QED
    BY <1>1, <2>1 DEF ConnectRequest, ServiceRequest
<1>3. ScheduleAms(m)
  BY DEF ClientConnect
<1>. HIDE DEF m
<1>4. amsQ' \in Seq(ServiceRequest)
  BY <1>2, <1>3, ScheduleAmsKeeps
<1>5. lib' \in [Client -> LibType]
  BY CallersMemory DEF ClientConnect, LibType
<1>6. view' \in [Client -> [Conn -> ViewType]]
  <2>1. [told |-> "asked", service |-> a] \in ViewType
    BY <1>1 DEF ViewType
  <2>. QED
    BY <2>1, CallersMemory DEF ClientConnect
<1>7. UNCHANGED <<rec, app, lastToken, dangling, reread, proc, box>>
  BY DEF ClientConnect, amsVars
<1>. QED
  BY <1>4, <1>5, <1>6, <1>7, CallersMemory, CallerKeeps DEF Alives

LEMMA ClientDisconnectKeeps ==
    ASSUME IInv, NEW c \in Client, NEW k \in Conn, ClientDisconnect(c, k)
    PROVE  IInv'
<1>. DEFINE m == DisconnectRequest(c)
<1>1. m \in ServiceRequest
  <2>1. TokenOf(c) \in Nat
    BY ConnectAssumption DEF TokenOf, DefaultToken
  <2>. QED
    BY <2>1 DEF DisconnectRequest, ServiceRequest
<1>2. ScheduleAms(m)
  BY DEF ClientDisconnect
<1>. HIDE DEF m
<1>3. amsQ' \in Seq(ServiceRequest)
  BY <1>1, <1>2, ScheduleAmsKeeps
<1>4. lib' \in [Client -> LibType]
  BY CallersMemory DEF ClientDisconnect, LibType
<1>5. view' \in [Client -> [Conn -> ViewType]]
  BY CallersMemory DEF ClientDisconnect, ViewType
<1>6. UNCHANGED <<rec, app, lastToken, dangling, reread, proc, box>>
  BY DEF ClientDisconnect, amsVars
<1>. QED
  BY <1>3, <1>4, <1>5, <1>6, CallersMemory, CallerKeeps DEF Alives

LEMMA ClientDiesKeeps ==
    ASSUME IInv, NEW c \in Client, ClientDies(c)
    PROVE  IInv'
<1>. DEFINE m == [id |-> "clientDied", client |-> c]
<1>1. m \in ServiceRequest
  BY DEF ServiceRequest
<1>2. ScheduleAms(m)
  BY DEF ClientDies
<1>. HIDE DEF m
<1>3. amsQ' \in Seq(ServiceRequest)
  BY <1>1, <1>2, ScheduleAmsKeeps
<1>4. lib' \in [Client -> LibType]
  <2>. DEFINE y == [store |-> {}, stub |-> None, clearing |-> None, corrupt |-> FALSE]
  <2>1. y \in LibType
    BY DEF LibType
  <2>2. lib' = [lib EXCEPT ![c] = y]
    BY DEF ClientDies
  <2>. HIDE DEF y
  <2>. QED
    BY <2>1, <2>2, CallersMemory
<1>5. view' \in [Client -> [Conn -> ViewType]]
  <2>. DEFINE y == [k \in Conn |-> [view[c][k] EXCEPT !.told = "idle"]]
  <2>1. y \in [Conn -> ViewType]
    BY CallersMemory DEF ViewType
  <2>2. view' = [view EXCEPT ![c] = y]
    BY DEF ClientDies
  <2>. HIDE DEF y
  <2>. QED
    BY <2>1, <2>2, CallersMemory
<1>6. UNCHANGED <<rec, app, lastToken, dangling, reread, proc>>
  BY DEF ClientDies, amsVars
<1>7. DOMAIN box' \subseteq Client
  BY CallersMemory DEF ClientDies, Drop, Alives
<1>. QED
  BY <1>3, <1>4, <1>5, <1>6, <1>7, CallerKeeps

\* Clients that start or stop a service.
LEMMA ClientStartKeeps ==
    ASSUME IInv, NEW a \in Ability, ClientStart(a) \/ ClientStop(a)
    PROVE  IInv'
<1>. DEFINE m == [id |-> "start", service |-> a]
            n == StopRequest(a)
<1>1. m \in ServiceRequest /\ n \in ServiceRequest
  BY DEF ServiceRequest, StopRequest
<1>2. ScheduleAms(m) \/ ScheduleAms(n)
  BY DEF ClientStart, ClientStop
<1>. HIDE DEF m, n
<1>3. amsQ' \in Seq(ServiceRequest)
  BY <1>1, <1>2, ScheduleAmsKeeps
<1>4. UNCHANGED <<rec, app, lastToken, dangling, reread, proc, box, lib, view>>
  BY DEF ClientStart, ClientStop, amsVars, clientVars
<1>. QED
  BY <1>3, <1>4, CallersMemory, CallerKeeps DEF Alives

LEMMA CallbackKeeps ==
    ASSUME IInv, NEW c \in Client, CallbackNext(c)
    PROVE  IInv'
<1>1. CASE ClearStore(c)
  <2>1. lib' \in [Client -> LibType]
    BY <1>1, CallersMemory DEF ClearStore, LibType
  <2>2. UNCHANGED <<rec, app, lastToken, dangling, reread, proc, box, amsQ, view>>
    BY <1>1 DEF ClearStore, amsVars
  <2>. QED
    BY <2>1, <2>2, CallersMemory, CallerKeeps DEF Alives
<1>2. CASE ConnectAbilityCallBack(c)
  <2>. DEFINE k == lib[c].stub
  <2>1. lib[c] \in LibType /\ (Held(c) => k \in Conn)
    BY CallersMemory DEF LibType, Held
  <2>. HIDE DEF k
  <2>2. lib' \in [Client -> LibType]
    <3>1. \/ lib' = [lib EXCEPT ![c].corrupt = TRUE]
          \/ UNCHANGED lib
          \/ lib' = [lib EXCEPT ![c].store = @ \ {k}, ![c].corrupt = (lib[c].clearing = k)]
      BY <1>2 DEF ConnectAbilityCallBack, k
    <3>. DEFINE x == [lib[c] EXCEPT !.corrupt = TRUE]
                y == [lib[c] EXCEPT !.store = @ \ {k}, !.corrupt = (lib[c].clearing = k)]
    <3>2. x \in LibType /\ y \in LibType
      BY <2>1 DEF LibType
    <3>3. lib' \in {[lib EXCEPT ![c] = x], lib, [lib EXCEPT ![c] = y]}
      BY <3>1, CallersMemory
    <3>. HIDE DEF x, y
    <3>. QED
      BY <3>2, <3>3, CallersMemory
  <2>3. view' \in [Client -> [Conn -> ViewType]]
    <3>1. \/ UNCHANGED view
          \/ Held(c) /\ view' = [view EXCEPT ![c][k].told = "connected"]
          \/ Held(c) /\ view' = [view EXCEPT ![c][k].told = "idle"]
      BY <1>2 DEF ConnectAbilityCallBack, k
    <3>2. \A told \in {"connected", "idle"} :
             k \in Conn => [view EXCEPT ![c][k].told = told] \in [Client -> [Conn -> ViewType]]
      BY CallersMemory DEF ViewType
    <3>. QED
      BY <2>1, <3>1, <3>2, CallersMemory
  <2>4. UNCHANGED <<rec, app, lastToken, dangling, reread, proc, amsQ>> /\ DOMAIN box' = DOMAIN box
    BY <1>2 DEF ConnectAbilityCallBack, amsVars
  <2>. QED
    BY <2>2, <2>3, <2>4, CallersMemory, CallerKeeps DEF Alives
<1>. QED
  BY <1>1, <1>2 DEF CallbackNext

-----------------------------------------------------------------------------
(* The processes.                                                          *)

\* A step of process p: it becomes q, and may put a request in the queue.
LEMMA ProcessBecomes ==
    ASSUME IInv, ProcUnchanged \/ UNCHANGED <<amsVars, clientVars, amsQ, requests>>,
           NEW p \in DOMAIN proc, NEW q, ServiceProcess(q), proc' = [proc EXCEPT ![p] = q],
           amsQ' \in Seq(ServiceRequest)
    PROVE  IInv'
<1>1. DOMAIN proc \subseteq Token /\ \A r \in DOMAIN proc : ServiceProcess(proc[r])
  BY StateFields DEF IInv, SInv, Typed
<1>2. /\ DOMAIN proc' = DOMAIN proc
      /\ \A r \in DOMAIN proc : proc'[r] = IF r = p THEN q ELSE proc[r]
  OBVIOUS
<1>3. UNCHANGED <<rec, app, lastToken, dangling, reread, box, lib, view>>
  BY DEF ProcUnchanged, amsVars, clientVars
<1>4. SInv(State')
  BY <1>1, <1>2, <1>3, ProcessKeeps DEF IInv
<1>5. CallersTyped'
  BY <1>3 DEF IInv, CallersTyped
<1>. QED
  BY <1>4, <1>5 DEF IInv

\* A process at the head of its inbox.
LEMMA InboxTyped ==
    ASSUME IInv, NEW p \in DOMAIN proc
    PROVE  /\ ServiceProcess(proc[p]) /\ p \in Token /\ amsQ \in Seq(ServiceRequest)
           /\ \A type : Receives(p, type) =>
                 /\ Head(proc[p].inbox) \in ServiceMessage
                 /\ Head(proc[p].inbox).type = type
                 /\ Tail(proc[p].inbox) \in Seq(ServiceMessage)
<1>1. ServiceProcess(proc[p]) /\ p \in Token
  BY StateFields DEF IInv, SInv, Typed
<1>2. proc[p].inbox \in Seq(ServiceMessage)
  BY <1>1 DEF ServiceProcess
<1>3. amsQ \in Seq(ServiceRequest)
  BY DEF IInv, CallersTyped
<1>. QED
  BY <1>1, <1>2, <1>3 DEF Receives

LEMMA PostTyped ==
    ASSUME amsQ \in Seq(ServiceRequest), NEW m \in ServiceRequest, Post(m)
    PROVE  amsQ' \in Seq(ServiceRequest)
BY DEF Post

\* A process that dies.
LEMMA DieKeeps ==
    ASSUME IInv, NEW p \in DOMAIN proc, Die(p), UNCHANGED amsQ,
           ProcUnchanged \/ UNCHANGED <<amsVars, clientVars, amsQ, requests>>
    PROVE  IInv'
<1>. DEFINE q == [proc[p] EXCEPT !.phase = "dead", !.inbox = <<>>, !.hosted = <<>>]
<1>1. ServiceProcess(proc[p]) /\ amsQ' \in Seq(ServiceRequest)
  BY InboxTyped
<1>2. ServiceProcess(q)
  BY <1>1 DEF ServiceProcess, TokenMap
<1>3. proc' = [proc EXCEPT ![p] = q]
  BY DEF Die
<1>. HIDE DEF q
<1>. QED
  BY <1>1, <1>2, <1>3, ProcessBecomes

LEMMA ProcStepKeeps ==
    ASSUME IInv, NEW p \in DOMAIN proc, ProcNext(p)
    PROVE  IInv'
<1>. DEFINE m == Head(proc[p].inbox)
<1>1. ServiceProcess(proc[p]) /\ p \in Token /\ amsQ \in Seq(ServiceRequest)
  BY InboxTyped
<1>2. CASE ThreadMain(p)
  <2>. DEFINE q == [proc[p] EXCEPT !.phase = "running"]
              a == [id |-> "attach", proc |-> p]
  <2>1. ServiceProcess(q)
    BY <1>1 DEF ServiceProcess
  <2>2. a \in ServiceRequest
    BY <1>1 DEF ServiceRequest
  <2>3. proc' = [proc EXCEPT ![p] = q] /\ Post(a) /\ ProcUnchanged
    BY <1>2 DEF ThreadMain
  <2>. HIDE DEF q, a
  <2>. QED
    BY <1>1, <2>1, <2>2, <2>3, PostTyped, ProcessBecomes
<1>3. CASE PerformAppInit(p)
  <2>. DEFINE q == [proc[p] EXCEPT !.inbox = Tail(@), !.inited = TRUE]
  <2>1. Tail(proc[p].inbox) \in Seq(ServiceMessage)
    BY <1>3, InboxTyped DEF PerformAppInit
  <2>2. ServiceProcess(q)
    BY <1>1, <2>1 DEF ServiceProcess
  <2>3. proc' = [proc EXCEPT ![p] = q] /\ UNCHANGED amsQ /\ ProcUnchanged
    BY <1>3 DEF PerformAppInit
  <2>. HIDE DEF q
  <2>. QED
    BY <1>1, <2>2, <2>3, ProcessBecomes
<1>4. CASE PerformTransactAbilityState(p)
  <2>. DEFINE state == IF m.ability \in Unloadable THEN "INITIAL" ELSE m.state
              h == CASE state = "INITIAL" -> Drop(proc[p].hosted, {m.token})
                     [] state # "INITIAL" /\ m.token \in DOMAIN proc[p].hosted -> proc[p].hosted
                     [] OTHER -> With(proc[p].hosted, m.token, FALSE)
              q == [proc[p] EXCEPT !.inbox = Tail(@), !.hosted = h]
              a == [id |-> "done", token |-> m.token, state |-> state]
  <2>1. m \in ServiceMessage /\ m.type = "transact" /\ Tail(proc[p].inbox) \in Seq(ServiceMessage)
    BY <1>4, InboxTyped DEF PerformTransactAbilityState
  <2>2. m.token \in Token /\ m.state \in ServiceState
    BY <2>1 DEF ServiceMessage
  <2>3. proc' = [proc EXCEPT ![p] = q] /\ Post(a) /\ ProcUnchanged
    BY <1>4 DEF PerformTransactAbilityState
  <2>. HIDE DEF m
  <2>4. state \in ServiceState
    BY <2>2 DEF ServiceState
  <2>. HIDE DEF state
  <2>5. a \in ServiceRequest
    BY <2>2, <2>4 DEF ServiceRequest
  <2>6. TokenMap(h, BOOLEAN)
    <3>1. h \in {Drop(proc[p].hosted, {m.token}), proc[p].hosted,
                 With(proc[p].hosted, m.token, FALSE)}
      OBVIOUS
    <3>2. TokenMap(proc[p].hosted, BOOLEAN)
      BY <1>1 DEF ServiceProcess
    <3>3. /\ TokenMap(Drop(proc[p].hosted, {m.token}), BOOLEAN)
          /\ TokenMap(With(proc[p].hosted, m.token, FALSE), BOOLEAN)
      BY <2>2, <3>2 DEF TokenMap, Drop, With
    <3>. HIDE DEF h
    <3>. QED
      BY <3>1, <3>2, <3>3
  <2>. HIDE DEF h, a
  <2>7. ServiceProcess(q)
    BY <1>1, <2>1, <2>6 DEF ServiceProcess
  <2>. HIDE DEF q
  <2>. QED
    BY <1>1, <2>3, <2>5, <2>7, PostTyped, ProcessBecomes
<1>5. ASSUME NEW type \in {"connect", "disconnect"}, NEW value \in BOOLEAN, Receives(p, type)
      PROVE  /\ m.token \in Token
             /\ ServiceProcess([proc[p] EXCEPT !.inbox = Tail(@)])
             /\ m.token \in Hosted(p) =>
                   ServiceProcess([proc[p] EXCEPT !.inbox = Tail(@), !.hosted[m.token] = value])
  <2>1. m \in ServiceMessage /\ m.type = type /\ Tail(proc[p].inbox) \in Seq(ServiceMessage)
    BY <1>5, InboxTyped
  <2>2. m.token \in Token
    BY <2>1 DEF ServiceMessage
  <2>. HIDE DEF m
  <2>3. TokenMap([proc[p].hosted EXCEPT ![m.token] = value], BOOLEAN)
    BY <1>1 DEF ServiceProcess, TokenMap
  <2>4. ServiceProcess([proc[p] EXCEPT !.inbox = Tail(@)])
    BY <1>1, <2>1 DEF ServiceProcess
  <2>5. ServiceProcess([proc[p] EXCEPT !.inbox = Tail(@), !.hosted[m.token] = value])
    BY <1>1, <2>1, <2>3 DEF ServiceProcess
  <2>. QED
    BY <2>2, <2>4, <2>5
<1>6. CASE PerformConnectAbility(p)
  <2>. DEFINE q0 == [proc[p] EXCEPT !.inbox = Tail(@)]
              q1 == [proc[p] EXCEPT !.inbox = Tail(@), !.hosted[m.token] = TRUE]
              a  == ConnectDoneRequest(m.token)
  <2>1. /\ m.token \in Token /\ ServiceProcess(q0)
        /\ m.token \in Hosted(p) => ServiceProcess(q1)
    BY <1>5, <1>6 DEF PerformConnectAbility
  <2>2. a \in ServiceRequest
    BY <2>1 DEF ConnectDoneRequest, ServiceRequest
  <2>3. /\ \/ proc' = [proc EXCEPT ![p] = q0] /\ UNCHANGED amsQ
           \/ m.token \in Hosted(p) /\ proc' = [proc EXCEPT ![p] = q1] /\ Post(a)
        /\ ProcUnchanged
    BY <1>6 DEF PerformConnectAbility
  <2>. HIDE DEF q0, q1, a, m
  <2>4. amsQ' \in Seq(ServiceRequest)
    BY <1>1, <2>2, <2>3, PostTyped
  <2>. QED
    BY <2>1, <2>3, <2>4, ProcessBecomes
<1>7. CASE PerformDisconnectAbility(p)
  <2>. DEFINE q0 == [proc[p] EXCEPT !.inbox = Tail(@)]
              q1 == [proc[p] EXCEPT !.inbox = Tail(@), !.hosted[m.token] = FALSE]
              a  == DisconnectDoneRequest(m.token)
  <2>1. /\ m.token \in Token /\ ServiceProcess(q0)
        /\ m.token \in Hosted(p) => ServiceProcess(q1)
    BY <1>5, <1>7 DEF PerformDisconnectAbility
  <2>2. a \in ServiceRequest
    BY <2>1 DEF DisconnectDoneRequest, ServiceRequest
  <2>3. /\ \/ proc' = [proc EXCEPT ![p] = q0] /\ UNCHANGED amsQ
           \/ m.token \in Hosted(p) /\ proc' = [proc EXCEPT ![p] = q1] /\ Post(a)
        /\ ProcUnchanged
    BY <1>7 DEF PerformDisconnectAbility
  <2>. HIDE DEF q0, q1, a, m
  <2>4. amsQ' \in Seq(ServiceRequest)
    BY <1>1, <2>2, <2>3, PostTyped
  <2>. QED
    BY <2>1, <2>3, <2>4, ProcessBecomes
<1>8. CASE PerformAppExit(p)
  <2>. DEFINE q == [proc[p] EXCEPT !.inbox = Append(Tail(@), [type |-> "quit"])]
  <2>1. Tail(proc[p].inbox) \in Seq(ServiceMessage)
    BY <1>8, InboxTyped DEF PerformAppExit
  <2>2. Append(Tail(proc[p].inbox), [type |-> "quit"]) \in Seq(ServiceMessage)
    <3>. DEFINE x == [type |-> "quit"]
    <3>1. x \in ServiceMessage
      BY DEF ServiceMessage
    <3>. HIDE DEF x
    <3>2. Append(Tail(proc[p].inbox), x) \in Seq(ServiceMessage)
      BY <2>1, <3>1
    <3>. QED
      BY <3>2 DEF x
  <2>3. ServiceProcess(q)
    BY <1>1, <2>2 DEF ServiceProcess
  <2>4. proc' = [proc EXCEPT ![p] = q] /\ UNCHANGED amsQ /\ ProcUnchanged
    BY <1>8 DEF PerformAppExit
  <2>. HIDE DEF q
  <2>. QED
    BY <1>1, <2>3, <2>4, ProcessBecomes
<1>9. CASE Quit(p)
  BY <1>9, DieKeeps DEF Quit
<1>10. CASE AppDeathNotify(p)
  <2>. DEFINE a == [id |-> "restart", bundle |-> proc[p].bundle, proc |-> p]
  <2>1. a \in ServiceRequest
    BY <1>1 DEF ServiceRequest, ServiceProcess
  <2>2. proc' = Drop(proc, {p}) /\ Post(a) /\ ProcUnchanged
    BY <1>10 DEF AppDeathNotify
  <2>. HIDE DEF a
  <2>3. amsQ' \in Seq(ServiceRequest)
    BY <1>1, <2>1, <2>2, PostTyped
  <2>4. DOMAIN proc' \subseteq Token /\ \A r \in DOMAIN proc' : ServiceProcess(proc'[r])
    <3>1. DOMAIN proc \subseteq Token /\ \A r \in DOMAIN proc : ServiceProcess(proc[r])
      BY StateFields DEF IInv, SInv, Typed
    <3>. QED
      BY <2>2, <3>1 DEF Drop
  <2>5. UNCHANGED <<rec, app, lastToken, dangling, reread, box, lib, view>>
    BY <2>2 DEF ProcUnchanged, amsVars, clientVars
  <2>6. SInv(State')
    BY <2>4, <2>5, ProcessKeeps DEF IInv
  <2>. QED
    BY <2>3, <2>5, <2>6 DEF IInv, CallersTyped
<1>. QED
  BY <1>2, <1>3, <1>4, <1>6, <1>7, <1>8, <1>9, <1>10 DEF ProcNext

\* IInv is inductive.
LEMMA StepKeeps == IInv /\ [Next]_vars => IInv'
<1>. SUFFICES ASSUME IInv, [Next]_vars PROVE IInv'
  OBVIOUS
<1>1. CASE ClientNext
  BY <1>1, ClientConnectKeeps, ClientDisconnectKeeps, ClientDiesKeeps, ClientStartKeeps
  DEF ClientNext
<1>2. ASSUME NEW c \in Client, CallbackNext(c) PROVE IInv'
  BY <1>2, CallbackKeeps
<1>3. CASE AmsNext
  BY <1>3, AmsStepKeeps
<1>4. ASSUME NEW p \in DOMAIN proc, ProcNext(p) PROVE IInv'
  BY <1>4, ProcStepKeeps
<1>5. ASSUME NEW p \in DOMAIN proc, Crash(p) PROVE IInv'
  BY <1>5, DieKeeps DEF Crash
<1>6. CASE UNCHANGED vars
  BY <1>6, CallersMemory, CallerKeeps DEF vars, Alives
<1>. QED
  BY <1>1, <1>2, <1>3, <1>4, <1>5, <1>6 DEF Next

-----------------------------------------------------------------------------
(* The theorems.                                                           *)

\* IInv is an invariant: the memory of the service, its queue and what every
\* client and process holds.
THEOREM Invariance == Spec => []IInv
BY InitEstablishes, StepKeeps, PTL DEF Spec

\* The records, the callers and the processes stay well typed; an ability has one
\* service record, however starts, connections and stops of it overlap, and a
\* client process one connection to a service, however often it connects.
THEOREM ConnectTypes == Spec => []ConnectTypeOK
<1>1. IInv => ConnectTypeOK
  <2>. SUFFICES ASSUME IInv PROVE ConnectTypeOK
    OBVIOUS
  <2>1. /\ TokenMap(rec, ServiceType) /\ TokenMap(app, AppType) /\ lastToken \in Nat
        /\ dangling \in BOOLEAN /\ reread \in BOOLEAN
        /\ \A p \in DOMAIN proc : TokenMap(proc[p].hosted, BOOLEAN)
    BY StateFields DEF IInv, SInv, Typed, ServiceProcess
  <2>2. /\ Alives \subseteq Client /\ lib \in [Client -> LibType]
        /\ view \in [Client -> [Conn -> ViewType]]
    BY CallersMemory
  <2>3. \A c \in Client :
           /\ lib[c].store \subseteq Conn
           /\ {lib[c].stub, lib[c].clearing} \subseteq Conn \cup {None}
           /\ lib[c].corrupt \in BOOLEAN
    BY <2>2 DEF LibType
  <2>4. \A c \in Client :
           view[c] \in [Conn -> [told : {"idle", "asked", "connected"}, service : Ability]]
    BY <2>2 DEF ViewType
  <2>5. /\ \A t, u \in DOMAIN rec : rec[t].ability = rec[u].ability => t = u
        /\ \A t \in DOMAIN rec : \A q, r \in rec[t].conns : q.client = r.client => q = r
    BY StateFields DEF IInv, SInv, OneEach
  <2>. QED
    BY <2>1, <2>2, <2>3, <2>4, <2>5 DEF ConnectTypeOK
<1>. QED
  BY <1>1, Invariance, PTL

\* The service follows no pointer of its records to one it has deleted: no order
\* of connections, stops, exits, crashes and client deaths leaves a service that
\* points to the record of a process that is gone, or a process that waits for a
\* service that is gone.  (What RemoveAppRecord does with its argument is not
\* among these pointers: NoDangling of Ams.)
THEOREM ServicesPlaced == Spec => []PointersLive
<1>1. IInv => PointersLive
  BY StateFields DEF IInv, SInv, PointersLive
<1>. QED
  BY <1>1, Invariance, PTL
===============================================================================
