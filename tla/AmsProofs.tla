------------------------------ MODULE AmsProofs ------------------------------
(***************************************************************************)
(* Theorems about the Ability Manager Service of module Ams, for every     *)
(* set of bundles and abilities, every keep-alive list, every queue size   *)
(* and every number of requests and crashes, overlapping or not: the       *)
(* memory of the service stays well typed, its mission stacks stay         *)
(* coherent, its process table, its page records and the processes agree,  *)
(* and the messages to a process come in order.                            *)
(***************************************************************************)
EXTENDS Ams, AmsTableProofs, WellFoundedInduction

\* The inductive invariant: SInv of the memory, and the types of the rest.
QueueTyped ==
    /\ amsQ \in Seq(Request)
    /\ dropped \in BOOLEAN
    /\ requests \in Nat
    /\ crashes \in Nat

IInv == SInv(State) /\ QueueTyped

LEMMA StateFields ==
    /\ DOMAIN State = Fields
    /\ State.order = order /\ State.pages = pages /\ State.prevMission = prevMission
    /\ State.topStack = topStack /\ State.rec = rec /\ State.app = app
    /\ State.lastToken = lastToken /\ State.dangling = dangling /\ State.proc = proc
    /\ State.reread = reread
BY DEF State, Fields

\* SInv does not speak of the status.
LEMMA SInvOfFields ==
    ASSUME NEW s, SInv(s), NEW r, DOMAIN r = Fields,
           r.order = s.order, r.pages = s.pages, r.prevMission = s.prevMission,
           r.topStack = s.topStack, r.rec = s.rec, r.app = s.app,
           r.lastToken = s.lastToken, r.dangling = s.dangling, r.proc = s.proc,
           r.reread = s.reread
    PROVE  SInv(r)
<1>1. SameStack(s, r)
  BY DEF SInv, StateTyped, SameStack
<1>2. StateTyped(r) /\ PendingListed(r)
  BY DEF SInv, StateTyped, PendingListed
<1>. QED
  BY <1>1, <1>2, QuietStep DEF Quiet

\* What a handler commits.
LEMMA CommitKeeps ==
    ASSUME NEW s, SInv(s), Commit(s)
    PROVE  SInv(State)'
<1>. DEFINE r == State'
<1>1. /\ DOMAIN r = Fields
      /\ r.order = s.order /\ r.pages = s.pages /\ r.prevMission = s.prevMission
      /\ r.topStack = s.topStack /\ r.rec = s.rec /\ r.app = s.app
      /\ r.lastToken = s.lastToken /\ r.dangling = s.dangling /\ r.proc = s.proc
      /\ r.reread = s.reread
  BY DEF State, Commit, Fields
<1>. HIDE DEF r
<1>2. SInv(r)
  BY <1>1, SInvOfFields
<1>. QED
  BY <1>2 DEF r

\* A step of the processes or the clients changes processes alone.
LEMMA ProcessStep ==
    ASSUME SInv(State), UNCHANGED amsVars,
           DOMAIN proc' \subseteq Token, \A p \in DOMAIN proc' : IsProcess(proc'[p])
    PROVE  SInv(State)'
<1>. DEFINE s == State
            r == State'
<1>1. /\ DOMAIN r = Fields /\ r.proc = proc'
      /\ \A f \in Fields \ {"proc", "status"} : r[f] = s[f]
  BY DEF State, amsVars, Fields
<1>. HIDE DEF s, r
<1>2. SInv(r)
  BY <1>1, ProcessesQuiet DEF s, Quiet
<1>. QED
  BY <1>2 DEF r

-----------------------------------------------------------------------------
(* The queue.                                                              *)

\* A queue without its head keeps its type.
LEMMA TailTyped ==
    ASSUME NEW S, NEW q \in Seq(S), q # <<>>
    PROVE  Head(q) \in S /\ Tail(q) \in Seq(S)
BY HeadTailProperties

LEMMA PostTyped ==
    ASSUME QueueTyped, NEW m \in Request, Post(m)
    PROVE  amsQ' \in Seq(Request) /\ dropped' \in BOOLEAN
<1>1. amsQ \in Seq(Request) /\ dropped \in BOOLEAN
  BY DEF QueueTyped
<1>2. amsQ' \in Seq(Request)
  BY <1>1 DEF Post
<1>3. dropped' \in BOOLEAN
  BY <1>1 DEF Post
<1>. QED
  BY <1>2, <1>3

\* A request of a client.
LEMMA ClientRequestKeeps ==
    ASSUME IInv, NEW m \in Request, ClientRequest(m)
    PROVE  IInv'
<1>1. SInv(State)'
  BY ProcessStep, StateFields DEF IInv, SInv, StateTyped, ClientRequest
<1>2. amsQ' \in Seq(Request) /\ dropped' \in BOOLEAN
  BY PostTyped DEF IInv, ClientRequest
<1>3. requests' \in Nat /\ crashes' \in Nat
  BY DEF IInv, QueueTyped, ClientRequest
<1>. QED
  BY <1>1, <1>2, <1>3 DEF IInv, QueueTyped

\* A handler whose result keeps SInv.
LEMMA HandleKeeps ==
    ASSUME IInv, amsQ # <<>>, NEW s, SInv(s), Handle(s)
    PROVE  IInv'
<1>1. SInv(State)'
  BY CommitKeeps DEF Handle
<1>2. amsQ' \in Seq(Request)
  BY TailTyped DEF IInv, QueueTyped, Handle
<1>3. QueueTyped'
  BY <1>2 DEF IInv, QueueTyped, Handle
<1>. QED
  BY <1>1, <1>3 DEF IInv

-----------------------------------------------------------------------------
(* The initial state and the steps.                                        *)

LEMMA InitEstablishes == Init => IInv
<1>. SUFFICES ASSUME Init PROVE IInv
  OBVIOUS
<1>. USE DEF Init
<1>1. \A b \in Bundle : pages[b] = <<>> /\ prevMission[b] = None
  OBVIOUS
<1>2. Elements(<<>>) = {}
  BY DEF Elements
<1>3. StateTyped(State)
  <2>1. DOMAIN <<>> = {}
    OBVIOUS
  <2>2. TokenMap(State.rec, RecordType) /\ TokenMap(State.app, AppType)
    BY <2>1, StateFields DEF TokenMap
  <2>3. State.pages \in [Bundle -> Seq(Token)]
    BY StateFields
  <2>4. State.prevMission \in [Bundle -> Bundle \cup {None}]
    BY StateFields
  <2>5. DOMAIN State.proc \subseteq Token /\ \A p \in DOMAIN State.proc : IsProcess(State.proc[p])
    BY <2>1, StateFields
  <2>6. State.order \in Seq(Bundle \ {Launcher})
    BY StateFields
  <2>7. State.dangling \in BOOLEAN /\ State.reread \in BOOLEAN
    <3>1. State.dangling = FALSE /\ State.reread = FALSE
      BY StateFields
    <3>. QED
      BY <3>1
  <2>. QED
    BY <2>2, <2>3, <2>4, <2>5, <2>6, <2>7, StateFields DEF StateTyped
<1>4. MissionsListed(State)
  BY <1>1, <1>2, StateFields DEF MissionsListed, Distinct
<1>5. ReturnsListed(State)
  BY <1>1, StateFields DEF ReturnsListed
<1>6. PagesListed(State)
  <2>1. \A b \in Bundle : Distinct(State.pages[b]) /\ Elements(State.pages[b]) = {}
    BY <1>1, <1>2, StateFields DEF Distinct
  <2>. QED
    BY <2>1, StateFields, PagesListedParts
<1>7. PendingListed(State) /\ Fresh(State)
  BY StateFields DEF PendingListed, Fresh
<1>8. QueueTyped
  <2>1. [id |-> "inited"] \in Request
    BY DEF Request
  <2>2. amsQ \in Seq(Request)
    BY <2>1
  <2>. QED
    BY <2>2 DEF QueueTyped
<1>. QED
  BY <1>3, <1>4, <1>5, <1>6, <1>7, <1>8, StateFields DEF IInv, SInv

\* The request a handler takes.
LEMMA HeadRequest ==
    ASSUME IInv, NEW id, Serves(id)
    PROVE  /\ SInv(State) /\ amsQ \in Seq(Request) /\ amsQ # <<>>
           /\ Head(amsQ) \in Request /\ Tail(amsQ) \in Seq(Request)
           /\ id = "start" => Head(amsQ).ability \in Ability
           /\ id \in {"keepAlive", "terminateApp", "restart"} => Head(amsQ).bundle \in Bundle
<1>1. amsQ \in Seq(Request) /\ amsQ # <<>> /\ Head(amsQ).id = id
  BY DEF IInv, QueueTyped, Serves
<1>2. Head(amsQ) \in Request /\ Tail(amsQ) \in Seq(Request)
  BY <1>1, TailTyped
<1>. QED
  BY <1>1, <1>2 DEF IInv, Request

\* Every handler of the service keeps the invariant.
LEMMA AmsStepKeeps == IInv /\ AmsNext => IInv'
<1>. SUFFICES ASSUME IInv, AmsNext PROVE IInv'
  OBVIOUS
<1>1. CASE ServiceInited
  <2>1. SInv(State) /\ Tail(amsQ) \in Seq(Request)
    BY <1>1, HeadRequest DEF ServiceInited
  <2>2. SInv(State)'
    BY <1>1, <2>1, ProcessStep, StateFields DEF ServiceInited, SInv, StateTyped
  <2>. DEFINE boot == [i \in 1..Len(BootSequence) |->
                         [id |-> "keepAlive", bundle |-> BootSequence[i]]]
  <2>3. boot \in Seq(Request)
    <3>1. BootSequence \in Seq(Bundle) /\ Len(BootSequence) \in Nat
      BY EnvironmentAssumption, LenProperties
    <3>2. ASSUME NEW i \in 1..Len(BootSequence)
          PROVE  [id |-> "keepAlive", bundle |-> BootSequence[i]] \in Request
      <4>1. BootSequence[i] \in Bundle
        BY <3>1, ElementOfSeq
      <4>. QED
        BY <4>1 DEF Request
    <3>. QED
      BY <3>1, <3>2, IsASeq
  <2>. HIDE DEF boot
  <2>4. boot \o Tail(amsQ) \in Seq(Request)
    BY <2>1, <2>3, ConcatProperties
  <2>5. QueueTyped'
    BY <1>1, <2>4 DEF IInv, QueueTyped, ServiceInited, boot
  <2>. QED
    BY <2>2, <2>5 DEF IInv
<1>2. CASE StartKeepAliveApp
  <2>1. PICK fails \in SpawnFailures :
           Handle(StartTask(State, MainAbility[Head(amsQ).bundle], fails))
    BY <1>2 DEF StartKeepAliveApp
  <2>2. SInv(State) /\ amsQ # <<>> /\ Head(amsQ).bundle \in Bundle
    BY <1>2, HeadRequest DEF StartKeepAliveApp
  <2>. QED
    BY <2>1, <2>2, MainAbilities, StartTaskKeeps, HandleKeeps
<1>3. CASE StartAbility
  <2>1. PICK fails \in SpawnFailures : Handle(StartTask(State, Head(amsQ).ability, fails))
    BY <1>3 DEF StartAbility
  <2>2. SInv(State) /\ amsQ # <<>> /\ Head(amsQ).ability \in Ability
    BY <1>3, HeadRequest DEF StartAbility
  <2>. QED
    BY <2>1, <2>2, StartTaskKeeps, HandleKeeps
<1>4. CASE TerminateAbility
  BY <1>4, HeadRequest, TerminateTaskKeeps, HandleKeeps DEF TerminateAbility
<1>5. CASE AttachBundle
  <2>1. PICK watch, permit : Handle(AttachTask(State, Head(amsQ).proc, watch, permit))
    BY <1>5 DEF AttachBundle
  <2>2. SInv(State) /\ amsQ # <<>>
    BY <1>5, HeadRequest DEF AttachBundle
  <2>. QED
    BY <2>1, <2>2, AttachTaskKeeps, HandleKeeps
<1>6. CASE TransactionDone
  <2>1. PICK fails \in SpawnFailures :
           Handle(AbilityTransaction(State, Head(amsQ).token, Head(amsQ).state, fails))
    BY <1>6 DEF TransactionDone
  <2>2. SInv(State) /\ amsQ # <<>>
    BY <1>6, HeadRequest DEF TransactionDone
  <2>. QED
    BY <2>1, <2>2, AbilityTransactionKeeps, HandleKeeps
<1>7. CASE TerminateAppRequest
  BY <1>7, HeadRequest, TerminateAppKeeps, HandleKeeps DEF TerminateAppRequest
<1>8. CASE RestartAppRequest
  <2>1. PICK fails \in SpawnFailures : Handle(RestartApp(State, Head(amsQ).bundle, fails))
    BY <1>8 DEF RestartAppRequest
  <2>2. SInv(State) /\ amsQ # <<>> /\ Head(amsQ).bundle \in Bundle
    BY <1>8, HeadRequest DEF RestartAppRequest
  <2>. QED
    BY <2>1, <2>2, RestartAppKeeps, HandleKeeps
<1>. QED
  BY <1>1, <1>2, <1>3, <1>4, <1>5, <1>6, <1>7, <1>8 DEF AmsNext

\* A step in which one process changes, and posts a request or none.
LEMMA OneProcessKeeps ==
    ASSUME IInv, NEW p \in DOMAIN proc, NEW q, IsProcess(q),
           proc' = [proc EXCEPT ![p] = q], UNCHANGED amsVars,
           amsQ' \in Seq(Request), dropped' \in BOOLEAN,
           requests' \in Nat, crashes' \in Nat
    PROVE  IInv'
<1>1. DOMAIN proc \subseteq Token /\ \A x \in DOMAIN proc : IsProcess(proc[x])
  BY StateFields DEF IInv, SInv, StateTyped
<1>2. /\ DOMAIN proc' = DOMAIN proc
      /\ \A x \in DOMAIN proc : proc'[x] = IF x = p THEN q ELSE proc[x]
  OBVIOUS
<1>3. \A x \in DOMAIN proc' : IsProcess(proc'[x])
  BY <1>1, <1>2
<1>4. SInv(State)'
  BY <1>1, <1>2, <1>3, ProcessStep DEF IInv
<1>5. QueueTyped'
  BY DEF QueueTyped
<1>. QED
  BY <1>4, <1>5 DEF IInv

\* The end of a process.
LEMMA DeadProcessKeeps ==
    ASSUME IInv, NEW p \in DOMAIN proc, Die(p), UNCHANGED amsVars,
           amsQ' \in Seq(Request), dropped' \in BOOLEAN,
           requests' \in Nat, crashes' \in Nat
    PROVE  IInv'
<1>. DEFINE q == [proc[p] EXCEPT !.phase = "dead", !.inbox = <<>>, !.hosted = <<>>]
<1>1. IsProcess(proc[p])
  BY StateFields DEF IInv, SInv, StateTyped
<1>2. IsProcess(q)
  <2>1. DOMAIN <<>> = {}
    OBVIOUS
  <2>2. TokenMap(<<>>, AppState)
    BY <2>1 DEF TokenMap
  <2>3. /\ DOMAIN q = DOMAIN proc[p] /\ q.bundle = proc[p].bundle /\ q.phase = "dead"
        /\ q.watched = proc[p].watched /\ q.inited = proc[p].inited
        /\ q.inbox = <<>> /\ q.hosted = <<>>
    BY <1>1 DEF IsProcess
  <2>. HIDE DEF q
  <2>. QED
    BY <1>1, <2>2, <2>3 DEF IsProcess
<1>3. proc' = [proc EXCEPT ![p] = q]
  BY DEF Die
<1>. HIDE DEF q
<1>. QED
  BY <1>2, <1>3, OneProcessKeeps

\* Every step of a process keeps the invariant.
LEMMA ProcStepKeeps ==
    ASSUME IInv, NEW p \in DOMAIN proc, ProcNext(p)
    PROVE  IInv'
<1>1. /\ DOMAIN proc \subseteq Token /\ IsProcess(proc[p]) /\ p \in Token
      /\ \A x \in DOMAIN proc : IsProcess(proc[x])
  BY StateFields DEF IInv, SInv, StateTyped
<1>2. proc[p].inbox \in Seq(Message) /\ TokenMap(proc[p].hosted, AppState)
  BY <1>1 DEF IsProcess
<1>3. QueueTyped /\ amsQ \in Seq(Request) /\ dropped \in BOOLEAN
  BY DEF IInv, QueueTyped
<1>4. ASSUME UNCHANGED <<requests, crashes>> PROVE requests' \in Nat /\ crashes' \in Nat
  BY <1>3, <1>4 DEF QueueTyped
<1>5. ASSUME NEW m \in Seq(Message) PROVE Append(m, [type |-> "quit"]) \in Seq(Message)
  BY <1>5 DEF Message
<1>6. ASSUME NEW type, Receives(p, type)
      PROVE  /\ Head(proc[p].inbox) \in Message /\ Head(proc[p].inbox).type = type
             /\ Tail(proc[p].inbox) \in Seq(Message)
  BY <1>2, <1>6, TailTyped DEF Receives
<1>7. CASE ThreadMain(p)
  <2>. DEFINE q == [proc[p] EXCEPT !.phase = "running"]
  <2>1. IsProcess(q)
    BY <1>1 DEF IsProcess
  <2>2. proc' = [proc EXCEPT ![p] = q] /\ UNCHANGED amsVars /\ UNCHANGED <<requests, crashes>>
    BY <1>7 DEF ThreadMain, EnvUnchanged
  <2>3. [id |-> "attach", proc |-> p] \in Request
    BY <1>1 DEF Request
  <2>4. amsQ' \in Seq(Request) /\ dropped' \in BOOLEAN
    BY <1>3, <1>7, <2>3, PostTyped DEF ThreadMain
  <2>. HIDE DEF q
  <2>. QED
    BY <1>4, <2>1, <2>2, <2>4, OneProcessKeeps
<1>8. CASE PerformAppInit(p)
  <2>. DEFINE q == [proc[p] EXCEPT !.inbox = Tail(@), !.inited = TRUE]
  <2>1. IsProcess(q)
    BY <1>1, <1>6, <1>8 DEF IsProcess, PerformAppInit
  <2>2. proc' = [proc EXCEPT ![p] = q] /\ UNCHANGED amsVars /\ UNCHANGED <<requests, crashes>>
    BY <1>8 DEF PerformAppInit, EnvUnchanged
  <2>3. amsQ' \in Seq(Request) /\ dropped' \in BOOLEAN
    BY <1>3, <1>8 DEF PerformAppInit
  <2>. HIDE DEF q
  <2>. QED
    BY <1>4, <2>1, <2>2, <2>3, OneProcessKeeps
<1>9. CASE PerformTransactAbilityState(p)
  <2>. DEFINE m       == Head(proc[p].inbox)
              t       == m.token
              known   == t \in Hosted(p)
              loaded  == known \/ m.ability \notin Unloadable
              current == IF known THEN proc[p].hosted[t] ELSE "INITIAL"
              state   == IF loaded THEN Transacted(current, m.state) ELSE "INITIAL"
              h       == IF state = "INITIAL" THEN Drop(proc[p].hosted, {t})
                                              ELSE With(proc[p].hosted, t, state)
              q       == [proc[p] EXCEPT !.inbox = Tail(@), !.hosted = h]
  <2>1. /\ proc' = [proc EXCEPT ![p] = q] /\ Post([id |-> "done", token |-> t, state |-> state])
        /\ UNCHANGED amsVars /\ UNCHANGED <<requests, crashes>>
    BY <1>9 DEF PerformTransactAbilityState, EnvUnchanged
  <2>2. m \in Message /\ m.type = "transact" /\ Tail(proc[p].inbox) \in Seq(Message)
    BY <1>6, <1>9 DEF PerformTransactAbilityState
  <2>. HIDE DEF m
  <2>3. t \in Token /\ m.state \in AppState
    BY <2>2 DEF Message
  <2>4. current \in AppState
    BY <1>2 DEF TokenMap, Hosted, AppState
  <2>. HIDE DEF current, loaded, t
  <2>5. state \in AppState
    BY <2>3, <2>4 DEF Transacted, AppState
  <2>. HIDE DEF state
  <2>6. TokenMap(h, AppState)
    BY <1>2, <2>3, <2>5 DEF TokenMap, With, Drop
  <2>. HIDE DEF h
  <2>7. IsProcess(q)
    BY <1>1, <2>2, <2>6 DEF IsProcess
  <2>8. [id |-> "done", token |-> t, state |-> state] \in Request
    BY <2>3, <2>5 DEF Request
  <2>9. amsQ' \in Seq(Request) /\ dropped' \in BOOLEAN
    BY <1>3, <2>1, <2>8, PostTyped
  <2>. HIDE DEF q
  <2>. QED
    BY <1>4, <2>1, <2>7, <2>9, OneProcessKeeps
<1>10. CASE PerformAppExit(p)
  <2>. DEFINE q == [proc[p] EXCEPT !.inbox = Append(Tail(@), [type |-> "quit"])]
  <2>1. IsProcess(q)
    <3>1. Append(Tail(proc[p].inbox), [type |-> "quit"]) \in Seq(Message)
      BY <1>5, <1>6, <1>10 DEF PerformAppExit
    <3>. QED
      BY <1>1, <3>1 DEF IsProcess
  <2>2. proc' = [proc EXCEPT ![p] = q] /\ UNCHANGED amsVars /\ UNCHANGED <<requests, crashes>>
    BY <1>10 DEF PerformAppExit, EnvUnchanged
  <2>3. amsQ' \in Seq(Request) /\ dropped' \in BOOLEAN
    BY <1>3, <1>10 DEF PerformAppExit
  <2>. HIDE DEF q
  <2>. QED
    BY <1>4, <2>1, <2>2, <2>3, OneProcessKeeps
<1>11. CASE Quit(p)
  BY <1>3, <1>4, <1>11, DeadProcessKeeps DEF Quit, EnvUnchanged
<1>12. CASE AppDeathNotify(p)
  <2>1. SInv(State)'
    <3>1. proc' = Drop(proc, {p}) /\ UNCHANGED amsVars
      BY <1>12 DEF AppDeathNotify, EnvUnchanged
    <3>2. DOMAIN proc' \subseteq DOMAIN proc /\ \A x \in DOMAIN proc' : proc'[x] = proc[x]
      BY <3>1 DEF Drop
    <3>. QED
      BY <1>1, <3>1, <3>2, ProcessStep DEF IInv
  <2>2. [id |-> "restart", bundle |-> proc[p].bundle] \in Request
    BY <1>1 DEF IsProcess, Request
  <2>3. amsQ' \in Seq(Request) /\ dropped' \in BOOLEAN
    BY <1>3, <1>12, <2>2, PostTyped DEF AppDeathNotify
  <2>4. UNCHANGED <<requests, crashes>>
    BY <1>12 DEF AppDeathNotify, EnvUnchanged
  <2>. QED
    BY <1>4, <2>1, <2>3, <2>4 DEF IInv, QueueTyped
<1>. QED
  BY <1>7, <1>8, <1>9, <1>10, <1>11, <1>12 DEF ProcNext

\* The invariant is inductive.
LEMMA StepKeeps == IInv /\ [Next]_vars => IInv'
<1>. SUFFICES ASSUME IInv, [Next]_vars PROVE IInv'
  OBVIOUS
<1>1. ASSUME NEW a \in Ability, RequestStart(a) PROVE IInv'
  <2>1. [id |-> "start", ability |-> a] \in Request
    BY DEF Request
  <2>. QED
    BY <1>1, <2>1, ClientRequestKeeps DEF RequestStart
<1>2. ASSUME NEW p \in Live, NEW t \in Hosted(p), RequestTerminate(t) PROVE IInv'
  <2>1. t \in Token
    <3>1. IsProcess(proc[p])
      BY StateFields DEF IInv, SInv, StateTyped, Live
    <3>. QED
      BY <3>1 DEF IsProcess, TokenMap, Hosted
  <2>2. [id |-> "terminate", token |-> t] \in Request
    BY <2>1 DEF Request
  <2>. QED
    BY <1>2, <2>2, ClientRequestKeeps DEF RequestTerminate
<1>3. ASSUME NEW b \in Bundle, RequestTerminateApp(b) PROVE IInv'
  <2>1. [id |-> "terminateApp", bundle |-> b] \in Request
    BY DEF Request
  <2>. QED
    BY <1>3, <2>1, ClientRequestKeeps DEF RequestTerminateApp
<1>4. CASE AmsNext
  BY <1>4, AmsStepKeeps
<1>5. ASSUME NEW p \in DOMAIN proc, ProcNext(p) PROVE IInv'
  BY <1>5, ProcStepKeeps
<1>6. ASSUME NEW p \in DOMAIN proc, Crash(p) PROVE IInv'
  <2>1. amsQ \in Seq(Request) /\ dropped \in BOOLEAN /\ requests \in Nat /\ crashes \in Nat
    BY DEF IInv, QueueTyped
  <2>. QED
    BY <1>6, <2>1, DeadProcessKeeps DEF Crash
<1>7. CASE UNCHANGED vars
  <2>1. SInv(State)'
    BY <1>7, ProcessStep, StateFields DEF vars, amsVars, IInv, SInv, StateTyped
  <2>2. QueueTyped'
    BY <1>7 DEF vars, IInv, QueueTyped
  <2>. QED
    BY <2>1, <2>2 DEF IInv
<1>. QED
  BY <1>1, <1>2, <1>3, <1>4, <1>5, <1>6, <1>7 DEF Next

-----------------------------------------------------------------------------
(* What the requests in the queue q say, d if one has been dropped.        *)

ReportsIn(q, t) == {i \in 1..Len(q) : q[i].id = "done" /\ q[i].token = t}

LastReport(q, t) == q[CHOOSE i \in ReportsIn(q, t) : \A j \in ReportsIn(q, t) : j <= i].state

Env(q, d) ==
    [lost  |-> IF d THEN Bundle
               ELSE {b \in Bundle : [id |-> "restart", bundle |-> b] \in Elements(q)},
     said  |-> [t \in {u \in Token : ReportsIn(q, u) # {}} |-> LastReport(q, t)],
     whole |-> ~d]

\* The process table, the inboxes and the records agree.
Tables == Table(State, Env(amsQ, dropped))

\* A set of positions has a last one.
LEMMA LastPosition ==
    ASSUME NEW n \in Nat, NEW R, R \subseteq 1..n, R # {}
    PROVE  \E i \in R : \A j \in R : j <= i
<1>. DEFINE D == {n - i : i \in R}
            L == OpToRel(<, Nat)
<1>1. D \subseteq Nat /\ D # {}
  <2>1. \A i \in R : n - i \in Nat
    OBVIOUS
  <2>. HIDE DEF L
  <2>. QED
    BY <2>1
<1>2. PICK d \in D : \A c \in D : ~(<<c, d>> \in L)
  <2>. HIDE DEF D, L
  <2>1. IsWellFoundedOn(L, Nat)
    BY NatLessThanWellFounded DEF L
  <2>. QED
    BY <1>1, <2>1, WFMin
<1>3. \A c \in D : ~(c < d)
  <2>1. \A x, y \in Nat : x < y => <<x, y>> \in L
    BY DEF OpToRel
  <2>. HIDE DEF L, D
  <2>. QED
    BY <1>1, <1>2, <2>1
<1>4. PICK i \in R : d = n - i
  OBVIOUS
<1>5. ASSUME NEW j \in R PROVE j <= i
  BY <1>3, <1>4
<1>. QED
  BY <1>5

\* i is the place of the last waiting answer about page t.
Latest(q, t, i) == i \in ReportsIn(q, t) /\ \A j \in ReportsIn(q, t) : j <= i

LEMMA LatestReport ==
    ASSUME NEW q \in Seq(Request), NEW t
    PROVE  /\ ReportsIn(q, t) # {} => \E i : Latest(q, t, i)
           /\ \A i : Latest(q, t, i) => LastReport(q, t) = q[i].state
<1>1. Len(q) \in Nat /\ ReportsIn(q, t) \subseteq 1..Len(q)
  BY LenProperties DEF ReportsIn
<1>2. ReportsIn(q, t) # {} => \E i : Latest(q, t, i)
  BY <1>1, LastPosition DEF Latest
<1>3. ASSUME NEW i, Latest(q, t, i) PROVE LastReport(q, t) = q[i].state
  <2>1. (CHOOSE k \in ReportsIn(q, t) : \A j \in ReportsIn(q, t) : j <= k) = i
    BY <1>1, <1>3 DEF Latest
  <2>. QED
    BY <2>1 DEF LastReport
<1>. QED
  BY <1>2, <1>3

\* r is q with k requests before it.
LEMMA RequestsBefore ==
    ASSUME NEW q \in Seq(Request), NEW r \in Seq(Request), NEW k \in Nat,
           Len(r) = k + Len(q), \A i \in 1..Len(q) : r[k + i] = q[i], NEW t
    PROVE  /\ ReportsIn(q, t) # {} =>
                 ReportsIn(r, t) # {} /\ LastReport(r, t) = LastReport(q, t)
           /\ ReportsIn(q, t) = {} /\ ReportsIn(r, t) # {} =>
                 \E i \in 1..k : Latest(r, t, i)
<1>1. Len(q) \in Nat /\ Len(r) \in Nat
  BY LenProperties
<1>2. \A i \in 1..Len(r) : i \in 1..k \/ (i - k \in 1..Len(q) /\ r[i] = q[i - k])
  BY <1>1
<1>3. ASSUME NEW i, Latest(q, t, i) PROVE Latest(r, t, k + i)
  <2>1. i \in 1..Len(q) /\ k + i \in ReportsIn(r, t)
    BY <1>1, <1>3 DEF Latest, ReportsIn
  <2>2. ASSUME NEW j \in ReportsIn(r, t) PROVE j <= k + i
    <3>1. j \in 1..k \/ j - k \in ReportsIn(q, t)
      BY <1>2 DEF ReportsIn
    <3>2. j \in Nat /\ (j - k \in ReportsIn(q, t) => j - k <= i)
      BY <1>1, <1>3 DEF Latest, ReportsIn
    <3>. QED
      BY <2>1, <3>1, <3>2
  <2>. QED
    BY <2>1, <2>2 DEF Latest
<1>4. ASSUME ReportsIn(q, t) # {}
      PROVE  ReportsIn(r, t) # {} /\ LastReport(r, t) = LastReport(q, t)
  <2>1. PICK i : Latest(q, t, i)
    BY <1>4, LatestReport
  <2>2. Latest(r, t, k + i) /\ r[k + i] = q[i]
    BY <1>3, <2>1 DEF Latest, ReportsIn
  <2>. QED
    BY <2>1, <2>2, LatestReport DEF Latest
<1>5. ASSUME ReportsIn(q, t) = {}, ReportsIn(r, t) # {}
      PROVE  \E i \in 1..k : Latest(r, t, i)
  <2>1. PICK i : Latest(r, t, i)
    BY <1>5, LatestReport
  <2>2. i \in 1..k
    BY <1>2, <1>5, <2>1 DEF Latest, ReportsIn
  <2>. QED
    BY <2>1, <2>2
<1>. QED
  BY <1>4, <1>5

\* Requests that are neither answers nor death notifications say nothing.
LEMMA SilentBefore ==
    ASSUME NEW q \in Seq(Request), NEW r \in Seq(Request), NEW k \in Nat, NEW d,
           Len(r) = k + Len(q), \A i \in 1..Len(q) : r[k + i] = q[i],
           \A i \in 1..k : r[i].id \notin {"done", "restart"}
    PROVE  Env(r, d) = Env(q, d)
<1>1. Len(q) \in Nat /\ Len(r) \in Nat
  BY LenProperties
<1>2. \A i \in 1..Len(r) : i \in 1..k \/ (i - k \in 1..Len(q) /\ r[i] = q[i - k])
  BY <1>1
<1>3. ASSUME NEW t
      PROVE  /\ ReportsIn(r, t) # {} <=> ReportsIn(q, t) # {}
             /\ ReportsIn(q, t) # {} => LastReport(r, t) = LastReport(q, t)
  <2>1. \A i \in 1..k : i \notin ReportsIn(r, t)
    BY DEF ReportsIn
  <2>. QED
    BY <2>1, RequestsBefore DEF Latest
<1>4. Env(r, d).said = Env(q, d).said
  BY <1>3 DEF Env
<1>5. ASSUME NEW b
      PROVE  [id |-> "restart", bundle |-> b] \in Elements(r)
             <=> [id |-> "restart", bundle |-> b] \in Elements(q)
  <2>. DEFINE m == [id |-> "restart", bundle |-> b]
  <2>1. m.id = "restart"
    OBVIOUS
  <2>. HIDE DEF m
  <2>2. ASSUME NEW i \in 1..Len(r), r[i] = m PROVE \E j \in 1..Len(q) : q[j] = m
    BY <1>2, <2>1, <2>2
  <2>3. ASSUME NEW i \in 1..Len(q), q[i] = m PROVE \E j \in 1..Len(r) : r[j] = m
    <3>1. k + i \in 1..Len(r)
      BY <1>1
    <3>. QED
      BY <2>3, <3>1
  <2>4. m \in Elements(r) <=> m \in Elements(q)
    BY <2>2, <2>3 DEF Elements
  <2>. QED
    BY <2>4 DEF m
<1>6. Env(r, d).lost = Env(q, d).lost
  BY <1>5 DEF Env
<1>. QED
  BY <1>4, <1>6 DEF Env

\* What taking the request at the head changes.
LEMMA HeadSays ==
    ASSUME NEW q \in Seq(Request), q # <<>>, NEW d
    PROVE  LET h == Head(q)
               f == Env(q, d)
               e == Env(Tail(q), d)
           IN  /\ h.id = "done" => Answered(f, e, h.token, h.state)
               /\ h.id = "restart" => Notified(f, e, h.bundle)
               /\ h.id \notin {"done", "restart"} => f = e
<1>. DEFINE h == Head(q)
            r == Tail(q)
            f == Env(q, d)
            e == Env(r, d)
<1>1. /\ r \in Seq(Request) /\ Len(r) \in Nat /\ Len(q) = 1 + Len(r)
      /\ \A i \in 1..Len(r) : q[1 + i] = r[i]
      /\ q[1] = h /\ h \in Request
  BY HeadTailProperties, LenProperties, EmptySeq
<1>. HIDE DEF r, h
<1>2. \A i \in 1..1 : i = 1
  OBVIOUS
<1>3. ASSUME NEW t
      PROVE  /\ ReportsIn(r, t) # {} =>
                   ReportsIn(q, t) # {} /\ LastReport(q, t) = LastReport(r, t)
             /\ ReportsIn(r, t) = {} /\ ReportsIn(q, t) # {} =>
                   /\ h.id = "done" /\ h.token = t
                   /\ LastReport(q, t) = h.state
  <2>1. /\ ReportsIn(r, t) # {} =>
               ReportsIn(q, t) # {} /\ LastReport(q, t) = LastReport(r, t)
        /\ ReportsIn(r, t) = {} /\ ReportsIn(q, t) # {} => \E i \in 1..1 : Latest(q, t, i)
    BY <1>1, RequestsBefore
  <2>2. ASSUME Latest(q, t, 1) PROVE h.id = "done" /\ h.token = t /\ LastReport(q, t) = h.state
    BY <1>1, <2>2, LatestReport DEF Latest, ReportsIn
  <2>. QED
    BY <1>2, <2>1, <2>2
<1>4. ASSUME NEW b
      PROVE  [id |-> "restart", bundle |-> b] \in Elements(q)
             <=> \/ [id |-> "restart", bundle |-> b] \in Elements(r)
                 \/ [id |-> "restart", bundle |-> b] = h
  <2>. DEFINE m == [id |-> "restart", bundle |-> b]
  <2>. HIDE DEF m
  <2>1. \A i \in 1..Len(q) : i = 1 \/ (i - 1 \in 1..Len(r) /\ q[i] = r[i - 1])
    BY <1>1
  <2>2. 1 \in 1..Len(q) /\ \A i \in 1..Len(r) : 1 + i \in 1..Len(q)
    BY <1>1
  <2>3. ASSUME NEW i \in 1..Len(q), q[i] = m PROVE m = h \/ \E j \in 1..Len(r) : r[j] = m
    BY <1>1, <2>1, <2>3
  <2>4. ASSUME NEW i \in 1..Len(r), r[i] = m PROVE \E j \in 1..Len(q) : q[j] = m
    BY <1>1, <2>2, <2>4
  <2>5. m = h => \E j \in 1..Len(q) : q[j] = m
    BY <1>1, <2>2
  <2>6. m \in Elements(q) <=> m \in Elements(r) \/ m = h
    BY <2>3, <2>4, <2>5 DEF Elements
  <2>. QED
    BY <2>6 DEF m
<1>5. CASE h.id = "done"
  <2>1. h.token \in Token
    BY <1>1, <1>5 DEF Request
  <2>2. ReportsIn(q, h.token) # {}
    <3>1. 1 \in ReportsIn(q, h.token)
      BY <1>1, <1>5 DEF ReportsIn
    <3>. QED
      BY <3>1
  <2>3. \A b : [id |-> "restart", bundle |-> b] # h
    BY <1>5
  <2>4. f.lost = e.lost /\ f.whole = e.whole
    BY <1>4, <2>3 DEF Env
  <2>5. DOMAIN f.said = DOMAIN e.said \cup {h.token}
    BY <1>3, <2>1, <2>2 DEF Env
  <2>6. /\ \A u \in DOMAIN e.said : f.said[u] = e.said[u]
        /\ h.token \notin DOMAIN e.said => f.said[h.token] = h.state
    BY <1>3, <2>1, <2>2 DEF Env
  <2>. QED
    BY <1>5, <2>4, <2>5, <2>6 DEF Answered, h, r
<1>6. ASSUME h.id # "done" PROVE f.said = e.said /\ f.whole = e.whole
  BY <1>3, <1>6 DEF Env
<1>7. CASE h.id = "restart"
  <2>1. \A b : [id |-> "restart", bundle |-> b] = h => b = h.bundle
    OBVIOUS
  <2>2. f.lost \subseteq e.lost \cup {h.bundle}
    BY <1>4, <2>1 DEF Env
  <2>. QED
    BY <1>6, <1>7, <2>2 DEF Notified, h, r
<1>8. CASE h.id \notin {"done", "restart"}
  <2>1. \A b : [id |-> "restart", bundle |-> b] # h
    BY <1>8
  <2>2. f.lost = e.lost
    BY <1>4, <2>1 DEF Env
  <2>3. f = e
    BY <1>6, <1>8, <2>2 DEF Env
  <2>. QED
    BY <1>8, <2>3 DEF h, r
<1>. QED
  BY <1>5, <1>7, <1>8 DEF h

\* What the posting of a request changes.
LEMMA PostSays ==
    ASSUME QueueTyped, NEW m \in Request, Post(m)
    PROVE  LET e == Env(amsQ, dropped)
               f == Env(amsQ', dropped')
           IN  /\ m.id # "done" => Wider(e, f)
               /\ m.id = "done" => Answers(e, f, m.token, m.state)
               /\ m.id = "restart" => m.bundle \in f.lost
<1>. DEFINE e == Env(amsQ, dropped)
            f == Env(amsQ', dropped')
            q == amsQ
            r == Append(amsQ, m)
<1>1. /\ q \in Seq(Request) /\ r \in Seq(Request) /\ Len(q) \in Nat /\ Len(r) = Len(q) + 1
      /\ (\A i \in 1..Len(q) : r[i] = q[i]) /\ r[Len(q) + 1] = m
  BY LenProperties, AppendProperties DEF QueueTyped
<1>2. CASE Len(amsQ) < QueueSize
  <2>1. amsQ' = r /\ dropped' = dropped
    BY <1>2 DEF Post
  <2>. HIDE DEF q, r
  <2>2. f = Env(r, dropped) /\ e = Env(q, dropped)
    BY <2>1 DEF q
  <2>3. /\ \A i \in 1..Len(r) : i \in 1..Len(q) \/ i = Len(q) + 1
        /\ \A i \in 1..Len(q) : i \in 1..Len(r)
        /\ Len(q) + 1 \in 1..Len(r)
    BY <1>1
  <2>4. ASSUME NEW t
        PROVE  ReportsIn(r, t) = ReportsIn(q, t)
                  \cup (IF m.id = "done" /\ m.token = t THEN {Len(q) + 1} ELSE {})
    BY <1>1, <2>3 DEF ReportsIn
  <2>5. ASSUME NEW t, m.id = "done" /\ m.token = t
        PROVE  ReportsIn(r, t) # {} /\ LastReport(r, t) = m.state
    <3>1. Latest(r, t, Len(q) + 1)
      BY <1>1, <2>4, <2>5 DEF Latest, ReportsIn
    <3>. QED
      BY <1>1, <3>1, LatestReport DEF Latest
  <2>6. ASSUME NEW t, ~(m.id = "done" /\ m.token = t)
        PROVE  /\ ReportsIn(r, t) = ReportsIn(q, t)
               /\ ReportsIn(q, t) # {} => LastReport(r, t) = LastReport(q, t)
    <3>1. ReportsIn(r, t) = ReportsIn(q, t)
      BY <2>4, <2>6
    <3>2. ASSUME ReportsIn(q, t) # {} PROVE LastReport(r, t) = LastReport(q, t)
      <4>1. PICK i : Latest(q, t, i)
        BY <1>1, <3>2, LatestReport
      <4>2. Latest(r, t, i) /\ r[i] = q[i]
        BY <1>1, <3>1, <4>1 DEF Latest, ReportsIn
      <4>. QED
        BY <1>1, <4>1, <4>2, LatestReport
    <3>. QED
      BY <3>1, <3>2
  <2>7. ASSUME NEW b
        PROVE  [id |-> "restart", bundle |-> b] \in Elements(r)
               <=> \/ [id |-> "restart", bundle |-> b] \in Elements(q)
                   \/ [id |-> "restart", bundle |-> b] = m
    <3>. DEFINE k == [id |-> "restart", bundle |-> b]
    <3>. HIDE DEF k
    <3>1. k \in Elements(r) <=> k \in Elements(q) \/ k = m
      BY <1>1, <2>3 DEF Elements
    <3>. QED
      BY <3>1 DEF k
  <2>8. e.lost \subseteq f.lost /\ f.whole = e.whole
    BY <2>2, <2>7 DEF Env
  <2>9. CASE m.id # "done"
    <3>1. f.said = e.said
      BY <2>2, <2>6, <2>9 DEF Env
    <3>2. m.id = "restart" => m.bundle \in f.lost
      <4>1. m.id = "restart" => m = [id |-> "restart", bundle |-> m.bundle] /\ m.bundle \in Bundle
        BY DEF Request
      <4>. QED
        BY <2>2, <2>7, <4>1 DEF Env
    <3>. QED
      BY <2>8, <2>9, <3>1, <3>2 DEF Wider
  <2>10. CASE m.id = "done"
    <3>1. m.token \in Token
      BY <2>10 DEF Request
    <3>2. /\ DOMAIN f.said = DOMAIN e.said \cup {m.token} /\ f.said[m.token] = m.state
          /\ \A u \in DOMAIN e.said : u # m.token => f.said[u] = e.said[u]
      BY <2>2, <2>5, <2>6, <2>10, <3>1 DEF Env
    <3>3. f.lost = e.lost
      <4>1. \A b : [id |-> "restart", bundle |-> b] # m
        BY <2>10
      <4>. QED
        BY <2>2, <2>7, <4>1 DEF Env
    <3>. QED
      BY <2>8, <2>10, <3>2, <3>3 DEF Answers
  <2>. QED
    BY <2>9, <2>10
<1>3. CASE ~(Len(amsQ) < QueueSize)
  <2>1. amsQ' = amsQ /\ dropped' = TRUE
    BY <1>3 DEF Post
  <2>2. Wider(e, f) /\ ~f.whole /\ f.lost = Bundle
    BY <2>1 DEF Env, Wider
  <2>3. m.id = "restart" => m.bundle \in Bundle
    BY DEF Request
  <2>. QED
    BY <2>2, <2>3 DEF Answers
<1>. QED
  BY <1>2, <1>3

-----------------------------------------------------------------------------
(* The tables through the steps.                                           *)

\* What a handler commits.
LEMMA HandleTables ==
    ASSUME NEW s, SInv(s), Handle(s), Table(s, Env(Tail(amsQ), dropped))
    PROVE  Tables'
<1>. DEFINE r == State'
            e == Env(Tail(amsQ), dropped)
<1>1. /\ DOMAIN r = Fields /\ r.rec = s.rec /\ r.app = s.app
      /\ r.proc = s.proc /\ r.lastToken = s.lastToken
  BY DEF State, Handle, Commit, Fields
<1>2. amsQ' = Tail(amsQ) /\ dropped' = dropped
  BY DEF Handle
<1>. HIDE DEF r, e
<1>3. Table(r, e)
  BY <1>1, SInvShaped, FieldThins, ThinsKeeps DEF e
<1>. QED
  BY <1>2, <1>3 DEF r, e, Tables

\* A handler that is no answer and no death notification.
LEMMA PlainHead ==
    ASSUME IInv, Tables, NEW id, Serves(id), id \notin {"done", "restart"}
    PROVE  Table(State, Env(Tail(amsQ), dropped))
<1>1. amsQ \in Seq(Request) /\ amsQ # <<>> /\ Head(amsQ).id \notin {"done", "restart"}
  BY HeadRequest DEF Serves
<1>2. Env(amsQ, dropped) = Env(Tail(amsQ), dropped)
  BY <1>1, HeadSays
<1>. QED
  BY <1>2 DEF Tables

\* A step of the clients or the processes.
LEMMA ProcessFields ==
    ASSUME UNCHANGED amsVars
    PROVE  /\ State'.rec = State.rec /\ State'.app = State.app
           /\ State'.lastToken = State.lastToken
           /\ State'.proc = proc' /\ State.proc = proc /\ DOMAIN State' = Fields
BY DEF State, amsVars, Fields

\* A step that changes neither the memory nor the processes, and after which
\* the queue asks for no more than before.
LEMMA QuietTables ==
    ASSUME IInv, Tables, UNCHANGED amsVars, UNCHANGED proc,
           Wider(Env(amsQ, dropped), Env(amsQ', dropped'))
    PROVE  Tables'
<1>. DEFINE s == State
            r == State'
            e == Env(amsQ, dropped)
            f == Env(amsQ', dropped')
<1>1. /\ DOMAIN r = Fields /\ r.rec = s.rec /\ r.app = s.app
      /\ r.proc = s.proc /\ r.lastToken = s.lastToken
  BY ProcessFields
<1>2. Shaped(s) /\ Table(s, e)
  BY SInvShaped DEF IInv, Tables
<1>3. Wider(e, f)
  OBVIOUS
<1>. HIDE DEF s, r, e, f
<1>4. Table(r, f)
  BY <1>1, <1>2, <1>3, FieldThins, ThinsKeeps, WiderTable
<1>. QED
  BY <1>4 DEF r, f, Tables

LEMMA ClientRequestTables ==
    ASSUME IInv, Tables, NEW m \in Request, m.id # "done", ClientRequest(m)
    PROVE  Tables'
<1>1. QueueTyped /\ Post(m) /\ UNCHANGED amsVars /\ UNCHANGED proc
  BY DEF IInv, ClientRequest
<1>2. Wider(Env(amsQ, dropped), Env(amsQ', dropped'))
  BY <1>1, PostSays
<1>. QED
  BY <1>1, <1>2, QuietTables

LEMMA InitTables == Init => Tables
<1>. SUFFICES ASSUME Init PROVE Tables
  OBVIOUS
<1>1. /\ DOMAIN State.rec = {} /\ DOMAIN State.app = {} /\ DOMAIN State.proc = {}
      /\ amsQ = <<[id |-> "inited"]>>
  BY StateFields DEF Init
<1>2. \A t : ReportsIn(amsQ, t) = {}
  BY <1>1 DEF ReportsIn
<1>3. DOMAIN Env(amsQ, dropped).said = {}
  BY <1>2 DEF Env
<1>. DEFINE s == State
            e == Env(amsQ, dropped)
<1>4. LiveIn(s) = {}
  BY <1>1 DEF LiveIn
<1>. HIDE DEF s, e
<1>5. Table(s, e)
  BY <1>1, <1>3, <1>4 DEF Table, Drawn, OneApp, InboxesOrdered, Owned, Tracked, s, e
<1>. QED
  BY <1>5 DEF s, e, Tables

\* Every handler of the service keeps the tables.
LEMMA AmsStepTables == IInv /\ Tables /\ AmsNext => Tables'
<1>. SUFFICES ASSUME IInv, Tables, AmsNext PROVE Tables'
  OBVIOUS
<1>. DEFINE s == State
            h == Head(amsQ)
            f == Env(amsQ, dropped)
            e == Env(Tail(amsQ), dropped)
<1>1. CASE ServiceInited
  <2>1. /\ amsQ \in Seq(Request) /\ amsQ # <<>> /\ Tail(amsQ) \in Seq(Request)
        /\ Table(s, e)
    BY <1>1, HeadRequest, PlainHead DEF ServiceInited
  <2>. DEFINE boot == [i \in 1..Len(BootSequence) |->
                         [id |-> "keepAlive", bundle |-> BootSequence[i]]]
              k == Len(BootSequence)
              q == Tail(amsQ)
              r == boot \o q
  <2>2. /\ amsQ' = r /\ dropped' = dropped /\ UNCHANGED amsVars /\ UNCHANGED proc
    BY <1>1 DEF ServiceInited
  <2>3. r \in Seq(Request)
    BY <1>1, <2>2, AmsStepKeeps DEF AmsNext, IInv, QueueTyped
  <2>4. k \in Nat /\ BootSequence \in Seq(Bundle)
    BY EnvironmentAssumption, LenProperties
  <2>5. boot \in Seq(Request) /\ Len(boot) = k
    <3>1. ASSUME NEW i \in 1..k
          PROVE  [id |-> "keepAlive", bundle |-> BootSequence[i]] \in Request
      <4>1. BootSequence[i] \in Bundle
        BY <2>4, ElementOfSeq
      <4>. QED
        BY <4>1 DEF Request
    <3>2. boot \in Seq(Request)
      BY <2>4, <3>1, IsASeq
    <3>. QED
      BY <2>4, <3>2, LenProperties
  <2>6. \A i \in 1..k : boot[i].id = "keepAlive"
    OBVIOUS
  <2>. HIDE DEF boot, k
  <2>7. /\ Len(r) = k + Len(q) /\ \A i \in 1..Len(q) : r[k + i] = q[i]
        /\ \A i \in 1..k : r[i] = boot[i]
    <3>1. boot \in Seq(Request) /\ q \in Seq(Request) /\ Len(q) \in Nat
      BY <2>1, <2>5, LenProperties
    <3>. HIDE DEF q
    <3>2. Len(r) = Len(boot) + Len(q)
      BY <3>1, ConcatProperties
    <3>3. \A i \in 1..Len(boot) + Len(q) :
             r[i] = IF i <= Len(boot) THEN boot[i] ELSE q[i - Len(boot)]
      BY <3>1, ConcatProperties
    <3>. HIDE DEF r
    <3>. QED
      BY <2>4, <2>5, <3>1, <3>2, <3>3
  <2>8. \A i \in 1..k : r[i].id \notin {"done", "restart"}
    BY <2>6, <2>7
  <2>. HIDE DEF r, q
  <2>9. Env(r, dropped) = Env(q, dropped)
    BY <2>1, <2>3, <2>4, <2>7, <2>8, SilentBefore DEF q
  <2>10. Wider(f, Env(amsQ', dropped'))
    <3>1. f = e
      BY <1>1, <2>1, HeadSays DEF ServiceInited, Serves
    <3>. QED
      BY <2>2, <2>9, <3>1 DEF Wider, q
  <2>. QED
    BY <2>2, <2>10, QuietTables
<1>2. CASE StartKeepAliveApp
  <2>1. PICK fails \in SpawnFailures : Handle(StartTask(State, MainAbility[h.bundle], fails))
    BY <1>2 DEF StartKeepAliveApp
  <2>2. SInv(State) /\ MainAbility[h.bundle] \in Ability /\ Table(State, e)
    BY <1>2, HeadRequest, PlainHead, MainAbilities DEF StartKeepAliveApp
  <2>. QED
    BY <2>1, <2>2, StartTaskKeeps, StartTaskTable, HandleTables
<1>3. CASE StartAbility
  <2>1. PICK fails \in SpawnFailures : Handle(StartTask(State, h.ability, fails))
    BY <1>3 DEF StartAbility
  <2>2. SInv(State) /\ h.ability \in Ability /\ Table(State, e)
    BY <1>3, HeadRequest, PlainHead DEF StartAbility
  <2>. QED
    BY <2>1, <2>2, StartTaskKeeps, StartTaskTable, HandleTables
<1>4. CASE TerminateAbility
  <2>1. SInv(State) /\ Table(State, e) /\ Handle(TerminateTask(State, h.token))
    BY <1>4, HeadRequest, PlainHead DEF TerminateAbility
  <2>. QED
    BY <2>1, TerminateTaskKeeps, TerminateTaskTable, HandleTables
<1>5. CASE AttachBundle
  <2>1. PICK watch \in IF h.proc \in Live THEN {TRUE} ELSE BOOLEAN, permit \in Permits :
           Handle(AttachTask(State, h.proc, watch, permit))
    BY <1>5 DEF AttachBundle
  <2>2. SInv(State) /\ Table(State, e)
    BY <1>5, HeadRequest, PlainHead DEF AttachBundle
  <2>3. watch \/ h.proc \notin LiveIn(State)
    <3>1. LiveIn(State) = Live
      BY StateFields DEF LiveIn, Live
    <3>2. h.proc \in Live => watch = TRUE
      BY <2>1
    <3>. QED
      BY <3>1, <3>2
  <2>. QED
    BY <2>1, <2>2, <2>3, AttachTaskKeeps, AttachTaskTable, HandleTables
<1>6. CASE TransactionDone
  <2>1. PICK fails \in SpawnFailures :
           Handle(AbilityTransaction(State, h.token, h.state, fails))
    BY <1>6 DEF TransactionDone
  <2>2. SInv(State) /\ Table(State, f) /\ Answered(f, e, h.token, h.state)
    <3>1. h.id = "done" /\ SInv(State) /\ amsQ \in Seq(Request) /\ amsQ # <<>>
      BY <1>6, HeadRequest DEF TransactionDone, Serves
    <3>2. Answered(f, e, h.token, h.state)
      BY <3>1, HeadSays
    <3>. QED
      BY <3>1, <3>2 DEF Tables
  <2>3. h.state \in AppState
    BY <1>6, HeadRequest DEF TransactionDone, Serves, Request
  <2>. HIDE DEF h, e, f
  <2>4. /\ SInv(AbilityTransaction(State, h.token, h.state, fails))
        /\ Table(AbilityTransaction(State, h.token, h.state, fails), e)
    BY <2>2, <2>3, AbilityTransactionKeeps, AbilityTransactionTable
  <2>. QED
    BY <2>1, <2>4, HandleTables DEF e
<1>7. CASE TerminateAppRequest
  <2>1. /\ SInv(State) /\ Table(State, e) /\ h.bundle \in Bundle
        /\ Handle(TerminateApp(State, h.bundle))
    BY <1>7, HeadRequest, PlainHead DEF TerminateAppRequest
  <2>. QED
    BY <2>1, TerminateAppKeeps, TerminateAppTable, HandleTables
<1>8. CASE RestartAppRequest
  <2>1. PICK fails \in SpawnFailures : Handle(RestartApp(State, h.bundle, fails))
    BY <1>8 DEF RestartAppRequest
  <2>2. /\ SInv(State) /\ Table(State, f) /\ Notified(f, e, h.bundle)
        /\ h.bundle \in Bundle
    <3>1. /\ h.id = "restart" /\ SInv(State) /\ amsQ \in Seq(Request) /\ amsQ # <<>>
          /\ h.bundle \in Bundle
      BY <1>8, HeadRequest DEF RestartAppRequest, Serves
    <3>2. Notified(f, e, h.bundle)
      BY <3>1, HeadSays
    <3>. QED
      BY <3>1, <3>2 DEF Tables
  <2>. HIDE DEF h, e, f
  <2>3. /\ SInv(RestartApp(State, h.bundle, fails))
        /\ Table(RestartApp(State, h.bundle, fails), e)
    BY <2>2, RestartAppKeeps, RestartAppTable
  <2>. QED
    BY <2>1, <2>3, HandleTables DEF e
<1>. QED
  BY <1>1, <1>2, <1>3, <1>4, <1>5, <1>6, <1>7, <1>8 DEF AmsNext

\* A step in which process p becomes q: the shape the lemmas of AmsTableProofs
\* take it in.
LEMMA ProcessSteps ==
    ASSUME NEW p \in DOMAIN proc, NEW q, q.bundle = proc[p].bundle,
           proc' = [proc EXCEPT ![p] = q], UNCHANGED amsVars
    PROVE  Steps(State, p, q, State')
BY ProcessFields DEF Steps

LEMMA DeathTables ==
    ASSUME IInv, Tables, NEW p \in DOMAIN proc, Die(p), UNCHANGED amsVars,
           UNCHANGED <<amsQ, dropped>>
    PROVE  Tables'
<1>. DEFINE q == [proc[p] EXCEPT !.phase = "dead", !.inbox = <<>>, !.hosted = <<>>]
            s == State
            r == State'
            e == Env(amsQ, dropped)
<1>1. IsProcess(proc[p])
  BY StateFields DEF IInv, SInv, StateTyped
<1>2. q.bundle = proc[p].bundle /\ q.phase = "dead"
  BY <1>1 DEF IsProcess
<1>3. proc' = [proc EXCEPT ![p] = q]
  BY DEF Die
<1>. HIDE DEF q
<1>4. Steps(s, p, q, r) /\ Table(s, e)
  BY <1>2, <1>3, ProcessSteps DEF Tables
<1>. HIDE DEF s, r, e
<1>5. Table(r, e)
  BY <1>2, <1>4, DeathTable
<1>. QED
  BY <1>5 DEF r, e, Tables

\* Every step of a process keeps the tables.
LEMMA ProcStepTables ==
    ASSUME IInv, Tables, NEW p \in DOMAIN proc, ProcNext(p)
    PROVE  Tables'
<1>. DEFINE s == State
            r == State'
            e == Env(amsQ, dropped)
            f == Env(amsQ', dropped')
<1>1. /\ SInv(s) /\ Table(s, e) /\ QueueTyped /\ s.proc = proc
      /\ p \in Token /\ IsProcess(proc[p]) /\ proc[p].inbox \in Seq(Message)
      /\ proc[p].bundle \in Bundle
  BY StateFields DEF IInv, Tables, SInv, StateTyped, IsProcess
<1>2. ASSUME Table(r, f) PROVE Tables'
  BY <1>2 DEF Tables
<1>3. ASSUME UNCHANGED <<amsQ, dropped>> PROVE f = e
  BY <1>3
<1>4. ASSUME NEW type, Receives(p, type)
      PROVE  /\ proc[p].phase # "dead" /\ proc[p].inbox # <<>>
             /\ Head(proc[p].inbox) \in Message /\ Head(proc[p].inbox).type = type
  BY <1>1, <1>4, TailTyped DEF Receives, Running
<1>5. CASE ThreadMain(p)
  <2>. DEFINE q == [proc[p] EXCEPT !.phase = "running"]
  <2>1. /\ q.bundle = proc[p].bundle /\ q.inbox = proc[p].inbox /\ q.inited = proc[p].inited
        /\ q.hosted = proc[p].hosted /\ q.phase # "dead" /\ proc[p].phase # "dead"
    BY <1>1, <1>5 DEF IsProcess, ThreadMain
  <2>2. proc' = [proc EXCEPT ![p] = q] /\ UNCHANGED amsVars
    BY <1>5 DEF ThreadMain, EnvUnchanged
  <2>. HIDE DEF q
  <2>3. Steps(s, p, q, r)
    BY <2>1, <2>2, ProcessSteps
  <2>4. Wider(e, f)
    <3>1. [id |-> "attach", proc |-> p] \in Request
      BY <1>1 DEF Request
    <3>. QED
      BY <1>1, <1>5, <3>1, PostSays DEF ThreadMain
  <2>. HIDE DEF s, r, e, f
  <2>5. Table(r, e)
    BY <1>1, <2>1, <2>3, RunTable
  <2>6. Table(r, f)
    BY <2>4, <2>5, WiderTable
  <2>. QED
    BY <1>2, <2>6
<1>6. CASE PerformAppInit(p)
  <2>. DEFINE q == [proc[p] EXCEPT !.inbox = Tail(@), !.inited = TRUE]
  <2>1. /\ q.bundle = proc[p].bundle /\ q.inbox = Tail(proc[p].inbox) /\ q.inited = TRUE
        /\ q.hosted = proc[p].hosted /\ q.phase = proc[p].phase
    BY <1>1 DEF IsProcess
  <2>2. proc' = [proc EXCEPT ![p] = q] /\ UNCHANGED amsVars /\ f = e
    BY <1>3, <1>6 DEF PerformAppInit, EnvUnchanged
  <2>. HIDE DEF q
  <2>3. Steps(s, p, q, r)
    BY <2>1, <2>2, ProcessSteps
  <2>4. proc[p].phase # "dead" /\ proc[p].inbox # <<>>
    BY <1>4, <1>6 DEF PerformAppInit
  <2>. HIDE DEF s, r, e, f
  <2>5. Table(r, e)
    BY <1>1, <2>1, <2>3, <2>4, InitTable
  <2>. QED
    BY <1>2, <2>2, <2>5
<1>7. CASE PerformTransactAbilityState(p)
  <2>. DEFINE m       == Head(proc[p].inbox)
              t       == m.token
              known   == t \in Hosted(p)
              loaded  == known \/ m.ability \notin Unloadable
              current == IF known THEN proc[p].hosted[t] ELSE "INITIAL"
              state   == IF loaded THEN Transacted(current, m.state) ELSE "INITIAL"
              h       == IF state = "INITIAL" THEN Drop(proc[p].hosted, {t})
                                              ELSE With(proc[p].hosted, t, state)
              q       == [proc[p] EXCEPT !.inbox = Tail(@), !.hosted = h]
              a       == [id |-> "done", token |-> t, state |-> state]
  <2>1. proc' = [proc EXCEPT ![p] = q] /\ Post(a) /\ UNCHANGED amsVars
    BY <1>7 DEF PerformTransactAbilityState, EnvUnchanged
  <2>2. proc[p].phase # "dead" /\ proc[p].inbox # <<>> /\ m \in Message /\ m.type = "transact"
    BY <1>4, <1>7 DEF PerformTransactAbilityState
  <2>3. t \in Token /\ m.state \in AppState
    BY <2>2 DEF Message
  <2>4. current \in AppState
    BY <1>1 DEF IsProcess, TokenMap, Hosted, AppState
  <2>. HIDE DEF current, loaded, m
  <2>5. state \in AppState
    BY <2>3, <2>4 DEF Transacted, AppState
  <2>. HIDE DEF state
  <2>6. a \in Request /\ a.id = "done" /\ a.token = t /\ a.state = state
    BY <2>3, <2>5 DEF Request
  <2>. HIDE DEF a, h
  <2>7. /\ q.bundle = proc[p].bundle /\ q.inbox = Tail(proc[p].inbox)
        /\ q.inited = proc[p].inited /\ q.hosted = h /\ q.phase = proc[p].phase
    BY <1>1 DEF IsProcess
  <2>. HIDE DEF q
  <2>8. Steps(s, p, q, r)
    BY <2>1, <2>7, ProcessSteps
  <2>9. Answers(e, f, t, state)
    BY <1>1, <2>1, <2>6, PostSays
  <2>. HIDE DEF s, r, e, f
  <2>10. Table(r, f)
    BY <1>1, <2>2, <2>3, <2>7, <2>8, <2>9, TransactionTable DEF h, m
  <2>. QED
    BY <1>2, <2>10
<1>8. CASE PerformAppExit(p)
  <2>. DEFINE q == [proc[p] EXCEPT !.inbox = Append(Tail(@), [type |-> "quit"])]
  <2>1. /\ q.bundle = proc[p].bundle
        /\ q.inbox = Append(Tail(proc[p].inbox), [type |-> "quit"])
        /\ q.inited = proc[p].inited /\ q.hosted = proc[p].hosted /\ q.phase = proc[p].phase
    BY <1>1 DEF IsProcess
  <2>2. proc' = [proc EXCEPT ![p] = q] /\ UNCHANGED amsVars /\ f = e
    BY <1>3, <1>8 DEF PerformAppExit, EnvUnchanged
  <2>. HIDE DEF q
  <2>3. Steps(s, p, q, r)
    BY <2>1, <2>2, ProcessSteps
  <2>4. /\ proc[p].phase # "dead" /\ proc[p].inbox # <<>>
        /\ Head(proc[p].inbox).type = "exit"
    BY <1>4, <1>8 DEF PerformAppExit
  <2>. HIDE DEF s, r, e, f
  <2>5. Table(r, e)
    BY <1>1, <2>1, <2>3, <2>4, QuitPostedTable
  <2>. QED
    BY <1>2, <2>2, <2>5
<1>9. CASE Quit(p)
  BY <1>9, DeathTables DEF Quit, EnvUnchanged
<1>10. CASE AppDeathNotify(p)
  <2>. DEFINE b == proc[p].bundle
              a == [id |-> "restart", bundle |-> b]
  <2>1. proc' = Drop(proc, {p}) /\ UNCHANGED amsVars /\ Post(a) /\ proc[p].phase = "dead"
    BY <1>10 DEF AppDeathNotify, EnvUnchanged, Mourned
  <2>2. a \in Request /\ a.id = "restart" /\ a.bundle = b
    BY <1>1 DEF Request
  <2>. HIDE DEF a
  <2>3. Wider(e, f) /\ b \in f.lost
    BY <1>1, <2>1, <2>2, PostSays
  <2>4. /\ r.proc = Drop(proc, {p}) /\ r.rec = s.rec /\ r.app = s.app
        /\ r.lastToken = s.lastToken
    BY <2>1, ProcessFields
  <2>. HIDE DEF s, r, e, f
  <2>5. Table(r, f)
    BY <1>1, <2>1, <2>3, <2>4, ForgottenTable
  <2>. QED
    BY <1>2, <2>5
<1>. QED
  BY <1>5, <1>6, <1>7, <1>8, <1>9, <1>10 DEF ProcNext

\* The tables are inductive over the states of IInv.
LEMMA StepTables == IInv /\ Tables /\ [Next]_vars => Tables'
<1>. SUFFICES ASSUME IInv, Tables, [Next]_vars PROVE Tables'
  OBVIOUS
<1>1. ASSUME NEW a \in Ability, RequestStart(a) PROVE Tables'
  <2>. DEFINE m == [id |-> "start", ability |-> a]
  <2>1. m \in Request /\ m.id # "done"
    BY DEF Request
  <2>2. ClientRequest(m)
    BY <1>1 DEF RequestStart
  <2>. HIDE DEF m
  <2>. QED
    BY <2>1, <2>2, ClientRequestTables
<1>2. ASSUME NEW p \in Live, NEW t \in Hosted(p), RequestTerminate(t) PROVE Tables'
  <2>. DEFINE m == [id |-> "terminate", token |-> t]
  <2>1. t \in Token
    <3>1. IsProcess(proc[p])
      BY StateFields DEF IInv, SInv, StateTyped, Live
    <3>. QED
      BY <3>1 DEF IsProcess, TokenMap, Hosted
  <2>2. m \in Request /\ m.id # "done"
    BY <2>1 DEF Request
  <2>3. ClientRequest(m)
    BY <1>2 DEF RequestTerminate
  <2>. HIDE DEF m
  <2>. QED
    BY <2>2, <2>3, ClientRequestTables
<1>3. ASSUME NEW b \in Bundle, RequestTerminateApp(b) PROVE Tables'
  <2>. DEFINE m == [id |-> "terminateApp", bundle |-> b]
  <2>1. m \in Request /\ m.id # "done"
    BY DEF Request
  <2>2. ClientRequest(m)
    BY <1>3 DEF RequestTerminateApp
  <2>. HIDE DEF m
  <2>. QED
    BY <2>1, <2>2, ClientRequestTables
<1>4. CASE AmsNext
  BY <1>4, AmsStepTables
<1>5. ASSUME NEW p \in DOMAIN proc, ProcNext(p) PROVE Tables'
  BY <1>5, ProcStepTables
<1>6. ASSUME NEW p \in DOMAIN proc, Crash(p) PROVE Tables'
  BY <1>6, DeathTables DEF Crash
<1>7. CASE UNCHANGED vars
  <2>1. UNCHANGED amsVars /\ UNCHANGED proc /\ UNCHANGED <<amsQ, dropped>>
    BY <1>7 DEF vars, amsVars
  <2>2. Wider(Env(amsQ, dropped), Env(amsQ', dropped'))
    BY <2>1 DEF Wider
  <2>. QED
    BY <2>1, <2>2, QuietTables
<1>. QED
  BY <1>1, <1>2, <1>3, <1>4, <1>5, <1>6, <1>7 DEF Next

-----------------------------------------------------------------------------
(* The theorems.                                                           *)

\* IInv is an invariant of the service.
THEOREM Invariance == Spec => []IInv
BY InitEstablishes, StepKeeps, PTL DEF Spec

\* And so are the tables.
THEOREM TablesInvariance == Spec => []Tables
BY InitTables, Invariance, StepTables, PTL DEF Spec

\* The service's memory, its queue and the processes stay well typed.
THEOREM TypeCorrect == Spec => []TypeOK
<1>1. IInv => TypeOK
  BY DEF IInv, SInv, QueueTyped, TypeOK
<1>. QED
  BY <1>1, Invariance, PTL

\* The mission lists stay coherent: no order of starts, terminations, answers,
\* deaths and failures leaves a mission listed twice or without pages, a return
\* to a mission that is gone, or a page record outside the list of its bundle.
THEOREM StacksCoherent == Spec => []StackCoherent
<1>1. IInv => StackCoherent
  BY DEF IInv, SInv, StackCoherent
<1>. QED
  BY <1>1, Invariance, PTL

\* A page waits in the pending slot of its own application only, and as long as it
\* exists: the slot that LaunchAbility dereferences never points to a deleted record.
THEOREM PendingSlots == Spec => []PendingListed(State)
<1>1. IInv => PendingListed(State)
  BY DEF IInv, SInv
<1>. QED
  BY <1>1, Invariance, PTL


\* A bundle has one app record, every pending slot holds a page that exists and
\* names the slot, and an app record outlives its process only until the death
\* notification is handled: no order of spawns, attaches, refusals, exits,
\* crashes and restarts leaves a second or an orphaned entry in the table.
THEOREM ProcessTableHolds == Spec => []ProcessTable
<1>1. IInv /\ Tables => ProcessTable
  <2>. SUFFICES ASSUME IInv, Tables PROVE ProcessTable
    OBVIOUS
  <2>1. OneApp(State, Env(amsQ, dropped)) /\ PendingListed(State)
    BY DEF IInv, SInv, Tables, Table
  <2>2. \A i, j \in DOMAIN app : app[i].bundle = app[j].bundle => i = j
    BY <2>1, StateFields DEF OneApp
  <2>3. ASSUME NEW i \in DOMAIN app
        PROVE  \/ i \in DOMAIN proc /\ proc[i].bundle = app[i].bundle
               \/ dropped
               \/ [id |-> "restart", bundle |-> app[i].bundle] \in Elements(amsQ)
    BY <2>1, StateFields DEF OneApp, Env
  <2>. QED
    BY <2>1, <2>2, <2>3 DEF ProcessTable
<1>. QED
  BY <1>1, Invariance, TablesInvariance, PTL

\* Every process is initialised before its first transaction, and the service
\* sends it nothing once it has told it to exit.
THEOREM InboxOrder == Spec => []MessagesOrdered
<1>1. IInv /\ Tables => MessagesOrdered
  BY StateFields DEF Tables, Table, InboxesOrdered, Ordered, LiveIn, Live, MessagesOrdered
<1>. QED
  BY <1>1, Invariance, TablesInvariance, PTL

\* Unless a request was dropped by the full queue, the state the service holds
\* of a page, its waiting answers included, is the one the process that holds
\* the ability is in, however requests, answers and deaths overlap.
THEOREM RecordsTrack == Spec => []RecordTracksAbility
<1>1. IInv /\ Tables => RecordTracksAbility
  <2>. SUFFICES ASSUME IInv, Tables, ~dropped, NEW t \in DOMAIN rec
                PROVE  IF Hosts(t) # {}
                       THEN \A p \in Hosts(t) : Known(t) = proc[p].hosted[t]
                       ELSE Known(t) \in {"UNINITIALIZED", "INITIAL"} \/ rec[t].app \notin Live
    BY DEF RecordTracksAbility
  <2>. DEFINE e == Env(amsQ, dropped)
  <2>1. t \in Token
    BY StateFields DEF IInv, SInv, StateTyped, TokenMap
  <2>2. e.whole /\ Known(t) = Said(State, e, t)
    <3>1. Reports(t) = ReportsIn(amsQ, t)
      BY DEF Reports, ReportsIn
    <3>2. t \in DOMAIN e.said <=> Reports(t) # {}
      BY <2>1, <3>1 DEF Env
    <3>3. Reports(t) # {} => e.said[t] = Known(t)
      BY <2>1, <3>1 DEF Env, LastReport, Known
    <3>4. e.whole
      BY DEF Env
    <3>. QED
      BY <3>2, <3>3, <3>4, StateFields DEF Known, Said
  <2>. HIDE DEF e
  <2>3. \A p \in Live : t \in Hosted(p) => p = rec[t].app
    BY StateFields DEF Tables, Table, Owned, Knows, Hosted, LiveIn, Live
  <2>4. rec[t].app \in Live =>
           IF t \in Hosted(rec[t].app)
           THEN Known(t) = proc[rec[t].app].hosted[t]
           ELSE Known(t) \in {"UNINITIALIZED", "INITIAL"}
    BY <2>2, StateFields DEF Tables, Table, Tracked, Hosted, LiveIn, Live, e
  <2>. QED
    BY <2>3, <2>4 DEF Hosts
<1>. QED
  BY <1>1, Invariance, TablesInvariance, PTL
=============================================================================
