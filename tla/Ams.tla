-------------------------------- MODULE Ams --------------------------------
(***************************************************************************)
(* The Ability Manager Service of the small system with the application    *)
(* processes it schedules: the service's task takes one request at a time  *)
(* from its queue (module AmsTasks has the handlers), every process works  *)
(* off its own event queue, and clients, crashes and death notifications   *)
(* add requests in between.                                                *)
(***************************************************************************)
EXTENDS AmsTasks

CONSTANTS
    Unloadable,     \* abilities whose class the loader does not find
    BootSequence,   \* the keep-alive bundles in the order BMS lists them
    SpawnFailures,  \* the sets of bundles appspawn may fail for in one step
    Permits,        \* the outcomes of loading a bundle's permissions
    QueueSize,      \* the capacity of the service's request queue
    MaxRequests,    \* bound: client requests in a behaviour
    MaxCrashes,     \* bound: process crashes in a behaviour
    Overlap         \* whether clients issue requests while others are served

ASSUME EnvironmentAssumption ==
    /\ Unloadable \subseteq Ability
    /\ BootSequence \in Seq(Bundle)
    /\ SpawnFailures \subseteq SUBSET Bundle /\ SpawnFailures # {}
    /\ Permits \subseteq BOOLEAN /\ Permits # {}
    /\ QueueSize \in Nat \ {0}
    /\ MaxRequests \in Nat /\ MaxCrashes \in Nat
    /\ Overlap \in BOOLEAN

VARIABLES
    order,          \* the default stack: its missions, the top one last
    pages,          \* the page list of every bundle's mission
    prevMission,    \* the mission a bundle's mission returns to
    topStack,       \* the stack on top: "none", "launcher" or "default"
    rec,            \* the page records, by token
    app,            \* the app records, by identity id
    lastToken,      \* the counter of TokenGenerate
    dangling,       \* TRUE once the service has followed a pointer to a deleted record
    reread,         \* TRUE once RemoveAppRecord has read the record it had deleted
    proc,           \* the application processes, by identity id
    amsQ,           \* the service's request queue
    dropped,        \* TRUE once a request has been refused by a full queue
    requests,       \* the number of client requests
    crashes         \* the number of crashes

vars == <<order, pages, prevMission, topStack, rec, app, lastToken, dangling, reread,
          proc, amsQ, dropped, requests, crashes>>

amsVars == <<order, pages, prevMission, topStack, rec, app, lastToken, dangling, reread>>

State ==
    [order |-> order, pages |-> pages, prevMission |-> prevMission,
     topStack |-> topStack, rec |-> rec, app |-> app, lastToken |-> lastToken,
     dangling |-> dangling, reread |-> reread, proc |-> proc, status |-> "ok"]

Commit(s) ==
    /\ order' = s.order
    /\ pages' = s.pages
    /\ prevMission' = s.prevMission
    /\ topStack' = s.topStack
    /\ rec' = s.rec
    /\ app' = s.app
    /\ lastToken' = s.lastToken
    /\ dangling' = s.dangling
    /\ reread' = s.reread
    /\ proc' = s.proc

-----------------------------------------------------------------------------
(* What is on its way.                                                     *)

Live == {p \in DOMAIN proc : proc[p].phase # "dead"}
Running == {p \in DOMAIN proc : proc[p].phase = "running"}
Mourned == {p \in DOMAIN proc : proc[p].phase = "dead" /\ proc[p].watched}

\* The abilities a live process holds, by token.
Hosted(p) == DOMAIN proc[p].hosted
Hosts(t) == {p \in Live : t \in Hosted(p)}

\* Nothing is in progress: no request or message waits, no process is
\* starting, quitting or dead without the service knowing.
Settled ==
    /\ amsQ = <<>>
    /\ Mourned = {}
    /\ \A p \in Live : proc[p].phase = "running" /\ proc[p].inbox = <<>>

-----------------------------------------------------------------------------
(* Requests.  SAMGR_SendRequest appends to the queue of the service's task  *)
(* and fails when it is full; no caller retries.                            *)

Post(m) ==
    IF Len(amsQ) < QueueSize
    THEN amsQ' = Append(amsQ, m) /\ UNCHANGED dropped
    ELSE dropped' = TRUE /\ UNCHANGED amsQ

ClientRequest(m) ==
    /\ requests < MaxRequests
    /\ Overlap \/ Settled
    /\ requests' = requests + 1
    /\ Post(m)
    /\ UNCHANGED <<amsVars, proc, crashes>>

\* An ability or the aa tool starts an ability.
RequestStart(a) == ClientRequest([id |-> "start", ability |-> a])

\* An ability terminates itself.
RequestTerminate(t) == ClientRequest([id |-> "terminate", token |-> t])

\* The bundle manager terminates an application it updates or uninstalls.
RequestTerminateApp(b) == ClientRequest([id |-> "terminateApp", bundle |-> b])

-----------------------------------------------------------------------------
(* The service: one handler for the request at the head of the queue.      *)
(* Nothing is said of it once it has used a deleted record.                *)

Serves(id) == ~dangling /\ amsQ # <<>> /\ Head(amsQ).id = id

Handle(s) ==
    /\ Commit(s)
    /\ amsQ' = Tail(amsQ)
    /\ UNCHANGED <<dropped, requests, crashes>>

\* AMS_SERVICE_INITED: the keep-alive applications are started one after the
\* other, before any other request is looked at.
ServiceInited ==
    /\ Serves("inited")
    /\ amsQ' = [i \in 1..Len(BootSequence) |->
                  [id |-> "keepAlive", bundle |-> BootSequence[i]]] \o Tail(amsQ)
    /\ UNCHANGED <<amsVars, proc, dropped, requests, crashes>>

StartKeepAliveApp ==
    /\ Serves("keepAlive")
    /\ \E fails \in SpawnFailures :
          Handle(StartTask(State, MainAbility[Head(amsQ).bundle], fails))

StartAbility ==
    /\ Serves("start")
    /\ \E fails \in SpawnFailures : Handle(StartTask(State, Head(amsQ).ability, fails))

TerminateAbility ==
    /\ Serves("terminate")
    /\ Handle(TerminateTask(State, Head(amsQ).token))

AttachBundle ==
    /\ Serves("attach")
    /\ LET p == Head(amsQ).proc
       IN  \E watch \in IF p \in Live THEN {TRUE} ELSE BOOLEAN, permit \in Permits :
              Handle(AttachTask(State, p, watch, permit))

TransactionDone ==
    /\ Serves("done")
    /\ \E fails \in SpawnFailures :
          Handle(AbilityTransaction(State, Head(amsQ).token, Head(amsQ).state, fails))

TerminateAppRequest ==
    /\ Serves("terminateApp")
    /\ Handle(TerminateApp(State, Head(amsQ).bundle))

RestartAppRequest ==
    /\ Serves("restart")
    /\ \E fails \in SpawnFailures : Handle(RestartApp(State, Head(amsQ).bundle, fails))

AmsNext ==
    \/ ServiceInited \/ StartKeepAliveApp \/ StartAbility \/ TerminateAbility
    \/ AttachBundle \/ TransactionDone \/ TerminateAppRequest \/ RestartAppRequest

-----------------------------------------------------------------------------
(* An application process: its main thread attaches to the service, then   *)
(* runs the tasks the service's messages posted to its event queue.        *)

Receives(p, type) ==
    /\ p \in Running
    /\ proc[p].inbox # <<>>
    /\ Head(proc[p].inbox).type = type

EnvUnchanged == UNCHANGED <<amsVars, requests, crashes>>

\* AbilityThread::ThreadMain, AttachBundle
ThreadMain(p) ==
    /\ p \in DOMAIN proc
    /\ proc[p].phase = "spawned"
    /\ proc' = [proc EXCEPT ![p].phase = "running"]
    /\ Post([id |-> "attach", proc |-> p])
    /\ EnvUnchanged

PerformAppInit(p) ==
    /\ Receives(p, "init")
    /\ proc' = [proc EXCEPT ![p].inbox = Tail(@), ![p].inited = TRUE]
    /\ UNCHANGED <<amsQ, dropped>>
    /\ EnvUnchanged

\* What HandleLifecycleTransaction makes of an ability in state current; the
\* callbacks in between are module AbilityThread's.
Transacted(current, target) ==
    CASE current = target     -> current
      [] target = "INACTIVE"  -> IF current = "BACKGROUND" THEN current ELSE target
      [] OTHER                -> target

\* The ability is created at its first transaction and deleted when it is back
\* in INITIAL; the service is told the state it is in.
PerformTransactAbilityState(p) ==
    /\ Receives(p, "transact")
    /\ LET m       == Head(proc[p].inbox)
           t       == m.token
           known   == t \in Hosted(p)
           loaded  == known \/ m.ability \notin Unloadable
           current == IF known THEN proc[p].hosted[t] ELSE "INITIAL"
           state   == IF loaded THEN Transacted(current, m.state) ELSE "INITIAL"
       IN  /\ proc' = [proc EXCEPT
                         ![p].inbox = Tail(@),
                         ![p].hosted = IF state = "INITIAL" THEN Drop(@, {t})
                                                            ELSE With(@, t, state)]
           /\ Post([id |-> "done", token |-> t, state |-> state])
    /\ EnvUnchanged

PerformAppExitForever(p) ==
    /\ Receives(p, "exit")
    /\ proc' = [proc EXCEPT ![p].inbox = Append(Tail(@), [type |-> "exit"])]
    /\ UNCHANGED <<amsQ, dropped>>
    /\ EnvUnchanged

\* The quit task goes to the end of the event queue.
PerformAppExit(p) ==
    /\ Receives(p, "exit")
    /\ proc' = [proc EXCEPT ![p].inbox = Append(Tail(@), [type |-> "quit"])]
    /\ UNCHANGED <<amsQ, dropped>>
    /\ EnvUnchanged

\* The process ends, and what it held is gone.
Die(p) ==
    proc' = [proc EXCEPT ![p].phase = "dead", ![p].inbox = <<>>, ![p].hosted = <<>>]

Quit(p) ==
    /\ Receives(p, "quit")
    /\ Die(p)
    /\ UNCHANGED <<amsQ, dropped>>
    /\ EnvUnchanged

Crash(p) ==
    /\ p \in Live
    /\ crashes < MaxCrashes
    /\ Overlap \/ Settled
    /\ crashes' = crashes + 1
    /\ Die(p)
    /\ UNCHANGED <<amsVars, amsQ, dropped, requests>>

\* The death recipient the service registered at the attach is called however
\* the process ended, and names the bundle alone.
AppDeathNotify(p) ==
    /\ p \in Mourned
    /\ proc' = Drop(proc, {p})
    /\ Post([id |-> "restart", bundle |-> proc[p].bundle])
    /\ EnvUnchanged

ProcNext(p) ==
    \/ ThreadMain(p) \/ PerformAppInit(p) \/ PerformTransactAbilityState(p)
    \/ PerformAppExit(p) \/ Quit(p) \/ AppDeathNotify(p)

-----------------------------------------------------------------------------

Init ==
    /\ order = <<>>
    /\ pages = [b \in Bundle |-> <<>>]
    /\ prevMission = [b \in Bundle |-> None]
    /\ topStack = "none"
    /\ rec = <<>>
    /\ app = <<>>
    /\ lastToken = 0
    /\ dangling = FALSE /\ reread = FALSE
    /\ proc = <<>>
    /\ amsQ = <<[id |-> "inited"]>>
    /\ dropped = FALSE
    /\ requests = 0
    /\ crashes = 0

Next ==
    \/ \E a \in Ability : RequestStart(a)
    \/ \E p \in Live : \E t \in Hosted(p) : RequestTerminate(t)
    \/ \E b \in Bundle : RequestTerminateApp(b)
    \/ AmsNext
    \/ \E p \in DOMAIN proc : ProcNext(p)
    \/ \E p \in DOMAIN proc : Crash(p)

Spec == Init /\ [][Next]_vars

\* bound: the tokens a behaviour draws
TokenBound == 1..(4 * (MaxRequests + MaxCrashes + Len(BootSequence)))

\* The service's task is scheduled, and so is some process that has work to do
\* or a death to be delivered.  Nothing is assumed of the clients, and no
\* process has to crash.  AmsFairness is WF_vars(AmsNext), with the condition
\* under which AmsNext is enabled written out.
AmsFairness == []<>(dangling \/ amsQ = <<>>) \/ []<><<AmsNext>>_vars

FairSpec ==
    /\ Spec
    /\ AmsFairness
    /\ WF_vars(\E p \in DOMAIN proc : ProcNext(p))

-----------------------------------------------------------------------------
(* Properties.                                                             *)

Request ==
    [id : {"inited"}]
    \cup [id : {"keepAlive", "terminateApp", "restart"}, bundle : Bundle]
    \cup [id : {"start"}, ability : Ability]
    \cup [id : {"terminate"}, token : Token]
    \cup [id : {"attach"}, proc : Token]
    \cup [id : {"done"}, token : Token, state : AppState]

\* The type invariant: which records, queues and messages the service and the
\* processes hold, and that the launcher's mission is not on the default stack.
TypeOK ==
    /\ StateTyped(State)
    /\ amsQ \in Seq(Request)
    /\ dropped \in BOOLEAN
    /\ requests \in Nat
    /\ crashes \in Nat

\* The mission lists describe one stack: a bundle's mission is listed once and
\* exactly when it has pages, a mission returns only to another one that is
\* listed, the stack on top has a mission, and every page record is in the list
\* of its own bundle, once.
StackCoherent == MissionsListed(State) /\ ReturnsListed(State) /\ PagesListed(State)

\* The process table: a bundle has one app record, a page that waits in a
\* pending slot exists and points back, and the record of a process that is
\* gone is about to be removed.
ProcessTable ==
    /\ \A i, j \in DOMAIN app : app[i].bundle = app[j].bundle => i = j
    /\ PendingListed(State)
    /\ \A i \in DOMAIN app :
          \/ i \in DOMAIN proc /\ proc[i].bundle = app[i].bundle
          \/ dropped
          \/ [id |-> "restart", bundle |-> app[i].bundle] \in Elements(amsQ)

\* The state the service holds of page t once the answers in its queue are in.
Reports(t) == {i \in 1..Len(amsQ) : amsQ[i].id = "done" /\ amsQ[i].token = t}

Known(t) ==
    IF Reports(t) = {} THEN rec[t].state
    ELSE amsQ[CHOOSE i \in Reports(t) : \A j \in Reports(t) : j <= i].state

\* The service's record of a page follows the ability: no overlap of requests
\* leaves it with another state than the last one the process has reported.
RecordTracksAbility ==
    ~dropped => \A t \in DOMAIN rec :
       IF Hosts(t) # {}
       THEN \A p \in Hosts(t) : Known(t) = proc[p].hosted[t]
       ELSE Known(t) \in {"UNINITIALIZED", "INITIAL"} \/ rec[t].app \notin Live

\* A process is initialised before its first transaction, and nothing is sent
\* to it after it has been told to exit, when its libraries are unloaded.
MessagesOrdered ==
    \A p \in Live :
       /\ \A i \in 1..Len(proc[p].inbox) :
             proc[p].inbox[i].type \in {"exit", "quit"} => i = Len(proc[p].inbox)
       /\ ~proc[p].inited /\ proc[p].inbox # <<>> =>
             proc[p].inbox[1].type \in {"init", "exit", "quit"}

\* Of the pointers that a page record, an app record or the argument of a call
\* chain holds, the service follows none to a record it has deleted; one use is
\* left to NoDangling.
PointersLive == ~dangling

\* The service uses no record it has deleted: nor does RemoveAppRecord read its
\* argument again once it has deleted the record.
NoDangling == ~dangling /\ ~reread

\* Focus passes from page to page: the service never holds two pages ACTIVE.
OneActive == \A t, u \in DOMAIN rec : rec[t].state = "ACTIVE" /\ rec[u].state = "ACTIVE" => t = u

\* When nothing is in progress, an ACTIVE page is the one on top.
FocusOnTop == Settled => \A t \in DOMAIN rec : rec[t].state = "ACTIVE" => t = TopPage(State)

\* When nothing is in progress, the process table lists every live process.
ProcessesKnown == Settled => Live \subseteq DOMAIN app

\* When nothing is in progress, the page on top is ACTIVE and every other page
\* is in the BACKGROUND, in the service's records and in the process that holds
\* the ability; no start, stop or launch is left half done.
SettledCoherent ==
    Settled =>
       LET top == TopPage(State)
       IN  /\ top # 0
           /\ \A t \in DOMAIN rec :
                 /\ rec[t].state = (IF t = top THEN "ACTIVE" ELSE "BACKGROUND")
                 /\ rec[t].next = 0 /\ rec[t].prev = 0
                 /\ rec[t].app \in Live
                 /\ t \in Hosted(rec[t].app)
                 /\ proc[rec[t].app].hosted[t] = rec[t].state
           /\ DOMAIN app = Live
           /\ \A p \in Live : app[p].pending = 0 /\ Hosted(p) \subseteq DOMAIN rec

\* A start removes no page: what it does not reach stays where it was.
StartKeepsPages == [][StartAbility => DOMAIN rec \subseteq DOMAIN rec']_vars

\* Every start that the service takes up ends with its bundle on top, ACTIVE.
StartServed ==
    \A a \in Ability :
       (Serves("start") /\ Head(amsQ).ability = a)
          ~> (/\ TopPage(State) # 0
              /\ BundleOfPage(State, TopPage(State)) = BundleOf[a]
              /\ rec[TopPage(State)].state = "ACTIVE")

\* A page that is ACTIVE and terminates itself ends, unless it is the launcher,
\* which has nothing to return to but itself.
TerminateServed ==
    \A t \in TokenBound :
       (/\ Serves("terminate") /\ Head(amsQ).token = t
        /\ t \in DOMAIN rec
        /\ rec[t].state = "ACTIVE" /\ PrevPage(State, t) # t)
          ~> t \notin DOMAIN rec

\* The system always comes to rest.
Quiesces == []<>Settled
=============================================================================
