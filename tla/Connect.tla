------------------------------ MODULE Connect ------------------------------
(***************************************************************************)
(* Connections to service abilities, from end to end: client processes     *)
(* with their library (AbilityServiceManager, AbilityMsClient), the        *)
(* Ability Manager Service with its request queue (module ConnectTasks has *)
(* the handlers), and the processes that hold the services                 *)
(* (AbilityThread).                                                        *)
(*                                                                         *)
(* A client process calls its library from one thread, and the callbacks   *)
(* of the service come in on another: a callback can run between the two   *)
(* halves of a DisconnectAbility.                                          *)
(***************************************************************************)
EXTENDS ConnectTasks

CONSTANTS
    Client,         \* the client processes
    Conn,           \* the IAbilityConnection objects of a client process
    PageToken,      \* the token of the page of each client process
    LastPage,       \* the last token drawn for a page: the pages came first
    UsesContext,    \* the clients that call AbilityContext, not the C functions
    Mortal,         \* the clients that may die
    Stoppable,      \* the services that StopAbility is called for
    Startable,      \* the services that StartAbility is called for
    Wanted,         \* the services each client may connect to
    Visible,        \* the services each client may see
    Unloadable,     \* the services whose class the loader does not find
    SpawnFailures,  \* the sets of bundles appspawn may fail for in one step
    Calm,           \* whether callers wait for what they asked for
    MaxRequests,    \* bound: calls of the clients in a behaviour
    MaxCrashes      \* bound: crashes of service processes in a behaviour

ASSUME ConnectAssumption ==
    /\ LastPage \in Nat \ {0} /\ PageToken \in [Client -> 1..LastPage]
    /\ UsesContext \subseteq Client /\ Mortal \subseteq Client
    /\ Stoppable \subseteq Ability /\ Startable \subseteq Ability
    /\ Wanted \in [Client -> SUBSET Ability]
    /\ Visible \in [Client -> SUBSET Ability] /\ Unloadable \subseteq Ability
    /\ SpawnFailures \subseteq SUBSET Bundle /\ SpawnFailures # {}
    /\ Calm \in BOOLEAN /\ MaxRequests \in Nat /\ MaxCrashes \in Nat
    /\ None \notin Conn /\ Ability # {}

VARIABLES
    rec,            \* the service records, by token
    app,            \* the app records, by identity id
    lastToken,      \* the counter of TokenGenerate
    dangling,       \* TRUE once the service has followed a pointer to a deleted record
    reread,         \* TRUE once RemoveAppRecord has read the record it had deleted
    proc,           \* the service processes, by identity id
    box,            \* the callbacks on their way to each live client
    amsQ,           \* the service's request queue
    lib,            \* the library's memory in each client process
    view,           \* what each client has been told of its connections
    overtaken,      \* TRUE once a death has been charged to a newer process
    requests,       \* the number of calls of the clients
    crashes         \* the number of crashes

vars == <<rec, app, lastToken, dangling, reread, proc, box, amsQ, lib, view, overtaken,
          requests, crashes>>

amsVars == <<rec, app, lastToken, dangling, reread, overtaken>>
clientVars == <<box, lib, view>>

State ==
    [rec |-> rec, app |-> app, lastToken |-> lastToken, dangling |-> dangling,
     reread |-> reread, proc |-> proc, box |-> box, status |-> "ok"]

Commit(s) ==
    /\ rec' = s.rec
    /\ app' = s.app
    /\ lastToken' = s.lastToken
    /\ dangling' = s.dangling
    /\ reread' = s.reread
    /\ proc' = s.proc
    /\ box' = s.box

Live == {p \in DOMAIN proc : proc[p].phase # "dead"}
Hosted(p) == DOMAIN proc[p].hosted
Alives == DOMAIN box

\* The token of the C functions, whoever calls them.
DefaultToken == 1

\* What a client's process would use when a callback comes in: the arguments of
\* its last ConnectAbility, if they are still allocated.
Held(c) == lib[c].stub \in (lib[c].store \cup {lib[c].clearing}) \ {None}

\* Nothing is in progress, and no death has been charged to the wrong process.
Settled ==
    /\ amsQ = <<>> /\ ~overtaken
    /\ \A p \in DOMAIN proc : proc[p].phase = "running" /\ proc[p].inbox = <<>>
    /\ \A c \in Alives : lib[c].corrupt \/ (box[c] = <<>> /\ lib[c].clearing = None)

-----------------------------------------------------------------------------
(* The client library.                                                     *)

\* The token a client's connections are made with.
TokenOf(c) == IF c \in UsesContext THEN PageToken[c] ELSE DefaultToken

Calls(c) == c \in Alives /\ ~lib[c].corrupt /\ lib[c].clearing = None

\* What AbilityMgrFeature makes of a call: the request it puts in the service's
\* queue.
ConnectRequest(c, k, a) ==
    [id |-> "connect", client |-> c, token |-> TokenOf(c), conn |-> k, service |-> a]
DisconnectRequest(c) == [id |-> "disconnect", client |-> c, token |-> TokenOf(c)]
StopRequest(a)       == [id |-> "stop", service |-> a]
ConnectDoneRequest(t)    == [id |-> "connectDone", token |-> t]
DisconnectDoneRequest(t) == [id |-> "disconnectDone", token |-> t]

ScheduleAms(m) ==
    /\ requests < MaxRequests
    /\ requests' = requests + 1
    /\ amsQ' = Append(amsQ, m)

\* The service has nothing left of an earlier connection of client c, or has only
\* to take its disconnection.
Cleared(c) ==
    /\ box[c] = <<>>
    /\ \A t \in DOMAIN rec : GetConnectRecord(State, t, c) # {} =>
          /\ rec[t].connect = "CONNECTED" /\ rec[t].app \in Live
          /\ \E m \in Elements(amsQ) : m.id = "disconnect" /\ m.client = c

\* AbilityServiceManager::ConnectAbility: a connection object is used once at a
\* time, and the one callback object of the process gets the new arguments.
ClientConnect(c, k, a) ==
    /\ Calls(c)
    /\ k \notin lib[c].store
    /\ Calm => Cleared(c)
    /\ ScheduleAms(ConnectRequest(c, k, a))
    /\ lib' = [lib EXCEPT ![c].store = @ \cup {k}, ![c].stub = k]
    /\ view' = [view EXCEPT ![c][k] = [told |-> "asked", service |-> a]]
    /\ UNCHANGED <<amsVars, proc, box, crashes>>

\* AbilityServiceManager::DisconnectAbility, up to the request to the service ...
ClientDisconnect(c, k) ==
    /\ Calls(c)
    /\ k \in lib[c].store
    /\ Calm => view[c][k].told = "connected"
    /\ ScheduleAms(DisconnectRequest(c))
    /\ lib' = [lib EXCEPT ![c].store = @ \ {k}, ![c].clearing = k]
    /\ view' = [view EXCEPT ![c][k].told = "idle"]
    /\ UNCHANGED <<amsVars, proc, box, crashes>>

\* ... and the release of the arguments after it.
ClearStore(c) ==
    /\ c \in Alives /\ ~lib[c].corrupt
    /\ lib[c].clearing # None
    /\ lib' = [lib EXCEPT ![c].clearing = None]
    /\ UNCHANGED <<amsVars, proc, box, amsQ, view, requests, crashes>>

\* AbilityServiceManager::ConnectAbilityCallBack: whatever the callback is for,
\* it uses the arguments of the last ConnectAbility.  It releases them unless the
\* connection has been made; a release during a DisconnectAbility is one of two.
ConnectAbilityCallBack(c) ==
    /\ c \in Alives /\ ~lib[c].corrupt
    /\ box[c] # <<>>
    /\ LET m == Head(box[c])
           k == lib[c].stub
       IN  IF ~Held(c)
           THEN /\ lib' = [lib EXCEPT ![c].corrupt = TRUE]
                /\ UNCHANGED view
           ELSE IF m.type = "connected"
           THEN /\ view' = [view EXCEPT ![c][k].told = "connected"]
                /\ UNCHANGED lib
           ELSE /\ view' = [view EXCEPT ![c][k].told = "idle"]
                /\ lib' = [lib EXCEPT ![c].store = @ \ {k},
                                      ![c].corrupt = (lib[c].clearing = k)]
    /\ box' = [box EXCEPT ![c] = Tail(@)]
    /\ UNCHANGED <<amsVars, proc, amsQ, requests, crashes>>

\* The client process dies; the service is told, by the name of its bundle.
ClientDies(c) ==
    /\ c \in Mortal \cap Alives
    /\ Calm => \A k \in Conn : view[c][k].told # "asked"
    /\ box' = Drop(box, {c})
    /\ view' = [view EXCEPT ![c] = [k \in Conn |-> [@[k] EXCEPT !.told = "idle"]]]
    /\ lib' = [lib EXCEPT ![c] = [store |-> {}, stub |-> None, clearing |-> None, corrupt |-> FALSE]]
    /\ ScheduleAms([id |-> "clientDied", client |-> c])
    /\ UNCHANGED <<amsVars, proc, crashes>>

ClientStart(a) ==
    /\ a \in Startable
    /\ ScheduleAms([id |-> "start", service |-> a])
    /\ UNCHANGED <<amsVars, proc, clientVars, crashes>>

ClientStop(a) ==
    /\ a \in Stoppable
    /\ Calm => /\ \E t \in DOMAIN rec :
                     /\ rec[t].ability = a /\ ~rec[t].forceStop /\ rec[t].app \in Live
                     /\ rec[t].state = "INACTIVE" /\ rec[t].connect \in {"INIT", "CONNECTED"}
               /\ \A c \in Client, k \in Conn :
                     ~(view[c][k].told = "asked" /\ view[c][k].service = a)
               /\ StopRequest(a) \notin Elements(amsQ)
    /\ ScheduleAms(StopRequest(a))
    /\ UNCHANGED <<amsVars, proc, clientVars, crashes>>

ClientNext ==
    \/ \E c \in Client, k \in Conn : \E a \in Wanted[c] : ClientConnect(c, k, a)
    \/ \E c \in Client, k \in Conn : ClientDisconnect(c, k)
    \/ \E c \in Client : ClientDies(c)
    \/ \E a \in Ability : ClientStart(a) \/ ClientStop(a)

CallbackNext(c) == ClearStore(c) \/ ConnectAbilityCallBack(c)

-----------------------------------------------------------------------------
(* The service: one handler for the request at the head of the queue.      *)

Serves(id) == ~dangling /\ ~overtaken /\ amsQ # <<>> /\ Head(amsQ).id = id

Handle(s) ==
    /\ Commit(s)
    /\ amsQ' = Tail(amsQ)
    /\ UNCHANGED <<lib, view, requests, crashes>>

AmsStart ==
    /\ Serves("start")
    /\ \E fails \in SpawnFailures : Handle(StartService(State, Head(amsQ).service, FALSE, fails))
    /\ UNCHANGED overtaken

AmsConnect ==
    /\ Serves("connect")
    /\ LET r == Head(amsQ)
       IN  \E fails \in SpawnFailures :
              Handle(ConnectAbility(State, r, r.service \in Visible[r.client], fails))
    /\ UNCHANGED overtaken

AmsDisconnect ==
    /\ Serves("disconnect")
    /\ Handle(DisconnectTask(State, Head(amsQ).client, Head(amsQ).token))
    /\ UNCHANGED overtaken

AmsConnectDone ==
    /\ Serves("connectDone")
    /\ Handle(ConnectDoneTask(State, Head(amsQ).token))
    /\ UNCHANGED overtaken

AmsDisconnectDone ==
    /\ Serves("disconnectDone")
    /\ Handle(DisconnectDoneTask(State, Head(amsQ).token))
    /\ UNCHANGED overtaken

AmsTerminateService ==
    /\ Serves("stop")
    /\ Handle(TerminateServiceTask(State, Head(amsQ).service, TRUE))
    /\ UNCHANGED overtaken

AmsAttach ==
    /\ Serves("attach")
    /\ Handle(AttachTask(State, Head(amsQ).proc))
    /\ UNCHANGED overtaken

AmsTransactionDone ==
    /\ Serves("done")
    /\ Handle(AbilityTransaction(State, Head(amsQ).token, Head(amsQ).state))
    /\ UNCHANGED overtaken

\* The death of a process is charged to its bundle.  What happens once it has
\* hit a newer process of the bundle is module Ams' subject, and left out here.
AmsRestart ==
    /\ Serves("restart")
    /\ LET p == Head(amsQ).proc
           b == Head(amsQ).bundle
       IN  /\ Handle(RestartApp(State, b))
           /\ overtaken' = (AppsOf(State, b) \ {p} # {})

AmsClientDied ==
    /\ Serves("clientDied")
    /\ Handle(ClearPages(State, PageToken[Head(amsQ).client]))
    /\ UNCHANGED overtaken

AmsNext ==
    \/ AmsStart \/ AmsConnect \/ AmsDisconnect \/ AmsConnectDone \/ AmsDisconnectDone
    \/ AmsTerminateService \/ AmsAttach \/ AmsTransactionDone \/ AmsRestart \/ AmsClientDied

-----------------------------------------------------------------------------
(* A service process: its main thread attaches, then runs the tasks the    *)
(* service's messages posted to its event queue.  hosted[t] says whether   *)
(* the service with token t is between OnConnect and OnDisconnect.         *)

Post(m) == amsQ' = Append(amsQ, m)

Receives(p, type) ==
    /\ p \in Live
    /\ proc[p].phase = "running"
    /\ proc[p].inbox # <<>>
    /\ Head(proc[p].inbox).type = type

ProcUnchanged == UNCHANGED <<amsVars, clientVars, requests, crashes>>

ThreadMain(p) ==
    /\ proc[p].phase = "spawned"
    /\ proc' = [proc EXCEPT ![p].phase = "running"]
    /\ Post([id |-> "attach", proc |-> p])
    /\ ProcUnchanged

PerformAppInit(p) ==
    /\ Receives(p, "init")
    /\ proc' = [proc EXCEPT ![p].inbox = Tail(@), ![p].inited = TRUE]
    /\ UNCHANGED amsQ
    /\ ProcUnchanged

\* A service is made at its first transaction and deleted when it is INITIAL.
PerformTransactAbilityState(p) ==
    /\ Receives(p, "transact")
    /\ LET m     == Head(proc[p].inbox)
           state == IF m.ability \in Unloadable THEN "INITIAL" ELSE m.state
       IN  /\ proc' = [proc EXCEPT
                         ![p].inbox = Tail(@),
                         ![p].hosted = CASE state = "INITIAL" -> Drop(@, {m.token})
                                         [] state # "INITIAL" /\ m.token \in DOMAIN @ -> @
                                         [] OTHER -> With(@, m.token, FALSE)]
           /\ Post([id |-> "done", token |-> m.token, state |-> state])
    /\ ProcUnchanged

\* A service the process does not hold is not connected, and nobody is told.
PerformConnectAbility(p) ==
    /\ Receives(p, "connect")
    /\ LET t == Head(proc[p].inbox).token
       IN  IF t \in Hosted(p)
           THEN /\ proc' = [proc EXCEPT ![p].inbox = Tail(@), ![p].hosted[t] = TRUE]
                /\ Post(ConnectDoneRequest(t))
           ELSE /\ proc' = [proc EXCEPT ![p].inbox = Tail(@)]
                /\ UNCHANGED amsQ
    /\ ProcUnchanged

\* Mutant: the end of the last connection is not reported.
PerformDisconnectAbilityUntold(p) ==
    /\ Receives(p, "disconnect")
    /\ LET t == Head(proc[p].inbox).token
       IN  proc' = [proc EXCEPT ![p].inbox = Tail(@),
                                ![p].hosted = IF t \in DOMAIN @ THEN With(@, t, FALSE) ELSE @]
    /\ UNCHANGED amsQ
    /\ ProcUnchanged

PerformDisconnectAbility(p) ==
    /\ Receives(p, "disconnect")
    /\ LET t == Head(proc[p].inbox).token
       IN  IF t \in Hosted(p)
           THEN /\ proc' = [proc EXCEPT ![p].inbox = Tail(@), ![p].hosted[t] = FALSE]
                /\ Post(DisconnectDoneRequest(t))
           ELSE /\ proc' = [proc EXCEPT ![p].inbox = Tail(@)]
                /\ UNCHANGED amsQ
    /\ ProcUnchanged

PerformAppExit(p) ==
    /\ Receives(p, "exit")
    /\ proc' = [proc EXCEPT ![p].inbox = Append(Tail(@), [type |-> "quit"])]
    /\ UNCHANGED amsQ
    /\ ProcUnchanged

Die(p) ==
    proc' = [proc EXCEPT ![p].phase = "dead", ![p].inbox = <<>>, ![p].hosted = <<>>]

Quit(p) ==
    /\ Receives(p, "quit")
    /\ Die(p)
    /\ UNCHANGED amsQ
    /\ ProcUnchanged

\* A process that crashes before it is watched is never missed: module Ams
\* shows what becomes of it, and it is left out here.
Crash(p) ==
    /\ p \in Live /\ proc[p].watched
    /\ crashes < MaxCrashes
    /\ crashes' = crashes + 1
    /\ Die(p)
    /\ UNCHANGED <<amsVars, clientVars, amsQ, requests>>

AppDeathNotify(p) ==
    /\ proc[p].phase = "dead"
    /\ proc' = Drop(proc, {p})
    /\ Post([id |-> "restart", bundle |-> proc[p].bundle, proc |-> p])
    /\ ProcUnchanged

ProcNext(p) ==
    \/ ThreadMain(p) \/ PerformAppInit(p) \/ PerformTransactAbilityState(p)
    \/ PerformConnectAbility(p) \/ PerformDisconnectAbility(p)
    \/ PerformAppExit(p) \/ Quit(p) \/ AppDeathNotify(p)

-----------------------------------------------------------------------------

Init ==
    /\ rec = <<>>
    /\ app = <<>>
    /\ lastToken = LastPage
    /\ dangling = FALSE /\ reread = FALSE
    /\ proc = <<>>
    /\ box = [c \in Client |-> <<>>]
    /\ amsQ = <<>>
    /\ lib = [c \in Client |-> [store |-> {}, stub |-> None, clearing |-> None, corrupt |-> FALSE]]
    /\ view = [c \in Client |-> [k \in Conn |-> [told |-> "idle", service |-> CHOOSE a \in Ability : TRUE]]]
    /\ overtaken = FALSE
    /\ requests = 0
    /\ crashes = 0

Next ==
    \/ ClientNext
    \/ \E c \in Client : CallbackNext(c)
    \/ AmsNext
    \/ \E p \in DOMAIN proc : ProcNext(p) \/ Crash(p)

Spec == Init /\ [][Next]_vars

\* The service's task, the threads of every client and some process that has
\* work to do are scheduled.  Nothing is assumed of the callers, and nothing has
\* to crash or die.  AmsFairness is WF_vars(AmsNext), with the condition under
\* which AmsNext is enabled written out.
AmsFairness == []<>(dangling \/ overtaken \/ amsQ = <<>>) \/ []<><<AmsNext>>_vars

FairSpec ==
    /\ Spec
    /\ AmsFairness
    /\ \A c \in Client : WF_vars(CallbackNext(c))
    /\ WF_vars(\E p \in DOMAIN proc : ProcNext(p))

-----------------------------------------------------------------------------
(* Properties.                                                             *)

ConnType == [client : Client, token : Nat, conn : Conn, status : {"CONNECTING", "CONNECTED"}]

ServiceType ==
    [ability : Ability, state : {"UNINITIALIZED", "INACTIVE", "INITIAL"}, app : Nat,
     connect : ConnectStatus, startDone : BOOLEAN, forceStop : BOOLEAN, conns : SUBSET ConnType]

\* The type invariant: which records, callbacks and library memory there are;
\* with it, that an ability has at most one service record, and a client process
\* at most one connection to it.
ConnectTypeOK ==
    /\ TokenMap(rec, ServiceType)
    /\ TokenMap(app, AppType)
    /\ lastToken \in Nat /\ dangling \in BOOLEAN /\ reread \in BOOLEAN
    /\ \A p \in DOMAIN proc : TokenMap(proc[p].hosted, BOOLEAN)
    /\ Alives \subseteq Client
    /\ \A c \in Client :
          /\ lib[c].store \subseteq Conn
          /\ {lib[c].stub, lib[c].clearing} \subseteq Conn \cup {None}
          /\ lib[c].corrupt \in BOOLEAN
          /\ view[c] \in [Conn -> [told : {"idle", "asked", "connected"}, service : Ability]]
    /\ \A t, u \in DOMAIN rec : rec[t].ability = rec[u].ability => t = u
    /\ \A t \in DOMAIN rec : \A q, r \in rec[t].conns : q.client = r.client => q = r

\* Of the pointers a service record holds, the service follows none to a record
\* it has deleted.  (The argument of RemoveAppRecord is the subject of Ams.)
PointersLive == ~dangling

\* At rest the service's records are the services the processes hold: each is
\* INACTIVE, held by the process its record points to, connected there exactly
\* when the record says so, and no stop or disconnection is left half done.
ServicesInStep ==
    Settled =>
       /\ \A p \in Live : Hosted(p) \subseteq DOMAIN rec
       /\ \A t \in DOMAIN rec :
             /\ rec[t].state = "INACTIVE" /\ ~rec[t].forceStop
             /\ rec[t].connect \in {"INIT", "CONNECTED"}
             /\ rec[t].app \in Live /\ t \in Hosted(rec[t].app)
             /\ proc[rec[t].app].hosted[t] = (rec[t].connect = "CONNECTED")

\* At rest a service that nobody started has a connection, and a process has a
\* service: the last client to go takes the service with it, and the last
\* service its process.
NothingIdle ==
    Settled =>
       /\ \A t \in DOMAIN rec : rec[t].startDone \/ rec[t].conns # {}
       /\ \A p \in Live : p \in DOMAIN app /\ Hosted(p) # {}

\* At rest the records, the services and their processes are in step, and none
\* of them is left over.
SettledServices == ServicesInStep /\ NothingIdle

\* At rest a client and the service agree on every connection: a client that has
\* been told of one has it on record, CONNECTED, and the other way round; none
\* is still waiting.
ConnectionsAgree ==
    Settled =>
       \A c \in Alives : ~lib[c].corrupt =>
          \A k \in Conn :
             LET made == {t \in DOMAIN rec :
                            /\ rec[t].ability = view[c][k].service
                            /\ \E r \in rec[t].conns :
                                  r.client = c /\ r.conn = k /\ r.status = "CONNECTED"}
             IN  CASE view[c][k].told = "connected" -> made # {}
                   [] view[c][k].told = "idle"      -> made = {}
                   [] OTHER                         -> FALSE

\* OnConnect and OnDisconnect of a service alternate: OnConnect is called for the
\* first connection only, OnDisconnect when all are gone.
ConnectsAlternate ==
    [][\A p \in Live : \A t \in Hosted(p) :
          /\ (PerformConnectAbility(p) /\ Head(proc[p].inbox).token = t) => ~proc[p].hosted[t]
          /\ (PerformDisconnectAbility(p) /\ Head(proc[p].inbox).token = t) => proc[p].hosted[t]]_vars

\* A callback runs on the connection it is for.
CallbackGoesHome ==
    [][\A c \in Alives : ConnectAbilityCallBack(c) => Head(box[c]).conn = lib[c].stub]_vars

\* Every connection that is asked for is answered, with a connection or with a
\* failure.
Answered ==
    \A c \in Client, k \in Conn :
       view[c][k].told = "asked" ~> (view[c][k].told # "asked" \/ lib[c].corrupt \/ overtaken)

\* A service that nobody started and nobody is connected to any more comes to an
\* end, or gets a new connection.
UnusedStops ==
    (\E t \in DOMAIN rec : ~rec[t].startDone /\ rec[t].conns = {})
       ~> (overtaken \/ \A t \in DOMAIN rec : rec[t].startDone \/ rec[t].conns # {})
=============================================================================
