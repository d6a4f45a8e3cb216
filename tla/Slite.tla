------------------------------- MODULE Slite --------------------------------
(***************************************************************************)
(* The Ability Manager Service of the mini system (liteos_m): one process   *)
(* with the service's task, a task per JS ability and one for the native    *)
(* abilities.  Clients and abilities put requests into the queue of the     *)
(* service; its task takes one at a time.  While an ability is being        *)
(* switched the service holds further operations back and runs them when    *)
(* the new ability has reached the foreground.                             *)
(***************************************************************************)
EXTENDS SliteSingle, SliteMulti

CONSTANTS
    Requests,       \* the requests clients may issue
    Failures,       \* the sets of bundles whose task may fail to be created
    Overlap,        \* whether clients issue requests while lifecycle steps are due
    MaxRequests     \* bound: client requests in a behaviour

Operation ==
    [id : {"start"}, want : [app : App, mission : Mission \cup {Unset}]]
      \cup [id : {"terminate", "terminateApp"}, token : Token]
      \cup [id : {"terminateMission"}, mission : Mission]
      \cup [id : {"forceStop", "terminateAll"}, app : App]

ASSUME SliteEnvironmentAssumption ==
    /\ Requests \subseteq Operation
    /\ Failures \subseteq SUBSET App /\ Failures # {}
    /\ Overlap \in BOOLEAN /\ MaxRequests \in Nat

VARIABLES
    list,           \* abilityList_, the top record first
    ops,            \* abilityOperation_: the operations held back
    scheduling,     \* isAppScheduling_
    pending,        \* pendingToken_, 0 for none
    pendingRecord,  \* the record that waits for pendingToken_, if any
    tokens,         \* the static counter of GenerateToken
    missions,       \* the static counter of GenerateMission
    threads,        \* the ability threads with their message queues
    nativeQ,        \* the queue the native abilities share
    async,          \* the JS ability whose queue takes asynchronous work
    launcher,       \* the state of the native launcher
    seen,           \* what the observer was last told of every bundle
    amsQ,           \* the service's request queue
    lost,           \* TRUE once a report could not be put into that queue
    dangling,       \* TRUE once a deleted or missing object has been used
    failed,         \* TRUE once the task of an ability could not be created
    ret,            \* the return value of the last handler
    requests        \* the number of client requests

vars == <<list, ops, scheduling, pending, pendingRecord, tokens, missions, threads,
          nativeQ, async, launcher, seen, amsQ, lost, dangling, failed, ret, requests>>

State ==
    [list |-> list, ops |-> ops, scheduling |-> scheduling, pending |-> pending,
     pendingRecord |-> pendingRecord, tokens |-> tokens, missions |-> missions,
     threads |-> threads, nativeQ |-> nativeQ, async |-> async,
     launcher |-> launcher, seen |-> seen, amsQ |-> amsQ, lost |-> lost,
     dangling |-> dangling, failed |-> failed, ret |-> ret]

Commit(s) ==
    /\ list' = s.list /\ ops' = s.ops /\ scheduling' = s.scheduling
    /\ pending' = s.pending /\ pendingRecord' = s.pendingRecord
    /\ tokens' = s.tokens /\ missions' = s.missions
    /\ threads' = s.threads /\ nativeQ' = s.nativeQ /\ async' = s.async
    /\ launcher' = s.launcher /\ seen' = s.seen
    /\ amsQ' = s.amsQ /\ lost' = s.lost /\ dangling' = s.dangling
    /\ failed' = s.failed /\ ret' = s.ret

-----------------------------------------------------------------------------
(* The operations, as clients request them or as the service takes them out *)
(* of the queue of those it held back; both builds have all of them.        *)

StartAbility(s, w, fails) ==
    IF MultiTasks THEN MStartAbility(s, w, fails) ELSE SStartAbility(s, w, fails)

TerminateToken(s, t) == IF MultiTasks THEN MTerminateToken(s, t) ELSE STerminateToken(s, t)

\* Mutant: the termination overtakes the switch under way.
TerminateAbilityAtOnce(s, t) == TerminateToken(Scheduling(s), t)

TerminateAbility(s, t) ==
    IF s.scheduling THEN AddAbilityOperation(s, [id |-> "terminate", token |-> t])
    ELSE TerminateToken(Scheduling(s), t)

\* All abilities of the mission but the one on top are terminated, in turn.
TerminateMission(s, m) ==
    LET others == GetAbilityList(s.list, m) \ {s.list[1]}
        Stays(r) == r.token = LauncherToken \/ (MultiTasks /\ IsPermanentAbility(r))
        left == DeleteRecords(s, {r \in others : ~Stays(r)})
    IN  IF s.scheduling
        THEN AddAbilityOperation(s, [id |-> "terminateMission", mission |-> m])
        ELSE IF s.list = <<>> THEN Error(s)
        ELSE IF ~MultiTasks /\ \E r \in others : r.token = LauncherToken
        THEN Ok(STerminateToken(left, LauncherToken))
        ELSE Ok(left)

ForceStopBundle(s, t, fails) ==
    IF MultiTasks THEN MForceStopBundle(s, t, fails) ELSE SForceStopBundle(s, t)

ForceStop(s, a) ==
    IF s.scheduling THEN AddAbilityOperation(s, [id |-> "forceStop", app |-> a])
    ELSE IF ~MultiTasks /\ a = Startup THEN TerminateToken(Scheduling(s), LauncherToken)
    ELSE IF ~HasApp(s.list, a) THEN Error(Idle(s))
    ELSE TerminateToken(Scheduling(s), GetApp(s.list, a).token)

\* The records that go are deleted with their threads; the observer is told.
TerminateAll(s, excluded) ==
    LET kept == PopAllAbility(s.list, excluded)
        gone == {s.list[i] : i \in {j \in DOMAIN s.list : ~Has(kept, s.list[j].token)}}
    IN  IF s.scheduling
        THEN AddAbilityOperation(s, [id |-> "terminateAll", app |-> excluded])
        ELSE IF s.list = <<>> THEN Error(s)
        ELSE Ok(NotifyAbilityRecordCleanup([DeleteThreads(s, gone) EXCEPT !.list = kept], gone))

Perform(s, op, fails) ==
    CASE op.id = "start" -> StartAbility(s, op.want, fails)
      [] op.id = "terminate" -> TerminateAbility(s, op.token)
      [] op.id = "terminateMission" -> TerminateMission(s, op.mission)
      [] op.id = "terminateApp" -> ForceStopBundle(s, op.token, fails)
      [] op.id = "forceStop" -> ForceStop(s, op.app)
      [] op.id = "terminateAll" -> TerminateAll(s, op.app)

\* One operation of those held back; a failed one does not hold the others up.
\* The mission of a start that was held back is whatever its copy contains.
RunOne(s, fails, garbage) ==
    LET op == Head(s.ops)
        copy == IF op.id = "start" THEN [op EXCEPT !.want.mission = garbage] ELSE op
        Done(u) == IF u.ret = "error" THEN Idle(u) ELSE u
    IN  IF s.ops = <<>> \/ s.scheduling THEN s
        ELSE Done(Perform([s EXCEPT !.ops = Tail(@)], copy, fails))

\* The operations held back, until one of them schedules an ability again.  An
\* operation adds at most one more, so twice their number is enough.
RunOperation(s, fails, garbage) ==
    LET n == 2 * Len(s.ops)
        run[i \in 0..n] == IF i = 0 THEN s ELSE RunOne(run[i - 1], fails, garbage)
    IN  run[n]

-----------------------------------------------------------------------------
(* Reports of the abilities.                                               *)

OnCreateDone(s, t) ==
    SchedulerLifecycle(SetAbilityStateAndNotify(s, t, "INITED"), t, "FOREGROUND")

OnForegroundDone(s, t, fails) ==
    IF MultiTasks THEN MOnForegroundDone(s, t) ELSE SOnForegroundDone(s, t, fails)

OnBackgroundDone(s, t) ==
    IF MultiTasks THEN MOnBackgroundDone(s, t) ELSE SOnBackgroundDone(s, t)

OnDestroyDone(s, t, fails) ==
    IF MultiTasks THEN MOnDestroyDone(s, t, fails) ELSE SOnDestroyDone(s, t, fails)

\* Mutant: nobody runs the operations held back.
SchedulerLifecycleDoneIdle(s, t, state, fails, garbage) ==
    CASE state = "INITIAL" -> OnCreateDone(s, t)
      [] state = "FOREGROUND" -> Idle(OnForegroundDone(s, t, fails))
      [] state = "BACKGROUND" -> OnBackgroundDone(s, t)
      [] state = "UNINITIALIZED" -> OnDestroyDone(s, t, fails)

\* Only an ability that reached the foreground ends a switch.
SchedulerLifecycleDone(s, t, state, fails, garbage) ==
    CASE state = "INITIAL" -> OnCreateDone(s, t)
      [] state = "FOREGROUND" ->
           RunOperation(Idle(OnForegroundDone(s, t, fails)), fails, garbage)
      [] state = "BACKGROUND" -> OnBackgroundDone(s, t)
      [] state = "UNINITIALIZED" -> OnDestroyDone(s, t, fails)

-----------------------------------------------------------------------------
(* Booting: samgr initialises the feature in the task of the service, which *)
(* starts the launcher; the want it builds names whatever mission the memory *)
(* contains.                                                                *)

StartLauncher(s, fails, garbage) ==
    LET r == [AbilityRecord(LauncherToken, Startup, TRUE, 0)
                EXCEPT !.state = "FOREGROUND"]
    IN  IF MultiTasks THEN MStartAbility(s, [app |-> Startup, mission |-> garbage], fails)
        ELSE ScheduleLifecycleInner(AddRecord(s, r), r, "FOREGROUND")

-----------------------------------------------------------------------------
(* The task of the service.                                                *)

ServiceReady == ~dangling /\ amsQ # <<>>

Serve(s) == Commit(s) /\ UNCHANGED requests

OnFeatureInitialize ==
    /\ ServiceReady /\ Head(amsQ).id = "initialize"
    /\ \E fails \in Failures, garbage \in Mission \cup {Unset} :
          /\ MultiTasks \/ garbage = Unset
          /\ Serve(StartLauncher([State EXCEPT !.amsQ = Tail(@)], fails, garbage))

\* A request that failed or scheduled nothing lets the operations held back run.
HandleRequest ==
    /\ ServiceReady /\ Head(amsQ).id \notin {"done", "initialize"}
    /\ \E fails \in Failures, garbage \in Mission \cup {Unset} :
         /\ garbage = Unset \/ \E i \in DOMAIN ops : ops[i].id = "start"
         /\ LET Performed(s) == IF s.ret = "error" \/ ~s.scheduling
                                THEN RunOperation(Idle(s), fails, garbage) ELSE s
            IN  Serve(Performed(Perform([State EXCEPT !.amsQ = Tail(@)], Head(amsQ), fails)))

HandleDone ==
    /\ ServiceReady /\ Head(amsQ).id = "done"
    /\ \E fails \in Failures, garbage \in Mission \cup {Unset} :
         /\ garbage = Unset \/ \E i \in DOMAIN ops : ops[i].id = "start"
         /\ Serve(SchedulerLifecycleDone([State EXCEPT !.amsQ = Tail(@)],
                                         Head(amsQ).token, Head(amsQ).state,
                                         fails, garbage))

-----------------------------------------------------------------------------
(* The tasks of the abilities.  A callback reports to the service when it   *)
(* has run.                                                                 *)

StateAfter(id) ==
    CASE id = "CREATE" -> "INITIAL"
      [] id = "FOREGROUND" -> "FOREGROUND"
      [] id = "BACKGROUND" -> "BACKGROUND"
      [] id = "DESTROY" -> "UNINITIALIZED"

\* OnSaveData writes into an object of the record, OnRestoreData resets it.
UsesDeleted(m) == m.saved /\ ~(Has(list, m.token) /\ Get(list, m.token).saved)

\* A full queue is tried RETRY_TIMES times, and then the request is dropped.
SendRequestToAms(m) ==
    amsQ' = IF Len(amsQ) < QueueSize THEN Append(amsQ, m) ELSE amsQ

\* The callback of the ability changes its state and reports it; nobody looks
\* at what became of the report.
Callback(m, inbox) ==
    /\ SendRequestToAms([id |-> "done", token |-> m.token, state |-> StateAfter(m.id)])
    /\ threads' = [threads EXCEPT ![m.token].life = StateAfter(m.id),
                                  ![m.token].inbox = inbox]
    /\ lost' = (lost \/ Len(amsQ) >= QueueSize)
    /\ dangling' = (dangling \/ UsesDeleted(m))
    /\ UNCHANGED <<list, ops, scheduling, pending, pendingRecord, tokens, missions,
                   async, launcher, seen, failed, ret, requests>>

\* The task of a JS ability leaves its loop after DESTROY.
JsAppTask(t) ==
    /\ ~dangling /\ ~threads[t].native
    /\ threads[t].inbox # <<>> /\ threads[t].life # "UNINITIALIZED"
    /\ Callback(Head(threads[t].inbox), Tail(threads[t].inbox))
    /\ UNCHANGED nativeQ

NativeAppTask ==
    /\ ~dangling /\ nativeQ # <<>>
    /\ Callback(Head(nativeQ), <<>>)
    /\ nativeQ' = Tail(nativeQ)

-----------------------------------------------------------------------------
(* Clients: abilities, the shell and the system interface.                  *)

\* Lifecycle messages and reports that are on their way.
Reports == {i \in DOMAIN amsQ : amsQ[i].id = "done"}
OnTheWay ==
    Cardinality(Reports) + Len(nativeQ)
      + Cardinality(UNION {{t} \X DOMAIN threads[t].inbox : t \in DOMAIN threads})

Request(m) ==
    /\ m \in Requests
    /\ Overlap \/ (OnTheWay = 0 /\ amsQ = <<>>)
    /\ requests < MaxRequests /\ list # <<>>
    /\ SendRequestToAms(m)
    /\ requests' = requests + 1
    /\ UNCHANGED <<list, ops, scheduling, pending, pendingRecord, tokens, missions,
                   threads, nativeQ, async, launcher, seen, lost, dangling,
                   failed, ret>>

ClientStart(m) == m.id = "start" /\ Request(m)
ClientTerminate(m) == m.id \in {"terminate", "terminateMission", "terminateAll"} /\ Request(m)
ClientForceStop(m) == m.id \in {"forceStop", "terminateApp"} /\ Request(m)

-----------------------------------------------------------------------------

Init ==
    /\ list = <<>> /\ ops = <<>> /\ scheduling = FALSE
    /\ pending = 0 /\ pendingRecord = {}
    /\ tokens = LauncherToken /\ missions = 0
    /\ threads = <<>> /\ nativeQ = <<>> /\ async = NoToken
    /\ launcher = "INITIAL" /\ seen = [a \in App |-> "NONE"]
    /\ amsQ = <<[id |-> "initialize"]>> /\ lost = FALSE /\ dangling = FALSE
    /\ failed = FALSE /\ ret = "ok" /\ requests = 0

Service == OnFeatureInitialize \/ HandleRequest \/ HandleDone

Next ==
    \/ Service
    \/ \E t \in DOMAIN threads : JsAppTask(t)
    \/ NativeAppTask
    \/ \E m \in Requests : ClientStart(m) \/ ClientTerminate(m) \/ ClientForceStop(m)

Spec == Init /\ [][Next]_vars

\* The kernel's scheduler lets every task run that has something to do.  For
\* the task of the service this is WF_vars(Service) with its enabling condition
\* written out, which spares TLC the evaluation of every handler.
Fairness ==
    /\ []<>(~ServiceReady) \/ []<><<Service>>_vars
    /\ WF_vars(\E t \in DOMAIN threads : JsAppTask(t))
    /\ WF_vars(NativeAppTask)

FairSpec == Spec /\ Fairness

-----------------------------------------------------------------------------
(* Properties.                                                             *)

Settled == list # <<>> /\ ~scheduling /\ OnTheWay = 0 /\ ~failed

SliteTypeOK ==
    /\ list \in Seq(RecordType)
    /\ Len(list) <= Capacity
    /\ DOMAIN threads \subseteq Token
    /\ pending \in Token /\ tokens \in 0..TokenLimit /\ missions \in 0..MissionLimit
    /\ scheduling \in BOOLEAN /\ Len(amsQ) <= QueueSize

\* No handler and no ability task ever uses a record, a thread or saved data
\* that has been deleted, although records are deleted by operations that
\* overtake the messages of their threads (DeleteRecordInfo, PopAllAbility,
\* PopBottomAbility).
NoDangling == ~dangling

\* The home screen is never lost from the list ("launcher will not pop ability
\* stack"): neither by termination nor by the eviction of a full list.
LauncherStays == tokens > 0 \/ list # <<>> => Has(list, LauncherToken)

\* At most one ability has a task at a time: a switch creates the next task
\* only when the one before is gone.
OneThread == Cardinality(DOMAIN threads) <= 1

\* In both builds: the home screen stays, and tasks never overlap.
OneTaskBesideHome == LauncherStays /\ OneThread

\* Switches never overlap: at any time at most one lifecycle message or report
\* is on its way between the service and all the abilities.  And a switch that
\* holds operations back always has that one under way, which will end it;
\* otherwise the service holds them back for ever, as it does once a report has
\* been dropped.
OneMessage ==
    /\ OnTheWay <= 1
    /\ scheduling /\ ~failed /\ ~lost => OnTheWay = 1

\* Between switches exactly the top ability is in the foreground, and the
\* service, the ability itself and the asynchronous work queue agree on it.
SettledTop ==
    MultiTasks /\ Settled =>
        /\ list[1].state = "FOREGROUND"
        /\ GetTopAbility(list) = {list[1].app}
        /\ DOMAIN threads = {list[1].token}
        /\ threads[list[1].token].life = "FOREGROUND"
        /\ async = IF list[1].native THEN NoToken ELSE list[1].token
        /\ \A i \in 2..Len(list) : list[i].state = "STOP" /\ ~list[i].thread

\* Without multi-tasking: between switches the records of the launcher and of
\* the application say what the launcher and the application last did, and an
\* application has a record exactly as long as it has a task.
SettledHome ==
    ~MultiTasks /\ Settled =>
        /\ Get(list, LauncherToken).state = launcher
        /\ DOMAIN threads = {list[i].token : i \in DOMAIN list} \ {LauncherToken}
        /\ \A t \in DOMAIN threads : Get(list, t).state = threads[t].life

\* What the observer was last told of a bundle is what the list says: a state
\* change is told before anything else happens, and a bundle that is no longer
\* in the list was last told to be stopped or gone.
ObserverAgrees ==
    \A a \in App : seen[a] \notin {"NONE", "GONE"} =>
        IF HasApp(list, a) THEN GetApp(list, a).state = seen[a] ELSE seen[a] = "STOP"

\* Every operation held back is eventually run, unless a task could not be
\* created or a report was dropped.
HeldBackRuns == ops # <<>> ~> ops = <<>> \/ failed \/ lost

\* The abilities that have a task implement the promise of module OneAbility:
\* one at a time, with their callbacks in order and none skipped or repeated.
Abilities ==
    {[app |-> Get(list, t).app, life |-> threads[t].life] :
        t \in {u \in DOMAIN threads : Has(list, u)}}

Promise == INSTANCE OneAbility WITH ability <- Abilities
KeepsPromise == Promise!Spec
=============================================================================
