----------------------------- MODULE SliteState -----------------------------
(***************************************************************************)
(* The state of the single-process Ability Manager Service (liteos_m) and  *)
(* the steps its two builds share: the list of ability records, the        *)
(* ability threads with their message queues, the scheduling flag with the *)
(* operations it holds back, and the observer.  A record of the list is    *)
(*   [token, app, state, terminated, native, mission, thread, saved];      *)
(* the front of abilityList_ is the first element.  A handler is an        *)
(* operator from service states to service states; its return value is     *)
(* the field ret.                                                          *)
(***************************************************************************)
EXTENDS Integers, Sequences, FiniteSets

CONSTANTS
    MultiTasks,     \* whether the build defines _MINI_MULTI_TASKS_
    App,            \* bundle names
    Startup,        \* the launcher: the startup bundle
    Main,           \* the bundles named MAIN_BUNDLE_NAME
    NativeApps,     \* the bundles registered as native
    Temporary,      \* the bundles registered as temporary
    Unknown,        \* the bundles the bundle manager does not know
    Refused,        \* the bundles the start callback refuses
    Pathless,       \* the bundles started without a path to their code
    NativeLauncher, \* whether a native launcher was installed
    Capacity,       \* ABILITY_LIST_CAPACITY
    TokenLimit,     \* the token after which the counter starts again
    MissionLimit,   \* the mission number after which that counter starts again
    QueueSize       \* the capacity of the service's request queue

ASSUME SliteAssumption ==
    /\ MultiTasks \in BOOLEAN /\ NativeLauncher \in BOOLEAN
    /\ Startup \in App
    /\ Main \subseteq App /\ NativeApps \subseteq App /\ Temporary \subseteq App
    /\ Unknown \subseteq App /\ Refused \subseteq App /\ Pathless \subseteq App
    /\ Capacity \in Nat \ {0}
    /\ TokenLimit \in Nat \ {0} /\ MissionLimit \in Nat \ {0}
    /\ QueueSize \in Nat \ {0}

LauncherToken == 0
Token == 0..TokenLimit
Unset == -1                     \* UINT32_MAX: the want names no mission
Mission == 0..(MissionLimit - 1)
NoToken == -1

AbilityRecord(t, a, native, m) ==
    [token |-> t, app |-> a, state |-> "STOP", terminated |-> FALSE,
     native |-> native, mission |-> m, thread |-> FALSE, saved |-> FALSE]

RecordType ==
    [token : Token, app : App, state : {"STOP", "INITED", "FOREGROUND", "BACKGROUND"},
     terminated : BOOLEAN, native : BOOLEAN, mission : Mission, thread : BOOLEAN,
     saved : BOOLEAN]

-----------------------------------------------------------------------------
(* The list of records.                                                    *)

Has(list, t) == \E i \in DOMAIN list : list[i].token = t
Get(list, t) == list[CHOOSE i \in DOMAIN list : list[i].token = t]

HasApp(list, a) == \E i \in DOMAIN list : list[i].app = a
GetApp(list, a) == list[CHOOSE i \in DOMAIN list :
                          list[i].app = a /\ \A j \in 1..(i - 1) : list[j].app # a]

IsPermanentAbility(r) == r.token = LauncherToken \/ r.app \in Main

\* The records at the positions S, in their order.
Keep(list, S) ==
    [k \in 1..Cardinality(S) |->
        list[CHOOSE i \in S : Cardinality({j \in S : j < i}) = k - 1]]

Erase(list, t) == Keep(list, {i \in DOMAIN list : list[i].token # t})

\* The bottom record makes room, the one above it when the bottom is home.
PopBottomAbility(list) ==
    LET n == Len(list)
    IN  Keep(list, DOMAIN list \ {IF IsPermanentAbility(list[n]) THEN n - 1 ELSE n})

\* Mutant: nothing makes room for the new record.
AddUnbounded(list, r) == IF Has(list, r.token) THEN list ELSE <<r>> \o list

Add(list, r) ==
    LET room == IF Len(list) >= Capacity THEN PopBottomAbility(list) ELSE list
    IN  IF Has(room, r.token) THEN room ELSE <<r>> \o room

MoveToTop(list, t) == IF Has(list, t) THEN Add(Erase(list, t), Get(list, t)) ELSE list

\* The top record, the permanent ones and the excluded bundle survive.
PopAllAbility(list, excluded) ==
    Keep(list, {i \in DOMAIN list :
                  i = 1 \/ IsPermanentAbility(list[i]) \/ list[i].app = excluded})

GetAbilityList(list, m) ==
    {list[i] : i \in {j \in DOMAIN list : list[j].mission = m}}

\* The record r has changed, if it is in the list.
Put(s, r) ==
    [s EXCEPT !.list = [i \in DOMAIN @ |-> IF @[i].token = r.token /\ @[i].app = r.app
                                           THEN r ELSE @[i]]]

\* What GetTopAbility tells a client.
GetTopAbility(list) ==
    IF list # <<>> /\ list[1].state \in {"FOREGROUND", "BACKGROUND"}
    THEN {list[1].app} ELSE {}

-----------------------------------------------------------------------------
(* Return values, counters and operations that have to wait.               *)

\* What the bundle manager and the start callback say of a bundle.
QueryAbilitySvcInfo(a) == a \notin Unknown
IsNativeApp(a) == a \in NativeApps
NeedToBeTerminated(a) == a \in Temporary
CheckResponse(a) == a \notin Refused

Ok(s) == [s EXCEPT !.ret = "ok"]
Error(s) == [s EXCEPT !.ret = "error"]
Scheduling(s) == [s EXCEPT !.scheduling = TRUE]
Idle(s) == [s EXCEPT !.scheduling = FALSE]

\* The counter of the multi-task build yields the value before the increment.
NextToken(n) == (IF n = TokenLimit THEN LauncherToken ELSE n) + 1
GeneratedToken(n) == IF MultiTasks THEN NextToken(n) - 1 ELSE NextToken(n)

\* CopyWant leaves the mission of the copy uninitialised.
AddAbilityOperation(s, op) == Ok([s EXCEPT !.ops = Append(@, op)])

-----------------------------------------------------------------------------
(* Ability threads.  A JS ability has a task and a queue of its own, the    *)
(* native ones share one task with one queue.                              *)

SendScheduleMsgToAbilityThread(s, r, m) ==
    IF r.native THEN Ok([s EXCEPT !.nativeQ = Append(@, m)])
    ELSE Ok([s EXCEPT !.threads[r.token].inbox = Append(@, m)])

SendMsgToAbilityThread(s, r, id) ==
    IF ~r.thread THEN Error(s)
    ELSE SendScheduleMsgToAbilityThread(s, r,
            [id |-> id, token |-> r.token,
             saved |-> id \in {"CREATE", "DESTROY"} /\ r.saved /\ ~r.terminated])

NewThread(s, r) ==
    [s EXCEPT !.threads = [t \in DOMAIN @ \cup {r.token} |->
                             IF t = r.token
                             THEN [native |-> r.native, life |-> "NONE", inbox |-> <<>>]
                             ELSE @[t]]]

InitNativeThread(s, r) == NewThread(s, r)
InitJsThread(s, r) == [NewThread(s, r) EXCEPT !.async = r.token]

\* InitAbilityThread; it fails for the bundles in "fails".
InitAbilityThread(s, r, fails) ==
    IF r.app \in fails THEN Error([s EXCEPT !.failed = TRUE])
    ELSE Ok(IF r.native THEN InitNativeThread(s, r) ELSE InitJsThread(s, r))

\* The threads of the records in gone are deleted.  The queue of a JS ability
\* goes with it; messages a native ability still has in the shared queue keep a
\* pointer to it.
DeleteThreads(s, gone) ==
    LET ts == {r.token : r \in {q \in gone : q.thread}}
    IN  [s EXCEPT !.threads = [t \in DOMAIN @ \ ts |-> @[t]],
                  !.dangling = @ \/ \E i \in DOMAIN s.nativeQ : s.nativeQ[i].token \in ts]

\* Mutant: the handler of asynchronous work stays behind.
DeleteAbilityThreadOnly(s, gone) == DeleteThreads(s, gone)

\* Releasing the thread of a JS ability resets the async work handler.
DeleteAbilityThread(s, gone) ==
    LET ReleaseJsThread == \E r \in gone : r.thread /\ ~r.native
    IN  DeleteThreads([s EXCEPT !.async = IF ReleaseJsThread THEN NoToken ELSE @], gone)

NotifyAbilityRecordCleanup(s, gone) ==
    [s EXCEPT !.seen = [a \in App |-> IF \E r \in gone : r.app = a THEN "GONE" ELSE @[a]]]

DeleteRecords(s, gone) ==
    LET kept == {i \in DOMAIN s.list : s.list[i] \notin gone}
    IN  NotifyAbilityRecordCleanup(
            [DeleteAbilityThread(s, gone) EXCEPT !.list = Keep(@, kept)], gone)

DeleteRecordInfo(s, t) ==
    IF Has(s.list, t) THEN DeleteRecords(s, {Get(s.list, t)}) ELSE s

\* Mutant: the observer does not hear of an ability that stops.
SetAbilityStateUntold(s, t, state) ==
    IF ~Has(s.list, t) THEN s
    ELSE LET r == Get(s.list, t)
         IN  [Put(s, [r EXCEPT !.state = state])
                EXCEPT !.seen[r.app] = IF state = "STOP" THEN @ ELSE state]

SetAbilityStateAndNotify(s, t, state) ==
    IF ~Has(s.list, t) THEN s
    ELSE LET r == Get(s.list, t)
         IN  [Put(s, [r EXCEPT !.state = state]) EXCEPT !.seen[r.app] = state]

\* AbilityList::Add deletes the record it drops without telling the observer.
AddRecord(s, r) ==
    LET list == Add(s.list, r)
        dropped == {i \in DOMAIN s.list : ~Has(list, s.list[i].token)}
    IN  [DeleteThreads(s, {s.list[i] : i \in dropped}) EXCEPT !.list = list]

-----------------------------------------------------------------------------
(* The launcher of the build without multi-tasking is a native ability      *)
(* whose callbacks run in the service's task; each reports to the queue of  *)
(* that same task, which nobody empties while the callback waits.          *)

SchedulerAbilityLifecycle(s, state) ==
    LET done == [id |-> "done", token |-> LauncherToken, state |-> state]
    IN  IF state \notin {"FOREGROUND", "BACKGROUND"} THEN s
        ELSE IF Len(s.amsQ) < QueueSize
        THEN [s EXCEPT !.launcher = state, !.amsQ = Append(@, done)]
        ELSE [s EXCEPT !.launcher = state, !.lost = TRUE]

MsgOf(state) ==
    CASE state = "INITIAL" -> "CREATE"
      [] state = "FOREGROUND" -> "FOREGROUND"
      [] state = "BACKGROUND" -> "BACKGROUND"
      [] state = "UNINITIALIZED" -> "DESTROY"

ScheduleLifecycleInner(s, r, state) ==
    IF r.token # LauncherToken THEN Ok(SendMsgToAbilityThread(s, r, MsgOf(state)))
    ELSE IF ~NativeLauncher THEN Error(s)
    ELSE Ok(SchedulerAbilityLifecycle(s, state))

SchedulerLifecycle(s, t, state) ==
    IF ~Has(s.list, t) THEN Error(s)
    ELSE IF MultiTasks THEN SendMsgToAbilityThread(s, Get(s.list, t), MsgOf(state))
    ELSE ScheduleLifecycleInner(s, Get(s.list, t), state)

\* The task is created and asked to create the ability.  Without
\* multi-tasking the record enters the list and the launcher leaves first.
CreateAppTask(s, r, fails) ==
    LET started == [r EXCEPT !.thread = TRUE, !.state = "STOP"]
        Beside(u) == IF NativeLauncher THEN SchedulerLifecycle(u, LauncherToken, "BACKGROUND")
                     ELSE Ok(SchedulerLifecycle(u, r.token, "INITIAL"))
        Asked(u) ==
            IF u.ret = "error" THEN u
            ELSE IF MultiTasks THEN Ok(SchedulerLifecycle(Put(u, started), r.token, "INITIAL"))
            ELSE Beside(Put(AddRecord(u, started), started))
    IN  Asked(InitAbilityThread(s, r, fails))
=============================================================================
