# A verification project for the OpenHarmony lite ability framework

This directory holds TLA+ specifications of `ability_ability_lite`: the ability
framework of the mini and small systems. It models the program as it is written
under `src/`, checks small instances of the model with TLC, and proves facts
about every instance with TLAPS. `PROJECT.json` lists the components, the runs,
the mutants that show what each property detects, the source lines behind each
definition, the hazards, the findings and the theorems.

How to run it, in this directory:

    tlc -workers 2 -config ams_settled.cfg MCAms.tla      # any of the runs
    tlapm AmsProofs.tla                                   # any module with proofs

## 1. The system

The framework runs applications made of *abilities*: Page abilities have a user
interface and a lifecycle (INITIAL, INACTIVE, ACTIVE, BACKGROUND), Service
abilities run in the background and are connected to. On the small system the
Ability Manager Service (AMS) is one task of the foundation process. It keeps
the stacks of pages, starts application processes through appspawn, and moves
the focus from page to page by asking the processes for lifecycle transitions.
On the mini system (slite) a different service does the same in one process.

| component | state | operations | modelled by |
|---|---|---|---|
| Ability stack management (`ability_stack_manager`, `ability_mission_stack`, `ability_mission_record`, `ability_mgr_context`) | two mission stacks (launcher, default), the page list of each mission, the mission each one returns to, the stack on top | GeneratePageAbility, RemovePageAbility, ClearAbilityStack, GetTopPageAbility, GetPrevPageAbility | `AmsState` |
| Page records and lifecycle scheduling (`page_ability_record`, `task/ability_*_task`) | per page: ability, state, next, prev, application, Want | start, activate, inactivate, background, stop, terminate, attach | `AmsState`, `AmsTasks`; for services `ConnectTasks`; their Wants `Wants` |
| Process management (`app_manager`, `app_record`, `client/*`, `task/app_*_task`) | app records: attached or not, one pending page | spawn, attach, exit, death recipient, restart, terminate | `AmsState`, `AmsTasks`, `Ams`, `Connect` |
| Service interface and dispatch (`ability_mgr_service`, `ability_mgr_feature`, `ability_inner_feature`, `ability_mgr_handler`, `ability_worker`) | the request queue (20 entries) | one handler per request id | `Ams`, `Connect`, `Wants` |
| Connection management (`ability_connect_mission`, `ability_connect_record`, connect, disconnect and stop tasks) | service records, their connections and states | connect, disconnect, their answers, stop, terminate, death of a client | `ConnectTasks`, `Connect` |
| Application process (`ability_main`, `ability_thread`, `ability_scheduler`, `ability_event_handler`) | its event queue with lock and condition variable, the abilities it holds and their states | attach, application init and exit, ability transactions, UI tasks | `App`; as seen by the service `Ams`, `Connect` |
| Ability callbacks and slices (`ability`, `ability_slice*`) | the state of one ability, its slice on top and the stack below, its window | the callbacks of a transaction, present, terminate | `AppSlices`, `App` |
| Window and UI glue (`ability_window`) | on the screen or not, the content | init, show, hide, set content | `AppSlices`; the window manager is left out |
| Client library (`frameworks/abilitymgr_lite`) | the connections of the process, one callback object with its arguments | connect, disconnect, callbacks; the rest is forwarded | `Connect` |
| Want (`want_lite`) | element, identity, data, each in memory of its own | set, set a parameter, copy, serialise, clear | `WantData`, `Wants` |
| Single-process service (`slite/*`) | ability list, held back operations, tokens and missions, scheduling flags, threads | start, terminate, force stop, the answers, the observer | `SliteState`, `SliteMulti`, `SliteSingle`, `Slite` |
| `aa` tool, dump, JavaScript bindings | none | parse, print, forward | no |

### How the components interact

A client (an ability, the `aa` tool, the bundle manager) calls a feature of the
service by IPC; the feature posts a request to the queue of the service's task
and returns. The task takes one request after the other and runs its handler to
the end: handlers never interleave. A handler calls a process by IPC; the stub
there posts a task to the event queue of the process and returns. The process
answers by a request of its own (`ABILITY_TRANSACTION_DONE`, `ATTACH_BUNDLE`),
which is queued with the others. When a process dies, the IPC layer calls the
death recipient that AMS registered when the process attached, and the recipient
queues a restart request.

### What is hard

*Interleaving.* The passing of the focus takes four requests: the page on top is
told to become INACTIVE; its answer starts or activates the next page; the next
page's answer sends the old one to the BACKGROUND, or stops it; that one's
answer ends it. Anything may be queued in between. What one answer means is
read from the `next` and `prev` pointers that an earlier handler left.

*Stale pointers.* `next`, `prev`, `appRecord_` and the pending slot are raw
pointers that outlive the handler which set them.

*Failure.* Spawning, attaching, loading permissions, finding the class of an
ability and the IPC itself may fail in the middle of a handler; processes crash
at any time; the queue is bounded and nobody retries; a death is reported by
bundle name and not at all before the attach.

*Progress.* No timer looks after a transition: if one answer is not acted upon,
no page becomes ACTIVE any more.

What makes the parts correct: the stacks and lists describe one stack, whatever
happens; a record follows the ability it stands for; the process table lists the
processes there are; one page has the focus, and at rest it is the one on top;
a process gets its messages in an order it can handle; every request taken up
ends. A service runs exactly as long as it is started or connected, client and
service agree on every connection, and each is answered. Every callback of an
ability and its slices finds the state it expects; the slices follow their
ability and the window shows the one on top; the event queue of a process stays
bounded though three threads use it. A Want reaches the process it was sent to
with nothing mixed in, and every block of its memory has one owner. On the mini
system there is one ability beside the launcher, and it gets its callbacks in
order.

## 2. The modules

    AmsState <- AmsTasks <- Ams <- MCAms            two stacks, processes, pages
       ^- ConnectTasks <- Connect <- MCConnect      services and connections
    AppSlices <- App <- MCApp                       inside one process
    WantData <- Wants <- MCWants                    the journey of a Want
    SliteState <- SliteMulti, SliteSingle <- Slite <- MCSlite    the mini system
    OneAbility                                      what the mini system promises
    AmsStateProofs <- AmsTableProofs <- AmsProofs
    SliteProofs <- SliteSingleProofs
    AppProofs, ConnectProofs, WantsProofs           the theorems on the others

The five models meet at interfaces the code has. `Ams` and `Connect` use the same
process table (`AmsState`). A transaction is one step of a process in `Ams`,
which takes the state reported for granted; `App` opens that step into the
callbacks, and shows that every transaction is reported. `Ams` leaves out what a
start carries; `Wants` follows it, and leaves the order of starts to `Ams`. The
mini system is another program with the same task.

**`AmsState`** is the memory of the service. AMS is single threaded, so one
handler is one atomic step, and operations are operators from a state record `s`
to a state record. The fields stand for the code's objects like this:

| field | code |
|---|---|
| `order` | `missionRecords_` of the default `AbilityMissionStack`, the back last |
| `pages[b]` | `pageAbilityRecords_` of b's `AbilityMissionRecord`; empty iff there is no mission record |
| `prevMission[b]` | `prevMissionRecord_` |
| `topStack` | `topMissionStack_` of `AbilityMgrContext` |
| `rec[t]` | the `PageAbilityRecord` with `token_` t: ability, state, `nextAbility_`, `prevAbility_`, `appRecord_` |
| `app[i]` | the `AppRecord` with `identityId_` i: bundle, attached or not, `pendingAbility_` |
| `lastToken` | the counter of `TokenGenerate` |
| `proc[i]` | the process spawned with identity i (not memory of the service) |
| `status` | the `AbilityMsStatus` of the last call |
| `dangling` | the handler has followed a pointer to a deleted object that was left in a record |
| `reread` | `RemoveAppRecord` has read the record it was passed after it had deleted it |

A pointer is the token of the object it points to, and 0 is `nullptr`. What the
program does after following a pointer to a deleted object is not defined by the
code; the model records it in `dangling` and the service takes no further step.
`AppManager::RemoveAppRecord(const AppRecord &)` is the one exception: it is always
passed the record it deletes, and compares the rest of the list with it. The model
records that in `reread` and goes on as if the comparison had failed, which it does
unless the freed memory happens to hold the identity of another process; so what
the other properties say, they say of that outcome.

**`AmsTasks`** has one operator per task (`Execute` of the classes in `task/`)
and per handler that does more than run a task. It is written from the branches
for Page abilities.

**`Ams`** adds the request queue, the processes and the environment: actions for
client requests, one action per request id of `ServiceMsgProcess`, one per task
of the event loop of a process (`ThreadMain`, `PerformAppInit`,
`PerformTransactAbilityState`, `PerformAppExit`, `Quit`), crashes and death
notifications. Each handler takes the head of the queue, computes the new state
with the operator of `AmsTasks` and commits it. Outcomes of the environment are
chosen in the handler: the set of bundles the spawn fails for, whether the death
recipient can be added, whether the permissions can be loaded.

Points of the translation that are worth knowing:

- `std::list::back()` of an empty list is read as `nullptr`, which is what the
  library in use returns for an empty list of pointers.
- `PerformAppExit` unloads the application's libraries and posts the quit task;
  tasks that are queued behind it still run. That none is queued behind it is
  the property `MessagesOrdered`.
- `AbilityThread` creates the ability at its first transaction, and answers
  INITIAL when the class cannot be loaded.
- The list of a mission holds 10240 pages. The model does not reach it.
- The checks that refuse a start before it is queued (permission, visibility,
  caller) leave no state behind and are left out: a start that reaches the queue
  is one that was let through.


**`ConnectTasks`** holds the service records (`rec`), the connections of each (a
set, as no task depends on their order but that of the callbacks, which are told
in the order of their records), and the tasks on them: connect, connect done, disconnect, disconnect done, stop,
terminate service, the removal of a dead client, each with the branches for
Service abilities of the tasks `AmsTasks` has for pages.

**`Connect`** adds the processes at both ends. A client process has its
library: the `IAbilityConnection` objects in use, the one callback object with
the arguments of the last `ConnectAbility`, and two threads: the caller's, which
is interrupted between the request and the release of the arguments in
`DisconnectAbility`, and the one callbacks come in on. A service process takes
its messages from an inbox. The tokens up to `LastPage` are those of the pages the
callers live in. Callers that use `AbilityContext` have the token of
their page; those that use the C functions have the token 1 whoever they are.
`Calm` makes callers wait for what they asked for: they connect when an earlier
connection is cleared, disconnect what they were told is connected, and stop a
service between its answers. Section 6 says what happens to others.

**`AppSlices`** has one ability with its slices as a record: `state`, `top`
(`topAbilitySlice_`), `stack` (`AbilitySliceStack`), the state of each slice,
the window and its content. The operators are the callbacks, in the order the
framework calls them: `OnStart` of an ability calls `OnStart` of its main slice,
and so on. A callback that finds another state than it checks for sets
`misled`; a check that calls `exit(-1)` sets `exited`. A slice may be on the stack
more than once, and on top besides.

**`App`** is a process with three threads: the main thread, which runs the event
loop (`RunNext`, `RunWoken`, `RunEnds`) and every task, the IPC thread, which
turns messages into tasks, and the UI thread. `PostTask` is two steps of its
caller: the size of the queue is read without the lock, and the task is pushed
with it. The main thread waits as a state of its own, and is woken by a push.
The tasks it posts to itself at exit are steps too, as others may fill the
queue between them. `misled` of the process keeps what the last callbacks of an
ability did, as the ability is deleted after them. `Represent` says whether the
application also presents slices that have been started; section 5 says what
happens then.

**`WantData`** is the memory of Wants: a heap of numbered blocks, the setters of
`want.cpp` as operators on the memory of one call, a record of the heap, the Want,
what was allocated last and what the call returns, where `fails` says which of
its allocations fail. The parameters are kept as the bytes of
their TLV encoding, with lengths in one byte.

**`Wants`** sends a Want from a client (`BuildWant`, the setters, `StartAbility`)
through the request of the service and the record of the page to the process
and back as a callback. It says who owns which block at every moment. `kept` are
all parameters whose setting in the client's Want has returned TRUE, and `gone` how
many of them went with all the data since. The
scheduling of pages is abstracted to what may happen to one page record.

**`SliteState`** is the memory of the mini system's service and of the threads
of its abilities; **`SliteMulti`** and **`SliteSingle`** are the two builds of
`ability_record_manager.cpp`, with and without `_MINI_MULTI_TASKS_`; **`Slite`** composes either with the service's queue, the
JavaScript tasks, the native task and the clients. A request or a report that finds
the service's queue full is dropped, as it is in `abilityms_slite_client.cpp:54-67`
after the retries; `lost` is set when it was a report. **`OneAbility`** is the abstract
specification: what applications see of the service, a few lines long. `Slite`
implements it under the mapping `Abilities`, the threads with the callbacks they
have had (`KeepsPromise`).

## 3. The runs

| run | regime | checks |
|---|---|---|
| `ams_settled` | two keep-alive applications at boot; clients wait for rest; 5 requests, 1 crash, fairness | `PointersLive`, `OneActive`, `SettledCoherent`, `StartKeepsPages`, `StartServed`, `TerminateServed`, `Quiesces` |
| `ams_overlap` | anything at any time; 3 requests, 1 crash, queue of 4, failing spawns, permissions and class loads | `TypeOK`, `StackCoherent`, `ProcessTable`, `RecordTracksAbility`, `MessagesOrdered` |
| `connect` | two clients that wait, two services, 4 calls, a crash, a client that dies, failing spawns, fairness | `ConnectTypeOK`, `PointersLive`, `SettledServices`, `ConnectionsAgree`, `ConnectsAlternate`, `Answered`, `UnusedStops` |
| `app` | two abilities, three slices, 3 messages and an exit, 3 UI events, capacity 2, fairness | `AppTypeOK`, `InOrder`, `SlicesFollow`, `ScreenShowsTop`, `Reported`, `ExitEnds` |
| `wants` | two starts, 4 calls that fill Wants in, one failing allocation in any call | `OneOwner`, `ParamsWhole`, `WantsArrive`, `CalledOnce` |
| `slite_multi` | multi-tasking, 3 overlapping requests of every kind, a queue of 3, tasks that cannot be created, fairness | `SliteTypeOK`, `NoDangling`, `OneTaskBesideHome`, `OneMessage`, `SettledTop`, `ObserverAgrees`, `KeepsPromise`, `HeldBackRuns` |
| `slite_single` | without multi-tasking, clients wait, 6 requests, tokens that come round | `OneTaskBesideHome`, `SettledHome`, `KeepsPromise` |
| `ams_two_focus`, `ams_stale_death`, `ams_reread`, `connect_shared`, `wants_lost` | five disagreements of section 5 | one property each |

All runs say `CHECK_DEADLOCK FALSE`, because a behaviour ends when the clients
have no requests left and the system is at rest, or when the process has ended:
the real system waits for the next request then, too.

*Mutants.* For each property of a passing run `PROJECT.json` names a plausible
bug in a mapped definition (a forgotten state update, a link that is not
cleared, a record that is not removed) with which TLC finds the property
violated. The mutated forms stand beside the originals in the modules.

### The service (`ams_*`)

`Overlap` separates two regimes. With `Overlap = FALSE` a client sends its next
request, and a process crashes, only at rest (`Settled`: no request or message
waits, no process starts, quits or is dead unnoticed). Within one request,
everything the processes and the service do still interleaves. This is the
regime in which the scheduling is meant to be exact: afterwards the page on top
is ACTIVE, every other page is in the BACKGROUND, records, processes and the
process table agree, and nothing is half done (`SettledCoherent`). With
`Overlap = TRUE` requests, crashes and failures come at any moment. There the
code promises less, and `ams_overlap` checks what it still keeps: well formed
stacks, a process table that reflects the processes, records that follow the
abilities, and an order of messages the processes rely on. `PointersLive` is not
among them: when the permissions of an attaching application cannot be loaded,
`AbilityAttachTask` deletes the app record while its page still points to it, and
the next request that removes the page reads it.

Three bundles (the launcher with one ability, one bundle with two
abilities, one with one) give every relation between the page on top and the
target of a start that `GeneratePageAbility` tells apart: launcher to
application and back, application to application, a second page in the same
mission, a page that is on top already. `ams_settled` boots with two
keep-alive applications back to back: the start of the second finds a top page
that is not ACTIVE yet and is refused. The other runs boot with the launcher alone. `ams_two_focus` has a fourth bundle, as it
takes three applications beside the launcher started one from the other.

`MaxRequests` and `MaxCrashes` are bounds of the model. Five requests
reach two missions, one of them with two pages, a return link between them, and
the removal of either; three overlapping requests with a crash put a start, a
termination and a death into the queue together. `QueueSize` is 4 in
`ams_overlap` so that requests are refused within the bounds; the code has 20, as
have the other runs.

`FairSpec` (in `ams_settled`): the service's task is served by the samgr scheduler, so
a request in the queue is handled eventually: `AmsFairness` is weak fairness of
`AmsNext`, with its enabling condition (a request waits and the service has not
run into undefined behaviour) written out. The event loops of the processes and
the delivery of deaths are threads of the kernel and the IPC layer, so some
process that has work to do does it eventually: weak fairness of all process
steps together. This is weaker than fairness of each process. Clients need not
send anything, and no process has to crash. `StartServed` and `TerminateServed`
are leads-to properties from the moment the service takes up a request.
`TerminateServed` leaves out a page with nothing to return to but itself: the
launcher that terminates itself becomes ACTIVE again.

### Connections (`connect`, `connect_shared`)

One client uses `AbilityContext` and may die, the other is a command line tool.
Both may use both services of a bundle; one of these may be started and
stopped besides. Four calls reach a service with two connections, one of which
goes, a service that is started and connected, and a connection made anew while
the process of the last one exits. With two services in one process the exit of
the process depends on both. One crash of a service process may fall anywhere
between, and appspawn may fail at every start.

The callers of `connect` wait (`Calm`), and what it shows is shown of such callers
only; sections 5 and 6 say what happens to others. The state is compared at rest
(`SettledServices`, `ConnectionsAgree`), as the two
sides disagree while messages are under way; `ConnectsAlternate` holds of every
step. The model ends where the service would use a deleted record
(`dangling`, which the run shows not to happen) and where a death is charged to
a newer process of the bundle (`overtaken`, the subject of `ams_stale_death`).
Fairness is that of `Ams`, with the callback thread of each client.

### Inside a process (`app`)

Three messages, of any state and to either ability, then an exit: with the
abilities' states this reaches every pair of successive transactions. The
messages are not restricted to those the service would send. One ability has a
class that is not found. UI events present or terminate slices, so a slice is presented
over another, and terminated from the top or from below it; one slice sets no
content. Three events are what it takes to present two slices and to terminate the
one in the middle.

The slices presented are those that are not started or were destroyed
(`Represent = FALSE`), which `ability_slice.h:118` asks of the target of `Present`;
`:113` also allows an existing one, and the code accepts it. `InOrder`,
`SlicesFollow` and `ScreenShowsTop` do not hold of applications that do that; section 5
says what happens then.

With a capacity of 2 the queue is full for messages, UI tasks, the
stop and the quit task. Fairness is that of the threads of the process that
never block: the main thread unless it waits, and the IPC thread. Nothing is
assumed of the UI thread, which polls and may stop at any time. `Reported` and
`ExitEnds` say in their consequent that a dropped task is the way out: nobody is
told of it.

### Wants (`wants`, `wants_lost`)

Three parameters are a number of several bytes, a negative number, and a string;
`DATA_LENGTH`, the limit a Want's data may have, is 16 bytes in place of 2048, so that two
parameters may be too long. A call of the service or of the client makes at most ten
allocations, and any one of them may fail. Two starts are enough for a page that
exists already, with a page that ends between them; a queue of one entry refuses
the second. One lifecycle message or its answer is under way at a time: the
Want a message carries is not shared with another.

`OneOwner` says exactly which memory the setters leave behind: the bytes of the
last pair (`want.cpp:211`, `:241`), one block for each call that sets a
parameter. `ParamsWhole` allows for `UpdateWantData`, which answers TRUE when the
last copy fails although all data are lost then (`want.cpp:166`): the data are
exactly the parameters set with TRUE since the last loss, and as many are gone as
`gone` counts, so that none is lost in another way. That none is lost at all is
`ParamsKept`, which `wants_lost` shows to be wrong.

### The mini system (`slite_*`)

The launcher, two JavaScript applications, one of which is temporary, and a native
one; a list with room for three (four without multi-tasking) so that abilities are
evicted; tokens that wrap after 5 (2) in place of 65535; two missions. Three
requests do not reach the wrap of `slite_multi`, so what it says is said of the
first 65534 tokens; section 6 tells what comes then. In `slite_single` the tokens
do come round: an application is started with the first token again after two
others have ended. In `slite_multi` the queue of the service has room for three
messages, so that requests and reports are dropped (the code has more room, and as
many clients as like); with six, as in the runs that need no drop, it never fills
up. After a dropped report (`lost`) a switch never ends, and `OneMessage` and
`HeldBackRuns` leave that out, while the other properties do not; section 5 says
what comes of it. `Requests` lists which requests clients send: starts with and
without a mission, terminations by token, mission, bundle, and forced stops. In
the build with multi-tasking they come at any time, and the task of `js1` may fail
to be created (`failed`, after which nothing is claimed about rest). Without
multi-tasking the same holds only while clients wait (`Overlap = FALSE`): a report
of the launcher's foreground always ends the switch
(`ability_record_manager.cpp:1042`), also one that has just called the launcher
again, so operations held back may start two applications at once.
Fairness: the kernel serves the task of the service, the tasks of JavaScript
abilities together and the native task.

## 4. What is proved

The proofs hold for every value of the constants that satisfies the assumptions
named in the modules. There is no bound on bundles, pages, requests, crashes,
messages, slices, events or the length of the queues, and every failure may happen,
except in the theorems of `SliteProofs`, which end at the two events `Undisturbed` names,
and in those of `AppProofs` on slices, which are about `~Represent`.
Those of `SliteSingleProofs` have no such end.
`ParamsIntact` is about parameters whose lengths fit a byte (`ParamsFit`), and about
what was set since the last time the data were lost.

| theorem | states |
|---|---|
| `AmsProofs!TypeCorrect` | `Spec => []TypeOK` |
| `AmsProofs!StacksCoherent` | `Spec => []StackCoherent` |
| `AmsProofs!PendingSlots` | `Spec => []PendingListed(State)` |
| `AmsProofs!ProcessTableHolds` | `Spec => []ProcessTable` |
| `AmsProofs!InboxOrder` | `Spec => []MessagesOrdered` |
| `AmsProofs!RecordsTrack` | `Spec => []RecordTracksAbility` |
| `AppProofs!QueueBounded` | `Spec => []AppTypeOK` |
| `AppProofs!CallbacksInOrder` | `~Represent` implies `Spec => []InOrder` |
| `AppProofs!SlicesInStep` | `~Represent` implies `Spec => []SlicesFollow` |
| `AppProofs!WindowInStep` | `~Represent` implies `Spec => []ScreenShowsTop` |
| `AppProofs!ExitIsLast` | `Spec => [](Posting => Over)` |
| `ConnectProofs!ConnectTypes` | `Spec => []ConnectTypeOK` |
| `ConnectProofs!ServicesPlaced` | `Spec => []PointersLive` |
| `WantsProofs!BlocksOwned` | `Spec => []OneOwner` |
| `WantsProofs!WantsIntact` | `Spec => []WantsArrive` |
| `WantsProofs!AnsweredOnce` | `Spec => []CalledOnce` |
| `WantsProofs!ParamsIntact` | `ParamsFit` implies `Spec => []ParamsWhole` |
| `SliteProofs!SliteInvariance` | `Spec /\ []Undisturbed => []IInv` |
| `SliteProofs!PromiseKept` | `Spec /\ []Undisturbed => KeepsPromise` |
| `SliteProofs!SliteTypes` | `Spec /\ []Undisturbed => []SliteTypeOK` |
| `SliteProofs!SliteNoDangling` | `Spec /\ []Undisturbed => []NoDangling` |
| `SliteProofs!SliteOneTask` | `Spec /\ []Undisturbed => []OneTaskBesideHome` |
| `SliteProofs!SliteOneMessage` | `Spec /\ []Undisturbed => []OneMessage` |
| `SliteProofs!SliteSettledTop` | `Spec /\ []Undisturbed => []SettledTop` |
| `SliteProofs!SliteObserver` | `Spec /\ []Undisturbed => []ObserverAgrees` |
| `SliteSingleProofs!SingleInvariance` | `Spec => []SingleInv` |
| `SliteSingleProofs!SinglePromiseKept` | `Spec => KeepsPromise` |
| `SliteSingleProofs!SingleSettledHome` | `Spec => []SettledHome` |
| `SliteSingleProofs!SingleTypeOK` | `Spec => []SliteTypeOK` |
| `SliteSingleProofs!SingleOneTask` | `Spec => []OneTaskBesideHome` |
| `SliteSingleProofs!SingleNoDangling` | `Spec => []NoDangling` |
| `SliteSingleProofs!SingleObserver` | `Spec => []ObserverAgrees` |

### The service

The assumptions are `BundleAssumption` (the launcher is a bundle, every ability
belongs to one), `KeepAliveAssumption` (the main ability of a bundle is one of
its abilities) and `EnvironmentAssumption` (types of the parameters; the queue
has room for a request).

The argument is one inductive invariant, `IInv`: `SInv(State)` and the types of
the queue and the counters. `SInv` has six parts (`AmsStateProofs`):

- `StateTyped`, the types;
- `MissionsListed`: a mission is listed once, exactly if it has pages, and the
  default stack is on top only if it has a mission;
- `ReturnsListed`: a mission returns only to another one that is listed;
- `PagesListed`: every page record is in the list of its own bundle, once;
- `PendingListed`: a pending page exists and points back to its application;
- `Fresh`: no token is above the counter.

None of them is inductive alone. The type of a page list needs
`PrevPage` and `TopPage` to denote records, for which `ReturnsListed` and
`MissionsListed` are needed (a return to a mission that is gone would read the
last page of an empty list). `MissionsListed` survives `RemovePageAbility` only
because the mission returned to is listed. `PagesListed` survives a new page
because its token is `Fresh`, and an attach sets the state of a record that
exists because of `PendingListed`.

The proofs follow the structure of the code, one lemma per operator:

- `AmsStateProofs`: lists without duplicates (appending, removing, cutting), then
  the operations that move no page. For these, `Quiet(s, r)` says that `r` keeps
  `SInv` and has the stacks and pages of `s`; it composes, and what a call does to
  processes, records and app records is proved to be quiet.
  Then the operations that move pages, within which the invariant is broken for a
  while (a mission without pages is still listed), so it is taken apart into
  `PInv`, about the pages, and the parts about missions. Last, one lemma per task
  of `AmsTasks`, from the lemmas of the operations it calls.
- `AmsProofs`: the initial state, one case per action of `Next`, the theorems.

The process table, the order of the inboxes and the state of the records are
about two sides, the service and the processes. They follow from a second
invariant on top of `IInv`, `Tables == Table(State, Env(amsQ, dropped))`
(`AmsTableProofs`). `Env` sums the queue up: the bundles whose death waits there
(every bundle once a request was dropped, as it may have been a death), and the
state the last waiting answer reports for each page. Its parts hold only together:

- `Drawn`: whatever names a process or a page names one the counter has drawn.
  That makes a new token unknown to every table, inbox and answer.
- `OneApp`: a bundle has one app record, of a process of that bundle or of one
  whose death waits.
- `InboxesOrdered`: nothing follows an exit, a process that has not run its
  initialisation has it in front, a process the table lists has not been told to
  exit, and has been sent something exactly if it has attached. The last two are
  what makes `MessagesOrdered` inductive: the service sends a process only what
  its table says, so the table has to know.
- `Owned`: a page is known to the process its record names and to no other, be it
  hosted there or in a message on its way. A restart could break this if a page
  kept its process.
- `Tracked`: a page's state, with the waiting answers, is the state of its
  ability; before its first transaction there is none.

An attach that comes late finds a record of an older process of the bundle, or
none. `OneApp` covers it because identities are drawn once. The proof showed one
clause wrong that had been part of `ProcessTable`: *a page in a pending slot waits
for a process that has not attached*. A start that the stack refuses after the
record was made leaves it without an application; a later start of the same page
puts it into the pending slot of a process that attached long ago
(`page_ability_record.cpp:263`, `:277`), and only an attach launches pending pages
(`ability_attach_task.cpp:58`). The clause is gone.

### The process

The assumptions are in `AppSlices` and `App`: the main slice is a slice and sets
content (one that does not makes its page exit at its start, as `ability.cpp`
and `ability_slice.cpp` have it), and there is room for a task. The inductive
invariant is `IInv == AbilitiesInv /\ QueueTyped /\ ExitLast /\ Room`:

- `AbilitiesInv`: abilities are well typed, and, unless slices of the stack are
  presented (`~Represent`), every ability is a page with `FollowsPage` and
  `ShowsTop` or a service, none of its checks has failed, and nothing was out of
  order when others ended. That the checks do not fail
  (`InOrder`) cannot be shown without the other two: `OnInactive` of the slice on
  top demands that this slice, whichever it is by now, is ACTIVE. `QueueBounded` and
  `ExitIsLast` need no such restriction.
- `ExitLast`: the exit is the last message the service sends. Nothing in the
  process could make sure of it: it is an assumption about the service in
  `AmsExit`, which `MessagesOrdered` of `Ams` is about, and it is what lets the
  process unload its libraries.
- `Room`: the length of the queue, with the pushes that have seen room, is at
  most one above the capacity. Two threads may be about to push; the lemma
  `OneMorePush` is about the step where the second one looks, and needs that
  the main thread and the IPC thread are not about to push at the same time,
  for which `ExitLast` is needed.

The first half of `AppProofs` has one lemma per callback of a slice, of an
ability, and for adding and removing slices (with facts about sequences cut and
joined), the second half one per action.

### Connections

`ConnectAssumption` gives the parameters their types. Nothing is assumed of the
callers: the theorems hold for `Calm = FALSE`, where callers overlap stops,
connections and disconnects as they like. The invariant is `SInv(State)` with the
types of the callers and the queue; beside the types, `Drawn` and `OneEach` it has

- `Placed`: a service record names no application, or one that is in the process
  table, of its own bundle. This is what `PointersLive` rests on: the tasks follow
  `appRecord_` of a service without a check, and `AppManager` deletes an app record
  when the last service of its bundle goes, when a process dies and when a spawn
  fails. Each of these has to find no other service that still points there;
- `PendingListed`: the same for the pending slot of an app record.

`PointersLive` is about pointers that records hold. The argument of `RemoveAppRecord`,
which is read after its object has been deleted, is not among them: the last
service of a bundle that exits is enough for it, as soon as there is another
process (`ams_reread`).

The death of a client disconnects everything it holds in one task, which may end
several services, and a process gets the messages in the order of the records. The
lemmas `Least` and `InOrderElements` are about that order, and need that `<` is well
founded on the natural numbers.

### Wants

`WantsAssumption`: data and keys are sequences of bytes, and `None` is no Want.
What is proved of the setters holds for any set of failing allocations. Each lemma
says which blocks a call holds before and after it: `Holds(m, F)` is *the heap
consists of the blocks of this call's Want, each allocated once, and of the blocks
F of all others*, and `Keeps` that the others are unchanged. So a call is a
matter of its own Want, whoever owns the rest. The invariant `IInv` has

- `Owned`: the blocks of the client's Want, the queue, the page and the tasks are
  apart and make up the heap;
- `Carried`: each Want, and each message, has what its start was sent with, or
  less. It is kept next to `Owned`, since a block that were freed too early
  could be allocated again with another content;
- `Waits`: a start is in one place, and nothing has been made of it while it waits;
- `IdentityOnce`: the identity to call back is in the page until its first message,
  in that message, or in its task, and then nobody has been called. `CalledOnce`
  alone is not inductive: that the page frees its identity with its first message
  is what keeps the second from calling again.

`ParamsIntact` is about what the bytes in a Want say, and is proved in two halves.

- Reading. `PairsFrom` reads a pair, then the rest, by recursion on the position.
  That the recursive function exists is a lemma of its own (`ReadFrom`). `LaidAt`
  says that the pairs of a list of parameters are in the data one after the other,
  with the positions where they start, and `LaidRead` that such data are read as
  these pairs. The inductions needed here are over a number, the last positions
  or the last pairs; they are lemmas about sets of numbers (`Induct`), from the
  fact that `<` is well founded.
- Writing. The lemmas on the setters say, besides which blocks are whose, what
  became of the data (`Extended`): the call has failed and they are as they were, it
  has succeeded and one whole pair was added, or it has succeeded and they are
  all lost. `DataLaid`, kept by every step next to `IInv`, is that the data are the
  pairs of `Recent`, the parameters of `kept` after the first `gone`, and that
  `gone` grows only when the data are lost; its steps are those of the client; the service and the
  process leave the client's blocks alone (`Spares`).

The hypothesis `ParamsFit` is the limit the code sets and does not check: lengths are
one byte (`want.cpp:103`, `:136`), so that a key and its value have 249 bytes at
most together, and a number is an `int32_t`. The parameters of the run `wants`
satisfy it. Longer pairs are not modelled. The length of all data is not
bounded in the model and a `uint16_t` in the code, which is the same as long as the
data have less than 65536 bytes, 257 of the longest pairs; a Want with more
than `DATA_LENGTH` of them cannot be sent.

### The mini system with multi-tasking

The theorems of `SliteProofs` assume `Regular`, besides the types of the
parameters (`SliteAssumption`, `SliteEnvironmentAssumption`):

- the build with `_MINI_MULTI_TASKS_`;
- a list with room for at least three records. With two, the record above home
  that a full list gives up (`ability_list.cpp:202`) may be the one on top, which
  has the task;
- no bundle but the launcher's counts as permanent by its name
  (`IsPermanentAbility`, `ability_list.cpp:246`), and the launcher is not among the
  temporary bundles;
- no JavaScript application is started without a path (`Pathless` is empty; section 5 says
  what happens to one);
- nobody stops the launcher by `ForceStopBundle` with its token
  (section 5 again).

The run `slite_multi` satisfies `Regular`. Of a behaviour the theorems say what
holds until a task cannot be created, or until the tokens come round
(`Undisturbed`). Every beginning of a behaviour that is undisturbed goes on as one
that stays so (nothing happens any more), so the theorems reach every state before
either event. What comes after a task that could not be created is model-checked
in `slite_multi`; what comes after the last token is described in section 6.

`IInv` says where the service is: `Booting`, or one ability `h` has the
only task (`On`: the list is well formed with home in it, the one thread is
`h`'s, everything else in the list is stopped and what the observer knows), and then

- at `Rest`: `h` is on top and in the foreground, nothing is on its way, and
  `scheduling` is FALSE; or
- `Going`: `h` is `Leaving` (BACKGROUND, then DESTROY) or `Coming` (CREATE, then
  FOREGROUND), in each case asked by one message or answered by one report, and
  `scheduling` is TRUE. While it leaves, `Follows` says what the list must show on
  top when it is gone: the record `pending` names, directly or below the
  terminated one. Evictions, terminations and moves to the top have to keep
  that, and it is what makes the next step of the switch find a record; or
- `Stuck`: a report of `h` found the queue full and was dropped, nothing is on its
  way, and `scheduling` is TRUE for ever: a request can do no more than wait.

None of the six properties is inductive without the others: `SettledTop` needs to
know what a switch does to the list, `OneMessage` that no operation sends
a message in the middle of a switch, `NoDangling` that the record of a report is
still there. The argument follows the code. There is a lemma per list
operation (`KeepPart`, `EraseFacts`, `MoveFacts`, `Room`), then one per
handler: from `Rest`, with `scheduling` set or not, the result is `Fine`, at
`Rest` again or in the first step of a switch. `RunOperation` is a
function defined by recursion on numbers; `RunSteps` shows that it exists, and
`RunOperationRan` that every element of it is at `Rest` until one is in a switch, both
by the least number for which it would fail. A report takes a switch to its next
stage, and the last one to `Rest` and into `RunOperation`. A callback that finds the
queue full takes a switch to `Stuck` in place of its report (`CallbackDropped`), and
no step leads out of it (`StuckRequest`).

Tasks that cannot be created are taken care of apart from all that: the lemmas
from `CalmFields` to `LauncherFails` say that what a step makes of a state is what it would make of it if every
task could be created, or it sets `failed`. So the lemmas before them speak of
steps in which no task fails.

The refinement maps the threads to the abilities of `OneAbility`. `IInv` leaves at
most one, and the lemmas on the steps say how its life moves (`Moved`): the
task that leaves is at its end, the one that comes is new, and between the two
nothing is skipped. `MovedStep` turns each move into an action of `OneAbility`.

### The mini system without multi-tasking

The theorems of `SliteSingleProofs` assume `SingleTask`, besides the types of the
parameters:

- the build without `_MINI_MULTI_TASKS_`, in which the list holds the launcher and
  one application;
- a native launcher was installed (`NativeLauncher`), as `slite_single` has it;
- clients wait (`Overlap = FALSE`); section 3 says what a request during a switch
  does in this build;
- a list with room for three records, since the application that is started is put
  into it before the one it replaces has gone.

Nothing else is assumed. Bundles, temporary or not, known or not, any requests a
client can make, forced stops of the launcher and of tokens nobody has among them,
tasks that cannot be created and tokens that come round are all covered: the
theorems are about whole behaviours, with no `Undisturbed`.

`SingleInv` says where the service is. The list is that of an `Empty` desk (the
launcher alone) or of a `Visit` (an application on it, which has the only task, and
what is in its queue). With these

- the service boots (`Boot`); or
- it is `Quieted`: the launcher or the application is in front and has nothing to do
  (`Resting`), and at most one request waits. Either nothing is held back and no
  application waits for a token (`Free`), or `scheduling` is TRUE. The second
  happens when an application is started while another one is in front
  (section 5), or while it is in front itself, and when one is stopped by its
  token while the launcher is in front (section 6): the flag is set and nothing is
  scheduled, so the service holds everything back for ever. The invariant has to
  allow it, and `Settled` leaves it out; or
- it is `InSwitch`: one of the six steps in which the application has been sent a
  callback or reports it (`Turn`), or one of those in which the launcher has been
  called and reports (`AtHome`).

The three flags of this build (`scheduling`, the pending token with its record, and
`terminated` of the application) are set and cleared in different orders by start,
termination and forced stop. The invariant does not follow them: it says what the two
records, the task and the launcher must be in each step, and the proof is that no
handler depends on a flag in a way that leaves these steps. `Good(s, r)`, that a
handler leads from `s` to a state of `SingleInv` and the abilities make one step of
`OneAbility` at most, is proved of every request in every place where a request can be
handled, and of every report. While clients wait the queue never fills and no report
is dropped (`EmptyRoom`). No client's operation is held
back in a switch, and the only one `RunOperation` may find is the termination a start
put there for the application it replaces (`RunNothing`, `RunReplacing`).

`SettledHome` follows since a behaviour that is settled has no message on its way,
hence is not `InSwitch` (`SwitchCounts`), hence rests.

### Only model-checked

- `OneActive`, `PointersLive` and `SettledCoherent` of `Ams`: they hold of the system
  of `ams_settled`, but not of every one, even while clients wait
  (`Overlap = FALSE`), as `ams_two_focus` shows. An invariant for them has to say
  which page the focus is on its way to, through every intermediate state.
- `SettledServices`, `ConnectionsAgree` and `ConnectsAlternate` of `Connect`, which
  hold of callers that wait (`Calm`), for the same reason.
- What `Slite` with multi-tasking does after the task of an ability could not be
  created, and `Slite` without multi-tasking and with a JavaScript launcher.
- Liveness (`StartServed`, `TerminateServed`, `Quiesces`, `Answered`, `UnusedStops`,
  `Reported`, `ExitEnds`, `HeldBackRuns`) in any case: liveness under fairness and
  ENABLED are beyond the prover.

The modules declare no RECURSIVE operator.

## 5. Where the code and its documentation disagree

These have a run that finds the shortest behaviour, and an entry under `findings`
in `PROJECT.json` that quotes the document.

- `ams_two_focus`: terminating a background application brings the one it was
  started from to the top and activates it, while the page with the focus stays
  ACTIVE (`ability_stack_manager.cpp:117-120`, `app_terminate_task.cpp:46`).
- `ams_stale_death`: a death that is handled after the bundle was started again
  deletes the record of the new process (`ability_mgr_feature.cpp:586`).
- `ams_reread`: when an application exits, its record is deleted and then compared
  with the rest of the list, since the argument of `RemoveAppRecord` is the record in
  the list (`app_manager.cpp:52`, `:56`).
- `connect_shared`: the one callback object of a process has the arguments of its
  last connection, so the answer to another one is delivered on it
  (`ability_service_manager.cpp:64`).
- `wants_lost`: a setter of parameters returns TRUE although its last copy has failed and
  all parameters are gone (`want.cpp:166`, against `want.h:111`).

The models contain the following, too. They have no run of their own; the formula
and the parameters given with each are those with which TLC finds the behaviour.

- *A process that dies before it attaches.* Its record stays for ever, and later
  starts of the bundle wait for it (`ability_thread_client.cpp:62`,
  `app_manager.cpp:29`). `ams_reread.cfg` with no request,
  one crash and `Overlap = TRUE`, the invariant `Settled => DOMAIN app \subseteq Live`.
- *A client that disconnects while the service it asked for is coming up.* The service
  gets `OnDisconnect` without an `OnConnect` before (`page_ability_record.cpp:370`;
  `ability.h:135`: "Called when all abilities connected to this Service ability are
  disconnected"). `connect.cfg` with `Calm = FALSE` and two calls, `ConnectsAlternate`.
- *An existing slice that is presented.* `ability_slice.h:113` lets an application
  present "an existing ability slice"; one that is on the stack stays there besides being
  on top, gets callbacks out of order, and is stopped twice at the end
  (`ability_slice_scheduler.cpp:129`). `app.cfg` with `Represent = TRUE`, `InOrder`.
- *A start while another application is on top, without multi-tasking.* The new one
  waits for the end of the old one, which is queued behind the start that waits
  (`ability_record_manager.cpp:310`). Nothing is ever taken from the queue after that.
  `slite_single.cfg` with `FairSpec` and two requests,
  `pendingRecord # {} ~> pendingRecord = {}`.
- *A dropped report.* A report that finds the service's queue full is dropped after the
  retries and nobody notices, so a switch never ends (`abilityms_slite_client.cpp:65`).
  `slite_multi.cfg` with a `QueueSize` of 2, no failing tasks and four starts
  of applications, `pending # 0 ~> pending = 0`. (With a queue of 3 and three starts the
  formula holds.)
- *A start without a path, with multi-tasking.* It is refused after the ability on top
  was sent away for it (`ability_record_manager.cpp:610`). `slite_multi.cfg` with
  `Pathless = {js1}`, no failing tasks and one start, the same formula.
- *A forced stop by token of the launcher on top, with multi-tasking.* It deletes the
  launcher's record (`ability_record_manager.cpp:511`), although the other ways to end an
  application spare it ("launcher will not pop ability stack", `:452`).
  `slite_multi.cfg` with the one request `[id |-> "terminateApp", token |-> LauncherToken]`,
  and `OneTaskBesideHome`, which asks for the launcher.

## 6. What is not modelled, and what is assumed

Left out for good: permission and visibility checks of requests (they leave no
state behind), starts on a remote device and their callback (the distributed
scheduler is another repository), the window manager and the wait for it, dumps,
the command line tool, the JavaScript bindings, the loading of bundle information
and of JavaScript code, the conversion of Wants to and from URIs (`WantToUri`,
`WantParseUri`: text, and the service does not call them).

Left out, with what the code does there:

- *Callers of connections that do not wait* (`Calm = FALSE`). The types and
  `PointersLive` are proved of them too, and section 5 shows one thing that goes
  wrong; the other properties are claimed of callers that wait. A stop while a
  connection is being made is overwritten by its answer
  (`ability_connect_done_task.cpp:40`), and the service gets OnDisconnect twice; a
  callback that crosses a disconnect uses arguments that are freed. `OnConnect` that
  returns no identity leaves its client without an answer.
- *Slices presented from callbacks of slices* (`ability_slice_scheduler.cpp:101`):
  two slices become ACTIVE.
- *Wake-ups nobody caused* (`ability_event_handler.cpp:42`): the loop would take the
  front of an empty queue. And posts after the loop has ended
  (`ability_thread.cpp:103`), which go to an object that is gone.
- *A start without an element* (`ability_mgr_feature.cpp:158`) leaves the data and the
  identity it was sent with behind.
- *Tokens that come round on the mini system.* With multi-tasking the 65535th token
  drawn is the launcher's own, which as a pending token means none
  (`ability_record_manager.cpp:714`): the task of the ability that is started is
  created at once, beside the one on top, and once more when that one has gone.
  The model follows the code there (with three requests and a `TokenLimit` of 3
  TLC finds an ability that is created twice), and no property is claimed.
- *After the forced stop of the launcher on the mini system* (section 5) the
  next switch follows a null pointer, which is where the model stops being about the
  code. The `mission` of a copied Want is not initialised there (`CopyWant`).
- *Retries on the mini system*: a client that finds the queue full waits 300 ms and tries
  again before it gives up. The model lets it give up at once; the tries before
  that are the behaviours in which it was scheduled a little later.
- *Requests with nothing to do, without multi-tasking* (modelled, with no property):
  the start of the application in front (`ability_record_manager.cpp:581`) and a
  forced stop by token with the launcher in front (`:500`) succeed with
  `isAppScheduling_` set and no lifecycle step under way that would clear it, so
  that later requests are held back.

What could be proved next: `ConnectsAlternate` for callers that wait, and
`SettledCoherent` and `OneActive` of `Ams` for an application graph in which they
hold.
