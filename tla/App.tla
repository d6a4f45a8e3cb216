-------------------------------- MODULE App --------------------------------
(***************************************************************************)
(* An application process (AbilityThread, AbilityScheduler,                *)
(* AbilityEventHandler).  Its main thread runs the tasks of an event       *)
(* queue; the thread that takes the service's messages and the UI thread   *)
(* post to the queue, and so does the main thread itself when it is told   *)
(* to exit.  PostTask reads the size of the queue before it takes the      *)
(* lock, so that a post is two steps of its thread.                        *)
(*                                                                         *)
(* The pages of the process and their slices are those of AppSlices.  What *)
(* an application does from a UI event is present a slice or terminate     *)
(* one; whether it also presents slices that are on the stack already is a *)
(* parameter.  The service may ask for any state of any ability in any     *)
(* order.                                                                  *)
(***************************************************************************)
EXTENDS AppSlices, Integers

CONSTANTS
    Token,          \* the tokens of the abilities the service may ask for
    Kind,           \* page, service or unknown (no such class), by token
    Capacity,       \* TASK_QUEUE_CAPACITY
    Represent,      \* whether the application presents slices that are started
    MaxMessages,    \* bound: messages of the service
    MaxEvents       \* bound: what the application does from UI events

ASSUME AppAssumption ==
    /\ Kind \in [Token -> {"page", "service", "unknown"}]
    /\ Capacity \in Nat \ {0}
    /\ Represent \in BOOLEAN
    /\ MaxMessages \in Nat /\ MaxEvents \in Nat

VARIABLES
    ability,        \* abilities_, by token
    misled,         \* TRUE once an ability has ended whose callbacks were out of order
    inbox,          \* the messages of the service that have not come in yet
    ipc,            \* the thread that takes them: idle, or about to push a task
    ui,             \* the UI thread: off, looping, about to push a task, or done
    queue,          \* taskQueue_
    loop,           \* where the main thread is
    current,        \* the task it performs
    running,        \* isAppRunning_
    quit,           \* quit_
    asked,          \* by token, the number of transactions not reported
    dropped,        \* whether the queue was full for a message, or for the quit task
    messages,       \* the number of messages of the service
    events          \* the number of UI events

vars == <<ability, misled, inbox, ipc, ui, queue, loop, current, running, quit, asked, dropped, messages, events>>

LoopState == {"run", "waiting", "woken", "perform", "pushStop", "postQuit", "pushQuit", "ended"}

Task(type) == [type |-> type]

NoTask == Task("none")

Failed == \E t \in DOMAIN ability : ability[t].exited

\* The process is gone once its main thread has ended, or a check has failed.
Alive == loop # "ended" /\ ~Failed

-----------------------------------------------------------------------------
(* The event queue.                                                        *)

\* Mutant: a queue that is full has room.
HasRoomWhenFull == Len(queue) <= Capacity

\* The first half of PostTask: TRUE if there is room.
HasRoom == Len(queue) < Capacity

\* Mutant: a task is pushed without a signal.
PushQuietly(task) ==
    /\ queue' = Append(queue, task)
    /\ UNCHANGED loop

\* The second half, under the lock: the waiting main thread is woken.
Push(task) ==
    /\ queue' = Append(queue, task)
    /\ loop' = IF loop = "waiting" THEN "woken" ELSE loop

\* Run, under the lock: the next task, the end, or a wait.
Take ==
    /\ queue # <<>>
    /\ current' = Head(queue)
    /\ queue' = Tail(queue)
    /\ loop' = "perform"

RunNext ==
    /\ loop = "run" /\ ~quit
    /\ \/ Take
       \/ /\ queue = <<>>
          /\ loop' = "waiting"
          /\ UNCHANGED <<queue, current>>
    /\ UNCHANGED <<ability, misled, inbox, ipc, ui, running, quit, asked, dropped, messages, events>>

\* After a wait the front of the queue is taken without another look.
RunWoken ==
    /\ loop = "woken"
    /\ Take
    /\ UNCHANGED <<ability, misled, inbox, ipc, ui, running, quit, asked, dropped, messages, events>>

RunEnds ==
    /\ loop = "run" /\ quit
    /\ loop' = "ended"
    /\ UNCHANGED <<ability, misled, inbox, ipc, ui, queue, current, running, quit, asked, dropped,
                   messages, events>>

-----------------------------------------------------------------------------
(* The thread that takes the service's messages, and the UI thread.        *)

AmsCallback ==
    /\ ipc = NoTask /\ inbox # <<>>
    /\ inbox' = Tail(inbox)
    /\ IF HasRoom THEN ipc' = Head(inbox) /\ UNCHANGED dropped
                  ELSE dropped' = TRUE /\ UNCHANGED ipc
    /\ UNCHANGED <<ability, misled, ui, queue, loop, current, running, quit, asked, messages, events>>

AmsCallbackPost ==
    /\ ipc # NoTask
    /\ Push(ipc)
    /\ ipc' = NoTask
    /\ UNCHANGED <<ability, misled, inbox, ui, current, running, quit, asked, dropped, messages, events>>

UITaskPost ==
    /\ ui = "loop"
    /\ ui' = IF ~running THEN "done" ELSE IF HasRoom THEN "posting" ELSE "loop"
    /\ UNCHANGED <<ability, misled, inbox, ipc, queue, loop, current, running, quit, asked, dropped,
                   messages, events>>

UITaskPush ==
    /\ ui = "posting"
    /\ Push(Task("ui"))
    /\ ui' = "loop"
    /\ UNCHANGED <<ability, misled, inbox, ipc, current, running, quit, asked, dropped, messages, events>>

-----------------------------------------------------------------------------
(* The tasks.                                                              *)

Performs(type) == loop = "perform" /\ current.type = type

Done == loop' = "run" /\ current' = NoTask

With(f, t, a)  == [u \in DOMAIN f \cup {t} |-> IF u = t THEN a ELSE f[u]]
Without(f, t)  == [u \in DOMAIN f \ {t} |-> f[u]]

\* SchedulerLifecycleDone
Report(t) == asked' = [asked EXCEPT ![t] = @ - 1]

PerformAppInit ==
    /\ Performs("init")
    /\ Done
    /\ UNCHANGED <<ability, misled, inbox, ipc, ui, queue, running, quit, asked, dropped, messages, events>>

\* The UI thread is made with the first page.
InitUITaskEnv == ui' = IF ui = "off" THEN "loop" ELSE ui

\* An ability is made at the first transaction, and with the first page the UI
\* thread.  One that comes to INITIAL is deleted; the state it has reached is
\* reported, whatever was asked for.
PerformTransactAbilityState ==
    /\ Performs("transact")
    /\ LET t  == current.token
           a  == IF t \in DOMAIN ability THEN ability[t] ELSE NewAbility(Kind[t])
           a1 == IF a.state = current.state THEN a ELSE HandleLifecycleTransaction(a, current.state)
       IN  IF Kind[t] = "unknown"
           THEN UNCHANGED <<ability, misled, ui>>
           ELSE /\ misled' = (misled \/ a1.misled)
                /\ ability' = IF a1.state = "INITIAL" /\ ~a1.exited
                              THEN Without(ability, t) ELSE With(ability, t, a1)
                /\ IF Kind[t] = "page" THEN InitUITaskEnv ELSE UNCHANGED ui
    /\ Report(current.token)
    /\ Done
    /\ UNCHANGED <<inbox, ipc, queue, running, quit, dropped, messages, events>>

\* A UI event: nothing, or a slice that has been started presents or terminates
\* one.  AddAbilitySlice takes any slice that is not on top: one that has not been
\* started or has been destroyed, and one in the background, which is on the stack.
UIEvent(t) ==
    LET a == ability[t]
    IN  \E x \in Slice :
           \/ \E y \in Slice :
                 /\ a.slice[x] # "UNINITIALIZED"
                 /\ Represent \/ a.slice[y] \in {"UNINITIALIZED", "INITIAL"}
                 /\ ability' = [ability EXCEPT ![t] = AddAbilitySlice(a, x, y)]
           \/ /\ a.slice[x] # "UNINITIALIZED"
              /\ ability' = [ability EXCEPT ![t] = RemoveAbilitySlice(a, x)]

PerformUITask ==
    /\ Performs("ui")
    /\ \/ UNCHANGED <<ability, events>>
       \/ /\ events < MaxEvents
          /\ events' = events + 1
          /\ \E t \in DOMAIN ability : ability[t].kind = "page" /\ UIEvent(t)
    /\ Done
    /\ UNCHANGED <<misled, inbox, ipc, ui, queue, running, quit, asked, dropped, messages>>

\* PerformAppExit posts two tasks to the main thread's own queue: the end of the
\* UI thread, and then the end of the event loop.
PerformAppExit ==
    /\ Performs("exit")
    /\ loop' = IF HasRoom THEN "pushStop" ELSE "postQuit"
    /\ UNCHANGED <<ability, misled, inbox, ipc, ui, queue, current, running, quit, asked, dropped, messages, events>>

PushStop ==
    /\ loop = "pushStop"
    /\ queue' = Append(queue, Task("stop"))
    /\ loop' = "postQuit"
    /\ UNCHANGED <<ability, misled, inbox, ipc, ui, current, running, quit, asked, dropped, messages, events>>

\* Mutant: the event loop is not asked to quit.
PostNothing ==
    /\ loop = "postQuit"
    /\ Done
    /\ UNCHANGED <<ability, misled, inbox, ipc, ui, queue, running, quit, asked, dropped, messages, events>>

PostQuit ==
    /\ loop = "postQuit"
    /\ IF HasRoom THEN loop' = "pushQuit" /\ UNCHANGED <<current, dropped>>
                  ELSE Done /\ dropped' = TRUE
    /\ UNCHANGED <<ability, misled, inbox, ipc, ui, queue, running, quit, asked, messages, events>>

PushQuit ==
    /\ loop = "pushQuit"
    /\ queue' = Append(queue, Task("quit"))
    /\ Done
    /\ UNCHANGED <<ability, misled, inbox, ipc, ui, running, quit, asked, dropped, messages, events>>

PerformStop ==
    /\ Performs("stop")
    /\ running' = FALSE
    /\ Done
    /\ UNCHANGED <<ability, misled, inbox, ipc, ui, queue, quit, asked, dropped, messages, events>>

PerformQuit ==
    /\ Performs("quit")
    /\ quit' = TRUE
    /\ Done
    /\ UNCHANGED <<ability, misled, inbox, ipc, ui, queue, running, asked, dropped, messages, events>>

-----------------------------------------------------------------------------
(* The service: init first, and nothing after exit.                        *)

Sends(task) ==
    /\ messages < MaxMessages
    /\ messages' = messages + 1
    /\ inbox' = Append(inbox, task)
    /\ UNCHANGED <<ability, misled, ipc, ui, queue, loop, current, running, quit, dropped, events>>

AmsTransact(t, state) ==
    /\ Sends([type |-> "transact", token |-> t, state |-> state])
    /\ asked' = [asked EXCEPT ![t] = @ + 1]

\* No message follows the exit.
AmsExit ==
    /\ messages <= MaxMessages
    /\ messages' = MaxMessages + 1
    /\ inbox' = Append(inbox, Task("exit"))
    /\ UNCHANGED <<ability, misled, ipc, ui, queue, loop, current, running, quit, asked, dropped, events>>

-----------------------------------------------------------------------------

Init ==
    /\ ability = [t \in {} |-> NewAbility("page")]
    /\ misled = FALSE
    /\ inbox = <<Task("init")>>
    /\ ipc = NoTask
    /\ ui = "off"
    /\ queue = <<>>
    /\ loop = "run"
    /\ current = NoTask
    /\ running = TRUE
    /\ quit = FALSE
    /\ asked = [t \in Token |-> 0]
    /\ dropped = FALSE
    /\ messages = 0
    /\ events = 0

MainNext ==
    \/ RunNext \/ RunWoken \/ RunEnds
    \/ PerformAppInit \/ PerformTransactAbilityState \/ PerformUITask
    \/ PerformAppExit \/ PushStop \/ PostQuit \/ PushQuit \/ PerformStop \/ PerformQuit

IpcNext == AmsCallback \/ AmsCallbackPost

UINext == UITaskPost \/ UITaskPush

AmsNext == AmsExit \/ \E t \in Token, state \in AbilityState : AmsTransact(t, state)

Next == Alive /\ (MainNext \/ IpcNext \/ UINext \/ AmsNext)

Spec == Init /\ [][Next]_vars

\* A step of the main thread changes loop, and no other step does but the one
\* that wakes it: in terms of loop, fairness of MainNext costs TLC far less.
MainMoves == Alive /\ loop # "waiting" /\ loop' \in LoopState

\* The main thread and the thread that takes the messages are scheduled.  Nothing
\* is assumed of the service, of the application or of the UI thread.
FairSpec ==
    /\ Spec
    /\ WF_loop(MainMoves)
    /\ WF_vars(Alive /\ IpcNext)

-----------------------------------------------------------------------------
(* Properties.                                                             *)

TaskType ==
    {Task(type) : type \in {"init", "ui", "exit", "stop", "quit"}}
    \cup [type : {"transact"}, token : Token, state : AbilityState]

\* The type invariant; and the queue exceeds its capacity, which PostTask checks
\* before it takes the lock, by at most one of the posts under way as it filled up.
AppTypeOK ==
    /\ DOMAIN ability \subseteq Token
    /\ \A t \in DOMAIN ability : ability[t] \in AbilityType
    /\ misled \in BOOLEAN
    /\ inbox \in Seq(TaskType) /\ queue \in Seq(TaskType)
    /\ ipc \in TaskType \cup {NoTask} /\ current \in TaskType \cup {NoTask}
    /\ ui \in {"off", "loop", "posting", "done"}
    /\ loop \in LoopState
    /\ running \in BOOLEAN /\ quit \in BOOLEAN /\ dropped \in BOOLEAN
    /\ asked \in [Token -> Int]
    /\ Len(queue) <= Capacity + 1

\* Whatever the service asks for and whatever the application presents and
\* terminates, no callback of an ability or of a slice comes out of order: the
\* checks that call exit(-1) never fail, and no slice is stopped twice, not even
\* as its ability ends.
InOrder == ~misled /\ \A t \in DOMAIN ability : ~ability[t].exited /\ ~ability[t].misled

\* The slices of a page follow it: the one on top is in the page's state, those
\* on the stack are in the background, each once, and the others are not started.
SlicesFollow == \A t \in DOMAIN ability : ability[t].kind = "page" => FollowsPage(ability[t])

\* The window of a page is on the screen when the page is INACTIVE or ACTIVE, and
\* shows the slice on top if that has content of its own.
ScreenShowsTop == \A t \in DOMAIN ability : ability[t].kind = "page" => ShowsTop(ability[t])

\* Every transaction is reported, unless a message was dropped or the process ends.
Reported ==
    \A t \in Token : asked[t] > 0 ~> (asked[t] = 0 \/ dropped \/ ~Alive)

\* A process that is told to exit ends, unless the queue was full for a message or
\* for the quit task.
ExitEnds ==
    messages > MaxMessages ~> (loop = "ended" \/ dropped)
=============================================================================
