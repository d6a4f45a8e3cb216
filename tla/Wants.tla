------------------------------- MODULE Wants -------------------------------
(***************************************************************************)
(* The journey of a Want.  A client fills one in and starts a page with    *)
(* it; the feature of the service reads it from the message and posts a    *)
(* copy of it; the handler makes a page record with a copy of its own, and *)
(* writes that into every lifecycle message; the process reads it from     *)
(* there, hands it to the ability and calls back the identity in it.       *)
(* Every step allocates, and any allocation may fail.                      *)
(*                                                                         *)
(* Which page is activated when is the subject of Ams: here one page, made *)
(* by some start, is sent whatever its state allows.  The memories of the  *)
(* client, the service and the process are one heap.                       *)
(***************************************************************************)
EXTENDS WantData

CONSTANTS
    Target,         \* the element of the page: its device, bundle and ability
    Raw,            \* data a client carries that are not parameters
    Param,          \* the parameters a client may set
    KeyOf,          \* the key of each, a sequence of bytes
    ValueOf,        \* its value: a number, or a string as a sequence of bytes
    IntParam,       \* the ones with a number
    Failures,       \* the sets of allocations that may fail in a call
    QueueSize,      \* the capacity of the request queue of the service
    MaxStarts,      \* bounds of the model: starts,
    MaxSets,        \* calls that fill in the Wants,
    MaxMessages     \* lifecycle messages and their answers under way

VARIABLES
    heap,           \* the blocks that are allocated, with their contents
    bad,            \* a block was freed that is not allocated
    client,         \* the Want the client fills in, or None
    lost,           \* the blocks its calls have left behind, in number
    sets,           \* the calls that have filled in Wants
    plain,          \* it carries Raw
    kept,           \* the parameters whose setting in it has returned TRUE
    gone,           \* how many of them were lost with all its data
    sent,           \* what each start has been sent with
    toService,      \* messages to the service, by the number of the start
    queue,          \* the requests of the service
    page,           \* the page record, or None: the start that made it is its token
    toApp,          \* lifecycle messages to the process
    tasks,          \* its tasks
    reports,        \* its answers
    ability,        \* the state of the ability with each token
    told            \* the callbacks each start has got

vars == <<heap, bad, client, lost, sets, plain, kept, gone, sent, toService, queue, page,
          toApp, tasks, reports, ability, told>>
clientVars == <<client, lost, sets, plain, kept, gone, sent>>
serviceVars == <<toService, queue, page>>
appVars == <<toApp, tasks, reports, ability>>

Start == 1..MaxStarts
PageState == {"UNINITIALIZED", "INITIAL", "INACTIVE", "ACTIVE", "BACKGROUND"}
Page == [token : Start, want : Want, state : PageState]

\* What a copy of an element may hold: each name, or none.
Copies(e) == [device : {e.device, None}, bundle : {e.bundle, None}, ability : {e.ability, None}]

\* Parameters and data are bytes, and a missing Want, page or element is none.
ASSUME WantsAssumption ==
    /\ Target \in Copies(Target)
    /\ Raw \in Seq(Nat)
    /\ KeyOf \in [Param -> Seq(Nat)]
    /\ \A p \in Param : IF p \in IntParam THEN ValueOf[p] \in Int ELSE ValueOf[p] \in Seq(Nat)
    /\ MaxStarts \in Nat /\ QueueSize \in Nat
    /\ None \notin Want \cup Page \cup Copies(Target)

Init ==
    /\ heap = [b \in {} |-> None]
    /\ bad = FALSE
    /\ lost = 0
    /\ client = None /\ sets = 0 /\ plain = FALSE /\ kept = <<>> /\ gone = 0
    /\ sent = <<>>
    /\ toService = <<>> /\ queue = <<>> /\ page = None
    /\ toApp = <<>> /\ tasks = <<>> /\ reports = <<>>
    /\ ability = [n \in Start |-> "INITIAL"]
    /\ told = [n \in Start |-> <<>>]

\* The call has ended with the memory m.
Memory(m) == heap' = m.heap /\ bad' = (bad \/ m.bad)

UnderWay == Len(toApp) + Len(tasks) + Len(reports)

-----------------------------------------------------------------------------
(***************************************************************************)
(* The client.                                                             *)
(***************************************************************************)

\* BuildWant
NewWant ==
    /\ client = None /\ Len(sent) < MaxStarts
    /\ client' = NoWant
    /\ UNCHANGED <<heap, bad, lost, sets, plain, kept, gone, sent, serviceVars, appVars, told>>

\* The client shares nothing with the others: it may as well do this while
\* nothing is under way.
FillsIn(m) ==
    /\ client # None /\ sets < MaxSets
    /\ toService = <<>> /\ queue = <<>> /\ UnderWay = 0
    /\ Memory(m)
    /\ client' = m.want /\ sets' = sets + 1
    /\ UNCHANGED <<sent, serviceVars, appVars, told>>

FillElement(fails) ==
    /\ FillsIn(SetWantElement(Call(heap, client, fails), Target))
    /\ UNCHANGED <<lost, plain, kept, gone>>

FillIdentity(fails) ==
    /\ FillsIn(SetWantSvcIdentity(Call(heap, client, fails), Len(sent) + 1))
    /\ UNCHANGED <<lost, plain, kept, gone>>

\* The data take the place of the parameters.
FillData(fails) ==
    /\ FillsIn(SetWantData(Call(heap, client, fails), Raw))
    /\ plain' = (client'.data # 0)
    /\ kept' = <<>> /\ gone' = 0
    /\ UNCHANGED lost

SetParam(p, fails) ==
    IF p \in IntParam THEN SetIntParam(Call(heap, client, fails), KeyOf[p], ValueOf[p])
    ELSE SetStrParam(Call(heap, client, fails), KeyOf[p], ValueOf[p])

\* The blocks a call of the client has allocated and points to nowhere.  They
\* are counted and taken out of the heap.
LostBlocks(m) == DOMAIN m.heap \ (DOMAIN heap \cup Pointers(m.want))
WithoutLost(m) == [m EXCEPT !.heap = [b \in DOMAIN @ \ LostBlocks(m) |-> @[b]]]

FillParam(p, fails) ==
    LET m == SetParam(p, fails)
    IN  /\ ~plain
        /\ FillsIn(WithoutLost(m))
        /\ kept' = IF m.ok THEN Append(kept, p) ELSE kept
        /\ gone' = IF m.want.data = 0 THEN Len(kept') ELSE gone
        /\ lost' = lost + Cardinality(LostBlocks(m))
        /\ UNCHANGED plain

\* StartAbility, ClearWant and delete.
SendStart ==
    /\ client # None /\ client.element # 0
    /\ LET n == Len(sent) + 1
           io == Written(heap, client)
       IN  /\ sent' = Append(sent, io)
           /\ toService' = IF CanSerialize(client) THEN Append(toService, [start |-> n, io |-> io])
                           ELSE toService
    /\ Memory(ClearWant(Call(heap, client, {})))
    /\ client' = None /\ plain' = FALSE /\ kept' = <<>> /\ gone' = 0 /\ lost' = 0
    /\ UNCHANGED <<sets, queue, page, appVars, told>>

-----------------------------------------------------------------------------
(***************************************************************************)
(* The service.                                                            *)
(***************************************************************************)

\* The copy of a Want that StartAbilityInner posts: what cannot be copied is
\* missing in it.  The copies are made in m, the original is want.
CopyWant(m, want) ==
    LET Identity(m1) == IF want.sid = 0 THEN m1 ELSE SetWantSvcIdentity(m1, m.heap[want.sid])
        Data(m1) == SetWantData(m1, IF want.data = 0 THEN <<>> ELSE m.heap[want.data])
    IN  Identity(Data(SetWantElement([m EXCEPT !.want = NoWant], m.heap[want.element])))

\* StartAbilityInvoke and StartAbilityInner.
PostStart(m, want, n) ==
    IF Len(queue) < QueueSize
    THEN /\ queue' = Append(queue, [start |-> n, want |-> m.want])
         /\ Memory(ClearWant([m EXCEPT !.want = want]))
    ELSE /\ queue' = queue
         /\ Memory(ClearWant([ClearWant(m) EXCEPT !.want = want]))

StartAbilityInner(m, n) ==
    IF m.ok THEN PostStart(CopyWant(m, m.want), m.want, n)
    ELSE Memory(m) /\ UNCHANGED queue

StartAbilityInvoke(fails) ==
    /\ toService # <<>>
    /\ StartAbilityInner(DeserializeWant(Call(heap, NoWant, fails), Head(toService).io),
                         Head(toService).start)
    /\ toService' = Tail(toService)
    /\ UNCHANGED <<clientVars, page, appVars, told>>

\* The element is there, with the bundle and the ability the start asks for.
Valid(want) == want.element # 0 /\ heap[want.element] = Target

\* AbilityMgrHandler::StartAbilityCallback
CallbackFailed(want) ==
    told' = IF want.sid = 0 \/ want.element = 0 THEN told
            ELSE [told EXCEPT ![heap[want.sid]] = Append(@, "failed")]

HandleStart(m, want) ==
    /\ Memory(ClearWant([m EXCEPT !.want = want]))
    /\ queue' = Tail(queue)
    /\ UNCHANGED <<clientVars, toService, appVars>>

\* The start is invalid, is refused, or its process cannot be started: if a
\* page was made for it, it is deleted again.
RefuseStart ==
    /\ queue # <<>>
    /\ HandleStart(Call(heap, NoWant, {}), Head(queue).want)
    /\ CallbackFailed(Head(queue).want)
    /\ UNCHANGED page

\* Mutant: the record of the page takes the new Want over.
StartExistingRenew ==
    /\ queue # <<>> /\ Valid(Head(queue).want) /\ page # None
    /\ Memory(ClearWant(Call(heap, page.want, {})))
    /\ page' = [page EXCEPT !.want = Head(queue).want]
    /\ queue' = Tail(queue)
    /\ UNCHANGED <<clientVars, toService, appVars, told>>

\* The page is in the stack already: it keeps the Want it was made with.
StartExisting ==
    /\ queue # <<>> /\ Valid(Head(queue).want) /\ page # None
    /\ HandleStart(Call(heap, NoWant, {}), Head(queue).want)
    /\ UNCHANGED <<page, told>>

\* PageAbilityRecord: like StartAbilityInner, but data that are missing are
\* not copied at all.
StartNew(fails) ==
    /\ queue # <<>> /\ Valid(Head(queue).want) /\ page = None
    /\ LET m == CopyWant(Call(heap, NoWant, fails), Head(queue).want)
       IN  /\ page' = [token |-> Head(queue).start, want |-> m.want, state |-> "UNINITIALIZED"]
           /\ HandleStart(m, Head(queue).want)
    /\ UNCHANGED told

\* AppRecord::AbilityTransaction: the message, unless it cannot be sent.
Transact(state) ==
    /\ UnderWay < MaxMessages
    /\ \/ /\ CanSerialize(page.want)
          /\ toApp' = Append(toApp, [token |-> page.token, state |-> state,
                                     io |-> Written(heap, page.want)])
       \/ UNCHANGED toApp
    /\ UNCHANGED <<clientVars, toService, queue, tasks, reports, ability, told>>

\* Mutant: the identity stays in the record.
ActiveAbilityAgain ==
    /\ page # None /\ page.state # "ACTIVE"
    /\ Transact("ACTIVE")
    /\ UNCHANGED <<heap, bad, page>>

\* The identity goes into the first of these messages alone.
ActiveAbility ==
    /\ page # None /\ page.state # "ACTIVE"
    /\ Transact("ACTIVE")
    /\ LET m == FreeSid(Call(heap, page.want, {}))
       IN  Memory(m) /\ page' = [page EXCEPT !.want = m.want]

InactiveAbility ==
    /\ page # None /\ page.state = "ACTIVE"
    /\ Transact("INACTIVE")
    /\ UNCHANGED <<heap, bad, page>>

\* ToBackgroundAbility and StopAbility
LeaveScreen ==
    /\ page # None /\ page.state = "INACTIVE"
    /\ \E state \in {"BACKGROUND", "INITIAL"} : Transact(state)
    /\ UNCHANGED <<heap, bad, page>>

\* ~PageAbilityRecord
DeletePage ==
    /\ page # None
    /\ Memory(ClearWant(Call(heap, page.want, {})))
    /\ page' = None

\* A record goes with its process, or because its mission is removed.
RemovePage == DeletePage /\ UNCHANGED <<clientVars, toService, queue, appVars, told>>

\* An answer: the state is recorded, and a page that has ended is deleted.
AbilityTransaction ==
    /\ reports # <<>>
    /\ reports' = Tail(reports)
    /\ LET r == Head(reports)
       IN  IF page = None \/ page.token # r.token THEN UNCHANGED <<heap, bad, page>>
           ELSE IF r.state = "INITIAL" THEN DeletePage
           ELSE page' = [page EXCEPT !.state = r.state] /\ UNCHANGED <<heap, bad>>
    /\ UNCHANGED <<clientVars, toService, queue, toApp, tasks, ability, told>>

-----------------------------------------------------------------------------
(***************************************************************************)
(* The process.                                                            *)
(***************************************************************************)

\* AmsCallback: a message that cannot be read is dropped.
AmsCallback(fails) ==
    /\ toApp # <<>>
    /\ LET msg == Head(toApp)
           m == DeserializeWant(Call(heap, NoWant, fails), msg.io)
       IN  /\ Memory(m)
           /\ tasks' = IF m.ok THEN Append(tasks, [token |-> msg.token, state |-> msg.state,
                                                   want |-> m.want])
                       ELSE tasks
    /\ toApp' = Tail(toApp)
    /\ UNCHANGED <<clientVars, serviceVars, reports, ability, told>>

\* PerformTransactAbilityState: a new ability is made, if its class is named
\* and found, and takes the state; the service is told, and if the ability has
\* become ACTIVE so is the identity.
Perform(task, state) ==
    /\ tasks' = Tail(tasks)
    /\ ability' = [ability EXCEPT ![task.token] = state]
    /\ reports' = Append(reports, [token |-> task.token, state |-> state])
    /\ told' = IF state # "ACTIVE" \/ task.want.sid = 0 \/ task.want.element = 0 THEN told
               ELSE [told EXCEPT ![heap[task.want.sid]] = Append(@, "started")]
    /\ Memory(ClearWant(Call(heap, task.want, {})))
    /\ UNCHANGED <<clientVars, serviceVars, toApp>>

PerformTransactAbilityState ==
    /\ tasks # <<>>
    /\ LET task == Head(tasks)
           element == IF task.want.element = 0 THEN NoName ELSE heap[task.want.element]
           new == ability[task.token] = "INITIAL"
       IN  \/ new /\ Perform(task, "INITIAL")
           \/ (new => element.ability # None) /\ Perform(task, task.state)

-----------------------------------------------------------------------------
ClientNext ==
    \/ NewWant
    \/ \E fails \in Failures : FillElement(fails) \/ FillIdentity(fails) \/ FillData(fails)
    \/ \E p \in Param, fails \in Failures : FillParam(p, fails)
    \/ SendStart
ServiceNext ==
    \/ \E fails \in Failures : StartAbilityInvoke(fails) \/ StartNew(fails)
    \/ RefuseStart \/ StartExisting
    \/ ActiveAbility \/ InactiveAbility \/ LeaveScreen
    \/ RemovePage \/ AbilityTransaction
AppNext == (\E fails \in Failures : AmsCallback(fails)) \/ PerformTransactAbilityState
Next == ClientNext \/ ServiceNext \/ AppNext

Spec == Init /\ [][Next]_vars

-----------------------------------------------------------------------------
\* The Wants there are, by who holds them.
Held ==
    (IF client = None THEN {} ELSE {<<"client", 0, client>>})
    \cup {<<"queue", i, queue[i].want>> : i \in DOMAIN queue}
    \cup (IF page = None THEN {} ELSE {<<"page", 0, page.want>>})
    \cup {<<"task", i, tasks[i].want>> : i \in DOMAIN tasks}

\* However allocations fail, every block of memory has one owner: nothing is
\* freed twice, no Want points to a block that is gone or that another Want
\* points to, and nothing is left behind but the bytes of the pairs that
\* SetIntParam and SetStrParam have added, one block for each call.
OneOwner ==
    /\ ~bad
    /\ \A x, y \in Held : x # y => Pointers(x[3]) \cap Pointers(y[3]) = {}
    /\ DOMAIN heap = UNION {Pointers(x[3]) : x \in Held}
    /\ lost <= sets

\* What the bytes of a Want say: the pairs from position i on, the last of them
\* Torn if there is only a part of it.
Torn == [key |-> <<>>, type |-> 0, value |-> <<>>]
PairsFrom(d) ==
    LET next(i) == i + 2 + d[i + 1]
        pair(i, k) == [key |-> SubSeq(d, i + 4, k - 1), type |-> d[k],
                       value |-> SubSeq(d, k + 2, k + 1 + d[k + 1])]
        f[i \in 1..(Len(d) + 1)] ==
          IF i > Len(d) THEN <<>>
          ELSE IF i + 3 > Len(d) \/ next(i) > Len(d) + 1 THEN <<Torn>>
          ELSE <<pair(i, i + 4 + d[i + 3])>> \o f[next(i)]
    IN  f[1]
Number(b) == ((b[1] * 256 + b[2]) * 256 + b[3]) * 256 + b[4]
Says(pair, p) ==
    /\ pair.key = KeyOf[p]
    /\ IF p \in IntParam THEN pair.type = INT_VALUE_TYPE /\ Number(pair.value) = ValueOf[p]
       ELSE pair.type = STRING_VALUE_TYPE /\ pair.value = ValueOf[p]

\* The parameters set since the data were last lost.
Recent == SubSeq(kept, gone + 1, Len(kept))
Pairs == IF client.data = 0 THEN <<>> ELSE PairsFrom(heap[client.data])

\* The data of a Want are parameters whose setting has returned TRUE, complete
\* and in order: never a part of one, nor one that was refused.  None is
\* missing but the ones that were lost all together, when the last copy of a
\* setter had failed, which ParamsKept is about.
ParamsWhole ==
    client # None /\ ~plain =>
        /\ client.data # 0 => client.dataLength = Len(heap[client.data])
        /\ Len(Pairs) = Len(Recent)
        /\ \A i \in DOMAIN Pairs : Says(Pairs[i], Recent[i])

\* Every parameter whose setting has returned TRUE is in the data of the Want:
\* UpdateWantData returns TRUE after SetWantData has freed the old data and got
\* no memory for the new.
ParamsKept == client # None /\ ~plain => Len(Pairs) = Len(kept)

\* What a Want w holds is what start n was sent with, but for what could not
\* be copied.
Of(w, n) ==
    /\ w.element # 0 => \A f \in DOMAIN Target : heap[w.element][f] \in {sent[n].element[f], None}
    /\ w.data # 0 => heap[w.data] = sent[n].data
    /\ w.sid # 0 => heap[w.sid] = n

\* A page and its process hold the Want of the start that made the page, and
\* a request the one of its own start, whatever starts came between.
WantsArrive ==
    /\ \A i \in DOMAIN queue : Of(queue[i].want, queue[i].start)
    /\ page # None => Of(page.want, page.token)
    /\ \A i \in DOMAIN tasks : Of(tasks[i].want, tasks[i].token)

\* The client is called back at most once for a start: it is not told of a
\* failure and of a success, nor again when the page comes back to the front.
CalledOnce == \A n \in Start : Len(told[n]) <= 1
=============================================================================
