------------------------------ MODULE AmsState ------------------------------
(***************************************************************************)
(* The memory of the Ability Manager Service (AMS) of the small system,    *)
(* and the operations on it that the service's tasks are written with:     *)
(* the mission stacks (AbilityMissionStack, AbilityMissionRecord), the     *)
(* page records (PageAbilityRecord), the process table (AppManager,        *)
(* AppRecord) and the IPC client of one application process                *)
(* (AbilityThreadClient).                                                  *)
(*                                                                         *)
(* The service is single threaded, so one handler is one atomic step: a    *)
(* handler is an operator from a state record s to a state record.  Its    *)
(* fields are the variables of module Ams, and the results of the handler: *)
(*   status    the AbilityMsStatus the last call returned,                 *)
(*   dangling  TRUE once the handler has followed a pointer in its records *)
(*             to a deleted one (no defined behaviour from there on),      *)
(*   reread    TRUE once RemoveAppRecord has compared app records with the *)
(*             one it had deleted (none of them is taken for it).          *)
(*                                                                         *)
(* Pointers are tokens: 0 stands for nullptr, a page record is denoted by  *)
(* its token_ and an application record by its identityId_.  Both are      *)
(* drawn from the one counter of TokenGenerate.                            *)
(***************************************************************************)
EXTENDS Integers, Sequences, FiniteSets

CONSTANTS
    Bundle,         \* the installed bundles
    Launcher,       \* com.huawei.launcher
    Ability,        \* the Page abilities of the installed bundles
    BundleOf,       \* the bundle an ability belongs to
    AceAbility,     \* the abilities named "AceAbility"
    None            \* no bundle: a null mission record

ASSUME BundleAssumption ==
    /\ Launcher \in Bundle
    /\ None \notin Bundle
    /\ BundleOf \in [Ability -> Bundle]
    /\ AceAbility \subseteq Ability

\* The lifecycle states an ability reports, and the one a record starts in.
AppState == {"INITIAL", "INACTIVE", "ACTIVE", "BACKGROUND"}
RecordState == AppState \cup {"UNINITIALIZED"}

Token == Nat \ {0}

\* What the service sends to a process, and the process to itself (quit).
Message ==
    [type : {"init", "exit", "quit"}]
    \cup [type : {"transact"}, token : Token, ability : Ability, state : AppState]

RecordType ==
    [ability : Ability, state : RecordState, next : Nat, prev : Nat, app : Nat]

AppType == [bundle : Bundle, attached : BOOLEAN, pending : Nat]

-----------------------------------------------------------------------------
(* Sequences and sparse functions.                                         *)

Elements(seq) == {seq[i] : i \in 1..Len(seq)}

ElementsFrom(seq, k) == {seq[i] : i \in k..Len(seq)}

IndexOf(seq, x) == CHOOSE i \in 1..Len(seq) : seq[i] = x

\* seq without its element x, the others in their order.
Without(seq, x) ==
    IF x \in Elements(seq)
    THEN SubSeq(seq, 1, IndexOf(seq, x) - 1) \o SubSeq(seq, IndexOf(seq, x) + 1, Len(seq))
    ELSE seq

Last(seq) == seq[Len(seq)]

\* f with the value y at x, which may be new to its domain.
With(f, x, y) == [z \in DOMAIN f \cup {x} |-> IF z = x THEN y ELSE f[z]]

\* f restricted to the points outside S.
Drop(f, S) == [z \in DOMAIN f \ S |-> f[z]]

-----------------------------------------------------------------------------
(* The mission stacks.  The default stack is the sequence order of the     *)
(* bundles that have a mission record there, the top one last; the         *)
(* launcher's stack holds the launcher's mission or nothing.  pages[b] is  *)
(* the page list of b's mission record, the top page last: the record      *)
(* exists iff pages[b] is not empty.                                       *)

StackOf(b) == IF b = Launcher THEN "launcher" ELSE "default"

TopMission(s, stack) ==
    CASE stack = "launcher" -> IF s.pages[Launcher] # <<>> THEN Launcher ELSE None
      [] stack = "default"  -> IF s.order # <<>> THEN Last(s.order) ELSE None
      [] OTHER              -> None

\* AbilityStackManager::GetTopPageAbility
TopPage(s) ==
    LET b == TopMission(s, s.topStack)
    IN  IF b = None THEN 0 ELSE Last(s.pages[b])

BundleOfPage(s, t) == BundleOf[s.rec[t].ability]

MoveToTopOfDefault(s, b) == [s EXCEPT !.order = Append(Without(@, b), b)]

MoveToTop(s, b) ==
    IF b = Launcher THEN s ELSE [s EXCEPT !.order = Append(Without(@, b), b)]

\* The page below t in its mission, else the top page of the mission that
\* started t's, else the launcher's.
PrevPage(s, t) ==
    LET b == BundleOfPage(s, t)
        i == IndexOf(s.pages[b], t)
        p == s.prevMission[b]
    IN  CASE i > 1                         -> s.pages[b][i - 1]
          [] i = 1 /\ p # None             -> Last(s.pages[p])
          [] i = 1 /\ p = None /\ s.pages[Launcher] # <<>> -> Last(s.pages[Launcher])
          [] OTHER                         -> 0

-----------------------------------------------------------------------------
(* The process table.                                                      *)

AppsOf(s, b) == {i \in DOMAIN s.app : s.app[i].bundle = b}

\* AppManager::GetAppRecordByBundleName, 0 for nullptr
AppOf(s, b) == IF AppsOf(s, b) = {} THEN 0 ELSE CHOOSE i \in AppsOf(s, b) : TRUE

\* AppManager::RemoveAppRecord(bundleName)
RemoveApps(s, ids) == [s EXCEPT !.app = Drop(@, ids)]

\* AppManager::RemoveAppRecord(appRecord): the argument is the element of the
\* list that is deleted, and the ones behind it, which were made later, are
\* compared with it all the same.
RemoveAppRecord(s, id) ==
    [RemoveApps(s, {id}) EXCEPT !.reread = @ \/ \E i \in DOMAIN s.app : i > id]

NewApp(b) == [bundle |-> b, attached |-> FALSE, pending |-> 0]

NewProcess(b) ==
    [bundle |-> b, phase |-> "spawned", watched |-> FALSE, inited |-> FALSE,
     inbox |-> <<>>, hosted |-> <<>>]

\* AppManager::StartAppProcess, for a bundle without an app record: the token
\* is drawn before the spawn that may fail.
StartAppProcess(s, b, fails) ==
    LET id == s.lastToken + 1
    IN  IF b \in fails
        THEN [s EXCEPT !.lastToken = id, !.status = "process"]
        ELSE [s EXCEPT !.lastToken = id, !.status = "ok",
                       !.app = With(@, id, NewApp(b)),
                       !.proc = With(@, id, NewProcess(b))]

-----------------------------------------------------------------------------
(* Calls into an application process.  A live process accepts a message;   *)
(* for a dead one the IPC fails and the caller gets an AppTransact status. *)

Alive(s, id) == id \in DOMAIN s.proc /\ s.proc[id].phase # "dead"

Send(s, id, m) ==
    IF s.app[id].attached /\ Alive(s, id)
    THEN [s EXCEPT !.proc[id].inbox = Append(@, m), !.status = "ok"]
    ELSE [s EXCEPT !.status = "transact"]

\* A call through the appRecord_ pointer of page t.
CallApp(s, t, m) ==
    LET id == s.rec[t].app
    IN  CASE id = 0               -> [s EXCEPT !.status = "transact"]
          [] id \in DOMAIN s.app  -> Send(s, id, m)
          [] OTHER                -> [s EXCEPT !.dangling = TRUE, !.status = "transact"]

Transact(s, t, state) ==
    CallApp(s, t, [type |-> "transact", token |-> t,
                   ability |-> s.rec[t].ability, state |-> state])

\* A lifecycle call that the record's own state must permit.
TransactIf(s, t, permitted, state) ==
    IF permitted THEN Transact(s, t, state) ELSE [s EXCEPT !.status = "error"]

ActiveAbility(s, t)       == TransactIf(s, t, s.rec[t].state # "ACTIVE", "ACTIVE")
InactiveAbility(s, t)     == TransactIf(s, t, s.rec[t].state = "ACTIVE", "INACTIVE")
ToBackgroundAbility(s, t) == TransactIf(s, t, s.rec[t].state = "INACTIVE", "BACKGROUND")
StopAbility(s, t)         == TransactIf(s, t, s.rec[t].state = "INACTIVE", "INITIAL")

\* PageAbilityRecord::StartAbility: the first page of a process waits in the
\* app record's pending slot until the process attaches.
StartPage(s, t, fails) ==
    LET b  == BundleOfPage(s, t)
        s1 == IF AppOf(s, b) = 0 THEN StartAppProcess(s, b, fails)
                                 ELSE [s EXCEPT !.status = "ok"]
        id == AppOf(s1, b)
    IN  IF s.rec[t].app # 0
        THEN ActiveAbility(s, t)
        ELSE IF id = 0
             THEN s1
             ELSE [s1 EXCEPT !.rec[t].app = id, !.app[id].pending = t]

\* PageAbilityRecord::ExitApp
ExitApp(s, t) ==
    LET s1 == CallApp(s, t, [type |-> "exit"])
    IN  IF s1.status = "ok"
        THEN [RemoveAppRecord(s1, s.rec[t].app) EXCEPT !.rec[t].app = 0]
        ELSE s1

-----------------------------------------------------------------------------
(* Page records.                                                           *)

NewRecord(s, a) ==
    [ability |-> a, state |-> "UNINITIALIZED", next |-> 0, prev |-> 0,
     app |-> AppOf(s, BundleOf[a])]

\* A new page record of a on top of its mission, which is created if need be.
PushPage(s, a) ==
    LET t == s.lastToken + 1
    IN  [s EXCEPT !.lastToken = t,
                  !.rec = With(@, t, NewRecord(s, a)),
                  !.pages[BundleOf[a]] = Append(@, t)]

DeleteRecordsOnly(s, gone) ==
    [s EXCEPT !.rec = Drop(@, gone),
              !.dangling = @ \/ \E t \in gone : s.rec[t].app \notin DOMAIN s.app \cup {0}]

\* Delete the page records in gone.  The destructor reaches through appRecord_
\* to clear the pending slot.
DeleteRecords(s, gone) ==
    LET cleared(i) == s.app[i].pending \in gone /\ s.rec[s.app[i].pending].app = i
    IN  [s EXCEPT
            !.rec = Drop(@, gone),
            !.app = [i \in DOMAIN s.app |->
                        IF cleared(i) THEN [s.app[i] EXCEPT !.pending = 0] ELSE s.app[i]],
            !.dangling = @ \/ \E t \in gone : s.rec[t].app \notin DOMAIN s.app \cup {0}]

\* The mission b loses its page k and the pages above.
CutMission(s, b, k) ==
    [DeleteRecords(s, ElementsFrom(s.pages[b], k)) EXCEPT !.pages[b] = SubSeq(@, 1, k - 1)]

RemoveMissionKeepPrev(s, b) ==
    [s EXCEPT !.order = Without(@, b), !.prevMission[b] = None]

\* AbilityMissionStack::RemoveMissionRecord: b's record leaves the list, and no
\* other mission returns to it.
RemoveMission(s, b) ==
    [s EXCEPT !.order = Without(@, b),
              !.prevMission = [c \in Bundle |->
                                 IF c = b \/ @[c] = b THEN None ELSE @[c]]]

RemovePageKeepTop(s, t) ==
    LET b    == BundleOfPage(s, t)
        i    == IndexOf(s.pages[b], t)
        s1   == CutMission(s, b, i)
    IN  IF i > 1 THEN s1 ELSE [RemoveMission(s1, b) EXCEPT !.topStack = "launcher"]

\* AbilityStackManager::RemovePageAbility: page t and every page above it.
RemovePage(s, t) ==
    LET b    == BundleOfPage(s, t)
        i    == IndexOf(s.pages[b], t)
        prev == s.prevMission[b]
        s1   == CutMission(s, b, i)
        s2   == RemoveMission(s1, b)
    IN  CASE i > 1                 -> s1
          [] i = 1 /\ prev # None  -> MoveToTop(s2, prev)
          [] OTHER                 -> [s2 EXCEPT !.topStack = "launcher"]

\* AbilityStackManager::ClearAbilityStack, for a bundle with a mission record.
ClearMission(s, b) ==
    LET prev == s.prevMission[b]
        s1   == IF prev # None
                THEN MoveToTop(s, prev)
                ELSE IF TopMission(s, s.topStack) = b
                     THEN [s EXCEPT !.topStack = "launcher"]
                     ELSE s
    IN  RemoveMission(CutMission(s1, b, 1), b)

ClearAbilityStack(s, b) == IF s.pages[b] = <<>> THEN s ELSE ClearMission(s, b)

\* AbilityStackManager::GeneratePageAbility: the target page of a start of a,
\* a record that exists or a new one, its mission on top of its stack, and that
\* stack on top.
GeneratePage(s, a, top) ==
    LET b        == BundleOf[a]
        fromHome == top # 0 /\ BundleOfPage(s, top) = Launcher
        crossing == top = 0 \/ a \in AceAbility \/ fromHome # (b = Launcher)
        reuse    == /\ s.pages[b] # <<>>
                    /\ crossing \/ s.rec[Last(s.pages[b])].ability = a
        above    == TopMission(s, StackOf(b))
        linked   == top # 0 /\ ~fromHome /\ b # Launcher /\ above \notin {None, b}
        s1       == MoveToTop(IF reuse THEN s ELSE PushPage(s, a), b)
    IN  [s1 EXCEPT !.prevMission[b] = IF linked THEN above ELSE @,
                   !.topStack = StackOf(b)]

-----------------------------------------------------------------------------
(* The state the operations keep.                                          *)

\* A function from some tokens to S.
TokenMap(f, S) == DOMAIN f \subseteq Token /\ \A t \in DOMAIN f : f[t] \in S

IsProcess(p) ==
    /\ DOMAIN p = {"bundle", "phase", "watched", "inited", "inbox", "hosted"}
    /\ p.bundle \in Bundle
    /\ p.phase \in {"spawned", "running", "dead"}
    /\ p.watched \in BOOLEAN /\ p.inited \in BOOLEAN
    /\ p.inbox \in Seq(Message)
    /\ TokenMap(p.hosted, AppState)

StateTyped(s) ==
    /\ s.order \in Seq(Bundle \ {Launcher})
    /\ s.pages \in [Bundle -> Seq(Token)]
    /\ s.prevMission \in [Bundle -> Bundle \cup {None}]
    /\ s.topStack \in {"none", "launcher", "default"}
    /\ TokenMap(s.rec, RecordType)
    /\ TokenMap(s.app, AppType)
    /\ s.lastToken \in Nat
    /\ s.dangling \in BOOLEAN /\ s.reread \in BOOLEAN
    /\ DOMAIN s.proc \subseteq Token
    /\ \A p \in DOMAIN s.proc : IsProcess(s.proc[p])

\* No element occurs twice.
Distinct(seq) == \A i, j \in 1..Len(seq) : seq[i] = seq[j] => i = j

\* A bundle's mission is listed once, and exactly when it has pages; the stack on
\* top is not the default one when that is empty.
MissionsListed(s) ==
    /\ Distinct(s.order)
    /\ Elements(s.order) = {b \in Bundle \ {Launcher} : s.pages[b] # <<>>}
    /\ s.topStack = "default" => s.order # <<>>

\* A mission returns only to another one that is listed.
ReturnsListed(s) ==
    \A b \in Bundle : s.prevMission[b] # None =>
       /\ b \in Elements(s.order)
       /\ s.prevMission[b] \in Elements(s.order) \ {b}

\* Every page record is in the list of its own bundle, once.
PagesListed(s) ==
    /\ DOMAIN s.rec = UNION {Elements(s.pages[b]) : b \in Bundle}
    /\ \A b \in Bundle :
          /\ Distinct(s.pages[b])
          /\ \A t \in Elements(s.pages[b]) : BundleOf[s.rec[t].ability] = b

\* A page that waits in a pending slot exists and points back.
PendingListed(s) ==
    \A i \in DOMAIN s.app : s.app[i].pending # 0 =>
       /\ s.app[i].pending \in DOMAIN s.rec
       /\ s.rec[s.app[i].pending].app = i
=============================================================================
