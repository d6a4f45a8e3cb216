------------------------------ MODULE AmsTasks ------------------------------
(***************************************************************************)
(* The tasks of the Ability Manager Service (services/abilitymgr_lite/src/ *)
(* task) and the handlers of AbilityMgrHandler that run them, for Page     *)
(* abilities.  Each operator maps the service's state to the state the     *)
(* handler leaves.  fails is the set of bundles whose process appspawn     *)
(* would fail to create during the handler.                                *)
(***************************************************************************)
EXTENDS AmsState

CONSTANTS
    MainAbility,    \* the ability a bundle is started with
    KeepAlive       \* the system bundles that are restarted when they die

ASSUME KeepAliveAssumption ==
    /\ MainAbility \in [Bundle -> Ability]
    /\ \A b \in Bundle : BundleOf[MainAbility[b]] = b
    /\ KeepAlive \subseteq Bundle

Fail(s)   == [s EXCEPT !.status = "error"]
Succeed(s) == [s EXCEPT !.status = "ok"]

\* A task about a page: FindPageAbility comes first, and fails without a record.
Found(s, t) == t \in DOMAIN s.rec

-----------------------------------------------------------------------------
(* Starting a page: AbilityStartTask.                                      *)

\* The page on top is ACTIVE, or is taken for it: it goes first, and the
\* target follows when it has become INACTIVE.
StartAfter(s, top, target) ==
    LET s1 == InactiveAbility(s, top)
    IN  IF s1.status = "ok"
        THEN [s1 EXCEPT !.rec[top].next = target, !.rec[target].prev = top]
        ELSE RemovePage(s1, target)

\* Nothing is on top: the target starts at once.
StartFirst(s, target, fails) ==
    LET s1 == StartPage(s, target, fails)
    IN  IF s1.status \in {"process", "transact"} THEN RemovePage(s1, target) ELSE s1

StartTask(s, a, fails) ==
    LET top    == TopPage(s)
        s1     == GeneratePage(s, a, top)
        target == Last(s1.pages[BundleOf[a]])
    IN  CASE target = top                  -> Fail(s1)
          [] target # top /\ top # 0       -> StartAfter(s1, top, target)
          [] OTHER                         -> StartFirst(s1, target, fails)

StartLauncher(s, fails) == StartTask(s, MainAbility[Launcher], fails)

-----------------------------------------------------------------------------
(* The application's answers: AbilityTransaction.                          *)

\* A page became INACTIVE because another was started over it.
StartNext(s, t, fails) ==
    LET next == s.rec[t].next
    IN  IF Found(s, next)
        THEN [StartPage(s, next, fails) EXCEPT !.rec[t].next = 0]
        ELSE [s EXCEPT !.dangling = TRUE]

ReturnFromForget(s, t, fails) ==
    LET prev == PrevPage(s, t)
    IN  IF prev # 0 THEN ActiveAbility(s, prev) ELSE StartLauncher(StopAbility(s, t), fails)

\* A page became INACTIVE because it is being terminated: the page to return
\* to becomes ACTIVE, and t is stopped after that.
ReturnFrom(s, t, fails) ==
    LET prev == PrevPage(s, t)
    IN  IF prev # 0
        THEN [ActiveAbility(s, prev) EXCEPT !.rec[prev].next = t]
        ELSE StartLauncher(StopAbility(s, t), fails)

InactivateTaskUnrecorded(s, t, fails) ==
    IF ~Found(s, t) THEN Fail(s)
    ELSE IF s.rec[t].next # 0 THEN StartNext(s, t, fails)
    ELSE ReturnFrom(s, t, fails)

InactivateTask(s, t, fails) ==
    LET s1 == [s EXCEPT !.rec[t].state = "INACTIVE", !.status = "ok"]
    IN  IF ~Found(s, t) THEN Fail(s)
        ELSE IF s1.rec[t].next # 0 THEN StartNext(s1, t, fails)
        ELSE ReturnFrom(s1, t, fails)

ActivateTaskKeepPrev(s, t) ==
    LET s1   == [s EXCEPT !.rec[t].state = "ACTIVE", !.status = "ok"]
        prev == s.rec[t].prev
    IN  CASE ~Found(s, t)              -> Fail(s)
          [] Found(s, t) /\ prev # 0   ->
                IF Found(s, prev) THEN ToBackgroundAbility(s1, prev)
                                  ELSE [s1 EXCEPT !.dangling = TRUE]
          [] OTHER                     -> s1

\* The page that led here goes to the BACKGROUND, or the page left is stopped.
ActivateTask(s, t) ==
    LET s1   == [s EXCEPT !.rec[t].state = "ACTIVE", !.status = "ok"]
        prev == s.rec[t].prev
        next == s.rec[t].next
    IN  CASE ~Found(s, t) -> Fail(s)
          [] Found(s, t) /\ prev # 0 ->
                IF Found(s, prev)
                THEN [ToBackgroundAbility(s1, prev) EXCEPT !.rec[t].prev = 0]
                ELSE [s1 EXCEPT !.dangling = TRUE]
          [] Found(s, t) /\ prev = 0 /\ next # 0 ->
                IF Found(s, next)
                THEN [StopAbility(s1, next) EXCEPT !.rec[t].next = 0]
                ELSE [s1 EXCEPT !.dangling = TRUE]
          [] OTHER -> s1

BackgroundTaskUnrecorded(s, t) == IF Found(s, t) THEN Succeed(s) ELSE Fail(s)

BackgroundTask(s, t) ==
    IF Found(s, t)
    THEN [s EXCEPT !.rec[t].state = "BACKGROUND", !.status = "ok"]
    ELSE Fail(s)

\* The bottom page of a mission takes its process with it.
StopTask(s, t) ==
    LET s1 == [s EXCEPT !.rec[t].state = "INITIAL", !.status = "ok"]
        s2 == IF Head(s.pages[BundleOfPage(s, t)]) = t THEN ExitApp(s1, t) ELSE s1
    IN  IF Found(s, t) THEN RemovePage(s2, t) ELSE Fail(s)

AbilityTransaction(s, t, state, fails) ==
    CASE state = "BACKGROUND" -> BackgroundTask(s, t)
      [] state = "INACTIVE"   -> InactivateTask(s, t, fails)
      [] state = "ACTIVE"     -> ActivateTask(s, t)
      [] OTHER                -> StopTask(s, t)

-----------------------------------------------------------------------------
(* The other requests.                                                     *)

TerminateTask(s, t) == IF Found(s, t) THEN InactiveAbility(s, t) ELSE Fail(s)

\* A process reports in.  AddDeathRecipient fails or not (watch), and so does
\* the loading of the bundle's permissions (permit).
LaunchPendingForget(s, id) == [Succeed(s) EXCEPT !.app[id].pending = 0]

LaunchPending(s, id) ==
    LET t == s.app[id].pending
    IN  IF t = 0 THEN Fail(s)
        ELSE [ActiveAbility(s, t) EXCEPT !.app[id].pending = 0]

AttachTaskKeepApp(s, id, watch, permit) ==
    LET s1 == [s EXCEPT !.app[id].attached = TRUE]
        s2 == [s1 EXCEPT !.proc = IF id \in DOMAIN @ THEN [@ EXCEPT ![id].watched = TRUE] ELSE @]
        s3 == Send(s2, id, [type |-> "init"])
    IN  CASE id \notin DOMAIN s.app -> Fail(s)
          [] id \in DOMAIN s.app /\ ~watch -> [s1 EXCEPT !.status = "transact"]
          [] id \in DOMAIN s.app /\ watch /\ ~permit ->
                LaunchPending(Send(s2, id, [type |-> "exit"]), id)
          [] OTHER -> IF s3.status = "ok" THEN LaunchPending(s3, id) ELSE s3

AttachTask(s, id, watch, permit) ==
    LET s1 == [s EXCEPT !.app[id].attached = TRUE]
        s2 == [s1 EXCEPT !.proc = IF id \in DOMAIN @ THEN [@ EXCEPT ![id].watched = TRUE] ELSE @]
        s3 == Send(s2, id, [type |-> "init"])
    IN  CASE id \notin DOMAIN s.app -> Fail(s)
          [] id \in DOMAIN s.app /\ ~watch -> [s1 EXCEPT !.status = "transact"]
          [] id \in DOMAIN s.app /\ watch /\ ~permit ->
                Fail(RemoveAppRecord(Send(s2, id, [type |-> "exit"]), id))
          [] OTHER -> IF s3.status = "ok" THEN LaunchPending(s3, id) ELSE s3

\* The page on top, if any, becomes ACTIVE.
ActivateTop(s) == IF TopPage(s) = 0 THEN s ELSE ActiveAbility(s, TopPage(s))

\* A process of b died.
RestartTask(s, b, fails) ==
    LET s1 == RemoveApps(ClearAbilityStack(s, b), AppsOf(s, b))
    IN  IF TopPage(s1) = 0 THEN StartLauncher(s1, fails) ELSE ActivateTop(s1)

RestartApp(s, b, fails) ==
    LET s1 == RestartTask(s, b, fails)
    IN  IF b \in KeepAlive \ {Launcher} THEN StartTask(s1, MainAbility[b], fails) ELSE s1

\* The bundle manager stops the application b.
TerminateApp(s, b) ==
    LET id == AppOf(s, b)
        s1 == IF id = 0 THEN Succeed(s) ELSE Send(s, id, [type |-> "exit"])
    IN  IF s1.status # "ok" THEN s1
        ELSE ActivateTop(RemoveApps(ClearAbilityStack(s1, b), AppsOf(s, b)))
=============================================================================
