---------------------------- MODULE SliteSingle -----------------------------
(***************************************************************************)
(* The handlers of AbilityRecordManager in the build without               *)
(* _MINI_MULTI_TASKS_: a native launcher, whose callbacks run in the task   *)
(* of the service, and one application with a task of its own.  Either the  *)
(* launcher or the application is in the foreground.                       *)
(***************************************************************************)
EXTENDS SliteState

\* The application that is starting has to wait for another one to go when a
\* token is pending; it is then kept outside the list.
SPreCheckStartAbility(s, w, fails) ==
    LET token == IF s.pending # 0 THEN s.pending ELSE GeneratedToken(s.tokens)
        r == AbilityRecord(token, w.app, IsNativeApp(w.app), 0)
        listed == AddRecord([s EXCEPT !.tokens = NextToken(@)], r)
        Kept(u) ==
            IF u.ret # "error" THEN Ok(u)
            ELSE [DeleteThreads(u, {[r EXCEPT !.thread = token \in DOMAIN u.threads]})
                    EXCEPT !.list = Erase(@, token)]
    IN  IF IsNativeApp(w.app) \/ w.app \in Pathless THEN Error(s)
        ELSE IF HasApp(s.list, w.app)
        THEN IF GetApp(s.list, w.app).state = "BACKGROUND"
             THEN Ok(SchedulerLifecycle(s, LauncherToken, "BACKGROUND"))
             ELSE Ok(s)
        ELSE IF s.pending # 0 THEN Ok([s EXCEPT !.pendingRecord = {r}])
        ELSE Kept(CreateAppTask(listed, r, fails))

\* The launcher is started: the application in the foreground leaves first.
SStartLauncher(s) ==
    LET top == s.list[1]
    IN  IF top.token # LauncherToken /\ top.state # "BACKGROUND"
        THEN Ok(ScheduleLifecycleInner(s, top, "BACKGROUND"))
        ELSE Ok(SchedulerLifecycle(s, LauncherToken, "FOREGROUND"))

\* The termination of the application on top is only put in the queue of
\* operations, for the start that asks for it is itself being scheduled.
SReplaceTop(s) ==
    LET queued == AddAbilityOperation(s, [id |-> "terminate", token |-> s.list[1].token])
    IN  [queued EXCEPT !.pending = GeneratedToken(s.tokens), !.tokens = NextToken(@)]

SStartApp(s, w, fails) ==
    LET top == s.list[1]
        running == top.state # "STOP" /\ top.token # LauncherToken
    IN  IF ~IsNativeApp(w.app) /\ ~CheckResponse(w.app) THEN Error(Idle(s))
        ELSE IF running /\ w.app = top.app /\ top.state = "BACKGROUND"
        THEN Ok(SchedulerLifecycle(s, LauncherToken, "BACKGROUND"))
        ELSE IF running /\ w.app # top.app
        THEN SPreCheckStartAbility(SReplaceTop(s), w, fails)
        ELSE SPreCheckStartAbility(s, w, fails)

SStartAbility(s, w, fails) ==
    IF s.scheduling THEN AddAbilityOperation(s, [id |-> "start", want |-> w])
    ELSE IF ~QueryAbilitySvcInfo(w.app) \/ s.list = <<>> THEN Error(Idle(s))
    ELSE IF w.app = Startup THEN SStartLauncher(Scheduling(s))
    ELSE SStartApp(Scheduling(s), w, fails)

\* Mutant: the launcher is terminated like any ability.
STerminateAny(s, t) ==
    IF s.list = <<>> THEN Error(Idle(s))
    ELSE IF t # s.list[1].token THEN Error(Idle(DeleteRecordInfo(s, t)))
    ELSE LET r == [s.list[1] EXCEPT !.terminated = TRUE]
         IN  ScheduleLifecycleInner(Put(s, r), r, "BACKGROUND")

STerminateToken(s, t) ==
    LET top == s.list[1]
    IN  IF s.list = <<>> THEN Error(Idle(s))
        ELSE IF t = LauncherToken
        THEN IF top.token # t /\ top.state = "BACKGROUND"
             THEN SchedulerLifecycle(Idle(s), LauncherToken, "BACKGROUND")
             ELSE Ok(Idle(s))
        ELSE IF t # top.token THEN Error(Idle(DeleteRecordInfo(s, t)))
        ELSE LET r == [top EXCEPT !.terminated = TRUE]
             IN  ScheduleLifecycleInner(Put(s, r), r, "BACKGROUND")

\* ForceStopBundleInner does nothing; the launcher is brought to the front.
SForceStopBundle(s, t) ==
    IF s.scheduling THEN AddAbilityOperation(s, [id |-> "terminateApp", token |-> t])
    ELSE IF t = LauncherToken THEN Ok(s)
    ELSE IF ~Has(s.list, LauncherToken) THEN Error(Scheduling(s))
    ELSE IF Get(s.list, LauncherToken).state = "FOREGROUND" THEN Ok(Scheduling(s))
    ELSE SchedulerLifecycle(Scheduling(s), LauncherToken, "FOREGROUND")

\* The application that waited for a token is started, or else the launcher
\* comes to the front.
SOnDestroyDone(s, t, fails) ==
    LET Settled(u) ==
            [IF u.ret = "error" THEN SchedulerLifecycle(u, LauncherToken, "FOREGROUND") ELSE u
                EXCEPT !.pending = 0, !.pendingRecord = {}]
        Left(u) ==
            IF s.list = <<>> \/ s.list[1].token # t THEN u
            ELSE IF u.pending = 0 THEN SchedulerLifecycle(u, LauncherToken, "FOREGROUND")
            ELSE IF u.pendingRecord = {} THEN u
            ELSE Settled(CreateAppTask(u, CHOOSE q \in u.pendingRecord : TRUE, fails))
        Stopped(u) == IF t = LauncherToken THEN u ELSE Left(DeleteRecordInfo(u, t))
    IN  Stopped(SetAbilityStateAndNotify(s, t, "STOP"))

\* The launcher is in the foreground: an application that should have left
\* is deleted, one that was terminated is destroyed.
SOnForegroundDone(s, t, fails) ==
    LET Leaves(u, top) ==
            IF top.token = LauncherToken THEN u
            ELSE IF top.state = "FOREGROUND" THEN SOnDestroyDone(u, top.token, fails)
            ELSE IF top.state # "BACKGROUND" THEN DeleteRecordInfo(u, top.token)
            ELSE IF top.terminated THEN ScheduleLifecycleInner(u, top, "UNINITIALIZED")
            ELSE u
        Told(u) == IF u.list = <<>> \/ t # LauncherToken \/ s.launcher # "FOREGROUND" THEN u
                   ELSE Leaves(u, u.list[1])
    IN  Told(SetAbilityStateAndNotify(s, t, "FOREGROUND"))

\* Mutant: the report of the launcher is not recorded.
SOnBackgroundDoneUntold(s, t) ==
    IF s.list = <<>> \/ s.list[1].token = LauncherToken THEN s
    ELSE IF t # LauncherToken
    THEN IF s.list[1].token = t
         THEN SchedulerLifecycle(SetAbilityStateAndNotify(s, t, "BACKGROUND"),
                                 LauncherToken, "FOREGROUND")
         ELSE s
    ELSE ScheduleLifecycleInner(s, s.list[1],
            IF s.list[1].state = "STOP" THEN "INITIAL" ELSE "FOREGROUND")

\* Mutant: the application is created whenever the launcher leaves.
SOnBackgroundDoneCreates(s, t) ==
    LET told == SetAbilityStateAndNotify(s, t, "BACKGROUND")
        top == told.list[1]
    IN  IF told.list = <<>> THEN told
        ELSE IF t # LauncherToken
        THEN IF top.token = t
             THEN SchedulerLifecycle(told, LauncherToken, "FOREGROUND") ELSE told
        ELSE IF top.token = LauncherToken THEN told
        ELSE ScheduleLifecycleInner(told, top, "INITIAL")

SOnBackgroundDone(s, t) ==
    LET told == SetAbilityStateAndNotify(s, t, "BACKGROUND")
        top == told.list[1]
    IN  IF told.list = <<>> THEN told
        ELSE IF t # LauncherToken
        THEN IF top.token = t
             THEN SchedulerLifecycle(told, LauncherToken, "FOREGROUND") ELSE told
        ELSE IF top.token = LauncherToken THEN told
        ELSE ScheduleLifecycleInner(told, top,
                IF top.state = "STOP" THEN "INITIAL" ELSE "FOREGROUND")
=============================================================================
