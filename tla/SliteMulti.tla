----------------------------- MODULE SliteMulti -----------------------------
(***************************************************************************)
(* The handlers of AbilityRecordManager in the build that defines          *)
(* _MINI_MULTI_TASKS_: an ability stack of which only the top ability has a *)
(* thread.  A switch sends the old top through BACKGROUND and DESTROY and   *)
(* then creates the thread of the new one, which goes through CREATE and    *)
(* FOREGROUND.                                                             *)
(***************************************************************************)
EXTENDS SliteState

MarkTemporary(s, r) ==
    IF NeedToBeTerminated(r.app) THEN Put(s, [r EXCEPT !.terminated = TRUE]) ELSE s

\* A mission of its own when the want names none.
MissionFor(s, w) == IF w.mission = Unset THEN s.missions ELSE w.mission
NextMission(s, w) ==
    IF w.mission = Unset THEN (s.missions + 1) % MissionLimit ELSE s.missions

\* The bundle is not in the list, so a new record goes on top of it; its task
\* is created at once only when no switch has to be waited for.  A bundle without
\* a path is refused here, when the switch has begun and has a pending token.
MPreCheckStartAbility(s, w, fails) ==
    LET token == IF s.pending # 0 THEN s.pending ELSE GeneratedToken(s.tokens)
        r == AbilityRecord(token, w.app, IsNativeApp(w.app), MissionFor(s, w))
        added == AddRecord([s EXCEPT
                    !.tokens = IF s.pending # 0 THEN @ ELSE NextToken(@),
                    !.missions = NextMission(s, w)], r)
        Kept(u) == IF u.ret = "error" THEN [u EXCEPT !.list = Erase(@, token)] ELSE Ok(u)
    IN  IF w.app \in Pathless /\ ~IsNativeApp(w.app) THEN Error(s)
        ELSE IF s.pending # 0 THEN Ok(added)
        ELSE Kept(CreateAppTask(added, r, fails))

\* Mutant: the new ability does not wait for the old one to go.
MStartNewAtOnce(s, w, fails) ==
    IF s.list = <<>>
    THEN IF w.app # Startup THEN Error(s) ELSE MPreCheckStartAbility(s, w, fails)
    ELSE LET sent == SendMsgToAbilityThread(s, s.list[1], "BACKGROUND")
         IN  MPreCheckStartAbility(sent, w, fails)

MStartNew(s, w, fails) ==
    IF s.list = <<>>
    THEN IF w.app # Startup THEN Error(s) ELSE MPreCheckStartAbility(s, w, fails)
    ELSE IF ~IsNativeApp(w.app) /\ ~CheckResponse(w.app) THEN Error(s)
    ELSE LET marked == MarkTemporary(s, s.list[1])
             sent == SendMsgToAbilityThread(marked, marked.list[1], "BACKGROUND")
         IN  MPreCheckStartAbility(
                [sent EXCEPT !.pending = GeneratedToken(s.tokens), !.tokens = NextToken(@)],
                w, fails)

\* Mutant: starting the top ability again leaves the switch open.
MStartKnownOpen(s, w) ==
    LET r == GetApp(s.list, w.app)
        moved == [s EXCEPT !.list = MoveToTop(@, r.token)]
    IN  IF r = s.list[1] THEN Ok(s)
        ELSE SendMsgToAbilityThread(moved, s.list[1], "BACKGROUND")

MStartKnown(s, w) ==
    LET r == GetApp(s.list, w.app)
        top == s.list[1]
        aimed == IF w.mission = Unset THEN s ELSE Put(s, [r EXCEPT !.mission = w.mission])
        moved == [aimed EXCEPT !.list = MoveToTop(@, r.token)]
        marked == MarkTemporary(moved, top)
    IN  IF r = top THEN Ok(Idle(s))
        ELSE IF ~r.native /\ ~CheckResponse(w.app) THEN Error(Idle(s))
        ELSE SendMsgToAbilityThread(marked, Get(marked.list, top.token), "BACKGROUND")

MStartAbility(s, w, fails) ==
    IF s.scheduling THEN AddAbilityOperation(s, [id |-> "start", want |-> w])
    ELSE IF HasApp(s.list, w.app) THEN MStartKnown(Scheduling(s), w)
    ELSE IF ~QueryAbilitySvcInfo(w.app) THEN Error(Idle(s))
    ELSE MStartNew(Scheduling(s), w, fails)

\* The top ability makes room for the one below it; the launcher stays in the
\* list, now in second place.
MTerminateTop(s) ==
    LET top == s.list[1]
        below == s.list[2]
        popped == Tail(s.list)
        kept == IF IsPermanentAbility(top)
                THEN Add(Add(Tail(popped), top), below)
                ELSE Add(popped, [top EXCEPT !.terminated = TRUE])
    IN  IF Len(s.list) = 1 THEN Error(Idle([s EXCEPT !.list = <<>>]))
        ELSE SendMsgToAbilityThread([s EXCEPT !.list = kept, !.pending = below.token],
                                    Get(kept, top.token), "BACKGROUND")

MTerminateToken(s, t) ==
    IF s.list = <<>> THEN Error(Idle(s))
    ELSE IF Len(s.list) = 1 /\ IsPermanentAbility(s.list[1]) THEN Ok(Idle(s))
    ELSE IF t = s.list[1].token THEN MTerminateTop(s)
    ELSE IF ~Has(s.list, t) \/ IsPermanentAbility(Get(s.list, t)) THEN Error(Idle(s))
    ELSE Ok(Idle(DeleteRecordInfo(s, t)))

\* A start on the service's own account.  The want it makes leaves the mission
\* uninitialised, which does not matter for the record on top.
StartRecord(s, r) == MStartKnown(Scheduling(s), [app |-> r.app, mission |-> Unset])

\* The state an ability thread is left in when its ability is gone: the next
\* top ability, or the one a switch waits for, is created.  If that one fails,
\* the ability on top is started again, which is no more than to end the switch.
MRestart(s, fails) ==
    LET t == IF s.pending # 0 THEN s.pending ELSE s.list[1].token
        Erased(u) ==
            IF s.pending = 0 THEN Idle(u)
            ELSE IF u.list = <<>> THEN u
            ELSE [StartRecord(Idle(u), u.list[1]) EXCEPT !.pending = 0]
        Created(u) == IF u.ret # "error" THEN [u EXCEPT !.pending = 0]
                      ELSE Erased([u EXCEPT !.list = Erase(@, t)])
    IN  IF s.pending # 0 /\ ~Has(s.list, t) THEN s
        ELSE Created(CreateAppTask(s, Get(s.list, t), fails))

MOnDestroyDone(s, t, fails) ==
    LET Left(u, r) == IF r.terminated THEN DeleteRecordInfo(u, t)
                      ELSE Put(DeleteAbilityThread(u, {r}), [r EXCEPT !.thread = FALSE])
        Stopped(u) == Left(u, Get(u.list, t))
        Gone(u) == IF u.pending = 0 /\ u.list = <<>> THEN [u EXCEPT !.dangling = TRUE]
                   ELSE MRestart(u, fails)
    IN  IF ~Has(s.list, t) THEN s
        ELSE Gone(Stopped(SetAbilityStateAndNotify(s, t, "STOP")))

\* Mutant: the ability that left the foreground is brought back.
MOnBackgroundDoneAgain(s, t) ==
    LET told == SetAbilityStateAndNotify(s, t, "BACKGROUND")
    IN  IF ~Has(s.list, t) THEN s
        ELSE SendMsgToAbilityThread(told, Get(told.list, t), "CREATE")

MOnBackgroundDone(s, t) ==
    LET told == SetAbilityStateAndNotify(s, t, "BACKGROUND")
        r == Get(told.list, t)
        saving == [r EXCEPT !.saved = @ \/ ~r.terminated]
    IN  IF ~Has(s.list, t) THEN s
        ELSE SendMsgToAbilityThread(Put(told, saving), saving, "DESTROY")

MOnForegroundDone(s, t) == SetAbilityStateAndNotify(s, t, "FOREGROUND")

\* The top ability is forced to stop without its callbacks.
MForceStopBundle(s, t, fails) ==
    IF s.scheduling THEN AddAbilityOperation(s, [id |-> "terminateApp", token |-> t])
    ELSE IF s.list = <<>> THEN [s EXCEPT !.dangling = TRUE]
    ELSE IF s.list[1].token # t THEN MTerminateToken(Scheduling(s), t)
    ELSE Ok(MOnDestroyDone(
                Scheduling(Put(s, [s.list[1] EXCEPT !.terminated = TRUE])), t, fails))
=============================================================================
