---------------------------- MODULE ConnectTasks ----------------------------
(***************************************************************************)
(* The service abilities the Ability Manager Service keeps                 *)
(* (AbilityConnectMission, the connection half of PageAbilityRecord,       *)
(* AbilityConnectRecord) and the tasks that connect, disconnect, start and *)
(* stop them.  The process table and the calls into a process are those of *)
(* AmsState; Ability is the set of service abilities here.                 *)
(*                                                                         *)
(* A handler is an operator from a state record s to a state record, as in *)
(* AmsTasks.  rec[t] is the service record with token t.  The list of      *)
(* service records is in the order of their tokens: records are pushed     *)
(* when they are made.  The connections of a service are of different      *)
(* clients, so that their order says nothing: a record has the set of      *)
(* them.  box[c] holds the callbacks on their way to client process c; it  *)
(* has no entry once the process is dead.                                  *)
(***************************************************************************)
EXTENDS AmsState, FiniteSetsExt

ConnectStatus == {"INIT", "WAIT_CONNECT", "CONNECTING", "CONNECTED",
                  "DISCONNECTING", "DISCONNECT", "STOPPING", "STOPPED"}

Fail(s)    == [s EXCEPT !.status = "error"]
Succeed(s) == [s EXCEPT !.status = "ok"]

\* The record of a service that is started (startDone) or made for a connection.
NewService(s, a, waitConnect) ==
    [ability |-> a, state |-> "UNINITIALIZED", app |-> AppOf(s, BundleOf[a]),
     connect |-> IF waitConnect THEN "WAIT_CONNECT" ELSE "INIT",
     startDone |-> ~waitConnect, forceStop |-> FALSE, conns |-> {}]

NewConnection(r) ==
    [client |-> r.client, token |-> r.token, conn |-> r.conn, status |-> "CONNECTING"]

\* AbilityConnectMission::FindServiceRecord, by ability, by token and by
\* connection: the first record that fits, 0 if there is none.
FirstOf(tokens) == IF tokens = {} THEN 0 ELSE Min(tokens)

\* The tokens of a set of records in the order of the list.
InOrder(S) ==
    [i \in 1..Cardinality(S) |-> CHOOSE t \in S : Cardinality({u \in S : u < t}) = i - 1]

FindService(s, a) == FirstOf({t \in DOMAIN s.rec : s.rec[t].ability = a})

Found(s, t) == t \in DOMAIN s.rec

\* A connection is known by the callback object of its client process, one for
\* all its connections, and by the token of the ability that asked for it.
FindConnection(s, c, token) ==
    FirstOf({t \in DOMAIN s.rec :
               \E r \in s.rec[t].conns : r.client = c /\ r.token = token})

\* PageAbilityRecord::GetConnectRecord: by the callback object alone.
GetConnectRecord(s, t, c) == {r \in s.rec[t].conns : r.client = c}

\* PageAbilityRecord::RemoveConnectRecordByPageToken: those of a page.
ConnsOfToken(s, t, token) == {r \in s.rec[t].conns : r.token = token}

\* Service t without the connections in gone.
WithoutConns(s, t, gone) == [s EXCEPT !.rec[t].conns = @ \ gone]

CountServiceInApp(s, b) == Cardinality({t \in DOMAIN s.rec : BundleOf[s.rec[t].ability] = b})

IsPerformStop(s, t) == s.rec[t].connect \in {"STOPPING", "STOPPED"}

SetConnectStatus(s, t, status) == [s EXCEPT !.rec[t].connect = status]

-----------------------------------------------------------------------------
(* Callbacks to the clients.                                               *)

\* SendRequest to the callback object of a connection.
Tell(s, r, type, a) ==
    [s EXCEPT !.box = [c \in DOMAIN @ |->
                         IF c = r.client
                         THEN Append(@[c], [type |-> type, conn |-> r.conn, service |-> a])
                         ELSE @[c]]]

\* The connections of service t that are told of a connection made, or of the
\* service's end.
Due(s, t, type) ==
    {r \in s.rec[t].conns : type = "connected" => r.status = "CONNECTING"}

\* The same for the services in ts, one after the other, sent through the records
\* of their processes: nothing goes out before a process has attached.
TellAll(s, ts, type) ==
    LET reached(t) == s.rec[t].app \in DOMAIN s.app /\ s.app[s.rec[t].app].attached
        due(t, c)  == {r \in Due(s, t, type) : r.client = c}
        of(c)      == InOrder({t \in ts : reached(t) /\ due(t, c) # {}})
        msg(t, c)  == [type |-> type, conn |-> (CHOOSE r \in due(t, c) : TRUE).conn,
                       service |-> s.rec[t].ability]
    IN  [s EXCEPT !.box = [c \in DOMAIN @ |-> @[c] \o [i \in DOMAIN of(c) |-> msg(of(c)[i], c)]],
                  !.dangling = @ \/ \E t \in ts : s.rec[t].app \notin DOMAIN s.app \cup {0}]

-----------------------------------------------------------------------------
(* The operations of a service's record.                                   *)

\* AppRecord::ConnectTransaction, DisconnectTransaction
CallService(s, t, type) == CallApp(s, t, [type |-> type, token |-> t])

Stop(s, t) == Transact(SetConnectStatus(s, t, "STOPPING"), t, "INITIAL")

ConnectAbilityDone(s, t) ==
    IF s.rec[t].app = 0 THEN Fail(s)
    ELSE [TellAll(Succeed(s), {t}, "connected") EXCEPT
             !.rec[t].conns = {[r EXCEPT !.status = "CONNECTED"] : r \in @}]

\* The last connection to go takes the service with it, as DisconnectAbilityDone
\* decides when the service has answered.
DisconnectAbility(s, t, c) ==
    LET s1 == WithoutConns(Succeed(s), t, GetConnectRecord(s, t, c))
    IN  CASE s.rec[t].app = 0 -> Fail(s)
          [] s.rec[t].app # 0
             /\ (s.rec[t].connect \in {"DISCONNECT", "DISCONNECTING"} \/ IsPerformStop(s, t)) -> s1
          [] OTHER ->
               IF s1.rec[t].conns # {} THEN s1
               ELSE CallService(SetConnectStatus(s1, t, "DISCONNECTING"), t, "disconnect")

DisconnectAbilityDone(s, t) ==
    LET rests == IF s.rec[t].startDone THEN "INIT" ELSE "DISCONNECT"
        ends  == \/ s.rec[t].conns = {} /\ ~s.rec[t].startDone
                 \/ s.rec[t].forceStop
    IN  CASE s.rec[t].app = 0          -> Fail(s)
          [] s.rec[t].app # 0 /\ ends  -> Stop(s, t)
          [] OTHER                     -> Succeed(SetConnectStatus(s, t, rests))

ForceStopServiceAbility(s, t) ==
    LET s1 == [s EXCEPT !.rec[t].forceStop = TRUE]
        status == s.rec[t].connect
    IN  CASE s.rec[t].app = 0 -> Fail(s)
          [] s.rec[t].app # 0 /\ (IsPerformStop(s, t) \/ status = "DISCONNECTING") -> Fail(s1)
          [] OTHER ->
               IF status = "DISCONNECT" \/ s.rec[t].conns = {}
               THEN Stop(s1, t)
               ELSE CallService(SetConnectStatus(s1, t, "DISCONNECTING"), t, "disconnect")

\* Mutant: the clients are not told that the service has ended.
StopAbilityDoneUntold(s, t) == SetConnectStatus(Succeed(s), t, "STOPPED")

StopAbilityDone(s, t) ==
    IF s.rec[t].app = 0 THEN Fail(s)
    ELSE TellAll(SetConnectStatus(Succeed(s), t, "STOPPED"), {t}, "disconnected")

-----------------------------------------------------------------------------
(* The tasks.                                                              *)

\* PageAbilityRecord::StartService
StartServiceProcess(s, t, fails) ==
    LET b  == BundleOf[s.rec[t].ability]
        s1 == StartAppProcess(s, b, fails)
        id == AppOf(s1, b)
    IN  CASE s.rec[t].app # 0              -> Transact(s, t, "INACTIVE")
          [] s.rec[t].app = 0 /\ id = 0    -> s1
          [] OTHER -> [s1 EXCEPT !.rec[t].app = id, !.app[id].pending = t]

\* Mutant: a service that is known is started once more.
StartServiceAgain(s, a, waitConnect, fails) ==
    LET t  == s.lastToken + 1
        s1 == [s EXCEPT !.lastToken = t, !.rec = With(@, t, NewService(s, a, waitConnect))]
        s2 == StartServiceProcess(s1, t, fails)
    IN  IF s2.status \in {"process", "transact"} THEN DeleteRecords(s2, {t}) ELSE s2

\* AbilityStartTask::StartService
StartService(s, a, waitConnect, fails) ==
    LET t  == s.lastToken + 1
        s1 == [s EXCEPT !.lastToken = t, !.rec = With(@, t, NewService(s, a, waitConnect))]
        s2 == StartServiceProcess(s1, t, fails)
    IN  CASE FindService(s, a) # 0 -> Fail(s)
          [] FindService(s, a) = 0 /\ s2.status \in {"process", "transact"} -> DeleteRecords(s2, {t})
          [] OTHER -> s2

\* Mutant: every connection is passed on to the service.
PerformConnectTaskEach(s, t, r) ==
    LET s1 == [Succeed(s) EXCEPT !.rec[t].conns = @ \cup {NewConnection(r)}]
    IN  IF s.rec[t].state = "UNINITIALIZED" THEN SetConnectStatus(s1, t, "WAIT_CONNECT")
        ELSE CallService(SetConnectStatus(s1, t, "CONNECTING"), t, "connect")

\* AbilityConnectTask.  r is the request: its client, the token, the connection
\* and the service.
PerformConnectTask(s, t, r) ==
    LET known  == GetConnectRecord(s, t, r.client) # {}
        s1     == IF known THEN Succeed(s)
                  ELSE [Succeed(s) EXCEPT !.rec[t].conns = @ \cup {NewConnection(r)}]
        status == s.rec[t].connect
    IN  CASE status = "INIT" /\ s.rec[t].state = "UNINITIALIZED" ->
               SetConnectStatus(s1, t, "WAIT_CONNECT")
          [] status = "INIT" /\ s.rec[t].state # "UNINITIALIZED" ->
               CallService(SetConnectStatus(s1, t, "CONNECTING"), t, "connect")
          [] status = "CONNECTED" ->
               IF ~known \/ \E q \in GetConnectRecord(s, t, r.client) : q.status = "CONNECTING"
               THEN ConnectAbilityDone(s1, t) ELSE s1
          [] OTHER -> s1

ConnectTask(s, r) ==
    LET t == FindService(s, r.service)
    IN  IF t = 0 THEN Fail(s)
        ELSE IF s.rec[t].connect \in {"DISCONNECTING", "DISCONNECT", "STOPPING", "STOPPED"}
             THEN Fail(s)
             ELSE PerformConnectTask(s, t, r)

\* AbilityWorker::ConnectAbility and the callback of AbilityMgrHandler: the
\* service is started first if need be, and a failure is told to the client.
\* visible is FALSE if the client may not see the service, or nobody knows it.
ConnectAbility(s, r, visible, fails) ==
    LET s1 == IF FindService(s, r.service) = 0
              THEN StartService(s, r.service, TRUE, fails) ELSE Succeed(s)
        s2 == IF s1.status = "ok" THEN ConnectTask(s1, r) ELSE s1
        s3 == IF visible THEN s2 ELSE Fail(s)
    IN  IF s3.status = "ok" THEN s3 ELSE Tell(s3, r, "failed", r.service)

\* AbilityConnectDoneTask: CONNECTED, whatever the status was.
ConnectDoneTask(s, t) ==
    IF Found(s, t) /\ ~IsPerformStop(s, t)
    THEN SetConnectStatus(ConnectAbilityDone(s, t), t, "CONNECTED")
    ELSE Fail(s)

\* AbilityDisconnectTask
DisconnectTask(s, c, token) ==
    LET t == FindConnection(s, c, token)
    IN  IF t = 0 THEN Fail(s) ELSE DisconnectAbility(s, t, c)

\* AbilityDisconnectDoneTask
DisconnectDoneTask(s, t) ==
    IF Found(s, t) /\ ~IsPerformStop(s, t) THEN DisconnectAbilityDone(s, t) ELSE Fail(s)

\* AbilityTerminateServiceTask: a service that has not come up is forgotten.
TerminateServiceTask(s, a, visible) ==
    LET t == FindService(s, a)
    IN  CASE ~visible \/ t = 0 -> Fail(s)
          [] visible /\ t # 0 /\ s.rec[t].state = "UNINITIALIZED" -> Succeed(DeleteRecords(s, {t}))
          [] OTHER -> ForceStopServiceAbility(s, t)

\* Mutant: the connections that wait for the service are left waiting.
InactivateTaskOnly(s, t) ==
    IF Found(s, t) THEN [s EXCEPT !.rec[t].state = "INACTIVE", !.status = "ok"] ELSE Fail(s)

\* AbilityInactivateTask, for a service that has come up.
InactivateTask(s, t) ==
    LET s1 == [s EXCEPT !.rec[t].state = "INACTIVE", !.status = "ok"]
    IN  CASE ~Found(s, t) -> Fail(s)
          [] Found(s, t) /\ s.rec[t].connect = "WAIT_CONNECT" ->
               CallService(SetConnectStatus(s1, t, "CONNECTING"), t, "connect")
          [] OTHER -> s1

\* Mutant: the process exits with the first of its services.
StopTaskAlone(s, t) ==
    LET s1 == StopAbilityDone([s EXCEPT !.rec[t].state = "INITIAL"], t)
    IN  IF Found(s, t) THEN DeleteRecords(ExitApp(s1, t), {t}) ELSE Fail(s)

\* AbilityStopTask, for a service: its process exits with the last service of
\* the bundle.
StopTask(s, t) ==
    LET s1   == [s EXCEPT !.rec[t].state = "INITIAL", !.status = "ok"]
        s2   == StopAbilityDone(s1, t)
        last == CountServiceInApp(s, BundleOf[s.rec[t].ability]) = 1
    IN  CASE ~Found(s, t) -> Fail(s)
          [] Found(s, t) /\ s.rec[t].connect = "STOPPED" -> Fail(s1)
          [] OTHER -> DeleteRecords(IF last THEN ExitApp(s2, t) ELSE s2, {t})

AbilityTransaction(s, t, state) ==
    IF state = "INACTIVE" THEN InactivateTask(s, t) ELSE StopTask(s, t)

\* AbilityAttachTask: the process is watched, initialised, and given the service
\* that waits for it.
AttachTask(s, id) ==
    LET s1 == Send([s EXCEPT !.app[id].attached = TRUE, !.proc[id].watched = TRUE], id, [type |-> "init"])
        t  == s.app[id].pending
    IN  CASE id \notin DOMAIN s.app -> Fail(s)
          [] id \in DOMAIN s.app /\ (s1.status # "ok" \/ t = 0) -> s1
          [] OTHER -> [Transact(s1, t, "INACTIVE") EXCEPT !.app[id].pending = 0]

\* AppRestartTask for a bundle of services: RemoveServiceRecord and
\* RemoveAppRecord.
RestartApp(s, b) ==
    LET mine == {t \in DOMAIN s.rec : BundleOf[s.rec[t].ability] = b}
    IN  RemoveApps(DeleteRecords(TellAll(s, mine, "disconnected"), mine), AppsOf(s, b))

\* Mutant: the service that loses its last connection stays.
LastOfPageStays(s, token) == {}

\* RemoveConnectRecordByPageToken: the services that lose their last connection
\* with the page token and are stopped, if they are known to be INACTIVE.
LastOfPage(s, token) ==
    {t \in DOMAIN s.rec :
        /\ s.rec[t].conns # {} /\ s.rec[t].conns \subseteq ConnsOfToken(s, t, token)
        /\ ~s.rec[t].startDone /\ s.rec[t].state = "INACTIVE"}

\* AppRestartTask for the bundle of a client: RemoveConnectRecordByPageToken for
\* its page, service after service.
ClearPages(s, token) ==
    LET over    == LastOfPage(s, token)
        of(p)   == InOrder({t \in over : s.rec[t].app = p})
        stop(t) == [type |-> "transact", token |-> t,
                    ability |-> s.rec[t].ability, state |-> "INITIAL"]
    IN  [s EXCEPT
            !.rec = [t \in DOMAIN s.rec |->
                       [s.rec[t] EXCEPT !.conns = @ \ ConnsOfToken(s, t, token)]],
            !.proc = [p \in DOMAIN s.proc |->
                        IF p \in DOMAIN s.app /\ s.app[p].attached /\ Alive(s, p)
                        THEN [s.proc[p] EXCEPT
                                !.inbox = @ \o [i \in DOMAIN of(p) |-> stop(of(p)[i])]]
                        ELSE s.proc[p]],
            !.dangling = @ \/ \E t \in over : s.rec[t].app \notin DOMAIN s.app \cup {0}]
=============================================================================
