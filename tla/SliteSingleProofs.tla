-------------------------- MODULE SliteSingleProofs --------------------------
(***************************************************************************)
(* Theorems about Slite in the build without multi-tasking, with a native   *)
(* launcher: the launcher is always in the list, at most one application is *)
(* above it and has the only task, and between switches the records say     *)
(* what both last did.                                                     *)
(*                                                                         *)
(* The hypothesis SingleTask says which system: no multi-tasking, a native  *)
(* launcher was installed, clients make requests when nothing is on its way *)
(* (a report of the launcher ends whatever switch is under way, so that      *)
(* operations held back could start two applications at once), and the list *)
(* has room for the launcher, the application and the one that replaces it. *)
(* Every other constant is arbitrary: the bundles, the token that comes     *)
(* round, the tasks that cannot be created.                                 *)
(*                                                                         *)
(* The inductive invariant, SingleInv, says where a switch is: the service  *)
(* boots; it is Quieted (the launcher or the application is in front); the  *)
(* application has its Turn (it has been sent one callback, or reports it); *)
(* or the launcher does (AtHome).  Visit and Empty describe the list and    *)
(* the threads in each.  One section per layer of the code proves what its  *)
(* operators do to a visit; the last but one puts the handlers together,    *)
(* each a step from one such place to another (Good).                       *)
(***************************************************************************)
EXTENDS SliteProofs

-----------------------------------------------------------------------------
(* Lists of one or two records.                                            *)

\* A list with one record.
LEMMA One ==
    ASSUME NEW y
    PROVE  LET l == <<y>>
           IN  /\ \A u : Has(l, u) <=> u = y.token
               /\ Get(l, y.token) = y
               /\ \A b : HasApp(l, b) <=> b = y.app
               /\ GetApp(l, y.app) = y
               /\ Of(l) = {y}
               /\ Keep(l, {1}) = l
               /\ Len(l) = 1 /\ DOMAIN l = {1} /\ l[1] = y
<1>. DEFINE l == <<y>>
<1>1. Len(l) = 1 /\ DOMAIN l = {1} /\ l[1] = y
  OBVIOUS
<1>2. Keep(l, {1}) = l
  <2>. DEFINE r == Keep(l, {1})
  <2>1. l \in Seq({y}) /\ {1} \in SUBSET (DOMAIN l)
    BY <1>1
  <2>2. r \in Seq({y}) /\ Len(r) = Cardinality({1})
    <3>. HIDE DEF l
    <3>. QED
      BY <2>1, KeepPart
  <2>3. Cardinality({1}) = 1
    BY FS_Singleton
  <2>. HIDE DEF r
  <2>4. r = <<y>>
    BY <2>2, <2>3
  <2>. QED
    BY <2>4 DEF r
<1>. HIDE DEF l
<1>3. \A u : Has(l, u) <=> u = y.token
  BY <1>1 DEF Has
<1>4. Get(l, y.token) = y
  <2>1. (CHOOSE i \in DOMAIN l : l[i].token = y.token) \in DOMAIN l
    BY <1>1
  <2>. QED
    BY <1>1, <2>1 DEF Get
<1>5. \A b : HasApp(l, b) <=> b = y.app
  BY <1>1 DEF HasApp
<1>6. GetApp(l, y.app) = y
  <2>. DEFINE P(i) == l[i].app = y.app /\ \A j \in 1..(i - 1) : l[j].app # y.app
  <2>1. P(1)
    BY <1>1
  <2>2. (CHOOSE i \in DOMAIN l : P(i)) \in DOMAIN l
    <3>. HIDE DEF P
    <3>. QED
      BY <1>1, <2>1
  <2>. QED
    BY <1>1, <2>2 DEF GetApp
<1>7. Of(l) = {y}
  BY <1>1 DEF Of
<1>. QED
  BY <1>1, <1>2, <1>3, <1>4, <1>5, <1>6, <1>7 DEF l

\* A list with two records.
LEMMA Two ==
    ASSUME NEW x, NEW y, x.token # y.token, x.app # y.app
    PROVE  LET l == <<x, y>>
           IN  /\ \A u : Has(l, u) <=> u \in {x.token, y.token}
               /\ Get(l, x.token) = x /\ Get(l, y.token) = y
               /\ \A b : HasApp(l, b) <=> b \in {x.app, y.app}
               /\ GetApp(l, x.app) = x /\ GetApp(l, y.app) = y
               /\ Of(l) = {x, y}
               /\ Keep(l, {1, 2}) = l /\ Keep(l, {2}) = <<y>>
               /\ Len(l) = 2 /\ DOMAIN l = {1, 2} /\ l[1] = x /\ l[2] = y
<1>. DEFINE l == <<x, y>>
<1>1. Len(l) = 2 /\ DOMAIN l = {1, 2} /\ l[1] = x /\ l[2] = y
  OBVIOUS
<1>2. l \in Seq({x, y})
  OBVIOUS
<1>3. Keep(l, {1, 2}) = l
  <2>. DEFINE r == Keep(l, {1, 2})
  <2>1. {1, 2} \in SUBSET (DOMAIN l)
    BY <1>1
  <2>2. r \in Seq({x, y}) /\ Len(r) = Cardinality({1, 2}) /\ Part(r, l, {1, 2})
    <3>. HIDE DEF l
    <3>. QED
      BY <1>2, <2>1, KeepPart
  <2>3. Cardinality({1, 2}) = 2
    <3>1. IsFiniteSet({1}) /\ Cardinality({1}) = 1
      BY FS_Singleton
    <3>2. 2 \notin {1} /\ {1} \cup {2} = {1, 2}
      OBVIOUS
    <3>3. Cardinality({1} \cup {2}) = Cardinality({1}) + 1
      BY <3>1, <3>2, FS_AddElement
    <3>. QED
      BY <3>1, <3>2, <3>3
  <2>. HIDE DEF r, l
  <2>4. DOMAIN r = {1, 2}
    BY <2>2, <2>3
  <2>5. r[1] = l[1]
    BY <2>2 DEF Part
  <2>6. r[2] = l[2]
    <3>1. PICK i, j \in {1, 2} : i # j /\ r[1] = l[i] /\ r[2] = l[j]
      BY <2>2, <2>4 DEF Part
    <3>. QED
      BY <1>1, <2>5, <3>1
  <2>7. r = <<x, y>>
    BY <1>1, <2>2, <2>3, <2>5, <2>6
  <2>. QED
    BY <2>7 DEF r, l
<1>4. Keep(l, {2}) = <<y>>
  <2>. DEFINE r == Keep(l, {2})
  <2>1. {2} \in SUBSET (DOMAIN l)
    BY <1>1
  <2>2. r \in Seq({x, y}) /\ Len(r) = Cardinality({2}) /\ Part(r, l, {2})
    <3>. HIDE DEF l
    <3>. QED
      BY <1>2, <2>1, KeepPart
  <2>3. Cardinality({2}) = 1
    BY FS_Singleton
  <2>. HIDE DEF r, l
  <2>4. r[1] = l[2]
    BY <2>2 DEF Part
  <2>5. r = <<y>>
    BY <1>1, <2>2, <2>3, <2>4
  <2>. QED
    BY <2>5 DEF r
<1>. HIDE DEF l
<1>5. \A u : Has(l, u) <=> u \in {x.token, y.token}
  BY <1>1 DEF Has
<1>6. Get(l, x.token) = x /\ Get(l, y.token) = y
  <2>1. ASSUME NEW k \in DOMAIN l PROVE Get(l, l[k].token) = l[k]
    <3>. DEFINE c == CHOOSE i \in DOMAIN l : l[i].token = l[k].token
    <3>1. c \in DOMAIN l /\ l[c].token = l[k].token
      OBVIOUS
    <3>. HIDE DEF c
    <3>2. c = k
      BY <1>1, <3>1
    <3>. QED
      BY <3>2 DEF Get, c
  <2>. QED
    BY <1>1, <2>1
<1>7. \A b : HasApp(l, b) <=> b \in {x.app, y.app}
  BY <1>1 DEF HasApp
<1>8. GetApp(l, x.app) = x /\ GetApp(l, y.app) = y
  <2>1. ASSUME NEW k \in DOMAIN l PROVE GetApp(l, l[k].app) = l[k]
    <3>. DEFINE P(i) == l[i].app = l[k].app /\ \A j \in 1..(i - 1) : l[j].app # l[k].app
                c == CHOOSE i \in DOMAIN l : P(i)
    <3>1. P(k)
      <4>1. k = 1 => 1..(k - 1) = {}
        OBVIOUS
      <4>2. k = 2 => 1..(k - 1) = {1}
        OBVIOUS
      <4>. QED
        BY <1>1, <4>1, <4>2
    <3>2. c \in DOMAIN l /\ P(c)
      <4>. HIDE DEF P
      <4>. QED
        BY <3>1
    <3>. HIDE DEF c
    <3>3. c = k
      BY <1>1, <3>2
    <3>. QED
      BY <3>3 DEF GetApp, c
  <2>. QED
    BY <1>1, <2>1
<1>9. Of(l) = {x, y}
  BY <1>1 DEF Of
<1>. QED
  BY <1>1, <1>3, <1>4, <1>5, <1>6, <1>7, <1>8, <1>9 DEF l

-----------------------------------------------------------------------------
(* The launcher, and the application beside it.                            *)

\* The build with one task: a native launcher, and requests between switches.
SingleTask == ~MultiTasks /\ NativeLauncher /\ ~Overlap /\ Capacity > 2

RecordState == {"STOP", "INITED", "FOREGROUND", "BACKGROUND"}

\* The record of the launcher, and the record of an application with a task.
Desk(ls) ==
    [token |-> LauncherToken, app |-> Startup, state |-> ls, terminated |-> FALSE,
     native |-> TRUE, mission |-> 0, thread |-> FALSE, saved |-> FALSE]
Guest(t, a, gs, b) ==
    [token |-> t, app |-> a, state |-> gs, terminated |-> b, native |-> FALSE,
     mission |-> 0, thread |-> TRUE, saved |-> FALSE]

\* What the observer was last told of a bundle, if it was told of this record.
Knows(l, sn) ==
    /\ sn = [x \in App |-> sn[x]]
    /\ \A x \in App : sn[x] \notin {"NONE", "GONE"} =>
          \E q \in Of(l) : q.app = x /\ q.state = sn[x]

Proper(s) ==
    /\ DOMAIN s = Fields
    /\ s.pending \in Token /\ s.tokens \in 0..TokenLimit /\ s.missions \in Mission
    /\ s.scheduling \in BOOLEAN
    /\ s.nativeQ = <<>> /\ s.dangling = FALSE
    /\ Knows(s.list, s.seen)

\* Only the launcher is in the list.
Empty(s, ls) ==
    /\ Proper(s) /\ ls \in RecordState
    /\ s.list = <<Desk(ls)>> /\ DOMAIN s.threads = {}

\* The application a, with token t, is on the launcher in the list.
Both(l, t, a, gs, b, ls) ==
    /\ l = <<Guest(t, a, gs, b), Desk(ls)>>
    /\ t \in 1..TokenLimit /\ a \in App /\ a # Startup /\ b \in BOOLEAN
    /\ gs \in RecordState /\ ls \in RecordState

\* It has the only task, and inbox is on its way to it.
Visit(s, t, a, gs, ls, life, inbox) ==
    /\ Proper(s)
    /\ \E b \in BOOLEAN : Both(s.list, t, a, gs, b, ls)
    /\ s.threads = [u \in {t} |-> [native |-> FALSE, life |-> life, inbox |-> inbox]]

Mail(t, id) == <<[id |-> id, token |-> t, saved |-> FALSE]>>

\* The fields that are no part of a visit.
Loose == {"ret", "launcher", "amsQ", "scheduling", "ops", "pendingRecord", "pending", "tokens",
          "missions", "async", "failed", "lost"}

\* A visit goes on whatever happens to those fields.
LEMMA Beside ==
    ASSUME NEW s, NEW r, Same(s, r, Loose), r.pending \in Token, r.tokens \in 0..TokenLimit,
           r.missions \in Mission, r.scheduling \in BOOLEAN
    PROVE  /\ \A ls : Empty(s, ls) => Empty(r, ls)
           /\ \A t, a, gs, ls, life, inbox :
                 Visit(s, t, a, gs, ls, life, inbox) => Visit(r, t, a, gs, ls, life, inbox)
<1>1. /\ r.list = s.list /\ r.threads = s.threads /\ r.nativeQ = s.nativeQ
      /\ r.dangling = s.dangling /\ r.seen = s.seen /\ DOMAIN r = Fields
  BY DEF Same, Fields, Loose
<1>2. Proper(s) => Proper(r)
  BY <1>1 DEF Proper
<1>. QED
  BY <1>1, <1>2 DEF Empty, Visit

\* The numbers of the launcher and of its application.
LEMMA Numbers ==
    /\ LauncherToken = 0 /\ Startup \in App
    /\ TokenLimit \in Nat \ {0} /\ Capacity \in Nat \ {0} /\ QueueSize \in Nat \ {0}
    /\ Token = 0..TokenLimit /\ 0 \in Mission
    /\ \A t \in 1..TokenLimit : t \in Token /\ t # LauncherToken /\ t # 0
<1>1. TokenLimit \in Nat \ {0} /\ MissionLimit \in Nat \ {0}
  BY SliteAssumption
<1>2. 0 \in Mission
  BY <1>1 DEF Mission
<1>. QED
  BY <1>1, <1>2, SliteAssumption DEF LauncherToken, Token

\* Looking up in the list of a visit.
LEMMA OnDesk ==
    ASSUME NEW s, NEW ls, Empty(s, ls)
    PROVE  /\ \A u : Has(s.list, u) <=> u = LauncherToken
           /\ Get(s.list, LauncherToken) = Desk(ls)
           /\ \A b : HasApp(s.list, b) <=> b = Startup
           /\ GetApp(s.list, Startup) = Desk(ls)
           /\ Of(s.list) = {Desk(ls)}
           /\ Keep(s.list, {1}) = s.list
           /\ s.list # <<>> /\ Len(s.list) = 1 /\ DOMAIN s.list = {1} /\ s.list[1] = Desk(ls)
<1>1. s.list = <<Desk(ls)>>
  BY DEF Empty
<1>2. Desk(ls).token = LauncherToken /\ Desk(ls).app = Startup
  BY DEF Desk
<1>3. <<Desk(ls)>> # <<>>
  OBVIOUS
<1>. QED
  BY <1>1, <1>2, <1>3, One

\* The parts of the two records.
LEMMA GuestParts ==
    \A t, a, gs, b : /\ Guest(t, a, gs, b).token = t /\ Guest(t, a, gs, b).app = a
                     /\ Guest(t, a, gs, b).state = gs /\ Guest(t, a, gs, b).mission = 0
BY DEF Guest

\* The flags of the record of an application.
LEMMA GuestFlags ==
    \A t, a, gs, b : /\ Guest(t, a, gs, b).terminated = b /\ Guest(t, a, gs, b).native = FALSE
                     /\ Guest(t, a, gs, b).thread = TRUE /\ Guest(t, a, gs, b).saved = FALSE
BY DEF Guest

\* The parts of the record of the launcher.
LEMMA DeskParts ==
    \A ls : /\ Desk(ls).token = LauncherToken /\ Desk(ls).app = Startup
            /\ Desk(ls).state = ls /\ Desk(ls).mission = 0
BY DEF Desk

\* The flags of the record of the launcher.
LEMMA DeskFlags == \A ls : Desk(ls).terminated = FALSE /\ Desk(ls).thread = FALSE
BY DEF Desk

\* Looking up in the list with an application on the launcher.
LEMMA OnGuest ==
    ASSUME NEW l, NEW t, NEW a, NEW gs, NEW b, NEW ls, Both(l, t, a, gs, b, ls)
    PROVE  /\ \A u : Has(l, u) <=> u \in {t, LauncherToken}
           /\ Get(l, t) = Guest(t, a, gs, b) /\ Get(l, LauncherToken) = Desk(ls)
           /\ \A c : HasApp(l, c) <=> c \in {a, Startup}
           /\ GetApp(l, a) = Guest(t, a, gs, b) /\ GetApp(l, Startup) = Desk(ls)
           /\ Of(l) = {Guest(t, a, gs, b), Desk(ls)}
           /\ Keep(l, {1, 2}) = l /\ Keep(l, {2}) = <<Desk(ls)>>
           /\ l # <<>> /\ Len(l) = 2 /\ DOMAIN l = {1, 2}
           /\ l[1] = Guest(t, a, gs, b) /\ l[2] = Desk(ls)
           /\ t # LauncherToken /\ t # 0 /\ a # Startup
<1>. DEFINE g == Guest(t, a, gs, b)
            d == Desk(ls)
<1>1. d.token = LauncherToken /\ d.app = Startup /\ g.token = t /\ g.app = a
  BY DEF Desk, Guest
<1>2. t # LauncherToken /\ t # 0 /\ a # Startup /\ l = <<g, d>>
  BY Numbers DEF Both
<1>. HIDE DEF g, d
<1>3. <<g, d>> # <<>>
  OBVIOUS
<1>4. g.token # d.token /\ g.app # d.app
  BY <1>1, <1>2
<1>5. LET m == <<g, d>>
      IN  /\ \A u : Has(m, u) <=> u \in {g.token, d.token}
          /\ Get(m, g.token) = g /\ Get(m, d.token) = d
          /\ \A c : HasApp(m, c) <=> c \in {g.app, d.app}
          /\ GetApp(m, g.app) = g /\ GetApp(m, d.app) = d
          /\ Of(m) = {g, d}
          /\ Keep(m, {1, 2}) = m /\ Keep(m, {2}) = <<d>>
          /\ Len(m) = 2 /\ DOMAIN m = {1, 2} /\ m[1] = g /\ m[2] = d
  BY <1>4, Two
<1>. QED
  BY <1>1, <1>2, <1>3, <1>5 DEF g, d

\* The fields of a record, and the record with the given ones.
RecordFields == {"token", "app", "state", "terminated", "native", "mission", "thread", "saved"}
RecordWith(t, a, gs, b, n, m, k, d) ==
    [token |-> t, app |-> a, state |-> gs, terminated |-> b, native |-> n, mission |-> m,
     thread |-> k, saved |-> d]

\* A record with another state, or marked as terminated.
LEMMA Altered ==
    ASSUME NEW q, DOMAIN q = RecordFields, NEW x
    PROVE  /\ [q EXCEPT !.state = x] =
                RecordWith(q.token, q.app, x, q.terminated, q.native, q.mission, q.thread, q.saved)
           /\ [q EXCEPT !.terminated = x] =
                RecordWith(q.token, q.app, q.state, x, q.native, q.mission, q.thread, q.saved)
BY DEF RecordFields, RecordWith

\* A record of the launcher or of an application with another state, or marked.
LEMMA Restated ==
    /\ \A ls, x : [Desk(ls) EXCEPT !.state = x] = Desk(x)
    /\ \A t, a, gs, b, x : /\ [Guest(t, a, gs, b) EXCEPT !.state = x] = Guest(t, a, x, b)
                           /\ [Guest(t, a, gs, b) EXCEPT !.terminated = x] = Guest(t, a, gs, x)
<1>1. ASSUME NEW ls, NEW st PROVE [Desk(ls) EXCEPT !.state = st] = Desk(st)
  <2>. DEFINE q == Desk(ls)
  <2>1. /\ DOMAIN q = RecordFields
        /\ q.token = LauncherToken /\ q.app = Startup /\ q.terminated = FALSE
        /\ q.native = TRUE /\ q.mission = 0 /\ q.thread = FALSE /\ q.saved = FALSE
    BY DEF Desk, RecordFields
  <2>2. Desk(st) = RecordWith(LauncherToken, Startup, st, FALSE, TRUE, 0, FALSE, FALSE)
    BY DEF Desk, RecordWith
  <2>. HIDE DEF q
  <2>3. [q EXCEPT !.state = st] = RecordWith(q.token, q.app, st, q.terminated, q.native,
                                             q.mission, q.thread, q.saved)
    BY <2>1, Altered, Zenon
  <2>4. Desk(st) = RecordWith(q.token, q.app, st, q.terminated, q.native, q.mission, q.thread,
                              q.saved)
    BY <2>1, <2>2
  <2>5. [q EXCEPT !.state = st] = Desk(st)
    BY <2>3, <2>4, Zenon
  <2>. QED
    BY <2>5 DEF q
<1>2. ASSUME NEW t, NEW a, NEW gs, NEW b, NEW x
      PROVE  /\ [Guest(t, a, gs, b) EXCEPT !.state = x] = Guest(t, a, x, b)
             /\ [Guest(t, a, gs, b) EXCEPT !.terminated = x] = Guest(t, a, gs, x)
  <2>. DEFINE q == Guest(t, a, gs, b)
  <2>1. /\ DOMAIN q = RecordFields
        /\ q.token = t /\ q.app = a /\ q.state = gs /\ q.terminated = b
        /\ q.native = FALSE /\ q.mission = 0 /\ q.thread = TRUE /\ q.saved = FALSE
    BY DEF Guest, RecordFields
  <2>2. /\ Guest(t, a, x, b) = RecordWith(t, a, x, b, FALSE, 0, TRUE, FALSE)
        /\ Guest(t, a, gs, x) = RecordWith(t, a, gs, x, FALSE, 0, TRUE, FALSE)
    BY DEF Guest, RecordWith
  <2>. HIDE DEF q
  <2>3. /\ [q EXCEPT !.state = x] =
                RecordWith(q.token, q.app, x, q.terminated, q.native, q.mission, q.thread, q.saved)
        /\ [q EXCEPT !.terminated = x] =
                RecordWith(q.token, q.app, q.state, x, q.native, q.mission, q.thread, q.saved)
    BY <2>1, Altered, Zenon
  <2>4. /\ Guest(t, a, x, b) =
                RecordWith(q.token, q.app, x, q.terminated, q.native, q.mission, q.thread, q.saved)
        /\ Guest(t, a, gs, x) =
                RecordWith(q.token, q.app, q.state, x, q.native, q.mission, q.thread, q.saved)
    BY <2>1, <2>2
  <2>5. /\ [q EXCEPT !.state = x] = Guest(t, a, x, b)
        /\ [q EXCEPT !.terminated = x] = Guest(t, a, gs, x)
    BY <2>3, <2>4, Zenon
  <2>. QED
    BY <2>5 DEF q
<1>3. \A ls, x : [Desk(ls) EXCEPT !.state = x] = Desk(x)
  BY <1>1
<1>4. \A t, a, gs, b, x : /\ [Guest(t, a, gs, b) EXCEPT !.state = x] = Guest(t, a, x, b)
                         /\ [Guest(t, a, gs, b) EXCEPT !.terminated = x] = Guest(t, a, gs, x)
  BY <1>2
<1>. QED
  BY <1>3, <1>4

\* The same for the two records.
WithState(q, x) == [q EXCEPT !.state = x]
WithTerminated(q, x) == [q EXCEPT !.terminated = x]

\* WithState of the record of the launcher.
LEMMA DeskStates == \A ls, x : WithState(Desk(ls), x) = Desk(x)
BY Restated, Zenon DEF WithState

\* WithState of the record of an application.
LEMMA GuestStates == \A t, a, gs, b, x : WithState(Guest(t, a, gs, b), x) = Guest(t, a, x, b)
BY Restated, Zenon DEF WithState

\* WithTerminated of the record of an application.
LEMMA GuestMarked ==
    \A t, a, gs, b, x : WithTerminated(Guest(t, a, gs, b), x) = Guest(t, a, gs, x)
BY Restated, Zenon DEF WithTerminated

-----------------------------------------------------------------------------
(* What the operators of the service do to a visit.                        *)

\* The records of a list of two, of which the first or the second changes.
LEMMA PutTwo ==
    ASSUME NEW s, NEW x, NEW y, DOMAIN s = Fields, s.list = <<x, y>>,
           x.token # y.token, NEW p
    PROVE  /\ p.token = x.token /\ p.app = x.app =>
                Put(s, p).list = <<p, y>> /\ Same(s, Put(s, p), {"list"})
           /\ p.token = y.token /\ p.app = y.app =>
                Put(s, p).list = <<x, p>> /\ Same(s, Put(s, p), {"list"})
<1>. DEFINE l == s.list
            k == [i \in DOMAIN l |-> IF l[i].token = p.token /\ l[i].app = p.app THEN p ELSE l[i]]
<1>1. Put(s, p) = [s EXCEPT !.list = k]
  BY DEF Put
<1>2. DOMAIN l = 1..2 /\ l[1] = x /\ l[2] = y
  OBVIOUS
<1>3. p.token = x.token /\ p.app = x.app => k = <<p, y>>
  BY <1>2
<1>4. p.token = y.token /\ p.app = y.app => k = <<x, p>>
  BY <1>2
<1>. HIDE DEF k
<1>5. Same(s, Put(s, p), {"list"}) /\ Put(s, p).list = k
  BY <1>1 DEF Same, Fields
<1>. QED
  BY <1>3, <1>4, <1>5

\* The only record of a list changes.
LEMMA PutOne ==
    ASSUME NEW s, NEW y, DOMAIN s = Fields, s.list = <<y>>, NEW p,
           p.token = y.token, p.app = y.app
    PROVE  Put(s, p).list = <<p>> /\ Same(s, Put(s, p), {"list"})
<1>. DEFINE l == s.list
            k == [i \in DOMAIN l |-> IF l[i].token = p.token /\ l[i].app = p.app THEN p ELSE l[i]]
<1>1. Put(s, p) = [s EXCEPT !.list = k]
  BY DEF Put
<1>2. DOMAIN l = 1..1 /\ l[1] = y
  OBVIOUS
<1>3. k = <<p>>
  BY <1>2
<1>. HIDE DEF k
<1>. QED
  BY <1>1, <1>3 DEF Same, Fields

\* A state is recorded and told to the observer.
LEMMA TellFacts ==
    ASSUME NEW s, NEW q, DOMAIN s = Fields, Has(s.list, q.token), Get(s.list, q.token) = q,
           NEW st, q.app \in App, s.seen = [x \in App |-> s.seen[x]]
    PROVE  LET p == WithState(q, st)
               r == SetAbilityStateAndNotify(s, q.token, st)
           IN  /\ r.list = Put(s, p).list
               /\ Same(s, Put(s, p), {"list"}) => Same(s, r, {"list", "seen"})
               /\ r.seen = [x \in App |-> IF x = q.app THEN st ELSE s.seen[x]]
<1>. DEFINE p == WithState(q, st)
            u == Put(s, p)
            r == SetAbilityStateAndNotify(s, q.token, st)
<1>1. r = [u EXCEPT !.seen[q.app] = st]
  BY DEF SetAbilityStateAndNotify, WithState
<1>2. u.seen = s.seen /\ DOMAIN u = Fields
  BY DEF Put, Fields
<1>. HIDE DEF u, r
<1>3. r = [u EXCEPT !.seen = [u.seen EXCEPT ![q.app] = st]]
  BY <1>1, <1>2 DEF Fields
<1>4. [u.seen EXCEPT ![q.app] = st] = [x \in App |-> IF x = q.app THEN st ELSE s.seen[x]]
  BY <1>2
<1>5. r.seen = [x \in App |-> IF x = q.app THEN st ELSE s.seen[x]]
  BY <1>2, <1>3, <1>4 DEF Fields
<1>6. r.list = u.list
  BY <1>1, <1>2 DEF Fields
<1>7. Same(s, u, {"list"}) => Same(s, r, {"list", "seen"})
  <2>1. \A f \in Fields \ {"seen"} : r[f] = u[f]
    BY <1>1, <1>2
  <2>2. DOMAIN r = Fields
    BY <1>1, <1>2
  <2>. QED
    BY <2>1, <2>2 DEF Same
<1>. QED
  BY <1>5, <1>6, <1>7 DEF r, u

\* SetAbilityStateAndNotify of the launcher, alone in the list.
LEMMA TellEmpty ==
    ASSUME NEW s, NEW ls, Empty(s, ls), NEW st \in RecordState
    PROVE  LET r == SetAbilityStateAndNotify(s, LauncherToken, st)
           IN  Same(s, r, {"list", "seen"}) /\ Empty(r, st)
<1>. DEFINE r == SetAbilityStateAndNotify(s, LauncherToken, st)
            q == Desk(ls)
            p == WithState(q, st)
<1>1. /\ q.token = LauncherToken /\ q.app = Startup
      /\ p = Desk(st) /\ p.token = q.token /\ p.app = q.app /\ p.state = st
  <2>1. p = Desk(st)
    BY DeskStates
  <2>. HIDE DEF p
  <2>. QED
    BY <2>1, DeskParts
<1>. HIDE DEF p
<1>2. /\ Has(s.list, q.token) /\ Get(s.list, q.token) = q
      /\ Of(s.list) = {q} /\ s.list = <<q>> /\ DOMAIN s = Fields
      /\ s.seen = [x \in App |-> s.seen[x]]
  <2>1. /\ \A u : Has(s.list, u) <=> u = LauncherToken
        /\ Get(s.list, LauncherToken) = q /\ Of(s.list) = {q}
    BY OnDesk
  <2>2. s.list = <<q>> /\ DOMAIN s = Fields /\ s.seen = [x \in App |-> s.seen[x]]
    BY DEF Empty, Proper, Knows
  <2>. HIDE DEF q
  <2>. QED
    BY <1>1, <2>1, <2>2
<1>. HIDE DEF q
<1>3. Put(s, p).list = <<p>> /\ Same(s, Put(s, p), {"list"})
  BY <1>1, <1>2, PutOne
<1>4. /\ r.list = Put(s, p).list
      /\ Same(s, Put(s, p), {"list"}) => Same(s, r, {"list", "seen"})
      /\ r.seen = [x \in App |-> IF x = q.app THEN st ELSE s.seen[x]]
  <2>1. q.app \in App
    BY <1>1, Numbers
  <2>2. LET e == WithState(q, st)
            v == SetAbilityStateAndNotify(s, q.token, st)
        IN  /\ v.list = Put(s, e).list
            /\ Same(s, Put(s, e), {"list"}) => Same(s, v, {"list", "seen"})
            /\ v.seen = [x \in App |-> IF x = q.app THEN st ELSE s.seen[x]]
    BY <1>2, <2>1, TellFacts
  <2>. QED
    BY <1>1, <2>2 DEF p
<1>. HIDE DEF r
<1>5. /\ r.list = <<p>> /\ Same(s, r, {"list", "seen"})
      /\ r.seen = [x \in App |-> IF x = Startup THEN st ELSE s.seen[x]]
  BY <1>1, <1>3, <1>4
<1>6. Of(r.list) = {p}
  BY <1>5, One
<1>7. \A x \in App : r.seen[x] = IF x = Startup THEN st ELSE s.seen[x]
  BY <1>5
<1>8. Knows(r.list, r.seen)
  <2>1. r.seen = [x \in App |-> r.seen[x]]
    BY <1>5
  <2>2. ASSUME NEW x \in App, r.seen[x] \notin {"NONE", "GONE"}
        PROVE  \E e \in Of(r.list) : e.app = x /\ e.state = r.seen[x]
    <3>1. CASE x = Startup
      BY <1>1, <1>6, <1>7, <3>1
    <3>2. CASE x # Startup
      <4>1. \E e \in Of(s.list) : e.app = x
        BY <1>7, <2>2, <3>2 DEF Empty, Proper, Knows
      <4>. QED
        BY <1>1, <1>2, <3>2, <4>1
    <3>. QED
      BY <3>1, <3>2
  <2>. QED
    BY <2>1, <2>2 DEF Knows
<1>9. Proper(r) /\ r.threads = s.threads
  <2>1. /\ DOMAIN r = Fields /\ r.pending = s.pending /\ r.tokens = s.tokens
        /\ r.missions = s.missions /\ r.scheduling = s.scheduling /\ r.nativeQ = s.nativeQ
        /\ r.dangling = s.dangling /\ r.threads = s.threads
    BY <1>5 DEF Same, Fields
  <2>. QED
    BY <1>8, <2>1 DEF Empty, Proper
<1>10. Empty(r, st)
  BY <1>1, <1>5, <1>9 DEF Empty
<1>. QED
  BY <1>5, <1>10 DEF r

\* Either record of a visit changes its state.
LEMMA TellVisit ==
    ASSUME NEW s, NEW t, NEW a, NEW gs, NEW ls, NEW life, NEW inbox,
           Visit(s, t, a, gs, ls, life, inbox), NEW st \in RecordState
    PROVE  /\ LET r == SetAbilityStateAndNotify(s, t, st)
              IN  Same(s, r, {"list", "seen"}) /\ Visit(r, t, a, st, ls, life, inbox)
           /\ LET r == SetAbilityStateAndNotify(s, LauncherToken, st)
              IN  Same(s, r, {"list", "seen"}) /\ Visit(r, t, a, gs, st, life, inbox)
<1>0. PICK b \in BOOLEAN : Both(s.list, t, a, gs, b, ls)
  BY DEF Visit
<1>. DEFINE g == Guest(t, a, gs, b)
            d == Desk(ls)
<1>1. /\ \A u : Has(s.list, u) <=> u \in {t, LauncherToken}
      /\ Get(s.list, t) = g /\ Get(s.list, LauncherToken) = d
      /\ Of(s.list) = {g, d} /\ t # LauncherToken /\ a # Startup
  BY <1>0, OnGuest
<1>2. /\ g.token = t /\ g.app = a /\ d.token = LauncherToken /\ d.app = Startup
      /\ g.state = gs /\ d.state = ls
  BY GuestParts, DeskParts
<1>3. WithState(g, st) = Guest(t, a, st, b) /\ WithState(d, st) = Desk(st)
  BY GuestStates, DeskStates
<1>4. /\ s.list = <<g, d>> /\ a \in App /\ Startup \in App
      /\ gs \in RecordState /\ ls \in RecordState /\ t \in 1..TokenLimit
  BY <1>0, Numbers DEF Both
<1>5. /\ Guest(t, a, st, b).token = t /\ Guest(t, a, st, b).app = a
      /\ Guest(t, a, st, b).state = st
      /\ Desk(st).token = LauncherToken /\ Desk(st).app = Startup /\ Desk(st).state = st
  BY GuestParts, DeskParts
<1>6. /\ DOMAIN s = Fields /\ s.seen = [x \in App |-> s.seen[x]]
      /\ s.threads = [u \in {t} |-> [native |-> FALSE, life |-> life, inbox |-> inbox]]
  BY DEF Visit, Proper, Knows
<1>. HIDE DEF g, d
<1>7. ASSUME NEW q \in {g, d}, NEW p, p = WithState(q, st), NEW x, NEW y,
             Put(s, p).list = <<x, y>> /\ Same(s, Put(s, p), {"list"}),
             p.token = q.token, p.app = q.app, p.state = st, x.token # y.token, x.app # y.app,
             p \in {x, y}, q # g => x = g, q # d => y = d,
             NEW r, r = SetAbilityStateAndNotify(s, q.token, st)
      PROVE  /\ Same(s, r, {"list", "seen"}) /\ r.list = <<x, y>> /\ Proper(r)
  <2>1. /\ r.list = Put(s, p).list
        /\ Same(s, Put(s, p), {"list"}) => Same(s, r, {"list", "seen"})
        /\ r.seen = [z \in App |-> IF z = q.app THEN st ELSE s.seen[z]]
    <3>1. LET e == WithState(q, st)
              v == SetAbilityStateAndNotify(s, q.token, st)
          IN  /\ v.list = Put(s, e).list
              /\ Same(s, Put(s, e), {"list"}) => Same(s, v, {"list", "seen"})
              /\ v.seen = [z \in App |-> IF z = q.app THEN st ELSE s.seen[z]]
      <4>1. q.app \in App /\ Has(s.list, q.token) /\ Get(s.list, q.token) = q
        BY <1>1, <1>2, <1>4
      <4>. QED
        BY <1>6, <4>1, TellFacts
    <3>. QED
      BY <1>7, <3>1
  <2>2. r.list = <<x, y>> /\ Same(s, r, {"list", "seen"})
    BY <1>7, <2>1
  <2>3. Of(r.list) = {x, y}
    BY <1>7, <2>2, Two
  <2>4. \A z \in App : r.seen[z] = IF z = q.app THEN st ELSE s.seen[z]
    BY <2>1
  <2>5. Knows(r.list, r.seen)
    <3>1. r.seen = [z \in App |-> r.seen[z]]
      BY <2>1
    <3>2. ASSUME NEW z \in App, r.seen[z] \notin {"NONE", "GONE"}
          PROVE  \E e \in Of(r.list) : e.app = z /\ e.state = r.seen[z]
      <4>1. CASE z = q.app
        BY <1>7, <2>3, <2>4, <4>1
      <4>2. CASE z # q.app
        <5>1. PICK e \in Of(s.list) : e.app = z /\ e.state = s.seen[z]
          BY <2>4, <3>2, <4>2 DEF Visit, Proper, Knows
        <5>2. e # q /\ e \in {g, d}
          BY <1>1, <4>2, <5>1
        <5>3. e \in {x, y}
          BY <1>7, <5>2
        <5>. QED
          BY <2>3, <2>4, <4>2, <5>1, <5>3
      <4>. QED
        BY <4>1, <4>2
    <3>. QED
      BY <3>1, <3>2 DEF Knows
  <2>6. Proper(r)
    <3>1. /\ DOMAIN r = Fields /\ r.pending = s.pending /\ r.tokens = s.tokens
          /\ r.missions = s.missions /\ r.scheduling = s.scheduling /\ r.nativeQ = s.nativeQ
          /\ r.dangling = s.dangling
      BY <2>2 DEF Same, Fields
    <3>. QED
      BY <2>5, <3>1 DEF Visit, Proper
  <2>. QED
    BY <2>2, <2>6
<1>8. ASSUME NEW r, r = SetAbilityStateAndNotify(s, t, st)
      PROVE  Same(s, r, {"list", "seen"}) /\ Visit(r, t, a, st, ls, life, inbox)
  <2>. DEFINE p == Guest(t, a, st, b)
  <2>1. Put(s, p).list = <<p, d>> /\ Same(s, Put(s, p), {"list"})
    <3>1. p.token = g.token /\ p.app = g.app /\ g.token # d.token
      BY <1>1, <1>2, <1>5
    <3>. HIDE DEF p
    <3>. QED
      BY <1>4, <1>6, <3>1, PutTwo
  <2>2. p = WithState(g, st) /\ p.token = t /\ p.app = a /\ p.state = st
    BY <1>3, <1>5
  <2>. HIDE DEF p
  <2>3. Same(s, r, {"list", "seen"}) /\ r.list = <<p, d>> /\ Proper(r)
    <3>1. /\ r = SetAbilityStateAndNotify(s, g.token, st)
          /\ p = WithState(g, st) /\ p.token = g.token /\ p.app = g.app
          /\ p.token # d.token /\ p.app # d.app /\ g # d
      BY <1>1, <1>2, <1>8, <2>2
    <3>. QED
      BY <1>7, <2>1, <2>2, <3>1
  <2>4. r.threads = s.threads
    BY <2>3 DEF Same, Fields
  <2>5. Both(r.list, t, a, st, b, ls)
    BY <1>1, <1>4, <2>3 DEF Both, p, d
  <2>. QED
    BY <1>6, <2>3, <2>4, <2>5 DEF Visit
<1>9. ASSUME NEW r, r = SetAbilityStateAndNotify(s, LauncherToken, st)
      PROVE  Same(s, r, {"list", "seen"}) /\ Visit(r, t, a, gs, st, life, inbox)
  <2>. DEFINE p == Desk(st)
  <2>1. Put(s, p).list = <<g, p>> /\ Same(s, Put(s, p), {"list"})
    <3>1. p.token = d.token /\ p.app = d.app /\ g.token # d.token
      BY <1>1, <1>2, <1>5
    <3>. HIDE DEF p
    <3>. QED
      BY <1>4, <1>6, <3>1, PutTwo
  <2>2. p = WithState(d, st) /\ p.token = LauncherToken /\ p.app = Startup /\ p.state = st
    BY <1>3, <1>5
  <2>. HIDE DEF p
  <2>3. Same(s, r, {"list", "seen"}) /\ r.list = <<g, p>> /\ Proper(r)
    <3>1. /\ r = SetAbilityStateAndNotify(s, d.token, st)
          /\ p = WithState(d, st) /\ p.token = d.token /\ p.app = d.app
          /\ p.token # g.token /\ p.app # g.app /\ g # d
      BY <1>1, <1>2, <1>9, <2>2
    <3>. QED
      BY <1>7, <2>1, <2>2, <3>1
  <2>4. r.threads = s.threads
    BY <2>3 DEF Same, Fields
  <2>5. Both(r.list, t, a, gs, b, st)
    BY <1>1, <1>4, <2>3 DEF Both, p, g
  <2>. QED
    BY <1>6, <2>3, <2>4, <2>5 DEF Visit
<1>. QED
  BY <1>8, <1>9

\* The launcher reports at once: its callbacks run in the task of the service.
LEMMA CallHome ==
    ASSUME SingleTask, NEW s, DOMAIN s = Fields, s.amsQ = <<>>, NEW ls,
           NEW st \in {"FOREGROUND", "BACKGROUND"}
    PROVE  LET r == ScheduleLifecycleInner(s, Desk(ls), st)
           IN  /\ Same(s, r, {"launcher", "amsQ", "ret"})
               /\ r.launcher = st /\ r.amsQ = <<Report(LauncherToken, st)>> /\ r.ret = "ok"
<1>. DEFINE done == [id |-> "done", token |-> LauncherToken, state |-> st]
            u == [s EXCEPT !.launcher = st, !.amsQ = Append(@, done)]
            r == ScheduleLifecycleInner(s, Desk(ls), st)
<1>1. Len(s.amsQ) < QueueSize
  BY Numbers
<1>2. SchedulerAbilityLifecycle(s, st) = u
  BY <1>1 DEF SchedulerAbilityLifecycle
<1>3. r = [u EXCEPT !.ret = "ok"]
  <2>1. Desk(ls).token = LauncherToken
    BY DeskParts
  <2>. HIDE DEF u
  <2>. QED
    BY <1>2, <2>1 DEF ScheduleLifecycleInner, Ok, SingleTask
<1>4. Append(s.amsQ, done) = <<Report(LauncherToken, st)>>
  BY DEF Report
<1>. HIDE DEF r, done
<1>. QED
  BY <1>3, <1>4 DEF Same, Fields, r

\* SchedulerLifecycle finds the record of the launcher or of the application.
LEMMA CallFinds ==
    ASSUME SingleTask, NEW s, NEW st
    PROVE  /\ \A ls : Empty(s, ls) =>
                SchedulerLifecycle(s, LauncherToken, st) = ScheduleLifecycleInner(s, Desk(ls), st)
           /\ \A t, a, gs, b, ls : Both(s.list, t, a, gs, b, ls) =>
                /\ SchedulerLifecycle(s, LauncherToken, st) =
                       ScheduleLifecycleInner(s, Desk(ls), st)
                /\ SchedulerLifecycle(s, t, st) = ScheduleLifecycleInner(s, s.list[1], st)
<1>1. ASSUME NEW ls, Empty(s, ls)
      PROVE  SchedulerLifecycle(s, LauncherToken, st) = ScheduleLifecycleInner(s, Desk(ls), st)
  BY <1>1, OnDesk DEF SchedulerLifecycle, SingleTask
<1>2. ASSUME NEW t, NEW a, NEW gs, NEW b, NEW ls, Both(s.list, t, a, gs, b, ls)
      PROVE  /\ SchedulerLifecycle(s, LauncherToken, st) = ScheduleLifecycleInner(s, Desk(ls), st)
             /\ SchedulerLifecycle(s, t, st) = ScheduleLifecycleInner(s, s.list[1], st)
  BY <1>2, OnGuest DEF SchedulerLifecycle, SingleTask
<1>. QED
  BY <1>1, <1>2

\* The launcher is called while it is alone, or while the application is there.
LEMMA CallLauncher ==
    ASSUME SingleTask, NEW s, s.amsQ = <<>>, NEW st \in {"FOREGROUND", "BACKGROUND"}
    PROVE  LET r == SchedulerLifecycle(s, LauncherToken, st)
           IN  /\ \A ls : Empty(s, ls) =>
                     /\ Same(s, r, {"launcher", "amsQ", "ret"}) /\ Empty(r, ls)
                     /\ r.launcher = st /\ r.amsQ = <<Report(LauncherToken, st)>>
                     /\ r.ret = "ok"
               /\ \A t, a, gs, ls, life, inbox : Visit(s, t, a, gs, ls, life, inbox) =>
                     /\ Same(s, r, {"launcher", "amsQ", "ret"})
                     /\ Visit(r, t, a, gs, ls, life, inbox)
                     /\ r.launcher = st /\ r.amsQ = <<Report(LauncherToken, st)>>
                     /\ r.ret = "ok"
<1>. DEFINE r == SchedulerLifecycle(s, LauncherToken, st)
            Called1(ls) == ScheduleLifecycleInner(s, Desk(ls), st)
<1>. HIDE DEF r
<1>1. ASSUME NEW ls, DOMAIN s = Fields, r = Called1(ls)
      PROVE  /\ Same(s, r, {"launcher", "amsQ", "ret"})
             /\ r.launcher = st /\ r.amsQ = <<Report(LauncherToken, st)>> /\ r.ret = "ok"
  BY <1>1, CallHome
<1>2. ASSUME Same(s, r, {"launcher", "amsQ", "ret"}), Proper(s)
      PROVE  /\ \A ls : Empty(s, ls) => Empty(r, ls)
             /\ \A t, a, gs, ls, life, inbox :
                   Visit(s, t, a, gs, ls, life, inbox) => Visit(r, t, a, gs, ls, life, inbox)
  <2>1. Same(s, r, Loose)
    BY <1>2 DEF Same, Loose
  <2>2. /\ r.pending = s.pending /\ r.tokens = s.tokens /\ r.missions = s.missions
        /\ r.scheduling = s.scheduling
    BY <1>2 DEF Same, Fields
  <2>. QED
    BY <1>2, <2>1, <2>2, Beside DEF Proper
<1>3. ASSUME NEW ls, Empty(s, ls)
      PROVE  /\ Same(s, r, {"launcher", "amsQ", "ret"}) /\ Empty(r, ls)
             /\ r.launcher = st /\ r.amsQ = <<Report(LauncherToken, st)>> /\ r.ret = "ok"
  <2>1. r = Called1(ls)
    BY <1>3, CallFinds DEF r
  <2>2. Proper(s) /\ DOMAIN s = Fields
    BY <1>3 DEF Empty, Proper
  <2>. QED
    BY <1>1, <1>2, <1>3, <2>1, <2>2
<1>4. ASSUME NEW t, NEW a, NEW gs, NEW ls, NEW life, NEW inbox,
             Visit(s, t, a, gs, ls, life, inbox)
      PROVE  /\ Same(s, r, {"launcher", "amsQ", "ret"}) /\ Visit(r, t, a, gs, ls, life, inbox)
             /\ r.launcher = st /\ r.amsQ = <<Report(LauncherToken, st)>> /\ r.ret = "ok"
  <2>1. r = Called1(ls)
    BY <1>4, CallFinds DEF r, Visit
  <2>2. Proper(s) /\ DOMAIN s = Fields
    BY <1>4 DEF Visit, Proper
  <2>. QED
    BY <1>1, <1>2, <1>4, <2>1, <2>2
<1>. QED
  BY <1>3, <1>4 DEF r

\* A thread with another queue.
LEMMA Refilled ==
    ASSUME NEW e, DOMAIN e = {"native", "life", "inbox"}, NEW x
    PROVE  [e EXCEPT !.inbox = x] = [native |-> e.native, life |-> e.life, inbox |-> x]
OBVIOUS

\* A message goes into the queue of the application.
LEMMA CallGuest ==
    ASSUME NEW s, NEW t, NEW a, NEW gs, NEW ls, NEW life,
           Visit(s, t, a, gs, ls, life, <<>>), NEW b, Both(s.list, t, a, gs, b, ls),
           NEW c, NEW st \in {"INITIAL", "FOREGROUND", "BACKGROUND", "UNINITIALIZED"}
    PROVE  LET r == ScheduleLifecycleInner(s, Guest(t, a, gs, c), st)
           IN  /\ Same(s, r, {"threads", "ret"}) /\ r.ret = "ok"
               /\ Visit(r, t, a, gs, ls, life, Mail(t, MsgOf(st)))
<1>. DEFINE q == Guest(t, a, gs, c)
            m == [id |-> MsgOf(st), token |-> q.token,
                  saved |-> MsgOf(st) \in {"CREATE", "DESTROY"} /\ q.saved /\ ~q.terminated]
            r == ScheduleLifecycleInner(s, q, st)
            th == [s.threads EXCEPT ![t].inbox = Append(@, m)]
<1>1. t # LauncherToken
  BY OnGuest
<1>2. q.token = t /\ q.native = FALSE /\ q.thread = TRUE /\ q.saved = FALSE
  <2>1. q.token = t
    BY GuestParts
  <2>2. q.native = FALSE /\ q.thread = TRUE /\ q.saved = FALSE
    BY GuestFlags
  <2>. QED
    BY <2>1, <2>2
<1>. HIDE DEF q
<1>3. m = [id |-> MsgOf(st), token |-> t, saved |-> FALSE]
  BY <1>2
<1>4. /\ s.threads = [u \in {t} |-> [native |-> FALSE, life |-> life, inbox |-> <<>>]]
      /\ DOMAIN s = Fields
  BY DEF Visit, Proper
<1>5. r = [[s EXCEPT !.threads = th] EXCEPT !.ret = "ok"]
  <2>. DEFINE v == [s EXCEPT !.threads = th]
              w == [v EXCEPT !.ret = "ok"]
  <2>1. SendScheduleMsgToAbilityThread(s, q, m) = w
    BY <1>2, <1>4 DEF SendScheduleMsgToAbilityThread, Ok, Fields
  <2>2. SendMsgToAbilityThread(s, q, MsgOf(st)) = SendScheduleMsgToAbilityThread(s, q, m)
    BY <1>2 DEF SendMsgToAbilityThread
  <2>3. r = Ok(SendMsgToAbilityThread(s, q, MsgOf(st)))
    BY <1>1, <1>2 DEF ScheduleLifecycleInner
  <2>4. Ok(w) = w
    <3>. HIDE DEF v
    <3>1. DOMAIN w = Fields /\ w.ret = "ok"
      BY <1>4 DEF v, Fields
    <3>2. w = [f \in Fields |-> w[f]]
      BY <3>1
    <3>. HIDE DEF w
    <3>. QED
      BY <3>1, <3>2 DEF Ok
  <2>. HIDE DEF r
  <2>. QED
    BY <2>1, <2>2, <2>3, <2>4
<1>. HIDE DEF m
<1>6. th = [u \in {t} |-> [native |-> FALSE, life |-> life, inbox |-> Mail(t, MsgOf(st))]]
  <2>. DEFINE e == [native |-> FALSE, life |-> life, inbox |-> <<>>]
              f == [e EXCEPT !.inbox = Append(@, m)]
  <2>0. Append(<<>>, m) = Mail(t, MsgOf(st))
    BY <1>3 DEF Mail
  <2>3. e.inbox = <<>>
    OBVIOUS
  <2>1. Append(e.inbox, m) = Mail(t, MsgOf(st))
    BY <2>0, <2>3, Zenon
  <2>4. /\ DOMAIN e = {"native", "life", "inbox"} /\ e.native = FALSE /\ e.life = life
        /\ f = [e EXCEPT !.inbox = Append(e.inbox, m)]
    OBVIOUS
  <2>. HIDE DEF e, f
  <2>5. f = [e EXCEPT !.inbox = Mail(t, MsgOf(st))]
    BY <2>1, <2>4, Zenon
  <2>6. f = [native |-> e.native, life |-> e.life, inbox |-> Mail(t, MsgOf(st))]
    BY <2>4, <2>5, Refilled, Zenon
  <2>2. f = [native |-> FALSE, life |-> life, inbox |-> Mail(t, MsgOf(st))]
    BY <2>4, <2>6
  <2>7. th = [u \in {t} |-> f]
    BY <1>4 DEF e, f
  <2>. QED
    BY <2>2, <2>7
<1>. HIDE DEF r, th
<1>7. Same(s, r, {"threads", "ret"}) /\ r.ret = "ok" /\ r.threads = th
  BY <1>4, <1>5 DEF Same, Fields
<1>8. /\ r.list = s.list /\ r.seen = s.seen
      /\ r.pending = s.pending /\ r.tokens = s.tokens /\ r.missions = s.missions
      /\ r.scheduling = s.scheduling /\ r.nativeQ = s.nativeQ /\ r.dangling = s.dangling
      /\ DOMAIN r = Fields
  BY <1>7 DEF Same, Fields
<1>9. Visit(r, t, a, gs, ls, life, Mail(t, MsgOf(st)))
  BY <1>6, <1>7, <1>8 DEF Visit, Proper
<1>. QED
  BY <1>7, <1>9 DEF r, q

-----------------------------------------------------------------------------
(* The application comes and goes.                                         *)

\* No thread is deleted with records that have none.
LEMMA NothingStops ==
    ASSUME NEW s, DOMAIN s = Fields, s.nativeQ = <<>>, s.dangling = FALSE,
           NEW gone, \A q \in gone : q.thread = FALSE
    PROVE  LET r == DeleteThreads(s, gone)
           IN  /\ Same(s, r, {"threads"})
               /\ r.threads = [t \in DOMAIN s.threads |-> s.threads[t]]
<1>. DEFINE r == DeleteThreads(s, gone)
            th == [t \in DOMAIN s.threads \ {} |-> s.threads[t]]
            x == s.dangling \/ \E i \in DOMAIN s.nativeQ : s.nativeQ[i].token \in {}
<1>1. {q.token : q \in {p \in gone : p.thread}} = {}
  OBVIOUS
<1>2. r = [s EXCEPT !.threads = th, !.dangling = x]
  BY <1>1 DEF DeleteThreads
<1>3. x = FALSE
  OBVIOUS
<1>. HIDE DEF r, x
<1>4. th = [t \in DOMAIN s.threads |-> s.threads[t]]
  OBVIOUS
<1>. HIDE DEF th
<1>5. r.threads = th /\ r.dangling = FALSE /\ DOMAIN r = Fields
  BY <1>2, <1>3 DEF Fields
<1>6. \A f \in Fields \ {"threads", "dangling"} : r[f] = s[f]
  BY <1>2 DEF Fields
<1>7. Same(s, r, {"threads"})
  BY <1>5, <1>6 DEF Same
<1>. QED
  BY <1>4, <1>5, <1>7 DEF r

\* The record of the application is deleted with its thread.
LEMMA GuestGone ==
    ASSUME NEW s, NEW t, NEW a, NEW gs, NEW ls, NEW life, NEW inbox,
           Visit(s, t, a, gs, ls, life, inbox)
    PROVE  LET r == DeleteRecordInfo(s, t)
           IN  /\ Empty(r, ls)
               /\ Same(s, r, {"list", "threads", "async", "dangling", "seen"})
<1>0. PICK b \in BOOLEAN : Both(s.list, t, a, gs, b, ls)
  BY DEF Visit
<1>. DEFINE g == Guest(t, a, gs, b)
            d == Desk(ls)
            r == DeleteRecordInfo(s, t)
            as == [s EXCEPT !.async = NoToken]
            u == DeleteThreads(as, {g})
            sn == [x \in App |-> IF \E q \in {g} : q.app = x THEN "GONE" ELSE s.seen[x]]
<1>1. /\ \A k : Has(s.list, k) <=> k \in {t, LauncherToken}
      /\ Get(s.list, t) = g /\ Of(s.list) = {g, d}
      /\ Keep(s.list, {2}) = <<d>> /\ DOMAIN s.list = {1, 2}
      /\ s.list[1] = g /\ s.list[2] = d
      /\ t # LauncherToken /\ a # Startup
  BY <1>0, OnGuest
<1>2. g.token = t /\ g.app = a /\ d.token = LauncherToken /\ d.app = Startup
  BY GuestParts, DeskParts
<1>3. g.thread = TRUE /\ g.native = FALSE
  BY GuestFlags
<1>. HIDE DEF g, d
<1>4. DOMAIN s = Fields /\ s.threads = [k \in {t} |-> s.threads[t]] /\ s.nativeQ = <<>>
      /\ s.dangling = FALSE /\ s.seen = [x \in App |-> s.seen[x]] /\ ls \in RecordState
      /\ Proper(s)
  BY <1>0 DEF Visit, Proper, Knows, Both
<1>5. {i \in DOMAIN s.list : s.list[i] \notin {g}} = {2}
  <2>1. g # d
    BY <1>1, <1>2
  <2>. QED
    BY <1>1, <2>1
<1>6. /\ Same(s, u, {"threads", "async", "dangling"})
      /\ DOMAIN u.threads = {} /\ u.dangling = FALSE
  <2>. DEFINE th == [k \in DOMAIN as.threads \ {t} |-> as.threads[k]]
              x == as.dangling \/ \E i \in DOMAIN as.nativeQ : as.nativeQ[i].token \in {t}
  <2>1. /\ as.threads = s.threads /\ as.nativeQ = <<>> /\ as.dangling = FALSE
        /\ Same(s, as, {"async"})
    BY <1>4 DEF Same, Fields
  <2>. HIDE DEF as
  <2>2. {q.token : q \in {p \in {g} : p.thread}} = {t}
    BY <1>2, <1>3
  <2>3. u = [as EXCEPT !.threads = th, !.dangling = x]
    BY <2>2 DEF DeleteThreads
  <2>4. DOMAIN th = {}
    BY <1>4, <2>1
  <2>5. ~\E i \in DOMAIN as.nativeQ : as.nativeQ[i].token \in {t}
    BY <2>1
  <2>6. x = FALSE
    BY <2>1, <2>5, Zenon
  <2>. HIDE DEF u, x, th
  <2>. QED
    BY <2>1, <2>3, <2>4, <2>6 DEF Same, Fields
<1>7. r = NotifyAbilityRecordCleanup([u EXCEPT !.list = <<d>>], {g})
  <2>1. DeleteAbilityThread(s, {g}) = u
    BY <1>3 DEF DeleteAbilityThread
  <2>2. r = DeleteRecords(s, {g})
    BY <1>1 DEF DeleteRecordInfo
  <2>3. u.list = s.list
    BY <1>6 DEF Same, Fields
  <2>. HIDE DEF r, u
  <2>. QED
    BY <1>1, <1>5, <2>1, <2>2, <2>3 DEF DeleteRecords
<1>. HIDE DEF u
<1>8. /\ Same(s, r, {"list", "threads", "async", "dangling", "seen"})
      /\ r.list = <<d>> /\ r.seen = sn /\ DOMAIN r.threads = {} /\ r.dangling = FALSE
  <2>. DEFINE v == [u EXCEPT !.list = <<d>>]
  <2>1. /\ Same(s, v, {"list", "threads", "async", "dangling"}) /\ v.list = <<d>>
        /\ DOMAIN v.threads = {} /\ v.dangling = FALSE /\ v.seen = s.seen
    BY <1>6 DEF Same, Fields
  <2>2. r = NotifyAbilityRecordCleanup(v, {g})
    BY <1>7
  <2>. HIDE DEF v, r
  <2>3. r = [v EXCEPT !.seen = [x \in App |-> IF \E q \in {g} : q.app = x THEN "GONE" ELSE v.seen[x]]]
    BY <2>2 DEF NotifyAbilityRecordCleanup
  <2>4. r = [v EXCEPT !.seen = sn]
    BY <2>1, <2>3
  <2>. HIDE DEF sn
  <2>. QED
    BY <2>1, <2>4 DEF Same, Fields
<1>9. Knows(r.list, r.seen)
  <2>1. Of(r.list) = {d}
    BY <1>8 DEF Of
  <2>2. sn = [x \in App |-> sn[x]] /\ \A x \in App : sn[x] = IF x = a THEN "GONE" ELSE s.seen[x]
    BY <1>2
  <2>3. ASSUME NEW x \in App, sn[x] \notin {"NONE", "GONE"} PROVE d.app = x /\ d.state = sn[x]
    <3>1. x # a /\ sn[x] = s.seen[x]
      BY <2>2, <2>3
    <3>2. PICK q \in Of(s.list) : q.app = x /\ q.state = s.seen[x]
      BY <1>4, <2>3, <3>1 DEF Proper, Knows
    <3>. QED
      BY <1>1, <1>2, <3>1, <3>2
  <2>. HIDE DEF sn
  <2>. QED
    BY <1>8, <2>1, <2>2, <2>3 DEF Knows
<1>10. Empty(r, ls)
  <2>1. /\ r.pending = s.pending /\ r.tokens = s.tokens /\ r.missions = s.missions
        /\ r.scheduling = s.scheduling /\ r.nativeQ = s.nativeQ /\ DOMAIN r = Fields
    BY <1>8 DEF Same, Fields
  <2>2. Proper(r)
    BY <1>4, <1>8, <1>9, <2>1 DEF Proper
  <2>. QED
    BY <1>4, <1>8, <2>2 DEF Empty, d
<1>. QED
  BY <1>8, <1>10 DEF r

\* AddRecord drops no record when there is room.
LEMMA AddedOnly ==
    ASSUME NEW s, DOMAIN s = Fields, s.nativeQ = <<>>, s.dangling = FALSE, NEW p,
           \A j \in DOMAIN s.list : Has(Add(s.list, p), s.list[j].token)
    PROVE  LET r == AddRecord(s, p)
           IN  /\ Same(s, r, {"list", "threads"}) /\ r.list = Add(s.list, p)
               /\ r.threads = [t \in DOMAIN s.threads |-> s.threads[t]]
<1>. DEFINE r == AddRecord(s, p)
            l == Add(s.list, p)
            gone == {s.list[i] : i \in {j \in DOMAIN s.list : ~Has(l, s.list[j].token)}}
            u == DeleteThreads(s, gone)
<1>1. r = [u EXCEPT !.list = l]
  BY DEF AddRecord
<1>2. \A q \in gone : q.thread = FALSE
  OBVIOUS
<1>3. /\ Same(s, u, {"threads"}) /\ u.threads = [t \in DOMAIN s.threads |-> s.threads[t]]
  <2>. HIDE DEF gone
  <2>. QED
    BY <1>2, NothingStops
<1>. HIDE DEF u, l, r
<1>4. /\ Same(s, r, {"list", "threads"}) /\ r.list = l
      /\ r.threads = [t \in DOMAIN s.threads |-> s.threads[t]]
  BY <1>1, <1>3 DEF Same, Fields
<1>. QED
  BY <1>4 DEF r, l

\* A record on top of the launcher's.
LEMMA PlacedOn ==
    ASSUME SingleTask, NEW p, NEW d, p.token # d.token, p.app # d.app
    PROVE  LET l == <<d>>
               m == Add(l, p)
           IN  m = <<p, d>> /\ \A j \in DOMAIN l : Has(m, l[j].token)
<1>. DEFINE l == <<d>>
            m == Add(l, p)
<1>1. /\ \A k : Has(l, k) <=> k = d.token
      /\ Len(l) = 1 /\ DOMAIN l = {1} /\ l[1] = d
  BY One
<1>2. Capacity \in Nat /\ Capacity > 2
  BY Numbers DEF SingleTask
<1>. HIDE DEF l
<1>3. m = <<p>> \o l
  BY <1>1, <1>2 DEF Add
<1>4. <<p>> \o <<d>> = <<p, d>>
  <2>1. <<p>> \in Seq({p, d}) /\ <<d>> \in Seq({p, d}) /\ <<p, d>> \in Seq({p, d})
    OBVIOUS
  <2>2. Len(<<p>>) = 1 /\ Len(<<d>>) = 1 /\ Len(<<p, d>>) = 2
    OBVIOUS
  <2>3. \A i \in 1..2 : (<<p>> \o <<d>>)[i] = <<p, d>>[i]
    BY <2>1, <2>2
  <2>4. <<p>> \o <<d>> \in Seq({p, d}) /\ Len(<<p>> \o <<d>>) = 2
    BY <2>1, <2>2
  <2>. QED
    BY <2>1, <2>2, <2>3, <2>4, SeqEqual
<1>5. m = <<p, d>>
  BY <1>3, <1>4, Zenon DEF l
<1>6. \A k : Has(<<p, d>>, k) <=> k \in {p.token, d.token}
  BY Two
<1>. HIDE DEF m
<1>. QED
  BY <1>1, <1>5, <1>6 DEF l, m

\* A record that is there already.
LEMMA PlacedAgain ==
    ASSUME SingleTask, NEW p, NEW d, p.token # d.token, p.app # d.app,
           NEW x, x.token = p.token, x.app = p.app
    PROVE  LET l == <<x, d>>
               m == Add(l, p)
           IN  m = l /\ \A j \in DOMAIN l : Has(m, l[j].token)
<1>. DEFINE l == <<x, d>>
            m == Add(l, p)
<1>1. /\ \A k : Has(l, k) <=> k \in {x.token, d.token}
      /\ Len(l) = 2 /\ DOMAIN l = {1, 2} /\ l[1] = x /\ l[2] = d
  BY Two
<1>2. Capacity \in Nat /\ Capacity > 2
  BY Numbers DEF SingleTask
<1>. HIDE DEF l
<1>3. m = l
  BY <1>1, <1>2 DEF Add
<1>. HIDE DEF m
<1>. QED
  BY <1>1, <1>3 DEF l, m

\* The record of an application, before and after its task is created.
Fresh(t, a) == AbilityRecord(t, a, FALSE, 0)

\* A new record, once CreateAppTask and SetAbilityState have changed it.
LEMMA Begun ==
    ASSUME NEW q, DOMAIN q = RecordFields, NEW x, NEW y
    PROVE  [q EXCEPT !.thread = x, !.state = y] =
                RecordWith(q.token, q.app, y, q.terminated, q.native, q.mission, x, q.saved)
<1>. DEFINE p == [q EXCEPT !.thread = x, !.state = y]
            o == RecordWith(q.token, q.app, y, q.terminated, q.native, q.mission, x, q.saved)
<1>1. /\ p = [f \in RecordFields |-> p[f]] /\ p.state = y /\ p.thread = x
      /\ \A f \in RecordFields \ {"state", "thread"} : p[f] = q[f]
  BY DEF RecordFields
<1>2. /\ o = [f \in RecordFields |-> o[f]] /\ o.state = y /\ o.thread = x
      /\ o.token = q.token /\ o.app = q.app /\ o.mission = q.mission
  BY DEF RecordFields, RecordWith
<1>3. o["terminated"] = q["terminated"] /\ o["native"] = q["native"] /\ o["saved"] = q["saved"]
  BY DEF RecordWith
<1>. HIDE DEF p, o
<1>4. \A f \in RecordFields \ {"state", "thread"} : o[f] = q[f]
  BY <1>2, <1>3 DEF RecordFields
<1>5. \A f \in RecordFields : p[f] = o[f]
  BY <1>1, <1>2, <1>4
<1>6. p = o
  BY <1>1, <1>2, <1>5
<1>. QED
  BY <1>6 DEF p, o

\* The parts of a new record.
LEMMA FreshParts == \A t, a : Fresh(t, a).token = t /\ Fresh(t, a).app = a
BY DEF Fresh, AbilityRecord

\* The record of an application whose task is created is that of a guest.
LEMMA Started ==
    \A t, a : [Fresh(t, a) EXCEPT !.thread = TRUE, !.state = "STOP"] = Guest(t, a, "STOP", FALSE)
<1>1. ASSUME NEW t, NEW a
      PROVE  [Fresh(t, a) EXCEPT !.thread = TRUE, !.state = "STOP"] = Guest(t, a, "STOP", FALSE)
  <2>. DEFINE q == Fresh(t, a)
              p == [q EXCEPT !.thread = TRUE, !.state = "STOP"]
  <2>1. /\ DOMAIN q = RecordFields /\ q.token = t /\ q.app = a /\ q.state = "STOP"
        /\ q.mission = 0
    BY DEF Fresh, AbilityRecord, RecordFields
  <2>2. q.terminated = FALSE /\ q.native = FALSE /\ q.saved = FALSE
    BY DEF Fresh, AbilityRecord
  <2>. HIDE DEF q
  <2>3. p = RecordWith(q.token, q.app, "STOP", q.terminated, q.native, q.mission, TRUE, q.saved)
    BY <2>1, Begun, Zenon
  <2>4. Guest(t, a, "STOP", FALSE) =
          RecordWith(q.token, q.app, "STOP", q.terminated, q.native, q.mission, TRUE, q.saved)
    BY <2>1, <2>2 DEF Guest, RecordWith
  <2>5. p = Guest(t, a, "STOP", FALSE)
    BY <2>3, <2>4, Zenon
  <2>. QED
    BY <2>5 DEF q
<1>. QED
  BY <1>1

\* A new record beside the launcher.
LEMMA Entered ==
    ASSUME SingleTask, NEW s, NEW ls, Empty(s, ls),
           NEW t \in 1..TokenLimit, NEW a \in App, a # Startup
    PROVE  LET c == AddRecord(s, Fresh(t, a))
           IN  /\ Same(s, c, {"list", "threads"}) /\ c.list = <<Fresh(t, a), Desk(ls)>>
               /\ DOMAIN c.threads = {}
<1>. DEFINE q == Fresh(t, a)
            d == Desk(ls)
            c == AddRecord(s, q)
<1>1. q.token # d.token /\ q.app # d.app
  BY FreshParts, DeskParts, Numbers
<1>2. /\ DOMAIN s = Fields /\ s.nativeQ = <<>> /\ s.dangling = FALSE /\ s.list = <<d>>
      /\ DOMAIN s.threads = {}
  BY DEF Empty, Proper
<1>. HIDE DEF q, d, c
<1>3. /\ Same(s, c, {"list", "threads"}) /\ c.list = <<q, d>>
      /\ c.threads = [k \in DOMAIN s.threads |-> s.threads[k]]
  <2>1. Add(s.list, q) = <<q, d>> /\ \A j \in DOMAIN s.list : Has(Add(s.list, q), s.list[j].token)
    BY <1>1, <1>2, PlacedOn
  <2>. QED
    BY <1>2, <2>1, AddedOnly DEF c
<1>4. DOMAIN c.threads = {}
  BY <1>2, <1>3
<1>. QED
  BY <1>3, <1>4 DEF c, q, d

\* Its task cannot be created: the record goes again.
LEMMA NotCreated ==
    ASSUME SingleTask, NEW s, NEW ls, Empty(s, ls),
           NEW t \in 1..TokenLimit, NEW a \in App, a # Startup, NEW fails, a \in fails
    PROVE  LET q == Fresh(t, a)
               u == CreateAppTask(AddRecord(s, q), q, fails)
               r == [DeleteThreads(u, {[q EXCEPT !.thread = t \in DOMAIN u.threads]})
                       EXCEPT !.list = Erase(@, t)]
           IN  /\ u.ret = "error" /\ r.ret = "error"
               /\ Empty(r, ls) /\ Same(s, r, {"list", "threads", "failed", "ret"})
<1>. DEFINE q == Fresh(t, a)
            d == Desk(ls)
            c == AddRecord(s, q)
            u == CreateAppTask(c, q, fails)
            gone == {[q EXCEPT !.thread = t \in DOMAIN u.threads]}
            v == DeleteThreads(u, gone)
            r == [v EXCEPT !.list = Erase(@, t)]
<1>1. /\ Same(s, c, {"list", "threads"}) /\ c.list = <<q, d>> /\ DOMAIN c.threads = {}
  BY Entered
<1>2. q.app = a /\ q.token = t /\ t # LauncherToken
  BY FreshParts, Numbers
<1>3. \A b : [q EXCEPT !.thread = b].thread = b
  BY DEF Fresh, AbilityRecord
<1>4. DOMAIN s = Fields /\ s.nativeQ = <<>> /\ s.dangling = FALSE /\ Proper(s) /\ s.list = <<d>>
  BY DEF Empty, Proper
<1>5. d.token = LauncherToken /\ d.app = Startup
  BY DeskParts
<1>. HIDE DEF q, d, c, u
<1>6. u = Error([c EXCEPT !.failed = TRUE])
  <2>. DEFINE e == Error([c EXCEPT !.failed = TRUE])
  <2>1. InitAbilityThread(c, q, fails) = e
    BY <1>2 DEF InitAbilityThread
  <2>2. e.ret = "error"
    BY <1>1 DEF Error, Same, Fields
  <2>. HIDE DEF e, gone, v, r
  <2>3. u = e
    BY <2>1, <2>2 DEF CreateAppTask, u
  <2>. QED
    BY <2>3 DEF e
<1>7. /\ Same(s, u, {"list", "threads", "failed", "ret"}) /\ u.list = <<q, d>>
      /\ DOMAIN u.threads = {} /\ u.ret = "error" /\ u.nativeQ = <<>> /\ u.dangling = FALSE
  BY <1>1, <1>4, <1>6 DEF Error, Same, Fields
<1>8. \A x \in gone : x.thread = FALSE
  <2>1. (t \in DOMAIN u.threads) = FALSE
    BY <1>7
  <2>. QED
    BY <1>3, <2>1
<1>. HIDE DEF gone
<1>9. Same(u, v, {"threads"}) /\ DOMAIN v.threads = {}
  <2>1. Same(u, v, {"threads"}) /\ v.threads = [k \in DOMAIN u.threads |-> u.threads[k]]
    BY <1>7, <1>8, NothingStops DEF Same
  <2>. HIDE DEF v
  <2>. QED
    BY <1>7, <2>1
<1>. HIDE DEF v
<1>10. Erase(v.list, t) = <<d>>
  <2>1. v.list = <<q, d>>
    BY <1>7, <1>9 DEF Same, Fields
  <2>2. /\ DOMAIN v.list = {1, 2} /\ v.list[1] = q /\ v.list[2] = d /\ Keep(v.list, {2}) = <<d>>
    BY <1>2, <1>5, <2>1, Two
  <2>3. {i \in DOMAIN v.list : v.list[i].token # t} = {2}
    BY <1>2, <1>5, <2>2
  <2>. QED
    BY <2>2, <2>3 DEF Erase
<1>11. r = [v EXCEPT !.list = <<d>>]
  BY <1>9, <1>10 DEF Same, Fields
<1>. HIDE DEF r
<1>12. /\ Same(s, r, {"list", "threads", "failed", "ret"}) /\ r.list = <<d>>
       /\ DOMAIN r.threads = {} /\ r.ret = "error"
  BY <1>7, <1>9, <1>11 DEF Same, Fields
<1>13. Empty(r, ls)
  <2>1. /\ r.pending = s.pending /\ r.tokens = s.tokens /\ r.missions = s.missions
        /\ r.scheduling = s.scheduling /\ r.nativeQ = s.nativeQ /\ r.dangling = s.dangling
        /\ r.list = s.list /\ r.seen = s.seen /\ DOMAIN r = Fields
    BY <1>4, <1>12 DEF Same, Fields
  <2>2. Proper(r)
    BY <1>4, <2>1 DEF Proper
  <2>. QED
    BY <1>12, <2>2 DEF Empty, d
<1>. QED
  BY <1>7, <1>12, <1>13 DEF r, v, gone, u, c, q

\* Its task is created, and the launcher leaves the foreground.
LEMMA Arrived ==
    ASSUME SingleTask, NEW s, NEW ls, Empty(s, ls), s.amsQ = <<>>,
           NEW t \in 1..TokenLimit, NEW a \in App, a # Startup, NEW fails, a \notin fails
    PROVE  LET r == CreateAppTask(AddRecord(s, Fresh(t, a)), Fresh(t, a), fails)
           IN  /\ Visit(r, t, a, "STOP", ls, "NONE", <<>>)
               /\ Same(s, r, {"list", "threads", "async", "launcher", "amsQ", "ret"})
               /\ r.launcher = "BACKGROUND" /\ r.amsQ = <<Report(LauncherToken, "BACKGROUND")>>
               /\ r.ret = "ok"
<1>. DEFINE q == Fresh(t, a)
            d == Desk(ls)
            g == Guest(t, a, "STOP", FALSE)
            c == AddRecord(s, q)
            begun == [q EXCEPT !.thread = TRUE, !.state = "STOP"]
            th == [k \in {t} |-> [native |-> FALSE, life |-> "NONE", inbox |-> <<>>]]
            u == InitAbilityThread(c, q, fails)
            v == AddRecord(u, begun)
            w == Put(v, begun)
            r == CreateAppTask(c, q, fails)
<1>1. /\ Same(s, c, {"list", "threads"}) /\ c.list = <<q, d>> /\ DOMAIN c.threads = {}
  BY Entered
<1>. HIDE DEF c, u, v, w, r
<1>14. begun = g
  BY Started, Zenon
<1>. HIDE DEF begun
<1>15. q.app = a /\ q.token = t /\ t # LauncherToken
  BY FreshParts, Numbers
<1>2. q.app = a /\ q.token = t /\ t # LauncherToken /\ begun = g
  BY <1>14, <1>15
<1>3. DOMAIN s = Fields /\ s.nativeQ = <<>> /\ s.dangling = FALSE /\ Proper(s) /\ s.list = <<d>>
      /\ ls \in RecordState
  BY DEF Empty, Proper
<1>4. d.token = LauncherToken /\ d.app = Startup
  BY DeskParts
<1>5. q.native = FALSE
  BY DEF Fresh, AbilityRecord
<1>6. g.token = t /\ g.app = a
  BY DEF Guest
<1>. HIDE DEF q, d, g
<1>7. /\ Same(s, u, {"list", "threads", "async", "ret"}) /\ u.ret = "ok"
      /\ u.list = <<q, d>> /\ u.threads = th
  <2>. DEFINE x == [k \in DOMAIN c.threads \cup {q.token} |->
                      IF k = q.token THEN [native |-> q.native, life |-> "NONE", inbox |-> <<>>]
                      ELSE c.threads[k]]
              n == [c EXCEPT !.threads = x]
              j == [n EXCEPT !.async = q.token]
  <2>1. x = th
    BY <1>1, <1>2, <1>5
  <2>. HIDE DEF x, th
  <2>2. NewThread(c, q) = n
    BY DEF NewThread, x
  <2>3. InitJsThread(c, q) = j
    BY <2>2 DEF InitJsThread
  <2>4. Same(s, j, {"list", "threads", "async"}) /\ j.list = <<q, d>> /\ j.threads = th
    BY <1>1, <2>1 DEF Same, Fields
  <2>. HIDE DEF n, j
  <2>5. u = [j EXCEPT !.ret = "ok"]
    BY <1>2, <1>5, <2>3 DEF InitAbilityThread, Ok, u
  <2>. QED
    BY <2>4, <2>5 DEF Same, Fields
<1>8. /\ Same(u, v, {"list", "threads"}) /\ v.list = <<q, d>> /\ v.threads = th
  <2>1. /\ begun.token # d.token /\ begun.app # d.app /\ q.token = begun.token
        /\ q.app = begun.app
    BY <1>2, <1>4, <1>6
  <2>2. DOMAIN u = Fields /\ u.nativeQ = <<>> /\ u.dangling = FALSE
    BY <1>3, <1>7 DEF Same, Fields
  <2>5. /\ Add(u.list, begun) = u.list
        /\ \A j \in DOMAIN u.list : Has(Add(u.list, begun), u.list[j].token)
    BY <1>7, <2>1, PlacedAgain
  <2>3. /\ Same(u, v, {"list", "threads"}) /\ v.list = u.list
        /\ v.threads = [k \in DOMAIN u.threads |-> u.threads[k]]
    BY <2>2, <2>5, AddedOnly DEF v
  <2>4. [k \in DOMAIN u.threads |-> u.threads[k]] = th
    BY <1>7
  <2>. HIDE DEF th
  <2>. QED
    BY <1>7, <2>3, <2>4
<1>9. Same(v, w, {"list"}) /\ w.list = <<g, d>>
  <2>1. DOMAIN v = Fields
    BY <1>8 DEF Same
  <2>. QED
    BY <1>2, <1>4, <1>6, <1>8, <2>1, PutTwo DEF w
<1>10. /\ Same(s, w, {"list", "threads", "async", "ret"}) /\ w.threads = th
       /\ w.list = <<g, d>> /\ w.amsQ = <<>>
  <2>. HIDE DEF th
  <2>. QED
    BY <1>7, <1>8, <1>9 DEF Same, Fields
<1>11. Visit(w, t, a, "STOP", ls, "NONE", <<>>)
  <2>1. /\ w.pending = s.pending /\ w.tokens = s.tokens /\ w.missions = s.missions
        /\ w.scheduling = s.scheduling /\ w.nativeQ = s.nativeQ /\ w.dangling = s.dangling
        /\ w.seen = s.seen /\ DOMAIN w = Fields
    BY <1>3, <1>10 DEF Same, Fields
  <2>2. Knows(w.list, s.seen)
    <3>1. \A y \in Of(s.list) : y \in Of(w.list)
      <4>1. Of(<<d>>) = {d} /\ Of(<<g, d>>) = {g, d}
        BY <1>2, <1>4, <1>6, One, Two
      <4>. QED
        BY <1>3, <1>10, <4>1
    <3>. QED
      BY <1>3, <3>1 DEF Proper, Knows
  <2>3. Proper(w)
    BY <1>3, <2>1, <2>2 DEF Proper
  <2>4. Both(w.list, t, a, "STOP", FALSE, ls)
    BY <1>3, <1>10 DEF Both, RecordState, g, d
  <2>. QED
    BY <1>10, <2>3, <2>4 DEF Visit
<1>12. r = SchedulerLifecycle(w, LauncherToken, "BACKGROUND")
  BY <1>7 DEF CreateAppTask, SingleTask, w, v, u, begun, r
<1>16. /\ Same(w, r, {"launcher", "amsQ", "ret"}) /\ Visit(r, t, a, "STOP", ls, "NONE", <<>>)
       /\ r.launcher = "BACKGROUND" /\ r.amsQ = <<Report(LauncherToken, "BACKGROUND")>>
       /\ r.ret = "ok"
  BY <1>10, <1>11, <1>12, CallLauncher
<1>17. Same(s, r, {"list", "threads", "async", "launcher", "amsQ", "ret"})
  BY <1>10, <1>16 DEF Same, Fields
<1>. QED
  BY <1>16, <1>17 DEF r, c, q

-----------------------------------------------------------------------------
(* The stages of the service.                                              *)

\* Nothing is held back, and no application waits for a token.
Free(s) == s.ops = <<>> /\ s.pendingRecord = {}

\* Nobody has anything to do: the launcher or the application is in front.
Staying(s, t, a) ==
    \/ Visit(s, t, a, "FOREGROUND", "BACKGROUND", "FOREGROUND", <<>>) /\ s.launcher = "BACKGROUND"
    \/ Visit(s, t, a, "BACKGROUND", "FOREGROUND", "BACKGROUND", <<>>) /\ s.launcher = "FOREGROUND"
Resting(s, t, a) ==
    \/ Empty(s, "FOREGROUND") /\ s.launcher = "FOREGROUND"
    \/ Staying(s, t, a)

\* The application runs the callback id, or has run it and reports.
Due(s, t, a, gs, ls, life, id) ==
    /\ s.launcher = ls
    /\ \/ Visit(s, t, a, gs, ls, life, Mail(t, id)) /\ s.amsQ = <<>>
       \/ /\ Visit(s, t, a, gs, ls, StateAfter(id), <<>>)
          /\ s.amsQ = <<Report(t, StateAfter(id))>>

Turn(s, t, a) ==
    \/ Due(s, t, a, "STOP", "BACKGROUND", "NONE", "CREATE")
    \/ Due(s, t, a, "INITED", "BACKGROUND", "INITIAL", "FOREGROUND")
    \/ Due(s, t, a, "BACKGROUND", "BACKGROUND", "BACKGROUND", "FOREGROUND")
    \/ Due(s, t, a, "FOREGROUND", "BACKGROUND", "FOREGROUND", "BACKGROUND")
    \/ Due(s, t, a, "BACKGROUND", "FOREGROUND", "BACKGROUND", "BACKGROUND")
    \/ Due(s, t, a, "BACKGROUND", "FOREGROUND", "BACKGROUND", "DESTROY")

\* The launcher has been called and reports.
AtHome(s, t, a) ==
    /\ s.amsQ = <<Report(LauncherToken, s.launcher)>>
    /\ \/ /\ s.launcher = "BACKGROUND"
          /\ \/ Visit(s, t, a, "STOP", "FOREGROUND", "NONE", <<>>)
             \/ Visit(s, t, a, "BACKGROUND", "FOREGROUND", "BACKGROUND", <<>>)
       \/ /\ s.launcher = "FOREGROUND"
          /\ \E ls \in {"FOREGROUND", "BACKGROUND"} :
                Empty(s, ls) \/ Visit(s, t, a, "BACKGROUND", ls, "BACKGROUND", <<>>)
       \/ /\ s.launcher = "FOREGROUND"
          /\ Visit(s, t, a, "FOREGROUND", "BACKGROUND", "FOREGROUND", <<>>)

\* Between switches, and during them.  A service that schedules while nothing is
\* on its way holds everything back for ever.
Quieted(s, t, a) ==
    /\ Resting(s, t, a)
    /\ s.amsQ = <<>> \/ \E m \in Requests : s.amsQ = <<m>>
    /\ s.scheduling \/ Free(s)
InSwitch(s, t, a) == Free(s) /\ (Turn(s, t, a) \/ AtHome(s, t, a))

Stage(s) ==
    \E t \in 1..TokenLimit, a \in App : Quieted(s, t, a) \/ InSwitch(s, t, a)

\* A step of the abilities, as module OneAbility has them.
OneStep(x, y) ==
    \/ y = x
    \/ x = {} /\ \E a \in App : y = {[app |-> a, life |-> "NONE"]}
    \/ \E a \in App, from, to \in Life \cup {"NONE"} :
          /\ Called(from, to) \/ (from = "BACKGROUND" /\ to = "FOREGROUND")
          /\ x = {[app |-> a, life |-> from]} /\ y = {[app |-> a, life |-> to]}
    \/ \E a \in App, life \in {"FOREGROUND", "UNINITIALIZED"} :
          x = {[app |-> a, life |-> life]} /\ y = {}

\* A handler takes the service from s to r.
Good(s, r) == OneStep(AbilitiesOf(s), AbilitiesOf(r)) /\ Stage(r)

\* The abilities of an empty list and of a visit.
LEMMA Shown ==
    ASSUME NEW s
    PROVE  /\ \A ls : Empty(s, ls) => AbilitiesOf(s) = {}
           /\ \A t, a, gs, ls, life, inbox : Visit(s, t, a, gs, ls, life, inbox) =>
                 AbilitiesOf(s) = {[app |-> a, life |-> life]}
<1>1. ASSUME NEW ls, Empty(s, ls) PROVE AbilitiesOf(s) = {}
  <2>1. DOMAIN s.threads = {}
    BY <1>1 DEF Empty
  <2>. QED
    BY <2>1 DEF AbilitiesOf
<1>2. ASSUME NEW t, NEW a, NEW gs, NEW ls, NEW life, NEW inbox,
             Visit(s, t, a, gs, ls, life, inbox)
      PROVE  AbilitiesOf(s) = {[app |-> a, life |-> life]}
  <2>1. PICK b \in BOOLEAN : Both(s.list, t, a, gs, b, ls)
    BY <1>2 DEF Visit
  <2>2. Has(s.list, t) /\ Get(s.list, t) = Guest(t, a, gs, b)
    BY <2>1, OnGuest
  <2>3. Get(s.list, t).app = a
    BY <2>2, GuestParts
  <2>4. DOMAIN s.threads = {t} /\ s.threads[t].life = life
    BY <1>2 DEF Visit
  <2>. QED
    BY <2>2, <2>3, <2>4 DEF AbilitiesOf
<1>. QED
  BY <1>1, <1>2

\* The fields no stage looks at but for their types.
Aside == {"ret", "scheduling", "ops", "pendingRecord", "pending", "tokens", "missions", "failed",
          "lost"}
Sane(s) ==
    /\ s.pending \in Token /\ s.tokens \in 0..TokenLimit /\ s.missions \in Mission
    /\ s.scheduling \in BOOLEAN

\* Those types hold in every stage.
LEMMA StageSane ==
    ASSUME NEW s
    PROVE  /\ \A ls : Empty(s, ls) => Sane(s) /\ DOMAIN s = Fields
           /\ \A t, a, gs, ls, life, inbox :
                 Visit(s, t, a, gs, ls, life, inbox) => Sane(s) /\ DOMAIN s = Fields
           /\ \A t, a : Resting(s, t, a) => Sane(s) /\ DOMAIN s = Fields
BY DEF Empty, Visit, Resting, Staying, Proper, Sane

\* Those fields change.
LEMMA StageAside ==
    ASSUME NEW s, NEW r, Same(s, r, Aside), Sane(r)
    PROVE  /\ \A ls : Empty(s, ls) => Empty(r, ls)
           /\ \A t, a, gs, ls, life, inbox :
                 Visit(s, t, a, gs, ls, life, inbox) => Visit(r, t, a, gs, ls, life, inbox)
           /\ \A t, a : /\ Resting(s, t, a) => Resting(r, t, a)
                        /\ Staying(s, t, a) => Staying(r, t, a)
                        /\ Turn(s, t, a) => Turn(r, t, a)
                        /\ AtHome(s, t, a) => AtHome(r, t, a)
           /\ AbilitiesOf(r) = AbilitiesOf(s)
           /\ r.launcher = s.launcher /\ r.amsQ = s.amsQ /\ r.list = s.list
<1>1. Same(s, r, Loose)
  BY DEF Same, Loose, Aside
<1>2. /\ \A ls : Empty(s, ls) => Empty(r, ls)
      /\ \A t, a, gs, ls, life, inbox :
            Visit(s, t, a, gs, ls, life, inbox) => Visit(r, t, a, gs, ls, life, inbox)
  BY <1>1, Beside DEF Sane
<1>3. /\ r.launcher = s.launcher /\ r.amsQ = s.amsQ /\ r.list = s.list /\ r.threads = s.threads
  BY DEF Same, Fields, Aside
<1>4. ASSUME NEW t, NEW a
      PROVE  /\ Resting(s, t, a) => Resting(r, t, a)
             /\ Staying(s, t, a) => Staying(r, t, a)
             /\ Turn(s, t, a) => Turn(r, t, a)
             /\ AtHome(s, t, a) => AtHome(r, t, a)
  <2>4. Staying(s, t, a) => Staying(r, t, a)
    BY <1>2, <1>3 DEF Staying
  <2>1. Resting(s, t, a) => Resting(r, t, a)
    BY <1>2, <1>3, <2>4 DEF Resting
  <2>2. \A gs, ls, life, id : Due(s, t, a, gs, ls, life, id) => Due(r, t, a, gs, ls, life, id)
    BY <1>2, <1>3 DEF Due
  <2>3. AtHome(s, t, a) => AtHome(r, t, a)
    BY <1>2, <1>3 DEF AtHome
  <2>. QED
    BY <2>1, <2>2, <2>3, <2>4 DEF Turn
<1>5. AbilitiesOf(r) = AbilitiesOf(s)
  BY <1>3 DEF AbilitiesOf
<1>. QED
  BY <1>2, <1>3, <1>4, <1>5

\* What Idle, Scheduling, Ok and Error change.
LEMMA Flags ==
    ASSUME NEW s, DOMAIN s = Fields, Sane(s)
    PROVE  /\ Same(s, Idle(s), {"scheduling"}) /\ Same(s, Scheduling(s), {"scheduling"})
           /\ Same(s, Ok(s), {"ret"}) /\ Same(s, Error(s), {"ret"})
           /\ ~Idle(s).scheduling /\ Scheduling(s).scheduling
           /\ Ok(s).ret = "ok" /\ Error(s).ret = "error"
           /\ Sane(Idle(s)) /\ Sane(Scheduling(s)) /\ Sane(Ok(s)) /\ Sane(Error(s))
<1>1. Same(s, Idle(s), {"scheduling"}) /\ Same(s, Scheduling(s), {"scheduling"})
  BY DEF Idle, Scheduling, Same, Fields
<1>2. Same(s, Ok(s), {"ret"}) /\ Same(s, Error(s), {"ret"})
  BY DEF Ok, Error, Same, Fields
<1>3. Idle(s).scheduling = FALSE /\ Scheduling(s).scheduling = TRUE
  BY DEF Idle, Scheduling, Fields
<1>4. Ok(s).ret = "ok" /\ Error(s).ret = "error"
  BY DEF Ok, Error, Fields
<1>5. \A r : Same(s, r, {"scheduling"}) \/ Same(s, r, {"ret"}) =>
         /\ r.pending = s.pending /\ r.tokens = s.tokens /\ r.missions = s.missions
  BY DEF Same, Fields
<1>6. Ok(s).scheduling = s.scheduling /\ Error(s).scheduling = s.scheduling
  BY <1>2 DEF Same, Fields
<1>. QED
  BY <1>1, <1>2, <1>3, <1>4, <1>5, <1>6 DEF Sane

-----------------------------------------------------------------------------
(* Requests, when nobody has anything to do.                               *)

\* The service may start one handler.
Ready(s, t, a) ==
    /\ Resting(s, t, a) /\ Free(s) /\ s.amsQ = <<>> /\ s.scheduling = FALSE
    /\ t \in 1..TokenLimit /\ a \in App

\* It stays as it was, but for fields no stage looks at.
LEMMA StillResting ==
    ASSUME NEW s, NEW t, NEW a, Ready(s, t, a), NEW r, Same(s, r, Aside), Sane(r),
           r.scheduling \/ Free(r)
    PROVE  Good(s, r)
<1>1. Resting(r, t, a) /\ AbilitiesOf(r) = AbilitiesOf(s) /\ r.amsQ = <<>>
  BY StageAside DEF Ready
<1>2. Quieted(r, t, a)
  BY <1>1 DEF Quieted
<1>. QED
  BY <1>1, <1>2 DEF Good, OneStep, Stage, Ready

\* What is good stays good when only the return value or the flag changes.
LEMMA StillGood ==
    ASSUME NEW s, NEW r, Good(s, r), Free(r), NEW q, Same(r, q, {"ret", "scheduling"}), Sane(q)
    PROVE  Good(s, q) /\ Free(q)
<1>1. Same(r, q, Aside)
  BY DEF Same, Aside
<1>2. Free(q)
  BY DEF Free, Same, Fields
<1>3. PICK t \in 1..TokenLimit, a \in App : Quieted(r, t, a) \/ InSwitch(r, t, a)
  BY DEF Good, Stage
<1>4. /\ Resting(r, t, a) => Resting(q, t, a)
      /\ Turn(r, t, a) => Turn(q, t, a)
      /\ AtHome(r, t, a) => AtHome(q, t, a)
      /\ AbilitiesOf(q) = AbilitiesOf(r) /\ q.amsQ = r.amsQ
  BY <1>1, StageAside
<1>5. Quieted(r, t, a) => Quieted(q, t, a)
  BY <1>2, <1>4 DEF Quieted
<1>6. InSwitch(r, t, a) => InSwitch(q, t, a)
  BY <1>2, <1>4 DEF InSwitch
<1>. QED
  BY <1>2, <1>3, <1>4, <1>5, <1>6 DEF Good, Stage

\* In particular when the return value is set.
LEMMA GoodOk ==
    ASSUME NEW s, NEW r, Good(s, r), Free(r)
    PROVE  Good(s, Ok(r)) /\ Free(Ok(r)) /\ Good(s, Idle(r)) /\ Free(Idle(r))
<1>1. DOMAIN r = Fields /\ Sane(r)
  BY StageSane DEF Good, Stage, Quieted, InSwitch, Turn, Due, AtHome
<1>2. /\ Same(r, Ok(r), {"ret", "scheduling"}) /\ Same(r, Idle(r), {"ret", "scheduling"})
      /\ Sane(Ok(r)) /\ Sane(Idle(r))
  BY <1>1, Flags DEF Same
<1>. QED
  BY <1>2, StillGood

\* The launcher is called.
LEMMA LauncherCalled ==
    ASSUME SingleTask, NEW s, NEW t, NEW a, Ready(s, t, a),
           NEW v, Same(s, v, Aside), Sane(v), Free(v), NEW st \in {"FOREGROUND", "BACKGROUND"},
           st = "BACKGROUND" => s.list[1].token # LauncherToken /\ s.list[1].state = "BACKGROUND"
    PROVE  LET r == SchedulerLifecycle(v, LauncherToken, st)
           IN  Good(s, r) /\ Free(r) /\ r.ret = "ok" /\ r.scheduling = v.scheduling
<1>. DEFINE r == SchedulerLifecycle(v, LauncherToken, st)
<1>1. /\ Resting(v, t, a) /\ v.amsQ = <<>> /\ v.list = s.list
      /\ AbilitiesOf(v) = AbilitiesOf(s)
  BY StageAside DEF Ready
<1>2. /\ \A ls : Empty(v, ls) =>
            /\ Same(v, r, {"launcher", "amsQ", "ret"}) /\ Empty(r, ls)
            /\ r.launcher = st /\ r.amsQ = <<Report(LauncherToken, st)>> /\ r.ret = "ok"
      /\ \A gs, ls, life, inbox : Visit(v, t, a, gs, ls, life, inbox) =>
            /\ Same(v, r, {"launcher", "amsQ", "ret"})
            /\ Visit(r, t, a, gs, ls, life, inbox)
            /\ r.launcher = st /\ r.amsQ = <<Report(LauncherToken, st)>> /\ r.ret = "ok"
  BY <1>1, CallLauncher
<1>. HIDE DEF r
<1>3. ASSUME Same(v, r, {"launcher", "amsQ", "ret"})
      PROVE  Free(r) /\ r.scheduling = v.scheduling
  BY <1>3 DEF Free, Same, Fields
<1>4. CASE Empty(v, "FOREGROUND")
  <2>1. st = "FOREGROUND"
    <3>1. v.list[1].token = LauncherToken
      BY <1>4, OnDesk, DeskParts
    <3>. QED
      BY <1>1, <3>1
  <2>2. AtHome(r, t, a)
    BY <1>2, <1>4, <2>1 DEF AtHome
  <2>3. AbilitiesOf(r) = AbilitiesOf(s)
    BY <1>1, <1>2, <1>4, Shown
  <2>. QED
    BY <1>2, <1>3, <1>4, <2>2, <2>3 DEF Good, OneStep, Stage, InSwitch, Ready, r
<1>5. CASE Visit(v, t, a, "FOREGROUND", "BACKGROUND", "FOREGROUND", <<>>)
  <2>1. st = "FOREGROUND"
    <3>1. PICK b \in BOOLEAN : Both(v.list, t, a, "FOREGROUND", b, "BACKGROUND")
      BY <1>5 DEF Visit
    <3>2. v.list[1].state = "FOREGROUND"
      BY <3>1, OnGuest, GuestParts
    <3>. QED
      BY <1>1, <3>2
  <2>2. AtHome(r, t, a)
    BY <1>2, <1>5, <2>1 DEF AtHome
  <2>3. AbilitiesOf(r) = AbilitiesOf(s)
    <3>1. /\ AbilitiesOf(r) = {[app |-> a, life |-> "FOREGROUND"]}
          /\ AbilitiesOf(v) = {[app |-> a, life |-> "FOREGROUND"]}
      BY <1>2, <1>5, Shown
    <3>. QED
      BY <1>1, <3>1
  <2>. QED
    BY <1>2, <1>3, <1>5, <2>2, <2>3 DEF Good, OneStep, Stage, InSwitch, Ready, r
<1>6. CASE Visit(v, t, a, "BACKGROUND", "FOREGROUND", "BACKGROUND", <<>>)
  <2>2. AtHome(r, t, a)
    BY <1>2, <1>6 DEF AtHome
  <2>3. AbilitiesOf(r) = AbilitiesOf(s)
    <3>1. /\ AbilitiesOf(r) = {[app |-> a, life |-> "BACKGROUND"]}
          /\ AbilitiesOf(v) = {[app |-> a, life |-> "BACKGROUND"]}
      BY <1>2, <1>6, Shown
    <3>. QED
      BY <1>1, <3>1
  <2>. QED
    BY <1>2, <1>3, <1>6, <2>2, <2>3 DEF Good, OneStep, Stage, InSwitch, Ready, r
<1>. QED
  BY <1>1, <1>4, <1>5, <1>6 DEF Resting, Staying

\* The record of the application is marked as terminated.
LEMMA MarkVisit ==
    ASSUME NEW s, NEW t, NEW a, NEW gs, NEW ls, NEW life, NEW inbox,
           Visit(s, t, a, gs, ls, life, inbox)
    PROVE  LET p == WithTerminated(s.list[1], TRUE)
               r == Put(s, p)
           IN  /\ Same(s, r, {"list"}) /\ Visit(r, t, a, gs, ls, life, inbox)
               /\ p = Guest(t, a, gs, TRUE) /\ Both(r.list, t, a, gs, TRUE, ls)
<1>0. PICK b \in BOOLEAN : Both(s.list, t, a, gs, b, ls)
  BY DEF Visit
<1>. DEFINE g == Guest(t, a, gs, b)
            d == Desk(ls)
            n == Guest(t, a, gs, TRUE)
            p == WithTerminated(s.list[1], TRUE)
            r == Put(s, p)
<1>1. s.list[1] = g /\ Of(s.list) = {g, d} /\ t # LauncherToken /\ a # Startup
  BY <1>0, OnGuest
<1>2. s.list = <<g, d>> /\ DOMAIN s = Fields
  BY <1>0 DEF Both, Visit, Proper
<1>3. p = n
  <2>1. \A x : WithTerminated(g, x) = Guest(t, a, gs, x)
    BY GuestMarked, Zenon
  <2>. HIDE DEF g
  <2>2. WithTerminated(g, TRUE) = n
    BY <2>1, Zenon
  <2>. QED
    BY <1>1, <2>2
<1>4. g.token = t /\ g.app = a /\ g.state = gs /\ d.token = LauncherToken /\ d.app = Startup
  BY GuestParts, DeskParts
<1>5. n.token = t /\ n.app = a /\ n.state = gs
  BY DEF Guest
<1>. HIDE DEF g, d, n, p, r
<1>6. r.list = <<n, d>> /\ Same(s, r, {"list"})
  <2>1. /\ p.token = g.token /\ p.app = g.app =>
             Put(s, p).list = <<p, d>> /\ Same(s, Put(s, p), {"list"})
    BY <1>1, <1>2, <1>4, PutTwo
  <2>. QED
    BY <1>3, <1>4, <1>5, <2>1 DEF r
<1>7. Both(r.list, t, a, gs, TRUE, ls)
  BY <1>0, <1>6 DEF Both, n, d
<1>8. /\ r.pending = s.pending /\ r.tokens = s.tokens /\ r.missions = s.missions
      /\ r.scheduling = s.scheduling /\ r.nativeQ = s.nativeQ /\ r.dangling = s.dangling
      /\ r.seen = s.seen /\ r.threads = s.threads /\ DOMAIN r = Fields
  BY <1>6 DEF Same, Fields
<1>9. Knows(r.list, s.seen)
  <2>1. Of(r.list) = {n, d}
    <3>1. n.token # d.token /\ n.app # d.app
      BY <1>1, <1>4, <1>5
    <3>. QED
      BY <1>6, <3>1, Two
  <2>2. Knows(s.list, s.seen)
    BY DEF Visit, Proper
  <2>. QED
    BY <1>1, <1>4, <1>5, <2>1, <2>2 DEF Knows
<1>10. Visit(r, t, a, gs, ls, life, inbox)
  <2>1. Proper(r)
    BY <1>8, <1>9 DEF Visit, Proper
  <2>2. s.threads = [u \in {t} |-> [native |-> FALSE, life |-> life, inbox |-> inbox]]
    BY DEF Visit
  <2>. QED
    BY <1>7, <1>8, <2>1, <2>2 DEF Visit
<1>. QED
  BY <1>3, <1>6, <1>7, <1>10 DEF r, p, n

\* The application is called to leave the foreground.
LEMMA GuestCalled ==
    ASSUME SingleTask, NEW s, NEW w, AbilitiesOf(w) = AbilitiesOf(s), w.amsQ = <<>>, Free(w),
           NEW t \in 1..TokenLimit, NEW a \in App, NEW gs, NEW ls, NEW life, NEW c,
           \/ gs = "FOREGROUND" /\ ls = "BACKGROUND" /\ life = "FOREGROUND"
           \/ gs = "BACKGROUND" /\ ls = "FOREGROUND" /\ life = "BACKGROUND",
           w.launcher = ls, Visit(w, t, a, gs, ls, life, <<>>)
    PROVE  LET r == ScheduleLifecycleInner(w, Guest(t, a, gs, c), "BACKGROUND")
           IN  Good(s, r) /\ Free(r) /\ r.ret = "ok" /\ r.scheduling = w.scheduling
<1>. DEFINE r == ScheduleLifecycleInner(w, Guest(t, a, gs, c), "BACKGROUND")
<1>0. PICK b \in BOOLEAN : Both(w.list, t, a, gs, b, ls)
  BY DEF Visit
<1>1. MsgOf("BACKGROUND") = "BACKGROUND"
  BY DEF MsgOf
<1>2. /\ Same(w, r, {"threads", "ret"}) /\ r.ret = "ok"
      /\ Visit(r, t, a, gs, ls, life, Mail(t, MsgOf("BACKGROUND")))
  BY <1>0, CallGuest
<1>. HIDE DEF r
<1>3. Visit(r, t, a, gs, ls, life, Mail(t, "BACKGROUND"))
  BY <1>1, <1>2
<1>4. Free(r) /\ r.scheduling = w.scheduling /\ r.launcher = ls /\ r.amsQ = <<>>
  BY <1>2 DEF Free, Same, Fields
<1>5. Due(r, t, a, gs, ls, life, "BACKGROUND")
  BY <1>3, <1>4 DEF Due
<1>6. InSwitch(r, t, a)
  BY <1>4, <1>5 DEF InSwitch, Turn
<1>7. AbilitiesOf(r) = AbilitiesOf(w)
  <2>1. /\ AbilitiesOf(r) = {[app |-> a, life |-> life]}
        /\ AbilitiesOf(w) = {[app |-> a, life |-> life]}
    BY <1>3, Shown
  <2>. QED
    BY <2>1
<1>. QED
  BY <1>2, <1>4, <1>6, <1>7 DEF Good, OneStep, Stage, r

\* The record on top, when nobody has anything to do.
LEMMA OnTopOf ==
    ASSUME SingleTask, NEW s, NEW t, NEW a, Resting(s, t, a)
    PROVE  /\ s.list # <<>>
           /\ Empty(s, "FOREGROUND") =>
                /\ s.list[1].token = LauncherToken /\ s.list[1] = Desk("FOREGROUND")
                /\ Of(s.list) = {Desk("FOREGROUND")}
                /\ \A u : Has(s.list, u) <=> u = LauncherToken
                /\ \A x : HasApp(s.list, x) <=> x = Startup
           /\ Staying(s, t, a) =>
                /\ s.list[1].token = t /\ s.list[1].app = a /\ t # LauncherToken /\ a # Startup
                /\ \A u : Has(s.list, u) <=> u \in {t, LauncherToken}
                /\ \A x : HasApp(s.list, x) <=> x \in {a, Startup}
                /\ GetApp(s.list, a) = s.list[1]
           /\ \A gs, ls, life, inbox : Visit(s, t, a, gs, ls, life, inbox) =>
                /\ s.list[1].state = gs /\ Get(s.list, LauncherToken) = Desk(ls)
                /\ \E b \in BOOLEAN : /\ Both(s.list, t, a, gs, b, ls)
                                      /\ s.list[1] = Guest(t, a, gs, b)
<1>1. ASSUME NEW gs, NEW ls, NEW life, NEW inbox, Visit(s, t, a, gs, ls, life, inbox)
      PROVE  /\ s.list # <<>> /\ s.list[1].token = t /\ s.list[1].app = a /\ s.list[1].state = gs
             /\ t # LauncherToken /\ a # Startup
             /\ \A u : Has(s.list, u) <=> u \in {t, LauncherToken}
             /\ \A x : HasApp(s.list, x) <=> x \in {a, Startup}
             /\ GetApp(s.list, a) = s.list[1]
             /\ Get(s.list, LauncherToken) = Desk(ls)
             /\ \E b \in BOOLEAN : Both(s.list, t, a, gs, b, ls) /\ s.list[1] = Guest(t, a, gs, b)
  <2>1. PICK b \in BOOLEAN : Both(s.list, t, a, gs, b, ls)
    BY <1>1 DEF Visit
  <2>2. /\ s.list # <<>> /\ s.list[1] = Guest(t, a, gs, b)
        /\ t # LauncherToken /\ a # Startup
        /\ \A u : Has(s.list, u) <=> u \in {t, LauncherToken}
        /\ \A x : HasApp(s.list, x) <=> x \in {a, Startup}
        /\ GetApp(s.list, a) = s.list[1]
        /\ Get(s.list, LauncherToken) = Desk(ls)
    BY <2>1, OnGuest
  <2>3. s.list[1].token = t /\ s.list[1].app = a /\ s.list[1].state = gs
    BY <2>2, GuestParts
  <2>. QED
    BY <2>1, <2>2, <2>3
<1>2. ASSUME Empty(s, "FOREGROUND")
      PROVE  /\ s.list # <<>> /\ s.list[1].token = LauncherToken
             /\ s.list[1] = Desk("FOREGROUND") /\ Of(s.list) = {Desk("FOREGROUND")}
             /\ \A u : Has(s.list, u) <=> u = LauncherToken
             /\ \A x : HasApp(s.list, x) <=> x = Startup
  BY <1>2, OnDesk, DeskParts
<1>3. ASSUME Staying(s, t, a)
      PROVE  /\ s.list # <<>> /\ s.list[1].token = t /\ s.list[1].app = a
             /\ t # LauncherToken /\ a # Startup
             /\ \A u : Has(s.list, u) <=> u \in {t, LauncherToken}
             /\ \A x : HasApp(s.list, x) <=> x \in {a, Startup}
             /\ GetApp(s.list, a) = s.list[1]
  BY <1>1, <1>3 DEF Staying
<1>. QED
  BY <1>1, <1>2, <1>3 DEF Resting

\* The ability u is terminated, or the launcher, which is only brought to leave.
LEMMA TokenReady ==
    ASSUME SingleTask, NEW s, NEW t, NEW a, Ready(s, t, a),
           NEW v, Same(s, v, Aside), Sane(v), Free(v), NEW u
    PROVE  Good(s, STerminateToken(v, u)) /\ Free(STerminateToken(v, u))
<1>. DEFINE r == STerminateToken(v, u)
            top == v.list[1]
            p == [top EXCEPT !.terminated = TRUE]
            marked == Put(v, p)
            i == Idle(v)
            Keeps == Good(s, i) /\ Free(i)
<1>1. /\ Resting(v, t, a) /\ v.amsQ = <<>> /\ v.list = s.list
      /\ AbilitiesOf(v) = AbilitiesOf(s) /\ DOMAIN v = Fields
  BY StageAside DEF Ready, Same
<1>2. Good(s, v)
  <2>1. Quieted(v, t, a)
    BY <1>1 DEF Quieted
  <2>. QED
    BY <1>1, <2>1 DEF Good, OneStep, Stage, Ready
<1>3. Keeps /\ Sane(i) /\ i.list = v.list /\ Same(s, i, Aside)
  <2>1. Good(s, i) /\ Free(i)
    BY <1>2, GoodOk
  <2>2. Same(v, i, {"scheduling"}) /\ Sane(i)
    BY <1>1, Flags
  <2>. HIDE DEF i
  <2>. QED
    BY <1>1, <2>1, <2>2 DEF Same, Fields, Aside
<1>4. /\ Good(s, Ok(i)) /\ Free(Ok(i))
  BY <1>3, GoodOk
<1>5. /\ Good(s, Error(i)) /\ Free(Error(i))
  <2>1. DOMAIN i = Fields
    BY <1>3 DEF Same
  <2>. HIDE DEF i
  <2>2. Same(i, Error(i), {"ret"}) /\ Sane(Error(i))
    BY <1>3, <2>1, Flags
  <2>3. Same(i, Error(i), {"ret", "scheduling"})
    BY <2>2 DEF Same
  <2>. QED
    BY <1>3, <2>2, <2>3, StillGood
<1>. HIDE DEF marked, i, p
<1>6. v.list # <<>>
  BY <1>1, OnTopOf
<1>7. CASE u = LauncherToken /\ ~(top.token # u /\ top.state = "BACKGROUND")
  <2>1. r = Ok(i)
    BY <1>6, <1>7 DEF STerminateToken, i
  <2>. QED
    BY <1>4, <2>1
<1>8. CASE u = LauncherToken /\ top.token # u /\ top.state = "BACKGROUND"
  <2>1. r = SchedulerLifecycle(i, LauncherToken, "BACKGROUND")
    BY <1>6, <1>8 DEF STerminateToken, i
  <2>2. s.list[1].token # LauncherToken /\ s.list[1].state = "BACKGROUND"
    BY <1>1, <1>8
  <2>. HIDE DEF r, top
  <2>3. Good(s, r) /\ Free(r)
    BY <1>3, <2>1, <2>2, LauncherCalled
  <2>. QED
    BY <2>3 DEF r
<1>9. CASE u # LauncherToken /\ u # top.token
  <2>1. ~Has(v.list, u)
    <3>1. CASE Empty(v, "FOREGROUND")
      BY <1>1, <1>9, <3>1, OnTopOf
    <3>2. CASE Staying(v, t, a)
      BY <1>1, <1>9, <3>2, OnTopOf
    <3>. QED
      BY <1>1, <3>1, <3>2 DEF Resting
  <2>2. r = Error(i)
    BY <1>6, <1>9, <2>1 DEF STerminateToken, DeleteRecordInfo, i
  <2>. QED
    BY <1>5, <2>2
<1>10. CASE u # LauncherToken /\ u = top.token
  <2>1. r = ScheduleLifecycleInner(marked, p, "BACKGROUND")
    BY <1>6, <1>10 DEF STerminateToken, marked, p
  <2>2. Staying(v, t, a)
    BY <1>1, <1>10, OnTopOf DEF Resting
  <2>3. ASSUME NEW gs, NEW ls, NEW life, v.launcher = ls,
               \/ gs = "FOREGROUND" /\ ls = "BACKGROUND" /\ life = "FOREGROUND"
               \/ gs = "BACKGROUND" /\ ls = "FOREGROUND" /\ life = "BACKGROUND",
               Visit(v, t, a, gs, ls, life, <<>>)
        PROVE  Good(s, r) /\ Free(r)
    <3>1. p = WithTerminated(v.list[1], TRUE)
      BY DEF p, WithTerminated
    <3>2. /\ Same(v, marked, {"list"}) /\ Visit(marked, t, a, gs, ls, life, <<>>)
          /\ p = Guest(t, a, gs, TRUE)
      BY <2>3, <3>1, MarkVisit DEF marked
    <3>3. /\ marked.amsQ = <<>> /\ marked.launcher = ls /\ Free(marked)
      BY <1>1, <2>3, <3>2 DEF Free, Same, Fields
    <3>4. AbilitiesOf(marked) = AbilitiesOf(s)
      <4>1. /\ AbilitiesOf(marked) = {[app |-> a, life |-> life]}
            /\ AbilitiesOf(v) = {[app |-> a, life |-> life]}
        BY <2>3, <3>2, Shown
      <4>. QED
        BY <1>1, <4>1
    <3>5. t \in 1..TokenLimit /\ a \in App
      BY DEF Ready
    <3>6. r = ScheduleLifecycleInner(marked, Guest(t, a, gs, TRUE), "BACKGROUND")
      BY <2>1, <3>2
    <3>. HIDE DEF r
    <3>7. \E c : c = TRUE
      OBVIOUS
    <3>8. PICK c : c = TRUE
      BY <3>7
    <3>9. r = ScheduleLifecycleInner(marked, Guest(t, a, gs, c), "BACKGROUND")
      BY <3>6, <3>8
    <3>. QED
      BY <2>3, <3>2, <3>3, <3>4, <3>5, <3>9, GuestCalled
  <2>. HIDE DEF r
  <2>4. Good(s, r) /\ Free(r)
    BY <2>2, <2>3 DEF Staying
  <2>. QED
    BY <2>4 DEF r
<1>. QED
  BY <1>7, <1>8, <1>9, <1>10

\* A start that replaces the application on top fails after it has put the
\* termination of that application among the operations held back.
Replacing(s, r) ==
    /\ AbilitiesOf(r) = AbilitiesOf(s) /\ r.ret = "error"
    /\ r.amsQ = <<>> /\ r.pendingRecord = {}
    /\ \E t \in 1..TokenLimit, a \in App :
          Staying(r, t, a) /\ r.ops = <<[id |-> "terminate", token |-> t]>>

\* A request has been handled, except for the operations held back.
Handled(s, r) ==
    \/ Good(s, r) /\ (Free(r) \/ (r.scheduling /\ r.ret = "ok"))
    \/ Replacing(s, r)

\* What Scheduling, Idle and the return values do to a service that is ready.
LEMMA ReadyFlags ==
    ASSUME NEW s, NEW t, NEW a, Ready(s, t, a)
    PROVE  /\ Same(s, Scheduling(s), Aside) /\ Sane(Scheduling(s)) /\ Free(Scheduling(s))
           /\ Same(s, s, Aside) /\ Sane(s) /\ Free(s) /\ DOMAIN s = Fields
           /\ Good(s, s) /\ Good(s, Scheduling(s)) /\ Good(s, Ok(s)) /\ Good(s, Error(s))
           /\ Free(Ok(s)) /\ Free(Error(s))
<1>1. DOMAIN s = Fields /\ Sane(s) /\ Free(s)
  BY StageSane DEF Ready
<1>2. /\ Same(s, Scheduling(s), {"scheduling"}) /\ Sane(Scheduling(s))
      /\ Same(s, Ok(s), {"ret"}) /\ Sane(Ok(s)) /\ Same(s, Error(s), {"ret"}) /\ Sane(Error(s))
  BY <1>1, Flags
<1>3. Same(s, s, Aside)
  BY <1>1 DEF Same
<1>4. /\ Same(s, Scheduling(s), Aside) /\ Same(s, Ok(s), Aside) /\ Same(s, Error(s), Aside)
      /\ Free(Scheduling(s)) /\ Free(Ok(s)) /\ Free(Error(s))
  BY <1>1, <1>2 DEF Same, Fields, Aside, Free
<1>. QED
  BY <1>1, <1>2, <1>3, <1>4, StillResting

\* The same of a service that schedules.
LEMMA BusyFlags ==
    ASSUME NEW s, NEW t, NEW a, Ready(s, t, a)
    PROVE  LET v == Scheduling(s)
           IN  /\ Good(s, Ok(v)) /\ Free(Ok(v)) /\ Good(s, Error(v)) /\ Free(Error(v))
               /\ Good(s, Error(Idle(v))) /\ Free(Error(Idle(v)))
               /\ Good(s, Error(Idle(s))) /\ Free(Error(Idle(s)))
<1>. DEFINE v == Scheduling(s)
<1>1. Good(s, v) /\ Free(v) /\ DOMAIN v = Fields /\ Sane(v) /\ Good(s, s) /\ Free(s)
  BY ReadyFlags DEF Same
<1>2. DOMAIN s = Fields /\ Sane(s)
  BY ReadyFlags
<1>. HIDE DEF v
<1>3. ASSUME NEW u, Good(s, u), Free(u), DOMAIN u = Fields, Sane(u)
      PROVE  /\ Good(s, Ok(u)) /\ Free(Ok(u)) /\ Good(s, Error(u)) /\ Free(Error(u))
             /\ Good(s, Idle(u)) /\ Free(Idle(u)) /\ DOMAIN Idle(u) = Fields /\ Sane(Idle(u))
  <2>1. /\ Same(u, Ok(u), {"ret"}) /\ Sane(Ok(u)) /\ Same(u, Error(u), {"ret"}) /\ Sane(Error(u))
        /\ Same(u, Idle(u), {"scheduling"}) /\ Sane(Idle(u))
    BY <1>3, Flags
  <2>2. /\ Same(u, Ok(u), {"ret", "scheduling"}) /\ Same(u, Error(u), {"ret", "scheduling"})
        /\ Same(u, Idle(u), {"ret", "scheduling"}) /\ DOMAIN Idle(u) = Fields
    BY <2>1 DEF Same
  <2>. QED
    BY <1>3, <2>1, <2>2, StillGood
<1>4. /\ Good(s, Idle(v)) /\ Free(Idle(v)) /\ DOMAIN Idle(v) = Fields /\ Sane(Idle(v))
      /\ Good(s, Idle(s)) /\ Free(Idle(s)) /\ DOMAIN Idle(s) = Fields /\ Sane(Idle(s))
  BY <1>1, <1>2, <1>3
<1>. QED
  BY <1>1, <1>3, <1>4 DEF v

\* TerminateAbility and ForceStop.
LEMMA TerminateReady ==
    ASSUME SingleTask, NEW s, NEW t, NEW a, Ready(s, t, a)
    PROVE  /\ \A u : Handled(s, TerminateAbility(s, u))
           /\ \A x : Handled(s, ForceStop(s, x))
<1>1. \A u : Good(s, STerminateToken(Scheduling(s), u)) /\ Free(STerminateToken(Scheduling(s), u))
  BY ReadyFlags, TokenReady
<1>2. s.scheduling = FALSE /\ MultiTasks = FALSE
  BY SliteAssumption DEF Ready, SingleTask
<1>3. \A u : Handled(s, TerminateAbility(s, u))
  BY <1>1, <1>2 DEF TerminateAbility, TerminateToken, Handled
<1>4. ASSUME NEW x PROVE Handled(s, ForceStop(s, x))
  <2>1. CASE x = Startup \/ HasApp(s.list, x)
    BY <1>1, <1>2, <2>1 DEF ForceStop, TerminateToken, Handled
  <2>2. CASE ~(x = Startup \/ HasApp(s.list, x))
    <3>1. ForceStop(s, x) = Error(Idle(s))
      BY <1>2, <2>2 DEF ForceStop
    <3>. QED
      BY <3>1, BusyFlags DEF Handled
  <2>. QED
    BY <2>1, <2>2
<1>. QED
  BY <1>3, <1>4

\* ForceStopBundle: an application is not stopped; the launcher comes to the front.
LEMMA BundleReady ==
    ASSUME SingleTask, NEW s, NEW t, NEW a, Ready(s, t, a), NEW u, NEW fails
    PROVE  Handled(s, ForceStopBundle(s, u, fails))
<1>. DEFINE r == ForceStopBundle(s, u, fails)
<1>1. s.scheduling = FALSE /\ MultiTasks = FALSE
  BY SliteAssumption DEF Ready, SingleTask
<1>2. Has(s.list, LauncherToken)
  BY OnTopOf DEF Ready, Resting
<1>3. CASE u = LauncherToken
  <2>1. r = Ok(s)
    BY <1>1, <1>3 DEF ForceStopBundle, SForceStopBundle
  <2>. QED
    BY <2>1, ReadyFlags DEF Handled
<1>4. CASE u # LauncherToken /\ Get(s.list, LauncherToken).state = "FOREGROUND"
  <2>1. r = Ok(Scheduling(s))
    BY <1>1, <1>2, <1>4 DEF ForceStopBundle, SForceStopBundle
  <2>. QED
    BY <2>1, BusyFlags DEF Handled
<1>5. CASE u # LauncherToken /\ Get(s.list, LauncherToken).state # "FOREGROUND"
  <2>. DEFINE v == Scheduling(s)
  <2>1. r = SchedulerLifecycle(v, LauncherToken, "FOREGROUND")
    BY <1>1, <1>2, <1>5 DEF ForceStopBundle, SForceStopBundle
  <2>2. Same(s, v, Aside) /\ Sane(v) /\ Free(v)
    BY ReadyFlags
  <2>. HIDE DEF v, r
  <2>3. Good(s, r) /\ Free(r)
    BY <2>1, <2>2, LauncherCalled
  <2>. QED
    BY <2>3 DEF Handled, r
<1>. QED
  BY <1>3, <1>4, <1>5

\* Nothing is deleted, and the observer hears nothing new.
LEMMA NoneDeleted ==
    ASSUME NEW s, NEW t, NEW a, Ready(s, t, a), NEW v, Same(s, v, {})
    PROVE  LET r == NotifyAbilityRecordCleanup([DeleteThreads(v, {}) EXCEPT !.list = s.list], {})
           IN  Ready(r, t, a) /\ AbilitiesOf(r) = AbilitiesOf(s)
<1>. DEFINE u == DeleteThreads(v, {})
            w == [u EXCEPT !.list = s.list]
            sn == [x \in App |-> IF \E q \in {} : q.app = x THEN "GONE" ELSE w.seen[x]]
            r == NotifyAbilityRecordCleanup(w, {})
            th == [k \in DOMAIN s.threads |-> s.threads[k]]
<1>1. /\ DOMAIN s = Fields /\ s.nativeQ = <<>> /\ s.dangling = FALSE
      /\ s.seen = [x \in App |-> s.seen[x]]
  BY DEF Ready, Resting, Staying, Empty, Visit, Proper, Knows
<1>2. /\ DOMAIN v = Fields /\ v.nativeQ = <<>> /\ v.dangling = FALSE /\ v.threads = s.threads
  BY <1>1 DEF Same, Fields
<1>3. Same(v, u, {"threads"}) /\ u.threads = th
  <2>1. \A q \in {} : q.thread = FALSE
    OBVIOUS
  <2>2. Same(v, u, {"threads"}) /\ u.threads = [k \in DOMAIN v.threads |-> v.threads[k]]
    BY <1>2, <2>1, NothingStops
  <2>. QED
    BY <1>2, <2>2
<1>. HIDE DEF u, th
<1>4. /\ Same(s, w, {"threads"}) /\ w.threads = th /\ w.seen = s.seen
  BY <1>3 DEF Same, Fields
<1>5. sn = s.seen
  BY <1>1, <1>4
<1>6. r = [w EXCEPT !.seen = sn]
  BY DEF NotifyAbilityRecordCleanup
<1>. HIDE DEF w, sn, r
<1>7. Same(s, r, {"threads"}) /\ r.threads = th
  BY <1>4, <1>5, <1>6 DEF Same, Fields
<1>8. /\ r.pending = s.pending /\ r.tokens = s.tokens /\ r.missions = s.missions
      /\ r.scheduling = s.scheduling /\ r.nativeQ = s.nativeQ /\ r.dangling = s.dangling
      /\ r.seen = s.seen /\ r.list = s.list /\ r.launcher = s.launcher /\ r.amsQ = s.amsQ
      /\ r.ops = s.ops /\ r.pendingRecord = s.pendingRecord /\ DOMAIN r = Fields
  BY <1>7 DEF Same, Fields
<1>9. Proper(s) => Proper(r)
  BY <1>8 DEF Proper
<1>10. ASSUME Empty(s, "FOREGROUND") PROVE Empty(r, "FOREGROUND") /\ AbilitiesOf(r) = AbilitiesOf(s)
  <2>1. DOMAIN r.threads = {}
    BY <1>7, <1>10 DEF Empty, th
  <2>2. Empty(r, "FOREGROUND")
    BY <1>8, <1>9, <1>10, <2>1 DEF Empty
  <2>3. AbilitiesOf(r) = {} /\ AbilitiesOf(s) = {}
    BY <1>10, <2>2, Shown
  <2>. QED
    BY <2>2, <2>3
<1>11. ASSUME NEW gs, NEW ls, NEW life, Visit(s, t, a, gs, ls, life, <<>>)
       PROVE  Visit(r, t, a, gs, ls, life, <<>>) /\ AbilitiesOf(r) = AbilitiesOf(s)
  <2>1. r.threads = [k \in {t} |-> [native |-> FALSE, life |-> life, inbox |-> <<>>]]
    <3>1. s.threads = [k \in {t} |-> [native |-> FALSE, life |-> life, inbox |-> <<>>]]
      BY <1>11 DEF Visit
    <3>. QED
      BY <1>7, <3>1 DEF th
  <2>2. Visit(r, t, a, gs, ls, life, <<>>)
    BY <1>8, <1>9, <1>11, <2>1 DEF Visit
  <2>3. /\ AbilitiesOf(r) = {[app |-> a, life |-> life]}
        /\ AbilitiesOf(s) = {[app |-> a, life |-> life]}
    BY <1>11, <2>2, Shown
  <2>. QED
    BY <2>2, <2>3
<1>12. Resting(r, t, a) /\ AbilitiesOf(r) = AbilitiesOf(s)
  BY <1>8, <1>10, <1>11 DEF Ready, Resting, Staying
<1>13. Ready(r, t, a)
  BY <1>8, <1>12 DEF Ready, Free
<1>. QED
  BY <1>12, <1>13 DEF r, w, u

\* The list of a service that is ready.
LEMMA ReadyList ==
    ASSUME SingleTask, NEW s, NEW t, NEW a, Ready(s, t, a)
    PROVE  /\ s.list # <<>> /\ Keep(s.list, DOMAIN s.list) = s.list
           /\ \A i \in DOMAIN s.list : i = 1 \/ s.list[i].token = LauncherToken
           /\ 1 \in DOMAIN s.list
<1>1. ASSUME Empty(s, "FOREGROUND")
      PROVE  /\ Keep(s.list, DOMAIN s.list) = s.list /\ s.list # <<>> /\ 1 \in DOMAIN s.list
             /\ \A i \in DOMAIN s.list : i = 1 \/ s.list[i].token = LauncherToken
  <2>1. DOMAIN s.list = {1} /\ Keep(s.list, {1}) = s.list /\ s.list # <<>>
    BY <1>1, OnDesk
  <2>. QED
    BY <2>1
<1>2. ASSUME NEW gs, NEW ls, NEW life, Visit(s, t, a, gs, ls, life, <<>>)
      PROVE  /\ Keep(s.list, DOMAIN s.list) = s.list /\ s.list # <<>> /\ 1 \in DOMAIN s.list
             /\ \A i \in DOMAIN s.list : i = 1 \/ s.list[i].token = LauncherToken
  <2>1. PICK b \in BOOLEAN : Both(s.list, t, a, gs, b, ls)
    BY <1>2 DEF Visit
  <2>2. /\ DOMAIN s.list = {1, 2} /\ Keep(s.list, {1, 2}) = s.list /\ s.list # <<>>
        /\ s.list[2] = Desk(ls)
    BY <2>1, OnGuest
  <2>3. s.list[2].token = LauncherToken
    BY <2>2, DeskParts
  <2>. QED
    BY <2>2, <2>3
<1>. QED
  BY <1>1, <1>2 DEF Ready, Resting, Staying

\* TerminateMission: no other record is deleted, for the launcher stays.
LEMMA MissionReady ==
    ASSUME SingleTask, NEW s, NEW t, NEW a, Ready(s, t, a), NEW m
    PROVE  Handled(s, TerminateMission(s, m))
<1>. DEFINE others == GetAbilityList(s.list, m) \ {s.list[1]}
            Stays(r) == r.token = LauncherToken \/ (MultiTasks /\ IsPermanentAbility(r))
            left == DeleteRecords(s, {r \in others : ~Stays(r)})
            v == [s EXCEPT !.async = s.async]
            r1 == TerminateMission(s, m)
<1>1. /\ s.scheduling = FALSE /\ MultiTasks = FALSE /\ DOMAIN s = Fields
      /\ s.list # <<>> /\ Keep(s.list, DOMAIN s.list) = s.list
      /\ \A i \in DOMAIN s.list : i = 1 \/ s.list[i].token = LauncherToken
      /\ s.nativeQ = <<>> /\ s.dangling = FALSE
  <2>1. s.nativeQ = <<>> /\ s.dangling = FALSE
    BY DEF Ready, Resting, Staying, Empty, Visit, Proper
  <2>. QED
    BY <2>1, ReadyList, ReadyFlags, SliteAssumption DEF Ready, SingleTask
<1>2. {r \in others : ~Stays(r)} = {}
  BY <1>1 DEF GetAbilityList
<1>3. Same(s, v, {})
  BY <1>1 DEF Same, Fields
<1>4. left = NotifyAbilityRecordCleanup([DeleteThreads(v, {}) EXCEPT !.list = s.list], {})
  <2>1. DeleteAbilityThread(s, {}) = DeleteThreads(v, {})
    BY <1>1 DEF DeleteAbilityThread, Fields
  <2>2. {i \in DOMAIN s.list : s.list[i] \notin {}} = DOMAIN s.list
    OBVIOUS
  <2>3. DeleteThreads(v, {}).list = s.list
    <3>1. \A q \in {} : q.thread = FALSE
      OBVIOUS
    <3>2. DOMAIN v = Fields /\ v.nativeQ = <<>> /\ v.dangling = FALSE
      BY <1>1, <1>3 DEF Same, Fields
    <3>. HIDE DEF v
    <3>3. Same(v, DeleteThreads(v, {}), {"threads"})
      BY <3>1, <3>2, NothingStops
    <3>. QED
      BY <1>3, <3>3 DEF Same, Fields
  <2>. HIDE DEF v, others, Stays
  <2>. QED
    BY <1>1, <1>2, <2>1, <2>2, <2>3 DEF DeleteRecords
<1>5. Ready(left, t, a) /\ AbilitiesOf(left) = AbilitiesOf(s)
  <2>. HIDE DEF left, v
  <2>. QED
    BY <1>3, <1>4, NoneDeleted
<1>6. CASE \E r \in others : r.token = LauncherToken
  <2>1. r1 = Ok(STerminateToken(left, LauncherToken))
    BY <1>1, <1>6 DEF TerminateMission
  <2>. HIDE DEF left, r1
  <2>2. Same(left, left, Aside) /\ Sane(left) /\ Free(left)
    BY <1>5, ReadyFlags
  <2>3. /\ Good(left, STerminateToken(left, LauncherToken))
        /\ Free(STerminateToken(left, LauncherToken))
    BY <1>5, <2>2, TokenReady
  <2>4. Good(s, STerminateToken(left, LauncherToken))
    BY <1>5, <2>3 DEF Good
  <2>5. Good(s, r1) /\ Free(r1)
    BY <2>1, <2>3, <2>4, GoodOk
  <2>. QED
    BY <2>5 DEF Handled, r1
<1>7. CASE ~\E r \in others : r.token = LauncherToken
  <2>1. r1 = Ok(left)
    BY <1>1, <1>7 DEF TerminateMission
  <2>. HIDE DEF left, r1
  <2>2. Good(left, Ok(left)) /\ Free(Ok(left))
    BY <1>5, ReadyFlags
  <2>3. Good(s, r1) /\ Free(r1)
    BY <1>5, <2>1, <2>2 DEF Good
  <2>. QED
    BY <2>3 DEF Handled, r1
<1>. QED
  BY <1>6, <1>7

\* TerminateAll: the top record and the launcher are all there is.
LEMMA AllReady ==
    ASSUME SingleTask, NEW s, NEW t, NEW a, Ready(s, t, a), NEW x
    PROVE  Handled(s, TerminateAll(s, x))
<1>. DEFINE S == {i \in DOMAIN s.list :
                    i = 1 \/ IsPermanentAbility(s.list[i]) \/ s.list[i].app = x}
            kept == PopAllAbility(s.list, x)
            gone == {s.list[i] : i \in {j \in DOMAIN s.list : ~Has(kept, s.list[j].token)}}
            left == NotifyAbilityRecordCleanup([DeleteThreads(s, {}) EXCEPT !.list = s.list], {})
            r == TerminateAll(s, x)
<1>1. /\ s.scheduling = FALSE
      /\ s.list # <<>> /\ Keep(s.list, DOMAIN s.list) = s.list
      /\ \A i \in DOMAIN s.list : i = 1 \/ s.list[i].token = LauncherToken
  BY ReadyList DEF Ready
<1>2. S = DOMAIN s.list
  BY <1>1 DEF IsPermanentAbility
<1>3. kept = s.list
  BY <1>1, <1>2 DEF PopAllAbility
<1>4. gone = {}
  <2>1. \A j \in DOMAIN s.list : Has(s.list, s.list[j].token)
    BY DEF Has
  <2>. HIDE DEF kept
  <2>. QED
    BY <1>3, <2>1
<1>5. r = Ok(left)
  <2>1. r = Ok(NotifyAbilityRecordCleanup([DeleteThreads(s, gone) EXCEPT !.list = kept], gone))
    BY <1>1 DEF TerminateAll
  <2>. HIDE DEF gone, kept, r
  <2>. QED
    BY <1>3, <1>4, <2>1
<1>6. Ready(left, t, a) /\ AbilitiesOf(left) = AbilitiesOf(s)
  <2>1. Same(s, s, {})
    BY ReadyFlags DEF Same
  <2>. QED
    BY <2>1, NoneDeleted
<1>. HIDE DEF left, r
<1>7. Good(left, Ok(left)) /\ Free(Ok(left))
  BY <1>6, ReadyFlags
<1>8. Good(s, r) /\ Free(r)
  BY <1>5, <1>6, <1>7 DEF Good
<1>. QED
  BY <1>8 DEF Handled, r

\* The tokens of applications are not that of the launcher.
LEMMA NextTokens ==
    \A n \in 0..TokenLimit : NextToken(n) \in 1..TokenLimit /\ NextToken(n) # 0
BY Numbers DEF NextToken

\* A service that schedules while nothing is on its way, and so does nothing more.
LEMMA Waits ==
    ASSUME NEW s, NEW t, NEW a, Ready(s, t, a),
           NEW v, Same(s, v, Aside), Sane(v), v.scheduling = TRUE
    PROVE  Handled(s, Ok(v)) /\ \A x : Handled(s, Ok([v EXCEPT !.pendingRecord = x]))
<1>1. DOMAIN v = Fields
  BY DEF Same
<1>2. ASSUME NEW u, Same(v, u, {"pendingRecord"}) PROVE Handled(s, Ok(u))
  <2>1. DOMAIN u = Fields /\ Same(s, u, Aside) /\ u.scheduling = TRUE /\ Sane(u)
    BY <1>1, <1>2 DEF Same, Fields, Aside, Sane
  <2>2. Same(u, Ok(u), {"ret"}) /\ Sane(Ok(u)) /\ Ok(u).ret = "ok"
    BY <2>1, Flags
  <2>3. Same(s, Ok(u), Aside) /\ Ok(u).scheduling
    BY <2>1, <2>2 DEF Same, Fields, Aside
  <2>4. Good(s, Ok(u))
    BY <2>2, <2>3, StillResting
  <2>. QED
    BY <2>2, <2>3, <2>4 DEF Handled
<1>3. Same(v, v, {"pendingRecord"})
  BY <1>1 DEF Same
<1>4. \A x : Same(v, [v EXCEPT !.pendingRecord = x], {"pendingRecord"})
  BY <1>1 DEF Same, Fields
<1>. QED
  BY <1>2, <1>3, <1>4

\* The first application beside the launcher.
LEMMA FirstStart ==
    ASSUME SingleTask, NEW s, NEW t, NEW a, Ready(s, t, a), Empty(s, "FOREGROUND"),
           NEW w, w.app \in App, w.app # Startup, NEW fails
    PROVE  Handled(s, SPreCheckStartAbility(Scheduling(s), w, fails))
<1>. DEFINE v == Scheduling(s)
            k == NextToken(v.tokens)
            z == [v EXCEPT !.tokens = NextToken(v.tokens)]
            q == Fresh(k, w.app)
            c == CreateAppTask(AddRecord(z, q), q, fails)
            e == [DeleteThreads(c, {[q EXCEPT !.thread = k \in DOMAIN c.threads]})
                     EXCEPT !.list = Erase(@, k)]
            r == SPreCheckStartAbility(v, w, fails)
<1>1. /\ Same(s, v, Aside) /\ Sane(v) /\ Free(v) /\ DOMAIN v = Fields /\ v.scheduling = TRUE
      /\ v.list = s.list /\ v.amsQ = <<>> /\ v.launcher = "FOREGROUND"
  <2>1. Same(s, v, Aside) /\ Sane(v) /\ Free(v) /\ DOMAIN v = Fields
    BY ReadyFlags DEF Same
  <2>2. v.scheduling = TRUE
    BY ReadyFlags DEF Scheduling, Fields
  <2>3. s.launcher = "FOREGROUND"
    <3>1. s.list[1].token = LauncherToken
      BY OnDesk, DeskParts
    <3>. QED
      BY <3>1, OnTopOf DEF Ready, Resting
  <2>. QED
    BY <2>1, <2>2, <2>3, StageAside DEF Ready
<1>2. Empty(v, "FOREGROUND") /\ MultiTasks = FALSE /\ ~HasApp(v.list, w.app)
  <2>1. Empty(v, "FOREGROUND")
    BY <1>1, StageAside
  <2>. QED
    BY <2>1, OnDesk, SliteAssumption DEF SingleTask
<1>3. CASE IsNativeApp(w.app) \/ w.app \in Pathless
  <2>1. r = Error(v)
    BY <1>3 DEF SPreCheckStartAbility
  <2>. QED
    BY <2>1, BusyFlags DEF Handled
<1>4. CASE ~IsNativeApp(w.app) /\ w.app \notin Pathless /\ v.pending # 0
  <2>. DEFINE x == {AbilityRecord(v.pending, w.app, IsNativeApp(w.app), 0)}
  <2>1. r = Ok([v EXCEPT !.pendingRecord = x])
    BY <1>2, <1>4 DEF SPreCheckStartAbility
  <2>. HIDE DEF v, x
  <2>2. Handled(s, Ok([v EXCEPT !.pendingRecord = x]))
    BY <1>1, Waits
  <2>. QED
    BY <2>1, <2>2 DEF v
<1>5. CASE ~IsNativeApp(w.app) /\ w.app \notin Pathless /\ v.pending = 0
  <2>1. k \in 1..TokenLimit /\ k # 0
    BY <1>1, NextTokens DEF Sane
  <2>2. GeneratedToken(v.tokens) = k
    BY <1>2 DEF GeneratedToken
  <2>3. AbilityRecord(k, w.app, IsNativeApp(w.app), 0) = q
    <3>1. IsNativeApp(w.app) = FALSE
      BY <1>5 DEF IsNativeApp
    <3>. QED
      BY <3>1, Zenon DEF Fresh
  <2>4. r = IF c.ret # "error" THEN Ok(c) ELSE e
    BY <1>2, <1>5, <2>2, <2>3 DEF SPreCheckStartAbility
  <2>5. Same(v, z, {"tokens"}) /\ z.tokens = k
    BY <1>1 DEF Same, Fields
  <2>. HIDE DEF v, k, z
  <2>6. /\ Same(s, z, Aside) /\ Sane(z) /\ Free(z) /\ DOMAIN z = Fields
        /\ z.amsQ = <<>> /\ z.launcher = "FOREGROUND"
    <3>1. z.tokens \in 0..TokenLimit
      BY <2>1, <2>5
    <3>. QED
      BY <1>1, <2>5, <3>1 DEF Same, Fields, Aside, Free, Sane
  <2>7. Empty(z, "FOREGROUND") /\ AbilitiesOf(s) = {}
    BY <2>6, StageAside, Shown
  <2>8. CASE w.app \in fails
    <3>1. /\ c.ret = "error" /\ e.ret = "error" /\ Empty(e, "FOREGROUND")
          /\ Same(z, e, {"list", "threads", "failed", "ret"})
      BY <2>1, <2>7, <2>8, NotCreated
    <3>. HIDE DEF c, e
    <3>2. /\ e.launcher = "FOREGROUND" /\ e.amsQ = <<>> /\ Free(e)
      BY <2>6, <3>1 DEF Same, Fields, Free
    <3>3. Quieted(e, t, a)
      BY <3>1, <3>2 DEF Quieted, Resting
    <3>4. AbilitiesOf(e) = {}
      BY <3>1, Shown
    <3>5. Good(s, e)
      BY <2>7, <3>3, <3>4 DEF Good, OneStep, Stage, Ready
    <3>6. r = e
      BY <2>4, <3>1
    <3>7. Handled(s, e)
      BY <3>2, <3>5 DEF Handled
    <3>. QED
      BY <3>6, <3>7 DEF v
  <2>9. CASE w.app \notin fails
    <3>1. /\ Visit(c, k, w.app, "STOP", "FOREGROUND", "NONE", <<>>)
          /\ Same(z, c, {"list", "threads", "async", "launcher", "amsQ", "ret"})
          /\ c.launcher = "BACKGROUND" /\ c.amsQ = <<Report(LauncherToken, "BACKGROUND")>>
          /\ c.ret = "ok"
      BY <2>1, <2>6, <2>7, <2>9, Arrived
    <3>. HIDE DEF c, e
    <3>2. Free(c)
      BY <2>6, <3>1 DEF Same, Fields, Free
    <3>3. InSwitch(c, k, w.app)
      BY <3>1, <3>2 DEF InSwitch, AtHome
    <3>4. AbilitiesOf(c) = {[app |-> w.app, life |-> "NONE"]}
      BY <3>1, Shown
    <3>5. Good(s, c)
      BY <2>1, <2>7, <3>3, <3>4 DEF Good, OneStep, Stage
    <3>6. Good(s, Ok(c)) /\ Free(Ok(c))
      BY <3>2, <3>5, GoodOk
    <3>7. r = Ok(c)
      BY <2>4, <3>1
    <3>8. Handled(s, Ok(c))
      BY <3>6 DEF Handled
    <3>. QED
      BY <3>7, <3>8 DEF v
  <2>. QED
    BY <2>8, <2>9
<1>. QED
  BY <1>3, <1>4, <1>5

\* The service that schedules, before it does anything.
LEMMA Starts ==
    ASSUME SingleTask, NEW s, NEW t, NEW a, Ready(s, t, a)
    PROVE  LET v == Scheduling(s)
           IN  /\ Same(s, v, Aside) /\ Sane(v) /\ Free(v) /\ DOMAIN v = Fields
               /\ v.scheduling = TRUE /\ v.list = s.list /\ v.amsQ = <<>>
               /\ v.launcher = s.launcher /\ AbilitiesOf(v) = AbilitiesOf(s)
               /\ Resting(v, t, a) /\ MultiTasks = FALSE /\ v.list # <<>>
<1>. DEFINE v == Scheduling(s)
<1>1. Same(s, v, Aside) /\ Sane(v) /\ Free(v) /\ DOMAIN v = Fields
  BY ReadyFlags DEF Same
<1>2. v.scheduling = TRUE
  BY ReadyFlags DEF Scheduling, Fields
<1>. HIDE DEF v
<1>3. /\ v.list = s.list /\ v.amsQ = <<>> /\ v.launcher = s.launcher
      /\ AbilitiesOf(v) = AbilitiesOf(s) /\ Resting(v, t, a)
  BY <1>1, StageAside DEF Ready
<1>4. MultiTasks = FALSE /\ v.list # <<>>
  BY <1>3, OnTopOf, SliteAssumption DEF SingleTask
<1>. QED
  BY <1>1, <1>2, <1>3, <1>4 DEF v

\* The launcher is started.
LEMMA HomeStart ==
    ASSUME SingleTask, NEW s, NEW t, NEW a, Ready(s, t, a)
    PROVE  Handled(s, SStartLauncher(Scheduling(s)))
<1>. DEFINE v == Scheduling(s)
            top == v.list[1]
            r == SStartLauncher(v)
<1>1. /\ Same(s, v, Aside) /\ Sane(v) /\ Free(v) /\ v.list = s.list /\ v.amsQ = <<>>
      /\ AbilitiesOf(v) = AbilitiesOf(s) /\ Resting(v, t, a)
  BY Starts
<1>2. CASE top.token # LauncherToken /\ top.state # "BACKGROUND"
  <2>. DEFINE u == ScheduleLifecycleInner(v, top, "BACKGROUND")
  <2>1. r = Ok(u)
    BY <1>2 DEF SStartLauncher
  <2>. HIDE DEF v, u, r
  <2>2. Staying(v, t, a)
    BY <1>1, <1>2, OnTopOf DEF Resting
  <2>3. /\ Visit(v, t, a, "FOREGROUND", "BACKGROUND", "FOREGROUND", <<>>)
        /\ v.launcher = "BACKGROUND"
    BY <1>1, <1>2, <2>2, OnTopOf DEF Staying
  <2>4. PICK b \in BOOLEAN : top = Guest(t, a, "FOREGROUND", b)
    BY <1>1, <2>3, OnTopOf
  <2>5. u = ScheduleLifecycleInner(v, Guest(t, a, "FOREGROUND", b), "BACKGROUND")
    BY <2>4 DEF u
  <2>6. t \in 1..TokenLimit /\ a \in App
    BY DEF Ready
  <2>7. Good(s, u) /\ Free(u)
    BY <1>1, <2>3, <2>5, <2>6, GuestCalled
  <2>8. Good(s, r) /\ Free(r)
    BY <2>1, <2>7, GoodOk
  <2>. QED
    BY <2>8 DEF Handled, r, v
<1>3. CASE ~(top.token # LauncherToken /\ top.state # "BACKGROUND")
  <2>. DEFINE u == SchedulerLifecycle(v, LauncherToken, "FOREGROUND")
  <2>1. r = Ok(u)
    BY <1>3 DEF SStartLauncher
  <2>. HIDE DEF v, u, r
  <2>2. Good(s, u) /\ Free(u)
    BY <1>1, LauncherCalled DEF u
  <2>3. Good(s, r) /\ Free(r)
    BY <2>1, <2>2, GoodOk
  <2>. QED
    BY <2>3 DEF Handled, r, v
<1>. QED
  BY <1>2, <1>3

\* A start while an application is there.
LEMMA NextStart ==
    ASSUME SingleTask, NEW s, NEW t, NEW a, Ready(s, t, a), Staying(s, t, a),
           NEW w, w.app \in App, w.app # Startup, NEW fails
    PROVE  Handled(s, SStartApp(Scheduling(s), w, fails))
<1>. DEFINE v == Scheduling(s)
            top == v.list[1]
            r == SStartApp(v, w, fails)
<1>1. /\ Same(s, v, Aside) /\ Sane(v) /\ Free(v) /\ DOMAIN v = Fields
      /\ v.scheduling = TRUE /\ v.list = s.list /\ v.amsQ = <<>>
      /\ AbilitiesOf(v) = AbilitiesOf(s) /\ MultiTasks = FALSE
  BY Starts
<1>2. Staying(v, t, a)
  BY <1>1, StageAside
<1>3. /\ top.token = t /\ top.app = a /\ t # LauncherToken /\ a # Startup
      /\ \A x : HasApp(v.list, x) <=> x \in {a, Startup}
      /\ GetApp(v.list, a) = top /\ top.state \in {"FOREGROUND", "BACKGROUND"}
  <2>1. Resting(v, t, a)
    BY <1>2 DEF Resting
  <2>. HIDE DEF v
  <2>. QED
    <3>1. /\ top.token = t /\ top.app = a /\ t # LauncherToken /\ a # Startup
          /\ \A x : HasApp(v.list, x) <=> x \in {a, Startup}
          /\ GetApp(v.list, a) = top
      BY <1>2, <2>1, OnTopOf
    <3>2. \A gs, ls, life, inbox : Visit(v, t, a, gs, ls, life, inbox) => top.state = gs
      BY <2>1, OnTopOf
    <3>3. top.state \in {"FOREGROUND", "BACKGROUND"}
      BY <1>2, <3>2 DEF Staying
    <3>. QED
      BY <3>1, <3>3
<1>4. CASE ~IsNativeApp(w.app) /\ ~CheckResponse(w.app)
  <2>1. r = Error(Idle(v))
    BY <1>4 DEF SStartApp
  <2>. QED
    BY <2>1, BusyFlags DEF Handled
<1>5. CASE /\ ~(~IsNativeApp(w.app) /\ ~CheckResponse(w.app))
           /\ w.app = top.app /\ top.state = "BACKGROUND"
  <2>. DEFINE u == SchedulerLifecycle(v, LauncherToken, "BACKGROUND")
  <2>1. r = Ok(u)
    BY <1>3, <1>5 DEF SStartApp
  <2>2. s.list[1].token # LauncherToken /\ s.list[1].state = "BACKGROUND"
    BY <1>1, <1>3, <1>5
  <2>. HIDE DEF v, u, r, top
  <2>3. Good(s, u) /\ Free(u)
    BY <1>1, <2>2, LauncherCalled DEF u
  <2>4. Good(s, r) /\ Free(r)
    BY <2>1, <2>3, GoodOk
  <2>. QED
    BY <2>4 DEF Handled, r, v
<1>6. CASE /\ ~(~IsNativeApp(w.app) /\ ~CheckResponse(w.app))
           /\ w.app = top.app /\ top.state # "BACKGROUND"
  <2>1. r = SPreCheckStartAbility(v, w, fails)
    BY <1>3, <1>6 DEF SStartApp
  <2>2. HasApp(v.list, w.app) /\ GetApp(v.list, w.app).state # "BACKGROUND"
    BY <1>3, <1>6
  <2>3. CASE IsNativeApp(w.app) \/ w.app \in Pathless
    <3>1. r = Error(v)
      BY <2>1, <2>3 DEF SPreCheckStartAbility
    <3>. QED
      BY <3>1, BusyFlags DEF Handled
  <2>4. CASE ~IsNativeApp(w.app) /\ w.app \notin Pathless
    <3>1. r = Ok(v)
      BY <2>1, <2>2, <2>4 DEF SPreCheckStartAbility
    <3>. HIDE DEF v
    <3>2. Handled(s, Ok(v))
      BY <1>1, Waits
    <3>. QED
      BY <3>1, <3>2 DEF v
  <2>. QED
    BY <2>3, <2>4
<1>7. CASE ~(~IsNativeApp(w.app) /\ ~CheckResponse(w.app)) /\ w.app # top.app
  <2>. DEFINE op == [id |-> "terminate", token |-> top.token]
              x == SReplaceTop(v)
              k == NextToken(v.tokens)
  <2>1. r = SPreCheckStartAbility(x, w, fails)
    BY <1>3, <1>7 DEF SStartApp
  <2>2. k \in 1..TokenLimit /\ k # 0 /\ GeneratedToken(v.tokens) = k
    BY <1>1, NextTokens DEF Sane, GeneratedToken
  <2>3. /\ Same(v, x, {"ops", "pending", "tokens", "ret"})
        /\ x.ops = <<[id |-> "terminate", token |-> t]>> /\ x.pending = k /\ x.tokens = k
    <3>1. v.ops = <<>>
      BY <1>1 DEF Free
    <3>2. Append(<<>>, op) = <<op>>
      OBVIOUS
    <3>3. op = [id |-> "terminate", token |-> t]
      BY <1>3
    <3>. DEFINE y == AddAbilityOperation(v, op)
    <3>4. Same(v, y, {"ops", "ret"}) /\ y.ops = <<op>>
      BY <1>1, <3>1, <3>2 DEF AddAbilityOperation, Ok, Same, Fields
    <3>5. x = [y EXCEPT !.pending = GeneratedToken(v.tokens), !.tokens = NextToken(y.tokens)]
      BY DEF SReplaceTop
    <3>. HIDE DEF v, y, x, op
    <3>. QED
      BY <1>1, <2>2, <3>3, <3>4, <3>5 DEF Same, Fields, k
  <2>. HIDE DEF v, x, k
  <2>4. Same(s, x, Aside) /\ Sane(x) /\ x.scheduling = TRUE /\ DOMAIN x = Fields
    <3>1. x.pending \in Token /\ x.tokens \in 0..TokenLimit
      BY <2>2, <2>3, Numbers
    <3>. QED
      BY <1>1, <2>3, <3>1 DEF Same, Fields, Aside, Sane
  <2>5. CASE IsNativeApp(w.app) \/ w.app \in Pathless
    <3>. DEFINE e == Error(x)
    <3>1. r = e
      BY <2>1, <2>5 DEF SPreCheckStartAbility
    <3>2. Same(x, e, {"ret"}) /\ Sane(e) /\ e.ret = "error"
      BY <2>4, Flags
    <3>. HIDE DEF e, r
    <3>3. Same(s, e, Aside)
      BY <2>4, <3>2 DEF Same, Fields, Aside
    <3>4. e.ops = <<[id |-> "terminate", token |-> t]>> /\ e.pendingRecord = {}
      BY <1>1, <2>3, <3>2 DEF Same, Fields, Free
    <3>5. Staying(e, t, a) /\ AbilitiesOf(e) = AbilitiesOf(s) /\ e.amsQ = <<>>
      BY <3>2, <3>3, StageAside DEF Ready
    <3>6. Replacing(s, e)
      BY <3>2, <3>4, <3>5 DEF Replacing, Ready
    <3>. QED
      BY <3>1, <3>6 DEF Handled, r, v
  <2>6. CASE ~IsNativeApp(w.app) /\ w.app \notin Pathless
    <3>. DEFINE y == {AbilityRecord(x.pending, w.app, IsNativeApp(w.app), 0)}
    <3>1. ~HasApp(x.list, w.app) /\ x.pending # 0
      <4>1. x.list = v.list
        BY <2>3 DEF Same, Fields
      <4>. QED
        BY <1>3, <1>7, <2>2, <2>3, <4>1
    <3>2. r = Ok([x EXCEPT !.pendingRecord = y])
      BY <2>1, <2>6, <3>1 DEF SPreCheckStartAbility
    <3>. HIDE DEF y, r
    <3>3. Handled(s, Ok([x EXCEPT !.pendingRecord = y]))
      BY <2>4, Waits
    <3>. QED
      BY <3>2, <3>3 DEF r, v
  <2>. QED
    BY <2>5, <2>6
<1>. QED
  BY <1>4, <1>5, <1>6, <1>7

\* StartAbility.
LEMMA StartReady ==
    ASSUME SingleTask, NEW s, NEW t, NEW a, Ready(s, t, a), NEW w, w.app \in App, NEW fails
    PROVE  Handled(s, StartAbility(s, w, fails))
<1>. DEFINE v == Scheduling(s)
            r == StartAbility(s, w, fails)
<1>1. s.scheduling = FALSE /\ MultiTasks = FALSE /\ s.list # <<>>
  BY Starts, OnTopOf DEF Ready
<1>2. CASE ~QueryAbilitySvcInfo(w.app)
  <2>1. r = Error(Idle(s))
    BY <1>1, <1>2 DEF StartAbility, SStartAbility
  <2>. QED
    BY <2>1, BusyFlags DEF Handled
<1>3. CASE QueryAbilitySvcInfo(w.app) /\ w.app = Startup
  <2>1. r = SStartLauncher(v)
    BY <1>1, <1>3 DEF StartAbility, SStartAbility
  <2>. QED
    BY <2>1, HomeStart
<1>4. CASE QueryAbilitySvcInfo(w.app) /\ w.app # Startup
  <2>1. r = SStartApp(v, w, fails)
    BY <1>1, <1>4 DEF StartAbility, SStartAbility
  <2>2. CASE Staying(s, t, a)
    BY <1>4, <2>1, <2>2, NextStart
  <2>3. CASE Empty(s, "FOREGROUND")
    <3>1. v.list[1].token = LauncherToken
      <4>1. v.list = s.list
        BY Starts
      <4>2. s.list[1].token = LauncherToken
        BY <2>3, OnDesk, DeskParts
      <4>. QED
        BY <4>1, <4>2
    <3>2. CASE ~IsNativeApp(w.app) /\ ~CheckResponse(w.app)
      <4>1. r = Error(Idle(v))
        BY <2>1, <3>2 DEF SStartApp
      <4>. QED
        BY <4>1, BusyFlags DEF Handled
    <3>3. CASE ~(~IsNativeApp(w.app) /\ ~CheckResponse(w.app))
      <4>1. r = SPreCheckStartAbility(v, w, fails)
        BY <2>1, <3>1, <3>3 DEF SStartApp
      <4>. QED
        BY <1>4, <2>3, <4>1, FirstStart
    <3>. QED
      BY <3>2, <3>3
  <2>. QED
    BY <2>2, <2>3 DEF Ready, Resting
<1>. QED
  BY <1>2, <1>3, <1>4

\* RunOperation when nothing is held back.
LEMMA RunNothing ==
    ASSUME NEW s, s.ops = <<>>, NEW fails, NEW garbage
    PROVE  RunOperation(s, fails, garbage) = s
<1>1. s.ops \in Seq(Allowed) /\ 2 * Len(s.ops) = 0
  OBVIOUS
<1>2. PICK run : Steps(s, fails, garbage, run)
  BY <1>1, RunSteps
<1>3. run[0] = RunOperation(s, fails, garbage) /\ 0 \in 0..0
  BY <1>1, <1>2 DEF Steps
<1>4. \A i \in 0..0 : run[i] = IF i = 0 THEN s ELSE RunOne(run[i - 1], fails, garbage)
  BY <1>1, <1>2 DEF Steps
<1>. QED
  BY <1>3, <1>4

\* RunOperation when one operation is held back.
LEMMA RunSingle ==
    ASSUME NEW s, NEW op \in Allowed, s.ops = <<op>>, NEW fails, NEW garbage
    PROVE  RunOperation(s, fails, garbage) = RunOne(RunOne(s, fails, garbage), fails, garbage)
<1>1. s.ops \in Seq(Allowed) /\ 2 * Len(s.ops) = 2
  OBVIOUS
<1>2. PICK run : Steps(s, fails, garbage, run)
  BY <1>1, RunSteps
<1>3. run[2] = RunOperation(s, fails, garbage)
  BY <1>1, <1>2 DEF Steps
<1>4. \A i \in 0..2 : run[i] = IF i = 0 THEN s ELSE RunOne(run[i - 1], fails, garbage)
  BY <1>1, <1>2 DEF Steps
<1>5. run[0] = s
  BY <1>4
<1>6. run[1] = RunOne(run[0], fails, garbage)
  <2>1. 1 \in 0..2 /\ 1 # 0 /\ 1 - 1 = 0
    OBVIOUS
  <2>. QED
    BY <1>4, <2>1
<1>7. run[2] = RunOne(run[1], fails, garbage)
  <2>1. 2 \in 0..2 /\ 2 # 0 /\ 2 - 1 = 1
    OBVIOUS
  <2>. QED
    BY <1>4, <2>1
<1>. QED
  BY <1>3, <1>5, <1>6, <1>7

\* The application that is replaced is told to leave as soon as the start that
\* asked for it has failed.
LEMMA RunReplacing ==
    ASSUME SingleTask, NEW s, NEW p, Replacing(s, p), NEW fails, NEW garbage
    PROVE  Good(s, RunOperation(Idle(p), fails, garbage))
<1>. DEFINE x == Idle(p)
<1>1. PICK t \in 1..TokenLimit, a \in App :
         Staying(p, t, a) /\ p.ops = <<[id |-> "terminate", token |-> t]>>
  BY DEF Replacing
<1>2. DOMAIN p = Fields /\ Sane(p)
  BY <1>1, StageSane DEF Resting
<1>3. /\ Same(p, x, Aside) /\ Sane(x) /\ x.scheduling = FALSE
      /\ x.ops = <<[id |-> "terminate", token |-> t]>> /\ x.pendingRecord = {}
  <2>1. Same(p, x, {"scheduling"}) /\ Sane(x)
    BY <1>2, Flags
  <2>2. x.scheduling = FALSE
    BY <1>2 DEF Idle, Fields
  <2>. HIDE DEF x
  <2>. QED
    BY <1>1, <2>1, <2>2 DEF Same, Fields, Aside, Replacing
<1>. DEFINE op == [id |-> "terminate", token |-> t]
            v == [x EXCEPT !.ops = Tail(x.ops)]
            u == STerminateToken(Scheduling(v), t)
            w == IF u.ret = "error" THEN Idle(u) ELSE u
<1>4. DOMAIN x = Fields /\ Staying(x, t, a) /\ AbilitiesOf(x) = AbilitiesOf(s) /\ x.amsQ = <<>>
  <2>. HIDE DEF x
  <2>1. DOMAIN x = Fields
    BY <1>3 DEF Same
  <2>2. Staying(x, t, a) /\ AbilitiesOf(x) = AbilitiesOf(p) /\ x.amsQ = p.amsQ
    BY <1>1, <1>3, StageAside
  <2>. QED
    BY <2>1, <2>2 DEF Replacing
<1>5. op \in Allowed
  <2>1. t \in Token
    BY Numbers
  <2>. QED
    BY <2>1 DEF Allowed, Operation
<1>. HIDE DEF x
<1>6. Same(x, v, {"ops"}) /\ v.ops = <<>>
  <2>1. Tail(<<op>>) = <<>>
    OBVIOUS
  <2>. QED
    BY <1>3, <1>4, <2>1 DEF Same, Fields
<1>. HIDE DEF v
<1>7. Ready(v, t, a) /\ AbilitiesOf(v) = AbilitiesOf(s)
  <2>1. Same(x, v, Aside) /\ Sane(v) /\ v.pendingRecord = {} /\ v.scheduling = FALSE
    BY <1>3, <1>6 DEF Same, Fields, Aside, Sane
  <2>2. Staying(v, t, a) /\ AbilitiesOf(v) = AbilitiesOf(x) /\ v.amsQ = <<>>
    BY <1>4, <2>1, StageAside
  <2>. QED
    BY <1>4, <1>6, <2>1, <2>2 DEF Ready, Resting, Free
<1>8. Good(v, u) /\ Free(u)
  BY <1>7, ReadyFlags, TokenReady
<1>9. RunOne(x, fails, garbage) = w
  <2>1. /\ x.ops # <<>> /\ ~x.scheduling /\ Head(x.ops) = op /\ op.id = "terminate"
        /\ op.token = t
    BY <1>3
  <2>2. Perform(v, op, fails) = TerminateAbility(v, t)
    BY <2>1 DEF Perform
  <2>3. TerminateAbility(v, t) = u
    BY <1>7, SliteAssumption DEF TerminateAbility, TerminateToken, SingleTask, Ready
  <2>4. RunOne(x, fails, garbage) =
          IF Perform(v, op, fails).ret = "error" THEN Idle(Perform(v, op, fails))
          ELSE Perform(v, op, fails)
    BY <2>1 DEF RunOne, v
  <2>. QED
    BY <2>2, <2>3, <2>4
<1>10. Good(v, w) /\ Free(w)
  <2>1. Good(v, Idle(u)) /\ Free(Idle(u))
    BY <1>8, GoodOk
  <2>. HIDE DEF u
  <2>. QED
    BY <1>8, <2>1
<1>. HIDE DEF w
<1>11. RunOne(w, fails, garbage) = w
  BY <1>10 DEF RunOne, Free
<1>12. RunOperation(x, fails, garbage) = w
  BY <1>3, <1>5, <1>9, <1>11, RunSingle
<1>13. Good(s, w)
  BY <1>7, <1>10 DEF Good
<1>. QED
  BY <1>12, <1>13 DEF x

\* The kinds of operations.
LEMMA AllKinds ==
    ASSUME NEW op \in Operation
    PROVE  \/ op.id = "start" /\ op.want.app \in App
           \/ op.id \in {"terminate", "terminateMission", "terminateApp", "forceStop",
                         "terminateAll"}
BY DEF Operation

\* Every operation of a service that is ready.
LEMMA PerformReady ==
    ASSUME SingleTask, NEW s, NEW t, NEW a, Ready(s, t, a), NEW op \in Operation, NEW fails
    PROVE  Handled(s, Perform(s, op, fails))
<1>1. CASE op.id = "start"
  <2>1. Perform(s, op, fails) = StartAbility(s, op.want, fails)
    BY <1>1 DEF Perform
  <2>. QED
    BY <1>1, <2>1, AllKinds, StartReady
<1>2. CASE op.id = "terminate"
  <2>1. Perform(s, op, fails) = TerminateAbility(s, op.token)
    BY <1>2 DEF Perform
  <2>. QED
    BY <2>1, TerminateReady
<1>3. CASE op.id = "terminateMission"
  <2>1. Perform(s, op, fails) = TerminateMission(s, op.mission)
    BY <1>3 DEF Perform
  <2>. QED
    BY <2>1, MissionReady
<1>4. CASE op.id = "terminateApp"
  <2>1. Perform(s, op, fails) = ForceStopBundle(s, op.token, fails)
    BY <1>4 DEF Perform
  <2>. QED
    BY <2>1, BundleReady
<1>5. CASE op.id = "forceStop"
  <2>1. Perform(s, op, fails) = ForceStop(s, op.app)
    BY <1>5 DEF Perform
  <2>. QED
    BY <2>1, TerminateReady
<1>6. CASE op.id = "terminateAll"
  <2>1. Perform(s, op, fails) = TerminateAll(s, op.app)
    BY <1>6 DEF Perform
  <2>. QED
    BY <2>1, AllReady
<1>. QED
  BY <1>1, <1>2, <1>3, <1>4, <1>5, <1>6, AllKinds

\* A service that schedules holds every operation back.
LEMMA PerformWaits ==
    ASSUME SingleTask, NEW s, DOMAIN s = Fields, s.scheduling = TRUE, NEW op \in Operation,
           NEW fails
    PROVE  LET r == Perform(s, op, fails)
           IN  Same(s, r, {"ops", "ret"}) /\ r.ret = "ok"
<1>. DEFINE r == Perform(s, op, fails)
<1>0. MultiTasks = FALSE
  BY SliteAssumption DEF SingleTask
<1>1. \E o : r = AddAbilityOperation(s, o)
  <2>2. CASE op.id = "start"
    BY <1>0, <2>2 DEF Perform, StartAbility, SStartAbility
  <2>3. CASE op.id = "terminate"
    BY <2>3 DEF Perform, TerminateAbility
  <2>4. CASE op.id = "terminateMission"
    BY <2>4 DEF Perform, TerminateMission
  <2>5. CASE op.id = "terminateApp"
    BY <1>0, <2>5 DEF Perform, ForceStopBundle, SForceStopBundle
  <2>6. CASE op.id = "forceStop"
    BY <2>6 DEF Perform, ForceStop
  <2>7. CASE op.id = "terminateAll"
    BY <2>7 DEF Perform, TerminateAll
  <2>. QED
    BY <2>2, <2>3, <2>4, <2>5, <2>6, <2>7, AllKinds
<1>2. PICK o : r = AddAbilityOperation(s, o)
  BY <1>1
<1>. HIDE DEF r
<1>3. Same(s, r, {"ops", "ret"}) /\ r.ret = "ok"
  BY <1>2 DEF AddAbilityOperation, Ok, Same, Fields
<1>. QED
  BY <1>3 DEF r

\* HandleRequest, from a service that has taken its only request.
LEMMA RequestGood ==
    ASSUME SingleTask, NEW s, NEW t \in 1..TokenLimit, NEW a \in App, Resting(s, t, a),
           s.scheduling \/ Free(s), s.amsQ = <<>>, NEW op \in Operation, NEW fails, NEW garbage
    PROVE  LET p == Perform(s, op, fails)
           IN  Good(s, IF p.ret = "error" \/ ~p.scheduling
                       THEN RunOperation(Idle(p), fails, garbage) ELSE p)
<1>. DEFINE p == Perform(s, op, fails)
            r == IF p.ret = "error" \/ ~p.scheduling
                 THEN RunOperation(Idle(p), fails, garbage) ELSE p
<1>1. DOMAIN s = Fields /\ Sane(s)
  BY StageSane
<1>2. CASE s.scheduling
  <2>1. s.scheduling = TRUE
    BY <1>1, <1>2 DEF Sane
  <2>2. Same(s, p, {"ops", "ret"}) /\ p.ret = "ok"
    BY <1>1, <2>1, PerformWaits
  <2>. HIDE DEF p
  <2>3. Same(s, p, Aside) /\ Sane(p) /\ p.scheduling = TRUE
    BY <1>1, <2>1, <2>2 DEF Same, Fields, Aside, Sane
  <2>4. r = p
    BY <2>2, <2>3
  <2>5. Quieted(p, t, a) /\ AbilitiesOf(p) = AbilitiesOf(s)
    BY <2>3, StageAside DEF Quieted
  <2>6. Good(s, p)
    BY <2>5 DEF Good, OneStep, Stage
  <2>. QED
    BY <2>4, <2>6 DEF p
<1>3. CASE ~s.scheduling
  <2>1. Ready(s, t, a)
    BY <1>1, <1>3 DEF Ready, Sane
  <2>2. Handled(s, p)
    BY <2>1, PerformReady
  <2>. HIDE DEF p
  <2>3. CASE Good(s, p) /\ (Free(p) \/ (p.scheduling /\ p.ret = "ok"))
    <3>1. CASE p.ret = "error" \/ ~p.scheduling
      <4>1. Good(s, Idle(p)) /\ Free(Idle(p))
        BY <2>3, <3>1, GoodOk
      <4>2. RunOperation(Idle(p), fails, garbage) = Idle(p)
        BY <4>1, RunNothing DEF Free
      <4>. QED
        BY <3>1, <4>1, <4>2 DEF p
    <3>2. CASE ~(p.ret = "error" \/ ~p.scheduling)
      BY <2>3, <3>2 DEF p
    <3>. QED
      BY <3>1, <3>2
  <2>4. CASE Replacing(s, p)
    <3>1. p.ret = "error"
      BY <2>4 DEF Replacing
    <3>2. Good(s, RunOperation(Idle(p), fails, garbage))
      BY <2>4, RunReplacing
    <3>. QED
      BY <3>1, <3>2 DEF p
  <2>. QED
    BY <2>2, <2>3, <2>4 DEF Handled
<1>. QED
  BY <1>2, <1>3

-----------------------------------------------------------------------------
(* Reports.                                                                *)

\* The service has taken the only report; the launcher is in the state ls.
Taking(s, ls) == Free(s) /\ s.amsQ = <<>> /\ s.launcher = ls

\* What a record's state, a message or a deletion leaves alone.
LEMMA StillTaking ==
    ASSUME NEW s, NEW ls, Taking(s, ls),
           NEW r, Same(s, r, {"list", "seen", "threads", "ret", "async", "dangling", "scheduling"})
    PROVE  Taking(r, ls) /\ r.pending = s.pending /\ DOMAIN r = Fields
BY DEF Taking, Free, Same, Fields

\* A switch that has one more step to go.
LEMMA StepsOn ==
    ASSUME SingleTask, NEW s, NEW t \in 1..TokenLimit, NEW a \in App, NEW gs, NEW ls, NEW life,
           NEW as, Visit(s, t, a, as, ls, life, <<>>),
           NEW v, Visit(v, t, a, gs, ls, life, <<>>), Taking(v, ls),
           NEW st, NEW id,
           \/ gs = "STOP" /\ ls = "BACKGROUND" /\ life = "NONE" /\ st = "INITIAL" /\ id = "CREATE"
           \/ /\ gs = "INITED" /\ ls = "BACKGROUND" /\ life = "INITIAL"
              /\ st = "FOREGROUND" /\ id = "FOREGROUND"
           \/ /\ gs = "BACKGROUND" /\ ls = "BACKGROUND" /\ life = "BACKGROUND"
              /\ st = "FOREGROUND" /\ id = "FOREGROUND"
           \/ /\ gs = "BACKGROUND" /\ ls = "FOREGROUND" /\ life = "BACKGROUND"
              /\ st = "UNINITIALIZED" /\ id = "DESTROY"
    PROVE  LET r == ScheduleLifecycleInner(v, v.list[1], st) IN Good(s, r) /\ Free(r)
<1>. DEFINE r == ScheduleLifecycleInner(v, v.list[1], st)
<1>1. PICK b \in BOOLEAN : Both(v.list, t, a, gs, b, ls)
  BY DEF Visit
<1>2. v.list[1] = Guest(t, a, gs, b)
  BY <1>1, OnGuest
<1>3. MsgOf(st) = id /\ st \in {"INITIAL", "FOREGROUND", "BACKGROUND", "UNINITIALIZED"}
  BY DEF MsgOf
<1>4. r = ScheduleLifecycleInner(v, Guest(t, a, gs, b), st)
  BY <1>2
<1>. HIDE DEF r
<1>5. Same(v, r, {"threads", "ret"}) /\ Visit(r, t, a, gs, ls, life, Mail(t, MsgOf(st)))
  BY <1>1, <1>3, <1>4, CallGuest
<1>6. Visit(r, t, a, gs, ls, life, Mail(t, id))
  BY <1>3, <1>5
<1>7. Taking(r, ls)
  <2>1. Same(v, r, {"list", "seen", "threads", "ret", "async", "dangling", "scheduling"})
    BY <1>5 DEF Same
  <2>. QED
    BY <2>1, StillTaking
<1>8. Due(r, t, a, gs, ls, life, id)
  BY <1>6, <1>7 DEF Due, Taking
<1>9. Turn(r, t, a)
  BY <1>8 DEF Turn
<1>10. Stage(r) /\ Free(r)
  BY <1>7, <1>9 DEF Stage, InSwitch, Taking
<1>11. AbilitiesOf(r) = AbilitiesOf(s)
  <2>1. /\ AbilitiesOf(r) = {[app |-> a, life |-> life]}
        /\ AbilitiesOf(s) = {[app |-> a, life |-> life]}
    BY <1>6, Shown
  <2>. QED
    BY <2>1
<1>. QED
  BY <1>10, <1>11 DEF Good, OneStep, r

\* The launcher has left the foreground: the application is created or shown.
LEMMA HomeLeft ==
    ASSUME SingleTask, NEW s, NEW t \in 1..TokenLimit, NEW a \in App, Taking(s, "BACKGROUND"),
           NEW gs, NEW life, NEW ls,
           \/ gs = "STOP" /\ life = "NONE"
           \/ gs = "BACKGROUND" /\ life = "BACKGROUND",
           Visit(s, t, a, gs, ls, life, <<>>)
    PROVE  Good(s, SOnBackgroundDone(s, LauncherToken))
<1>. DEFINE v == SetAbilityStateAndNotify(s, LauncherToken, "BACKGROUND")
            top == v.list[1]
            r == SOnBackgroundDone(s, LauncherToken)
            st == IF top.state = "STOP" THEN "INITIAL" ELSE "FOREGROUND"
<1>1. Same(s, v, {"list", "seen"}) /\ Visit(v, t, a, gs, "BACKGROUND", life, <<>>)
  BY TellVisit DEF RecordState
<1>2. Taking(v, "BACKGROUND")
  <2>1. Same(s, v, {"list", "seen", "threads", "ret", "async", "dangling", "scheduling"})
    BY <1>1 DEF Same
  <2>. QED
    BY <2>1, StillTaking
<1>. HIDE DEF v
<1>3. v.list # <<>> /\ top.token = t /\ t # LauncherToken /\ top.state = gs
  <2>1. PICK b \in BOOLEAN : Both(v.list, t, a, gs, b, "BACKGROUND")
    BY <1>1 DEF Visit
  <2>. QED
    BY <2>1, OnGuest, GuestParts
<1>4. r = ScheduleLifecycleInner(v, top, st)
  BY <1>3 DEF SOnBackgroundDone, v
<1>. DEFINE id == IF gs = "STOP" THEN "CREATE" ELSE "FOREGROUND"
<1>5. st = IF gs = "STOP" THEN "INITIAL" ELSE "FOREGROUND"
  BY <1>3
<1>6. \/ gs = "STOP" /\ life = "NONE" /\ st = "INITIAL" /\ id = "CREATE"
      \/ /\ gs = "BACKGROUND" /\ life = "BACKGROUND"
         /\ st = "FOREGROUND" /\ id = "FOREGROUND"
  BY <1>5
<1>. HIDE DEF r, st, id
<1>7. LET x == ScheduleLifecycleInner(v, v.list[1], st) IN Good(v, x) /\ Free(x)
  BY <1>1, <1>2, <1>6, StepsOn
<1>8. AbilitiesOf(v) = AbilitiesOf(s)
  <2>1. /\ AbilitiesOf(v) = {[app |-> a, life |-> life]}
        /\ AbilitiesOf(s) = {[app |-> a, life |-> life]}
    BY <1>1, Shown
  <2>. QED
    BY <2>1
<1>. QED
  BY <1>4, <1>7, <1>8 DEF Good, r

\* The application has been created: it is shown.
LEMMA GuestCreated ==
    ASSUME SingleTask, NEW s, NEW t \in 1..TokenLimit, NEW a \in App, Taking(s, "BACKGROUND"),
           Visit(s, t, a, "STOP", "BACKGROUND", "INITIAL", <<>>)
    PROVE  Good(s, OnCreateDone(s, t))
<1>. DEFINE v == SetAbilityStateAndNotify(s, t, "INITED")
            r == OnCreateDone(s, t)
<1>1. Same(s, v, {"list", "seen"}) /\ Visit(v, t, a, "INITED", "BACKGROUND", "INITIAL", <<>>)
  BY TellVisit DEF RecordState
<1>2. Taking(v, "BACKGROUND")
  <2>1. Same(s, v, {"list", "seen", "threads", "ret", "async", "dangling", "scheduling"})
    BY <1>1 DEF Same
  <2>. QED
    BY <2>1, StillTaking
<1>3. r = SchedulerLifecycle(v, t, "FOREGROUND")
  BY DEF OnCreateDone
<1>. HIDE DEF v, r
<1>4. r = ScheduleLifecycleInner(v, v.list[1], "FOREGROUND")
  <2>1. PICK b \in BOOLEAN : Both(v.list, t, a, "INITED", b, "BACKGROUND")
    BY <1>1 DEF Visit
  <2>. QED
    BY <1>3, <2>1, CallFinds
<1>5. Good(s, r) /\ Free(r)
  BY <1>1, <1>2, <1>4, StepsOn
<1>. QED
  BY <1>5 DEF r

\* The application has reached the foreground.
LEMMA GuestShown ==
    ASSUME SingleTask, NEW s, NEW t \in 1..TokenLimit, NEW a \in App, Taking(s, "BACKGROUND"),
           NEW gs, Visit(s, t, a, gs, "BACKGROUND", "FOREGROUND", <<>>),
           NEW fails, NEW garbage
    PROVE  Good(s, RunOperation(Idle(SOnForegroundDone(s, t, fails)), fails, garbage))
<1>. DEFINE v == SetAbilityStateAndNotify(s, t, "FOREGROUND")
            i == Idle(v)
<1>1. /\ Same(s, v, {"list", "seen"})
      /\ Visit(v, t, a, "FOREGROUND", "BACKGROUND", "FOREGROUND", <<>>)
  BY TellVisit DEF RecordState
<1>2. t # LauncherToken
  BY Numbers
<1>3. SOnForegroundDone(s, t, fails) = v
  BY <1>2 DEF SOnForegroundDone
<1>. HIDE DEF v
<1>4. Same(v, i, {"scheduling"}) /\ Sane(i)
  <2>1. DOMAIN v = Fields /\ Sane(v)
    BY <1>1, StageSane
  <2>. QED
    BY <2>1, Flags
<1>. HIDE DEF i
<1>5. Visit(i, t, a, "FOREGROUND", "BACKGROUND", "FOREGROUND", <<>>)
  <2>1. Same(v, i, Aside)
    BY <1>4 DEF Same, Aside
  <2>. QED
    BY <1>1, <1>4, <2>1, StageAside
<1>6. Taking(i, "BACKGROUND")
  <2>1. Same(s, i, {"list", "seen", "threads", "ret", "async", "dangling", "scheduling"})
    BY <1>1, <1>4 DEF Same
  <2>. QED
    BY <2>1, StillTaking
<1>7. Quieted(i, t, a)
  BY <1>5, <1>6 DEF Quieted, Resting, Staying, Taking
<1>8. AbilitiesOf(i) = AbilitiesOf(s)
  <2>1. /\ AbilitiesOf(i) = {[app |-> a, life |-> "FOREGROUND"]}
        /\ AbilitiesOf(s) = {[app |-> a, life |-> "FOREGROUND"]}
    BY <1>5, Shown
  <2>. QED
    BY <2>1
<1>9. Good(s, i)
  BY <1>7, <1>8 DEF Good, OneStep, Stage
<1>10. RunOperation(i, fails, garbage) = i
  BY <1>6, RunNothing DEF Taking, Free
<1>11. RunOperation(Idle(v), fails, garbage) = i
  BY <1>10 DEF i
<1>. QED
  BY <1>3, <1>9, <1>11

\* The application has left the foreground: the launcher is called.
LEMMA GuestLeft ==
    ASSUME SingleTask, NEW s, NEW t \in 1..TokenLimit, NEW a \in App,
           NEW ls \in {"FOREGROUND", "BACKGROUND"}, Taking(s, ls), NEW gs,
           Visit(s, t, a, gs, ls, "BACKGROUND", <<>>)
    PROVE  Good(s, SOnBackgroundDone(s, t))
<1>. DEFINE v == SetAbilityStateAndNotify(s, t, "BACKGROUND")
            r == SOnBackgroundDone(s, t)
            top == v.list[1]
<1>1. Same(s, v, {"list", "seen"}) /\ Visit(v, t, a, "BACKGROUND", ls, "BACKGROUND", <<>>)
  BY TellVisit DEF RecordState
<1>2. Taking(v, ls)
  <2>1. Same(s, v, {"list", "seen", "threads", "ret", "async", "dangling", "scheduling"})
    BY <1>1 DEF Same
  <2>. QED
    BY <2>1, StillTaking
<1>. HIDE DEF v
<1>3. v.list # <<>> /\ top.token = t /\ t # LauncherToken
  <2>1. PICK b \in BOOLEAN : Both(v.list, t, a, "BACKGROUND", b, ls)
    BY <1>1 DEF Visit
  <2>. QED
    BY <2>1, OnGuest, GuestParts
<1>4. r = SchedulerLifecycle(v, LauncherToken, "FOREGROUND")
  BY <1>3 DEF SOnBackgroundDone, v
<1>. HIDE DEF r
<1>5. /\ Same(v, r, {"launcher", "amsQ", "ret"})
      /\ Visit(r, t, a, "BACKGROUND", ls, "BACKGROUND", <<>>)
      /\ r.launcher = "FOREGROUND" /\ r.amsQ = <<Report(LauncherToken, "FOREGROUND")>>
  BY <1>1, <1>2, <1>4, CallLauncher DEF Taking
<1>6. Free(r)
  BY <1>2, <1>5 DEF Taking, Free, Same, Fields
<1>7. InSwitch(r, t, a)
  BY <1>5, <1>6 DEF InSwitch, AtHome
<1>8. AbilitiesOf(r) = AbilitiesOf(s)
  <2>1. /\ AbilitiesOf(r) = {[app |-> a, life |-> "BACKGROUND"]}
        /\ AbilitiesOf(s) = {[app |-> a, life |-> "BACKGROUND"]}
    BY <1>5, Shown
  <2>. QED
    BY <2>1
<1>9. Good(s, r)
  BY <1>7, <1>8 DEF Good, OneStep, Stage
<1>. QED
  BY <1>9 DEF r

\* The launcher is alone again, and in front or called to the front.
LEMMA GuestDeleted ==
    ASSUME SingleTask, NEW s, NEW t \in 1..TokenLimit, NEW a \in App, Taking(s, "FOREGROUND"),
           NEW gs, NEW life, Visit(s, t, a, gs, "FOREGROUND", life, <<>>), NEW fails
    PROVE  LET r == SOnDestroyDone(s, t, fails)
           IN  Stage(r) /\ Free(r) /\ AbilitiesOf(r) = {}
<1>. DEFINE v == SetAbilityStateAndNotify(s, t, "STOP")
            u == DeleteRecordInfo(v, t)
            c == SchedulerLifecycle(u, LauncherToken, "FOREGROUND")
            r == SOnDestroyDone(s, t, fails)
<1>1. /\ Same(s, v, {"list", "seen"})
      /\ Visit(v, t, a, "STOP", "FOREGROUND", life, <<>>)
  BY TellVisit DEF RecordState
<1>2. s.list # <<>> /\ s.list[1].token = t /\ t # LauncherToken
  <2>1. PICK b \in BOOLEAN : Both(s.list, t, a, gs, b, "FOREGROUND")
    BY DEF Visit
  <2>. QED
    BY <2>1, OnGuest, GuestParts
<1>3. Taking(v, "FOREGROUND")
  <2>1. Same(s, v, {"list", "seen", "threads", "ret", "async", "dangling", "scheduling"})
    BY <1>1 DEF Same
  <2>. HIDE DEF v
  <2>. QED
    BY <2>1, StillTaking
<1>4. Empty(u, "FOREGROUND") /\ Same(v, u, {"list", "threads", "async", "dangling", "seen"})
  <2>. HIDE DEF v
  <2>. QED
    BY <1>1, GuestGone
<1>5. Taking(u, "FOREGROUND")
  <2>. HIDE DEF u, v
  <2>1. Same(v, u, {"list", "seen", "threads", "ret", "async", "dangling", "scheduling"})
    BY <1>4 DEF Same
  <2>. QED
    BY <1>3, <2>1, StillTaking
<1>6. u.pendingRecord = {} /\ u.ops = <<>>
  BY <1>5 DEF Taking, Free
<1>7. r = IF u.pending = 0 THEN c ELSE u
  <2>1. \A x, y : (IF s.list = <<>> \/ s.list[1].token # t THEN x ELSE y) = y
    BY <1>2
  <2>. QED
    BY <1>2, <1>6, <2>1 DEF SOnDestroyDone
<1>. HIDE DEF u, c, r, v
<1>8. CASE u.pending = 0
  <2>1. /\ Same(u, c, {"launcher", "amsQ", "ret"}) /\ Empty(c, "FOREGROUND")
        /\ c.launcher = "FOREGROUND" /\ c.amsQ = <<Report(LauncherToken, "FOREGROUND")>>
    BY <1>4, <1>5, CallLauncher DEF Taking, c
  <2>2. Free(c)
    BY <1>6, <2>1 DEF Free, Same, Fields
  <2>3. AbilitiesOf(c) = {}
    BY <2>1, Shown
  <2>4. InSwitch(c, t, a)
    BY <2>1, <2>2 DEF InSwitch, AtHome
  <2>. QED
    BY <1>7, <1>8, <2>2, <2>3, <2>4 DEF Stage, r
<1>9. CASE u.pending # 0
  <2>1. AbilitiesOf(u) = {}
    BY <1>4, Shown
  <2>2. Quieted(u, t, a)
    BY <1>4, <1>5 DEF Quieted, Resting, Taking
  <2>3. Free(u)
    BY <1>5 DEF Taking
  <2>. QED
    BY <1>7, <1>9, <2>1, <2>2, <2>3 DEF Stage, r
<1>. QED
  BY <1>8, <1>9

\* What is good ends the switch.
LEMMA EndsGood ==
    ASSUME NEW s, NEW r, Good(s, r), Free(r), NEW fails, NEW garbage
    PROVE  Good(s, RunOperation(Idle(r), fails, garbage))
<1>1. Good(s, Idle(r)) /\ Free(Idle(r))
  BY GoodOk
<1>2. RunOperation(Idle(r), fails, garbage) = Idle(r)
  BY <1>1, RunNothing DEF Free
<1>. QED
  BY <1>1, <1>2

\* The launcher is in front: the application stays behind it, is destroyed or
\* deleted.
LEMMA HomeShown ==
    ASSUME SingleTask, NEW s, NEW t \in 1..TokenLimit, NEW a \in App, Taking(s, "FOREGROUND"),
           \/ \E ls : Empty(s, ls) \/ Visit(s, t, a, "BACKGROUND", ls, "BACKGROUND", <<>>)
           \/ Visit(s, t, a, "FOREGROUND", "BACKGROUND", "FOREGROUND", <<>>),
           NEW fails
    PROVE  LET r == SOnForegroundDone(s, LauncherToken, fails) IN Good(s, r) /\ Free(r)
<1>. DEFINE v == SetAbilityStateAndNotify(s, LauncherToken, "FOREGROUND")
            top == v.list[1]
            r == SOnForegroundDone(s, LauncherToken, fails)
<1>0. s.launcher = "FOREGROUND"
  BY DEF Taking
<1>1. ASSUME Same(s, v, {"list", "seen"}) PROVE Taking(v, "FOREGROUND")
  <2>. HIDE DEF v
  <2>1. Same(s, v, {"list", "seen", "threads", "ret", "async", "dangling", "scheduling"})
    BY <1>1 DEF Same
  <2>. QED
    BY <2>1, StillTaking
<1>2. ASSUME NEW ls, Empty(s, ls) PROVE Good(s, r) /\ Free(r)
  <2>1. Same(s, v, {"list", "seen"}) /\ Empty(v, "FOREGROUND")
    BY <1>2, TellEmpty DEF RecordState
  <2>2. v.list # <<>> /\ top.token = LauncherToken
    <3>. HIDE DEF v
    <3>. QED
      BY <2>1, OnDesk, DeskParts
  <2>3. r = v
    BY <1>0, <2>2 DEF SOnForegroundDone
  <2>4. Taking(v, "FOREGROUND")
    BY <1>1, <2>1
  <2>. HIDE DEF v, r
  <2>5. Quieted(v, t, a)
    BY <2>1, <2>4 DEF Quieted, Resting, Taking
  <2>6. AbilitiesOf(v) = {} /\ AbilitiesOf(s) = {}
    BY <1>2, <2>1, Shown
  <2>. QED
    BY <2>3, <2>4, <2>5, <2>6 DEF Good, OneStep, Stage, Taking
<1>3. ASSUME NEW gs, NEW ls, NEW life, Visit(s, t, a, gs, ls, life, <<>>)
      PROVE  /\ Same(s, v, {"list", "seen"}) /\ Visit(v, t, a, gs, "FOREGROUND", life, <<>>)
             /\ Taking(v, "FOREGROUND")
             /\ v.list # <<>> /\ top.token = t /\ t # LauncherToken /\ top.state = gs
             /\ AbilitiesOf(v) = AbilitiesOf(s)
             /\ AbilitiesOf(s) = {[app |-> a, life |-> life]}
  <2>1. Same(s, v, {"list", "seen"}) /\ Visit(v, t, a, gs, "FOREGROUND", life, <<>>)
    BY <1>3, TellVisit DEF RecordState
  <2>2. Taking(v, "FOREGROUND")
    BY <1>1, <2>1
  <2>. HIDE DEF v
  <2>3. v.list # <<>> /\ top.token = t /\ t # LauncherToken /\ top.state = gs
    <3>1. PICK b \in BOOLEAN : Both(v.list, t, a, gs, b, "FOREGROUND")
      BY <2>1 DEF Visit
    <3>. QED
      BY <3>1, OnGuest, GuestParts
  <2>4. /\ AbilitiesOf(v) = {[app |-> a, life |-> life]}
        /\ AbilitiesOf(s) = {[app |-> a, life |-> life]}
    BY <1>3, <2>1, Shown
  <2>. QED
    BY <2>1, <2>2, <2>3, <2>4
<1>4. ASSUME NEW ls, Visit(s, t, a, "BACKGROUND", ls, "BACKGROUND", <<>>)
      PROVE  Good(s, r) /\ Free(r)
  <2>1. /\ Visit(v, t, a, "BACKGROUND", "FOREGROUND", "BACKGROUND", <<>>)
        /\ Taking(v, "FOREGROUND") /\ v.list # <<>> /\ top.token = t /\ t # LauncherToken
        /\ top.state = "BACKGROUND" /\ AbilitiesOf(v) = AbilitiesOf(s)
    BY <1>3, <1>4
  <2>2. CASE top.terminated
    <3>1. r = ScheduleLifecycleInner(v, v.list[1], "UNINITIALIZED")
      BY <1>0, <2>1, <2>2 DEF SOnForegroundDone
    <3>. HIDE DEF v, r
    <3>2. Good(v, r) /\ Free(r)
      BY <2>1, <3>1, StepsOn
    <3>. QED
      BY <2>1, <3>2 DEF Good
  <2>3. CASE ~top.terminated
    <3>1. r = v
      BY <1>0, <2>1, <2>3 DEF SOnForegroundDone
    <3>. HIDE DEF v, r
    <3>2. Quieted(v, t, a) /\ Free(v)
      BY <2>1 DEF Quieted, Resting, Staying, Taking
    <3>. QED
      BY <2>1, <3>1, <3>2 DEF Good, OneStep, Stage
  <2>. QED
    BY <2>2, <2>3
<1>5. ASSUME Visit(s, t, a, "FOREGROUND", "BACKGROUND", "FOREGROUND", <<>>)
      PROVE  Good(s, r) /\ Free(r)
  <2>1. /\ Visit(v, t, a, "FOREGROUND", "FOREGROUND", "FOREGROUND", <<>>)
        /\ Taking(v, "FOREGROUND") /\ v.list # <<>> /\ top.token = t /\ t # LauncherToken
        /\ top.state = "FOREGROUND" /\ AbilitiesOf(s) = {[app |-> a, life |-> "FOREGROUND"]}
    BY <1>3, <1>5
  <2>2. r = SOnDestroyDone(v, t, fails)
    BY <1>0, <2>1 DEF SOnForegroundDone
  <2>. HIDE DEF v, r
  <2>3. Stage(r) /\ Free(r) /\ AbilitiesOf(r) = {}
    BY <2>1, <2>2, GuestDeleted
  <2>. QED
    BY <2>1, <2>3 DEF Good, OneStep
<1>. QED
  BY <1>2, <1>4, <1>5

\* The application has been destroyed.
LEMMA GuestDestroyed ==
    ASSUME SingleTask, NEW s, NEW t \in 1..TokenLimit, NEW a \in App, Taking(s, "FOREGROUND"),
           Visit(s, t, a, "BACKGROUND", "FOREGROUND", "UNINITIALIZED", <<>>), NEW fails
    PROVE  Good(s, SOnDestroyDone(s, t, fails))
<1>1. LET r == SOnDestroyDone(s, t, fails) IN Stage(r) /\ Free(r) /\ AbilitiesOf(r) = {}
  BY GuestDeleted
<1>2. AbilitiesOf(s) = {[app |-> a, life |-> "UNINITIALIZED"]}
  BY Shown
<1>. QED
  BY <1>1, <1>2 DEF Good, OneStep

-----------------------------------------------------------------------------
(* The steps of the service.                                               *)

\* The head of the queue is taken.
LEMMA TakenOnly ==
    ASSUME NEW s, DOMAIN s = Fields, NEW m, s.amsQ = <<m>>
    PROVE  LET z == [s EXCEPT !.amsQ = Tail(@)]
           IN  /\ Head(s.amsQ) = m /\ s.amsQ # <<>> /\ z.amsQ = <<>>
               /\ z.launcher = s.launcher /\ z.scheduling = s.scheduling
               /\ (Free(z) <=> Free(s)) /\ AbilitiesOf(z) = AbilitiesOf(s)
               /\ \A ls : Empty(s, ls) => Empty(z, ls)
               /\ \A t, a, gs, ls, life, inbox :
                     Visit(s, t, a, gs, ls, life, inbox) => Visit(z, t, a, gs, ls, life, inbox)
<1>. DEFINE z == [s EXCEPT !.amsQ = Tail(@)]
<1>1. Head(<<m>>) = m /\ <<m>> # <<>> /\ Tail(<<m>>) = <<>>
  OBVIOUS
<1>2. Same(s, z, {"amsQ"}) /\ z.amsQ = <<>>
  BY <1>1 DEF Same, Fields
<1>. HIDE DEF z
<1>3. /\ z.launcher = s.launcher /\ z.scheduling = s.scheduling /\ z.list = s.list
      /\ z.threads = s.threads /\ z.pending = s.pending /\ z.tokens = s.tokens
      /\ z.missions = s.missions /\ z.ops = s.ops /\ z.pendingRecord = s.pendingRecord
  BY <1>2 DEF Same, Fields
<1>4. Same(s, z, Loose)
  BY <1>2 DEF Same, Loose
<1>5. ASSUME Sane(s)
      PROVE  /\ \A ls : Empty(s, ls) => Empty(z, ls)
             /\ \A t, a, gs, ls, life, inbox :
                   Visit(s, t, a, gs, ls, life, inbox) => Visit(z, t, a, gs, ls, life, inbox)
  BY <1>3, <1>4, <1>5, Beside DEF Sane
<1>6. /\ \A ls : Empty(s, ls) => Empty(z, ls)
      /\ \A t, a, gs, ls, life, inbox :
            Visit(s, t, a, gs, ls, life, inbox) => Visit(z, t, a, gs, ls, life, inbox)
  BY <1>5, StageSane
<1>7. AbilitiesOf(z) = AbilitiesOf(s) /\ (Free(z) <=> Free(s))
  BY <1>3 DEF AbilitiesOf, Free
<1>. QED
  BY <1>1, <1>2, <1>3, <1>6, <1>7 DEF z

\* Every stage has its fields.
LEMMA StageTyped ==
    ASSUME NEW s, Stage(s)
    PROVE  DOMAIN s = Fields /\ Sane(s)
BY StageSane DEF Stage, Quieted, InSwitch, Turn, Due, AtHome

\* The state that is committed is as good as the one the handler made.
LEMMA SameGood ==
    ASSUME NEW s, NEW r, Good(s, r), NEW q, Same(r, q, {})
    PROVE  Good(s, q)
<1>1. DOMAIN r = Fields /\ Sane(r)
  BY StageTyped DEF Good
<1>2. /\ q.launcher = r.launcher /\ q.scheduling = r.scheduling /\ q.list = r.list
      /\ q.threads = r.threads /\ q.pending = r.pending /\ q.tokens = r.tokens
      /\ q.missions = r.missions /\ q.ops = r.ops /\ q.pendingRecord = r.pendingRecord
      /\ q.amsQ = r.amsQ
  BY DEF Same, Fields
<1>3. Same(r, q, Aside) /\ Sane(q) /\ (Free(q) <=> Free(r))
  BY <1>1, <1>2 DEF Same, Sane, Free
<1>4. PICK t \in 1..TokenLimit, a \in App : Quieted(r, t, a) \/ InSwitch(r, t, a)
  BY DEF Good, Stage
<1>5. /\ Resting(r, t, a) => Resting(q, t, a)
      /\ Turn(r, t, a) => Turn(q, t, a)
      /\ AtHome(r, t, a) => AtHome(q, t, a)
      /\ AbilitiesOf(q) = AbilitiesOf(r)
  BY <1>3, StageAside
<1>6. Quieted(r, t, a) => Quieted(q, t, a)
  BY <1>2, <1>3, <1>5 DEF Quieted
<1>7. InSwitch(r, t, a) => InSwitch(q, t, a)
  BY <1>3, <1>5 DEF InSwitch
<1>. QED
  BY <1>4, <1>5, <1>6, <1>7 DEF Good, Stage

\* The service handles a request: nobody has anything to do.
LEMMA RequestStep ==
    ASSUME SingleTask, Stage(State), HandleRequest
    PROVE  Good(State, State')
<1>. DEFINE s == State
            z == [s EXCEPT !.amsQ = Tail(@)]
            P(f) == Perform(z, Head(amsQ), f)
            R(f, g) == IF P(f).ret = "error" \/ ~P(f).scheduling
                       THEN RunOperation(Idle(P(f)), f, g) ELSE P(f)
<1>1. PICK fails \in Failures, garbage \in Mission \cup {Unset} : Commit(R(fails, garbage))
  BY DEF HandleRequest, Serve
<1>2. amsQ # <<>> /\ Head(amsQ).id \notin {"done", "initialize"}
  BY DEF HandleRequest, ServiceReady
<1>3. PICK t \in 1..TokenLimit, a \in App : Quieted(s, t, a) \/ InSwitch(s, t, a)
  BY DEF Stage
<1>. HIDE DEF R, s
<1>0. s.amsQ = amsQ
  BY StateFields DEF s
<1>4. Quieted(s, t, a)
  <2>1. \A u, st : Head(<<Report(u, st)>>).id = "done"
    BY DEF Report
  <2>2. InSwitch(s, t, a) => amsQ = <<>> \/ \E u, st : amsQ = <<Report(u, st)>>
    BY <1>0 DEF InSwitch, Turn, Due, AtHome
  <2>. QED
    BY <1>2, <1>3, <2>1, <2>2
<1>5. PICK m \in Requests : s.amsQ = <<m>>
  BY <1>0, <1>2, <1>4 DEF Quieted
<1>6. DOMAIN s = Fields
  BY StageTyped DEF s
<1>. HIDE DEF z
<1>7. /\ Head(amsQ) = m /\ z.amsQ = <<>> /\ z.launcher = s.launcher
      /\ z.scheduling = s.scheduling /\ (Free(z) <=> Free(s)) /\ AbilitiesOf(z) = AbilitiesOf(s)
      /\ \A ls : Empty(s, ls) => Empty(z, ls)
      /\ \A u, b, gs, ls, life, inbox :
            Visit(s, u, b, gs, ls, life, inbox) => Visit(z, u, b, gs, ls, life, inbox)
  BY <1>0, <1>5, <1>6, TakenOnly DEF z
<1>8. Resting(z, t, a) /\ (z.scheduling \/ Free(z))
  BY <1>4, <1>7 DEF Quieted, Resting, Staying
<1>9. m \in Operation
  BY SliteEnvironmentAssumption
<1>. DEFINE p == Perform(z, m, fails)
            r == IF p.ret = "error" \/ ~p.scheduling
                 THEN RunOperation(Idle(p), fails, garbage) ELSE p
<1>10. Good(z, r)
  BY <1>7, <1>8, <1>9, RequestGood
<1>11. R(fails, garbage) = r
  BY <1>7 DEF R
<1>. HIDE DEF p, r
<1>12. Good(s, r)
  BY <1>7, <1>10 DEF Good
<1>. QED
  BY <1>1, <1>11, <1>12, CommitSame, SameGood DEF s

\* A report, from the state the service has taken it from.
LEMMA ReportGood ==
    ASSUME SingleTask, NEW s, NEW t \in 1..TokenLimit, NEW a \in App, InSwitch(s, t, a),
           DOMAIN s = Fields, s.amsQ # <<>>, NEW fails, NEW garbage
    PROVE  LET z == [s EXCEPT !.amsQ = Tail(@)]
               m == Head(s.amsQ)
           IN  Good(s, SchedulerLifecycleDone(z, m.token, m.state, fails, garbage))
<1>. DEFINE z == [s EXCEPT !.amsQ = Tail(@)]
            R(u, st) == SchedulerLifecycleDone(z, u, st, fails, garbage)
<1>0. PICK k, st : s.amsQ = <<Report(k, st)>>
  BY DEF InSwitch, Turn, Due, AtHome
<1>1. /\ Head(s.amsQ) = Report(k, st) /\ z.amsQ = <<>> /\ z.launcher = s.launcher
      /\ (Free(z) <=> Free(s)) /\ AbilitiesOf(z) = AbilitiesOf(s)
      /\ \A ls : Empty(s, ls) => Empty(z, ls)
      /\ \A u, b, gs, ls, life, inbox :
            Visit(s, u, b, gs, ls, life, inbox) => Visit(z, u, b, gs, ls, life, inbox)
  BY <1>0, TakenOnly
<1>. HIDE DEF z
<1>2. \A u, x : <<Report(k, st)>> = <<Report(u, x)>> => u = k /\ x = st
  BY DEF Report
<1>3. Taking(z, s.launcher)
  BY <1>1 DEF Taking, InSwitch
<1>4. \A r : Good(z, r) => Good(s, r)
  BY <1>1 DEF Good
<1>5. /\ \A u : R(u, "INITIAL") = OnCreateDone(z, u)
      /\ \A u : R(u, "FOREGROUND") = RunOperation(Idle(SOnForegroundDone(z, u, fails)),
                                                  fails, garbage)
      /\ \A u : R(u, "BACKGROUND") = SOnBackgroundDone(z, u)
      /\ \A u : R(u, "UNINITIALIZED") = SOnDestroyDone(z, u, fails)
  BY SliteAssumption DEF SchedulerLifecycleDone, OnForegroundDone, OnBackgroundDone,
                         OnDestroyDone, SingleTask
<1>. HIDE DEF R
<1>6. SUFFICES Good(z, R(k, st))
  <2>1. Report(k, st).token = k /\ Report(k, st).state = st
    BY DEF Report
  <2>. QED
    BY <1>1, <1>4, <2>1 DEF R, z
<1>7. ASSUME NEW gs, NEW ls, NEW life, NEW id, Due(s, t, a, gs, ls, life, id)
      PROVE  /\ s.launcher = ls /\ Visit(z, t, a, gs, ls, StateAfter(id), <<>>)
             /\ k = t /\ st = StateAfter(id)
  BY <1>0, <1>1, <1>2, <1>7 DEF Due
<1>8. /\ StateAfter("CREATE") = "INITIAL" /\ StateAfter("FOREGROUND") = "FOREGROUND"
      /\ StateAfter("BACKGROUND") = "BACKGROUND" /\ StateAfter("DESTROY") = "UNINITIALIZED"
  BY DEF StateAfter
<1>9. CASE Due(s, t, a, "STOP", "BACKGROUND", "NONE", "CREATE")
  <2>1. /\ s.launcher = "BACKGROUND" /\ Visit(z, t, a, "STOP", "BACKGROUND", "INITIAL", <<>>)
        /\ k = t /\ st = "INITIAL"
    BY <1>7, <1>8, <1>9
  <2>. QED
    BY <1>3, <1>5, <2>1, GuestCreated
<1>10. ASSUME NEW gs, NEW life, Due(s, t, a, gs, "BACKGROUND", life, "FOREGROUND")
       PROVE  Good(z, R(k, st))
  <2>1. /\ s.launcher = "BACKGROUND" /\ Visit(z, t, a, gs, "BACKGROUND", "FOREGROUND", <<>>)
        /\ k = t /\ st = "FOREGROUND"
    BY <1>7, <1>8, <1>10
  <2>. QED
    BY <1>3, <1>5, <2>1, GuestShown
<1>11. ASSUME NEW gs, NEW ls \in {"FOREGROUND", "BACKGROUND"}, NEW life,
              Due(s, t, a, gs, ls, life, "BACKGROUND")
       PROVE  Good(z, R(k, st))
  <2>1. /\ s.launcher = ls /\ Visit(z, t, a, gs, ls, "BACKGROUND", <<>>)
        /\ k = t /\ st = "BACKGROUND"
    BY <1>7, <1>8, <1>11
  <2>. QED
    BY <1>3, <1>5, <2>1, GuestLeft
<1>12. CASE Due(s, t, a, "BACKGROUND", "FOREGROUND", "BACKGROUND", "DESTROY")
  <2>1. /\ s.launcher = "FOREGROUND"
        /\ Visit(z, t, a, "BACKGROUND", "FOREGROUND", "UNINITIALIZED", <<>>)
        /\ k = t /\ st = "UNINITIALIZED"
    BY <1>7, <1>8, <1>12
  <2>. QED
    BY <1>3, <1>5, <2>1, GuestDestroyed
<1>13. CASE Turn(s, t, a)
  BY <1>9, <1>10, <1>11, <1>12, <1>13 DEF Turn
<1>14. CASE AtHome(s, t, a)
  <2>1. k = LauncherToken /\ st = s.launcher
    BY <1>0, <1>2, <1>14 DEF AtHome
  <2>2. CASE s.launcher = "BACKGROUND"
    <3>1. \/ Visit(z, t, a, "STOP", "FOREGROUND", "NONE", <<>>)
          \/ Visit(z, t, a, "BACKGROUND", "FOREGROUND", "BACKGROUND", <<>>)
      BY <1>1, <1>14, <2>2 DEF AtHome
    <3>2. Good(z, SOnBackgroundDone(z, LauncherToken))
      BY <1>3, <2>2, <3>1, HomeLeft
    <3>. QED
      BY <1>5, <2>1, <2>2, <3>2
  <2>3. CASE s.launcher = "FOREGROUND"
    <3>1. \/ \E ls : Empty(z, ls) \/ Visit(z, t, a, "BACKGROUND", ls, "BACKGROUND", <<>>)
          \/ Visit(z, t, a, "FOREGROUND", "BACKGROUND", "FOREGROUND", <<>>)
      BY <1>1, <1>14, <2>3 DEF AtHome
    <3>. DEFINE y == SOnForegroundDone(z, LauncherToken, fails)
    <3>2. Good(z, y) /\ Free(y)
      BY <1>3, <2>3, <3>1, HomeShown
    <3>. HIDE DEF y
    <3>3. Good(z, RunOperation(Idle(y), fails, garbage))
      BY <3>2, EndsGood
    <3>. QED
      BY <1>5, <2>1, <2>3, <3>3 DEF y
  <2>. QED
    BY <1>14, <2>2, <2>3 DEF AtHome
<1>. QED
  BY <1>13, <1>14 DEF InSwitch

\* The service handles a report.
LEMMA ReportStep ==
    ASSUME SingleTask, Stage(State), HandleDone
    PROVE  Good(State, State')
<1>. DEFINE s == State
            z == [s EXCEPT !.amsQ = Tail(@)]
            R(f, g) == SchedulerLifecycleDone(z, Head(amsQ).token, Head(amsQ).state, f, g)
<1>1. PICK fails \in Failures, garbage \in Mission \cup {Unset} : Commit(R(fails, garbage))
  BY DEF HandleDone, Serve
<1>2. amsQ # <<>> /\ Head(amsQ).id = "done"
  BY DEF HandleDone, ServiceReady
<1>3. PICK t \in 1..TokenLimit, a \in App : Quieted(s, t, a) \/ InSwitch(s, t, a)
  BY DEF Stage
<1>. HIDE DEF R, s
<1>0. s.amsQ = amsQ /\ DOMAIN s = Fields
  BY StateFields, StageTyped DEF s
<1>4. InSwitch(s, t, a)
  <2>1. ASSUME NEW m \in Requests PROVE Head(<<m>>).id # "done"
    <3>1. m \in Operation
      BY SliteEnvironmentAssumption
    <3>. QED
      BY <3>1 DEF Operation
  <2>. QED
    BY <1>0, <1>2, <1>3, <2>1 DEF Quieted
<1>. DEFINE m == Head(s.amsQ)
            r == SchedulerLifecycleDone(z, m.token, m.state, fails, garbage)
<1>5. Good(s, r)
  BY <1>0, <1>2, <1>4, ReportGood
<1>6. R(fails, garbage) = r
  BY <1>0 DEF R
<1>. HIDE DEF r
<1>. QED
  BY <1>1, <1>5, <1>6, CommitSame, SameGood DEF s

\* The service boots.
Boot(s) ==
    /\ Proper(s) /\ s.list = <<>> /\ DOMAIN s.threads = {} /\ s.tokens = 0
    /\ Free(s) /\ s.amsQ = <<[id |-> "initialize"]>>

\* The record of the launcher is the first.
LEMMA HomeFirst ==
    ASSUME SingleTask, NEW s, DOMAIN s = Fields, s.nativeQ = <<>>, s.dangling = FALSE,
           s.list = <<>>, DOMAIN s.threads = {}, NEW d
    PROVE  LET r == AddRecord(s, d)
           IN  /\ Same(s, r, {"list", "threads"}) /\ r.list = <<d>> /\ DOMAIN r.threads = {}
<1>. DEFINE r == AddRecord(s, d)
<1>1. Add(s.list, d) = <<d>>
  <2>1. Len(<<>>) = 0 /\ ~Has(<<>>, d.token) /\ <<d>> \o <<>> = <<d>>
    BY DEF Has
  <2>2. ~(0 >= Capacity)
    BY Numbers
  <2>. QED
    BY <2>1, <2>2 DEF Add
<1>2. \A j \in DOMAIN s.list : Has(Add(s.list, d), s.list[j].token)
  OBVIOUS
<1>3. /\ Same(s, r, {"list", "threads"}) /\ r.list = Add(s.list, d)
      /\ r.threads = [t \in DOMAIN s.threads |-> s.threads[t]]
  BY <1>2, AddedOnly
<1>. HIDE DEF r
<1>4. DOMAIN r.threads = {}
  BY <1>3
<1>. QED
  BY <1>1, <1>3, <1>4 DEF r

\* The service starts the launcher.
LEMMA BootStep ==
    ASSUME SingleTask, Boot(State), OnFeatureInitialize
    PROVE  Good(State, State')
<1>. DEFINE s == State
            z == [s EXCEPT !.amsQ = Tail(@)]
            d == Desk("FOREGROUND")
            q == AbilityRecord(LauncherToken, Startup, TRUE, 0)
            e == AddRecord(z, d)
            r == ScheduleLifecycleInner(e, d, "FOREGROUND")
<1>1. PICK fails \in Failures, garbage \in Mission \cup {Unset} :
         Commit(StartLauncher(z, fails, garbage))
  BY DEF OnFeatureInitialize, Serve
<1>2. q = Desk("STOP")
  BY DEF AbilityRecord, Desk
<1>3. [q EXCEPT !.state = "FOREGROUND"] = d
  <2>. HIDE DEF q
  <2>1. \A x : [Desk("STOP") EXCEPT !.state = x] = Desk(x)
    BY Restated
  <2>. QED
    BY <1>2, <2>1, Zenon
<1>4. StartLauncher(z, fails, garbage) = r
  <2>1. \A p : p = d => ScheduleLifecycleInner(AddRecord(z, p), p, "FOREGROUND") = r
    OBVIOUS
  <2>2. StartLauncher(z, fails, garbage) =
          ScheduleLifecycleInner(AddRecord(z, [q EXCEPT !.state = "FOREGROUND"]),
                                 [q EXCEPT !.state = "FOREGROUND"], "FOREGROUND")
    BY SliteAssumption DEF StartLauncher, SingleTask
  <2>. HIDE DEF z, d, q, e, r
  <2>. QED
    BY <1>3, <2>1, <2>2
<1>. HIDE DEF s
<1>5. Same(s, z, {"amsQ"}) /\ z.amsQ = <<>>
  <2>1. DOMAIN s = Fields /\ s.amsQ = <<[id |-> "initialize"]>>
    BY DEF Boot, Proper, s
  <2>. QED
    BY <2>1 DEF Same, Fields
<1>. HIDE DEF z
<1>6. /\ DOMAIN z = Fields /\ z.nativeQ = <<>> /\ z.dangling = FALSE /\ z.list = <<>>
      /\ DOMAIN z.threads = {} /\ Free(z) /\ Knows(<<>>, z.seen) /\ Sane(z)
  BY <1>5 DEF Same, Fields, Boot, Proper, Free, Sane, s
<1>. HIDE DEF d
<1>7. Same(z, e, {"list", "threads"}) /\ e.list = <<d>> /\ DOMAIN e.threads = {}
  BY <1>6, HomeFirst
<1>. HIDE DEF e
<1>8. DOMAIN e = Fields /\ e.amsQ = <<>>
  BY <1>5, <1>7 DEF Same, Fields
<1>9. /\ Same(e, r, {"launcher", "amsQ", "ret"}) /\ r.launcher = "FOREGROUND"
      /\ r.amsQ = <<Report(LauncherToken, "FOREGROUND")>>
  BY <1>8, CallHome DEF d
<1>. HIDE DEF r
<1>10. /\ DOMAIN r = Fields /\ r.nativeQ = <<>> /\ r.dangling = FALSE /\ r.list = <<d>>
       /\ DOMAIN r.threads = {} /\ Free(r) /\ r.seen = z.seen /\ Sane(r)
  BY <1>6, <1>7, <1>9 DEF Same, Fields, Free, Sane
<1>11. Knows(r.list, r.seen)
  BY <1>6, <1>10 DEF Knows, Of
<1>12. Empty(r, "FOREGROUND")
  BY <1>10, <1>11 DEF Empty, Proper, Sane, RecordState, d
<1>13. /\ 1 \in 1..TokenLimit /\ Startup \in App
  BY Numbers
<1>14. Stage(r)
  BY <1>9, <1>10, <1>12, <1>13 DEF Stage, InSwitch, AtHome
<1>15. AbilitiesOf(r) = {} /\ AbilitiesOf(s) = {}
  <2>1. DOMAIN s.threads = {}
    BY DEF Boot, s
  <2>. QED
    BY <1>12, <2>1, Shown DEF AbilitiesOf
<1>16. Good(s, r)
  BY <1>14, <1>15 DEF Good, OneStep
<1>. QED
  BY <1>1, <1>4, <1>16, CommitSame, SameGood DEF s

\* The fields of State that no lemma about the other build needs.
LEMMA StateRest ==
    State.launcher = launcher /\ State.pendingRecord = pendingRecord
BY DEF State

\* A thread after a callback.
LEMMA Rethreaded ==
    ASSUME NEW e, DOMAIN e = {"native", "life", "inbox"}, NEW x, NEW y
    PROVE  [e EXCEPT !.life = x, !.inbox = y] = [native |-> e.native, life |-> x, inbox |-> y]
<1>. DEFINE h == [e EXCEPT !.life = x]
<1>1. h = [native |-> e.native, life |-> x, inbox |-> e.inbox]
  OBVIOUS
<1>2. [e EXCEPT !.life = x, !.inbox = y] = [h EXCEPT !.inbox = y]
  OBVIOUS
<1>3. DOMAIN h = {"native", "life", "inbox"}
  OBVIOUS
<1>4. h.native = e.native /\ h.life = x
  BY <1>1
<1>. HIDE DEF h
<1>5. [h EXCEPT !.inbox = y] = [native |-> h.native, life |-> h.life, inbox |-> y]
  BY <1>3, Refilled, Zenon
<1>. QED
  BY <1>2, <1>4, <1>5

\* An empty queue takes a request or a report.
LEMMA EmptyRoom ==
    ASSUME amsQ = <<>>
    PROVE  Len(amsQ) < QueueSize
<1>1. Len(<<>>) = 0
  OBVIOUS
<1>. QED
  BY <1>1, SliteAssumption

\* The task of the application runs the callback it was asked for and reports.
LEMMA Answers ==
    ASSUME NEW t, NEW a, NEW gs, NEW ls, NEW life, NEW id,
           Visit(State, t, a, gs, ls, life, Mail(t, id)), amsQ = <<>>,
           NEW x \in DOMAIN threads, JsAppTask(x)
    PROVE  /\ Visit(State', t, a, gs, ls, StateAfter(id), <<>>)
           /\ amsQ' = <<Report(t, StateAfter(id))>>
           /\ launcher' = launcher /\ ops' = ops /\ pendingRecord' = pendingRecord
<1>. DEFINE m == [id |-> id, token |-> t, saved |-> FALSE]
            e == [native |-> FALSE, life |-> life, inbox |-> Mail(t, id)]
            g == [e EXCEPT !.life = StateAfter(id), !.inbox = <<>>]
<1>1. threads = [u \in {t} |-> e]
  BY StateFields DEF Visit
<1>. HIDE DEF e
<1>2. x = t /\ threads[t] = e
  BY <1>1
<1>3. e.inbox = <<m>>
  BY DEF e, Mail
<1>4. Head(<<m>>) = m /\ Tail(<<m>>) = <<>>
  OBVIOUS
<1>5. Callback(m, <<>>) /\ nativeQ' = nativeQ
  BY <1>2, <1>3, <1>4 DEF JsAppTask
<1>6. m.id = id /\ m.token = t /\ m.saved = FALSE
  OBVIOUS
<1>. HIDE DEF m
<1>7. ~UsesDeleted(m)
  BY <1>6 DEF UsesDeleted
<1>8. /\ threads' = [threads EXCEPT ![t].life = StateAfter(id), ![t].inbox = <<>>]
      /\ amsQ' = <<Report(t, StateAfter(id))>>
  <2>1. amsQ' = Append(amsQ, Report(t, StateAfter(id)))
    <3>1. Len(amsQ) < QueueSize
      BY EmptyRoom
    <3>. QED
      BY <1>5, <1>6, <3>1 DEF Callback, SendRequestToAms, Report
  <2>2. \A y : Append(<<>>, y) = <<y>>
    OBVIOUS
  <2>. QED
    BY <1>5, <1>6, <2>1, <2>2 DEF Callback
<1>9. /\ list' = list /\ ops' = ops /\ scheduling' = scheduling /\ pending' = pending
      /\ pendingRecord' = pendingRecord /\ tokens' = tokens /\ missions' = missions
      /\ async' = async /\ launcher' = launcher /\ seen' = seen /\ nativeQ' = nativeQ
  BY <1>5 DEF Callback
<1>10. dangling' = FALSE
  <2>1. dangling = FALSE
    BY StateFields DEF Visit, Proper
  <2>. QED
    BY <1>5, <1>7, <2>1 DEF Callback
<1>11. threads' = [u \in {t} |-> [native |-> FALSE, life |-> StateAfter(id), inbox |-> <<>>]]
  <2>1. threads' = [threads EXCEPT ![t] = g]
    BY <1>1, <1>2, <1>8
  <2>2. g = [native |-> FALSE, life |-> StateAfter(id), inbox |-> <<>>]
    <3>1. DOMAIN e = {"native", "life", "inbox"}
      BY DEF e
    <3>2. e.native = FALSE
      BY DEF e
    <3>3. g = [native |-> e.native, life |-> StateAfter(id), inbox |-> <<>>]
      BY <3>1, Rethreaded, Zenon
    <3>. HIDE DEF g
    <3>. QED
      BY <3>2, <3>3
  <2>. HIDE DEF g
  <2>3. threads' = [u \in {t} |-> g]
    BY <1>1, <2>1
  <2>. QED
    BY <2>2, <2>3
<1>12. Visit(State', t, a, gs, ls, StateAfter(id), <<>>)
  <2>1. /\ DOMAIN State' = Fields /\ State'.list = list /\ State'.pending = pending
        /\ State'.tokens = tokens /\ State'.missions = missions
        /\ State'.scheduling = scheduling /\ State'.nativeQ = nativeQ
        /\ State'.seen = seen /\ State'.threads = threads'
    BY <1>9 DEF State, Fields
  <2>2. State'.dangling = FALSE
    BY <1>10 DEF State
  <2>3. Proper(State')
    BY <2>1, <2>2, StateFields DEF Visit, Proper
  <2>. QED
    BY <1>11, <2>1, <2>3, StateFields DEF Visit
<1>. QED
  BY <1>8, <1>9, <1>12

\* Nothing else lets a task run.
LEMMA CallbackStep ==
    ASSUME SingleTask, Stage(State), (\E x \in DOMAIN threads : JsAppTask(x)) \/ NativeAppTask
    PROVE  Good(State, State')
<1>. DEFINE s == State
<1>1. PICK t \in 1..TokenLimit, a \in App : Quieted(s, t, a) \/ InSwitch(s, t, a)
  BY DEF Stage
<1>2. nativeQ = <<>>
  BY <1>1, StateFields DEF Quieted, InSwitch, Turn, Due, AtHome, Resting, Staying, Empty, Visit,
                           Proper
<1>3. PICK x \in DOMAIN threads : JsAppTask(x)
  BY <1>2 DEF NativeAppTask
<1>4. threads[x].inbox # <<>>
  BY <1>3 DEF JsAppTask
<1>5. \A ls : ~Empty(s, ls)
  BY <1>3, StateFields DEF Empty
<1>6. \A gs, ls, life : ~Visit(s, t, a, gs, ls, life, <<>>)
  BY <1>3, <1>4, StateFields DEF Visit
<1>7. Free(s) /\ Turn(s, t, a)
  BY <1>1, <1>5, <1>6 DEF Quieted, InSwitch, AtHome, Resting, Staying
<1>8. ASSUME NEW gs, NEW ls, NEW life, NEW id, Due(s, t, a, gs, ls, life, id)
      PROVE  /\ Due(State', t, a, gs, ls, life, id) /\ Free(State')
             /\ AbilitiesOf(s) = {[app |-> a, life |-> life]}
             /\ AbilitiesOf(State') = {[app |-> a, life |-> StateAfter(id)]}
  <2>1. launcher = ls /\ amsQ = <<>> /\ Visit(s, t, a, gs, ls, life, Mail(t, id))
    BY <1>6, <1>8, StateFields, StateRest DEF Due
  <2>2. /\ Visit(State', t, a, gs, ls, StateAfter(id), <<>>)
        /\ amsQ' = <<Report(t, StateAfter(id))>>
        /\ launcher' = launcher /\ ops' = ops /\ pendingRecord' = pendingRecord
    BY <1>3, <2>1, Answers
  <2>3. /\ State'.amsQ = amsQ' /\ State'.launcher = launcher' /\ State'.ops = ops'
        /\ State'.pendingRecord = pendingRecord'
    BY DEF State
  <2>4. Free(State')
    BY <1>7, <2>2, <2>3, StateFields, StateRest DEF Free
  <2>. QED
    BY <2>1, <2>2, <2>3, <2>4, Shown DEF Due
<1>9. /\ StateAfter("CREATE") = "INITIAL" /\ StateAfter("FOREGROUND") = "FOREGROUND"
      /\ StateAfter("BACKGROUND") = "BACKGROUND" /\ StateAfter("DESTROY") = "UNINITIALIZED"
  BY DEF StateAfter
<1>. HIDE DEF s
<1>10. Turn(State', t, a) /\ Free(State')
  <2>1. \A gs, ls, life, id :
           Due(s, t, a, gs, ls, life, id) => Due(State', t, a, gs, ls, life, id) /\ Free(State')
    BY <1>8
  <2>. QED
    BY <1>7, <2>1 DEF Turn
<1>11. Stage(State')
  BY <1>10 DEF Stage, InSwitch
<1>12. ASSUME NEW gs, NEW ls, NEW life, NEW id, Due(s, t, a, gs, ls, life, id),
              \/ Called(life, StateAfter(id)) \/ StateAfter(id) = life
              \/ life = "BACKGROUND" /\ StateAfter(id) = "FOREGROUND",
              life \in Life \cup {"NONE"}, StateAfter(id) \in Life
       PROVE  OneStep(AbilitiesOf(s), AbilitiesOf(State'))
  <2>1. /\ AbilitiesOf(s) = {[app |-> a, life |-> life]}
        /\ AbilitiesOf(State') = {[app |-> a, life |-> StateAfter(id)]}
    BY <1>8, <1>12
  <2>2. CASE StateAfter(id) = life
    BY <2>1, <2>2 DEF OneStep
  <2>3. CASE StateAfter(id) # life
    BY <1>12, <2>1, <2>3 DEF OneStep
  <2>. QED
    BY <2>2, <2>3
<1>13. OneStep(AbilitiesOf(s), AbilitiesOf(State'))
  <2>1. Due(s, t, a, "STOP", "BACKGROUND", "NONE", "CREATE") =>
           OneStep(AbilitiesOf(s), AbilitiesOf(State'))
    BY <1>9, <1>12 DEF Called, Life
  <2>2. Due(s, t, a, "INITED", "BACKGROUND", "INITIAL", "FOREGROUND") =>
           OneStep(AbilitiesOf(s), AbilitiesOf(State'))
    BY <1>9, <1>12 DEF Called, Life
  <2>3. Due(s, t, a, "BACKGROUND", "BACKGROUND", "BACKGROUND", "FOREGROUND") =>
           OneStep(AbilitiesOf(s), AbilitiesOf(State'))
    BY <1>9, <1>12 DEF Called, Life
  <2>4. Due(s, t, a, "FOREGROUND", "BACKGROUND", "FOREGROUND", "BACKGROUND") =>
           OneStep(AbilitiesOf(s), AbilitiesOf(State'))
    BY <1>9, <1>12 DEF Called, Life
  <2>5. Due(s, t, a, "BACKGROUND", "FOREGROUND", "BACKGROUND", "BACKGROUND") =>
           OneStep(AbilitiesOf(s), AbilitiesOf(State'))
    BY <1>9, <1>12 DEF Called, Life
  <2>6. Due(s, t, a, "BACKGROUND", "FOREGROUND", "BACKGROUND", "DESTROY") =>
           OneStep(AbilitiesOf(s), AbilitiesOf(State'))
    BY <1>9, <1>12 DEF Called, Life
  <2>. QED
    BY <1>7, <2>1, <2>2, <2>3, <2>4, <2>5, <2>6 DEF Turn
<1>. QED
  BY <1>11, <1>13 DEF Good, s

\* A switch has one message or report on its way.
LEMMA SwitchCounts ==
    ASSUME NEW t, NEW a, InSwitch(State, t, a)
    PROVE  OnTheWay = 1
<1>. DEFINE I == UNION {{u} \X DOMAIN threads[u].inbox : u \in DOMAIN threads}
<1>1. nativeQ = <<>>
  BY StateFields DEF InSwitch, Turn, Due, AtHome, Empty, Visit, Proper
<1>2. OnTheWay = Cardinality(Reports) + Len(nativeQ) + Cardinality(I)
  BY DEF OnTheWay
<1>3. Cardinality({}) = 0 /\ \A y : Cardinality({y}) = 1
  BY FS_EmptySet, FS_Singleton
<1>4. Len(<<>>) = 0 /\ DOMAIN <<>> = {} /\ \A y : Len(<<y>>) = 1 /\ DOMAIN <<y>> = {1}
                                                  /\ <<y>>[1] = y
  OBVIOUS
<1>5. ASSUME NEW gs, NEW ls, NEW life, NEW inbox, Visit(State, t, a, gs, ls, life, inbox)
      PROVE  I = {t} \X DOMAIN inbox
  <2>1. threads = [u \in {t} |-> [native |-> FALSE, life |-> life, inbox |-> inbox]]
    BY <1>5, StateFields DEF Visit
  <2>2. DOMAIN threads = {t} /\ threads[t].inbox = inbox
    BY <2>1
  <2>. QED
    BY <2>2
<1>6. ASSUME NEW ls, Empty(State, ls)
      PROVE  I = {}
  BY <1>6, StateFields DEF Empty
<1>. HIDE DEF I
<1>12. Len(nativeQ) = 0
  BY <1>1, <1>4
<1>7. ASSUME NEW h, NEW life, amsQ = <<Report(h, life)>>, I = {}
      PROVE  OnTheWay = 1
  <2>1. Reports = {1}
    BY <1>4, <1>7 DEF Reports, Report
  <2>2. Cardinality(Reports) = 1
    BY <1>3, <2>1
  <2>3. Cardinality(I) = 0
    BY <1>3, <1>7
  <2>. QED
    BY <1>2, <1>12, <2>2, <2>3
<1>8. ASSUME NEW id, amsQ = <<>>, I = {t} \X DOMAIN Mail(t, id)
      PROVE  OnTheWay = 1
  <2>1. Reports = {}
    BY <1>4, <1>8 DEF Reports
  <2>2. I = {<<t, 1>>}
    BY <1>4, <1>8 DEF Mail
  <2>3. Cardinality(Reports) = 0
    BY <1>3, <2>1
  <2>4. Cardinality(I) = 1
    BY <1>3, <2>2
  <2>. QED
    BY <1>2, <1>12, <2>3, <2>4
<1>9. \A gs, ls, life : Visit(State, t, a, gs, ls, life, <<>>) => I = {}
  <2>1. {t} \X {} = {}
    OBVIOUS
  <2>. QED
    BY <1>4, <1>5, <2>1
<1>10. ASSUME NEW gs, NEW ls, NEW life, NEW id, Due(State, t, a, gs, ls, life, id)
       PROVE  OnTheWay = 1
  <2>1. CASE Visit(State, t, a, gs, ls, life, Mail(t, id)) /\ amsQ = <<>>
    BY <1>5, <1>8, <2>1
  <2>2. CASE /\ Visit(State, t, a, gs, ls, StateAfter(id), <<>>)
             /\ amsQ = <<Report(t, StateAfter(id))>>
    BY <1>7, <1>9, <2>2
  <2>. QED
    BY <1>10, <2>1, <2>2, StateFields DEF Due
<1>11. ASSUME AtHome(State, t, a)
       PROVE  OnTheWay = 1
  <2>1. I = {}
    BY <1>6, <1>9, <1>11 DEF AtHome
  <2>2. amsQ = <<Report(LauncherToken, State.launcher)>>
    BY <1>11, StateFields DEF AtHome
  <2>. QED
    BY <1>7, <2>1, <2>2
<1>. QED
  BY <1>10, <1>11 DEF InSwitch, Turn

\* Clients make a request between switches, when the queue of the service is empty.
LEMMA AskStep ==
    ASSUME SingleTask, Stage(State), NEW m \in Requests, Request(m)
    PROVE  Good(State, State')
<1>1. PICK t \in 1..TokenLimit, a \in App : Quieted(State, t, a) \/ InSwitch(State, t, a)
  BY DEF Stage
<1>2. OnTheWay = 0 /\ amsQ = <<>>
  BY DEF Request, SingleTask
<1>3. Quieted(State, t, a)
  BY <1>1, <1>2, SwitchCounts
<1>4. /\ Same(State, State', {"amsQ"}) /\ State'.amsQ = <<m>>
  <2>1. amsQ' = Append(amsQ, m)
    <3>1. Len(amsQ) < QueueSize
      BY <1>2, EmptyRoom
    <3>. QED
      BY <3>1 DEF Request, SendRequestToAms
  <2>2. \A y : Append(<<>>, y) = <<y>>
    OBVIOUS
  <2>3. amsQ' = <<m>>
    BY <1>2, <2>1, <2>2
  <2>4. State'.amsQ = amsQ'
    BY DEF State
  <2>. QED
    BY <2>3, <2>4 DEF Request, State, Same, Fields
<1>5. /\ State'.list = State.list /\ State'.threads = State.threads
      /\ State'.nativeQ = State.nativeQ /\ State'.dangling = State.dangling
      /\ State'.seen = State.seen /\ DOMAIN State' = Fields
      /\ State'.pending = State.pending /\ State'.tokens = State.tokens
      /\ State'.missions = State.missions /\ State'.scheduling = State.scheduling
      /\ State'.launcher = State.launcher /\ State'.ops = State.ops
      /\ State'.pendingRecord = State.pendingRecord
  BY <1>4 DEF Same, Fields
<1>6. Resting(State', t, a) /\ (State'.scheduling \/ Free(State'))
  <2>1. Same(State, State', Loose)
    BY <1>4 DEF Same, Loose
  <2>2. Sane(State)
    BY StageTyped
  <2>3. /\ \A ls : Empty(State, ls) => Empty(State', ls)
        /\ \A gs, ls, life, inbox :
              Visit(State, t, a, gs, ls, life, inbox) => Visit(State', t, a, gs, ls, life, inbox)
    BY <1>5, <2>1, <2>2, Beside DEF Sane
  <2>. QED
    BY <1>3, <1>5, <2>3 DEF Quieted, Resting, Staying, Free
<1>7. Stage(State')
  BY <1>4, <1>6 DEF Stage, Quieted
<1>8. AbilitiesOf(State') = AbilitiesOf(State)
  BY <1>5 DEF AbilitiesOf
<1>. QED
  BY <1>7, <1>8 DEF Good, OneStep

\* The service is booting, or in a stage.
SingleInv == Boot(State) \/ Stage(State)

\* At first the service boots.
LEMMA InitBoot == Init => Boot(State)
<1>. SUFFICES ASSUME Init PROVE Boot(State)
  OBVIOUS
<1>1. /\ list = <<>> /\ threads = <<>> /\ tokens = 0 /\ ops = <<>> /\ pendingRecord = {}
      /\ amsQ = <<[id |-> "initialize"]>> /\ pending = 0 /\ missions = 0
      /\ scheduling = FALSE /\ nativeQ = <<>> /\ dangling = FALSE
      /\ seen = [a \in App |-> "NONE"]
  BY DEF Init, LauncherToken
<1>2. 0 \in Token /\ 0 \in 0..TokenLimit /\ 0 \in Mission
  BY Numbers
<1>3. Knows(list, seen)
  BY <1>1 DEF Knows
<1>4. Proper(State)
  BY <1>1, <1>2, <1>3, StateFields DEF Proper
<1>. QED
  BY <1>1, <1>4, StateFields, StateRest DEF Boot, Free

\* Nothing happens before the launcher has been started, and it is started once.
LEMMA BootOnly ==
    /\ Boot(State) => /\ ~HandleRequest /\ ~HandleDone /\ ~NativeAppTask
                      /\ ~\E x \in DOMAIN threads : JsAppTask(x)
                      /\ \A m : ~Request(m)
    /\ Stage(State) => ~OnFeatureInitialize
<1>1. ASSUME Boot(State)
      PROVE  /\ ~HandleRequest /\ ~HandleDone /\ ~NativeAppTask
             /\ ~\E x \in DOMAIN threads : JsAppTask(x)
             /\ \A m : ~Request(m)
  <2>1. /\ amsQ = <<[id |-> "initialize"]>> /\ DOMAIN threads = {} /\ nativeQ = <<>>
        /\ list = <<>>
    BY <1>1, StateFields DEF Boot, Proper
  <2>2. Head(amsQ).id = "initialize"
    BY <2>1
  <2>. QED
    BY <2>1, <2>2 DEF HandleRequest, HandleDone, NativeAppTask, Request
<1>2. ASSUME Stage(State), OnFeatureInitialize
      PROVE  FALSE
  <2>1. amsQ # <<>> /\ Head(amsQ).id = "initialize"
    BY <1>2 DEF OnFeatureInitialize, ServiceReady
  <2>2. \/ amsQ = <<>>
        \/ \E m \in Requests : amsQ = <<m>>
        \/ \E h, life : amsQ = <<Report(h, life)>>
    BY <1>2, StateFields DEF Stage, Quieted, InSwitch, Turn, Due, AtHome
  <2>3. \A y : Head(<<y>>) = y
    OBVIOUS
  <2>4. Head(amsQ) \in Operation \/ Head(amsQ).id = "done"
    BY <2>1, <2>2, <2>3, SliteEnvironmentAssumption DEF Report
  <2>. QED
    BY <2>1, <2>4 DEF Operation
<1>. QED
  BY <1>1, <1>2

\* Every step of the system.
LEMMA SingleStep ==
    ASSUME SingleTask, SingleInv, Next
    PROVE  Good(State, State')
<1>1. CASE OnFeatureInitialize
  BY <1>1, BootStep, BootOnly DEF SingleInv
<1>2. CASE HandleRequest
  BY <1>2, RequestStep, BootOnly DEF SingleInv
<1>3. CASE HandleDone
  BY <1>3, ReportStep, BootOnly DEF SingleInv
<1>4. CASE (\E x \in DOMAIN threads : JsAppTask(x)) \/ NativeAppTask
  BY <1>4, CallbackStep, BootOnly DEF SingleInv
<1>5. CASE \E m \in Requests : ClientStart(m) \/ ClientTerminate(m) \/ ClientForceStop(m)
  <2>1. PICK m \in Requests : Request(m)
    BY <1>5 DEF ClientStart, ClientTerminate, ClientForceStop
  <2>. QED
    BY <2>1, AskStep, BootOnly DEF SingleInv
<1>. QED
  BY <1>1, <1>2, <1>3, <1>4, <1>5 DEF Next, Service

\* Between switches the launcher or the one application is in front and everyone
\* agrees on it; during a switch one message or report of it is on its way.
THEOREM SingleInvariance ==
    ASSUME SingleTask
    PROVE  Spec => []SingleInv
<1>1. Init => SingleInv
  BY InitBoot DEF SingleInv
<1>2. ASSUME SingleInv, [Next]_vars PROVE SingleInv'
  <2>1. CASE UNCHANGED vars
    <3>1. State' = State
      BY <2>1, StutterKeeps
    <3>. QED
      BY <1>2, <3>1 DEF SingleInv
  <2>2. CASE Next
    <3>1. Stage(State')
      BY <1>2, <2>2, SingleStep DEF Good
    <3>. QED
      BY <3>1 DEF SingleInv
  <2>. QED
    BY <1>2, <2>1, <2>2
<1>. QED
  BY <1>1, <1>2, PTL DEF Spec

-----------------------------------------------------------------------------
(* What the invariant says.                                                *)

\* The list is that of the launcher alone, or of the launcher and an application
\* with the only task.
LEMMA Listings ==
    ASSUME Stage(State)
    PROVE  /\ Proper(State)
           /\ \/ \E ls : Empty(State, ls)
              \/ \E t, a, gs, ls, life, inbox : Visit(State, t, a, gs, ls, life, inbox)
<1>. DEFINE L == /\ Proper(State)
                 /\ \/ \E ls : Empty(State, ls)
                    \/ \E t, a, gs, ls, life, inbox : Visit(State, t, a, gs, ls, life, inbox)
<1>1. PICK t \in 1..TokenLimit, a \in App : Quieted(State, t, a) \/ InSwitch(State, t, a)
  BY DEF Stage
<1>2. ASSUME NEW ls, Empty(State, ls)
      PROVE  L
  <2>1. Proper(State)
    BY <1>2 DEF Empty
  <2>. QED
    BY <1>2, <2>1
<1>3. ASSUME NEW u, NEW c, NEW gs, NEW ls, NEW life, NEW inbox,
             Visit(State, u, c, gs, ls, life, inbox)
      PROVE  L
  <2>1. Proper(State)
    BY <1>3 DEF Visit
  <2>. QED
    BY <1>3, <2>1
<1>. HIDE DEF L
<1>4. Quieted(State, t, a) => L
  BY <1>2, <1>3 DEF Quieted, Resting, Staying
<1>5. InSwitch(State, t, a) => L
  <2>1. \A gs, ls, life, id : Due(State, t, a, gs, ls, life, id) => L
    BY <1>3 DEF Due
  <2>2. AtHome(State, t, a) => L
    BY <1>2, <1>3 DEF AtHome
  <2>. QED
    BY <2>1, <2>2 DEF InSwitch, Turn
<1>6. L
  BY <1>1, <1>4, <1>5
<1>. QED
  BY <1>6 DEF L

\* The two records are records.
LEMMA RecordsTyped ==
    /\ \A ls \in RecordState : Desk(ls) \in RecordType
    /\ \A t \in Token : \A a \in App : \A gs \in RecordState : \A b \in BOOLEAN :
          Guest(t, a, gs, b) \in RecordType
<1>1. 0 \in Mission /\ LauncherToken \in Token /\ Startup \in App
  BY Numbers
<1>2. ASSUME NEW t \in Token, NEW a \in App, NEW gs \in RecordState, NEW b \in BOOLEAN
      PROVE  Guest(t, a, gs, b) \in RecordType
  BY <1>1 DEF Guest, RecordType, RecordState
<1>3. ASSUME NEW ls \in RecordState
      PROVE  Desk(ls) \in RecordType
  BY <1>1 DEF Desk, RecordType, RecordState
<1>. QED
  BY <1>2, <1>3

\* The list has at most two records, and the queue of the service one entry.
LEMMA SingleTypes == SingleTask /\ SingleInv => SliteTypeOK
<1>. SUFFICES ASSUME SingleTask, SingleInv PROVE SliteTypeOK
  OBVIOUS
<1>1. /\ QueueSize \in Nat \ {0} /\ Capacity \in Nat \ {0} /\ TokenLimit \in Nat \ {0}
      /\ MissionLimit \in Nat \ {0} /\ Capacity > 2
  BY SliteAssumption DEF SingleTask
<1>2. Len(<<>>) = 0 /\ \A y : Len(<<y>>) = 1
  OBVIOUS
<1>3. Len(amsQ) <= QueueSize
  <2>1. amsQ = <<>> \/ \E y : amsQ = <<y>>
    BY StateFields DEF SingleInv, Boot, Stage, Quieted, InSwitch, Turn, Due, AtHome
  <2>2. Len(amsQ) \in {0, 1}
    BY <1>2, <2>1
  <2>. QED
    BY <1>1, <2>2
<1>4. Proper(State)
  BY Listings DEF SingleInv, Boot
<1>5. /\ pending \in Token /\ tokens \in 0..TokenLimit /\ missions \in 0..MissionLimit
      /\ scheduling \in BOOLEAN
  BY <1>1, <1>4, StateFields DEF Proper, Mission
<1>6. list \in Seq(RecordType) /\ Len(list) <= Capacity /\ DOMAIN threads \subseteq Token
  <2>1. CASE Boot(State)
    <3>1. list = <<>> /\ DOMAIN threads = {}
      BY <2>1, StateFields DEF Boot
    <3>2. <<>> \in Seq(RecordType) /\ 0 <= Capacity
      BY <1>1
    <3>. QED
      BY <1>2, <3>1, <3>2
  <2>2. ASSUME NEW ls, Empty(State, ls)
        PROVE  list \in Seq(RecordType) /\ Len(list) <= Capacity /\ DOMAIN threads \subseteq Token
    <3>1. /\ list = <<Desk(ls)>> /\ DOMAIN threads = {} /\ Len(list) = 1
      BY <1>2, <2>2, StateFields DEF Empty
    <3>2. Desk(ls) \in RecordType
      BY <2>2, RecordsTyped DEF Empty
    <3>3. \A y \in RecordType : <<y>> \in Seq(RecordType)
      OBVIOUS
    <3>. QED
      BY <1>1, <3>1, <3>2, <3>3
  <2>3. ASSUME NEW t, NEW a, NEW gs, NEW ls, NEW life, NEW inbox,
               Visit(State, t, a, gs, ls, life, inbox)
        PROVE  list \in Seq(RecordType) /\ Len(list) <= Capacity /\ DOMAIN threads \subseteq Token
    <3>1. PICK b \in BOOLEAN : Both(list, t, a, gs, b, ls)
      BY <2>3, StateFields DEF Visit
    <3>2. /\ t \in Token /\ a \in App /\ gs \in RecordState /\ ls \in RecordState
          /\ list = <<Guest(t, a, gs, b), Desk(ls)>>
      BY <3>1, Numbers DEF Both
    <3>3. Guest(t, a, gs, b) \in RecordType /\ Desk(ls) \in RecordType
      BY <3>2, RecordsTyped
    <3>4. \A x, y \in RecordType : <<x, y>> \in Seq(RecordType)
      OBVIOUS
    <3>5. DOMAIN threads = {t}
      BY <2>3, StateFields DEF Visit
    <3>6. Len(list) = 2
      BY <3>1, OnGuest
    <3>. QED
      BY <1>1, <3>2, <3>3, <3>4, <3>5, <3>6
  <2>. QED
    BY <2>1, <2>2, <2>3, Listings DEF SingleInv
<1>. QED
  BY <1>3, <1>5, <1>6 DEF SliteTypeOK

\* A proper state has dangling = FALSE.
LEMMA SingleDangles == SingleInv => NoDangling
<1>1. SingleInv => Proper(State)
  BY Listings DEF SingleInv, Boot
<1>. QED
  BY <1>1, StateFields DEF Proper, NoDangling

\* The launcher is in the list, and at most one application has a task.
LEMMA SingleHome == SingleInv => OneTaskBesideHome
<1>1. Cardinality({}) = 0 /\ \A y : Cardinality({y}) = 1
  BY FS_EmptySet, FS_Singleton
<1>2. ASSUME Boot(State) PROVE OneTaskBesideHome
  <2>1. list = <<>> /\ tokens = 0 /\ DOMAIN threads = {}
    BY <1>2, StateFields DEF Boot
  <2>. QED
    BY <1>1, <2>1 DEF OneTaskBesideHome, LauncherStays, OneThread
<1>3. ASSUME NEW ls, Empty(State, ls) PROVE OneTaskBesideHome
  <2>1. DOMAIN threads = {} /\ Has(list, LauncherToken)
    <3>1. Has(State.list, LauncherToken)
      BY <1>3, OnDesk
    <3>. QED
      BY <1>3, <3>1, StateFields DEF Empty
  <2>. QED
    BY <1>1, <2>1 DEF OneTaskBesideHome, LauncherStays, OneThread
<1>4. ASSUME NEW t, NEW a, NEW gs, NEW ls, NEW life, NEW inbox,
             Visit(State, t, a, gs, ls, life, inbox)
      PROVE  OneTaskBesideHome
  <2>1. DOMAIN threads = {t}
    BY <1>4, StateFields DEF Visit
  <2>2. Has(list, LauncherToken)
    <3>1. PICK b \in BOOLEAN : Both(list, t, a, gs, b, ls)
      BY <1>4, StateFields DEF Visit
    <3>. QED
      BY <3>1, OnGuest
  <2>3. Cardinality(DOMAIN threads) = 1
    BY <1>1, <2>1
  <2>. QED
    BY <2>2, <2>3 DEF OneTaskBesideHome, LauncherStays, OneThread
<1>. QED
  BY <1>2, <1>3, <1>4, Listings DEF SingleInv

\* The observer was last told of a record that is in the list.
LEMMA SingleKnows == SingleInv => ObserverAgrees
<1>. SUFFICES ASSUME SingleInv, NEW x \in App, seen[x] \notin {"NONE", "GONE"}
              PROVE  IF HasApp(list, x) THEN GetApp(list, x).state = seen[x] ELSE seen[x] = "STOP"
  BY DEF ObserverAgrees
<1>1. PICK q \in Of(list) : q.app = x /\ q.state = seen[x]
  <2>1. Proper(State)
    BY Listings DEF SingleInv, Boot
  <2>. QED
    BY <2>1, StateFields DEF Proper, Knows
<1>2. CASE Boot(State)
  BY <1>1, <1>2, StateFields DEF Boot, Of
<1>3. ASSUME NEW ls, Empty(State, ls) PROVE HasApp(list, x) /\ GetApp(list, x) = q
  <2>1. /\ Of(list) = {Desk(ls)} /\ GetApp(list, Startup) = Desk(ls)
        /\ \A c : HasApp(list, c) <=> c = Startup
    BY <1>3, OnDesk, StateFields
  <2>2. q = Desk(ls) /\ x = Startup
    BY <1>1, <2>1, DeskParts
  <2>. QED
    BY <2>1, <2>2
<1>4. ASSUME NEW t, NEW a, NEW gs, NEW ls, NEW life, NEW inbox,
             Visit(State, t, a, gs, ls, life, inbox)
      PROVE  HasApp(list, x) /\ GetApp(list, x) = q
  <2>1. PICK b \in BOOLEAN : Both(list, t, a, gs, b, ls)
    BY <1>4, StateFields DEF Visit
  <2>2. /\ Of(list) = {Guest(t, a, gs, b), Desk(ls)}
        /\ GetApp(list, a) = Guest(t, a, gs, b) /\ GetApp(list, Startup) = Desk(ls)
        /\ \A c : HasApp(list, c) <=> c \in {a, Startup}
    BY <2>1, OnGuest
  <2>3. \/ q = Guest(t, a, gs, b) /\ x = a
        \/ q = Desk(ls) /\ x = Startup
    BY <1>1, <2>2, DeskParts, GuestParts
  <2>. QED
    BY <2>2, <2>3
<1>. QED
  BY <1>1, <1>2, <1>3, <1>4, Listings DEF SingleInv

\* Nothing is on its way, and the service does not hold anything back: the
\* launcher or the application rests in front.
LEMMA SingleSettled == SingleInv => SettledHome
<1>. SUFFICES ASSUME SingleInv, Settled
              PROVE  /\ Get(list, LauncherToken).state = launcher
                     /\ DOMAIN threads = {list[i].token : i \in DOMAIN list} \ {LauncherToken}
                     /\ \A t \in DOMAIN threads : Get(list, t).state = threads[t].life
  BY DEF SettledHome
<1>1. list # <<>> /\ OnTheWay = 0
  BY DEF Settled
<1>2. Stage(State)
  BY <1>1, StateFields DEF SingleInv, Boot
<1>3. PICK t \in 1..TokenLimit, a \in App : Quieted(State, t, a) \/ InSwitch(State, t, a)
  BY <1>2 DEF Stage
<1>4. Resting(State, t, a)
  BY <1>1, <1>3, SwitchCounts DEF Quieted
<1>5. ASSUME Empty(State, "FOREGROUND"), launcher = "FOREGROUND"
      PROVE  /\ Get(list, LauncherToken).state = launcher
             /\ DOMAIN threads = {list[i].token : i \in DOMAIN list} \ {LauncherToken}
             /\ \A u \in DOMAIN threads : Get(list, u).state = threads[u].life
  <2>1. /\ Get(list, LauncherToken) = Desk("FOREGROUND") /\ DOMAIN list = {1}
        /\ list[1] = Desk("FOREGROUND") /\ DOMAIN threads = {}
    BY <1>5, OnDesk, StateFields DEF Empty
  <2>2. Desk("FOREGROUND").state = "FOREGROUND" /\ Desk("FOREGROUND").token = LauncherToken
    BY DeskParts
  <2>. QED
    BY <1>5, <2>1, <2>2
<1>6. ASSUME NEW gs, NEW ls, Visit(State, t, a, gs, ls, gs, <<>>), launcher = ls
      PROVE  /\ Get(list, LauncherToken).state = launcher
             /\ DOMAIN threads = {list[i].token : i \in DOMAIN list} \ {LauncherToken}
             /\ \A u \in DOMAIN threads : Get(list, u).state = threads[u].life
  <2>1. PICK b \in BOOLEAN : Both(list, t, a, gs, b, ls)
    BY <1>6, StateFields DEF Visit
  <2>2. /\ Get(list, t) = Guest(t, a, gs, b) /\ Get(list, LauncherToken) = Desk(ls)
        /\ DOMAIN list = {1, 2} /\ list[1] = Guest(t, a, gs, b) /\ list[2] = Desk(ls)
        /\ t # LauncherToken
    BY <2>1, OnGuest
  <2>3. /\ Guest(t, a, gs, b).token = t /\ Guest(t, a, gs, b).state = gs
        /\ Desk(ls).token = LauncherToken /\ Desk(ls).state = ls
    BY DeskParts, GuestParts
  <2>4. DOMAIN threads = {t} /\ threads[t].life = gs
    <3>1. threads = [u \in {t} |-> [native |-> FALSE, life |-> gs, inbox |-> <<>>]]
      BY <1>6, StateFields DEF Visit
    <3>. QED
      BY <3>1
  <2>5. {list[i].token : i \in DOMAIN list} = {t, LauncherToken}
    BY <2>2, <2>3
  <2>. QED
    BY <1>6, <2>2, <2>3, <2>4, <2>5
<1>. QED
  BY <1>4, <1>5, <1>6, StateRest DEF Resting, Staying

-----------------------------------------------------------------------------
(* The abilities get the callbacks module OneAbility promises.             *)

\* Every move of a stage is a step of OneAbility or none.
LEMMA OneStepPromised ==
    ASSUME OneStep(Abilities, Abilities')
    PROVE  Promise!Next \/ UNCHANGED Abilities
<1>1. CASE Abilities' = Abilities
  BY <1>1
<1>2. CASE Abilities = {} /\ \E a \in App : Abilities' = {[app |-> a, life |-> "NONE"]}
  <2>1. PICK a \in App : Abilities' = {[app |-> a, life |-> "NONE"]}
    BY <1>2
  <2>2. Promise!Launch(a)
    BY <1>2, <2>1 DEF Promise!Launch
  <2>. QED
    BY <2>2 DEF Promise!Next
<1>3. ASSUME NEW a \in App, NEW x, NEW y, Called(x, y) \/ (x = "BACKGROUND" /\ y = "FOREGROUND"),
             Abilities = {[app |-> a, life |-> x]}, Abilities' = {[app |-> a, life |-> y]}
      PROVE  Promise!Next
  <2>1. Promise!OnCallback(x, y)
    BY <1>3 DEF Promise!OnCallback
  <2>. QED
    BY <1>3, <2>1 DEF Called, Promise!Next, Promise!OnCreate, Promise!OnForeground,
                      Promise!OnBackground, Promise!OnDestroy
<1>4. ASSUME NEW a \in App, NEW x \in {"FOREGROUND", "UNINITIALIZED"},
             Abilities = {[app |-> a, life |-> x]}, Abilities' = {}
      PROVE  Promise!Next
  <2>1. Promise!Release
    BY <1>4 DEF Promise!Release
  <2>. QED
    BY <2>1 DEF Promise!Next
<1>. QED
  BY <1>1, <1>2, <1>3, <1>4 DEF OneStep

\* Every step of the service is a step of OneAbility or none.
LEMMA SinglePromised ==
    ASSUME SingleTask, SingleInv, [Next]_vars
    PROVE  [Promise!Next]_Abilities
<1>1. CASE UNCHANGED vars
  BY <1>1, StutterKeeps, AbilitiesState
<1>2. CASE Next
  <2>1. OneStep(Abilities, Abilities')
    BY <1>2, SingleStep, AbilitiesState DEF Good
  <2>2. Promise!Next \/ UNCHANGED Abilities
    BY <2>1, OneStepPromised
  <2>. QED
    BY <2>2
<1>. QED
  BY <1>1, <1>2

\* The service without multi-tasking implements OneAbility, without a condition:
\* the application gets its callbacks in order, none skipped or repeated, and
\* goes only when it was destroyed, or forced to stop in the foreground.
THEOREM SinglePromiseKept ==
    ASSUME SingleTask
    PROVE  Spec => KeepsPromise
<1>1. Init => Promise!Init
  <2>1. Init => AbilitiesOf(State) = {}
    BY InitBoot DEF Boot, AbilitiesOf
  <2>. QED
    BY <2>1, AbilitiesState DEF Promise!Init
<1>2. SingleInv /\ [Next]_vars => [Promise!Next]_Abilities
  BY SinglePromised
<1>3. Spec => []SingleInv
  BY SingleInvariance
<1>. QED
  BY <1>1, <1>2, <1>3, PTL DEF Spec, KeepsPromise, Promise!Spec

\* Between switches the records of the launcher and of the application say what
\* both last did, and an application has a record as long as it has a task.
THEOREM SingleSettledHome ==
    ASSUME SingleTask
    PROVE  Spec => []SettledHome
BY SingleInvariance, SingleSettled, PTL

\* Without multi-tasking too, numbers, queues and the list of records stay within
\* their types and limits.
THEOREM SingleTypeOK ==
    ASSUME SingleTask
    PROVE  Spec => []SliteTypeOK
<1>1. SingleInv => SliteTypeOK
  BY SingleTypes
<1>. QED
  BY <1>1, SingleInvariance, PTL

\* The home screen stays in the list, and at most one application has a task.
THEOREM SingleOneTask ==
    ASSUME SingleTask
    PROVE  Spec => []OneTaskBesideHome
BY SingleInvariance, SingleHome, PTL

\* No handler and no task uses a deleted record or thread, or saved data.
THEOREM SingleNoDangling ==
    ASSUME SingleTask
    PROVE  Spec => []NoDangling
BY SingleInvariance, SingleDangles, PTL

\* What the observer was last told of a bundle is what the list says.
THEOREM SingleObserver ==
    ASSUME SingleTask
    PROVE  Spec => []ObserverAgrees
BY SingleInvariance, SingleKnows, PTL
=============================================================================
