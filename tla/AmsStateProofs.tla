-------------------------- MODULE AmsStateProofs ---------------------------
(***************************************************************************)
(* What the operations of AmsState and the tasks of AmsTasks keep: SInv,   *)
(* the part of the inductive invariant of module Ams that speaks of the    *)
(* service's memory, with one lemma per operation and one per task, which  *)
(* follows from the lemmas of the operations it calls.                     *)
(***************************************************************************)
EXTENDS AmsTasks, SequenceTheorems, TLAPS

-----------------------------------------------------------------------------
(* Lists: std::list of records without duplicates.                         *)

\* An element of a list is at its IndexOf.
LEMMA IndexOfElement ==
    ASSUME NEW seq, NEW x \in Elements(seq)
    PROVE  IndexOf(seq, x) \in 1..Len(seq) /\ seq[IndexOf(seq, x)] = x
BY DEF Elements, IndexOf

\* A list has elements exactly when it is not empty, and they are of its type.
LEMMA ElementsOfSeq ==
    ASSUME NEW S, NEW seq \in Seq(S)
    PROVE  /\ Elements(seq) \subseteq S
           /\ seq = <<>> <=> Elements(seq) = {}
           /\ seq # <<>> => Last(seq) \in Elements(seq)
<1>1. Len(seq) \in Nat /\ \A i \in 1..Len(seq) : seq[i] \in S
  BY ElementOfSeq, LenProperties
<1>2. seq = <<>> <=> Len(seq) = 0
  BY EmptySeq, LenProperties
<1>3. Elements(seq) \subseteq S
  BY <1>1 DEF Elements
<1>4. seq = <<>> => Elements(seq) = {}
  BY <1>1, <1>2 DEF Elements
<1>5. seq # <<>> => Last(seq) \in Elements(seq)
  <2>1. SUFFICES ASSUME seq # <<>> PROVE Len(seq) \in 1..Len(seq)
    BY DEF Elements, Last
  <2>. QED
    BY <1>1, <1>2, <2>1
<1>. QED
  BY <1>3, <1>4, <1>5

\* Appending adds an element, at the end.
LEMMA ElementsOfAppend ==
    ASSUME NEW S, NEW seq \in Seq(S), NEW x \in S
    PROVE  /\ Append(seq, x) \in Seq(S)
           /\ Append(seq, x) # <<>>
           /\ Last(Append(seq, x)) = x
           /\ Elements(Append(seq, x)) = Elements(seq) \cup {x}
           /\ Distinct(seq) /\ x \notin Elements(seq) => Distinct(Append(seq, x))
BY DEF Elements, Distinct, Last

\* A prefix of a list without duplicates keeps the elements up to its end.
LEMMA ElementsOfPrefix ==
    ASSUME NEW S, NEW seq \in Seq(S), Distinct(seq), NEW k \in 1..Len(seq)
    PROVE  /\ SubSeq(seq, 1, k - 1) \in Seq(S)
           /\ k = 1 <=> SubSeq(seq, 1, k - 1) = <<>>
           /\ Distinct(SubSeq(seq, 1, k - 1))
           /\ Elements(SubSeq(seq, 1, k - 1)) = Elements(seq) \ ElementsFrom(seq, k)
<1>. DEFINE p == SubSeq(seq, 1, k - 1)
<1>1. p \in Seq(S) /\ Len(p) = k - 1 /\ \A i \in 1..Len(p) : p[i] = seq[i]
  <2>1. Len(seq) \in Nat /\ \A i \in 1..(k - 1) : seq[i] \in S
    BY ElementOfSeq, LenProperties
  <2>. QED
    BY <2>1, SubSeqProperties
<1>2. p = <<>> <=> Len(p) = 0
  BY <1>1, EmptySeq, LenProperties
<1>3. Distinct(p)
  BY <1>1, LenProperties DEF Distinct
<1>4. Elements(p) = Elements(seq) \ ElementsFrom(seq, k)
  <2>1. ASSUME NEW x \in Elements(p)
        PROVE  x \in Elements(seq) \ ElementsFrom(seq, k)
    BY <1>1, <2>1, LenProperties DEF ElementsFrom, Elements, Distinct
  <2>2. ASSUME NEW x \in Elements(seq), x \notin ElementsFrom(seq, k)
        PROVE  x \in Elements(p)
    BY <1>1, <2>2, LenProperties DEF ElementsFrom, Elements
  <2>. QED
    BY <2>1, <2>2
<1>. QED
  BY <1>1, <1>2, <1>3, <1>4

\* std::list::remove on a list without duplicates.
LEMMA ElementsOfWithout ==
    ASSUME NEW S, NEW seq \in Seq(S), Distinct(seq), NEW x
    PROVE  /\ Without(seq, x) \in Seq(S)
           /\ Distinct(Without(seq, x))
           /\ Elements(Without(seq, x)) = Elements(seq) \ {x}
<1>1. CASE x \notin Elements(seq)
  BY <1>1 DEF Without
<1>2. CASE x \in Elements(seq)
  <2>. DEFINE k == IndexOf(seq, x)
              p == SubSeq(seq, 1, k - 1)
              q == SubSeq(seq, k + 1, Len(seq))
              w == p \o q
  <2>1. k \in 1..Len(seq) /\ seq[k] = x /\ Len(seq) \in Nat
    BY <1>2, IndexOfElement, LenProperties
  <2>. HIDE DEF k
  <2>2. p \in Seq(S) /\ Len(p) = k - 1 /\ \A i \in 1..(k - 1) : p[i] = seq[i]
    <3>1. \A i \in 1..(k - 1) : seq[i] \in S
      BY <2>1, ElementOfSeq
    <3>. QED
      BY <2>1, <3>1, SubSeqProperties
  <2>3. /\ q \in Seq(S) /\ Len(q) = Len(seq) - k
        /\ \A i \in 1..(Len(seq) - k) : q[i] = seq[k + i]
    <3>1. \A i \in (k + 1)..Len(seq) : seq[i] \in S
      BY <2>1, ElementOfSeq
    <3>. QED
      BY <2>1, <3>1, SubSeqProperties
  <2>4. /\ w \in Seq(S) /\ Len(w) = Len(seq) - 1
        /\ \A i \in 1..(Len(seq) - 1) : w[i] = IF i < k THEN seq[i] ELSE seq[i + 1]
    <3>1. /\ w \in Seq(S) /\ Len(w) = Len(p) + Len(q)
          /\ \A i \in 1..(Len(p) + Len(q)) : w[i] = IF i <= Len(p) THEN p[i] ELSE q[i - Len(p)]
      BY <2>2, <2>3, ConcatProperties
    <3>. HIDE DEF p, q, w
    <3>2. Len(w) = Len(seq) - 1
      <4>1. Len(p) + Len(q) = (k - 1) + (Len(seq) - k)
        BY <2>2, <2>3
      <4>2. (k - 1) + (Len(seq) - k) = Len(seq) - 1
        BY <2>1
      <4>. QED
        BY <3>1, <4>1, <4>2
    <3>3. ASSUME NEW i \in 1..(Len(seq) - 1)
          PROVE  w[i] = IF i < k THEN seq[i] ELSE seq[i + 1]
      <4>1. CASE i < k
        <5>1. i \in 1..(Len(p) + Len(q)) /\ i <= Len(p) /\ i \in 1..(k - 1)
          BY <2>1, <2>2, <2>3, <4>1
        <5>2. w[i] = p[i] /\ p[i] = seq[i]
          BY <2>2, <3>1, <5>1
        <5>. QED
          BY <4>1, <5>2
      <4>2. CASE i >= k
        <5>1. i - (k - 1) \in 1..(Len(seq) - k) /\ i \in 1..(Len(p) + Len(q)) /\ ~(i <= Len(p))
          BY <2>1, <2>2, <2>3, <4>2
        <5>2. w[i] = q[i - (k - 1)]
          BY <2>2, <3>1, <5>1
        <5>3. k + (i - (k - 1)) = i + 1
          BY <2>1
        <5>. QED
          BY <2>1, <2>3, <4>2, <5>1, <5>2, <5>3
      <4>. QED
        BY <2>1, <4>1, <4>2
    <3>. QED
      BY <3>1, <3>2, <3>3
  <2>5. Without(seq, x) = w
    BY <1>2 DEF Without, k
  <2>. DEFINE up(i) == IF i < k THEN i ELSE i + 1
  <2>. HIDE DEF w
  <2>6. ASSUME NEW i \in 1..Len(w)
        PROVE  up(i) \in 1..Len(seq) /\ up(i) # k /\ w[i] = seq[up(i)]
    <3>1. i \in 1..(Len(seq) - 1)
      BY <2>4
    <3>2. up(i) \in 1..Len(seq) /\ up(i) # k
      BY <2>1, <3>1
    <3>3. w[i] = seq[up(i)]
      BY <2>4, <3>1
    <3>. QED
      BY <3>2, <3>3
  <2>7. ASSUME NEW i \in 1..Len(w), NEW j \in 1..Len(w), i # j PROVE up(i) # up(j)
    BY <2>1, <2>4, <2>7
  <2>. HIDE DEF up
  <2>8. Distinct(w)
    <3>1. SUFFICES ASSUME NEW i \in 1..Len(w), NEW j \in 1..Len(w), i # j
                   PROVE  w[i] # w[j]
      BY DEF Distinct
    <3>2. up(i) # up(j) /\ w[i] = seq[up(i)] /\ w[j] = seq[up(j)]
      BY <2>6, <2>7, <3>1
    <3>3. up(i) \in 1..Len(seq) /\ up(j) \in 1..Len(seq)
      BY <2>6
    <3>. QED
      BY <3>2, <3>3 DEF Distinct
  <2>9. Elements(w) = Elements(seq) \ {x}
    <3>1. ASSUME NEW y \in Elements(w) PROVE y \in Elements(seq) \ {x}
      <4>1. PICK i \in 1..Len(w) : w[i] = y
        BY DEF Elements
      <4>2. up(i) \in 1..Len(seq) /\ up(i) # k /\ y = seq[up(i)]
        BY <2>6, <4>1
      <4>3. y # x
        BY <2>1, <4>2 DEF Distinct
      <4>. QED
        BY <4>2, <4>3 DEF Elements
    <3>2. ASSUME NEW y \in Elements(seq), y # x PROVE y \in Elements(w)
      <4>1. PICK i \in 1..Len(seq) : seq[i] = y
        BY DEF Elements
      <4>2. CASE i < k
        BY <2>1, <2>4, <4>1, <4>2 DEF Elements
      <4>3. CASE i > k
        <5>1. i - 1 \in 1..Len(w) /\ w[i - 1] = y
          BY <2>1, <2>4, <4>1, <4>3
        <5>. QED
          BY <5>1 DEF Elements
      <4>. QED
        BY <2>1, <3>2, <4>1, <4>2, <4>3
    <3>. QED
      BY <3>1, <3>2
  <2>. QED
    BY <2>4, <2>5, <2>8, <2>9
<1>. QED
  BY <1>1, <1>2

-----------------------------------------------------------------------------
(* The invariant of the service's memory.                                  *)

Fields == {"order", "pages", "prevMission", "topStack", "rec", "app",
           "lastToken", "dangling", "reread", "proc", "status"}

\* The next token is new.
Fresh(s) == \A t \in DOMAIN s.rec : t <= s.lastToken

SInv(s) ==
    /\ DOMAIN s = Fields
    /\ StateTyped(s)
    /\ MissionsListed(s)
    /\ ReturnsListed(s)
    /\ PagesListed(s)
    /\ PendingListed(s)
    /\ Fresh(s)

\* r has the stacks and the pages of s; what differs is in the page records, the
\* process table and the processes.
SameStack(s, r) ==
    /\ r.order = s.order /\ r.pages = s.pages
    /\ r.prevMission = s.prevMission /\ r.topStack = s.topStack
    /\ DOMAIN r.rec = DOMAIN s.rec
    /\ \A t \in DOMAIN s.rec : r.rec[t].ability = s.rec[t].ability
    /\ s.lastToken <= r.lastToken

\* A step that keeps the invariant and moves no page.
Quiet(s, r) == SInv(r) /\ SameStack(s, r)

LEMMA QuietTransitive ==
    ASSUME NEW s, NEW r, NEW u, SInv(s), Quiet(s, r), Quiet(r, u)
    PROVE  Quiet(s, u)
BY DEF Quiet, SameStack, SInv, StateTyped

\* The stacks of a state stay coherent when only the records' contents change.
LEMMA QuietStep ==
    ASSUME NEW s, NEW r, SInv(s), SameStack(s, r),
           DOMAIN r = Fields, StateTyped(r), PendingListed(r)
    PROVE  Quiet(s, r)
<1>1. MissionsListed(r) /\ ReturnsListed(r)
  BY DEF SInv, SameStack, MissionsListed, ReturnsListed
<1>2. PagesListed(r)
  <2>1. DOMAIN r.rec = UNION {Elements(r.pages[b]) : b \in Bundle}
    BY DEF SInv, SameStack, PagesListed
  <2>2. ASSUME NEW b \in Bundle PROVE Distinct(r.pages[b])
    BY DEF SInv, SameStack, PagesListed
  <2>3. ASSUME NEW b \in Bundle, NEW t \in Elements(r.pages[b])
        PROVE  BundleOf[r.rec[t].ability] = b
    BY <2>1 DEF SInv, SameStack, PagesListed
  <2>. QED
    BY <2>1, <2>2, <2>3 DEF PagesListed
<1>3. Fresh(r)
  BY DEF SInv, SameStack, Fresh, StateTyped, TokenMap, Token
<1>. QED
  BY <1>1, <1>2, <1>3 DEF Quiet, SInv

LEMMA DropTyped ==
    ASSUME NEW S, NEW f, TokenMap(f, S), NEW T
    PROVE  /\ TokenMap(Drop(f, T), S)
           /\ DOMAIN Drop(f, T) = DOMAIN f \ T
           /\ \A u \in DOMAIN f \ T : Drop(f, T)[u] = f[u]
BY DEF TokenMap, Drop

\* The status of a call is no part of the memory.
LEMMA StatusQuiet ==
    ASSUME NEW s, SInv(s), NEW x
    PROVE  LET r == [s EXCEPT !.status = x]
           IN  Quiet(s, r) /\ r.rec = s.rec /\ r.app = s.app /\ r.status = x
<1>. DEFINE r == [s EXCEPT !.status = x]
<1>1. DOMAIN r = Fields /\ r.status = x /\ \A f \in Fields \ {"status"} : r[f] = s[f]
  BY DEF SInv, Fields
<1>2. /\ r.order = s.order /\ r.pages = s.pages /\ r.prevMission = s.prevMission
      /\ r.topStack = s.topStack /\ r.rec = s.rec /\ r.app = s.app
      /\ r.lastToken = s.lastToken /\ r.dangling = s.dangling /\ r.reread = s.reread /\ r.proc = s.proc
  BY <1>1 DEF Fields
<1>. HIDE DEF r
<1>3. SameStack(s, r) /\ StateTyped(r) /\ PendingListed(r)
  BY <1>2 DEF SInv, SameStack, StateTyped, PendingListed
<1>4. Quiet(s, r)
  BY <1>1, <1>3, QuietStep
<1>. QED
  BY <1>1, <1>2, <1>4 DEF r

\* Page records that keep their ability and their application.
LEMMA RecordsQuiet ==
    ASSUME NEW s, NEW r, SInv(s), DOMAIN r = Fields,
           \A f \in Fields \ {"rec", "status"} : r[f] = s[f],
           DOMAIN r.rec = DOMAIN s.rec,
           \A t \in DOMAIN s.rec :
              /\ r.rec[t] \in RecordType
              /\ r.rec[t].ability = s.rec[t].ability
              /\ r.rec[t].app = s.rec[t].app
    PROVE  Quiet(s, r)
<1>1. /\ r.order = s.order /\ r.pages = s.pages /\ r.prevMission = s.prevMission
      /\ r.topStack = s.topStack /\ r.app = s.app
      /\ r.lastToken = s.lastToken /\ r.dangling = s.dangling /\ r.reread = s.reread /\ r.proc = s.proc
  BY DEF Fields
<1>2. SameStack(s, r)
  BY <1>1 DEF SameStack, SInv, StateTyped
<1>3. StateTyped(r)
  BY <1>1 DEF SInv, StateTyped, TokenMap
<1>4. PendingListed(r)
  BY <1>1 DEF SInv, PendingListed
<1>. QED
  BY <1>2, <1>3, <1>4, QuietStep

\* Processes that stay processes.
LEMMA ProcessesQuiet ==
    ASSUME NEW s, NEW r, SInv(s), DOMAIN r = Fields,
           \A f \in Fields \ {"proc", "status"} : r[f] = s[f],
           DOMAIN r.proc \subseteq Token,
           \A p \in DOMAIN r.proc : IsProcess(r.proc[p])
    PROVE  Quiet(s, r) /\ r.rec = s.rec /\ r.app = s.app
<1>1. /\ r.order = s.order /\ r.pages = s.pages /\ r.prevMission = s.prevMission
      /\ r.topStack = s.topStack /\ r.rec = s.rec /\ r.app = s.app
      /\ r.lastToken = s.lastToken /\ r.dangling = s.dangling /\ r.reread = s.reread
  BY DEF Fields
<1>2. SameStack(s, r) /\ StateTyped(r) /\ PendingListed(r)
  BY <1>1 DEF SInv, SameStack, StateTyped, PendingListed
<1>. QED
  BY <1>1, <1>2, QuietStep

\* A process takes a message.
LEMMA AppendMessage ==
    ASSUME NEW q, IsProcess(q), NEW m \in Message
    PROVE  IsProcess([q EXCEPT !.inbox = Append(@, m)])
BY DEF IsProcess

-----------------------------------------------------------------------------
(* Calls into a process.                                                   *)

LEMMA SendQuiet ==
    ASSUME NEW s, SInv(s), NEW id, NEW m \in Message
    PROVE  Quiet(s, Send(s, id, m)) /\ Send(s, id, m).rec = s.rec /\ Send(s, id, m).app = s.app
<1>1. CASE s.app[id].attached /\ Alive(s, id)
  <2>. DEFINE r == [s EXCEPT !.proc[id].inbox = Append(@, m), !.status = "ok"]
  <2>1. /\ DOMAIN r = Fields /\ \A f \in Fields \ {"proc", "status"} : r[f] = s[f]
        /\ r.proc = [s.proc EXCEPT ![id].inbox = Append(@, m)]
    BY DEF SInv, Fields
  <2>. HIDE DEF r
  <2>2. ASSUME NEW p \in DOMAIN r.proc PROVE IsProcess(r.proc[p])
    <3>1. p \in DOMAIN s.proc /\ IsProcess(s.proc[p])
      BY <2>1 DEF SInv, StateTyped
    <3>2. CASE p = id
      BY <2>1, <3>1, <3>2, AppendMessage
    <3>3. CASE p # id
      BY <2>1, <3>1, <3>3
    <3>. QED
      BY <3>2, <3>3
  <2>3. DOMAIN r.proc \subseteq Token
    BY <2>1 DEF SInv, StateTyped
  <2>4. Quiet(s, r) /\ r.rec = s.rec /\ r.app = s.app
    BY <2>1, <2>2, <2>3, ProcessesQuiet
  <2>5. Send(s, id, m) = r
    BY <1>1 DEF Send, r
  <2>. QED
    BY <2>4, <2>5
<1>2. CASE ~(s.app[id].attached /\ Alive(s, id))
  BY <1>2, StatusQuiet DEF Send
<1>. QED
  BY <1>1, <1>2

LEMMA CallAppQuiet ==
    ASSUME NEW s, SInv(s), NEW t \in DOMAIN s.rec, NEW m \in Message
    PROVE  /\ Quiet(s, CallApp(s, t, m))
           /\ CallApp(s, t, m).rec = s.rec /\ CallApp(s, t, m).app = s.app
           /\ CallApp(s, t, m).status = "ok" => s.rec[t].app \in DOMAIN s.app
<1>. DEFINE id == s.rec[t].app
<1>1. CASE id = 0
  <2>1. id \notin DOMAIN s.app
    BY <1>1 DEF SInv, StateTyped, TokenMap, Token
  <2>2. CallApp(s, t, m) = [s EXCEPT !.status = "transact"]
    BY <1>1, <2>1 DEF CallApp
  <2>. QED
    BY <2>2, StatusQuiet
<1>2. CASE id # 0 /\ id \in DOMAIN s.app
  BY <1>2, SendQuiet DEF CallApp
<1>3. CASE id # 0 /\ id \notin DOMAIN s.app
  <2>. DEFINE r == [s EXCEPT !.dangling = TRUE, !.status = "transact"]
  <2>1. /\ DOMAIN r = Fields /\ r.status = "transact"
        /\ \A f \in Fields \ {"dangling", "status"} : r[f] = s[f]
        /\ r.dangling = TRUE
    BY DEF SInv, Fields
  <2>. HIDE DEF r
  <2>2. /\ r.order = s.order /\ r.pages = s.pages /\ r.prevMission = s.prevMission
        /\ r.topStack = s.topStack /\ r.rec = s.rec /\ r.app = s.app
        /\ r.lastToken = s.lastToken /\ r.proc = s.proc /\ r.reread = s.reread
    BY <2>1 DEF Fields
  <2>3. r.dangling \in BOOLEAN
    BY <2>1
  <2>4. Quiet(s, r)
    <3>1. SameStack(s, r) /\ StateTyped(r) /\ PendingListed(r)
      BY <2>2, <2>3 DEF SInv, SameStack, StateTyped, PendingListed
    <3>. QED
      BY <2>1, <3>1, QuietStep
  <2>5. CallApp(s, t, m) = r
    BY <1>3 DEF CallApp, r
  <2>. QED
    BY <2>1, <2>2, <2>4, <2>5
<1>. QED
  BY <1>1, <1>2, <1>3

\* A lifecycle transaction moves no page.
LEMMA TransactIfQuiet ==
    ASSUME NEW s, SInv(s), NEW t \in DOMAIN s.rec, NEW permitted, NEW state \in AppState
    PROVE  LET r == TransactIf(s, t, permitted, state)
           IN  Quiet(s, r) /\ r.rec = s.rec /\ r.app = s.app
<1>. DEFINE m == [type |-> "transact", token |-> t, ability |-> s.rec[t].ability, state |-> state]
<1>1. m \in Message
  BY DEF SInv, StateTyped, TokenMap, RecordType, Message
<1>2. Transact(s, t, state) = CallApp(s, t, m)
  BY DEF Transact
<1>. HIDE DEF m
<1>3. CASE permitted
  BY <1>1, <1>2, <1>3, CallAppQuiet DEF TransactIf
<1>4. CASE ~permitted
  BY <1>4, StatusQuiet DEF TransactIf
<1>. QED
  BY <1>3, <1>4

LEMMA LifecycleQuiet ==
    ASSUME NEW s, SInv(s), NEW t \in DOMAIN s.rec,
           NEW r \in {ActiveAbility(s, t), InactiveAbility(s, t),
                      ToBackgroundAbility(s, t), StopAbility(s, t)}
    PROVE  Quiet(s, r) /\ r.rec = s.rec /\ r.app = s.app
BY TransactIfQuiet DEF ActiveAbility, InactiveAbility, ToBackgroundAbility, StopAbility, AppState

-----------------------------------------------------------------------------
(* The process table.                                                      *)

LEMMA AppOfListed ==
    ASSUME NEW s, NEW b
    PROVE  AppOf(s, b) # 0 => AppOf(s, b) \in DOMAIN s.app
BY DEF AppOf, AppsOf

\* Removing app records moves no page.
LEMMA RemoveAppsQuiet ==
    ASSUME NEW s, SInv(s), NEW ids
    PROVE  LET r == RemoveApps(s, ids)
           IN  Quiet(s, r) /\ r.rec = s.rec /\ r.app = Drop(s.app, ids)
<1>. DEFINE r == RemoveApps(s, ids)
<1>1. /\ DOMAIN r = Fields /\ r.order = s.order /\ r.pages = s.pages
      /\ r.prevMission = s.prevMission /\ r.topStack = s.topStack /\ r.rec = s.rec
      /\ r.lastToken = s.lastToken /\ r.dangling = s.dangling /\ r.reread = s.reread /\ r.proc = s.proc
      /\ r.app = Drop(s.app, ids)
  BY DEF SInv, Fields, RemoveApps
<1>. HIDE DEF r
<1>2. /\ TokenMap(r.app, AppType)
      /\ \A i \in DOMAIN r.app : i \in DOMAIN s.app /\ r.app[i] = s.app[i]
  <2>1. TokenMap(s.app, AppType)
    BY DEF SInv, StateTyped
  <2>2. /\ TokenMap(Drop(s.app, ids), AppType)
        /\ DOMAIN Drop(s.app, ids) = DOMAIN s.app \ ids
        /\ \A i \in DOMAIN s.app \ ids : Drop(s.app, ids)[i] = s.app[i]
    BY <2>1, DropTyped
  <2>. QED
    BY <1>1, <2>2
<1>3. SameStack(s, r) /\ StateTyped(r) /\ PendingListed(r)
  BY <1>1, <1>2 DEF SInv, SameStack, StateTyped, PendingListed
<1>4. Quiet(s, r)
  BY <1>1, <1>3, QuietStep
<1>. QED
  BY <1>1, <1>4 DEF r

LEMMA RemoveAppRecordQuiet ==
    ASSUME NEW s, SInv(s), NEW id
    PROVE  LET r == RemoveAppRecord(s, id)
           IN  Quiet(s, r) /\ r.rec = s.rec /\ r.app = Drop(s.app, {id})
<1>. DEFINE q == RemoveApps(s, {id})
            r == RemoveAppRecord(s, id)
            behind == \E i \in DOMAIN s.app : i > id
<1>1. Quiet(s, q) /\ q.rec = s.rec /\ q.app = Drop(s.app, {id})
  BY RemoveAppsQuiet
<1>2. SInv(q)
  BY <1>1 DEF Quiet
<1>3. r = [q EXCEPT !.reread = (q.reread \/ behind)]
  BY DEF RemoveAppRecord
<1>. HIDE DEF q, r, behind
<1>4. /\ DOMAIN r = Fields /\ r.order = q.order /\ r.pages = q.pages
      /\ r.prevMission = q.prevMission /\ r.topStack = q.topStack /\ r.rec = q.rec
      /\ r.lastToken = q.lastToken /\ r.proc = q.proc /\ r.app = q.app
      /\ r.dangling = q.dangling /\ r.reread = (q.reread \/ behind)
  BY <1>2, <1>3 DEF SInv, Fields
<1>5. r.reread \in BOOLEAN
  BY <1>4, Zenon
<1>6. SameStack(q, r) /\ StateTyped(r) /\ PendingListed(r)
  BY <1>2, <1>4, <1>5 DEF SInv, SameStack, StateTyped, PendingListed
<1>7. Quiet(q, r)
  BY <1>2, <1>4, <1>6, QuietStep
<1>8. Quiet(s, r)
  BY <1>1, <1>7, QuietTransitive
<1>. QED BY <1>1, <1>4, <1>8 DEF r

\* Spawning a process adds a record with an empty pending slot, or nothing.
LEMMA StartAppProcessQuiet ==
    ASSUME NEW s, SInv(s), NEW b \in Bundle, NEW fails
    PROVE  LET r == StartAppProcess(s, b, fails)
           IN  Quiet(s, r) /\ r.rec = s.rec
<1>. DEFINE r  == StartAppProcess(s, b, fails)
            id == s.lastToken + 1
<1>0. id \in Token /\ id \in Nat /\ s.lastToken <= id /\ s.lastToken \in Nat
  BY DEF SInv, StateTyped, Token
<1>. HIDE DEF id
<1>1. CASE b \in fails
  <2>1. /\ DOMAIN r = Fields /\ r.order = s.order /\ r.pages = s.pages
        /\ r.prevMission = s.prevMission /\ r.topStack = s.topStack /\ r.rec = s.rec
        /\ r.lastToken = id /\ r.dangling = s.dangling /\ r.reread = s.reread /\ r.proc = s.proc /\ r.app = s.app
    BY <1>1 DEF SInv, Fields, StartAppProcess, id
  <2>. HIDE DEF r
  <2>2. SameStack(s, r) /\ StateTyped(r) /\ PendingListed(r)
    BY <1>0, <2>1 DEF SInv, SameStack, StateTyped, PendingListed
  <2>3. Quiet(s, r)
    BY <2>1, <2>2, QuietStep
  <2>. QED
    BY <2>1, <2>3 DEF r
<1>2. CASE b \notin fails
  <2>1. /\ DOMAIN r = Fields /\ r.order = s.order /\ r.pages = s.pages
        /\ r.prevMission = s.prevMission /\ r.topStack = s.topStack /\ r.rec = s.rec
        /\ r.lastToken = id /\ r.dangling = s.dangling /\ r.reread = s.reread
        /\ r.proc = With(s.proc, id, NewProcess(b))
        /\ r.app = With(s.app, id, NewApp(b))
    BY <1>2 DEF SInv, Fields, StartAppProcess, id
  <2>. HIDE DEF r
  <2>2. NewApp(b) \in AppType /\ NewApp(b).pending = 0
    BY DEF NewApp, AppType
  <2>3. /\ TokenMap(r.app, AppType)
        /\ \A i \in DOMAIN r.app :
              \/ i \in DOMAIN s.app /\ r.app[i] = s.app[i]
              \/ r.app[i].pending = 0
    <3>1. TokenMap(s.app, AppType)
      BY DEF SInv, StateTyped
    <3>. DEFINE f == With(s.app, id, NewApp(b))
    <3>2. /\ TokenMap(f, AppType)
          /\ DOMAIN f = DOMAIN s.app \cup {id}
          /\ f[id] = NewApp(b)
          /\ \A i \in DOMAIN s.app \ {id} : f[i] = s.app[i]
      BY <1>0, <2>2, <3>1 DEF TokenMap, With
    <3>. QED
      BY <2>1, <2>2, <3>2
  <2>4. IsProcess(NewProcess(b))
    BY DEF NewProcess, IsProcess, TokenMap
  <2>5. DOMAIN r.proc \subseteq Token /\ \A p \in DOMAIN r.proc : IsProcess(r.proc[p])
    BY <1>0, <2>1, <2>4 DEF With, SInv, StateTyped
  <2>6. SameStack(s, r) /\ StateTyped(r) /\ PendingListed(r)
    BY <1>0, <2>1, <2>3, <2>5 DEF SInv, SameStack, StateTyped, PendingListed
  <2>7. Quiet(s, r)
    BY <2>1, <2>6, QuietStep
  <2>. QED
    BY <2>1, <2>7 DEF r
<1>. QED
  BY <1>1, <1>2

\* A page waits in the pending slot of a process that has been started for it.
LEMMA PendingQuiet ==
    ASSUME NEW s, SInv(s), NEW t \in DOMAIN s.rec, s.rec[t].app = 0,
           NEW id \in DOMAIN s.app
    PROVE  Quiet(s, [s EXCEPT !.rec[t].app = id, !.app[id].pending = t])
<1>. DEFINE r == [s EXCEPT !.rec[t].app = id, !.app[id].pending = t]
<1>1. /\ DOMAIN r = Fields /\ r.order = s.order /\ r.pages = s.pages
      /\ r.prevMission = s.prevMission /\ r.topStack = s.topStack
      /\ r.lastToken = s.lastToken /\ r.dangling = s.dangling /\ r.reread = s.reread /\ r.proc = s.proc
      /\ r.rec = [s.rec EXCEPT ![t].app = id]
      /\ r.app = [s.app EXCEPT ![id].pending = t]
  BY DEF SInv, Fields
<1>. HIDE DEF r
<1>2. id \in Nat /\ id # 0 /\ t \in Nat /\ 0 \notin DOMAIN s.app
  BY DEF SInv, StateTyped, TokenMap, Token
<1>3. /\ DOMAIN r.rec = DOMAIN s.rec
      /\ r.rec[t] = [s.rec[t] EXCEPT !.app = id]
      /\ \A u \in DOMAIN s.rec \ {t} : r.rec[u] = s.rec[u]
      /\ DOMAIN r.app = DOMAIN s.app
      /\ r.app[id] = [s.app[id] EXCEPT !.pending = t]
      /\ \A i \in DOMAIN s.app \ {id} : r.app[i] = s.app[i]
  BY <1>1
<1>4. /\ s.rec[t] \in RecordType /\ s.app[id] \in AppType
  BY DEF SInv, StateTyped, TokenMap
<1>5. /\ r.rec[t] \in RecordType /\ r.rec[t].app = id /\ r.rec[t].ability = s.rec[t].ability
      /\ r.app[id] \in AppType /\ r.app[id].pending = t
  BY <1>2, <1>3, <1>4 DEF RecordType, AppType
<1>6. SameStack(s, r)
  BY <1>1, <1>3, <1>5 DEF SInv, StateTyped, SameStack
<1>7. TokenMap(r.rec, RecordType) /\ TokenMap(r.app, AppType)
  BY <1>3, <1>5 DEF SInv, StateTyped, TokenMap
<1>8. StateTyped(r)
  BY <1>1, <1>7 DEF SInv, StateTyped
<1>9. PendingListed(r)
  <2>1. SUFFICES ASSUME NEW i \in DOMAIN s.app, r.app[i].pending # 0
                 PROVE  /\ r.app[i].pending \in DOMAIN s.rec
                        /\ r.rec[r.app[i].pending].app = i
    BY <1>3 DEF PendingListed
  <2>2. CASE i = id
    BY <1>5, <2>2
  <2>3. CASE i # id
    <3>1. r.app[i] = s.app[i] /\ s.app[i].pending \in DOMAIN s.rec
          /\ s.rec[s.app[i].pending].app = i
      BY <1>3, <2>1, <2>3 DEF SInv, PendingListed
    <3>2. s.app[i].pending # t
      BY <1>2, <3>1
    <3>. QED
      BY <1>3, <3>1, <3>2
  <2>. QED
    BY <2>2, <2>3
<1>10. Quiet(s, r)
  BY <1>1, <1>6, <1>8, <1>9, QuietStep
<1>. QED
  BY <1>10 DEF r

\* PageAbilityRecord::StartAbility moves no page.
LEMMA StartPageQuiet ==
    ASSUME NEW s, SInv(s), NEW t \in DOMAIN s.rec, NEW fails
    PROVE  Quiet(s, StartPage(s, t, fails))
<1>. DEFINE b  == BundleOfPage(s, t)
            s1 == IF AppOf(s, b) = 0 THEN StartAppProcess(s, b, fails)
                                     ELSE [s EXCEPT !.status = "ok"]
            id == AppOf(s1, b)
<1>1. CASE s.rec[t].app # 0
  <2>1. StartPage(s, t, fails) = ActiveAbility(s, t)
    BY <1>1 DEF StartPage
  <2>. QED
    BY <2>1, LifecycleQuiet
<1>2. CASE s.rec[t].app = 0
  <2>1. b \in Bundle
    BY BundleAssumption DEF SInv, StateTyped, TokenMap, RecordType, BundleOfPage
  <2>2. Quiet(s, s1) /\ s1.rec = s.rec
    BY <2>1, StartAppProcessQuiet, StatusQuiet
  <2>3. StartPage(s, t, fails) =
           IF id = 0 THEN s1 ELSE [s1 EXCEPT !.rec[t].app = id, !.app[id].pending = t]
    BY <1>2 DEF StartPage
  <2>. HIDE DEF s1
  <2>4. CASE id = 0
    BY <2>2, <2>3, <2>4
  <2>5. CASE id # 0
    <3>1. id \in DOMAIN s1.app
      BY <2>5, AppOfListed
    <3>. HIDE DEF id
    <3>2. SInv(s1) /\ t \in DOMAIN s1.rec /\ s1.rec[t].app = 0
      BY <1>2, <2>2 DEF Quiet
    <3>3. Quiet(s1, [s1 EXCEPT !.rec[t].app = id, !.app[id].pending = t])
      BY <3>1, <3>2, PendingQuiet
    <3>. QED
      BY <2>2, <2>3, <2>5, <3>3, QuietTransitive
  <2>. QED
    BY <2>4, <2>5
<1>. QED
  BY <1>1, <1>2

\* PageAbilityRecord::ExitApp moves no page.
LEMMA ExitAppQuiet ==
    ASSUME NEW s, SInv(s), NEW t \in DOMAIN s.rec
    PROVE  Quiet(s, ExitApp(s, t))
<1>. DEFINE m  == [type |-> "exit"]
            s1 == CallApp(s, t, m)
            id == s.rec[t].app
            s2 == RemoveAppRecord(s1, id)
            r  == [s2 EXCEPT !.rec[t].app = 0]
<1>1. m \in Message
  BY DEF Message
<1>2. Quiet(s, s1) /\ s1.rec = s.rec
  BY <1>1, CallAppQuiet
<1>3. SInv(s1)
  BY <1>2 DEF Quiet
<1>4. Quiet(s1, s2) /\ s2.rec = s.rec /\ s2.app = Drop(s1.app, {id})
  BY <1>2, <1>3, RemoveAppRecordQuiet
<1>5. ExitApp(s, t) = IF s1.status = "ok" THEN r ELSE s1
  BY DEF ExitApp
<1>6. Quiet(s2, r)
  <2>. HIDE DEF s1, s2
  <2>1. SInv(s2) /\ t \in DOMAIN s2.rec
    BY <1>4 DEF Quiet
  <2>2. /\ DOMAIN r = Fields /\ r.order = s2.order /\ r.pages = s2.pages
        /\ r.prevMission = s2.prevMission /\ r.topStack = s2.topStack
        /\ r.lastToken = s2.lastToken /\ r.dangling = s2.dangling /\ r.reread = s2.reread /\ r.proc = s2.proc
        /\ r.app = s2.app /\ r.rec = [s2.rec EXCEPT ![t].app = 0]
    BY <2>1 DEF SInv, Fields
  <2>. HIDE DEF r
  <2>3. /\ DOMAIN r.rec = DOMAIN s2.rec
        /\ r.rec[t] = [s2.rec[t] EXCEPT !.app = 0]
        /\ \A u \in DOMAIN s2.rec \ {t} : r.rec[u] = s2.rec[u]
    BY <2>1, <2>2
  <2>4. s2.rec[t] \in RecordType
    BY <2>1 DEF SInv, StateTyped, TokenMap
  <2>5. r.rec[t] \in RecordType /\ r.rec[t].ability = s2.rec[t].ability
    BY <2>3, <2>4 DEF RecordType
  <2>6. StateTyped(r) /\ SameStack(s2, r)
    BY <2>1, <2>2, <2>3, <2>5 DEF SInv, StateTyped, SameStack, TokenMap
  <2>7. PendingListed(r)
    <3>1. SUFFICES ASSUME NEW i \in DOMAIN s2.app, s2.app[i].pending # 0
                   PROVE  /\ s2.app[i].pending \in DOMAIN s2.rec
                          /\ r.rec[s2.app[i].pending].app = i
      BY <2>2, <2>3 DEF PendingListed
    <3>2. s2.app[i].pending \in DOMAIN s2.rec /\ s2.rec[s2.app[i].pending].app = i
      BY <2>1, <3>1 DEF SInv, PendingListed
    <3>3. i # id
      BY <1>4 DEF Drop
    <3>4. s2.app[i].pending # t
      BY <1>4, <3>2, <3>3
    <3>. QED
      BY <2>3, <3>2, <3>4
  <2>. QED
    BY <2>1, <2>2, <2>6, <2>7, QuietStep
<1>. QED
  <2>. HIDE DEF s1, s2, r
  <2>1. Quiet(s, s2)
    BY <1>2, <1>4, QuietTransitive
  <2>2. Quiet(s, r)
    BY <1>6, <2>1, QuietTransitive
  <2>. QED
    BY <1>2, <1>5, <2>2

-----------------------------------------------------------------------------
(* The operations that move pages and missions.  SInv is taken apart: PInv *)
(* is what it says of the page records, their lists and the pending slots, *)
(* and MissionsListed and ReturnsListed are about the mission lists.  An   *)
(* operation may break the latter on its way, between the removal of a     *)
(* mission's last page and that of the mission.                            *)

PInv(s) ==
    /\ DOMAIN s = Fields
    /\ StateTyped(s)
    /\ PagesListed(s)
    /\ PendingListed(s)
    /\ Fresh(s)

LEMMA SInvParts ==
    ASSUME NEW s
    PROVE  SInv(s) <=> PInv(s) /\ MissionsListed(s) /\ ReturnsListed(s)
BY DEF SInv, PInv

\* r has the pages of s.
SamePages(s, r) == /\ r.pages = s.pages /\ r.rec = s.rec /\ r.app = s.app
                   /\ r.lastToken = s.lastToken

\* A step that changes the mission lists alone.
LEMMA MissionStep ==
    ASSUME NEW s, NEW r, PInv(s), DOMAIN r = Fields,
           \A f \in Fields \ {"order", "prevMission", "topStack"} : r[f] = s[f],
           r.order \in Seq(Bundle \ {Launcher}),
           r.prevMission \in [Bundle -> Bundle \cup {None}],
           r.topStack \in {"none", "launcher", "default"}
    PROVE  PInv(r) /\ SamePages(s, r)
<1>1. /\ r.pages = s.pages /\ r.rec = s.rec /\ r.app = s.app
      /\ r.lastToken = s.lastToken /\ r.dangling = s.dangling /\ r.reread = s.reread /\ r.proc = s.proc
  BY DEF Fields
<1>. QED
  BY <1>1 DEF PInv, SamePages, StateTyped, PagesListed, PendingListed, Fresh

-----------------------------------------------------------------------------
(* Where a page is.                                                        *)

LEMMA PageListed ==
    ASSUME NEW s, PInv(s), NEW t \in DOMAIN s.rec
    PROVE  /\ BundleOfPage(s, t) \in Bundle
           /\ s.pages[BundleOfPage(s, t)] \in Seq(Token)
           /\ Distinct(s.pages[BundleOfPage(s, t)])
           /\ t \in Elements(s.pages[BundleOfPage(s, t)])
           /\ s.pages[BundleOfPage(s, t)] # <<>>
<1>1. PICK b \in Bundle : t \in Elements(s.pages[b])
  BY DEF PInv, PagesListed
<1>2. BundleOfPage(s, t) = b
  BY <1>1 DEF PInv, PagesListed, BundleOfPage
<1>3. s.pages[b] \in Seq(Token) /\ Distinct(s.pages[b])
  BY DEF PInv, StateTyped, PagesListed
<1>4. s.pages[b] # <<>>
  BY <1>1, <1>3, ElementsOfSeq
<1>. QED
  BY <1>1, <1>2, <1>3, <1>4

\* Every page of a mission has a record, the last one too.
LEMMA ListedPage ==
    ASSUME NEW s, PInv(s), NEW b \in Bundle
    PROVE  /\ s.pages[b] \in Seq(Token)
           /\ Elements(s.pages[b]) \subseteq DOMAIN s.rec
           /\ s.pages[b] # <<>> => Last(s.pages[b]) \in DOMAIN s.rec
<1>1. s.pages[b] \in Seq(Token) /\ Elements(s.pages[b]) \subseteq DOMAIN s.rec
  BY DEF PInv, StateTyped, PagesListed
<1>2. s.pages[b] # <<>> => Last(s.pages[b]) \in Elements(s.pages[b])
  BY <1>1, ElementsOfSeq
<1>. QED
  BY <1>1, <1>2

\* A mission of the default stack has pages.
LEMMA ListedMission ==
    ASSUME NEW s, SInv(s)
    PROVE  /\ s.order \in Seq(Bundle \ {Launcher}) /\ Distinct(s.order)
           /\ \A b \in Elements(s.order) : b \in Bundle \ {Launcher} /\ s.pages[b] # <<>>
           /\ s.order # <<>> => Last(s.order) \in Elements(s.order)
<1>1. s.order \in Seq(Bundle \ {Launcher})
  BY DEF SInv, StateTyped
<1>2. s.order # <<>> => Last(s.order) \in Elements(s.order)
  BY <1>1, ElementsOfSeq
<1>. QED
  BY <1>1, <1>2 DEF SInv, MissionsListed

\* GetTopMissionRecord returns a mission with pages, or nullptr.
LEMMA TopMissionListed ==
    ASSUME NEW s, SInv(s), NEW stack, NEW m, m = TopMission(s, stack)
    PROVE  m = None \/ (m \in Bundle /\ s.pages[m] # <<>>
                        /\ (stack # "launcher" => m \in Elements(s.order)))
<1>1. CASE stack = "launcher"
  BY <1>1, BundleAssumption DEF TopMission
<1>2. CASE stack = "default"
  <2>1. m = IF s.order # <<>> THEN Last(s.order) ELSE None
    BY <1>2 DEF TopMission
  <2>. QED
    BY <2>1, ListedMission
<1>3. CASE stack \notin {"launcher", "default"}
  BY <1>3 DEF TopMission
<1>. QED
  BY <1>1, <1>2, <1>3

\* GetTopPageAbility returns a page with a record, or nullptr.
LEMMA TopPageListed ==
    ASSUME NEW s, SInv(s)
    PROVE  TopPage(s) \in DOMAIN s.rec \cup {0}
<1>. DEFINE m == TopMission(s, s.topStack)
<1>1. m = None \/ (m \in Bundle /\ s.pages[m] # <<>>)
  BY TopMissionListed
<1>2. TopPage(s) = IF m = None THEN 0 ELSE Last(s.pages[m])
  BY DEF TopPage
<1>. HIDE DEF m
<1>3. PInv(s)
  BY SInvParts
<1>. QED
  BY <1>1, <1>2, <1>3, ListedPage

\* GetPrevPageAbility returns a page with a record, or nullptr.
LEMMA PrevPageListed ==
    ASSUME NEW s, SInv(s), NEW t \in DOMAIN s.rec
    PROVE  PrevPage(s, t) \in DOMAIN s.rec \cup {0}
<1>. DEFINE b == BundleOfPage(s, t)
            i == IndexOf(s.pages[b], t)
            p == s.prevMission[b]
<1>0. PInv(s)
  BY SInvParts
<1>1. b \in Bundle /\ t \in Elements(s.pages[b]) /\ s.pages[b] \in Seq(Token)
  BY <1>0, PageListed
<1>. HIDE DEF b
<1>2. i \in 1..Len(s.pages[b])
  BY <1>1, IndexOfElement
<1>3. Len(s.pages[b]) \in Nat
  BY <1>1, LenProperties
<1>4. PrevPage(s, t) =
         CASE i > 1                         -> s.pages[b][i - 1]
           [] i = 1 /\ p # None             -> Last(s.pages[p])
           [] i = 1 /\ p = None /\ s.pages[Launcher] # <<>> -> Last(s.pages[Launcher])
           [] OTHER                         -> 0
  BY DEF PrevPage, b
<1>. HIDE DEF i
<1>5. CASE i > 1
  <2>1. PrevPage(s, t) = s.pages[b][i - 1]
    BY <1>4, <1>5
  <2>2. s.pages[b][i - 1] \in Elements(s.pages[b])
    BY <1>2, <1>3, <1>5 DEF Elements
  <2>. QED
    BY <1>0, <1>1, <2>1, <2>2, ListedPage
<1>6. CASE i = 1 /\ p # None
  <2>1. PrevPage(s, t) = Last(s.pages[p])
    BY <1>4, <1>6
  <2>2. p \in Elements(s.order)
    BY <1>1, <1>6 DEF SInv, ReturnsListed
  <2>3. p \in Bundle /\ s.pages[p] # <<>>
    BY <2>2, ListedMission
  <2>. QED
    BY <1>0, <2>1, <2>3, ListedPage
<1>7. CASE i = 1 /\ p = None
  <2>1. PrevPage(s, t) = IF s.pages[Launcher] # <<>> THEN Last(s.pages[Launcher]) ELSE 0
    BY <1>4, <1>7
  <2>. QED
    BY <1>0, <2>1, ListedPage, BundleAssumption
<1>. QED
  BY <1>2, <1>3, <1>5, <1>6, <1>7

-----------------------------------------------------------------------------
(* Missions move.                                                          *)

\* AbilityMissionStack::MoveToTop of a mission that is listed.
LEMMA MoveToTopKeeps ==
    ASSUME NEW s, SInv(s), NEW b, b = Launcher \/ b \in Elements(s.order)
    PROVE  LET r == MoveToTop(s, b)
           IN  /\ SInv(r) /\ SamePages(s, r)
               /\ Elements(r.order) = Elements(s.order)
               /\ r.prevMission = s.prevMission /\ r.topStack = s.topStack
               /\ r.dangling = s.dangling /\ r.reread = s.reread
               /\ b # Launcher => r.order # <<>>
<1>1. CASE b = Launcher
  <2>1. MoveToTop(s, b) = s
    BY <1>1 DEF MoveToTop
  <2>. QED
    BY <1>1, <2>1 DEF SamePages
<1>2. CASE b # Launcher
  <2>. DEFINE r == MoveToTop(s, b)
              w == Without(s.order, b)
  <2>1. /\ DOMAIN r = Fields
        /\ \A f \in Fields \ {"order"} : r[f] = s[f]
        /\ r.order = Append(w, b)
    BY <1>2 DEF MoveToTop, SInv, Fields
  <2>2. /\ r.prevMission = s.prevMission /\ r.topStack = s.topStack /\ r.pages = s.pages
        /\ r.dangling = s.dangling /\ r.reread = s.reread
    BY <2>1 DEF Fields
  <2>. HIDE DEF r
  <2>3. b \in Bundle \ {Launcher} /\ s.order \in Seq(Bundle \ {Launcher}) /\ Distinct(s.order)
    BY <1>2, ListedMission
  <2>4. w \in Seq(Bundle \ {Launcher}) /\ Distinct(w) /\ Elements(w) = Elements(s.order) \ {b}
    BY <2>3, ElementsOfWithout
  <2>. HIDE DEF w
  <2>5. /\ r.order \in Seq(Bundle \ {Launcher}) /\ r.order # <<>> /\ Distinct(r.order)
        /\ Elements(r.order) = Elements(s.order)
    <3>1. /\ Append(w, b) \in Seq(Bundle \ {Launcher}) /\ Append(w, b) # <<>>
          /\ Elements(Append(w, b)) = Elements(w) \cup {b}
          /\ Distinct(w) /\ b \notin Elements(w) => Distinct(Append(w, b))
      BY <2>3, <2>4, ElementsOfAppend
    <3>. QED
      BY <1>2, <2>1, <2>4, <3>1
  <2>6. PInv(r) /\ SamePages(s, r)
    <3>1. PInv(s) /\ s.prevMission \in [Bundle -> Bundle \cup {None}]
          /\ s.topStack \in {"none", "launcher", "default"}
      BY SInvParts DEF SInv, StateTyped
    <3>. QED
      BY <2>1, <2>2, <2>5, <3>1, MissionStep
  <2>7. MissionsListed(r) /\ ReturnsListed(r)
    BY <2>2, <2>5 DEF SInv, MissionsListed, ReturnsListed
  <2>. QED
    BY <2>2, <2>5, <2>6, <2>7, SInvParts DEF r
<1>. QED
  BY <1>1, <1>2

\* RemoveMissionRecord of the mission b, which has just lost its last page; what is
\* left to the caller is the stack on top.
LEMMA RemoveMissionKeeps ==
    ASSUME NEW s, PInv(s), ReturnsListed(s), NEW b \in Bundle, s.pages[b] = <<>>,
           Distinct(s.order),
           Elements(s.order) \ {b} = {c \in Bundle \ {Launcher} : s.pages[c] # <<>>}
    PROVE  LET r == RemoveMission(s, b)
           IN  /\ PInv(r) /\ SamePages(s, r) /\ ReturnsListed(r)
               /\ r.order \in Seq(Bundle \ {Launcher})
               /\ Distinct(r.order) /\ Elements(r.order) = Elements(s.order) \ {b}
               /\ r.topStack = s.topStack
               /\ r.topStack = "default" /\ r.order # <<>> => SInv(r)
               /\ r.topStack # "default" => SInv(r)
<1>. DEFINE r == RemoveMission(s, b)
            pm == [c \in Bundle |-> IF c = b \/ s.prevMission[c] = b
                                    THEN None ELSE s.prevMission[c]]
<1>1. /\ DOMAIN r = Fields
      /\ \A f \in Fields \ {"order", "prevMission"} : r[f] = s[f]
      /\ r.order = Without(s.order, b)
      /\ r.prevMission = pm
  BY DEF RemoveMission, PInv, Fields
<1>2. r.topStack = s.topStack /\ r.pages = s.pages
  BY <1>1 DEF Fields
<1>. HIDE DEF r
<1>3. /\ s.order \in Seq(Bundle \ {Launcher})
      /\ s.prevMission \in [Bundle -> Bundle \cup {None}]
      /\ s.topStack \in {"none", "launcher", "default"}
  BY DEF PInv, StateTyped
<1>4. /\ r.order \in Seq(Bundle \ {Launcher}) /\ Distinct(r.order)
      /\ Elements(r.order) = Elements(s.order) \ {b}
  BY <1>1, <1>3, ElementsOfWithout
<1>5. pm \in [Bundle -> Bundle \cup {None}]
  BY <1>3
<1>6. PInv(r) /\ SamePages(s, r)
  BY <1>1, <1>2, <1>3, <1>4, <1>5, MissionStep
<1>7. ReturnsListed(r)
  <2>1. SUFFICES ASSUME NEW c \in Bundle, pm[c] # None
                 PROVE  /\ c \in Elements(r.order)
                        /\ pm[c] \in Elements(r.order) \ {c}
    BY <1>1 DEF ReturnsListed
  <2>2. c # b /\ pm[c] = s.prevMission[c] /\ pm[c] # b
    BY <2>1
  <2>. HIDE DEF pm
  <2>. QED
    BY <1>4, <2>1, <2>2 DEF ReturnsListed
<1>8. r.topStack # "default" \/ r.order # <<>> => SInv(r)
  BY <1>2, <1>4, <1>6, <1>7, SInvParts DEF MissionsListed
<1>. QED
  BY <1>2, <1>4, <1>6, <1>7, <1>8 DEF r

-----------------------------------------------------------------------------
(* Pages go.                                                               *)

\* The destructors of page records: the records go, and no pending slot keeps one.
LEMMA DeleteRecordsEffect ==
    ASSUME NEW s, PInv(s), NEW gone
    PROVE  LET r == DeleteRecords(s, gone)
           IN  /\ DOMAIN r = Fields
               /\ \A f \in Fields \ {"rec", "app", "dangling"} : r[f] = s[f]
               /\ r.rec = Drop(s.rec, gone)
               /\ TokenMap(r.rec, RecordType) /\ TokenMap(r.app, AppType)
               /\ r.dangling \in BOOLEAN
               /\ PendingListed(r)
<1>. DEFINE r == DeleteRecords(s, gone)
            cleared(i) == s.app[i].pending \in gone /\ s.rec[s.app[i].pending].app = i
            slots == [i \in DOMAIN s.app |->
                        IF cleared(i) THEN [s.app[i] EXCEPT !.pending = 0] ELSE s.app[i]]
            bad == s.dangling \/ \E t \in gone : s.rec[t].app \notin DOMAIN s.app \cup {0}
<1>1. r = [s EXCEPT !.rec = Drop(@, gone), !.app = slots, !.dangling = bad]
  BY DEF DeleteRecords
<1>. HIDE DEF r, slots, bad
<1>2. /\ DOMAIN r = Fields
      /\ \A f \in Fields \ {"rec", "app", "dangling"} : r[f] = s[f]
      /\ r.rec = Drop(s.rec, gone) /\ r.app = slots /\ r.dangling = bad
  BY <1>1 DEF PInv, Fields
<1>3. r.dangling \in BOOLEAN
  BY <1>2, Zenon DEF bad
<1>4. TokenMap(r.rec, RecordType)
  BY <1>2 DEF PInv, StateTyped, TokenMap, Drop
<1>5. /\ DOMAIN r.app = DOMAIN s.app
      /\ \A i \in DOMAIN s.app :
            r.app[i] = IF cleared(i) THEN [s.app[i] EXCEPT !.pending = 0] ELSE s.app[i]
  BY <1>2, Zenon DEF slots
<1>. HIDE DEF cleared
<1>6. ASSUME NEW i \in DOMAIN s.app
      PROVE  /\ r.app[i] \in AppType
             /\ r.app[i].pending = IF cleared(i) THEN 0 ELSE s.app[i].pending
  <2>1. s.app[i] \in AppType
    BY DEF PInv, StateTyped, TokenMap
  <2>2. CASE cleared(i)
    <3>1. r.app[i] = [s.app[i] EXCEPT !.pending = 0]
      BY <1>5, <2>2
    <3>. QED
      BY <2>1, <2>2, <3>1 DEF AppType
  <2>3. CASE ~cleared(i)
    BY <1>5, <2>1, <2>3
  <2>. QED
    BY <2>2, <2>3
<1>7. TokenMap(r.app, AppType)
  BY <1>5, <1>6 DEF PInv, StateTyped, TokenMap
<1>8. PendingListed(r)
  <2>1. SUFFICES ASSUME NEW i \in DOMAIN s.app, r.app[i].pending # 0
                 PROVE  /\ r.app[i].pending \in DOMAIN r.rec
                        /\ r.rec[r.app[i].pending].app = i
    BY <1>5 DEF PendingListed
  <2>2. r.app[i].pending = s.app[i].pending /\ ~cleared(i)
    BY <1>6, <2>1
  <2>3. s.app[i].pending \in DOMAIN s.rec /\ s.rec[s.app[i].pending].app = i
    BY <2>1, <2>2 DEF PInv, PendingListed
  <2>4. s.app[i].pending \notin gone
    BY <2>2, <2>3 DEF cleared
  <2>. QED
    BY <1>2, <2>2, <2>3, <2>4 DEF Drop
<1>. QED
  BY <1>2, <1>3, <1>4, <1>7, <1>8 DEF r

LEMMA PagesListedParts ==
    ASSUME NEW s,
           \A b \in Bundle : Distinct(s.pages[b]),
           \A b \in Bundle : \A t \in Elements(s.pages[b]) :
              t \in DOMAIN s.rec /\ BundleOf[s.rec[t].ability] = b,
           \A t \in DOMAIN s.rec : \E b \in Bundle : t \in Elements(s.pages[b])
    PROVE  PagesListed(s)
BY DEF PagesListed

\* The pages that are left when the pages in gone leave the mission b.
LEMMA CutPages ==
    ASSUME NEW s, PagesListed(s), NEW b \in Bundle, NEW gone \in SUBSET Elements(s.pages[b]),
           NEW r, Distinct(r.pages[b]), Elements(r.pages[b]) = Elements(s.pages[b]) \ gone,
           \A c \in Bundle \ {b} : r.pages[c] = s.pages[c],
           DOMAIN r.rec = DOMAIN s.rec \ gone,
           \A t \in DOMAIN r.rec : r.rec[t] = s.rec[t]
    PROVE  PagesListed(r)
<1>1. ASSUME NEW c \in Bundle
      PROVE  Elements(r.pages[c]) = Elements(s.pages[c]) \ gone
  <2>1. CASE c # b
    <3>1. ASSUME NEW t \in gone PROVE t \notin Elements(s.pages[c])
      BY <2>1, <3>1 DEF PagesListed
    <3>. QED
      BY <2>1, <3>1
  <2>. QED
    BY <2>1
<1>2. ASSUME NEW c \in Bundle PROVE Distinct(r.pages[c])
  BY DEF PagesListed
<1>3. ASSUME NEW c \in Bundle, NEW t \in Elements(r.pages[c])
      PROVE  t \in DOMAIN r.rec /\ BundleOf[r.rec[t].ability] = c
  BY <1>1 DEF PagesListed
<1>4. ASSUME NEW t \in DOMAIN r.rec
      PROVE  \E c \in Bundle : t \in Elements(r.pages[c])
  <2>1. PICK c \in Bundle : t \in Elements(s.pages[c])
    BY DEF PagesListed
  <2>. QED
    BY <1>1, <2>1
<1>. QED
  BY <1>2, <1>3, <1>4, PagesListedParts

\* A mission loses its page k and the pages above.
LEMMA TruncateKeeps ==
    ASSUME NEW s, SInv(s), NEW b \in Bundle, NEW k \in 1..Len(s.pages[b])
    PROVE  LET r == CutMission(s, b, k)
           IN  /\ PInv(r)
               /\ r.order = s.order /\ r.prevMission = s.prevMission /\ r.topStack = s.topStack
               /\ r.pages[b] = <<>> <=> k = 1
               /\ \A c \in Bundle \ {b} : r.pages[c] = s.pages[c]
<1>. DEFINE gone == ElementsFrom(s.pages[b], k)
            d    == DeleteRecords(s, gone)
            cut  == SubSeq(s.pages[b], 1, k - 1)
            r    == CutMission(s, b, k)
<1>1. s.pages \in [Bundle -> Seq(Token)] /\ s.pages[b] \in Seq(Token) /\ Distinct(s.pages[b])
  BY DEF SInv, StateTyped, PagesListed
<1>2. gone \in SUBSET Elements(s.pages[b])
  BY <1>1, LenProperties DEF Elements, ElementsFrom
<1>3. /\ cut \in Seq(Token) /\ (k = 1 <=> cut = <<>>) /\ Distinct(cut)
      /\ Elements(cut) = Elements(s.pages[b]) \ gone
  BY <1>1, ElementsOfPrefix
<1>. HIDE DEF gone
<1>4. /\ DOMAIN d = Fields
      /\ \A f \in Fields \ {"rec", "app", "dangling"} : d[f] = s[f]
      /\ d.rec = Drop(s.rec, gone)
      /\ TokenMap(d.rec, RecordType) /\ TokenMap(d.app, AppType)
      /\ PendingListed(d)
  BY SInvParts, DeleteRecordsEffect
<1>5. d.dangling \in BOOLEAN
  BY SInvParts, DeleteRecordsEffect
<1>6. d.pages = s.pages
  BY <1>4 DEF Fields
<1>7. r = [d EXCEPT !.pages = [s.pages EXCEPT ![b] = cut]]
  BY <1>6 DEF d, r, CutMission, gone
<1>. HIDE DEF d, r, cut
<1>8. /\ DOMAIN r = Fields /\ r.order = s.order /\ r.prevMission = s.prevMission
      /\ r.topStack = s.topStack /\ r.pages = [s.pages EXCEPT ![b] = cut]
      /\ r.rec = d.rec /\ r.app = d.app /\ r.lastToken = s.lastToken
      /\ r.proc = s.proc /\ r.dangling = d.dangling /\ r.reread = s.reread
  BY <1>4, <1>7 DEF Fields
<1>9. r.dangling \in BOOLEAN
  BY <1>5, <1>8
<1>10. PendingListed(r)
  BY <1>4, <1>8 DEF PendingListed
<1>11. /\ r.pages \in [Bundle -> Seq(Token)] /\ r.pages[b] = cut
       /\ \A c \in Bundle \ {b} : r.pages[c] = s.pages[c]
  BY <1>1, <1>3, <1>8
<1>12. PagesListed(r)
  <2>1. DOMAIN r.rec = DOMAIN s.rec \ gone /\ \A t \in DOMAIN r.rec : r.rec[t] = s.rec[t]
    BY <1>4, <1>8 DEF Drop
  <2>2. PagesListed(s)
    BY DEF SInv
  <2>. QED
    BY <1>2, <1>3, <1>11, <2>1, <2>2, CutPages
<1>13. StateTyped(r)
  BY <1>4, <1>8, <1>9, <1>11 DEF SInv, StateTyped
<1>14. Fresh(r)
  BY <1>4, <1>8 DEF SInv, Fresh, Drop
<1>15. PInv(r)
  BY <1>8, <1>10, <1>12, <1>13, <1>14 DEF PInv
<1>. QED
  BY <1>3, <1>8, <1>11, <1>15 DEF r, gone

\* The launcher's stack on top.
LEMMA HomeKeeps ==
    ASSUME NEW s, PInv(s), ReturnsListed(s), s.order \in Seq(Bundle \ {Launcher}),
           Distinct(s.order),
           Elements(s.order) = {c \in Bundle \ {Launcher} : s.pages[c] # <<>>}
    PROVE  SInv([s EXCEPT !.topStack = "launcher"])
<1>. DEFINE r == [s EXCEPT !.topStack = "launcher"]
<1>1. /\ DOMAIN r = Fields /\ \A f \in Fields \ {"topStack"} : r[f] = s[f]
      /\ r.topStack = "launcher"
  BY DEF PInv, Fields
<1>. HIDE DEF r
<1>2. r.order = s.order /\ r.prevMission = s.prevMission /\ r.pages = s.pages
  BY <1>1 DEF Fields
<1>3. PInv(r)
  <2>1. s.prevMission \in [Bundle -> Bundle \cup {None}]
    BY DEF PInv, StateTyped
  <2>. QED
    BY <1>1, <1>2, <2>1, MissionStep
<1>4. MissionsListed(r) /\ ReturnsListed(r)
  BY <1>1, <1>2 DEF MissionsListed, ReturnsListed
<1>. QED
  BY <1>3, <1>4, SInvParts DEF r

\* AbilityStackManager::RemovePageAbility keeps the invariant.
LEMMA RemovePageKeeps ==
    ASSUME NEW s, SInv(s), NEW t \in DOMAIN s.rec
    PROVE  SInv(RemovePage(s, t))
<1>. DEFINE b    == BundleOfPage(s, t)
            i    == IndexOf(s.pages[b], t)
            prev == s.prevMission[b]
            s1   == CutMission(s, b, i)
            s2   == RemoveMission(s1, b)
<1>1. RemovePage(s, t) = CASE i > 1                -> s1
                           [] i = 1 /\ prev # None -> MoveToTop(s2, prev)
                           [] OTHER                -> [s2 EXCEPT !.topStack = "launcher"]
  BY DEF RemovePage
<1>2. b \in Bundle /\ s.pages[b] \in Seq(Token) /\ t \in Elements(s.pages[b])
  BY SInvParts, PageListed
<1>. HIDE DEF b
<1>3. i \in 1..Len(s.pages[b])
  BY <1>2, IndexOfElement
<1>. HIDE DEF i
<1>4. /\ PInv(s1)
      /\ s1.order = s.order /\ s1.prevMission = s.prevMission /\ s1.topStack = s.topStack
      /\ s1.pages[b] = <<>> <=> i = 1
      /\ \A c \in Bundle \ {b} : s1.pages[c] = s.pages[c]
  BY <1>2, <1>3, TruncateKeeps
<1>. HIDE DEF s1
<1>5. /\ ReturnsListed(s1) /\ Distinct(s.order)
      /\ Elements(s.order) = {c \in Bundle \ {Launcher} : s.pages[c] # <<>>}
      /\ s.topStack = "default" => s.order # <<>>
  BY <1>4 DEF SInv, MissionsListed, ReturnsListed
<1>6. i \in Nat /\ i >= 1
  BY <1>2, <1>3, LenProperties
<1>7. CASE i > 1
  <2>1. RemovePage(s, t) = s1
    BY <1>1, <1>7
  <2>2. s.pages[b] # <<>> /\ s1.pages[b] # <<>>
    BY <1>2, <1>4, <1>6, <1>7, ElementsOfSeq
  <2>3. MissionsListed(s1)
    BY <1>4, <1>5, <2>2 DEF MissionsListed
  <2>. QED
    BY <1>4, <1>5, <2>1, <2>3, SInvParts
<1>8. CASE i = 1
  <2>1. s1.pages[b] = <<>>
    BY <1>4, <1>8
  <2>2. Elements(s1.order) \ {b} = {c \in Bundle \ {Launcher} : s1.pages[c] # <<>>}
    BY <1>4, <1>5, <2>1
  <2>3. /\ PInv(s2) /\ SamePages(s1, s2) /\ ReturnsListed(s2)
        /\ s2.order \in Seq(Bundle \ {Launcher})
        /\ Distinct(s2.order) /\ Elements(s2.order) = Elements(s1.order) \ {b}
        /\ s2.topStack = s1.topStack
        /\ s2.topStack = "default" /\ s2.order # <<>> => SInv(s2)
        /\ s2.topStack # "default" => SInv(s2)
    BY <1>2, <1>4, <1>5, <2>1, <2>2, RemoveMissionKeeps
  <2>. HIDE DEF s2
  <2>4. CASE prev # None
    <3>1. prev \in Elements(s.order) \ {b}
      BY <1>2, <2>4 DEF SInv, ReturnsListed
    <3>2. prev \in Elements(s2.order) /\ s2.order # <<>>
      BY <1>4, <2>3, <3>1, ElementsOfSeq
    <3>3. SInv(MoveToTop(s2, prev))
      BY <2>3, <3>2, MoveToTopKeeps
    <3>4. RemovePage(s, t) = MoveToTop(s2, prev)
      BY <1>1, <1>8, <2>4
    <3>. QED
      BY <3>3, <3>4
  <2>5. CASE prev = None
    <3>1. RemovePage(s, t) = [s2 EXCEPT !.topStack = "launcher"]
      BY <1>1, <1>8, <2>5
    <3>2. Elements(s2.order) = {c \in Bundle \ {Launcher} : s2.pages[c] # <<>>}
      BY <2>2, <2>3 DEF SamePages
    <3>. QED
      BY <2>3, <3>1, <3>2, HomeKeeps
  <2>. QED
    BY <2>4, <2>5
<1>. QED
  BY <1>6, <1>7, <1>8

\* AbilityStackManager::ClearAbilityStack keeps the invariant.
LEMMA ClearAbilityStackKeeps ==
    ASSUME NEW s, SInv(s), NEW b \in Bundle
    PROVE  SInv(ClearAbilityStack(s, b))
<1>. DEFINE prev == s.prevMission[b]
            home == [s EXCEPT !.topStack = "launcher"]
            s1   == IF prev # None
                    THEN MoveToTop(s, prev)
                    ELSE IF TopMission(s, s.topStack) = b THEN home ELSE s
            s2   == CutMission(s1, b, 1)
<1>1. CASE s.pages[b] = <<>>
  BY <1>1 DEF ClearAbilityStack
<1>2. CASE s.pages[b] # <<>>
  <2>1. ClearAbilityStack(s, b) = RemoveMission(s2, b)
    BY <1>2 DEF ClearAbilityStack, ClearMission
  <2>2. PInv(s) /\ s.order \in Seq(Bundle \ {Launcher}) /\ s.pages[b] \in Seq(Token)
    BY SInvParts DEF SInv, StateTyped
  <2>3. /\ SInv(s1) /\ s1.pages = s.pages
        /\ s1.topStack = "default" => Elements(s1.order) \ {b} # {}
    <3>1. CASE prev # None
      <4>1. prev \in Elements(s.order) \ {b}
        BY <3>1 DEF SInv, ReturnsListed
      <4>2. s1 = MoveToTop(s, prev)
        BY <3>1
      <4>. HIDE DEF s1
      <4>. QED
        BY <4>1, <4>2, MoveToTopKeeps DEF SamePages
    <3>2. CASE prev = None /\ TopMission(s, s.topStack) = b
      <4>1. s1 = home
        BY <3>2
      <4>2. home.topStack = "launcher" /\ home.pages = s.pages
        BY DEF SInv, Fields
      <4>3. SInv(home)
        BY <2>2, HomeKeeps DEF SInv, MissionsListed
      <4>. HIDE DEF s1, home
      <4>. QED
        BY <4>1, <4>2, <4>3
    <3>3. CASE prev = None /\ TopMission(s, s.topStack) # b
      <4>1. s1 = s
        BY <3>3
      <4>2. ASSUME s.topStack = "default" PROVE Elements(s.order) \ {b} # {}
        <5>1. s.order # <<>>
          BY <4>2 DEF SInv, MissionsListed
        <5>2. Last(s.order) # b
          BY <3>3, <4>2, <5>1 DEF TopMission
        <5>. QED
          BY <2>2, <5>1, <5>2, ElementsOfSeq
      <4>. QED
        BY <4>1, <4>2
    <3>. QED
      BY <3>1, <3>2, <3>3
  <2>. HIDE DEF s1
  <2>4. /\ PInv(s2)
        /\ s2.order = s1.order /\ s2.prevMission = s1.prevMission /\ s2.topStack = s1.topStack
        /\ s2.pages[b] = <<>>
        /\ \A c \in Bundle \ {b} : s2.pages[c] = s1.pages[c]
    <3>1. 1 \in 1..Len(s1.pages[b])
      BY <1>2, <2>2, <2>3, EmptySeq, LenProperties
    <3>. QED
      BY <2>3, <3>1, TruncateKeeps
  <2>. HIDE DEF s2
  <2>5. /\ ReturnsListed(s2) /\ Distinct(s2.order)
        /\ Elements(s2.order) \ {b} = {c \in Bundle \ {Launcher} : s2.pages[c] # <<>>}
    BY <2>3, <2>4 DEF SInv, MissionsListed, ReturnsListed
  <2>. DEFINE r == RemoveMission(s2, b)
  <2>6. /\ r.order \in Seq(Bundle \ {Launcher})
        /\ Elements(r.order) = Elements(s2.order) \ {b}
        /\ r.topStack = s2.topStack
        /\ r.topStack = "default" /\ r.order # <<>> => SInv(r)
        /\ r.topStack # "default" => SInv(r)
    BY <2>4, <2>5, RemoveMissionKeeps
  <2>. HIDE DEF r
  <2>7. r.topStack = "default" => r.order # <<>>
    BY <2>3, <2>4, <2>6, ElementsOfSeq
  <2>. QED
    BY <2>1, <2>6, <2>7 DEF r
<1>. QED
  BY <1>1, <1>2

-----------------------------------------------------------------------------
(* Pages come.                                                             *)

\* A new page record, on top of its mission.
LEMMA PushPageKeeps ==
    ASSUME NEW s, SInv(s), NEW a \in Ability
    PROVE  LET r == PushPage(s, a)
           IN  /\ PInv(r)
               /\ DOMAIN s.rec \subseteq DOMAIN r.rec
               /\ r.order = s.order /\ r.prevMission = s.prevMission /\ r.topStack = s.topStack
               /\ r.pages[BundleOf[a]] # <<>>
               /\ \A c \in Bundle \ {BundleOf[a]} : r.pages[c] = s.pages[c]
<1>. DEFINE r == PushPage(s, a)
            b == BundleOf[a]
            t == s.lastToken + 1
            new == NewRecord(s, a)
<1>1. b \in Bundle
  BY BundleAssumption
<1>. HIDE DEF b
<1>2. /\ s.lastToken \in Nat /\ t \in Token /\ t \notin DOMAIN s.rec
      /\ \A u \in DOMAIN s.rec : u <= t
  BY DEF SInv, StateTyped, TokenMap, Fresh, Token
<1>3. /\ DOMAIN r = Fields /\ r.order = s.order /\ r.prevMission = s.prevMission
      /\ r.topStack = s.topStack /\ r.app = s.app /\ r.proc = s.proc /\ r.lastToken = t
      /\ r.dangling = s.dangling /\ r.reread = s.reread
      /\ r.rec = With(s.rec, t, new)
      /\ r.pages = [s.pages EXCEPT ![b] = Append(@, t)]
  BY DEF PushPage, SInv, Fields, b
<1>. HIDE DEF r, t
<1>4. new \in RecordType /\ new.ability = a /\ BundleOf[new.ability] = b
  <2>1. AppOf(s, b) \in Nat
    BY AppOfListed DEF SInv, StateTyped, TokenMap, Token
  <2>. QED
    BY <2>1 DEF NewRecord, RecordType, RecordState, b
<1>. HIDE DEF new
<1>5. /\ DOMAIN r.rec = DOMAIN s.rec \cup {t} /\ r.rec[t] = new
      /\ \A u \in DOMAIN s.rec : r.rec[u] = s.rec[u]
  BY <1>2, <1>3 DEF With
<1>6. /\ s.pages \in [Bundle -> Seq(Token)] /\ s.pages[b] \in Seq(Token)
      /\ Distinct(s.pages[b]) /\ t \notin Elements(s.pages[b])
  BY <1>1, <1>2 DEF SInv, StateTyped, PagesListed
<1>7. /\ r.pages \in [Bundle -> Seq(Token)] /\ r.pages[b] = Append(s.pages[b], t)
      /\ \A c \in Bundle \ {b} : r.pages[c] = s.pages[c]
  BY <1>1, <1>2, <1>3, <1>6
<1>8. /\ Distinct(r.pages[b]) /\ Elements(r.pages[b]) = Elements(s.pages[b]) \cup {t}
      /\ r.pages[b] # <<>>
  BY <1>2, <1>6, <1>7, ElementsOfAppend
<1>9. StateTyped(r)
  <2>1. TokenMap(r.rec, RecordType)
    BY <1>2, <1>4, <1>5 DEF SInv, StateTyped, TokenMap
  <2>. QED
    BY <1>2, <1>3, <1>7, <2>1 DEF SInv, StateTyped, Token
<1>10. PagesListed(r)
  <2>1. ASSUME NEW c \in Bundle PROVE Distinct(r.pages[c])
    BY <1>7, <1>8 DEF SInv, PagesListed
  <2>2. ASSUME NEW c \in Bundle, NEW u \in Elements(r.pages[c])
        PROVE  u \in DOMAIN r.rec /\ BundleOf[r.rec[u].ability] = c
    <3>1. CASE u \in Elements(s.pages[c])
      BY <1>5, <3>1 DEF SInv, PagesListed
    <3>2. CASE u \notin Elements(s.pages[c])
      <4>1. c = b
        BY <1>7, <3>2
      <4>2. u = t
        BY <1>8, <3>2, <4>1
      <4>. QED
        BY <1>4, <1>5, <4>1, <4>2
    <3>. QED
      BY <3>1, <3>2
  <2>3. ASSUME NEW u \in DOMAIN r.rec
        PROVE  \E c \in Bundle : u \in Elements(r.pages[c])
    <3>1. CASE u = t
      BY <1>1, <1>8, <3>1
    <3>2. CASE u # t
      <4>1. PICK c \in Bundle : u \in Elements(s.pages[c])
        BY <1>5, <3>2 DEF SInv, PagesListed
      <4>. QED
        BY <1>7, <1>8, <4>1
    <3>. QED
      BY <3>1, <3>2
  <2>. QED
    BY <2>1, <2>2, <2>3, PagesListedParts
<1>11. PendingListed(r) /\ Fresh(r)
  BY <1>2, <1>3, <1>5 DEF SInv, PendingListed, Fresh, Token
<1>12. PInv(r)
  BY <1>3, <1>9, <1>10, <1>11 DEF PInv
<1>. QED
  BY <1>3, <1>5, <1>7, <1>8, <1>12 DEF r, b

\* A mission with pages comes to the top of its stack, and that stack to the top.
LEMMA RaiseKeeps ==
    ASSUME NEW s, PInv(s), ReturnsListed(s), Distinct(s.order),
           NEW b \in Bundle, s.pages[b] # <<>>,
           \A c \in Bundle \ {Launcher, b} : c \in Elements(s.order) <=> s.pages[c] # <<>>,
           NEW x, x = s.prevMission[b] \/ (b # Launcher /\ x \in Elements(s.order) \ {b}),
           NEW r, r = [MoveToTop(s, b) EXCEPT !.prevMission[b] = x, !.topStack = StackOf(b)]
    PROVE  SInv(r) /\ SamePages(s, r)
<1>. DEFINE o == IF b = Launcher THEN s.order ELSE Append(Without(s.order, b), b)
<1>1. /\ s.order \in Seq(Bundle \ {Launcher})
      /\ s.prevMission \in [Bundle -> Bundle \cup {None}]
  BY DEF PInv, StateTyped
<1>2. Elements(s.order) \subseteq Bundle \ {Launcher}
  BY <1>1, ElementsOfSeq
<1>3. /\ o \in Seq(Bundle \ {Launcher}) /\ Distinct(o)
      /\ Elements(o) = IF b = Launcher THEN Elements(s.order) ELSE Elements(s.order) \cup {b}
      /\ b # Launcher => o # <<>>
  <2>1. CASE b = Launcher
    BY <1>1, <2>1
  <2>2. CASE b # Launcher
    <3>. DEFINE w == Without(s.order, b)
    <3>1. w \in Seq(Bundle \ {Launcher}) /\ Distinct(w) /\ Elements(w) = Elements(s.order) \ {b}
      BY <1>1, ElementsOfWithout
    <3>2. o = Append(w, b)
      BY <2>2
    <3>. HIDE DEF w, o
    <3>3. /\ Append(w, b) \in Seq(Bundle \ {Launcher}) /\ Append(w, b) # <<>>
          /\ Elements(Append(w, b)) = Elements(w) \cup {b}
          /\ Distinct(w) /\ b \notin Elements(w) => Distinct(Append(w, b))
      BY <2>2, <3>1, ElementsOfAppend
    <3>. QED
      BY <2>2, <3>1, <3>2, <3>3
  <2>. QED
    BY <2>1, <2>2
<1>4. /\ DOMAIN r = Fields
      /\ \A f \in Fields \ {"order", "prevMission", "topStack"} : r[f] = s[f]
      /\ r.order = o /\ r.prevMission = [s.prevMission EXCEPT ![b] = x]
      /\ r.topStack = StackOf(b)
  BY DEF MoveToTop, PInv, Fields
<1>. HIDE DEF o
<1>5. r.prevMission \in [Bundle -> Bundle \cup {None}]
  <2>1. x \in Bundle \cup {None}
    BY <1>1, <1>2
  <2>2. [s.prevMission EXCEPT ![b] = x] \in [Bundle -> Bundle \cup {None}]
    BY <1>1, <2>1, Zenon
  <2>. QED
    BY <1>4, <2>2
<1>6. r.pages = s.pages /\ r.topStack \in {"none", "launcher", "default"}
  BY <1>4 DEF Fields, StackOf
<1>7. PInv(r) /\ SamePages(s, r)
  BY <1>3, <1>4, <1>5, <1>6, MissionStep
<1>8. MissionsListed(r)
  <2>1. Elements(o) = {c \in Bundle \ {Launcher} : s.pages[c] # <<>>}
    BY <1>2, <1>3
  <2>2. StackOf(b) = "default" => o # <<>>
    BY <1>3 DEF StackOf
  <2>. QED
    BY <1>3, <1>4, <1>6, <2>1, <2>2 DEF MissionsListed
<1>9. ReturnsListed(r)
  <2>1. SUFFICES ASSUME NEW c \in Bundle, r.prevMission[c] # None
                 PROVE  c \in Elements(o) /\ r.prevMission[c] \in Elements(o) \ {c}
    BY <1>4 DEF ReturnsListed
  <2>2. Elements(s.order) \subseteq Elements(o) /\ (b # Launcher => b \in Elements(o))
    BY <1>3
  <2>3. r.prevMission[c] = IF c = b THEN x ELSE s.prevMission[c]
    BY <1>1, <1>4
  <2>4. CASE r.prevMission[c] = s.prevMission[c]
    BY <2>1, <2>2, <2>4 DEF ReturnsListed
  <2>5. CASE r.prevMission[c] # s.prevMission[c]
    BY <2>2, <2>3, <2>5
  <2>. QED
    BY <2>4, <2>5
<1>. QED
  BY <1>7, <1>8, <1>9, SInvParts

\* AbilityStackManager::GeneratePageAbility keeps the invariant and every page, and
\* the target it returns has a record.
LEMMA GeneratePageKeeps ==
    ASSUME NEW s, SInv(s), NEW a \in Ability, NEW top
    PROVE  LET r == GeneratePage(s, a, top)
           IN  /\ SInv(r)
               /\ DOMAIN s.rec \subseteq DOMAIN r.rec
               /\ Last(r.pages[BundleOf[a]]) \in DOMAIN r.rec
<1>. DEFINE b        == BundleOf[a]
            fromHome == top # 0 /\ BundleOfPage(s, top) = Launcher
            crossing == top = 0 \/ a \in AceAbility \/ fromHome # (b = Launcher)
            reuse    == /\ s.pages[b] # <<>>
                        /\ crossing \/ s.rec[Last(s.pages[b])].ability = a
            above    == TopMission(s, StackOf(b))
            linked   == top # 0 /\ ~fromHome /\ b # Launcher /\ above \notin {None, b}
            s0       == IF reuse THEN s ELSE PushPage(s, a)
            s1       == MoveToTop(s0, b)
            r        == GeneratePage(s, a, top)
<1>1. b \in Bundle
  BY BundleAssumption
<1>2. r = [s1 EXCEPT !.prevMission[b] = IF linked THEN above ELSE @,
                     !.topStack = StackOf(b)]
  BY DEF GeneratePage
<1>3. ASSUME linked PROVE b # Launcher /\ above \in Elements(s.order) \ {b}
  <2>1. b # Launcher /\ StackOf(b) # "launcher" /\ above # None /\ above # b
    BY <1>3 DEF StackOf
  <2>. QED
    BY <2>1, TopMissionListed
<1>. HIDE DEF b, linked, reuse, r
<1>4. /\ PInv(s0) /\ s0.order = s.order /\ s0.prevMission = s.prevMission
      /\ DOMAIN s.rec \subseteq DOMAIN s0.rec
      /\ s0.pages[b] # <<>>
      /\ \A c \in Bundle \ {b} : s0.pages[c] = s.pages[c]
  <2>1. CASE reuse
    BY <2>1, SInvParts DEF reuse
  <2>2. CASE ~reuse
    BY <2>2, PushPageKeeps DEF b
  <2>. QED
    BY <2>1, <2>2
<1>. HIDE DEF s0
<1>. DEFINE x == IF linked THEN above ELSE s.prevMission[b]
<1>5. r = [MoveToTop(s0, b) EXCEPT !.prevMission[b] = x, !.topStack = StackOf(b)]
  <2>1. s1.prevMission = s.prevMission
    BY <1>4 DEF MoveToTop, PInv, Fields
  <2>. QED
    BY <1>2, <2>1
<1>6. x = s0.prevMission[b] \/ (b # Launcher /\ x \in Elements(s0.order) \ {b})
  BY <1>3, <1>4
<1>7. ReturnsListed(s0) /\ Distinct(s0.order)
  BY <1>4 DEF SInv, ReturnsListed, MissionsListed
<1>8. \A c \in Bundle \ {Launcher, b} : c \in Elements(s0.order) <=> s0.pages[c] # <<>>
  BY <1>4 DEF SInv, MissionsListed
<1>. HIDE DEF x
<1>9. SInv(r) /\ SamePages(s0, r)
  BY <1>1, <1>4, <1>5, <1>6, <1>7, <1>8, RaiseKeeps
<1>10. Last(r.pages[b]) \in DOMAIN r.rec /\ DOMAIN s.rec \subseteq DOMAIN r.rec
  BY <1>1, <1>4, <1>9, ListedPage, SInvParts DEF SamePages
<1>. QED
  BY <1>9, <1>10 DEF r, b

-----------------------------------------------------------------------------
(* Assignments to one field.                                               *)

\* Fail and Succeed set the result of a task and nothing else.
LEMMA FailQuiet ==
    ASSUME NEW s, SInv(s)
    PROVE  Quiet(s, Fail(s)) /\ Quiet(s, Succeed(s))
BY StatusQuiet DEF Fail, Succeed

\* SetState, SetNextAbility and SetPrevAbility of a page record.
LEMMA RecordFieldQuiet ==
    ASSUME NEW s, SInv(s), NEW t \in DOMAIN s.rec, NEW n \in Nat, NEW x \in RecordState,
           NEW r \in {[s EXCEPT !.rec[t].next = n], [s EXCEPT !.rec[t].prev = n],
                      [s EXCEPT !.rec[t].state = x, !.status = "ok"]}
    PROVE  Quiet(s, r)
<1>. DEFINE q == s.rec[t]
<1>1. PICK y \in {[q EXCEPT !.next = n], [q EXCEPT !.prev = n], [q EXCEPT !.state = x]} :
         /\ DOMAIN r = Fields /\ \A f \in Fields \ {"rec", "status"} : r[f] = s[f]
         /\ r.rec = [s.rec EXCEPT ![t] = y]
  <2>1. CASE r = [s EXCEPT !.rec[t].next = n]
    BY <2>1 DEF SInv, Fields
  <2>2. CASE r = [s EXCEPT !.rec[t].prev = n]
    BY <2>2 DEF SInv, Fields
  <2>3. CASE r = [s EXCEPT !.rec[t].state = x, !.status = "ok"]
    BY <2>3 DEF SInv, Fields
  <2>. QED
    BY <2>1, <2>2, <2>3
<1>2. \A u \in DOMAIN s.rec : s.rec[u] \in RecordType
  BY DEF SInv, StateTyped, TokenMap
<1>3. y \in RecordType /\ y.ability = q.ability /\ y.app = q.app
  BY <1>2 DEF RecordType
<1>4. /\ DOMAIN r.rec = DOMAIN s.rec
      /\ \A u \in DOMAIN s.rec : r.rec[u] = IF u = t THEN y ELSE s.rec[u]
  BY <1>1
<1>5. \A u \in DOMAIN s.rec :
         /\ r.rec[u] \in RecordType
         /\ r.rec[u].ability = s.rec[u].ability
         /\ r.rec[u].app = s.rec[u].app
  BY <1>2, <1>3, <1>4
<1>. QED
  BY <1>1, <1>4, <1>5, RecordsQuiet

\* SetAppState and the clearing of the pending slot of an app record.
LEMMA AppFieldQuiet ==
    ASSUME NEW s, SInv(s), NEW id \in DOMAIN s.app,
           NEW r \in {[s EXCEPT !.app[id].attached = TRUE], [s EXCEPT !.app[id].pending = 0]}
    PROVE  Quiet(s, r) /\ DOMAIN r.app = DOMAIN s.app
<1>. DEFINE q == s.app[id]
<1>1. PICK y \in {[q EXCEPT !.attached = TRUE], [q EXCEPT !.pending = 0]} :
         r = [s EXCEPT !.app = [s.app EXCEPT ![id] = y]]
  OBVIOUS
<1>2. q \in AppType /\ TokenMap(s.app, AppType)
  BY DEF SInv, StateTyped, TokenMap
<1>3. y \in AppType /\ y.pending \in {q.pending, 0}
  <2>1. CASE y = [q EXCEPT !.attached = TRUE]
    BY <1>2, <2>1 DEF AppType
  <2>2. CASE y = [q EXCEPT !.pending = 0]
    BY <1>2, <2>2 DEF AppType
  <2>. QED
    BY <2>1, <2>2
<1>5. /\ DOMAIN r = Fields /\ r.order = s.order /\ r.pages = s.pages
      /\ r.prevMission = s.prevMission /\ r.topStack = s.topStack /\ r.rec = s.rec
      /\ r.lastToken = s.lastToken /\ r.dangling = s.dangling /\ r.reread = s.reread /\ r.proc = s.proc
      /\ r.app = [s.app EXCEPT ![id] = y]
  BY <1>1 DEF SInv, Fields
<1>6. /\ DOMAIN r.app = DOMAIN s.app
      /\ \A i \in DOMAIN s.app : r.app[i] = IF i = id THEN y ELSE s.app[i]
  BY <1>5
<1>7. TokenMap(r.app, AppType)
  BY <1>2, <1>3, <1>6 DEF TokenMap
<1>8. PendingListed(r)
  BY <1>3, <1>5, <1>6 DEF SInv, PendingListed
<1>9. SameStack(s, r) /\ StateTyped(r)
  BY <1>5, <1>7 DEF SInv, SameStack, StateTyped
<1>. QED
  BY <1>5, <1>6, <1>8, <1>9, QuietStep

\* The use of a deleted record.
LEMMA DanglingQuiet ==
    ASSUME NEW s, SInv(s)
    PROVE  Quiet(s, [s EXCEPT !.dangling = TRUE])
<1>. DEFINE r == [s EXCEPT !.dangling = TRUE]
<1>1. /\ DOMAIN r = Fields /\ r.order = s.order /\ r.pages = s.pages
      /\ r.prevMission = s.prevMission /\ r.topStack = s.topStack /\ r.rec = s.rec
      /\ r.lastToken = s.lastToken /\ r.proc = s.proc /\ r.app = s.app /\ r.reread = s.reread
  BY DEF SInv, Fields
<1>2. r.dangling \in BOOLEAN
  BY DEF SInv, Fields
<1>. HIDE DEF r
<1>3. SameStack(s, r) /\ StateTyped(r) /\ PendingListed(r)
  BY <1>1, <1>2 DEF SInv, SameStack, StateTyped, PendingListed
<1>4. Quiet(s, r)
  BY <1>1, <1>3, QuietStep
<1>. QED
  BY <1>4 DEF r

-----------------------------------------------------------------------------
(* AbilityStartTask.                                                       *)

LEMMA StartAfterKeeps ==
    ASSUME NEW s, SInv(s), NEW top \in DOMAIN s.rec, NEW target \in DOMAIN s.rec
    PROVE  SInv(StartAfter(s, top, target))
<1>. DEFINE s1 == InactiveAbility(s, top)
            s2 == [s1 EXCEPT !.rec[top].next = target]
            s3 == [s2 EXCEPT !.rec[target].prev = top]
<1>1. StartAfter(s, top, target) = IF s1.status = "ok" THEN s3 ELSE RemovePage(s1, target)
  BY DEF StartAfter
<1>2. SInv(s1) /\ s1.rec = s.rec
  BY LifecycleQuiet DEF Quiet
<1>. HIDE DEF s1
<1>3. top \in Nat /\ target \in Nat
  BY DEF SInv, StateTyped, TokenMap, Token
<1>4. Quiet(s1, s2)
  BY <1>2, <1>3, RecordFieldQuiet DEF RecordState, AppState
<1>5. SInv(s2) /\ target \in DOMAIN s2.rec
  BY <1>2, <1>4 DEF Quiet, SameStack
<1>. HIDE DEF s2
<1>6. Quiet(s2, s3)
  BY <1>3, <1>5, RecordFieldQuiet DEF RecordState, AppState
<1>7. SInv(RemovePage(s1, target))
  BY <1>2, RemovePageKeeps
<1>. QED
  BY <1>1, <1>6, <1>7 DEF Quiet

LEMMA StartFirstKeeps ==
    ASSUME NEW s, SInv(s), NEW target \in DOMAIN s.rec, NEW fails
    PROVE  SInv(StartFirst(s, target, fails))
<1>. DEFINE s1 == StartPage(s, target, fails)
<1>1. SInv(s1) /\ target \in DOMAIN s1.rec
  BY StartPageQuiet DEF Quiet, SameStack
<1>2. StartFirst(s, target, fails) =
         IF s1.status \in {"process", "transact"} THEN RemovePage(s1, target) ELSE s1
  BY DEF StartFirst
<1>. HIDE DEF s1
<1>. QED
  BY <1>1, <1>2, RemovePageKeeps

LEMMA StartTaskKeeps ==
    ASSUME NEW s, SInv(s), NEW a \in Ability, NEW fails
    PROVE  SInv(StartTask(s, a, fails))
<1>. DEFINE top    == TopPage(s)
            s1     == GeneratePage(s, a, top)
            target == Last(s1.pages[BundleOf[a]])
<1>1. top \in DOMAIN s.rec \cup {0}
  BY TopPageListed
<1>2. StartTask(s, a, fails) = CASE target = top             -> Fail(s1)
                                 [] target # top /\ top # 0  -> StartAfter(s1, top, target)
                                 [] OTHER                    -> StartFirst(s1, target, fails)
  BY DEF StartTask
<1>. HIDE DEF top
<1>3. /\ SInv(s1) /\ target \in DOMAIN s1.rec
      /\ top \in DOMAIN s1.rec \cup {0}
  BY <1>1, GeneratePageKeeps
<1>. HIDE DEF target, s1
<1>4. CASE target = top
  BY <1>2, <1>3, <1>4, FailQuiet DEF Quiet
<1>5. CASE target # top /\ top # 0
  BY <1>2, <1>3, <1>5, StartAfterKeeps
<1>6. CASE target # top /\ top = 0
  BY <1>2, <1>3, <1>6, StartFirstKeeps
<1>. QED
  BY <1>4, <1>5, <1>6

LEMMA MainAbilities == \A b \in Bundle : MainAbility[b] \in Ability
BY KeepAliveAssumption

LEMMA StartLauncherKeeps ==
    ASSUME NEW s, SInv(s), NEW fails
    PROVE  SInv(StartLauncher(s, fails))
BY StartTaskKeeps, MainAbilities, BundleAssumption DEF StartLauncher

-----------------------------------------------------------------------------
(* AbilityActivateTask, AbilityInactivateTask, AbilityBackgroundTask and   *)
(* AbilityStopTask.                                                        *)

LEMMA StartNextKeeps ==
    ASSUME NEW s, SInv(s), NEW t \in DOMAIN s.rec, NEW fails
    PROVE  SInv(StartNext(s, t, fails))
<1>. DEFINE next == s.rec[t].next
            s1   == StartPage(s, next, fails)
            s2   == [s1 EXCEPT !.rec[t].next = 0]
<1>1. StartNext(s, t, fails) =
         IF next \in DOMAIN s.rec THEN s2 ELSE [s EXCEPT !.dangling = TRUE]
  BY DEF StartNext, Found
<1>2. CASE next \in DOMAIN s.rec
  <2>1. SInv(s1) /\ t \in DOMAIN s1.rec
    BY <1>2, StartPageQuiet DEF Quiet, SameStack
  <2>. HIDE DEF s1
  <2>2. Quiet(s1, s2)
    BY <2>1, RecordFieldQuiet DEF RecordState, AppState
  <2>. QED
    BY <1>1, <1>2, <2>2 DEF Quiet
<1>3. CASE next \notin DOMAIN s.rec
  BY <1>1, <1>3, DanglingQuiet DEF Quiet
<1>. QED
  BY <1>2, <1>3

LEMMA ReturnFromKeeps ==
    ASSUME NEW s, SInv(s), NEW t \in DOMAIN s.rec, NEW fails
    PROVE  SInv(ReturnFrom(s, t, fails))
<1>. DEFINE prev == PrevPage(s, t)
            s1   == ActiveAbility(s, prev)
            s2   == [s1 EXCEPT !.rec[prev].next = t]
<1>1. ReturnFrom(s, t, fails) =
         IF prev # 0 THEN s2 ELSE StartLauncher(StopAbility(s, t), fails)
  BY DEF ReturnFrom
<1>2. prev \in DOMAIN s.rec \cup {0}
  BY PrevPageListed
<1>. HIDE DEF prev
<1>3. CASE prev # 0
  <2>1. SInv(s1) /\ prev \in DOMAIN s1.rec
    BY <1>2, <1>3, LifecycleQuiet DEF Quiet
  <2>2. t \in Nat
    BY DEF SInv, StateTyped, TokenMap, Token
  <2>. HIDE DEF s1
  <2>3. Quiet(s1, s2)
    BY <2>1, <2>2, RecordFieldQuiet DEF RecordState, AppState
  <2>. QED
    BY <1>1, <1>3, <2>3 DEF Quiet
<1>4. CASE prev = 0
  <2>1. SInv(StopAbility(s, t))
    BY LifecycleQuiet DEF Quiet
  <2>. QED
    BY <1>1, <1>4, <2>1, StartLauncherKeeps
<1>. QED
  BY <1>3, <1>4

\* The state of a page record after an answer of its process.
LEMMA ReportedQuiet ==
    ASSUME NEW s, SInv(s), NEW t \in DOMAIN s.rec, NEW x \in RecordState
    PROVE  LET r == [s EXCEPT !.rec[t].state = x, !.status = "ok"]
           IN  SInv(r) /\ DOMAIN r.rec = DOMAIN s.rec
<1>. DEFINE r == [s EXCEPT !.rec[t].state = x, !.status = "ok"]
<1>1. Quiet(s, r)
  BY RecordFieldQuiet
<1>. HIDE DEF r
<1>2. SInv(r) /\ DOMAIN r.rec = DOMAIN s.rec
  BY <1>1 DEF Quiet, SameStack
<1>. QED
  BY <1>2 DEF r

LEMMA InactivateTaskKeeps ==
    ASSUME NEW s, SInv(s), NEW t, NEW fails
    PROVE  SInv(InactivateTask(s, t, fails))
<1>. DEFINE s1 == [s EXCEPT !.rec[t].state = "INACTIVE", !.status = "ok"]
<1>1. InactivateTask(s, t, fails) = IF t \notin DOMAIN s.rec THEN Fail(s)
                                    ELSE IF s1.rec[t].next # 0 THEN StartNext(s1, t, fails)
                                    ELSE ReturnFrom(s1, t, fails)
  BY DEF InactivateTask, Found
<1>2. CASE t \in DOMAIN s.rec
  <2>1. SInv(s1) /\ t \in DOMAIN s1.rec
    BY <1>2, ReportedQuiet DEF RecordState, AppState
  <2>. HIDE DEF s1
  <2>. QED
    BY <1>1, <1>2, <2>1, StartNextKeeps, ReturnFromKeeps
<1>3. CASE t \notin DOMAIN s.rec
  BY <1>1, <1>3, FailQuiet DEF Quiet
<1>. QED
  BY <1>2, <1>3

LEMMA ActivateTaskKeeps ==
    ASSUME NEW s, SInv(s), NEW t
    PROVE  SInv(ActivateTask(s, t))
<1>. DEFINE s1   == [s EXCEPT !.rec[t].state = "ACTIVE", !.status = "ok"]
            prev == s.rec[t].prev
            next == s.rec[t].next
            back == [ToBackgroundAbility(s1, prev) EXCEPT !.rec[t].prev = 0]
            stop == [StopAbility(s1, next) EXCEPT !.rec[t].next = 0]
            bad  == [s1 EXCEPT !.dangling = TRUE]
<1>1. CASE t \notin DOMAIN s.rec
  <2>1. ActivateTask(s, t) = Fail(s)
    BY <1>1 DEF ActivateTask, Found
  <2>. QED
    BY <2>1, FailQuiet DEF Quiet
<1>2. CASE t \in DOMAIN s.rec
  <2>1. ActivateTask(s, t) \in
           {s1, bad} \cup (IF prev \in DOMAIN s.rec THEN {back} ELSE {})
                     \cup (IF next \in DOMAIN s.rec THEN {stop} ELSE {})
    BY <1>2 DEF ActivateTask, Found
  <2>2. SInv(s1) /\ DOMAIN s1.rec = DOMAIN s.rec
    BY <1>2, ReportedQuiet DEF RecordState, AppState
  <2>. HIDE DEF s1, prev, next
  <2>3. SInv(bad)
    BY <2>2, DanglingQuiet DEF Quiet
  <2>4. ASSUME prev \in DOMAIN s.rec PROVE SInv(back)
    <3>. DEFINE s2 == ToBackgroundAbility(s1, prev)
    <3>1. SInv(s2) /\ t \in DOMAIN s2.rec
      BY <1>2, <2>2, <2>4, LifecycleQuiet DEF Quiet
    <3>. HIDE DEF s2
    <3>2. Quiet(s2, [s2 EXCEPT !.rec[t].prev = 0])
      BY <3>1, RecordFieldQuiet DEF RecordState, AppState
    <3>. QED
      BY <3>2 DEF s2, Quiet
  <2>5. ASSUME next \in DOMAIN s.rec PROVE SInv(stop)
    <3>. DEFINE s2 == StopAbility(s1, next)
    <3>1. SInv(s2) /\ t \in DOMAIN s2.rec
      BY <1>2, <2>2, <2>5, LifecycleQuiet DEF Quiet
    <3>. HIDE DEF s2
    <3>2. Quiet(s2, [s2 EXCEPT !.rec[t].next = 0])
      BY <3>1, RecordFieldQuiet DEF RecordState, AppState
    <3>. QED
      BY <3>2 DEF s2, Quiet
  <2>. HIDE DEF back, stop, bad
  <2>. QED
    BY <2>1, <2>2, <2>3, <2>4, <2>5
<1>. QED
  BY <1>1, <1>2

LEMMA BackgroundTaskKeeps ==
    ASSUME NEW s, SInv(s), NEW t
    PROVE  SInv(BackgroundTask(s, t))
<1>1. CASE t \in DOMAIN s.rec
  BY <1>1, ReportedQuiet DEF BackgroundTask, Found, RecordState, AppState
<1>2. CASE t \notin DOMAIN s.rec
  BY <1>2, FailQuiet DEF BackgroundTask, Found, Quiet
<1>. QED
  BY <1>1, <1>2

LEMMA StopTaskKeeps ==
    ASSUME NEW s, SInv(s), NEW t
    PROVE  SInv(StopTask(s, t))
<1>. DEFINE s1 == [s EXCEPT !.rec[t].state = "INITIAL", !.status = "ok"]
            s2 == IF Head(s.pages[BundleOfPage(s, t)]) = t THEN ExitApp(s1, t) ELSE s1
<1>1. StopTask(s, t) = IF t \in DOMAIN s.rec THEN RemovePage(s2, t) ELSE Fail(s)
  BY DEF StopTask, Found
<1>2. CASE t \in DOMAIN s.rec
  <2>1. SInv(s1) /\ t \in DOMAIN s1.rec
    BY <1>2, ReportedQuiet DEF RecordState, AppState
  <2>. HIDE DEF s1
  <2>2. SInv(s2) /\ t \in DOMAIN s2.rec
    BY <2>1, ExitAppQuiet DEF Quiet, SameStack
  <2>. HIDE DEF s2
  <2>. QED
    BY <1>1, <1>2, <2>2, RemovePageKeeps
<1>3. CASE t \notin DOMAIN s.rec
  BY <1>1, <1>3, FailQuiet DEF Quiet
<1>. QED
  BY <1>2, <1>3

LEMMA AbilityTransactionKeeps ==
    ASSUME NEW s, SInv(s), NEW t, NEW state, NEW fails
    PROVE  SInv(AbilityTransaction(s, t, state, fails))
<1>1. CASE state \in {"BACKGROUND", "INACTIVE", "ACTIVE"}
  BY <1>1, BackgroundTaskKeeps, InactivateTaskKeeps, ActivateTaskKeeps DEF AbilityTransaction
<1>2. CASE state \notin {"BACKGROUND", "INACTIVE", "ACTIVE"}
  BY <1>2, StopTaskKeeps DEF AbilityTransaction
<1>. QED
  BY <1>1, <1>2

-----------------------------------------------------------------------------
(* The other requests.                                                     *)

LEMMA TerminateTaskKeeps ==
    ASSUME NEW s, SInv(s), NEW t
    PROVE  SInv(TerminateTask(s, t))
<1>1. CASE t \in DOMAIN s.rec
  BY <1>1, LifecycleQuiet DEF TerminateTask, Found, Quiet
<1>2. CASE t \notin DOMAIN s.rec
  BY <1>2, FailQuiet DEF TerminateTask, Found, Quiet
<1>. QED
  BY <1>1, <1>2

LEMMA LaunchPendingKeeps ==
    ASSUME NEW s, SInv(s), NEW id \in DOMAIN s.app
    PROVE  SInv(LaunchPending(s, id))
<1>. DEFINE t  == s.app[id].pending
            s1 == ActiveAbility(s, t)
            s2 == [s1 EXCEPT !.app[id].pending = 0]
<1>1. LaunchPending(s, id) = IF t = 0 THEN Fail(s) ELSE s2
  BY DEF LaunchPending
<1>2. CASE t = 0
  BY <1>1, <1>2, FailQuiet DEF Quiet
<1>3. CASE t # 0
  <2>1. t \in DOMAIN s.rec
    BY <1>3 DEF SInv, PendingListed
  <2>. HIDE DEF t
  <2>2. SInv(s1) /\ id \in DOMAIN s1.app
    BY <2>1, LifecycleQuiet DEF Quiet
  <2>. HIDE DEF s1
  <2>3. Quiet(s1, s2)
    BY <2>2, AppFieldQuiet
  <2>. QED
    BY <1>1, <1>3, <2>3 DEF Quiet
<1>. QED
  BY <1>2, <1>3

\* A death recipient is registered with a process.
LEMMA WatchQuiet ==
    ASSUME NEW s, SInv(s), NEW id
    PROVE  LET r == [s EXCEPT !.proc = IF id \in DOMAIN @ THEN [@ EXCEPT ![id].watched = TRUE]
                                                          ELSE @]
           IN  SInv(r) /\ r.app = s.app
<1>. DEFINE f == IF id \in DOMAIN s.proc THEN [s.proc EXCEPT ![id].watched = TRUE] ELSE s.proc
            r == [s EXCEPT !.proc = f]
<1>1. DOMAIN r = Fields /\ (\A x \in Fields \ {"proc", "status"} : r[x] = s[x]) /\ r.proc = f
  BY DEF SInv, Fields
<1>. HIDE DEF r
<1>2. DOMAIN s.proc \subseteq Token /\ \A p \in DOMAIN s.proc : IsProcess(s.proc[p])
  BY DEF SInv, StateTyped
<1>3. DOMAIN f = DOMAIN s.proc
  OBVIOUS
<1>4. ASSUME NEW p \in DOMAIN s.proc PROVE IsProcess(f[p])
  <2>1. CASE p = id
    <3>1. f[p] = [s.proc[p] EXCEPT !.watched = TRUE]
      BY <2>1
    <3>2. IsProcess(s.proc[p])
      BY <1>2
    <3>. HIDE DEF f
    <3>. QED
      BY <3>1, <3>2 DEF IsProcess
  <2>2. CASE p # id
    BY <1>2, <2>2
  <2>. QED
    BY <2>1, <2>2
<1>. HIDE DEF f
<1>5. Quiet(s, r) /\ r.app = s.app
  BY <1>1, <1>2, <1>3, <1>4, ProcessesQuiet
<1>. QED
  BY <1>5 DEF Quiet, r, f

LEMMA AttachTaskKeeps ==
    ASSUME NEW s, SInv(s), NEW id, NEW watch, NEW permit
    PROVE  SInv(AttachTask(s, id, watch, permit))
<1>. DEFINE s1 == [s EXCEPT !.app[id].attached = TRUE]
            s2 == [s1 EXCEPT !.proc = IF id \in DOMAIN @ THEN [@ EXCEPT ![id].watched = TRUE]
                                                         ELSE @]
            s3 == Send(s2, id, [type |-> "init"])
            s4 == Send(s2, id, [type |-> "exit"])
            s5 == RemoveAppRecord(s4, id)
<1>1. CASE id \notin DOMAIN s.app
  <2>1. AttachTask(s, id, watch, permit) = Fail(s)
    BY <1>1 DEF AttachTask
  <2>. QED
    BY <2>1, FailQuiet DEF Quiet
<1>2. CASE id \in DOMAIN s.app
  <2>1. AttachTask(s, id, watch, permit) \in
           {[s1 EXCEPT !.status = "transact"], Fail(s5), s3, LaunchPending(s3, id)}
    BY <1>2 DEF AttachTask
  <2>2. SInv(s1) /\ DOMAIN s1.app = DOMAIN s.app
    BY <1>2, AppFieldQuiet DEF Quiet
  <2>. HIDE DEF s1
  <2>3. SInv(s2) /\ s2.app = s1.app
    BY <2>2, WatchQuiet
  <2>. HIDE DEF s2
  <2>4. SInv(s3) /\ s3.app = s2.app /\ SInv(s4)
    BY <2>3, SendQuiet DEF Quiet, Message
  <2>. HIDE DEF s3, s4
  <2>5. SInv(s5)
    BY <2>4, RemoveAppRecordQuiet DEF Quiet
  <2>. HIDE DEF s5
  <2>6. SInv(Fail(s5))
    BY <2>5, FailQuiet DEF Quiet
  <2>7. SInv([s1 EXCEPT !.status = "transact"])
    BY <2>2, StatusQuiet DEF Quiet
  <2>8. SInv(LaunchPending(s3, id))
    BY <1>2, <2>2, <2>3, <2>4, LaunchPendingKeeps
  <2>. QED
    BY <2>1, <2>4, <2>6, <2>7, <2>8
<1>. QED
  BY <1>1, <1>2

LEMMA ActivateTopKeeps ==
    ASSUME NEW s, SInv(s)
    PROVE  SInv(ActivateTop(s))
<1>1. TopPage(s) \in DOMAIN s.rec \cup {0}
  BY TopPageListed
<1>2. CASE TopPage(s) = 0
  BY <1>2 DEF ActivateTop
<1>3. CASE TopPage(s) # 0
  BY <1>1, <1>3, LifecycleQuiet DEF ActivateTop, Quiet
<1>. QED
  BY <1>2, <1>3

LEMMA RestartAppKeeps ==
    ASSUME NEW s, SInv(s), NEW b \in Bundle, NEW fails
    PROVE  SInv(RestartApp(s, b, fails))
<1>. DEFINE s1 == ClearAbilityStack(s, b)
            s2 == RemoveApps(s1, AppsOf(s, b))
            s3 == RestartTask(s, b, fails)
<1>1. SInv(s1)
  BY ClearAbilityStackKeeps
<1>2. s3 = IF TopPage(s2) = 0 THEN StartLauncher(s2, fails) ELSE ActivateTop(s2)
  BY DEF RestartTask
<1>. HIDE DEF s1, s3
<1>3. SInv(s2)
  BY <1>1, RemoveAppsQuiet DEF Quiet
<1>. HIDE DEF s2
<1>4. SInv(s3)
  BY <1>2, <1>3, StartLauncherKeeps, ActivateTopKeeps
<1>5. RestartApp(s, b, fails) =
         IF b \in KeepAlive \ {Launcher} THEN StartTask(s3, MainAbility[b], fails) ELSE s3
  BY DEF RestartApp, s3
<1>. QED
  BY <1>4, <1>5, StartTaskKeeps, MainAbilities

LEMMA TerminateAppKeeps ==
    ASSUME NEW s, SInv(s), NEW b \in Bundle
    PROVE  SInv(TerminateApp(s, b))
<1>. DEFINE id == AppOf(s, b)
            s1 == IF id = 0 THEN Succeed(s) ELSE Send(s, id, [type |-> "exit"])
            s2 == ClearAbilityStack(s1, b)
            s3 == RemoveApps(s2, AppsOf(s, b))
<1>1. TerminateApp(s, b) = IF s1.status # "ok" THEN s1 ELSE ActivateTop(s3)
  BY DEF TerminateApp
<1>2. SInv(s1)
  BY FailQuiet, SendQuiet DEF Quiet, Message
<1>. HIDE DEF s1
<1>3. SInv(s2)
  BY <1>2, ClearAbilityStackKeeps
<1>. HIDE DEF s2
<1>4. SInv(s3)
  BY <1>3, RemoveAppsQuiet DEF Quiet
<1>. QED
  BY <1>1, <1>2, <1>4, ActivateTopKeeps

=============================================================================
