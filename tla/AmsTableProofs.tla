--------------------------- MODULE AmsTableProofs ---------------------------
(***************************************************************************)
(* What every task of the service keeps between its page records, its      *)
(* process table and the processes themselves: Table, the part of the      *)
(* inductive invariant of module Ams behind ProcessTable, MessagesOrdered  *)
(* and RecordTracksAbility.                                                *)
(***************************************************************************)
EXTENDS AmsStateProofs

-----------------------------------------------------------------------------
(* The invariant.  e is what the requests in the service's queue say:      *)
(*   e.lost    the bundles whose death notification waits (every bundle    *)
(*             once a request has been dropped),                           *)
(*   e.said    the state the last waiting answer about a page reports,     *)
(*   e.whole   TRUE while no request has been dropped.                     *)

LiveIn(s) == {p \in DOMAIN s.proc : s.proc[p].phase # "dead"}

\* The process q has been sent a transaction about page t that it has not run.
InTransit(q, t) ==
    \E i \in 1..Len(q.inbox) : q.inbox[i].type = "transact" /\ q.inbox[i].token = t

\* The process q holds the ability of page t, or is about to.
Knows(q, t) == t \in DOMAIN q.hosted \/ InTransit(q, t)

\* The process q has been told to exit, or is quitting.
Told(q) == \E i \in 1..Len(q.inbox) : q.inbox[i].type \in {"exit", "quit"}

\* Everything that names an identity or a page names one the counter has drawn.
Drawn(s, e) ==
    /\ \A i \in DOMAIN s.app : i <= s.lastToken
    /\ \A p \in DOMAIN s.proc : p <= s.lastToken
    /\ \A t \in DOMAIN s.rec : s.rec[t].app <= s.lastToken
    /\ \A t \in DOMAIN e.said : t \in Token /\ t <= s.lastToken
    /\ \A p \in LiveIn(s), t \in Token : Knows(s.proc[p], t) => t <= s.lastToken

\* A bundle has one app record, for a process of that bundle or one whose death
\* the service is about to hear of.
OneApp(s, e) ==
    /\ \A i, j \in DOMAIN s.app : s.app[i].bundle = s.app[j].bundle => i = j
    /\ \A i \in DOMAIN s.app :
          \/ i \in DOMAIN s.proc /\ s.proc[i].bundle = s.app[i].bundle
          \/ s.app[i].bundle \in e.lost

\* Nothing follows exit or quit, and the first message of a process is not a
\* transaction.
Ordered(q) ==
    /\ \A i \in 1..Len(q.inbox) : q.inbox[i].type \in {"exit", "quit"} => i = Len(q.inbox)
    /\ ~q.inited /\ q.inbox # <<>> => q.inbox[1].type \in {"init", "exit", "quit"}

\* A process the table lists has not been told to exit; it has been sent
\* something, or has run it, exactly when it has attached.
Expected(q, attached) ==
    /\ ~Told(q)
    /\ IF attached THEN q.inited \/ q.inbox # <<>> ELSE ~q.inited /\ q.inbox = <<>>

InboxesOrdered(s) ==
    \A p \in LiveIn(s) :
       /\ Ordered(s.proc[p])
       /\ p \in DOMAIN s.app => Expected(s.proc[p], s.app[p].attached)

\* A page is known to the process its record names, and to no other.
Owned(s) ==
    \A p \in LiveIn(s), t \in DOMAIN s.rec : Knows(s.proc[p], t) => s.rec[t].app = p

\* The state of page t once the waiting answers are in.
Said(s, e, t) == IF t \in DOMAIN e.said THEN e.said[t] ELSE s.rec[t].state

Tracked(s, e) ==
    \A t \in DOMAIN s.rec :
       LET p == s.rec[t].app
       IN  /\ p = 0 => s.rec[t].state = "UNINITIALIZED" /\ t \notin DOMAIN e.said
           /\ e.whole /\ p \in LiveIn(s) =>
                 IF t \in DOMAIN s.proc[p].hosted
                 THEN Said(s, e, t) = s.proc[p].hosted[t]
                 ELSE Said(s, e, t) \in {"UNINITIALIZED", "INITIAL"}

Table(s, e) ==
    /\ Drawn(s, e)
    /\ OneApp(s, e)
    /\ InboxesOrdered(s)
    /\ Owned(s)
    /\ Tracked(s, e)

-----------------------------------------------------------------------------
(* Steps that only forget: records of pages and of processes go, and what  *)
(* is left agrees on the process of a page, its state, and who attached.   *)

Shaped(s) ==
    /\ DOMAIN s = Fields
    /\ TokenMap(s.rec, RecordType)
    /\ TokenMap(s.app, AppType)
    /\ s.lastToken \in Nat
    /\ DOMAIN s.proc \subseteq Token
    /\ \A p \in DOMAIN s.proc : IsProcess(s.proc[p])

Thins(s, r) ==
    /\ Shaped(r)
    /\ r.proc = s.proc /\ r.lastToken = s.lastToken
    /\ DOMAIN r.rec \subseteq DOMAIN s.rec
    /\ \A t \in DOMAIN r.rec : r.rec[t].app = s.rec[t].app /\ r.rec[t].state = s.rec[t].state
    /\ DOMAIN r.app \subseteq DOMAIN s.app
    /\ \A i \in DOMAIN r.app :
          r.app[i].bundle = s.app[i].bundle /\ r.app[i].attached = s.app[i].attached

LEMMA SInvShaped == ASSUME NEW s, SInv(s) PROVE Shaped(s)
BY DEF SInv, StateTyped, Shaped

LEMMA ThinsSelf == ASSUME NEW s, Shaped(s) PROVE Thins(s, s)
BY DEF Thins

LEMMA ThinsShaped == ASSUME NEW s, NEW r, Thins(s, r) PROVE Shaped(r)
BY DEF Thins

LEMMA ThinsTransitive ==
    ASSUME NEW s, NEW r, NEW u, Thins(s, r), Thins(r, u)
    PROVE  Thins(s, u)
BY DEF Thins

LEMMA ThinsKeeps ==
    ASSUME NEW s, NEW e, Table(s, e), NEW r, Thins(s, r)
    PROVE  Table(r, e)
<1>1. LiveIn(r) = LiveIn(s)
  BY DEF Thins, LiveIn
<1>2. Drawn(r, e)
  BY <1>1 DEF Table, Drawn, Thins
<1>3. OneApp(r, e)
  BY DEF Table, OneApp, Thins
<1>4. InboxesOrdered(r)
  BY <1>1 DEF Table, InboxesOrdered, Thins
<1>5. Owned(r)
  BY <1>1 DEF Table, Owned, Thins
<1>6. Tracked(r, e)
  BY <1>1 DEF Table, Tracked, Thins, Said
<1>. QED
  BY <1>2, <1>3, <1>4, <1>5, <1>6 DEF Table

\* Steps on the missions, the status and the flag alone.
LEMMA FieldThins ==
    ASSUME NEW s, Shaped(s), NEW r, DOMAIN r = Fields,
           r.rec = s.rec, r.app = s.app, r.proc = s.proc, r.lastToken = s.lastToken
    PROVE  Thins(s, r)
BY DEF Shaped, Thins

LEMMA OtherFieldsThin ==
    ASSUME NEW s, Shaped(s), NEW x,
           NEW r \in {[s EXCEPT !.status = x], [s EXCEPT !.dangling = x],
                      [s EXCEPT !.dangling = TRUE, !.status = x],
                      [s EXCEPT !.order = x], [s EXCEPT !.topStack = x]}
    PROVE  Thins(s, r)
<1>1. /\ DOMAIN r = Fields /\ r.rec = s.rec /\ r.app = s.app
      /\ r.proc = s.proc /\ r.lastToken = s.lastToken
  <2>1. DOMAIN s = Fields
    BY DEF Shaped
  <2>. QED
    BY <2>1 DEF Fields
<1>. QED
  BY <1>1, FieldThins

LEMMA MissionThins ==
    ASSUME NEW s, Shaped(s), NEW b
    PROVE  /\ Thins(s, MoveToTop(s, b))
           /\ Thins(s, RemoveMission(s, b))
<1>1. Thins(s, MoveToTop(s, b))
  BY ThinsSelf, OtherFieldsThin DEF MoveToTop
<1>2. Thins(s, RemoveMission(s, b))
  <2>. DEFINE r == RemoveMission(s, b)
  <2>1. /\ DOMAIN r = Fields /\ r.rec = s.rec /\ r.app = s.app
        /\ r.proc = s.proc /\ r.lastToken = s.lastToken
    <3>1. DOMAIN s = Fields
      BY DEF Shaped
    <3>. QED
      BY <3>1 DEF Fields, RemoveMission
  <2>. QED
    BY <2>1, FieldThins
<1>. QED
  BY <1>1, <1>2

\* SetNextAbility and SetPrevAbility of a page record.
LEMMA LinkThins ==
    ASSUME NEW s, Shaped(s), NEW t \in DOMAIN s.rec, NEW n \in Nat,
           NEW r \in {[s EXCEPT !.rec[t].next = n], [s EXCEPT !.rec[t].prev = n]}
    PROVE  Thins(s, r)
<1>. DEFINE q == s.rec[t]
<1>1. DOMAIN s = Fields /\ q \in RecordType /\ TokenMap(s.rec, RecordType)
  BY DEF Shaped, TokenMap
<1>2. PICK y \in {[q EXCEPT !.next = n], [q EXCEPT !.prev = n]} :
         /\ DOMAIN r = Fields /\ r.app = s.app /\ r.proc = s.proc
         /\ r.lastToken = s.lastToken /\ r.rec = [s.rec EXCEPT ![t] = y]
  <2>1. CASE r = [s EXCEPT !.rec[t].next = n]
    BY <1>1, <2>1 DEF Fields
  <2>2. CASE r = [s EXCEPT !.rec[t].prev = n]
    BY <1>1, <2>2 DEF Fields
  <2>. QED
    BY <2>1, <2>2
<1>3. y \in RecordType /\ y.app = q.app /\ y.state = q.state
  BY <1>1, <1>2 DEF RecordType
<1>4. /\ DOMAIN r.rec = DOMAIN s.rec
      /\ \A u \in DOMAIN s.rec : r.rec[u] = IF u = t THEN y ELSE s.rec[u]
  BY <1>2
<1>5. TokenMap(r.rec, RecordType)
  BY <1>1, <1>3, <1>4 DEF TokenMap
<1>. QED
  BY <1>2, <1>3, <1>4, <1>5 DEF Shaped, Thins

\* The clearing of a pending slot.
LEMMA SlotThins ==
    ASSUME NEW s, Shaped(s), NEW id \in DOMAIN s.app
    PROVE  Thins(s, [s EXCEPT !.app[id].pending = 0])
<1>. DEFINE r == [s EXCEPT !.app[id].pending = 0]
            q == s.app[id]
            y == [q EXCEPT !.pending = 0]
<1>1. DOMAIN s = Fields /\ q \in AppType /\ TokenMap(s.app, AppType)
  BY DEF Shaped, TokenMap
<1>2. /\ DOMAIN r = Fields /\ r.rec = s.rec /\ r.proc = s.proc
      /\ r.lastToken = s.lastToken /\ r.app = [s.app EXCEPT ![id] = y]
  BY <1>1 DEF Fields
<1>3. y \in AppType /\ y.bundle = q.bundle /\ y.attached = q.attached
  BY <1>1 DEF AppType
<1>. HIDE DEF r, y
<1>4. /\ DOMAIN r.app = DOMAIN s.app
      /\ \A i \in DOMAIN s.app : r.app[i] = IF i = id THEN y ELSE s.app[i]
  BY <1>2
<1>5. TokenMap(r.app, AppType)
  BY <1>1, <1>3, <1>4 DEF TokenMap
<1>6. Thins(s, r)
  BY <1>2, <1>3, <1>4, <1>5 DEF Shaped, Thins
<1>. QED
  BY <1>6 DEF r

LEMMA RemoveAppsThins ==
    ASSUME NEW s, Shaped(s), NEW ids
    PROVE  Thins(s, RemoveApps(s, ids)) /\ DOMAIN RemoveApps(s, ids).app = DOMAIN s.app \ ids
<1>. DEFINE r == RemoveApps(s, ids)
<1>1. DOMAIN s = Fields /\ TokenMap(s.app, AppType)
  BY DEF Shaped
<1>2. /\ DOMAIN r = Fields /\ r.rec = s.rec /\ r.proc = s.proc
      /\ r.lastToken = s.lastToken /\ r.app = Drop(s.app, ids)
  BY <1>1 DEF Fields, RemoveApps
<1>. HIDE DEF r
<1>3. /\ TokenMap(r.app, AppType)
      /\ DOMAIN r.app = DOMAIN s.app \ ids
      /\ \A i \in DOMAIN r.app : r.app[i] = s.app[i]
  BY <1>1, <1>2 DEF Drop, TokenMap
<1>4. Thins(s, r) /\ DOMAIN r.app = DOMAIN s.app \ ids
  BY <1>2, <1>3 DEF Shaped, Thins
<1>. QED
  BY <1>4 DEF r

LEMMA RemoveAppRecordThins ==
    ASSUME NEW s, Shaped(s), NEW id
    PROVE  /\ Thins(s, RemoveAppRecord(s, id))
           /\ DOMAIN RemoveAppRecord(s, id).app = DOMAIN s.app \ {id}
<1>. DEFINE q == RemoveApps(s, {id})
            r == RemoveAppRecord(s, id)
            behind == \E i \in DOMAIN s.app : i > id
<1>1. Thins(s, q) /\ DOMAIN q.app = DOMAIN s.app \ {id} /\ Shaped(q)
  BY RemoveAppsThins, ThinsShaped
<1>2. r = [q EXCEPT !.reread = (q.reread \/ behind)]
  BY DEF RemoveAppRecord
<1>. HIDE DEF q, r, behind
<1>3. /\ DOMAIN r = Fields /\ r.rec = q.rec /\ r.app = q.app
      /\ r.proc = q.proc /\ r.lastToken = q.lastToken
  BY <1>1, <1>2 DEF Shaped, Fields
<1>4. Thins(q, r)
  BY <1>1, <1>3, FieldThins
<1>. QED BY <1>1, <1>3, <1>4, ThinsTransitive DEF r

-----------------------------------------------------------------------------
(* The removal of pages.                                                   *)

LEMMA DeleteRecordsThins ==
    ASSUME NEW s, Shaped(s), NEW gone
    PROVE  LET r == DeleteRecords(s, gone)
           IN  Thins(s, r) /\ DOMAIN r.rec = DOMAIN s.rec \ gone
<1>. DEFINE r == DeleteRecords(s, gone)
            cleared(i) == s.app[i].pending \in gone /\ s.rec[s.app[i].pending].app = i
            slots == [i \in DOMAIN s.app |->
                        IF cleared(i) THEN [s.app[i] EXCEPT !.pending = 0] ELSE s.app[i]]
<1>1. DOMAIN s = Fields /\ TokenMap(s.app, AppType) /\ TokenMap(s.rec, RecordType)
  BY DEF Shaped
<1>2. /\ DOMAIN r = Fields /\ r.rec = Drop(s.rec, gone) /\ r.proc = s.proc
      /\ r.lastToken = s.lastToken /\ r.app = slots
  BY <1>1 DEF Fields, DeleteRecords
<1>3. ASSUME NEW i \in DOMAIN s.app
      PROVE  slots[i] \in AppType /\ slots[i].bundle = s.app[i].bundle
             /\ slots[i].attached = s.app[i].attached
  <2>1. s.app[i] \in AppType
    BY <1>1 DEF TokenMap
  <2>2. slots[i] \in {s.app[i], [s.app[i] EXCEPT !.pending = 0]}
    OBVIOUS
  <2>. HIDE DEF slots
  <2>3. CASE slots[i] = s.app[i]
    BY <2>1, <2>3
  <2>4. CASE slots[i] = [s.app[i] EXCEPT !.pending = 0]
    BY <2>1, <2>4 DEF AppType
  <2>. QED
    BY <2>2, <2>3, <2>4
<1>4. DOMAIN slots = DOMAIN s.app
  OBVIOUS
<1>. HIDE DEF slots, r
<1>5. TokenMap(r.app, AppType)
  BY <1>1, <1>2, <1>3, <1>4 DEF TokenMap
<1>6. /\ TokenMap(r.rec, RecordType) /\ DOMAIN r.rec = DOMAIN s.rec \ gone
      /\ \A t \in DOMAIN r.rec : r.rec[t] = s.rec[t]
  BY <1>1, <1>2 DEF Drop, TokenMap
<1>7. Thins(s, r) /\ DOMAIN r.rec = DOMAIN s.rec \ gone
  BY <1>2, <1>3, <1>4, <1>5, <1>6 DEF Shaped, Thins
<1>. QED
  BY <1>7 DEF r

LEMMA CutMissionThins ==
    ASSUME NEW s, Shaped(s), NEW b, NEW k
    PROVE  LET r == CutMission(s, b, k)
           IN  Thins(s, r) /\ DOMAIN r.rec = DOMAIN s.rec \ ElementsFrom(s.pages[b], k)
<1>. DEFINE d == DeleteRecords(s, ElementsFrom(s.pages[b], k))
            r == CutMission(s, b, k)
<1>1. Thins(s, d) /\ DOMAIN d.rec = DOMAIN s.rec \ ElementsFrom(s.pages[b], k)
  BY DeleteRecordsThins
<1>2. r = [d EXCEPT !.pages[b] = SubSeq(@, 1, k - 1)]
  BY DEF CutMission
<1>. HIDE DEF d, r
<1>3. DOMAIN d = Fields /\ Shaped(d)
  BY <1>1 DEF Thins, Shaped
<1>4. /\ DOMAIN r = Fields /\ r.rec = d.rec /\ r.app = d.app
      /\ r.proc = d.proc /\ r.lastToken = d.lastToken
  BY <1>2, <1>3 DEF Fields
<1>5. Thins(d, r)
  BY <1>3, <1>4, FieldThins
<1>6. Thins(s, r)
  BY <1>1, <1>5, ThinsTransitive
<1>. QED
  BY <1>1, <1>4, <1>6 DEF r

\* RemovePageAbility forgets the page, with the pages above it.
LEMMA RemovePageThins ==
    ASSUME NEW s, SInv(s), NEW t \in DOMAIN s.rec
    PROVE  Thins(s, RemovePage(s, t)) /\ t \notin DOMAIN RemovePage(s, t).rec
<1>. DEFINE b    == BundleOfPage(s, t)
            i    == IndexOf(s.pages[b], t)
            prev == s.prevMission[b]
            s1   == CutMission(s, b, i)
            s2   == RemoveMission(s1, b)
<1>1. Shaped(s)
  BY SInvShaped
<1>2. /\ Thins(s, s1) /\ Shaped(s1)
      /\ DOMAIN s1.rec = DOMAIN s.rec \ ElementsFrom(s.pages[b], i)
  BY <1>1, CutMissionThins DEF Thins
<1>3. t \in ElementsFrom(s.pages[b], i)
  <2>1. t \in Elements(s.pages[b]) /\ s.pages[b] \in Seq(Token)
    BY SInvParts, PageListed
  <2>2. i \in 1..Len(s.pages[b]) /\ s.pages[b][i] = t
    BY <2>1, IndexOfElement
  <2>3. i \in i..Len(s.pages[b])
    BY <2>1, <2>2, LenProperties
  <2>. QED
    BY <2>2, <2>3 DEF ElementsFrom
<1>4. RemovePage(s, t) \in {s1, MoveToTop(s2, prev), [s2 EXCEPT !.topStack = "launcher"]}
  BY DEF RemovePage
<1>. HIDE DEF s1
<1>5. Thins(s1, s2) /\ Shaped(s2)
  BY <1>2, MissionThins DEF Thins
<1>. HIDE DEF s2
<1>6. Thins(s2, MoveToTop(s2, prev)) /\ Thins(s2, [s2 EXCEPT !.topStack = "launcher"])
  BY <1>5, MissionThins, OtherFieldsThin
<1>7. Thins(s1, RemovePage(s, t))
  BY <1>2, <1>4, <1>5, <1>6, ThinsSelf, ThinsTransitive
<1>8. Thins(s, RemovePage(s, t))
  BY <1>2, <1>7, ThinsTransitive
<1>. QED
  BY <1>2, <1>3, <1>7, <1>8 DEF Thins

LEMMA ClearAbilityStackThins ==
    ASSUME NEW s, Shaped(s), NEW b
    PROVE  Thins(s, ClearAbilityStack(s, b))
<1>. DEFINE prev == s.prevMission[b]
            s1   == IF prev # None
                    THEN MoveToTop(s, prev)
                    ELSE IF TopMission(s, s.topStack) = b
                         THEN [s EXCEPT !.topStack = "launcher"]
                         ELSE s
            s2   == CutMission(s1, b, 1)
            s3   == RemoveMission(s2, b)
<1>1. ClearAbilityStack(s, b) = IF s.pages[b] = <<>> THEN s ELSE s3
  BY DEF ClearAbilityStack, ClearMission
<1>2. Thins(s, s1) /\ Shaped(s1)
  <2>1. s1 \in {MoveToTop(s, prev), [s EXCEPT !.topStack = "launcher"], s}
    OBVIOUS
  <2>. HIDE DEF s1
  <2>2. Thins(s, MoveToTop(s, prev)) /\ Thins(s, s)
    BY MissionThins, ThinsSelf
  <2>3. Thins(s, [s EXCEPT !.topStack = "launcher"])
    BY OtherFieldsThin
  <2>. QED
    BY <2>1, <2>2, <2>3, ThinsShaped
<1>. HIDE DEF s1
<1>3. Thins(s1, s2) /\ Shaped(s2)
  BY <1>2, CutMissionThins DEF Thins
<1>. HIDE DEF s2
<1>4. Thins(s2, s3)
  BY <1>3, MissionThins
<1>5. Thins(s, s3)
  BY <1>2, <1>3, <1>4, ThinsTransitive
<1>. QED
  BY <1>1, <1>5, ThinsSelf

-----------------------------------------------------------------------------
(* New pages and new processes.                                            *)

\* A bundle without an app record.
LEMMA NoAppOf ==
    ASSUME NEW s, Shaped(s), NEW b, AppOf(s, b) = 0
    PROVE  \A i \in DOMAIN s.app : s.app[i].bundle # b
<1>1. AppsOf(s, b) = {}
  <2>1. ASSUME AppsOf(s, b) # {} PROVE FALSE
    <3>1. 0 \in AppsOf(s, b)
      BY <2>1 DEF AppOf
    <3>. QED
      BY <3>1 DEF AppsOf, Shaped, TokenMap, Token
  <2>. QED
    BY <2>1
<1>. QED
  BY <1>1 DEF AppsOf

\* A new page has no process, or the one its bundle has: no process knows it yet,
\* and no answer speaks of it.
LEMMA PushTable ==
    ASSUME NEW s, SInv(s), NEW e, Table(s, e), NEW a \in Ability
    PROVE  Table(PushPage(s, a), e) /\ Shaped(PushPage(s, a))
<1>. DEFINE t == s.lastToken + 1
            new == NewRecord(s, a)
            r == PushPage(s, a)
<1>1. DOMAIN s = Fields /\ Shaped(s)
  BY SInvShaped DEF Shaped
<1>2. /\ DOMAIN r = Fields /\ r.lastToken = t /\ r.rec = With(s.rec, t, new)
      /\ r.app = s.app /\ r.proc = s.proc
  BY <1>1 DEF PushPage, Fields
<1>3. new.app \in DOMAIN s.app \cup {0} /\ new.state = "UNINITIALIZED"
  BY AppOfListed DEF NewRecord
<1>4. t \in Token /\ s.lastToken \in Nat /\ t \in Nat /\ s.lastToken < t
  BY <1>1 DEF Shaped, Token
<1>5. \A i \in DOMAIN s.app : i \in Nat
  BY <1>1 DEF Shaped, TokenMap, Token
<1>6. new \in RecordType
  <2>1. new.app \in Nat
    BY <1>3, <1>5
  <2>. QED
    BY <2>1 DEF NewRecord, RecordType, RecordState
<1>. HIDE DEF new, t, r
<1>7. /\ DOMAIN r.rec = DOMAIN s.rec \cup {t} /\ r.rec[t] = new
      /\ \A u \in DOMAIN s.rec : u # t => r.rec[u] = s.rec[u]
  BY <1>2 DEF With
<1>8. TokenMap(r.rec, RecordType)
  <2>1. TokenMap(s.rec, RecordType)
    BY <1>1 DEF Shaped
  <2>. QED
    BY <1>4, <1>6, <1>7, <2>1 DEF TokenMap
<1>9. Shaped(r)
  BY <1>1, <1>2, <1>4, <1>8 DEF Shaped
<1>10. LiveIn(r) = LiveIn(s) /\ \A p \in LiveIn(s) : p \in Token
  BY <1>1, <1>2 DEF LiveIn, Shaped
<1>11. /\ \A u \in DOMAIN s.rec : u \in Token /\ s.rec[u].app \in Nat
       /\ \A i \in DOMAIN s.app : i <= s.lastToken
       /\ \A p \in DOMAIN s.proc : p <= s.lastToken /\ p \in Nat
       /\ \A u \in DOMAIN s.rec : s.rec[u].app <= s.lastToken
       /\ \A u \in DOMAIN e.said : u \in Nat /\ u <= s.lastToken
  BY <1>1 DEF Table, Drawn, Shaped, TokenMap, Token, RecordType
<1>12. \A p \in LiveIn(s) : ~Knows(s.proc[p], t)
  BY <1>4 DEF Table, Drawn
<1>13. Drawn(r, e)
  <2>1. \A u \in DOMAIN r.rec : r.rec[u].app <= t
    BY <1>3, <1>4, <1>5, <1>7, <1>11
  <2>2. \A p \in LiveIn(s), u \in Token : Knows(s.proc[p], u) => u <= t
    <3>1. \A u \in Token : u <= s.lastToken => u <= t
      BY <1>4 DEF Token
    <3>. QED
      BY <3>1 DEF Table, Drawn
  <2>3. /\ \A i \in DOMAIN s.app : i <= t
        /\ \A p \in DOMAIN s.proc : p <= t
        /\ \A u \in DOMAIN e.said : u \in Token /\ u <= t
    BY <1>4, <1>5, <1>11 DEF Table, Drawn
  <2>. QED
    BY <1>2, <1>10, <2>1, <2>2, <2>3 DEF Drawn
<1>14. OneApp(r, e) /\ InboxesOrdered(r)
  BY <1>2, <1>10 DEF Table, OneApp, InboxesOrdered
<1>15. Owned(r)
  BY <1>2, <1>7, <1>10, <1>12 DEF Table, Owned
<1>16. Tracked(r, e)
  <2>1. t \notin DOMAIN e.said
    BY <1>4, <1>11
  <2>2. \A p \in LiveIn(s) : t \notin DOMAIN s.proc[p].hosted
    BY <1>12 DEF Knows
  <2>. QED
    BY <1>2, <1>3, <1>7, <1>10, <2>1, <2>2 DEF Table, Tracked, Said
<1>17. Table(r, e)
  BY <1>13, <1>14, <1>15, <1>16 DEF Table
<1>. QED
  BY <1>9, <1>17 DEF r

\* A spawned process is the one process of its bundle that the table lists.
LEMMA SpawnTable ==
    ASSUME NEW s, SInv(s), NEW e, Table(s, e), NEW b \in Bundle, NEW fails,
           AppOf(s, b) = 0
    PROVE  Table(StartAppProcess(s, b, fails), e)
<1>. DEFINE id == s.lastToken + 1
            new == NewProcess(b)
            slot == NewApp(b)
            r == StartAppProcess(s, b, fails)
<1>1. DOMAIN s = Fields /\ Shaped(s)
  BY SInvShaped DEF Shaped
<1>2. id \in Token /\ s.lastToken \in Nat /\ id \in Nat /\ s.lastToken < id
  BY <1>1 DEF Shaped, Token
<1>3. /\ DOMAIN r = Fields /\ r.lastToken = id /\ r.rec = s.rec
      /\ \/ r.app = s.app /\ r.proc = s.proc
         \/ r.app = With(s.app, id, slot) /\ r.proc = With(s.proc, id, new)
  BY <1>1 DEF StartAppProcess, Fields
<1>4. /\ slot.bundle = b /\ slot.attached = FALSE /\ new.bundle = b
      /\ new.phase = "spawned" /\ new.hosted = <<>> /\ new.inbox = <<>> /\ new.inited = FALSE
  BY DEF NewApp, NewProcess
<1>. HIDE DEF id, new, slot, r
<1>5. /\ \A i \in DOMAIN s.app : i <= s.lastToken /\ i \in Nat
      /\ \A p \in DOMAIN s.proc : p <= s.lastToken /\ p \in Nat
      /\ \A u \in DOMAIN s.rec : s.rec[u].app <= s.lastToken /\ s.rec[u].app \in Nat
      /\ \A u \in DOMAIN e.said : u \in Nat /\ u <= s.lastToken
  BY <1>1 DEF Table, Drawn, Shaped, TokenMap, Token, RecordType
<1>6. ASSUME NEW t PROVE ~Knows(new, t)
  BY <1>4 DEF Knows, InTransit
<1>7. Ordered(new) /\ Expected(new, FALSE)
  BY <1>4 DEF Ordered, Expected, Told
<1>8. id \notin DOMAIN s.app /\ id \notin DOMAIN s.proc
  BY <1>2, <1>5
<1>9. /\ \A i \in DOMAIN r.app : \/ i \in DOMAIN s.app /\ r.app[i] = s.app[i]
                                 \/ i = id /\ r.app[i] = slot /\ i \in DOMAIN r.proc
      /\ \A p \in DOMAIN s.proc : p \in DOMAIN r.proc /\ r.proc[p] = s.proc[p]
      /\ \A p \in DOMAIN r.proc : p \in DOMAIN s.proc \/ (p = id /\ r.proc[p] = new)
      /\ id \in DOMAIN r.app => id \in DOMAIN r.proc /\ r.app[id] = slot /\ r.proc[id] = new
      /\ id \in DOMAIN r.proc => r.proc[id] = new /\ r.app[id] = slot
  BY <1>3, <1>8 DEF With
<1>10. LiveIn(s) \subseteq LiveIn(r) /\ \A p \in LiveIn(r) : p \in LiveIn(s) \/ p = id
  BY <1>9 DEF LiveIn
<1>11. Drawn(r, e)
  <2>1. \A u \in DOMAIN r.rec : r.rec[u].app <= id
    BY <1>2, <1>3, <1>5
  <2>2. \A p \in LiveIn(r), u \in Token : Knows(r.proc[p], u) => u <= id
    <3>1. SUFFICES ASSUME NEW p \in LiveIn(r), NEW u \in Token, Knows(r.proc[p], u)
                   PROVE  u <= id
      OBVIOUS
    <3>2. p \in LiveIn(s) /\ r.proc[p] = s.proc[p]
      BY <1>6, <1>9, <1>10, <3>1 DEF LiveIn
    <3>3. u <= s.lastToken
      BY <3>1, <3>2 DEF Table, Drawn
    <3>. QED
      BY <1>2, <3>3 DEF Token
  <2>3. \A i \in DOMAIN r.app : i <= id
    BY <1>2, <1>5, <1>9
  <2>4. \A p \in DOMAIN r.proc : p <= id
    BY <1>2, <1>5, <1>9
  <2>5. \A u \in DOMAIN e.said : u \in Token /\ u <= id
    BY <1>2, <1>5 DEF Table, Drawn
  <2>. QED
    BY <1>3, <2>1, <2>2, <2>3, <2>4, <2>5 DEF Drawn
<1>12. OneApp(r, e)
  <2>1. \A i \in DOMAIN s.app : s.app[i].bundle # b
    BY <1>1, NoAppOf
  <2>2. \A i, j \in DOMAIN r.app : r.app[i].bundle = r.app[j].bundle => i = j
    BY <1>4, <1>9, <2>1 DEF Table, OneApp
  <2>3. \A i \in DOMAIN r.app : \/ i \in DOMAIN r.proc /\ r.proc[i].bundle = r.app[i].bundle
                                \/ r.app[i].bundle \in e.lost
    BY <1>4, <1>9 DEF Table, OneApp
  <2>. QED
    BY <2>2, <2>3 DEF OneApp
<1>13. InboxesOrdered(r)
  <2>1. SUFFICES ASSUME NEW p \in LiveIn(r)
                 PROVE  /\ Ordered(r.proc[p])
                        /\ p \in DOMAIN r.app => Expected(r.proc[p], r.app[p].attached)
    BY DEF InboxesOrdered
  <2>2. CASE p = id
    <3>1. p \in DOMAIN r.proc
      BY DEF LiveIn
    <3>. QED
      BY <1>4, <1>7, <1>9, <2>2, <3>1
  <2>3. CASE p # id
    <3>1. p \in LiveIn(s) /\ p \in DOMAIN s.proc
      BY <1>10, <2>3 DEF LiveIn
    <3>. QED
      BY <1>9, <2>3, <3>1 DEF Table, InboxesOrdered
  <2>. QED
    BY <2>2, <2>3
<1>14. Owned(r)
  <2>1. SUFFICES ASSUME NEW p \in LiveIn(r), NEW t \in DOMAIN s.rec, Knows(r.proc[p], t)
                 PROVE  s.rec[t].app = p
    BY <1>3 DEF Owned
  <2>2. p \in LiveIn(s) /\ r.proc[p] = s.proc[p]
    BY <1>6, <1>9, <1>10, <2>1 DEF LiveIn
  <2>. QED
    BY <2>1, <2>2 DEF Table, Owned
<1>15. Tracked(r, e)
  <2>1. \A t \in DOMAIN s.rec : s.rec[t].app # id
    BY <1>2, <1>5
  <2>2. \A p \in LiveIn(r) : p # id => p \in LiveIn(s) /\ r.proc[p] = s.proc[p]
    BY <1>9, <1>10 DEF LiveIn
  <2>. QED
    BY <1>3, <2>1, <2>2 DEF Table, Tracked, Said
<1>16. Table(r, e)
  BY <1>11, <1>12, <1>13, <1>14, <1>15 DEF Table
<1>. QED
  BY <1>16 DEF r

\* A page without a process gets one: no process knows the page yet.
LEMMA SlotTable ==
    ASSUME NEW s, SInv(s), NEW e, Table(s, e), NEW t \in DOMAIN s.rec, s.rec[t].app = 0,
           NEW id \in DOMAIN s.app
    PROVE  Table([s EXCEPT !.rec[t].app = id, !.app[id].pending = t], e)
<1>. DEFINE r == [s EXCEPT !.rec[t].app = id, !.app[id].pending = t]
            x == [s.rec[t] EXCEPT !.app = id]
            y == [s.app[id] EXCEPT !.pending = t]
<1>1. DOMAIN s = Fields /\ Shaped(s) /\ s.rec[t] \in RecordType /\ s.app[id] \in AppType
  BY SInvShaped DEF Shaped, TokenMap
<1>2. /\ DOMAIN r = Fields /\ r.lastToken = s.lastToken /\ r.proc = s.proc
      /\ r.rec = [s.rec EXCEPT ![t] = x] /\ r.app = [s.app EXCEPT ![id] = y]
  BY <1>1 DEF Fields
<1>3. x.app = id /\ x.state = s.rec[t].state
  BY <1>1 DEF RecordType
<1>4. y.bundle = s.app[id].bundle /\ y.attached = s.app[id].attached
  BY <1>1 DEF AppType
<1>. HIDE DEF r, x, y
<1>5. /\ DOMAIN r.rec = DOMAIN s.rec
      /\ \A u \in DOMAIN s.rec : r.rec[u] = IF u = t THEN x ELSE s.rec[u]
      /\ DOMAIN r.app = DOMAIN s.app
      /\ \A i \in DOMAIN s.app : r.app[i].bundle = s.app[i].bundle
                                 /\ r.app[i].attached = s.app[i].attached
  BY <1>2, <1>4
<1>6. LiveIn(r) = LiveIn(s) /\ \A p \in LiveIn(s) : p # 0
  BY <1>1, <1>2 DEF LiveIn, Shaped, Token
<1>7. \A p \in LiveIn(s) : ~Knows(s.proc[p], t)
  BY <1>6 DEF Table, Owned
<1>8. id # 0
  BY <1>1 DEF Shaped, TokenMap, Token
<1>9. Drawn(r, e)
  BY <1>2, <1>3, <1>5, <1>6 DEF Table, Drawn
<1>10. OneApp(r, e) /\ InboxesOrdered(r)
  BY <1>2, <1>5, <1>6 DEF Table, OneApp, InboxesOrdered
<1>11. Owned(r)
  BY <1>2, <1>5, <1>6, <1>7 DEF Table, Owned
<1>12. Tracked(r, e)
  <2>1. s.rec[t].state = "UNINITIALIZED" /\ t \notin DOMAIN e.said
    BY DEF Table, Tracked
  <2>2. \A p \in LiveIn(s) : t \notin DOMAIN s.proc[p].hosted
    BY <1>7 DEF Knows
  <2>. QED
    BY <1>2, <1>3, <1>5, <1>6, <1>8, <2>1, <2>2 DEF Table, Tracked, Said
<1>13. Table(r, e)
  BY <1>9, <1>10, <1>11, <1>12 DEF Table
<1>. QED
  BY <1>13 DEF r

-----------------------------------------------------------------------------
(* Messages.                                                               *)

\* The process p becomes q, and keeps what it holds; it comes to know of no page
\* but its own.  The service forgets records at most.
Turns(s, p, q, r) ==
    /\ p \in DOMAIN s.proc
    /\ q.bundle = s.proc[p].bundle /\ q.hosted = s.proc[p].hosted
    /\ q.phase = "dead" <=> s.proc[p].phase = "dead"
    /\ r.proc = [s.proc EXCEPT ![p] = q] /\ r.lastToken = s.lastToken
    /\ DOMAIN r.rec \subseteq DOMAIN s.rec
    /\ \A t \in DOMAIN r.rec : r.rec[t].app = s.rec[t].app /\ r.rec[t].state = s.rec[t].state
    /\ DOMAIN r.app \subseteq DOMAIN s.app
    /\ \A i \in DOMAIN r.app : /\ r.app[i].bundle = s.app[i].bundle
                               /\ i # p => r.app[i].attached = s.app[i].attached
    /\ p \in LiveIn(s) =>
          /\ Ordered(q)
          /\ p \in DOMAIN r.app => Expected(q, r.app[p].attached)
          /\ \A t : InTransit(q, t) =>
                InTransit(s.proc[p], t) \/ (t \in DOMAIN s.rec /\ s.rec[t].app = p)

LEMMA ProcTable ==
    ASSUME NEW s, SInv(s), NEW e, Table(s, e), NEW p, NEW q, NEW r, Turns(s, p, q, r)
    PROVE  Table(r, e)
<1>. USE DEF Turns
<1>1. /\ DOMAIN r.proc = DOMAIN s.proc /\ r.proc[p] = q
      /\ \A x \in DOMAIN s.proc : x # p => r.proc[x] = s.proc[x]
  OBVIOUS
<1>2. LiveIn(r) = LiveIn(s) /\ \A x \in LiveIn(s) : x \in DOMAIN s.proc
  BY <1>1 DEF LiveIn
<1>3. ASSUME NEW x \in LiveIn(s), NEW t, Knows(r.proc[x], t)
      PROVE  Knows(s.proc[x], t) \/ (t \in DOMAIN s.rec /\ s.rec[t].app = x)
  <2>1. CASE x = p
    BY <1>1, <1>3, <2>1 DEF Knows
  <2>2. CASE x # p
    BY <1>1, <1>2, <1>3, <2>2
  <2>. QED
    BY <2>1, <2>2
<1>4. Drawn(r, e)
  <2>1. ASSUME NEW x \in LiveIn(r), NEW t \in Token, Knows(r.proc[x], t)
        PROVE  t <= s.lastToken
    BY <1>2, <1>3, <2>1 DEF Table, Drawn, SInv, Fresh
  <2>2. /\ \A i \in DOMAIN r.app : i <= s.lastToken
        /\ \A x \in DOMAIN r.proc : x <= s.lastToken
        /\ \A t \in DOMAIN r.rec : r.rec[t].app <= s.lastToken
        /\ \A t \in DOMAIN e.said : t \in Token /\ t <= s.lastToken
    BY <1>1 DEF Table, Drawn
  <2>. QED
    BY <2>1, <2>2 DEF Drawn
<1>5. OneApp(r, e)
  BY <1>1 DEF Table, OneApp
<1>6. InboxesOrdered(r)
  <2>1. SUFFICES ASSUME NEW x \in LiveIn(s)
                 PROVE  /\ Ordered(r.proc[x])
                        /\ x \in DOMAIN r.app => Expected(r.proc[x], r.app[x].attached)
    BY <1>2 DEF InboxesOrdered
  <2>2. CASE x = p
    BY <1>1, <2>2
  <2>3. CASE x # p
    BY <1>1, <1>2, <2>3 DEF Table, InboxesOrdered
  <2>. QED
    BY <2>2, <2>3
<1>7. Owned(r)
  <2>1. SUFFICES ASSUME NEW x \in LiveIn(s), NEW t \in DOMAIN r.rec, Knows(r.proc[x], t)
                 PROVE  s.rec[t].app = x
    BY <1>2 DEF Owned
  <2>2. t \in DOMAIN s.rec
    OBVIOUS
  <2>. QED
    BY <1>3, <2>1, <2>2 DEF Table, Owned
<1>8. Tracked(r, e)
  <2>1. \A x \in LiveIn(s) : r.proc[x].hosted = s.proc[x].hosted
    BY <1>1, <1>2
  <2>. QED
    BY <1>2, <2>1 DEF Table, Tracked, Said
<1>. QED
  BY <1>4, <1>5, <1>6, <1>7, <1>8 DEF Table

\* What a message does to the inbox it is appended to.
LEMMA Appended ==
    ASSUME NEW q, IsProcess(q), NEW m \in Message,
           NEW w, w.inbox = Append(q.inbox, m), w.inited = q.inited
    PROVE  /\ w.inbox # <<>>
           /\ Told(w) <=> Told(q) \/ m.type \in {"exit", "quit"}
           /\ \A t : InTransit(w, t) <=> InTransit(q, t) \/ (m.type = "transact" /\ m.token = t)
           /\ Ordered(q) /\ ~Told(q)
              /\ (q.inited \/ q.inbox # <<>> \/ m.type \in {"init", "exit"}) => Ordered(w)
<1>1. q.inbox \in Seq(Message) /\ Len(q.inbox) \in Nat
  BY LenProperties DEF IsProcess
<1>2. /\ Len(w.inbox) = Len(q.inbox) + 1
      /\ w.inbox[Len(q.inbox) + 1] = m
      /\ \A i \in 1..Len(q.inbox) : w.inbox[i] = q.inbox[i]
  BY <1>1
<1>3. w.inbox # <<>>
  BY <1>1
<1>4. \A i \in 1..Len(w.inbox) : i \in 1..Len(q.inbox) \/ i = Len(q.inbox) + 1
  BY <1>1, <1>2
<1>5. /\ \A i \in 1..Len(q.inbox) : i \in 1..Len(w.inbox)
      /\ Len(q.inbox) + 1 \in 1..Len(w.inbox)
  BY <1>1, <1>2
<1>6. Told(w) <=> Told(q) \/ m.type \in {"exit", "quit"}
  BY <1>2, <1>4, <1>5 DEF Told
<1>7. \A t : InTransit(w, t) <=> InTransit(q, t) \/ (m.type = "transact" /\ m.token = t)
  BY <1>2, <1>4, <1>5 DEF InTransit
<1>8. ASSUME Ordered(q), ~Told(q), q.inited \/ q.inbox # <<>> \/ m.type \in {"init", "exit"}
      PROVE  Ordered(w)
  <2>1. ASSUME NEW i \in 1..Len(w.inbox), w.inbox[i].type \in {"exit", "quit"}
        PROVE  i = Len(w.inbox)
    BY <1>2, <1>4, <1>8, <2>1 DEF Told
  <2>2. ASSUME ~w.inited PROVE w.inbox[1].type \in {"init", "exit", "quit"}
    <3>1. CASE q.inbox = <<>>
      <4>1. Len(q.inbox) = 0
        BY <3>1
      <4>. QED
        BY <1>2, <1>8, <2>2, <3>1, <4>1
    <3>2. CASE q.inbox # <<>>
      <4>1. 1 \in 1..Len(q.inbox)
        BY <1>1, <3>2, EmptySeq
      <4>. QED
        BY <1>2, <1>8, <2>2, <3>2, <4>1 DEF Ordered
    <3>. QED
      BY <3>1, <3>2
  <2>. QED
    BY <2>1, <2>2 DEF Ordered
<1>. QED
  BY <1>3, <1>6, <1>7, <1>8

\* The fields a call changes.
LEMMA SendFields ==
    ASSUME NEW s, Shaped(s), NEW id, NEW m
    PROVE  LET r == Send(s, id, m)
           IN  \/ /\ s.app[id].attached /\ id \in LiveIn(s)
                  /\ DOMAIN r = Fields /\ r.rec = s.rec /\ r.app = s.app
                  /\ r.lastToken = s.lastToken
                  /\ r.proc = [s.proc EXCEPT ![id] =
                                  [s.proc[id] EXCEPT !.inbox = Append(s.proc[id].inbox, m)]]
               \/ ~(s.app[id].attached /\ id \in LiveIn(s)) /\ Thins(s, r)
<1>1. CASE s.app[id].attached /\ id \in LiveIn(s)
  <2>. DEFINE r == [s EXCEPT !.proc[id].inbox = Append(@, m), !.status = "ok"]
  <2>1. Send(s, id, m) = r
    BY <1>1 DEF Send, Alive, LiveIn
  <2>2. DOMAIN s = Fields
    BY DEF Shaped
  <2>3. /\ DOMAIN r = Fields /\ r.rec = s.rec /\ r.app = s.app
        /\ r.lastToken = s.lastToken
        /\ r.proc = [s.proc EXCEPT ![id].inbox = Append(@, m)]
    BY <2>2 DEF Fields
  <2>. HIDE DEF r
  <2>4. r.proc = [s.proc EXCEPT ![id] =
                    [s.proc[id] EXCEPT !.inbox = Append(s.proc[id].inbox, m)]]
    BY <2>3
  <2>. QED
    BY <1>1, <2>1, <2>3, <2>4
<1>2. CASE ~(s.app[id].attached /\ id \in LiveIn(s))
  BY <1>2, OtherFieldsThin DEF Send, Alive, LiveIn
<1>. QED
  BY <1>1, <1>2

\* A transaction goes to the process of its page.
LEMMA TransactTable ==
    ASSUME NEW s, SInv(s), NEW e, Table(s, e), NEW id \in DOMAIN s.app,
           NEW m \in Message, m.type = "transact",
           m.token \in DOMAIN s.rec /\ s.rec[m.token].app = id
    PROVE  Table(Send(s, id, m), e)
<1>. DEFINE r == Send(s, id, m)
            q == [s.proc[id] EXCEPT !.inbox = Append(s.proc[id].inbox, m)]
<1>1. Shaped(s)
  BY SInvShaped
<1>2. CASE s.app[id].attached /\ id \in LiveIn(s)
  <2>1. /\ r.rec = s.rec /\ r.app = s.app /\ r.lastToken = s.lastToken
        /\ r.proc = [s.proc EXCEPT ![id] = q]
    BY <1>1, <1>2, SendFields
  <2>2. id \in DOMAIN s.proc /\ IsProcess(s.proc[id])
    BY <1>1, <1>2 DEF LiveIn, Shaped
  <2>3. /\ q.inbox = Append(s.proc[id].inbox, m) /\ q.inited = s.proc[id].inited
        /\ q.bundle = s.proc[id].bundle /\ q.hosted = s.proc[id].hosted
        /\ q.phase = s.proc[id].phase
    BY <2>2 DEF IsProcess
  <2>. HIDE DEF q, r
  <2>4. Ordered(s.proc[id]) /\ Expected(s.proc[id], TRUE)
    <3>1. s.app[id].attached = TRUE
      BY <1>1, <1>2 DEF Shaped, TokenMap, AppType
    <3>. QED
      BY <1>2, <3>1 DEF Table, InboxesOrdered
  <2>5. Ordered(q) /\ Expected(q, TRUE)
    BY <2>2, <2>3, <2>4, Appended DEF Expected
  <2>6. \A u : InTransit(q, u) <=> InTransit(s.proc[id], u) \/ (m.type = "transact" /\ m.token = u)
    BY <2>2, <2>3, Appended
  <2>7. \A u : InTransit(q, u) =>
               InTransit(s.proc[id], u) \/ (u \in DOMAIN s.rec /\ s.rec[u].app = id)
    BY <2>6
  <2>8. Expected(q, r.app[id].attached)
    <3>1. s.app[id].attached = TRUE
      BY <1>1, <1>2 DEF Shaped, TokenMap, AppType
    <3>. QED
      BY <2>1, <2>5, <3>1
  <2>9. Turns(s, id, q, r)
    BY <2>1, <2>2, <2>3, <2>5, <2>7, <2>8 DEF Turns
  <2>10. Table(r, e)
    BY <2>9, ProcTable
  <2>. QED
    BY <2>10 DEF r
<1>3. CASE ~(s.app[id].attached /\ id \in LiveIn(s))
  BY <1>1, <1>3, SendFields, ThinsKeeps
<1>. QED
  BY <1>2, <1>3

\* A process that is told to exit leaves the table in the same handler.
LEMMA ExitTable ==
    ASSUME NEW s, SInv(s), NEW e, Table(s, e), NEW id \in DOMAIN s.app,
           NEW r, Thins(Send(s, id, [type |-> "exit"]), r), id \notin DOMAIN r.app
    PROVE  Table(r, e)
<1>. DEFINE m  == [type |-> "exit"]
            s1 == Send(s, id, m)
            q  == [s.proc[id] EXCEPT !.inbox = Append(s.proc[id].inbox, m)]
<1>1. Shaped(s) /\ m \in Message /\ m.type = "exit"
  BY SInvShaped DEF Message
<1>2. CASE s.app[id].attached /\ id \in LiveIn(s)
  <2>1. /\ s1.rec = s.rec /\ s1.app = s.app /\ s1.lastToken = s.lastToken
        /\ s1.proc = [s.proc EXCEPT ![id] = q]
    BY <1>1, <1>2, SendFields
  <2>2. id \in DOMAIN s.proc /\ IsProcess(s.proc[id])
    BY <1>1, <1>2 DEF LiveIn, Shaped
  <2>3. /\ q.inbox = Append(s.proc[id].inbox, m) /\ q.inited = s.proc[id].inited
        /\ q.bundle = s.proc[id].bundle /\ q.hosted = s.proc[id].hosted
        /\ q.phase = s.proc[id].phase
    BY <2>2 DEF IsProcess
  <2>. HIDE DEF q, s1, m
  <2>4. Ordered(s.proc[id]) /\ ~Told(s.proc[id])
    BY <1>2 DEF Table, InboxesOrdered, Expected
  <2>5. Ordered(q) /\ \A u : InTransit(q, u) => InTransit(s.proc[id], u)
    BY <1>1, <2>2, <2>3, <2>4, Appended
  <2>6. /\ r.proc = s1.proc /\ r.lastToken = s1.lastToken
        /\ DOMAIN r.rec \subseteq DOMAIN s1.rec
        /\ \A t \in DOMAIN r.rec : r.rec[t].app = s1.rec[t].app /\ r.rec[t].state = s1.rec[t].state
        /\ DOMAIN r.app \subseteq DOMAIN s1.app
        /\ \A i \in DOMAIN r.app :
              r.app[i].bundle = s1.app[i].bundle /\ r.app[i].attached = s1.app[i].attached
    BY DEF Thins, s1, m
  <2>7. Turns(s, id, q, r)
    BY <2>1, <2>2, <2>3, <2>5, <2>6 DEF Turns
  <2>. QED
    BY <2>7, ProcTable
<1>3. CASE ~(s.app[id].attached /\ id \in LiveIn(s))
  <2>1. Thins(s, r)
    BY <1>1, <1>3, SendFields, ThinsTransitive
  <2>. QED
    BY <2>1, ThinsKeeps
<1>. QED
  BY <1>2, <1>3

-----------------------------------------------------------------------------
(* The attach of a process.                                                *)

\* SetAppState of an app record, and the death recipient of its process.
Attached(s, id) == [s EXCEPT !.app[id].attached = TRUE]

Watched(s, id) ==
    [s EXCEPT !.proc = IF id \in DOMAIN @ THEN [@ EXCEPT ![id].watched = TRUE] ELSE @]

\* The processes f with a death recipient for id.
WithRecipient(f, id) ==
    IF id \in DOMAIN f THEN [f EXCEPT ![id] = [f[id] EXCEPT !.watched = TRUE]] ELSE f

\* r is s with the process id attached, u is r with its death recipient.
Attaching(s, id, r, u) ==
    /\ SInv(r) /\ SInv(u)
    /\ r.rec = s.rec /\ r.proc = s.proc /\ r.lastToken = s.lastToken
    /\ DOMAIN r.app = DOMAIN s.app /\ r.app[id].attached = TRUE
    /\ \A i \in DOMAIN s.app : /\ r.app[i].bundle = s.app[i].bundle
                               /\ i # id => r.app[i].attached = s.app[i].attached
    /\ u.rec = r.rec /\ u.app = r.app /\ u.lastToken = r.lastToken
    /\ u.proc = WithRecipient(s.proc, id)

LEMMA AttachFields ==
    ASSUME NEW s, SInv(s), NEW id \in DOMAIN s.app,
           NEW r, r = Attached(s, id), NEW u, u = Watched(r, id)
    PROVE  Attaching(s, id, r, u)
<1>. USE DEF Attached, Watched
<1>. DEFINE y == [s.app[id] EXCEPT !.attached = TRUE]
<1>1. DOMAIN s = Fields /\ s.app[id] \in AppType
  BY DEF SInv, StateTyped, TokenMap
<1>2. /\ DOMAIN r = Fields /\ r.rec = s.rec /\ r.proc = s.proc /\ r.lastToken = s.lastToken
      /\ r.app = [s.app EXCEPT ![id] = y]
  BY <1>1 DEF Fields
<1>3. y.attached = TRUE /\ y.bundle = s.app[id].bundle
  BY <1>1 DEF AppType
<1>4. SInv(r)
  BY AppFieldQuiet DEF Quiet
<1>5. SInv(u)
  BY <1>4, WatchQuiet
<1>6. /\ u.rec = r.rec /\ u.app = r.app /\ u.lastToken = r.lastToken
      /\ u.proc = IF id \in DOMAIN r.proc THEN [r.proc EXCEPT ![id].watched = TRUE] ELSE r.proc
  BY <1>2 DEF Fields
<1>7. [s.proc EXCEPT ![id].watched = TRUE] =
         [s.proc EXCEPT ![id] = [s.proc[id] EXCEPT !.watched = TRUE]]
  OBVIOUS
<1>. HIDE DEF y
<1>8. /\ DOMAIN r.app = DOMAIN s.app
      /\ \A i \in DOMAIN s.app : r.app[i] = IF i = id THEN y ELSE s.app[i]
  BY <1>2
<1>9. /\ DOMAIN r.app = DOMAIN s.app /\ r.app[id].attached = TRUE
      /\ \A i \in DOMAIN s.app : /\ r.app[i].bundle = s.app[i].bundle
                                 /\ i # id => r.app[i].attached = s.app[i].attached
  BY <1>3, <1>8
<1>10. u.proc = WithRecipient(s.proc, id)
  BY <1>2, <1>6, <1>7 DEF WithRecipient
<1>. QED
  BY <1>2, <1>4, <1>5, <1>6, <1>9, <1>10 DEF Attaching

\* The attach of a process that has died in between.
LEMMA DeadAttachTable ==
    ASSUME NEW s, SInv(s), NEW e, Table(s, e), NEW id \in DOMAIN s.app, id \notin LiveIn(s),
           NEW r, NEW u, Attaching(s, id, r, u)
    PROVE  Table(r, e) /\ Table(u, e) /\ id \notin LiveIn(u)
<1>. USE DEF Attaching
<1>1. Shaped(u)
  BY SInvShaped
<1>2. LiveIn(r) = LiveIn(s)
  BY DEF LiveIn
<1>3. Table(r, e)
  <2>1. Drawn(r, e) /\ OneApp(r, e)
    BY <1>2 DEF Table, Drawn, OneApp
  <2>2. InboxesOrdered(r)
    BY <1>2 DEF Table, InboxesOrdered
  <2>3. Owned(r) /\ Tracked(r, e)
    BY <1>2 DEF Table, Owned, Tracked, Said
  <2>. QED
    BY <2>1, <2>2, <2>3 DEF Table
<1>4. CASE id \in DOMAIN s.proc
  <2>. DEFINE q == [s.proc[id] EXCEPT !.watched = TRUE]
  <2>1. IsProcess(s.proc[id])
    BY <1>4 DEF SInv, StateTyped
  <2>2. q.bundle = s.proc[id].bundle /\ q.hosted = s.proc[id].hosted /\ q.phase = s.proc[id].phase
    BY <2>1 DEF IsProcess
  <2>3. u.proc = [r.proc EXCEPT ![id] = q] /\ id \in DOMAIN r.proc /\ id \notin LiveIn(r)
    BY <1>2, <1>4 DEF WithRecipient
  <2>. HIDE DEF q
  <2>4. Turns(r, id, q, u)
    BY <2>2, <2>3 DEF Turns
  <2>5. Table(u, e)
    BY <1>3, <2>4, ProcTable
  <2>6. id \notin LiveIn(u)
    BY <1>4, <2>2, <2>3 DEF LiveIn
  <2>. QED
    BY <1>3, <2>5, <2>6
<1>5. CASE id \notin DOMAIN s.proc
  <2>1. Thins(r, u)
    BY <1>1, <1>5 DEF Thins, WithRecipient
  <2>2. id \notin LiveIn(u)
    BY <1>5 DEF LiveIn, WithRecipient
  <2>. QED
    BY <1>3, <2>1, <2>2, ThinsKeeps
<1>. QED
  BY <1>4, <1>5

\* The attach of a live process: it is sent init, or it is sent exit and leaves
\* the table.
LEMMA LiveAttachTable ==
    ASSUME NEW s, SInv(s), NEW e, Table(s, e), NEW id \in DOMAIN s.app, id \in LiveIn(s),
           NEW r, NEW u, Attaching(s, id, r, u),
           NEW m \in Message, m.type \in {"init", "exit"},
           NEW z, Thins(Send(u, id, m), z), m.type = "exit" => id \notin DOMAIN z.app
    PROVE  Table(z, e)
<1>0. /\ Shaped(u) /\ u.rec = s.rec /\ u.lastToken = s.lastToken
      /\ DOMAIN u.app = DOMAIN s.app /\ u.app[id].attached = TRUE
      /\ \A i \in DOMAIN s.app : /\ u.app[i].bundle = s.app[i].bundle
                                 /\ i # id => u.app[i].attached = s.app[i].attached
      /\ u.proc = [s.proc EXCEPT ![id] = [s.proc[id] EXCEPT !.watched = TRUE]]
  BY SInvShaped DEF Attaching, WithRecipient, LiveIn
<1>. DEFINE w == [s.proc[id] EXCEPT !.watched = TRUE]
            q == [w EXCEPT !.inbox = Append(w.inbox, m)]
            v == Send(u, id, m)
<1>1. u.proc = [s.proc EXCEPT ![id] = w] /\ id \in DOMAIN s.proc /\ Shaped(s)
  BY <1>0, SInvShaped DEF LiveIn
<1>2. IsProcess(s.proc[id])
  BY <1>1 DEF Shaped
<1>3. /\ w.bundle = s.proc[id].bundle /\ w.hosted = s.proc[id].hosted
      /\ w.phase = s.proc[id].phase /\ w.inbox = s.proc[id].inbox
      /\ w.inited = s.proc[id].inited /\ IsProcess(w)
  BY <1>2 DEF IsProcess
<1>. HIDE DEF w
<1>4. /\ q.inbox = Append(s.proc[id].inbox, m) /\ q.inited = s.proc[id].inited
      /\ q.bundle = s.proc[id].bundle /\ q.hosted = s.proc[id].hosted
      /\ q.phase = s.proc[id].phase
  BY <1>3 DEF IsProcess
<1>5. id \in LiveIn(u) /\ u.proc[id] = w
  BY <1>1, <1>3 DEF LiveIn
<1>6. /\ v.rec = u.rec /\ v.app = u.app /\ v.lastToken = u.lastToken
      /\ v.proc = [u.proc EXCEPT ![id] = q]
  <2>1. u.app[id].attached
    BY <1>0, <1>1
  <2>. QED
    BY <1>0, <1>1, <1>5, <2>1, SendFields
<1>. HIDE DEF q, v
<1>7. v.proc = [s.proc EXCEPT ![id] = q]
  BY <1>1, <1>6
<1>8. Ordered(s.proc[id]) /\ ~Told(s.proc[id])
  BY DEF Table, InboxesOrdered, Expected
<1>9. /\ Ordered(q) /\ q.inbox # <<>> /\ \A t : InTransit(q, t) => InTransit(s.proc[id], t)
      /\ Told(q) <=> m.type = "exit"
  BY <1>2, <1>4, <1>8, Appended
<1>10. /\ z.proc = v.proc /\ z.lastToken = v.lastToken
       /\ DOMAIN z.rec \subseteq DOMAIN v.rec
       /\ \A t \in DOMAIN z.rec : z.rec[t].app = v.rec[t].app /\ z.rec[t].state = v.rec[t].state
       /\ DOMAIN z.app \subseteq DOMAIN v.app
       /\ \A i \in DOMAIN z.app :
             z.app[i].bundle = v.app[i].bundle /\ z.app[i].attached = v.app[i].attached
  BY DEF Thins, v
<1>11. id \in DOMAIN z.app => Expected(q, z.app[id].attached)
  <2>1. SUFFICES ASSUME id \in DOMAIN z.app PROVE Expected(q, z.app[id].attached)
    OBVIOUS
  <2>2. z.app[id].attached = TRUE
    BY <1>0, <1>6, <1>10, <2>1
  <2>3. ~Told(q)
    BY <1>9, <2>1
  <2>. QED
    BY <1>9, <2>2, <2>3 DEF Expected
<1>12. /\ DOMAIN z.rec \subseteq DOMAIN s.rec
       /\ \A t \in DOMAIN z.rec : z.rec[t].app = s.rec[t].app /\ z.rec[t].state = s.rec[t].state
       /\ DOMAIN z.app \subseteq DOMAIN s.app
       /\ \A i \in DOMAIN z.app : /\ z.app[i].bundle = s.app[i].bundle
                                  /\ i # id => z.app[i].attached = s.app[i].attached
       /\ z.proc = [s.proc EXCEPT ![id] = q] /\ z.lastToken = s.lastToken
  BY <1>0, <1>1, <1>6, <1>7, <1>10
<1>13. Turns(s, id, q, z)
  BY <1>1, <1>4, <1>9, <1>11, <1>12 DEF Turns
<1>. QED
  BY <1>13, ProcTable

-----------------------------------------------------------------------------
(* The calls a task is made of.                                            *)

LEMMA LifecycleTable ==
    ASSUME NEW s, SInv(s), NEW e, Table(s, e), NEW t \in DOMAIN s.rec,
           NEW r \in {ActiveAbility(s, t), InactiveAbility(s, t),
                      ToBackgroundAbility(s, t), StopAbility(s, t)}
    PROVE  Table(r, e)
<1>1. ASSUME NEW permitted, NEW state \in AppState
      PROVE  Table(TransactIf(s, t, permitted, state), e)
  <2>. DEFINE m  == [type |-> "transact", token |-> t,
                     ability |-> s.rec[t].ability, state |-> state]
              id == s.rec[t].app
  <2>1. m \in Message /\ m.type = "transact" /\ m.token = t
    BY DEF SInv, StateTyped, TokenMap, RecordType, Message
  <2>2. Transact(s, t, state) = CallApp(s, t, m)
    BY DEF Transact
  <2>. HIDE DEF m
  <2>3. Table(CallApp(s, t, m), e)
    <3>1. CASE id # 0 /\ id \in DOMAIN s.app
      <4>1. CallApp(s, t, m) = Send(s, id, m)
        BY <3>1 DEF CallApp
      <4>. QED
        BY <2>1, <3>1, <4>1, TransactTable
    <3>2. CASE ~(id # 0 /\ id \in DOMAIN s.app)
      <4>1. CallApp(s, t, m) \in {[s EXCEPT !.status = "transact"],
                                  [s EXCEPT !.dangling = TRUE, !.status = "transact"]}
        BY <3>2 DEF CallApp, SInv, StateTyped, TokenMap, Token
      <4>2. Thins(s, [s EXCEPT !.status = "transact"])
        BY SInvShaped, OtherFieldsThin
      <4>3. Thins(s, [s EXCEPT !.dangling = TRUE, !.status = "transact"])
        BY SInvShaped, OtherFieldsThin
      <4>. QED
        BY <4>1, <4>2, <4>3, ThinsKeeps
    <3>. QED
      BY <3>1, <3>2
  <2>4. Thins(s, [s EXCEPT !.status = "error"])
    BY SInvShaped, OtherFieldsThin
  <2>. QED
    BY <2>2, <2>3, <2>4, ThinsKeeps DEF TransactIf
<1>. QED
  BY <1>1 DEF ActiveAbility, InactiveAbility, ToBackgroundAbility, StopAbility, AppState

\* PageAbilityRecord::StartAbility
LEMMA StartPageTable ==
    ASSUME NEW s, SInv(s), NEW e, Table(s, e), NEW t \in DOMAIN s.rec, NEW fails
    PROVE  Table(StartPage(s, t, fails), e)
<1>. DEFINE b  == BundleOfPage(s, t)
            s1 == IF AppOf(s, b) = 0 THEN StartAppProcess(s, b, fails)
                                     ELSE [s EXCEPT !.status = "ok"]
            id == AppOf(s1, b)
<1>1. CASE s.rec[t].app # 0
  <2>1. StartPage(s, t, fails) = ActiveAbility(s, t)
    BY <1>1 DEF StartPage
  <2>. QED
    BY <2>1, LifecycleTable
<1>2. CASE s.rec[t].app = 0
  <2>1. b \in Bundle
    BY BundleAssumption DEF SInv, StateTyped, TokenMap, RecordType, BundleOfPage
  <2>2. SInv(s1) /\ s1.rec = s.rec
    BY <2>1, StartAppProcessQuiet, StatusQuiet DEF Quiet
  <2>3. Table(s1, e)
    <3>1. CASE AppOf(s, b) = 0
      BY <2>1, <3>1, SpawnTable
    <3>2. CASE AppOf(s, b) # 0
      <4>1. Thins(s, [s EXCEPT !.status = "ok"])
        BY SInvShaped, OtherFieldsThin
      <4>. QED
        BY <3>2, <4>1, ThinsKeeps
    <3>. QED
      BY <3>1, <3>2
  <2>4. StartPage(s, t, fails) =
           IF id = 0 THEN s1 ELSE [s1 EXCEPT !.rec[t].app = id, !.app[id].pending = t]
    BY <1>2 DEF StartPage
  <2>. HIDE DEF s1
  <2>5. id # 0 => id \in DOMAIN s1.app
    BY AppOfListed
  <2>. HIDE DEF id
  <2>6. id # 0 => Table([s1 EXCEPT !.rec[t].app = id, !.app[id].pending = t], e)
    BY <1>2, <2>2, <2>3, <2>5, SlotTable
  <2>. QED
    BY <2>3, <2>4, <2>6
<1>. QED
  BY <1>1, <1>2

LEMMA RemovePageTable ==
    ASSUME NEW s, SInv(s), NEW e, Table(s, e), NEW t \in DOMAIN s.rec
    PROVE  Table(RemovePage(s, t), e)
BY RemovePageThins, ThinsKeeps

\* AbilityStackManager::GeneratePageAbility
LEMMA GeneratePageTable ==
    ASSUME NEW s, SInv(s), NEW e, Table(s, e), NEW a \in Ability, NEW top
    PROVE  Table(GeneratePage(s, a, top), e)
<1>. DEFINE b == BundleOf[a]
            s0 == PushPage(s, a)
<1>0. PICK z \in {s, s0} :
         \E x : GeneratePage(s, a, top) =
                   [MoveToTop(z, b) EXCEPT !.prevMission[b] = x, !.topStack = StackOf(b)]
  BY DEF GeneratePage
<1>1. PICK x : GeneratePage(s, a, top) =
                 [MoveToTop(z, b) EXCEPT !.prevMission[b] = x, !.topStack = StackOf(b)]
  BY <1>0
<1>2. Table(z, e) /\ Shaped(z)
  BY PushTable, SInvShaped
<1>3. Thins(z, MoveToTop(z, b))
  BY <1>2, MissionThins
<1>. DEFINE y == MoveToTop(z, b)
            r == [y EXCEPT !.prevMission[b] = x, !.topStack = StackOf(b)]
<1>4. Thins(y, r)
  <2>1. Shaped(y) /\ DOMAIN y = Fields
    BY <1>3 DEF Thins, Shaped
  <2>. HIDE DEF y
  <2>2. /\ DOMAIN r = Fields /\ r.rec = y.rec /\ r.app = y.app
        /\ r.proc = y.proc /\ r.lastToken = y.lastToken
    BY <2>1 DEF Fields
  <2>. QED
    BY <2>1, <2>2, FieldThins
<1>. HIDE DEF y
<1>. QED
  BY <1>1, <1>2, <1>3, <1>4, ThinsKeeps DEF y

-----------------------------------------------------------------------------
(* AbilityStartTask.                                                       *)

LEMMA StartAfterTable ==
    ASSUME NEW s, SInv(s), NEW e, Table(s, e),
           NEW top \in DOMAIN s.rec, NEW target \in DOMAIN s.rec
    PROVE  Table(StartAfter(s, top, target), e)
<1>. DEFINE s1 == InactiveAbility(s, top)
            s2 == [s1 EXCEPT !.rec[top].next = target]
            s3 == [s2 EXCEPT !.rec[target].prev = top]
<1>1. StartAfter(s, top, target) = IF s1.status = "ok" THEN s3 ELSE RemovePage(s1, target)
  BY DEF StartAfter
<1>2. SInv(s1) /\ Table(s1, e) /\ s1.rec = s.rec
  BY LifecycleQuiet, LifecycleTable DEF Quiet
<1>. HIDE DEF s1
<1>3. top \in Nat /\ target \in Nat
  BY DEF SInv, StateTyped, TokenMap, Token
<1>4. SInv(s2) /\ target \in DOMAIN s2.rec
  <2>1. Quiet(s1, s2)
    BY <1>2, <1>3, RecordFieldQuiet DEF RecordState, AppState
  <2>. QED
    BY <1>2, <2>1 DEF Quiet, SameStack
<1>5. Table(s2, e)
  BY <1>2, <1>3, SInvShaped, LinkThins, ThinsKeeps
<1>. HIDE DEF s2
<1>6. Table(s3, e)
  BY <1>3, <1>4, <1>5, SInvShaped, LinkThins, ThinsKeeps
<1>. HIDE DEF s3
<1>. QED
  BY <1>1, <1>2, <1>6, RemovePageTable

LEMMA StartFirstTable ==
    ASSUME NEW s, SInv(s), NEW e, Table(s, e), NEW target \in DOMAIN s.rec, NEW fails
    PROVE  Table(StartFirst(s, target, fails), e)
<1>. DEFINE s1 == StartPage(s, target, fails)
<1>1. SInv(s1) /\ target \in DOMAIN s1.rec /\ Table(s1, e)
  BY StartPageQuiet, StartPageTable DEF Quiet, SameStack
<1>2. StartFirst(s, target, fails) =
         IF s1.status \in {"process", "transact"} THEN RemovePage(s1, target) ELSE s1
  BY DEF StartFirst
<1>. HIDE DEF s1
<1>. QED
  BY <1>1, <1>2, RemovePageTable

LEMMA StatusTable ==
    ASSUME NEW s, Shaped(s), NEW e, Table(s, e), NEW x
    PROVE  /\ Table([s EXCEPT !.status = x], e)
           /\ Table([s EXCEPT !.dangling = TRUE], e)
           /\ Table(Fail(s), e) /\ Table(Succeed(s), e)
BY OtherFieldsThin, ThinsKeeps DEF Fail, Succeed

LEMMA StartTaskTable ==
    ASSUME NEW s, SInv(s), NEW e, Table(s, e), NEW a \in Ability, NEW fails
    PROVE  Table(StartTask(s, a, fails), e)
<1>. DEFINE top    == TopPage(s)
            s1     == GeneratePage(s, a, top)
            target == Last(s1.pages[BundleOf[a]])
<1>1. top \in DOMAIN s.rec \cup {0}
  BY TopPageListed
<1>2. StartTask(s, a, fails) = CASE target = top             -> Fail(s1)
                                 [] target # top /\ top # 0  -> StartAfter(s1, top, target)
                                 [] OTHER                    -> StartFirst(s1, target, fails)
  BY DEF StartTask
<1>. HIDE DEF top
<1>3. /\ SInv(s1) /\ target \in DOMAIN s1.rec
      /\ top \in DOMAIN s1.rec \cup {0}
  BY <1>1, GeneratePageKeeps
<1>4. Table(s1, e)
  BY GeneratePageTable
<1>. HIDE DEF target, s1
<1>5. CASE target = top
  BY <1>2, <1>3, <1>4, <1>5, StatusTable, SInvShaped
<1>6. CASE target # top /\ top # 0
  BY <1>2, <1>3, <1>4, <1>6, StartAfterTable
<1>7. CASE target # top /\ top = 0
  BY <1>2, <1>3, <1>4, <1>7, StartFirstTable
<1>. QED
  BY <1>5, <1>6, <1>7

LEMMA StartLauncherTable ==
    ASSUME NEW s, SInv(s), NEW e, Table(s, e), NEW fails
    PROVE  Table(StartLauncher(s, fails), e)
BY StartTaskTable, MainAbilities, BundleAssumption DEF StartLauncher

-----------------------------------------------------------------------------
(* AbilityActivateTask, AbilityInactivateTask, AbilityBackgroundTask and   *)
(* AbilityStopTask.                                                        *)

\* f is e with the answer that page t is in state x before all the others.
Answered(f, e, t, x) ==
    /\ e.lost = f.lost /\ e.whole = f.whole
    /\ DOMAIN f.said = DOMAIN e.said \cup {t}
    /\ \A u \in DOMAIN e.said : f.said[u] = e.said[u]
    /\ t \notin DOMAIN e.said => f.said[t] = x

LEMMA AnswerAbout ==
    ASSUME NEW s, NEW f, Table(s, f), NEW t, NEW x, NEW e, Answered(f, e, t, x),
           NEW r, r.proc = s.proc, r.app = s.app, r.lastToken = s.lastToken,
           DOMAIN r.rec = DOMAIN s.rec,
           \A u \in DOMAIN s.rec : /\ r.rec[u].app = s.rec[u].app
                                   /\ r.rec[u].state = IF u = t THEN x ELSE s.rec[u].state
    PROVE  Table(r, e)
<1>. USE DEF Answered
<1>1. LiveIn(r) = LiveIn(s)
  BY DEF LiveIn
<1>2. Drawn(r, e) /\ OneApp(r, e) /\ InboxesOrdered(r) /\ Owned(r)
  BY <1>1 DEF Table, Drawn, OneApp, InboxesOrdered, Owned
<1>3. \A u \in DOMAIN s.rec : Said(r, e, u) = Said(s, f, u)
  BY DEF Said
<1>4. Tracked(r, e)
  BY <1>1, <1>3 DEF Table, Tracked
<1>. QED
  BY <1>2, <1>4 DEF Table

\* An answer about a page that is gone.
LEMMA LateAnswerTable ==
    ASSUME NEW s, NEW f, Table(s, f), NEW t, t \notin DOMAIN s.rec, NEW x, NEW e,
           Answered(f, e, t, x)
    PROVE  Table(s, e)
BY AnswerAbout

\* The record of the page takes the state of the answer.
LEMMA AnswerTable ==
    ASSUME NEW s, SInv(s), NEW f, Table(s, f), NEW t \in DOMAIN s.rec, NEW x, NEW e,
           Answered(f, e, t, x)
    PROVE  Table([s EXCEPT !.rec[t].state = x, !.status = "ok"], e)
<1>. DEFINE r == [s EXCEPT !.rec[t].state = x, !.status = "ok"]
            y == [s.rec[t] EXCEPT !.state = x]
<1>1. DOMAIN s = Fields /\ s.rec[t] \in RecordType
  BY DEF SInv, StateTyped, TokenMap
<1>2. /\ r.proc = s.proc /\ r.app = s.app /\ r.lastToken = s.lastToken
      /\ r.rec = [s.rec EXCEPT ![t] = y]
  BY <1>1 DEF Fields
<1>3. y.app = s.rec[t].app /\ y.state = x
  BY <1>1 DEF RecordType
<1>. HIDE DEF r, y
<1>4. /\ DOMAIN r.rec = DOMAIN s.rec
      /\ \A u \in DOMAIN s.rec : /\ r.rec[u].app = s.rec[u].app
                                 /\ r.rec[u].state = IF u = t THEN x ELSE s.rec[u].state
  BY <1>2, <1>3
<1>5. Table(r, e)
  BY <1>2, <1>4, AnswerAbout
<1>. QED
  BY <1>5 DEF r

LEMMA StartNextTable ==
    ASSUME NEW s, SInv(s), NEW e, Table(s, e), NEW t \in DOMAIN s.rec, NEW fails
    PROVE  Table(StartNext(s, t, fails), e)
<1>. DEFINE next == s.rec[t].next
            s1   == StartPage(s, next, fails)
            s2   == [s1 EXCEPT !.rec[t].next = 0]
<1>1. StartNext(s, t, fails) =
         IF next \in DOMAIN s.rec THEN s2 ELSE [s EXCEPT !.dangling = TRUE]
  BY DEF StartNext, Found
<1>2. CASE next \in DOMAIN s.rec
  <2>1. SInv(s1) /\ t \in DOMAIN s1.rec /\ Table(s1, e)
    BY <1>2, StartPageQuiet, StartPageTable DEF Quiet, SameStack
  <2>. HIDE DEF s1
  <2>2. Thins(s1, s2)
    BY <2>1, SInvShaped, LinkThins
  <2>. QED
    BY <1>1, <1>2, <2>1, <2>2, ThinsKeeps
<1>3. CASE next \notin DOMAIN s.rec
  BY <1>1, <1>3, SInvShaped, StatusTable
<1>. QED
  BY <1>2, <1>3

LEMMA ReturnFromTable ==
    ASSUME NEW s, SInv(s), NEW e, Table(s, e), NEW t \in DOMAIN s.rec, NEW fails
    PROVE  Table(ReturnFrom(s, t, fails), e)
<1>. DEFINE prev == PrevPage(s, t)
            s1   == ActiveAbility(s, prev)
            s2   == [s1 EXCEPT !.rec[prev].next = t]
<1>1. ReturnFrom(s, t, fails) =
         IF prev # 0 THEN s2 ELSE StartLauncher(StopAbility(s, t), fails)
  BY DEF ReturnFrom
<1>2. prev \in DOMAIN s.rec \cup {0}
  BY PrevPageListed
<1>. HIDE DEF prev
<1>3. CASE prev # 0
  <2>1. SInv(s1) /\ prev \in DOMAIN s1.rec /\ Table(s1, e)
    BY <1>2, <1>3, LifecycleQuiet, LifecycleTable DEF Quiet
  <2>2. t \in Nat
    BY DEF SInv, StateTyped, TokenMap, Token
  <2>. HIDE DEF s1
  <2>3. Thins(s1, s2)
    BY <2>1, <2>2, SInvShaped, LinkThins
  <2>. QED
    BY <1>1, <1>3, <2>1, <2>3, ThinsKeeps
<1>4. CASE prev = 0
  <2>1. SInv(StopAbility(s, t)) /\ Table(StopAbility(s, t), e)
    BY LifecycleQuiet, LifecycleTable DEF Quiet
  <2>. QED
    BY <1>1, <1>4, <2>1, StartLauncherTable
<1>. QED
  BY <1>3, <1>4

LEMMA InactivateTaskTable ==
    ASSUME NEW s, SInv(s), NEW f, Table(s, f), NEW t, NEW e, Answered(f, e, t, "INACTIVE"),
           NEW fails
    PROVE  Table(InactivateTask(s, t, fails), e)
<1>. DEFINE s1 == [s EXCEPT !.rec[t].state = "INACTIVE", !.status = "ok"]
<1>1. InactivateTask(s, t, fails) = IF t \notin DOMAIN s.rec THEN Fail(s)
                                    ELSE IF s1.rec[t].next # 0 THEN StartNext(s1, t, fails)
                                    ELSE ReturnFrom(s1, t, fails)
  BY DEF InactivateTask, Found
<1>2. CASE t \in DOMAIN s.rec
  <2>1. SInv(s1) /\ t \in DOMAIN s1.rec /\ Table(s1, e)
    BY <1>2, ReportedQuiet, AnswerTable DEF RecordState, AppState
  <2>. HIDE DEF s1
  <2>. QED
    BY <1>1, <1>2, <2>1, StartNextTable, ReturnFromTable
<1>3. CASE t \notin DOMAIN s.rec
  BY <1>1, <1>3, LateAnswerTable, SInvShaped, StatusTable
<1>. QED
  BY <1>2, <1>3

LEMMA ActivateTaskTable ==
    ASSUME NEW s, SInv(s), NEW f, Table(s, f), NEW t, NEW e, Answered(f, e, t, "ACTIVE")
    PROVE  Table(ActivateTask(s, t), e)
<1>. DEFINE s1   == [s EXCEPT !.rec[t].state = "ACTIVE", !.status = "ok"]
            prev == s.rec[t].prev
            next == s.rec[t].next
            back == [ToBackgroundAbility(s1, prev) EXCEPT !.rec[t].prev = 0]
            stop == [StopAbility(s1, next) EXCEPT !.rec[t].next = 0]
            bad  == [s1 EXCEPT !.dangling = TRUE]
<1>1. CASE t \notin DOMAIN s.rec
  <2>1. ActivateTask(s, t) = Fail(s)
    BY <1>1 DEF ActivateTask, Found
  <2>. QED
    BY <1>1, <2>1, LateAnswerTable, SInvShaped, StatusTable
<1>2. CASE t \in DOMAIN s.rec
  <2>1. ActivateTask(s, t) \in
           {s1, bad} \cup (IF prev \in DOMAIN s.rec THEN {back} ELSE {})
                     \cup (IF next \in DOMAIN s.rec THEN {stop} ELSE {})
    BY <1>2 DEF ActivateTask, Found
  <2>2. SInv(s1) /\ DOMAIN s1.rec = DOMAIN s.rec /\ Table(s1, e)
    BY <1>2, ReportedQuiet, AnswerTable DEF RecordState, AppState
  <2>. HIDE DEF s1, prev, next
  <2>3. Table(bad, e)
    BY <2>2, SInvShaped, StatusTable
  <2>4. ASSUME prev \in DOMAIN s.rec PROVE Table(back, e)
    <3>. DEFINE s2 == ToBackgroundAbility(s1, prev)
    <3>1. SInv(s2) /\ t \in DOMAIN s2.rec /\ Table(s2, e)
      BY <1>2, <2>2, <2>4, LifecycleQuiet, LifecycleTable DEF Quiet
    <3>. HIDE DEF s2
    <3>2. Thins(s2, [s2 EXCEPT !.rec[t].prev = 0])
      BY <3>1, SInvShaped, LinkThins
    <3>. QED
      BY <3>1, <3>2, ThinsKeeps DEF s2
  <2>5. ASSUME next \in DOMAIN s.rec PROVE Table(stop, e)
    <3>. DEFINE s2 == StopAbility(s1, next)
    <3>1. SInv(s2) /\ t \in DOMAIN s2.rec /\ Table(s2, e)
      BY <1>2, <2>2, <2>5, LifecycleQuiet, LifecycleTable DEF Quiet
    <3>. HIDE DEF s2
    <3>2. Thins(s2, [s2 EXCEPT !.rec[t].next = 0])
      BY <3>1, SInvShaped, LinkThins
    <3>. QED
      BY <3>1, <3>2, ThinsKeeps DEF s2
  <2>. HIDE DEF back, stop, bad
  <2>. QED
    BY <2>1, <2>2, <2>3, <2>4, <2>5
<1>. QED
  BY <1>1, <1>2

LEMMA BackgroundTaskTable ==
    ASSUME NEW s, SInv(s), NEW f, Table(s, f), NEW t, NEW e, Answered(f, e, t, "BACKGROUND")
    PROVE  Table(BackgroundTask(s, t), e)
<1>1. CASE t \in DOMAIN s.rec
  BY <1>1, AnswerTable DEF BackgroundTask, Found
<1>2. CASE t \notin DOMAIN s.rec
  BY <1>2, LateAnswerTable, SInvShaped, StatusTable DEF BackgroundTask, Found
<1>. QED
  BY <1>1, <1>2

\* A call that fails changes nothing but what is said of it.
LEMMA RefusedThins ==
    ASSUME NEW s, Shaped(s), NEW t, NEW m, NEW id, NEW r, r.status # "ok",
           r = CallApp(s, t, m) \/ r = Send(s, id, m)
    PROVE  Thins(s, r)
<1>1. ASSUME NEW i PROVE Send(s, i, m).status = "ok" \/ Thins(s, Send(s, i, m))
  <2>1. [s EXCEPT !.proc[i].inbox = Append(@, m), !.status = "ok"].status = "ok"
    BY DEF Shaped, Fields
  <2>2. Thins(s, [s EXCEPT !.status = "transact"])
    BY OtherFieldsThin
  <2>. QED
    BY <2>1, <2>2 DEF Send
<1>2. Thins(s, [s EXCEPT !.status = "transact"])
  BY OtherFieldsThin
<1>3. Thins(s, [s EXCEPT !.dangling = TRUE, !.status = "transact"])
  BY OtherFieldsThin
<1>. QED
  BY <1>1, <1>2, <1>3 DEF CallApp

LEMMA StopTaskTable ==
    ASSUME NEW s, SInv(s), NEW f, Table(s, f), NEW t, NEW e, Answered(f, e, t, "INITIAL")
    PROVE  Table(StopTask(s, t), e)
<1>. DEFINE s1 == [s EXCEPT !.rec[t].state = "INITIAL", !.status = "ok"]
            s2 == IF Head(s.pages[BundleOfPage(s, t)]) = t THEN ExitApp(s1, t) ELSE s1
<1>1. StopTask(s, t) = IF t \in DOMAIN s.rec THEN RemovePage(s2, t) ELSE Fail(s)
  BY DEF StopTask, Found
<1>2. CASE t \in DOMAIN s.rec
  <2>1. SInv(s1) /\ t \in DOMAIN s1.rec /\ Table(s1, e)
    BY <1>2, ReportedQuiet, AnswerTable DEF RecordState, AppState
  <2>2. s2 = s1 \/ s2 = ExitApp(s1, t)
    OBVIOUS
  <2>. HIDE DEF s1
  <2>3. SInv(s2) /\ t \in DOMAIN s2.rec
    BY <2>1, ExitAppQuiet DEF Quiet, SameStack
  <2>. HIDE DEF s2
  <2>. DEFINE id == s1.rec[t].app
              m  == [type |-> "exit"]
              c  == CallApp(s1, t, m)
              d  == [RemoveAppRecord(c, id) EXCEPT !.rec[t].app = 0]
              r  == RemovePage(s2, t)
  <2>4. ExitApp(s1, t) = IF c.status = "ok" THEN d ELSE c
    BY DEF ExitApp
  <2>5. Thins(s2, r) /\ t \notin DOMAIN r.rec
    BY <2>3, RemovePageThins
  <2>6. CASE s2 = s1
    BY <1>1, <1>2, <2>1, <2>3, <2>6, RemovePageTable
  <2>7. CASE s2 = c /\ c.status # "ok"
    <3>1. Thins(s1, s2)
      BY <2>1, <2>7, RefusedThins, SInvShaped
    <3>2. Table(s2, e)
      BY <2>1, <3>1, ThinsKeeps
    <3>. QED
      BY <1>1, <1>2, <2>3, <3>2, RemovePageTable
  <2>8. CASE s2 = d /\ c.status = "ok"
    <3>1. m \in Message
      BY DEF Message
    <3>2. id \in DOMAIN s1.app /\ SInv(c) /\ id # 0
      BY <2>1, <2>8, <3>1, CallAppQuiet DEF Quiet, SInv, StateTyped, TokenMap, Token
    <3>3. c = Send(s1, id, m)
      BY <3>2 DEF CallApp
    <3>. HIDE DEF c
    <3>4. DOMAIN c = Fields
      BY <3>2 DEF SInv
    <3>5. /\ d.proc = c.proc /\ d.lastToken = c.lastToken /\ d.app = Drop(c.app, {id})
          /\ d.rec = [c.rec EXCEPT ![t].app = 0]
      BY <3>4 DEF Fields, RemoveApps, RemoveAppRecord
    <3>. HIDE DEF d, r
    <3>6. DOMAIN d.rec = DOMAIN c.rec /\ \A u \in DOMAIN d.rec : u # t => d.rec[u] = c.rec[u]
      BY <3>5
    <3>7. /\ DOMAIN d.app = DOMAIN c.app \ {id}
          /\ \A i \in DOMAIN d.app : d.app[i] = c.app[i]
      BY <3>5 DEF Drop
    <3>8. Thins(c, r) /\ id \notin DOMAIN r.app
      BY <2>5, <2>8, <3>5, <3>6, <3>7 DEF Thins
    <3>9. Table(r, e)
      BY <2>1, <3>2, <3>3, <3>8, ExitTable
    <3>. QED
      BY <1>1, <1>2, <3>9 DEF r
  <2>. QED
    BY <2>2, <2>4, <2>6, <2>7, <2>8
<1>3. CASE t \notin DOMAIN s.rec
  BY <1>1, <1>3, LateAnswerTable, SInvShaped, StatusTable
<1>. QED
  BY <1>2, <1>3

LEMMA AbilityTransactionTable ==
    ASSUME NEW s, SInv(s), NEW f, Table(s, f), NEW t, NEW state \in AppState,
           NEW e, Answered(f, e, t, state), NEW fails
    PROVE  Table(AbilityTransaction(s, t, state, fails), e)
<1>1. CASE state = "BACKGROUND"
  BY <1>1, BackgroundTaskTable DEF AbilityTransaction
<1>2. CASE state = "INACTIVE"
  BY <1>2, InactivateTaskTable DEF AbilityTransaction
<1>3. CASE state = "ACTIVE"
  BY <1>3, ActivateTaskTable DEF AbilityTransaction
<1>4. CASE state = "INITIAL"
  BY <1>4, StopTaskTable DEF AbilityTransaction
<1>. QED
  BY <1>1, <1>2, <1>3, <1>4 DEF AppState

-----------------------------------------------------------------------------
(* The other requests.                                                     *)

LEMMA TerminateTaskTable ==
    ASSUME NEW s, SInv(s), NEW e, Table(s, e), NEW t
    PROVE  Table(TerminateTask(s, t), e)
<1>1. CASE t \in DOMAIN s.rec
  BY <1>1, LifecycleTable DEF TerminateTask, Found
<1>2. CASE t \notin DOMAIN s.rec
  BY <1>2, SInvShaped, StatusTable DEF TerminateTask, Found
<1>. QED
  BY <1>1, <1>2

LEMMA LaunchPendingTable ==
    ASSUME NEW s, SInv(s), NEW e, Table(s, e), NEW id \in DOMAIN s.app
    PROVE  Table(LaunchPending(s, id), e)
<1>. DEFINE t  == s.app[id].pending
            s1 == ActiveAbility(s, t)
            s2 == [s1 EXCEPT !.app[id].pending = 0]
<1>1. LaunchPending(s, id) = IF t = 0 THEN Fail(s) ELSE s2
  BY DEF LaunchPending
<1>2. CASE t = 0
  BY <1>1, <1>2, SInvShaped, StatusTable
<1>3. CASE t # 0
  <2>1. t \in DOMAIN s.rec
    BY <1>3 DEF SInv, PendingListed
  <2>. HIDE DEF t
  <2>2. SInv(s1) /\ id \in DOMAIN s1.app /\ Table(s1, e)
    BY <2>1, LifecycleQuiet, LifecycleTable DEF Quiet
  <2>. HIDE DEF s1
  <2>3. Thins(s1, s2)
    BY <2>2, SInvShaped, SlotThins
  <2>. QED
    BY <1>1, <1>3, <2>2, <2>3, ThinsKeeps
<1>. QED
  BY <1>2, <1>3

\* The registration of a death recipient does not fail for a live process.
LEMMA AttachTaskTable ==
    ASSUME NEW s, SInv(s), NEW e, Table(s, e), NEW id, NEW watch, NEW permit,
           watch \/ id \notin LiveIn(s)
    PROVE  Table(AttachTask(s, id, watch, permit), e)
<1>. DEFINE s1 == [s EXCEPT !.app[id].attached = TRUE]
            s2 == [s1 EXCEPT !.proc = IF id \in DOMAIN @ THEN [@ EXCEPT ![id].watched = TRUE]
                                                         ELSE @]
            init == [type |-> "init"]
            exit == [type |-> "exit"]
            s3 == Send(s2, id, init)
            s4 == Send(s2, id, exit)
            s5 == RemoveAppRecord(s4, id)
<1>1. CASE id \notin DOMAIN s.app
  <2>1. AttachTask(s, id, watch, permit) = Fail(s)
    BY <1>1 DEF AttachTask
  <2>. QED
    BY <2>1, SInvShaped, StatusTable
<1>2. CASE id \in DOMAIN s.app
  <2>1. \/ ~watch /\ AttachTask(s, id, watch, permit) = [s1 EXCEPT !.status = "transact"]
        \/ watch /\ AttachTask(s, id, watch, permit) \in {Fail(s5), s3, LaunchPending(s3, id)}
    BY <1>2 DEF AttachTask
  <2>2. init \in Message /\ exit \in Message /\ init.type = "init" /\ exit.type = "exit"
    BY DEF Message
  <2>3. Attaching(s, id, s1, s2)
    <3>1. s1 = Attached(s, id) /\ s2 = Watched(s1, id)
      BY DEF Attached, Watched
    <3>. HIDE DEF s1, s2, s3, s4, s5, init, exit
    <3>. QED
      BY <1>2, <3>1, AttachFields
  <2>. HIDE DEF s1, s2, init, exit
  <2>4. SInv(s3) /\ SInv(s4) /\ id \in DOMAIN s3.app
    BY <1>2, <2>2, <2>3, SendQuiet DEF Quiet, Attaching
  <2>5. Shaped(s2) /\ Shaped(s3) /\ Shaped(s4)
    BY <2>3, <2>4, SInvShaped DEF Attaching
  <2>6. Thins(s4, Fail(s5)) /\ id \notin DOMAIN Fail(s5).app
    <3>1. Thins(s4, s5) /\ id \notin DOMAIN s5.app
      BY <2>5, RemoveAppRecordThins
    <3>. HIDE DEF s5, s4
    <3>2. Thins(s5, Fail(s5))
      BY <3>1, ThinsShaped, OtherFieldsThin DEF Fail
    <3>3. Thins(s4, Fail(s5))
      BY <3>1, <3>2, ThinsTransitive
    <3>. QED
      BY <3>1, <3>2, <3>3 DEF Thins
  <2>7. CASE id \in LiveIn(s)
    <3>. HIDE DEF s3, s4, s5
    <3>1. ASSUME NEW m \in Message, m.type \in {"init", "exit"},
                 NEW z, Thins(Send(s2, id, m), z), m.type = "exit" => id \notin DOMAIN z.app
          PROVE  Table(z, e)
      BY <1>2, <2>3, <2>7, <3>1, LiveAttachTable
    <3>2. Table(Fail(s5), e)
      BY <2>2, <2>6, <3>1 DEF s4
    <3>3. Table(s3, e)
      BY <2>2, <2>5, <3>1, ThinsSelf DEF s3
    <3>. QED
      BY <2>1, <2>4, <2>7, <3>2, <3>3, LaunchPendingTable
  <2>8. CASE id \notin LiveIn(s)
    <3>1. Table(s1, e) /\ Table(s2, e) /\ id \notin LiveIn(s2)
      BY <1>2, <2>3, <2>8, DeadAttachTable
    <3>2. Thins(s2, s3) /\ Thins(s2, s4)
      BY <2>5, <3>1, SendFields
    <3>. HIDE DEF s3, s4, s5
    <3>3. Table(s3, e) /\ Table(Fail(s5), e)
      BY <2>6, <3>1, <3>2, ThinsKeeps
    <3>4. Table([s1 EXCEPT !.status = "transact"], e)
      BY <2>3, <3>1, SInvShaped, StatusTable DEF Attaching
    <3>. QED
      BY <2>1, <2>4, <3>3, <3>4, LaunchPendingTable
  <2>. QED
    BY <2>7, <2>8
<1>. QED
  BY <1>1, <1>2

LEMMA ActivateTopTable ==
    ASSUME NEW s, SInv(s), NEW e, Table(s, e)
    PROVE  Table(ActivateTop(s), e)
<1>1. TopPage(s) \in DOMAIN s.rec \cup {0}
  BY TopPageListed
<1>. QED
  BY <1>1, LifecycleTable DEF ActivateTop

\* f is e with the death notification of b before the other requests.
Notified(f, e, b) ==
    /\ f.said = e.said /\ f.whole = e.whole
    /\ f.lost \subseteq e.lost \cup {b}

\* The notification of a bundle is not missed once its app records are gone.
LEMMA LostTable ==
    ASSUME NEW s, NEW f, Table(s, f), NEW b, NEW e, Notified(f, e, b),
           \A i \in DOMAIN s.app : s.app[i].bundle # b
    PROVE  Table(s, e)
BY DEF Notified, Table, Drawn, OneApp, Tracked, Said

LEMMA RestartAppTable ==
    ASSUME NEW s, SInv(s), NEW f, Table(s, f), NEW b \in Bundle, NEW e, Notified(f, e, b),
           NEW fails
    PROVE  Table(RestartApp(s, b, fails), e)
<1>. DEFINE s1 == ClearAbilityStack(s, b)
            s2 == RemoveApps(s1, AppsOf(s, b))
            s3 == RestartTask(s, b, fails)
<1>1. SInv(s1) /\ Thins(s, s1)
  BY ClearAbilityStackKeeps, ClearAbilityStackThins, SInvShaped
<1>2. s3 = IF TopPage(s2) = 0 THEN StartLauncher(s2, fails) ELSE ActivateTop(s2)
  BY DEF RestartTask
<1>. HIDE DEF s1, s3
<1>3. SInv(s2)
  BY <1>1, RemoveAppsQuiet DEF Quiet
<1>4. Thins(s, s2) /\ DOMAIN s2.app = DOMAIN s1.app \ AppsOf(s, b)
  BY <1>1, RemoveAppsThins, ThinsShaped, ThinsTransitive
<1>. HIDE DEF s2
<1>5. \A i \in DOMAIN s2.app : s2.app[i].bundle # b
  BY <1>1, <1>4 DEF Thins, AppsOf
<1>6. Table(s2, e)
  BY <1>4, <1>5, ThinsKeeps, LostTable
<1>7. SInv(s3) /\ Table(s3, e)
  BY <1>2, <1>3, <1>6, StartLauncherKeeps, ActivateTopKeeps, StartLauncherTable, ActivateTopTable
<1>8. RestartApp(s, b, fails) =
         IF b \in KeepAlive \ {Launcher} THEN StartTask(s3, MainAbility[b], fails) ELSE s3
  BY DEF RestartApp, s3
<1>. QED
  BY <1>7, <1>8, StartTaskTable, MainAbilities

LEMMA TerminateAppTable ==
    ASSUME NEW s, SInv(s), NEW e, Table(s, e), NEW b \in Bundle
    PROVE  Table(TerminateApp(s, b), e)
<1>. DEFINE id   == AppOf(s, b)
            exit == [type |-> "exit"]
            s1 == IF id = 0 THEN Succeed(s) ELSE Send(s, id, exit)
            s2 == ClearAbilityStack(s1, b)
            s3 == RemoveApps(s2, AppsOf(s, b))
<1>1. TerminateApp(s, b) = IF s1.status # "ok" THEN s1 ELSE ActivateTop(s3)
  BY DEF TerminateApp
<1>2. exit \in Message /\ Shaped(s)
  BY SInvShaped DEF Message
<1>3. SInv(s1)
  BY <1>2, FailQuiet, SendQuiet DEF Quiet
<1>4. id # 0 => id \in AppsOf(s, b) /\ id \in DOMAIN s.app
  BY DEF AppOf, AppsOf
<1>5. /\ id = 0 => Thins(s, s1)
      /\ id # 0 => s1 = Send(s, id, exit)
  BY <1>2, OtherFieldsThin DEF Succeed
<1>. HIDE DEF s1, id
<1>6. s1.status # "ok" => Thins(s, s1)
  BY <1>2, <1>5, RefusedThins
<1>7. SInv(s2) /\ Thins(s1, s2)
  BY <1>3, ClearAbilityStackKeeps, ClearAbilityStackThins, SInvShaped
<1>. HIDE DEF s2
<1>8. SInv(s3)
  BY <1>7, RemoveAppsQuiet DEF Quiet
<1>9. Thins(s1, s3) /\ DOMAIN s3.app = DOMAIN s2.app \ AppsOf(s, b)
  BY <1>7, RemoveAppsThins, ThinsShaped, ThinsTransitive
<1>. HIDE DEF s3
<1>10. Table(s3, e)
  <2>1. CASE id = 0
    BY <1>5, <1>9, <2>1, ThinsTransitive, ThinsKeeps
  <2>2. CASE id # 0
    BY <1>4, <1>5, <1>9, <2>2, ExitTable DEF exit
  <2>. QED
    BY <2>1, <2>2
<1>. QED
  BY <1>1, <1>6, <1>8, <1>10, ThinsKeeps, ActivateTopTable

-----------------------------------------------------------------------------
(* The steps of a process.                                                 *)

\* r is s with the process p become q.
Steps(s, p, q, r) ==
    /\ p \in DOMAIN s.proc
    /\ q.bundle = s.proc[p].bundle
    /\ r.proc = [s.proc EXCEPT ![p] = q]
    /\ r.rec = s.rec /\ r.app = s.app /\ r.lastToken = s.lastToken

\* More notifications on their way, or a request that was dropped, ask for less.
Wider(e, f) ==
    /\ e.lost \subseteq f.lost
    /\ f.said = e.said
    /\ f.whole => e.whole

LEMMA WiderTable ==
    ASSUME NEW s, NEW e, Table(s, e), NEW f, Wider(e, f)
    PROVE  Table(s, f)
BY DEF Wider, Table, Drawn, OneApp, Tracked, Said

\* ThreadMain: the process runs, and has no other message than before.
LEMMA RunTable ==
    ASSUME NEW s, SInv(s), NEW e, Table(s, e), NEW p, NEW q, NEW r, Steps(s, p, q, r),
           q.inbox = s.proc[p].inbox, q.inited = s.proc[p].inited,
           q.hosted = s.proc[p].hosted, q.phase = "dead" <=> s.proc[p].phase = "dead"
    PROVE  Table(r, e)
<1>1. p \in LiveIn(s) =>
         /\ Ordered(s.proc[p])
         /\ p \in DOMAIN s.app => Expected(s.proc[p], s.app[p].attached)
  BY DEF Table, InboxesOrdered
<1>2. p \in LiveIn(s) =>
         /\ Ordered(q)
         /\ p \in DOMAIN r.app => Expected(q, r.app[p].attached)
         /\ \A t : InTransit(q, t) => InTransit(s.proc[p], t)
  BY <1>1 DEF Steps, Ordered, Expected, Told, InTransit
<1>3. Turns(s, p, q, r)
  BY <1>2 DEF Steps, Turns
<1>. QED
  BY <1>3, ProcTable

\* What the taking of a message does to an inbox.
LEMMA Taken ==
    ASSUME NEW q, IsProcess(q), q.inbox # <<>>, NEW w, w.inbox = Tail(q.inbox)
    PROVE  /\ Told(w) => Told(q)
           /\ \A t : InTransit(w, t) => InTransit(q, t)
           /\ Ordered(q) /\ w.inited => Ordered(w)
           /\ Ordered(q) /\ q.inbox[1].type = "exit" => w.inbox = <<>>
<1>1. q.inbox \in Seq(Message) /\ Len(q.inbox) \in Nat /\ Len(q.inbox) > 0
  BY LenProperties, EmptySeq DEF IsProcess
<1>2. /\ Len(w.inbox) = Len(q.inbox) - 1
      /\ \A i \in 1..Len(w.inbox) : w.inbox[i] = q.inbox[i + 1] /\ i + 1 \in 1..Len(q.inbox)
  BY <1>1, HeadTailProperties
<1>3. Told(w) => Told(q)
  BY <1>2 DEF Told
<1>4. \A t : InTransit(w, t) => InTransit(q, t)
  BY <1>2 DEF InTransit
<1>5. Ordered(q) /\ w.inited => Ordered(w)
  BY <1>1, <1>2 DEF Ordered
<1>6. ASSUME Ordered(q), q.inbox[1].type = "exit" PROVE w.inbox = <<>>
  <2>1. Len(q.inbox) = 1
    <3>1. 1 \in 1..Len(q.inbox)
      BY <1>1
    <3>. QED
      BY <1>1, <1>6, <3>1 DEF Ordered
  <2>2. Len(w.inbox) = 0 /\ w.inbox \in Seq(Message)
    BY <1>1, <1>2, <2>1, HeadTailProperties
  <2>. QED
    BY <2>2, EmptySeq
<1>. QED
  BY <1>3, <1>4, <1>5, <1>6

\* PerformAppInit
LEMMA InitTable ==
    ASSUME NEW s, SInv(s), NEW e, Table(s, e), NEW p, NEW q, NEW r, Steps(s, p, q, r),
           s.proc[p].phase # "dead", s.proc[p].inbox # <<>>,
           q.inbox = Tail(s.proc[p].inbox), q.inited = TRUE,
           q.hosted = s.proc[p].hosted, q.phase = s.proc[p].phase
    PROVE  Table(r, e)
<1>1. p \in LiveIn(s) /\ IsProcess(s.proc[p])
  BY DEF Steps, LiveIn, SInv, StateTyped
<1>2. Ordered(s.proc[p]) /\ (p \in DOMAIN s.app => Expected(s.proc[p], s.app[p].attached))
  BY <1>1 DEF Table, InboxesOrdered
<1>3. /\ Told(q) => Told(s.proc[p])
      /\ \A t : InTransit(q, t) => InTransit(s.proc[p], t)
      /\ Ordered(q)
  BY <1>1, <1>2, Taken
<1>4. Turns(s, p, q, r)
  BY <1>2, <1>3 DEF Steps, Turns, Expected
<1>. QED
  BY <1>4, ProcTable

\* PerformAppExit: exit was the last message, and quit takes its place.
LEMMA QuitPostedTable ==
    ASSUME NEW s, SInv(s), NEW e, Table(s, e), NEW p, NEW q, NEW r, Steps(s, p, q, r),
           s.proc[p].phase # "dead", s.proc[p].inbox # <<>>,
           Head(s.proc[p].inbox).type = "exit",
           q.inbox = Append(Tail(s.proc[p].inbox), [type |-> "quit"]),
           q.inited = s.proc[p].inited,
           q.hosted = s.proc[p].hosted, q.phase = s.proc[p].phase
    PROVE  Table(r, e)
<1>1. p \in LiveIn(s) /\ IsProcess(s.proc[p])
  BY DEF Steps, LiveIn, SInv, StateTyped
<1>2. Ordered(s.proc[p]) /\ (p \in DOMAIN s.app => Expected(s.proc[p], s.app[p].attached))
  BY <1>1 DEF Table, InboxesOrdered
<1>3. s.proc[p].inbox \in Seq(Message) /\ s.proc[p].inbox[1].type = "exit"
  BY <1>1, HeadTailProperties DEF IsProcess
<1>4. Told(s.proc[p])
  <2>1. 1 \in 1..Len(s.proc[p].inbox)
    BY <1>3, EmptySeq, LenProperties
  <2>. QED
    BY <1>3, <2>1 DEF Told
<1>5. Tail(s.proc[p].inbox) = <<>>
  <2>. DEFINE w == [s.proc[p] EXCEPT !.inbox = Tail(s.proc[p].inbox)]
  <2>1. w.inbox = Tail(s.proc[p].inbox)
    BY <1>1 DEF IsProcess
  <2>. HIDE DEF w
  <2>. QED
    BY <1>1, <1>2, <1>3, <2>1, Taken
<1>6. Len(q.inbox) = 1 /\ q.inbox[1] = [type |-> "quit"]
  <2>. DEFINE m == [type |-> "quit"]
              h == Tail(s.proc[p].inbox)
  <2>0. m \in Message
    BY DEF Message
  <2>1. m \in Message /\ h \in Seq(Message) /\ Len(h) = 0
    <3>. HIDE DEF m, h
    <3>1. h = <<>>
      BY <1>5 DEF h
    <3>. QED
      BY <2>0, <3>1
  <2>2. q.inbox = Append(h, m)
    OBVIOUS
  <2>. HIDE DEF m, h
  <2>3. Len(q.inbox) = Len(h) + 1 /\ q.inbox[Len(h) + 1] = m
    BY <2>1, <2>2
  <2>. QED
    BY <2>1, <2>3 DEF m
<1>7. Ordered(q) /\ \A t : ~InTransit(q, t)
  BY <1>6 DEF Ordered, InTransit
<1>8. Turns(s, p, q, r)
  BY <1>2, <1>4, <1>7 DEF Steps, Turns, Expected
<1>. QED
  BY <1>8, ProcTable

\* A process that dies is not expected to follow anything.
LEMMA DeathTable ==
    ASSUME NEW s, NEW e, Table(s, e), NEW p, NEW q, NEW r, Steps(s, p, q, r),
           q.phase = "dead"
    PROVE  Table(r, e)
<1>. USE DEF Steps
<1>1. /\ DOMAIN r.proc = DOMAIN s.proc /\ r.proc[p] = q
      /\ \A x \in DOMAIN s.proc : x # p => r.proc[x] = s.proc[x]
  OBVIOUS
<1>2. LiveIn(r) \subseteq LiveIn(s) /\ \A x \in LiveIn(r) : r.proc[x] = s.proc[x]
  BY <1>1 DEF LiveIn
<1>3. Drawn(r, e) /\ OneApp(r, e)
  BY <1>1, <1>2 DEF Table, Drawn, OneApp
<1>4. InboxesOrdered(r) /\ Owned(r)
  BY <1>2 DEF Table, InboxesOrdered, Owned
<1>5. Tracked(r, e)
  BY <1>2 DEF Table, Tracked, Said
<1>. QED
  BY <1>3, <1>4, <1>5 DEF Table

\* A dead process is forgotten when its death notification is posted.
LEMMA ForgottenTable ==
    ASSUME NEW s, NEW e, Table(s, e), NEW p \in DOMAIN s.proc, s.proc[p].phase = "dead",
           NEW f, Wider(e, f), s.proc[p].bundle \in f.lost,
           NEW r, r.proc = Drop(s.proc, {p}),
           r.rec = s.rec, r.app = s.app, r.lastToken = s.lastToken
    PROVE  Table(r, f)
<1>1. /\ DOMAIN r.proc = DOMAIN s.proc \ {p}
      /\ \A x \in DOMAIN r.proc : r.proc[x] = s.proc[x]
  BY DEF Drop
<1>2. LiveIn(r) = LiveIn(s)
  BY <1>1 DEF LiveIn
<1>3. Table(s, f)
  BY WiderTable
<1>4. Drawn(r, f)
  BY <1>1, <1>2, <1>3 DEF Table, Drawn, LiveIn
<1>5. OneApp(r, f)
  BY <1>1, <1>3 DEF Table, OneApp
<1>6. InboxesOrdered(r) /\ Owned(r)
  BY <1>1, <1>2, <1>3 DEF Table, InboxesOrdered, Owned, LiveIn
<1>7. Tracked(r, f)
  BY <1>1, <1>2, <1>3 DEF Table, Tracked, Said, LiveIn
<1>. QED
  BY <1>4, <1>5, <1>6, <1>7 DEF Table

\* f is e with the answer that page t is in state x after all the others, or
\* without it when it was dropped.
Answers(e, f, t, x) ==
    \/ Wider(e, f) /\ ~f.whole
    \/ /\ f.lost = e.lost /\ f.whole = e.whole
       /\ DOMAIN f.said = DOMAIN e.said \cup {t} /\ f.said[t] = x
       /\ \A u \in DOMAIN e.said : u # t => f.said[u] = e.said[u]

\* PerformTransactAbilityState: what the process holds of page t and the answer
\* it posts agree.
LEMMA TransactionTable ==
    ASSUME NEW s, SInv(s), NEW e, Table(s, e), NEW p, NEW q, NEW r, Steps(s, p, q, r),
           s.proc[p].phase # "dead", s.proc[p].inbox # <<>>,
           NEW t \in Token, NEW x,
           Head(s.proc[p].inbox).type = "transact", Head(s.proc[p].inbox).token = t,
           q.inbox = Tail(s.proc[p].inbox), q.inited = s.proc[p].inited,
           q.hosted = IF x = "INITIAL" THEN Drop(s.proc[p].hosted, {t})
                                       ELSE With(s.proc[p].hosted, t, x),
           q.phase = s.proc[p].phase,
           NEW f, Answers(e, f, t, x)
    PROVE  Table(r, f)
<1>. USE DEF Steps
<1>1. p \in LiveIn(s) /\ IsProcess(s.proc[p]) /\ p \in Token
  BY DEF LiveIn, SInv, StateTyped
<1>2. Ordered(s.proc[p]) /\ (p \in DOMAIN s.app => Expected(s.proc[p], s.app[p].attached))
  BY <1>1 DEF Table, InboxesOrdered
<1>3. /\ s.proc[p].inbox \in Seq(Message) /\ 1 \in 1..Len(s.proc[p].inbox)
      /\ s.proc[p].inbox[1].type = "transact" /\ s.proc[p].inbox[1].token = t
  BY <1>1, HeadTailProperties, EmptySeq, LenProperties DEF IsProcess
<1>4. InTransit(s.proc[p], t) /\ Knows(s.proc[p], t)
  BY <1>3 DEF InTransit, Knows
<1>5. s.proc[p].inited
  BY <1>2, <1>3 DEF Ordered
<1>6. /\ Told(q) => Told(s.proc[p])
      /\ \A u : InTransit(q, u) => InTransit(s.proc[p], u)
      /\ Ordered(q)
  BY <1>1, <1>2, <1>5, Taken
<1>7. /\ DOMAIN q.hosted = IF x = "INITIAL" THEN DOMAIN s.proc[p].hosted \ {t}
                                            ELSE DOMAIN s.proc[p].hosted \cup {t}
      /\ x # "INITIAL" => q.hosted[t] = x
      /\ \A u \in DOMAIN q.hosted : u # t => q.hosted[u] = s.proc[p].hosted[u]
  BY DEF With, Drop
<1>8. /\ DOMAIN r.proc = DOMAIN s.proc /\ r.proc[p] = q
      /\ \A z \in DOMAIN s.proc : z # p => r.proc[z] = s.proc[z]
  OBVIOUS
<1>9. LiveIn(r) = LiveIn(s) /\ \A z \in LiveIn(s) : z \in DOMAIN s.proc
  BY <1>8 DEF LiveIn
<1>10. ASSUME NEW z \in LiveIn(s), NEW u, Knows(r.proc[z], u) PROVE Knows(s.proc[z], u)
  <2>1. CASE z = p
    BY <1>4, <1>6, <1>7, <1>8, <1>10, <2>1 DEF Knows
  <2>2. CASE z # p
    BY <1>8, <1>9, <1>10, <2>2
  <2>. QED
    BY <2>1, <2>2
<1>11. /\ DOMAIN f.said \subseteq DOMAIN e.said \cup {t} /\ e.lost \subseteq f.lost
       /\ \A u : u # t => (u \in DOMAIN f.said <=> u \in DOMAIN e.said)
       /\ \A u \in DOMAIN e.said : u # t => f.said[u] = e.said[u]
       /\ f.whole => e.whole /\ t \in DOMAIN f.said /\ f.said[t] = x
  BY DEF Answers, Wider
<1>12. Drawn(r, f)
  <2>1. t <= s.lastToken
    BY <1>1, <1>4 DEF Table, Drawn
  <2>2. \A u \in DOMAIN f.said : u \in Token /\ u <= s.lastToken
    BY <1>11, <2>1 DEF Table, Drawn
  <2>. QED
    BY <1>8, <1>9, <1>10, <2>2 DEF Table, Drawn
<1>13. OneApp(r, f)
  BY <1>8, <1>11 DEF Table, OneApp
<1>14. InboxesOrdered(r)
  <2>1. p \in DOMAIN s.app => Expected(q, s.app[p].attached)
    BY <1>2, <1>5, <1>6 DEF Expected
  <2>. QED
    BY <1>6, <1>8, <1>9, <2>1 DEF Table, InboxesOrdered
<1>15. Owned(r)
  BY <1>9, <1>10 DEF Table, Owned
<1>16. \A u \in DOMAIN s.rec : u = t => s.rec[u].app = p
  BY <1>1, <1>4 DEF Table, Owned
<1>17. Tracked(r, f)
  <2>1. SUFFICES ASSUME NEW u \in DOMAIN s.rec
                 PROVE  LET z == s.rec[u].app
                        IN  /\ z = 0 => s.rec[u].state = "UNINITIALIZED" /\ u \notin DOMAIN f.said
                            /\ f.whole /\ z \in LiveIn(s) =>
                                  IF u \in DOMAIN r.proc[z].hosted
                                  THEN Said(r, f, u) = r.proc[z].hosted[u]
                                  ELSE Said(r, f, u) \in {"UNINITIALIZED", "INITIAL"}
    BY <1>9 DEF Tracked
  <2>2. CASE u = t
    <3>1. s.rec[u].app = p /\ p # 0
      BY <1>1, <1>16, <2>2 DEF Token
    <3>2. f.whole => Said(r, f, u) = x
      BY <1>11, <2>2 DEF Said
    <3>. QED
      BY <1>7, <1>8, <2>2, <3>1, <3>2
  <2>3. CASE u # t
    <3>1. f.whole => Said(r, f, u) = Said(s, e, u)
      BY <1>11, <2>3 DEF Said
    <3>2. \A z \in LiveIn(s) :
             /\ u \in DOMAIN r.proc[z].hosted <=> u \in DOMAIN s.proc[z].hosted
             /\ u \in DOMAIN s.proc[z].hosted => r.proc[z].hosted[u] = s.proc[z].hosted[u]
      BY <1>7, <1>8, <1>9, <2>3
    <3>. QED
      BY <1>11, <2>3, <3>1, <3>2 DEF Table, Tracked
  <2>. QED
    BY <2>2, <2>3
<1>. QED
  BY <1>12, <1>13, <1>14, <1>15, <1>17 DEF Table
=============================================================================
