----------------------------- MODULE AppProofs -----------------------------
(***************************************************************************)
(* The invariants of module App, for every set of tokens and slices, every *)
(* capacity of the queue, and any number of messages and UI events.  First *)
(* what the operations of AppSlices keep: AbilityInv, the part of the      *)
(* inductive invariant that speaks of one ability, with one lemma per      *)
(* callback and per operation on slices.                                   *)
(***************************************************************************)
EXTENDS App, FiniteSetTheorems, SequenceTheorems, TLAPS

\* No check has failed and no callback has come out of order.
Sound(a) == a \in AbilityType /\ ~a.exited /\ ~a.misled

\* A page between two callbacks.
PageInv(a) == Sound(a) /\ a.kind = "page" /\ FollowsPage(a) /\ ShowsTop(a)

\* A service ability has no slices.
ServiceInv(a) == Sound(a) /\ a.kind = "service" /\ a.state # "INITIAL"

AbilityInv(a) == PageInv(a) \/ ServiceInv(a)

\* r is a after callbacks of its slices, without a check that failed.
Becomes(r, a, slice, window, content) ==
    /\ Sound(r)
    /\ r.kind = a.kind /\ r.state = a.state /\ r.top = a.top /\ r.stack = a.stack
    /\ r.slice = slice /\ r.window = window /\ r.content = content

-----------------------------------------------------------------------------
(* The callbacks of a slice.                                               *)

\* A callback that is expected.
LEMMA Called ==
    ASSUME NEW a, Sound(a), NEW x \in Slice, NEW callback, NEW state \in SliceState,
           a.slice[x] \in Expects(callback)
    PROVE  Becomes(Call(a, x, callback, state), a,
                   [a.slice EXCEPT ![x] = state], a.window, a.content)
BY DEF Call, Becomes, Sound, AbilityType

\* A slice that has been initialised is INITIAL.
LEMMA Inited ==
    ASSUME NEW a, Sound(a), NEW x \in Slice
    PROVE  Becomes(SliceInit(a, x), a, [a.slice EXCEPT ![x] = "INITIAL"], a.window, a.content)
BY DEF SliceInit, Becomes, Sound, AbilityType, SliceState, AbilityState

\* What the window shows changes nothing else.
LEMMA WindowShown ==
    ASSUME NEW a, Sound(a), a.window # "empty", NEW how \in {"shown", "hidden"}
    PROVE  Becomes(ShowWindow(a, how), a, a.slice, how, a.content)
BY DEF ShowWindow, Becomes, Sound, AbilityType

\* Setting the content of the window changes nothing else.
LEMMA ContentSet ==
    ASSUME NEW a, Sound(a), a.window # "none", NEW x \in Slice
    PROVE  Becomes(SetUIContent(a, x), a, a.slice,
                   IF a.window = "empty" THEN "created" ELSE a.window, x)
BY DEF SetUIContent, Becomes, Sound, AbilityType

\* OnStart shows the content of the slice in the window, if it has any.
LEMMA SliceStarted ==
    ASSUME NEW a, Sound(a), a.window # "none", NEW x \in Slice, a.slice[x] = "INITIAL"
    PROVE  Becomes(SliceOnStart(a, x), a, [a.slice EXCEPT ![x] = "INACTIVE"],
                   IF x \notin Blank /\ a.window = "empty" THEN "created" ELSE a.window,
                   IF x \in Blank THEN a.content ELSE x)
<1>. DEFINE a1 == Call(a, x, "OnStart", "INACTIVE")
<1>1. Becomes(a1, a, [a.slice EXCEPT ![x] = "INACTIVE"], a.window, a.content)
  BY Called DEF Expects, SliceState, AbilityState
<1>2. x \notin Blank => Becomes(SetUIContent(a1, x), a1, a1.slice,
                                IF a1.window = "empty" THEN "created" ELSE a1.window, x)
  BY <1>1, ContentSet DEF Becomes
<1>. HIDE DEF a1
<1>3. SliceOnStart(a, x) = IF x \in Blank THEN a1 ELSE SetUIContent(a1, x)
  BY DEF SliceOnStart, a1
<1>. QED
  BY <1>1, <1>2, <1>3 DEF Becomes

\* OnActive binds the content again after the background.
LEMMA SliceActivated ==
    ASSUME NEW a, Sound(a), a.window \notin {"none", "empty"},
           NEW x \in Slice, a.slice[x] \in {"INACTIVE", "BACKGROUND"}
    PROVE  Becomes(SliceOnActive(a, x), a, [a.slice EXCEPT ![x] = "ACTIVE"], a.window,
                   IF a.slice[x] = "BACKGROUND" /\ x \notin Blank THEN x ELSE a.content)
<1>. DEFINE a1 == IF a.slice[x] = "BACKGROUND" /\ x \notin Blank THEN SetUIContent(a, x) ELSE a
<1>1. Becomes(a1, a, a.slice, a.window,
              IF a.slice[x] = "BACKGROUND" /\ x \notin Blank THEN x ELSE a.content)
  BY ContentSet DEF Becomes
<1>. HIDE DEF a1
<1>2. Becomes(Call(a1, x, "OnActive", "ACTIVE"), a1, [a1.slice EXCEPT ![x] = "ACTIVE"],
              a1.window, a1.content)
  <2>1. Sound(a1) /\ a1.slice[x] \in Expects("OnActive") /\ "ACTIVE" \in SliceState
    BY <1>1 DEF Expects, SliceState, AbilityState, Becomes
  <2>. QED
    BY <2>1, Called
<1>3. SliceOnActive(a, x) = Call(a1, x, "OnActive", "ACTIVE")
  BY DEF SliceOnActive, a1
<1>. QED
  BY <1>1, <1>2, <1>3 DEF Becomes

\* OnInactive of an ACTIVE slice.
LEMMA SliceInactivated ==
    ASSUME NEW a, Sound(a), NEW x \in Slice, a.slice[x] = "ACTIVE"
    PROVE  Becomes(SliceOnInactive(a, x), a, [a.slice EXCEPT ![x] = "INACTIVE"], a.window, a.content)
BY Called DEF SliceOnInactive, Expects, SliceState, AbilityState

\* OnBackground of an INACTIVE slice.
LEMMA SliceBackgrounded ==
    ASSUME NEW a, Sound(a), NEW x \in Slice, a.slice[x] = "INACTIVE"
    PROVE  Becomes(SliceOnBackground(a, x), a, [a.slice EXCEPT ![x] = "BACKGROUND"], a.window, a.content)
BY Called DEF SliceOnBackground, Expects, SliceState, AbilityState

\* OnStop of a slice in the BACKGROUND.
LEMMA SliceStopped ==
    ASSUME NEW a, Sound(a), NEW x \in Slice, a.slice[x] = "BACKGROUND"
    PROVE  Becomes(SliceOnStop(a, x), a, [a.slice EXCEPT ![x] = "INITIAL"], a.window, a.content)
BY Called DEF SliceOnStop, Expects, SliceState, AbilityState

-----------------------------------------------------------------------------
(* The callbacks of an ability.  r is a page that follows PageInv when it  *)
(* has the stack of one that does, and its slice on top has its new state. *)

\* The state of an ability changes with its slice on top.
LEMMA PageMoves ==
    ASSUME NEW a, PageInv(a), NEW state \in AbilityState \ {"INITIAL"}, NEW r, NEW content,
           Becomes(r, a, [a.slice EXCEPT ![a.top] = state],
                   IF state = "BACKGROUND" THEN "hidden" ELSE "shown", content),
           a.top \notin Blank => content = a.top
    PROVE  /\ PageInv([r EXCEPT !.state = state])
           /\ [r EXCEPT !.state = state].state = state
<1>. DEFINE p == [r EXCEPT !.state = state]
<1>1. Sound(r) /\ r.kind = "page" /\ r.top = a.top /\ r.stack = a.stack /\ r.content = content
      /\ r.slice = [a.slice EXCEPT ![a.top] = state]
      /\ r.window = (IF state = "BACKGROUND" THEN "hidden" ELSE "shown")
  BY DEF Becomes, PageInv
<1>2. /\ Sound(p) /\ p.kind = "page" /\ p.state = state /\ p.top = a.top /\ p.stack = a.stack
      /\ p.slice = [a.slice EXCEPT ![a.top] = state] /\ p.content = content
      /\ p.window = (IF state = "BACKGROUND" THEN "hidden" ELSE "shown")
  BY <1>1 DEF Sound, AbilityType
<1>. HIDE DEF p
<1>3. FollowsPage(p)
  BY <1>2 DEF FollowsPage, PageInv, Sound, AbilityType, Stacked
<1>4. ShowsTop(p)
  BY <1>2 DEF ShowsTop
<1>5. PageInv(p) /\ p.state = state
  BY <1>2, <1>3, <1>4 DEF PageInv
<1>. QED
  BY <1>5 DEF p

\* OnInactive of a page and of its slice on top.
LEMMA InactivePage ==
    ASSUME NEW a, PageInv(a), a.state = "ACTIVE"
    PROVE  PageInv(OnInactive(a)) /\ OnInactive(a).state = "INACTIVE"
<1>. DEFINE r == SliceOnInactive(a, a.top)
<1>1. /\ Sound(a) /\ a.top \in Slice /\ a.slice[a.top] = "ACTIVE" /\ a.window = "shown"
      /\ a.top \notin Blank => a.content = a.top
  BY DEF PageInv, FollowsPage, ShowsTop, Sound, AbilityType
<1>2. Becomes(r, a, [a.slice EXCEPT ![a.top] = "INACTIVE"], "shown", a.content)
  BY <1>1, SliceInactivated
<1>3. OnInactive(a) = [r EXCEPT !.state = "INACTIVE"]
  BY <1>1 DEF OnInactive, InState, Deliver, HandleInactiveAbilitySlice, PageInv, FollowsPage
<1>. HIDE DEF r
<1>. QED
  BY <1>1, <1>2, <1>3, PageMoves DEF AbilityState

\* OnActive of a page and of its slice on top.
LEMMA ActivePage ==
    ASSUME NEW a, PageInv(a), a.state \in {"INACTIVE", "BACKGROUND"}
    PROVE  PageInv(OnActive(a)) /\ OnActive(a).state = "ACTIVE"
<1>. DEFINE a1 == SliceOnActive(a, a.top)
            r  == IF a.state = "BACKGROUND" THEN ShowWindow(a1, "shown") ELSE a1
<1>1. /\ Sound(a) /\ a.kind = "page" /\ a.top # None /\ a.top \in Slice
      /\ a.slice[a.top] = a.state
      /\ a.window = (IF a.state = "BACKGROUND" THEN "hidden" ELSE "shown")
      /\ a.top \notin Blank => a.content = a.top
  BY DEF PageInv, FollowsPage, ShowsTop, Sound, AbilityType
<1>2. Becomes(a1, a, [a.slice EXCEPT ![a.top] = "ACTIVE"], a.window,
              IF a.state = "BACKGROUND" /\ a.top \notin Blank THEN a.top ELSE a.content)
  BY <1>1, SliceActivated
<1>3. OnActive(a) = [r EXCEPT !.state = "ACTIVE"]
  BY <1>1 DEF OnActive, InState, Deliver, HandleActiveAbilitySlice
<1>. HIDE DEF a1
<1>4. Becomes(r, a, [a.slice EXCEPT ![a.top] = "ACTIVE"], "shown", a1.content)
  <2>1. a.state = "BACKGROUND" => Becomes(r, a1, a1.slice, "shown", a1.content)
    BY <1>1, <1>2, WindowShown DEF Becomes
  <2>. QED
    BY <1>1, <1>2, <2>1 DEF Becomes
<1>5. a.top \notin Blank => a1.content = a.top
  BY <1>1, <1>2 DEF Becomes
<1>. HIDE DEF r
<1>. QED
  BY <1>3, <1>4, <1>5, PageMoves DEF AbilityState

\* OnBackground of a page and of its slice on top.
LEMMA BackgroundPage ==
    ASSUME NEW a, PageInv(a), a.state = "INACTIVE"
    PROVE  PageInv(OnBackground(a)) /\ OnBackground(a).state = "BACKGROUND"
<1>. DEFINE a1 == SliceOnBackground(a, a.top)
            r  == ShowWindow(a1, "hidden")
<1>1. /\ Sound(a) /\ a.kind = "page" /\ a.top # None /\ a.top \in Slice
      /\ a.slice[a.top] = "INACTIVE" /\ a.window = "shown"
      /\ a.top \notin Blank => a.content = a.top
  BY DEF PageInv, FollowsPage, ShowsTop, Sound, AbilityType
<1>2. Becomes(a1, a, [a.slice EXCEPT ![a.top] = "BACKGROUND"], "shown", a.content)
  BY <1>1, SliceBackgrounded
<1>3. OnBackground(a) = [r EXCEPT !.state = "BACKGROUND"]
  BY <1>1 DEF OnBackground, InState, Deliver, HandleMoveAbilitySliceToBackground
<1>. HIDE DEF a1
<1>4. Becomes(r, a, [a.slice EXCEPT ![a.top] = "BACKGROUND"], "hidden", a.content)
  <2>1. Becomes(r, a1, a1.slice, "hidden", a1.content)
    BY <1>2, WindowShown DEF Becomes
  <2>. QED
    BY <1>2, <2>1 DEF Becomes
<1>. HIDE DEF r
<1>. QED
  BY <1>1, <1>3, <1>4, PageMoves DEF AbilityState

\* A page in the background can be stopped, and so can each of its slices.
LEMMA StopPage ==
    ASSUME NEW a, PageInv(a), a.state = "BACKGROUND"
    PROVE  OnStop(a).state = "INITIAL" /\ ~OnStop(a).exited /\ ~OnStop(a).misled
<1>. DEFINE r == HandleStopAbilitySlice(a)
<1>1. /\ a \in AbilityType /\ ~a.exited /\ ~a.misled /\ a.kind = "page" /\ a.window = "hidden"
      /\ a.top # None /\ a.top \notin Stacked(a)
      /\ \A i, j \in DOMAIN a.stack : a.stack[i] = a.stack[j] => i = j
      /\ \A x \in Stacked(a) \cup {a.top} : a.slice[x] = "BACKGROUND"
  BY DEF PageInv, FollowsPage, ShowsTop, Sound
<1>2. ~r.exited /\ ~r.misled /\ r.window = "hidden" /\ r.state = "BACKGROUND"
      /\ r = [r EXCEPT !.state = "BACKGROUND"]
  BY <1>1 DEF HandleStopAbilitySlice, Expects, AbilityType
<1>. HIDE DEF r
<1>3. OnStop(a) = [r EXCEPT !.window = "none", !.content = None, !.state = "INITIAL"]
  BY <1>1, <1>2 DEF OnStop, InState, Deliver, OnPostAbilityStop, r
<1>. QED
  BY <1>2, <1>3

\* The first callback makes the page, with its main slice on top.
LEMMA StartPage ==
    PageInv(OnStart(NewAbility("page"))) /\ OnStart(NewAbility("page")).state = "INACTIVE"
<1>. DEFINE n == NewAbility("page")
            m == [n EXCEPT !.top = Main]
            i == SliceInit(m, Main)
            s == SliceOnStart(i, Main)
            r == ShowWindow(s, "shown")
            p == [r EXCEPT !.state = "INACTIVE"]
<1>1. /\ Sound(m) /\ m.kind = "page" /\ m.top = Main /\ m.stack = <<>> /\ m.window = "empty"
      /\ m.state = "INITIAL" /\ m.slice = [x \in Slice |-> "UNINITIALIZED"]
  <2>1. n.slice \in [Slice -> SliceState] /\ n.stack \in Seq(Slice)
    BY EmptySeq DEF NewAbility, SliceState
  <2>2. n \in AbilityType /\ ~n.exited /\ ~n.misled
    BY <2>1 DEF NewAbility, AbilityType, AbilityState
  <2>3. /\ m \in AbilityType /\ ~m.exited /\ ~m.misled /\ m.top = Main /\ m.kind = n.kind
        /\ m.stack = n.stack /\ m.window = n.window /\ m.state = n.state /\ m.slice = n.slice
    BY <2>2, SlicesAssumption DEF AbilityType
  <2>. QED
    BY <2>3 DEF Sound, NewAbility
<1>2. OnStart(n) = p
  BY SlicesAssumption
  DEF OnStart, InState, Deliver, HandleStartAbilitySlice, GetTargetAbilitySlice, NewAbility
<1>. HIDE DEF m
<1>3. Becomes(i, m, [m.slice EXCEPT ![Main] = "INITIAL"], "empty", m.content)
  BY <1>1, Inited, SlicesAssumption
<1>. HIDE DEF i
<1>4. Becomes(s, i, [i.slice EXCEPT ![Main] = "INACTIVE"], "created", Main)
  <2>1. Sound(i) /\ i.window = "empty" /\ i.slice[Main] = "INITIAL" /\ Main \in Slice \ Blank
    BY <1>1, <1>3, SlicesAssumption DEF Becomes
  <2>2. i.window # "none" /\ Main \in Slice /\ Main \notin Blank
    BY <2>1
  <2>. QED
    BY <2>1, <2>2, SliceStarted DEF Becomes
<1>. HIDE DEF s
<1>5. Becomes(r, s, s.slice, "shown", Main)
  BY <1>4, WindowShown DEF Becomes
<1>. HIDE DEF r
<1>6. /\ Sound(r) /\ r.kind = "page" /\ r.top = Main /\ r.stack = <<>> /\ r.content = Main
      /\ r.window = "shown"
      /\ r.slice = [x \in Slice |-> IF x = Main THEN "INACTIVE" ELSE "UNINITIALIZED"]
  BY <1>1, <1>3, <1>4, <1>5, SlicesAssumption DEF Becomes
<1>7. /\ Sound(p) /\ p.kind = "page" /\ p.top = Main /\ p.stack = <<>> /\ p.content = Main
      /\ p.window = "shown" /\ p.state = "INACTIVE"
      /\ p.slice = [x \in Slice |-> IF x = Main THEN "INACTIVE" ELSE "UNINITIALIZED"]
  BY <1>6 DEF Sound, AbilityType, AbilityState
<1>. HIDE DEF p
<1>8. FollowsPage(p) /\ ShowsTop(p)
  BY <1>7, SlicesAssumption DEF FollowsPage, ShowsTop, Stacked
<1>. QED
  BY <1>2, <1>7, <1>8 DEF PageInv

\* The callbacks of a service ability check its state and take the new one.
LEMMA ServiceCallbacks ==
    ASSUME NEW a, Sound(a), a.kind = "service"
    PROVE  /\ a.state = "INITIAL" => ServiceInv(OnStart(a)) /\ OnStart(a).state = "INACTIVE"
           /\ a.state = "ACTIVE" => ServiceInv(OnInactive(a)) /\ OnInactive(a).state = "INACTIVE"
           /\ a.state \in {"INACTIVE", "BACKGROUND"} => ServiceInv(OnActive(a)) /\ OnActive(a).state = "ACTIVE"
           /\ a.state = "INACTIVE" => ServiceInv(OnBackground(a)) /\ OnBackground(a).state = "BACKGROUND"
           /\ a.state = "BACKGROUND" => OnStop(a).state = "INITIAL" /\ ~OnStop(a).exited /\ ~OnStop(a).misled
<1>1. ASSUME NEW state \in AbilityState
      PROVE  LET r == [a EXCEPT !.state = state]
             IN  /\ Sound(r) /\ r.kind = "service" /\ r.state = state
                 /\ ~r.exited /\ ~r.misled
  BY <1>1 DEF Sound, AbilityType
<1>2. a.kind # "page"
  OBVIOUS
<1>3. a.state = "INITIAL" => OnStart(a) = [a EXCEPT !.state = "INACTIVE"]
  BY <1>2 DEF OnStart, InState, Deliver
<1>4. a.state = "ACTIVE" => OnInactive(a) = [a EXCEPT !.state = "INACTIVE"]
  BY <1>2 DEF OnInactive, InState, Deliver
<1>5. a.state \in {"INACTIVE", "BACKGROUND"} => OnActive(a) = [a EXCEPT !.state = "ACTIVE"]
  BY <1>2 DEF OnActive, InState, Deliver
<1>6. a.state = "INACTIVE" => OnBackground(a) = [a EXCEPT !.state = "BACKGROUND"]
  BY <1>2 DEF OnBackground, InState, Deliver
<1>7. a.state = "BACKGROUND" => OnStop(a) = [a EXCEPT !.state = "INITIAL"]
  BY <1>2 DEF OnStop, InState, Deliver
<1>. QED
  BY <1>1, <1>3, <1>4, <1>5, <1>6, <1>7 DEF ServiceInv, AbilityState

\* A new ability is started first.
LEMMA StartAbility ==
    ASSUME NEW kind \in {"page", "service"}
    PROVE  LET a == OnStart(NewAbility(kind)) IN AbilityInv(a) /\ a.state = "INACTIVE"
<1>1. CASE kind = "page"
  BY <1>1, StartPage DEF AbilityInv
<1>2. CASE kind = "service"
  <2>. DEFINE n == NewAbility("service")
  <2>1. n.slice \in [Slice -> SliceState] /\ n.stack \in Seq(Slice)
    BY EmptySeq DEF NewAbility, SliceState
  <2>2. n \in AbilityType /\ ~n.exited /\ ~n.misled
    BY <2>1 DEF NewAbility, AbilityType, AbilityState
  <2>3. n.kind = "service" /\ n.state = "INITIAL"
    BY DEF NewAbility
  <2>. QED
    BY <1>2, <2>2, <2>3, ServiceCallbacks DEF AbilityInv, Sound
<1>. QED
  BY <1>1, <1>2

-----------------------------------------------------------------------------
(* The callbacks of a transaction, whatever the ability.                   *)

\* Any ability that becomes INACTIVE keeps the invariant.
LEMMA Inactivated ==
    ASSUME NEW a, AbilityInv(a), a.state = "ACTIVE"
    PROVE  AbilityInv(OnInactive(a)) /\ OnInactive(a).state = "INACTIVE"
BY InactivePage, ServiceCallbacks DEF AbilityInv, ServiceInv

\* Any ability that becomes ACTIVE keeps the invariant.
LEMMA Activated ==
    ASSUME NEW a, AbilityInv(a), a.state \in {"INACTIVE", "BACKGROUND"}
    PROVE  AbilityInv(OnActive(a)) /\ OnActive(a).state = "ACTIVE"
BY ActivePage, ServiceCallbacks DEF AbilityInv, ServiceInv

\* Any ability that goes to the BACKGROUND keeps the invariant.
LEMMA Backgrounded ==
    ASSUME NEW a, AbilityInv(a), a.state = "INACTIVE"
    PROVE  AbilityInv(OnBackground(a)) /\ OnBackground(a).state = "BACKGROUND"
BY BackgroundPage, ServiceCallbacks DEF AbilityInv, ServiceInv

\* Any ability that stops keeps the invariant.
LEMMA Stopped ==
    ASSUME NEW a, AbilityInv(a), a.state = "BACKGROUND"
    PROVE  OnStop(a).state = "INITIAL" /\ ~OnStop(a).exited /\ ~OnStop(a).misled
BY StopPage, ServiceCallbacks DEF AbilityInv, ServiceInv

\* The states an ability between two callbacks can be in.
LEMMA InvState ==
    ASSUME NEW a, AbilityInv(a)
    PROVE  /\ a.state \in {"INACTIVE", "ACTIVE", "BACKGROUND"} /\ ~a.exited /\ ~a.misled
           /\ a \in AbilityType
BY DEF AbilityInv, PageInv, ServiceInv, FollowsPage, Sound, AbilityType, AbilityState

\* Whatever is asked of an ability, the callbacks on the way come in order.
LEMMA TransactionKeeps ==
    ASSUME NEW a, AbilityInv(a) \/ \E kind \in {"page", "service"} : a = NewAbility(kind),
           NEW state \in AbilityState, state # a.state
    PROVE  LET r == HandleLifecycleTransaction(a, state)
           IN  /\ ~r.exited /\ ~r.misled
               /\ r.state = "INITIAL" \/ AbilityInv(r)
<1>. DEFINE a1 == IF a.state = "INITIAL" THEN OnStart(a) ELSE a
            a2 == IF a1.state = "ACTIVE" THEN OnInactive(a1) ELSE a1
            a3 == IF a2.state = "INACTIVE" THEN OnBackground(a2) ELSE a2
            r  == HandleLifecycleTransaction(a, state)
<1>1. AbilityInv(a1) /\ (a1.state = "ACTIVE" => state # "ACTIVE")
  <2>1. CASE AbilityInv(a)
    BY <2>1, InvState
  <2>2. CASE \E kind \in {"page", "service"} : a = NewAbility(kind)
    <3>1. a.state = "INITIAL"
      BY <2>2 DEF NewAbility
    <3>. QED
      BY <2>2, <3>1, StartAbility
  <2>. QED
    BY <2>1, <2>2
<1>2. /\ state = "INITIAL" => r = OnStop(a3)
      /\ state = "INACTIVE" => r = a2
      /\ state = "ACTIVE" => r = OnActive(a2)
      /\ state = "BACKGROUND" => r = a3
  BY DEF HandleLifecycleTransaction
<1>. HIDE DEF a1, r
<1>3. AbilityInv(a2) /\ a2.state \in {"INACTIVE", "BACKGROUND"}
  BY <1>1, Inactivated, InvState
<1>. HIDE DEF a2
<1>4. AbilityInv(a3) /\ a3.state = "BACKGROUND"
  BY <1>3, Backgrounded
<1>. HIDE DEF a3
<1>. DEFINE Ends == ~r.exited /\ ~r.misled /\ (r.state = "INITIAL" \/ AbilityInv(r))
<1>5. state = "INITIAL" => Ends
  BY <1>2, <1>4, Stopped
<1>6. state = "INACTIVE" => Ends
  BY <1>2, <1>3, InvState
<1>7. state = "ACTIVE" => Ends
  <2>1. AbilityInv(OnActive(a2))
    BY <1>3, Activated
  <2>. QED
    BY <1>2, <2>1, InvState
<1>8. state = "BACKGROUND" => Ends
  BY <1>2, <1>4, InvState
<1>9. Ends
  BY <1>5, <1>6, <1>7, <1>8 DEF AbilityState
<1>. QED
  BY <1>9 DEF r

-----------------------------------------------------------------------------
(* The stack: a list without duplicates.                                   *)

Elements(seq) == {seq[i] : i \in DOMAIN seq}

Distinct(seq) == \A i, j \in DOMAIN seq : seq[i] = seq[j] => i = j

\* AbilitySliceStack::Push.
LEMMA Pushed ==
    ASSUME NEW seq \in Seq(Slice), Distinct(seq), NEW x \in Slice \ Elements(seq)
    PROVE  LET r == <<x>> \o seq
           IN  r \in Seq(Slice) /\ Distinct(r) /\ Elements(r) = Elements(seq) \cup {x}
<1>. DEFINE r == <<x>> \o seq
<1>1. /\ r \in Seq(Slice) /\ Len(r) = Len(seq) + 1
      /\ \A i \in 1..(Len(seq) + 1) : r[i] = IF i = 1 THEN x ELSE seq[i - 1]
  OBVIOUS
<1>2. Len(seq) \in Nat /\ DOMAIN seq = 1..Len(seq) /\ DOMAIN r = 1..(Len(seq) + 1)
  BY <1>1
<1>. HIDE DEF r
<1>3. Distinct(r)
  <2>1. SUFFICES ASSUME NEW i \in 1..(Len(seq) + 1), NEW j \in 1..(Len(seq) + 1), r[i] = r[j]
                 PROVE  i = j
    BY <1>2 DEF Distinct
  <2>2. \A k \in 1..(Len(seq) + 1) : k # 1 => k - 1 \in DOMAIN seq
    BY <1>2
  <2>3. \A k \in DOMAIN seq : seq[k] # x
    BY DEF Elements
  <2>4. i = 1 <=> j = 1
    BY <1>1, <2>1, <2>2, <2>3
  <2>5. i # 1 /\ j # 1 => i - 1 = j - 1
    BY <1>1, <2>1, <2>2 DEF Distinct
  <2>. QED
    BY <2>4, <2>5, <1>2
<1>4. Elements(r) = Elements(seq) \cup {x}
  <2>1. Elements(r) \subseteq Elements(seq) \cup {x}
    BY <1>1, <1>2 DEF Elements
  <2>2. x \in Elements(r)
    BY <1>1, <1>2 DEF Elements
  <2>3. ASSUME NEW i \in 1..Len(seq) PROVE seq[i] \in Elements(r)
    <3>1. i + 1 \in 1..(Len(seq) + 1) /\ r[i + 1] = seq[i]
      BY <1>1, <1>2
    <3>. QED
      BY <3>1, <1>2 DEF Elements
  <2>. QED
    BY <2>1, <2>2, <2>3, <1>2 DEF Elements
<1>. QED
  BY <1>1, <1>3, <1>4 DEF r

\* AbilitySliceStack::Pop.
LEMMA Popped ==
    ASSUME NEW seq \in Seq(Slice), Distinct(seq), seq # <<>>
    PROVE  /\ Head(seq) \in Elements(seq)
           /\ Tail(seq) \in Seq(Slice) /\ Distinct(Tail(seq))
           /\ Elements(Tail(seq)) = Elements(seq) \ {Head(seq)}
<1>1. /\ Len(seq) \in Nat \ {0} /\ DOMAIN seq = 1..Len(seq) /\ Head(seq) = seq[1]
      /\ Tail(seq) \in Seq(Slice) /\ DOMAIN Tail(seq) = 1..(Len(seq) - 1)
      /\ \A i \in 1..(Len(seq) - 1) : Tail(seq)[i] = seq[i + 1]
  BY EmptySeq, HeadTailProperties
<1>. DEFINE r == Tail(seq)
<1>. HIDE DEF r
<1>2. Distinct(r)
  BY <1>1 DEF Distinct, r
<1>3. Elements(r) = Elements(seq) \ {Head(seq)}
  <2>1. ASSUME NEW x \in Elements(r) PROVE x \in Elements(seq) \ {Head(seq)}
    <3>1. PICK i \in 1..(Len(seq) - 1) : x = seq[i + 1]
      BY <2>1, <1>1 DEF Elements, r
    <3>. QED
      BY <3>1, <1>1 DEF Elements, Distinct
  <2>2. ASSUME NEW x \in Elements(seq), x # Head(seq) PROVE x \in Elements(r)
    <3>1. PICK i \in 1..Len(seq) : x = seq[i]
      BY <2>2, <1>1 DEF Elements
    <3>2. i - 1 \in 1..(Len(seq) - 1) /\ r[i - 1] = x
      BY <3>1, <2>2, <1>1 DEF r
    <3>. QED
      BY <3>2, <1>1 DEF Elements, r
  <2>. QED
    BY <2>1, <2>2
<1>4. Head(seq) \in Elements(seq)
  <2>1. 1 \in DOMAIN seq /\ Head(seq) = seq[1]
    BY <1>1
  <2>. QED
    BY <2>1 DEF Elements
<1>. QED
  BY <1>1, <1>2, <1>3, <1>4 DEF r

\* The sequence r has the elements of l at the positions S, in their order.
Part(r, l, S) ==
    /\ \A k \in DOMAIN r : \E i \in S : r[k] = l[i]
    /\ \A i \in S : \E k \in DOMAIN r : r[k] = l[i]
    /\ \A k, m \in DOMAIN r : k # m => \E i, j \in S : i # j /\ r[k] = l[i] /\ r[m] = l[j]
    /\ \A a \in S : (\A i \in S : a <= i) => r # <<>> /\ r[1] = l[a]

\* Keep yields a sequence of the elements at those positions, in their order.
LEMMA KeepPart ==
    ASSUME NEW R, NEW l \in Seq(R), NEW S \in SUBSET (DOMAIN l)
    PROVE  /\ Keep(l, S) \in Seq(R)
           /\ IsFiniteSet(S) /\ Len(Keep(l, S)) = Cardinality(S) /\ Cardinality(S) <= Len(l)
           /\ Part(Keep(l, S), l, S)
<1>. DEFINE c == Cardinality(S)
            Below(i) == {j \in S : j < i}
            rank == [i \in S |-> Cardinality(Below(i))]
            At(k) == CHOOSE i \in S : Cardinality(Below(i)) = k - 1
            r == Keep(l, S)
<1>0. DOMAIN l = 1..Len(l) /\ Len(l) \in Nat /\ \A i \in S : i \in Nat /\ i >= 1
  OBVIOUS
<1>1. IsFiniteSet(S) /\ c \in Nat /\ c <= Len(l)
  <2>1. IsFiniteSet(1..Len(l)) /\ Cardinality(1..Len(l)) = Len(l)
    BY <1>0, FS_Interval
  <2>. QED
    BY <1>0, <2>1, FS_Subset, FS_CardinalityType
<1>2. \A i \in S : /\ IsFiniteSet(Below(i)) /\ Cardinality(Below(i)) \in Nat
                   /\ Cardinality(Below(i)) <= c - 1
  <2>1. SUFFICES ASSUME NEW i \in S
                 PROVE  /\ IsFiniteSet(Below(i)) /\ Cardinality(Below(i)) \in Nat
                        /\ Cardinality(Below(i)) <= c - 1
    OBVIOUS
  <2>2. IsFiniteSet(S \ {i}) /\ Cardinality(S \ {i}) = c - 1
    BY <1>1, FS_RemoveElement
  <2>3. Below(i) \in SUBSET (S \ {i})
    BY <1>0
  <2>. HIDE DEF Below
  <2>. QED
    BY <2>2, <2>3, FS_Subset, FS_CardinalityType
<1>3. \A i, j \in S : i < j => Cardinality(Below(i)) < Cardinality(Below(j))
  <2>1. SUFFICES ASSUME NEW i \in S, NEW j \in S, i < j
                 PROVE  Cardinality(Below(i)) < Cardinality(Below(j))
    OBVIOUS
  <2>2. /\ Below(i) \in SUBSET Below(j)
        /\ i \in Below(j) /\ i \notin Below(i)
    BY <1>0, <2>1
  <2>3. Below(i) # Below(j)
    BY <2>2
  <2>4. /\ Cardinality(Below(i)) <= Cardinality(Below(j))
        /\ Cardinality(Below(i)) # Cardinality(Below(j))
    <3>. HIDE DEF Below
    <3>. QED
      BY <1>2, <2>2, <2>3, FS_Subset
  <2>. HIDE DEF Below
  <2>. QED
    BY <1>2, <2>4
<1>4. \A k \in 1..c : \E i \in S : Cardinality(Below(i)) = k - 1
  <2>1. rank \in Injection(S, 0..(c - 1))
    <3>1. rank \in [S -> 0..(c - 1)]
      <4>1. \A i \in S : Cardinality(Below(i)) \in 0..(c - 1)
        <5>. HIDE DEF Below, c
        <5>. QED
          BY <1>1, <1>2
      <4>. HIDE DEF Below
      <4>. QED
        BY <4>1
    <3>2. \A i, j \in S : rank[i] = rank[j] => i = j
      <4>. HIDE DEF Below
      <4>1. SUFFICES ASSUME NEW i \in S, NEW j \in S, rank[i] = rank[j], i # j
                     PROVE  FALSE
        OBVIOUS
      <4>2. (i < j \/ j < i) /\ Cardinality(Below(i)) = Cardinality(Below(j))
        BY <1>0, <4>1
      <4>. QED
        BY <1>2, <1>3, <4>2
    <3>. HIDE DEF rank
    <3>. QED
      BY <3>1, <3>2 DEF Injection, IsInjective
  <2>2. IsFiniteSet(0..(c - 1)) /\ Cardinality(0..(c - 1)) = c
    <3>. HIDE DEF c
    <3>1. c - 1 \in Int /\ 0 \in Int /\ (IF 0 > c - 1 THEN 0 ELSE (c - 1) - 0 + 1) = c
      BY <1>1
    <3>. QED
      BY <3>1, FS_Interval
  <2>3. rank \in Surjection(S, 0..(c - 1))
    <3>. HIDE DEF rank
    <3>. QED
      BY <2>1, <2>2, FS_Injection
  <2>4. \A k \in 0..(c - 1) : \E i \in S : rank[i] = k
    <3>. HIDE DEF rank
    <3>. QED
      BY <2>3 DEF Surjection
  <2>5. \A k \in 1..c : k - 1 \in 0..(c - 1)
    <3>. HIDE DEF c
    <3>. QED
      BY <1>1
  <2>6. \A i \in S : rank[i] = Cardinality(Below(i))
    OBVIOUS
  <2>. HIDE DEF rank, Below, c
  <2>. QED
    BY <2>4, <2>5, <2>6
<1>5. \A k \in 1..c : At(k) \in S /\ Cardinality(Below(At(k))) = k - 1
  <2>. HIDE DEF Below
  <2>. QED
    BY <1>4
<1>6. \A k, m \in 1..c : k # m => At(k) # At(m)
  <2>. HIDE DEF At, Below
  <2>. QED
    BY <1>5
<1>7. \A i \in S : \E k \in 1..c : At(k) = i
  <2>1. SUFFICES ASSUME NEW i \in S PROVE \E k \in 1..c : At(k) = i
    OBVIOUS
  <2>. DEFINE k == Cardinality(Below(i)) + 1
  <2>2. k \in 1..c /\ Cardinality(Below(i)) = k - 1
    <3>. HIDE DEF Below
    <3>. QED
      BY <1>1, <1>2
  <2>3. Cardinality(Below(At(k))) = Cardinality(Below(i)) /\ At(k) \in S
    <3>. HIDE DEF k, At, Below
    <3>. QED
      BY <1>5, <2>2
  <2>4. At(k) = i
    <3>. HIDE DEF k, At, Below
    <3>1. ~(At(k) < i) /\ ~(i < At(k))
      BY <1>2, <1>3, <2>3
    <3>. QED
      BY <1>0, <2>3, <3>1
  <2>. QED
    BY <2>2, <2>4
<1>8. r = [k \in 1..c |-> l[At(k)]]
  BY DEF Keep
<1>9. \A i \in S : l[i] \in R
  OBVIOUS
<1>10. r \in Seq(R) /\ Len(r) = c /\ DOMAIN r = 1..c
  <2>. HIDE DEF r, At, Below, c
  <2>1. r \in [1..c -> R]
    BY <1>5, <1>8, <1>9
  <2>. QED
    BY <1>1, <2>1
<1>11. \A a \in S : (\A i \in S : a <= i) => r # <<>> /\ r[1] = l[a]
  <2>1. SUFFICES ASSUME NEW a \in S, \A i \in S : a <= i
                 PROVE  r # <<>> /\ r[1] = l[a]
    OBVIOUS
  <2>2. Below(a) = {}
    BY <1>0, <2>1
  <2>3. Cardinality(Below(a)) = 0
    <3>. HIDE DEF Below
    <3>. QED
      BY <2>2, FS_EmptySet
  <2>4. c # 0
    BY <1>1, FS_EmptySet
  <2>5. 1 \in 1..c
    <3>. HIDE DEF c
    <3>. QED
      BY <1>1, <2>4
  <2>6. At(1) = a
    <3>1. Cardinality(Below(At(1))) = 0 /\ At(1) \in S
      <4>. HIDE DEF At, Below, c
      <4>. QED
        BY <1>5, <2>5
    <3>. HIDE DEF At, Below
    <3>2. ~(At(1) < a) /\ ~(a < At(1))
      BY <1>2, <1>3, <2>3, <3>1
    <3>. QED
      BY <1>0, <3>1, <3>2
  <2>. HIDE DEF At, Below, c, r
  <2>. QED
    BY <1>8, <1>10, <2>5, <2>6
<1>12. Part(r, l, S)
  <2>. HIDE DEF At, Below, c, r
  <2>. QED
    BY <1>5, <1>6, <1>7, <1>8, <1>10, <1>11 DEF Part
<1>. QED
  BY <1>1, <1>10, <1>12

\* AbilitySliceStack::Remove.
LEMMA Cut ==
    ASSUME NEW seq \in Seq(Slice), NEW x
    PROVE  LET r == Keep(seq, {i \in DOMAIN seq : seq[i] # x})
           IN  /\ r \in Seq(Slice) /\ Elements(r) = Elements(seq) \ {x}
               /\ Distinct(seq) => Distinct(r)
<1>. DEFINE S == {i \in DOMAIN seq : seq[i] # x}
            r == Keep(seq, S)
<1>1. r \in Seq(Slice) /\ Part(r, seq, S)
  BY KeepPart
<1>. HIDE DEF r
<1>2. Elements(r) = Elements(seq) \ {x}
  BY <1>1 DEF Part, Elements
<1>3. Distinct(seq) => Distinct(r)
  BY <1>1 DEF Part, Distinct
<1>. QED
  BY <1>1, <1>2, <1>3 DEF r

-----------------------------------------------------------------------------
(* Slices presented and terminated by an ACTIVE page.                      *)

\* What an ACTIVE page is, in terms of its stack.
LEMMA ActiveFacts ==
    ASSUME NEW a, PageInv(a), a.state = "ACTIVE"
    PROVE  /\ Sound(a) /\ a.kind = "page" /\ a.top \in Slice /\ a.slice[a.top] = "ACTIVE"
           /\ a.stack \in Seq(Slice) /\ Distinct(a.stack) /\ Stacked(a) = Elements(a.stack)
           /\ Elements(a.stack) \subseteq Slice /\ a.top \notin Elements(a.stack)
           /\ \A x \in Elements(a.stack) : a.slice[x] = "BACKGROUND"
           /\ \A x \in Slice \ (Elements(a.stack) \cup {a.top}) : a.slice[x] \in {"UNINITIALIZED", "INITIAL"}
           /\ a.slice \in [Slice -> SliceState]
           /\ a.window = "shown" /\ (a.top \notin Blank => a.content = a.top)
<1>1. /\ Sound(a) /\ a.kind = "page" /\ a.top \in Slice /\ a.slice[a.top] = "ACTIVE"
      /\ a.stack \in Seq(Slice) /\ a.slice \in [Slice -> SliceState]
      /\ a.window = "shown" /\ (a.top \notin Blank => a.content = a.top)
  BY DEF PageInv, FollowsPage, ShowsTop, Sound, AbilityType
<1>2. Distinct(a.stack) /\ Stacked(a) = Elements(a.stack)
  BY DEF PageInv, FollowsPage, Distinct, Stacked, Elements
<1>3. Elements(a.stack) \subseteq Slice
  <2>1. ASSUME NEW i \in DOMAIN a.stack PROVE a.stack[i] \in Slice
    BY <1>1, <2>1, ElementOfSeq, LenProperties
  <2>. QED
    BY <2>1 DEF Elements
<1>4. a.top \notin Elements(a.stack) /\ \A x \in Elements(a.stack) : a.slice[x] = "BACKGROUND"
  BY <1>2 DEF PageInv, FollowsPage
<1>5. \A x \in Slice \ (Elements(a.stack) \cup {a.top}) : a.slice[x] \in {"UNINITIALIZED", "INITIAL"}
  BY <1>2 DEF PageInv, FollowsPage
<1>. QED
  BY <1>1, <1>2, <1>3, <1>4, <1>5

\* The converse: a page with another stack and another slice on top.
LEMMA Restacked ==
    ASSUME NEW r, Sound(r), r.kind = "page", r.state = "ACTIVE", r.window = "shown",
           NEW top \in Slice, NEW stack \in Seq(Slice), Distinct(stack), top \notin Elements(stack),
           r.slice[top] = "ACTIVE",
           \A x \in Elements(stack) : r.slice[x] = "BACKGROUND",
           \A x \in Slice \ (Elements(stack) \cup {top}) : r.slice[x] \in {"UNINITIALIZED", "INITIAL"},
           top \notin Blank => r.content = top
    PROVE  PageInv([r EXCEPT !.stack = stack, !.top = top])
<1>. DEFINE p == [r EXCEPT !.stack = stack, !.top = top]
<1>1. /\ Sound(p) /\ p.kind = "page" /\ p.state = "ACTIVE" /\ p.window = "shown" /\ p.top = top
      /\ p.stack = stack /\ p.slice = r.slice /\ p.content = r.content
  BY DEF Sound, AbilityType
<1>. HIDE DEF p
<1>2. Stacked(p) = Elements(stack)
  BY <1>1 DEF Stacked, Elements
<1>3. FollowsPage(p)
  BY <1>1, <1>2, SlicesAssumption DEF FollowsPage, Distinct
<1>4. ShowsTop(p)
  BY <1>1 DEF ShowsTop
<1>. QED
  BY <1>1, <1>3, <1>4 DEF PageInv, p

\* A slice that is neither on top nor on the stack is presented.
LEMMA AddKeeps ==
    ASSUME NEW a, PageInv(a), NEW x \in Slice, NEW y \in Slice,
           a.slice[y] \in {"UNINITIALIZED", "INITIAL"}
    PROVE  PageInv(AddAbilitySlice(a, x, y))
<1>. DEFINE a1 == IF a.slice[a.top] = "ACTIVE" THEN SliceOnInactive(a, a.top) ELSE a
            a2 == IF a1.slice[y] = "UNINITIALIZED" THEN SliceInit(a1, y) ELSE a1
            a3 == IF a2.slice[y] = "INITIAL" THEN SliceOnStart(a2, y) ELSE a2
            a4 == SliceOnActive(a3, y)
            a5 == IF a4.slice[a.top] = "INACTIVE" THEN SliceOnBackground(a4, a.top) ELSE a4
<1>1. SUFFICES ASSUME CheckLegalForAdd(a, x, y) PROVE PageInv(AddAbilitySlice(a, x, y))
  BY DEF AddAbilitySlice
<1>2. a.state = "ACTIVE" /\ y # a.top
  BY <1>1 DEF CheckLegalForAdd
<1>3. AddAbilitySlice(a, x, y) = [a5 EXCEPT !.stack = <<a.top>> \o @, !.top = y]
  BY <1>1 DEF AddAbilitySlice
<1>4. /\ Sound(a) /\ a.kind = "page" /\ a.top \in Slice /\ a.slice[a.top] = "ACTIVE"
      /\ a.stack \in Seq(Slice) /\ Distinct(a.stack) /\ Elements(a.stack) \subseteq Slice
      /\ a.top \notin Elements(a.stack) /\ y \notin Elements(a.stack) /\ a.window = "shown"
      /\ a.slice \in [Slice -> SliceState]
  BY <1>2, ActiveFacts
<1>5. Becomes(a1, a, [a.slice EXCEPT ![a.top] = "INACTIVE"], "shown", a.content)
  BY <1>4, SliceInactivated
<1>. HIDE DEF a1
<1>6. /\ Becomes(a2, a1, a2.slice, "shown", a.content)
      /\ a2.slice = [a.slice EXCEPT ![a.top] = "INACTIVE", ![y] = "INITIAL"]
  <2>1. /\ Sound(a1) /\ a1.slice = [a.slice EXCEPT ![a.top] = "INACTIVE"] /\ a1.slice[y] = a.slice[y]
        /\ a1.window = "shown" /\ a1.content = a.content
    BY <1>2, <1>4, <1>5 DEF Becomes
  <2>2. CASE a.slice[y] = "UNINITIALIZED"
    BY <1>4, <2>1, <2>2, Inited DEF Becomes
  <2>3. CASE a.slice[y] = "INITIAL"
    BY <1>4, <2>1, <2>3 DEF Becomes
  <2>. QED
    BY <2>2, <2>3
<1>. HIDE DEF a2
<1>7. /\ Becomes(a3, a2, a3.slice, "shown", a3.content) /\ (y \notin Blank => a3.content = y)
      /\ a3.slice = [a.slice EXCEPT ![a.top] = "INACTIVE", ![y] = "INACTIVE"]
  <2>1. Sound(a2) /\ a2.slice[y] = "INITIAL" /\ a2.window = "shown"
    BY <1>4, <1>6 DEF Becomes
  <2>2. Becomes(a3, a2, [a2.slice EXCEPT ![y] = "INACTIVE"], "shown",
                IF y \in Blank THEN a2.content ELSE y)
    BY <2>1, SliceStarted
  <2>3. [a2.slice EXCEPT ![y] = "INACTIVE"] = [a.slice EXCEPT ![a.top] = "INACTIVE", ![y] = "INACTIVE"]
    BY <1>4, <1>6
  <2>. HIDE DEF a3
  <2>. QED
    BY <2>2, <2>3 DEF Becomes
<1>. HIDE DEF a3
<1>8. /\ Becomes(a4, a3, a4.slice, "shown", a3.content)
      /\ a4.slice = [a.slice EXCEPT ![a.top] = "INACTIVE", ![y] = "ACTIVE"]
  <2>1. Sound(a3) /\ a3.slice[y] = "INACTIVE" /\ a3.window = "shown"
    BY <1>4, <1>7 DEF Becomes
  <2>2. Becomes(a4, a3, [a3.slice EXCEPT ![y] = "ACTIVE"], "shown", a3.content)
    BY <2>1, SliceActivated
  <2>3. [a3.slice EXCEPT ![y] = "ACTIVE"] = [a.slice EXCEPT ![a.top] = "INACTIVE", ![y] = "ACTIVE"]
    BY <1>4, <1>7
  <2>. HIDE DEF a4
  <2>. QED
    BY <2>2, <2>3 DEF Becomes
<1>. HIDE DEF a4
<1>9. /\ Becomes(a5, a4, a5.slice, "shown", a3.content)
      /\ a5.slice = [a.slice EXCEPT ![a.top] = "BACKGROUND", ![y] = "ACTIVE"]
  <2>1. Sound(a4) /\ a4.slice[a.top] = "INACTIVE" /\ a4.window = "shown" /\ a4.content = a3.content
    BY <1>2, <1>4, <1>8 DEF Becomes
  <2>2. Becomes(a5, a4, [a4.slice EXCEPT ![a.top] = "BACKGROUND"], "shown", a3.content)
    BY <1>4, <2>1, SliceBackgrounded
  <2>3. [a4.slice EXCEPT ![a.top] = "BACKGROUND"] = [a.slice EXCEPT ![a.top] = "BACKGROUND", ![y] = "ACTIVE"]
    BY <1>2, <1>4, <1>8
  <2>. HIDE DEF a5
  <2>. QED
    BY <2>2, <2>3 DEF Becomes
<1>. HIDE DEF a5
<1>. DEFINE stack == <<a.top>> \o a.stack
<1>10. stack \in Seq(Slice) /\ Distinct(stack) /\ Elements(stack) = Elements(a.stack) \cup {a.top}
  BY <1>4, Pushed
<1>11. /\ Sound(a5) /\ a5.kind = "page" /\ a5.state = "ACTIVE" /\ a5.stack = a.stack
       /\ a5.window = "shown" /\ (y \notin Blank => a5.content = y)
  BY <1>2, <1>4, <1>5, <1>6, <1>7, <1>8, <1>9 DEF Becomes
<1>. HIDE DEF stack
<1>12. /\ a5.slice[y] = "ACTIVE" /\ y \notin Elements(stack)
       /\ \A z \in Elements(stack) : a5.slice[z] = "BACKGROUND"
       /\ \A z \in Slice \ (Elements(stack) \cup {y}) : a5.slice[z] \in {"UNINITIALIZED", "INITIAL"}
  BY <1>2, <1>4, <1>9, <1>10, ActiveFacts
<1>13. PageInv([a5 EXCEPT !.stack = stack, !.top = y])
  BY <1>10, <1>11, <1>12, Restacked
<1>. QED
  BY <1>3, <1>11, <1>13 DEF stack

\* The slice on top ends, and the one underneath is shown.
LEMMA RemoveTopKeeps ==
    ASSUME NEW a, PageInv(a), a.state = "ACTIVE", a.stack # <<>>
    PROVE  PageInv(RemoveTop(a))
<1>. DEFINE next == Head(a.stack)
            rest == Tail(a.stack)
            b  == SliceOnInactive(a, a.top)
            b1 == [b EXCEPT !.stack = Tail(@)]
            a1 == SliceOnActive(b1, next)
            b2 == SliceOnBackground(a1, a.top)
            a2 == SliceOnStop(b2, a.top)
<1>1. /\ Sound(a) /\ a.kind = "page" /\ a.top \in Slice /\ a.slice[a.top] = "ACTIVE"
      /\ a.stack \in Seq(Slice) /\ Distinct(a.stack) /\ Elements(a.stack) \subseteq Slice
      /\ a.top \notin Elements(a.stack) /\ a.window = "shown" /\ a.slice \in [Slice -> SliceState]
      /\ \A x \in Elements(a.stack) : a.slice[x] = "BACKGROUND"
  BY ActiveFacts
<1>2. /\ next \in Elements(a.stack) /\ rest \in Seq(Slice) /\ Distinct(rest)
      /\ Elements(rest) = Elements(a.stack) \ {next}
  BY <1>1, Popped
<1>3. next \in Slice /\ next # a.top /\ a.slice[next] = "BACKGROUND"
  BY <1>1, <1>2
<1>4. RemoveTop(a) = [a2 EXCEPT !.top = next]
  BY DEF RemoveTop
<1>. HIDE DEF next
<1>5. Becomes(b, a, [a.slice EXCEPT ![a.top] = "INACTIVE"], "shown", a.content)
  BY <1>1, SliceInactivated
<1>. HIDE DEF b
<1>6. /\ Sound(b1) /\ b1.kind = "page" /\ b1.state = "ACTIVE" /\ b1.stack = rest /\ b1.window = "shown"
      /\ b1.slice = [a.slice EXCEPT ![a.top] = "INACTIVE"]
  BY <1>1, <1>2, <1>5 DEF Becomes, Sound, AbilityType
<1>. HIDE DEF b1, rest
<1>7. /\ Becomes(a1, b1, a1.slice, "shown", a1.content) /\ (next \notin Blank => a1.content = next)
      /\ a1.slice = [a.slice EXCEPT ![a.top] = "INACTIVE", ![next] = "ACTIVE"]
  <2>1. b1.slice[next] = "BACKGROUND" /\ b1.window \notin {"none", "empty"}
    BY <1>1, <1>3, <1>6
  <2>2. Becomes(a1, b1, [b1.slice EXCEPT ![next] = "ACTIVE"], "shown",
                IF next \notin Blank THEN next ELSE b1.content)
    BY <1>3, <1>6, <2>1, SliceActivated
  <2>. HIDE DEF a1
  <2>. QED
    BY <1>6, <2>2 DEF Becomes
<1>. HIDE DEF a1
<1>8. /\ Becomes(b2, a1, b2.slice, "shown", a1.content)
      /\ b2.slice = [a.slice EXCEPT ![a.top] = "BACKGROUND", ![next] = "ACTIVE"]
  <2>1. Sound(a1) /\ a1.slice[a.top] = "INACTIVE" /\ a1.window = "shown"
    BY <1>1, <1>3, <1>7 DEF Becomes
  <2>2. Becomes(b2, a1, [a1.slice EXCEPT ![a.top] = "BACKGROUND"], "shown", a1.content)
    BY <1>1, <2>1, SliceBackgrounded
  <2>3. [a1.slice EXCEPT ![a.top] = "BACKGROUND"] = [a.slice EXCEPT ![a.top] = "BACKGROUND", ![next] = "ACTIVE"]
    BY <1>1, <1>3, <1>7
  <2>. HIDE DEF b2
  <2>. QED
    BY <2>2, <2>3 DEF Becomes
<1>. HIDE DEF b2
<1>9. /\ Becomes(a2, b2, a2.slice, "shown", a1.content)
      /\ a2.slice = [a.slice EXCEPT ![a.top] = "INITIAL", ![next] = "ACTIVE"]
  <2>1. Sound(b2) /\ b2.slice[a.top] = "BACKGROUND" /\ b2.window = "shown" /\ b2.content = a1.content
    BY <1>1, <1>3, <1>8 DEF Becomes
  <2>2. Becomes(a2, b2, [b2.slice EXCEPT ![a.top] = "INITIAL"], "shown", a1.content)
    BY <1>1, <2>1, SliceStopped
  <2>3. [b2.slice EXCEPT ![a.top] = "INITIAL"] = [a.slice EXCEPT ![a.top] = "INITIAL", ![next] = "ACTIVE"]
    BY <1>1, <1>3, <1>8
  <2>. HIDE DEF a2
  <2>. QED
    BY <2>2, <2>3 DEF Becomes
<1>. HIDE DEF a2
<1>10. /\ Sound(a2) /\ a2.kind = "page" /\ a2.state = "ACTIVE" /\ a2.stack = rest
       /\ a2.window = "shown" /\ (next \notin Blank => a2.content = next)
  BY <1>6, <1>7, <1>8, <1>9 DEF Becomes
<1>11. /\ a2.slice[next] = "ACTIVE" /\ next \notin Elements(rest)
       /\ \A z \in Elements(rest) : a2.slice[z] = "BACKGROUND"
       /\ \A z \in Slice \ (Elements(rest) \cup {next}) : a2.slice[z] \in {"UNINITIALIZED", "INITIAL"}
  BY <1>1, <1>2, <1>3, <1>9, ActiveFacts
<1>12. PageInv([a2 EXCEPT !.stack = rest, !.top = next])
  BY <1>2, <1>3, <1>10, <1>11, Restacked
<1>13. [a2 EXCEPT !.stack = rest, !.top = next] = [a2 EXCEPT !.top = next]
  BY <1>10 DEF Sound, AbilityType
<1>. QED
  BY <1>4, <1>12, <1>13

\* A slice of the stack ends.
LEMMA RemoveStackedKeeps ==
    ASSUME NEW a, PageInv(a), a.state = "ACTIVE", NEW x \in Stacked(a)
    PROVE  PageInv(RemoveStacked(a, x))
<1>. DEFINE stack == Keep(a.stack, {i \in DOMAIN a.stack : a.stack[i] # x})
            r == SliceOnStop(a, x)
<1>1. /\ Sound(a) /\ a.kind = "page" /\ a.top \in Slice /\ a.slice[a.top] = "ACTIVE"
      /\ a.stack \in Seq(Slice) /\ Distinct(a.stack) /\ Elements(a.stack) \subseteq Slice
      /\ x \in Elements(a.stack) /\ a.top \notin Elements(a.stack)
      /\ a.window = "shown" /\ a.slice \in [Slice -> SliceState]
      /\ \A z \in Elements(a.stack) : a.slice[z] = "BACKGROUND"
      /\ a.top \notin Blank => a.content = a.top
  BY ActiveFacts
<1>3. stack \in Seq(Slice) /\ Distinct(stack) /\ Elements(stack) = Elements(a.stack) \ {x}
  BY <1>1, Cut
<1>4. Becomes(r, a, [a.slice EXCEPT ![x] = "INITIAL"], "shown", a.content)
  BY <1>1, SliceStopped
<1>5. r.stack = a.stack
  BY <1>4 DEF Becomes
<1>6. RemoveStacked(a, x) = [r EXCEPT !.stack = stack]
  BY <1>5 DEF RemoveStacked
<1>. HIDE DEF r, stack
<1>7. /\ Sound(r) /\ r.kind = "page" /\ r.state = "ACTIVE" /\ r.top = a.top /\ r.window = "shown"
      /\ r.slice = [a.slice EXCEPT ![x] = "INITIAL"] /\ r.content = a.content
  BY <1>1, <1>4 DEF Becomes
<1>8. /\ r.slice[a.top] = "ACTIVE" /\ a.top \notin Elements(stack)
      /\ \A z \in Elements(stack) : r.slice[z] = "BACKGROUND"
      /\ \A z \in Slice \ (Elements(stack) \cup {a.top}) : r.slice[z] \in {"UNINITIALIZED", "INITIAL"}
  BY <1>1, <1>3, <1>7, ActiveFacts
<1>9. PageInv([r EXCEPT !.stack = stack, !.top = a.top])
  BY <1>1, <1>3, <1>7, <1>8, Restacked
<1>10. [r EXCEPT !.stack = stack, !.top = a.top] = [r EXCEPT !.stack = stack]
  BY <1>7 DEF Sound, AbilityType
<1>. QED
  BY <1>6, <1>9, <1>10

\* Any slice is terminated.
LEMMA RemoveKeeps ==
    ASSUME NEW a, PageInv(a), NEW x \in Slice
    PROVE  PageInv(RemoveAbilitySlice(a, x))
<1>1. CASE ~CheckLegalForRemove(a, x)
  BY <1>1 DEF RemoveAbilitySlice
<1>2. CASE CheckLegalForRemove(a, x)
  <2>1. a.state = "ACTIVE" /\ a.stack # <<>> /\ (x # a.top => x \in Stacked(a))
    BY <1>2 DEF CheckLegalForRemove
  <2>2. RemoveAbilitySlice(a, x) = IF x = a.top THEN RemoveTop(a) ELSE RemoveStacked(a, x)
    BY <1>2 DEF RemoveAbilitySlice
  <2>. QED
    BY <2>1, <2>2, RemoveTopKeeps, RemoveStackedKeeps
<1>. QED
  BY <1>1, <1>2

-----------------------------------------------------------------------------
(* The types of an ability, whatever slices it presents.                   *)

\* What the window shows changes nothing in the types.
LEMMA WindowTyped ==
    ASSUME NEW a \in AbilityType, NEW x \in Slice, NEW how \in {"shown", "hidden"}
    PROVE  /\ Exit(a) \in AbilityType /\ SetUIContent(a, x) \in AbilityType
           /\ ShowWindow(a, how) \in AbilityType /\ OnPostAbilityStop(a) \in AbilityType
           /\ SetUIContent(a, x).top = a.top /\ SetUIContent(a, x).stack = a.stack
BY DEF Exit, SetUIContent, ShowWindow, OnPostAbilityStop, AbilityType

\* A callback of a slice leaves the slice on top and the stack as they are.
LEMMA SliceTyped ==
    ASSUME NEW a \in AbilityType, NEW x \in Slice
    PROVE  /\ SliceInit(a, x) \in AbilityType /\ SliceOnStart(a, x) \in AbilityType
           /\ SliceOnActive(a, x) \in AbilityType /\ SliceOnInactive(a, x) \in AbilityType
           /\ SliceOnBackground(a, x) \in AbilityType /\ SliceOnStop(a, x) \in AbilityType
           /\ SliceInit(a, x).stack = a.stack /\ SliceOnStart(a, x).stack = a.stack
           /\ SliceOnActive(a, x).stack = a.stack /\ SliceOnInactive(a, x).stack = a.stack
           /\ SliceOnBackground(a, x).stack = a.stack /\ SliceOnStop(a, x).stack = a.stack
<1>1. ASSUME NEW b \in AbilityType, NEW callback, NEW state \in SliceState
      PROVE  Call(b, x, callback, state) \in AbilityType /\ Call(b, x, callback, state).stack = b.stack
  BY DEF Call, AbilityType
<1>2. {"INITIAL", "INACTIVE", "ACTIVE", "BACKGROUND"} \subseteq SliceState
  BY DEF SliceState, AbilityState
<1>3. SliceInit(a, x) \in AbilityType /\ SliceInit(a, x).stack = a.stack
  BY <1>2 DEF SliceInit, AbilityType
<1>4. SliceOnStart(a, x) \in AbilityType /\ SliceOnStart(a, x).stack = a.stack
  BY <1>1, <1>2, WindowTyped DEF SliceOnStart
<1>5. SliceOnActive(a, x) \in AbilityType /\ SliceOnActive(a, x).stack = a.stack
  BY <1>1, <1>2, WindowTyped DEF SliceOnActive
<1>6. /\ SliceOnInactive(a, x) \in AbilityType /\ SliceOnBackground(a, x) \in AbilityType
      /\ SliceOnStop(a, x) \in AbilityType
      /\ SliceOnInactive(a, x).stack = a.stack /\ SliceOnBackground(a, x).stack = a.stack
      /\ SliceOnStop(a, x).stack = a.stack
  BY <1>1, <1>2 DEF SliceOnInactive, SliceOnBackground, SliceOnStop
<1>. QED
  BY <1>3, <1>4, <1>5, <1>6

\* The callbacks of the ability for its slices.
LEMMA HandledTyped ==
    ASSUME NEW a \in AbilityType
    PROVE  /\ HandleStartAbilitySlice(a) \in AbilityType
           /\ HandleInactiveAbilitySlice(a) \in AbilityType
           /\ HandleActiveAbilitySlice(a) \in AbilityType
           /\ HandleMoveAbilitySliceToBackground(a) \in AbilityType
           /\ HandleStopAbilitySlice(a) \in AbilityType
<1>1. a.top # None => a.top \in Slice
  BY DEF AbilityType
<1>2. HandleStartAbilitySlice(a) \in AbilityType
  <2>. DEFINE top == IF a.top = None THEN Main ELSE a.top
              b == [a EXCEPT !.top = top]
  <2>1. top \in Slice /\ b \in AbilityType
    BY <1>1, SlicesAssumption DEF AbilityType
  <2>2. HandleStartAbilitySlice(a) = SliceOnStart(SliceInit(b, top), top)
    BY DEF HandleStartAbilitySlice, GetTargetAbilitySlice
  <2>. HIDE DEF top, b
  <2>. QED
    BY <2>1, <2>2, SliceTyped
<1>3. HandleInactiveAbilitySlice(a) \in AbilityType
  BY <1>1, SliceTyped DEF HandleInactiveAbilitySlice
<1>4. HandleActiveAbilitySlice(a) \in AbilityType
  BY <1>1, SliceTyped DEF HandleActiveAbilitySlice
<1>5. HandleMoveAbilitySliceToBackground(a) \in AbilityType
  BY <1>1, SliceTyped DEF HandleMoveAbilitySliceToBackground
<1>6. HandleStopAbilitySlice(a) \in AbilityType
  <2>. DEFINE slice == [x \in Slice |-> IF x \in Stacked(a) \cup {a.top} THEN "INITIAL" ELSE a.slice[x]]
  <2>1. slice \in [Slice -> SliceState] /\ <<>> \in Seq(Slice)
    BY EmptySeq DEF AbilityType, SliceState, AbilityState
  <2>2. PICK m \in BOOLEAN :
           HandleStopAbilitySlice(a) =
             IF a.top = None THEN a
             ELSE [a EXCEPT !.slice = slice, !.misled = m, !.top = None, !.stack = <<>>]
    BY DEF HandleStopAbilitySlice, AbilityType
  <2>. HIDE DEF slice
  <2>. QED
    BY <2>1, <2>2 DEF AbilityType
<1>. QED
  BY <1>2, <1>3, <1>4, <1>5, <1>6

\* The callbacks of the ability.
LEMMA CallbacksTyped ==
    ASSUME NEW a \in AbilityType
    PROVE  /\ OnStart(a) \in AbilityType /\ OnInactive(a) \in AbilityType
           /\ OnActive(a) \in AbilityType /\ OnBackground(a) \in AbilityType
           /\ OnStop(a) \in AbilityType
<1>1. ASSUME NEW b \in AbilityType, NEW state \in AbilityState
      PROVE  [b EXCEPT !.state = state] \in AbilityType
  BY DEF AbilityType
<1>2. ASSUME NEW b \in AbilityType
      PROVE  /\ ShowWindow(b, "shown") \in AbilityType /\ ShowWindow(b, "hidden") \in AbilityType
             /\ OnPostAbilityStop(b) \in AbilityType /\ Exit(b) \in AbilityType
  BY WindowTyped, SlicesAssumption
<1>3. {"INITIAL", "INACTIVE", "ACTIVE", "BACKGROUND"} = AbilityState
  BY DEF AbilityState
<1>4. OnStart(a) \in AbilityType
  BY <1>1, <1>2, <1>3, HandledTyped DEF OnStart, Deliver, InState
<1>5. OnInactive(a) \in AbilityType
  BY <1>1, <1>2, <1>3, HandledTyped DEF OnInactive, Deliver, InState
<1>6. OnActive(a) \in AbilityType
  BY <1>1, <1>2, <1>3, HandledTyped DEF OnActive, Deliver, InState
<1>7. OnBackground(a) \in AbilityType
  BY <1>1, <1>2, <1>3, HandledTyped DEF OnBackground, Deliver, InState
<1>8. OnStop(a) \in AbilityType
  BY <1>1, <1>2, <1>3, HandledTyped DEF OnStop, Deliver, InState
<1>. QED
  BY <1>4, <1>5, <1>6, <1>7, <1>8

\* A transaction.
LEMMA TransactionTyped ==
    ASSUME NEW a \in AbilityType, NEW state \in AbilityState
    PROVE  HandleLifecycleTransaction(a, state) \in AbilityType
<1>. DEFINE a1 == IF a.state = "INITIAL" THEN OnStart(a) ELSE a
            a2 == IF a1.state = "ACTIVE" THEN OnInactive(a1) ELSE a1
            a3 == IF a2.state = "INACTIVE" THEN OnBackground(a2) ELSE a2
            r  == HandleLifecycleTransaction(a, state)
<1>1. /\ state = "INITIAL" => r = OnStop(a3)
      /\ state = "INACTIVE" => r = a2
      /\ state = "ACTIVE" => r = OnActive(a2)
      /\ state = "BACKGROUND" => r = a3
  BY DEF HandleLifecycleTransaction
<1>2. a1 \in AbilityType
  BY CallbacksTyped
<1>. HIDE DEF a1, r
<1>3. a2 \in AbilityType
  BY <1>2, CallbacksTyped
<1>. HIDE DEF a2
<1>4. a3 \in AbilityType
  BY <1>3, CallbacksTyped
<1>. HIDE DEF a3
<1>5. r \in AbilityType
  BY <1>1, <1>3, <1>4, CallbacksTyped DEF AbilityState
<1>. QED
  BY <1>5 DEF r

\* A slice presented.
LEMMA AddTyped ==
    ASSUME NEW a \in AbilityType, NEW x \in Slice, NEW y \in Slice
    PROVE  AddAbilitySlice(a, x, y) \in AbilityType
<1>. DEFINE a1 == IF a.slice[a.top] = "ACTIVE" THEN SliceOnInactive(a, a.top) ELSE a
            a2 == IF a1.slice[y] = "UNINITIALIZED" THEN SliceInit(a1, y) ELSE a1
            a3 == IF a2.slice[y] = "INITIAL" THEN SliceOnStart(a2, y) ELSE a2
            a4 == SliceOnActive(a3, y)
            a5 == IF a4.slice[a.top] = "INACTIVE" THEN SliceOnBackground(a4, a.top) ELSE a4
<1>1. SUFFICES ASSUME CheckLegalForAdd(a, x, y) PROVE AddAbilitySlice(a, x, y) \in AbilityType
  BY DEF AddAbilitySlice
<1>2. a.top \in Slice
  BY <1>1 DEF CheckLegalForAdd, AbilityType
<1>3. AddAbilitySlice(a, x, y) = [a5 EXCEPT !.stack = <<a.top>> \o @, !.top = y]
  BY <1>1 DEF AddAbilitySlice
<1>4. a1 \in AbilityType
  BY <1>2, SliceTyped
<1>. HIDE DEF a1
<1>5. a2 \in AbilityType
  BY <1>4, SliceTyped
<1>. HIDE DEF a2
<1>6. a3 \in AbilityType
  BY <1>5, SliceTyped
<1>. HIDE DEF a3
<1>7. a4 \in AbilityType
  BY <1>6, SliceTyped
<1>. HIDE DEF a4
<1>8. a5 \in AbilityType
  BY <1>2, <1>7, SliceTyped
<1>. HIDE DEF a5
<1>9. <<a.top>> \o a5.stack \in Seq(Slice)
  <2>1. a5.stack \in Seq(Slice)
    BY <1>8 DEF AbilityType
  <2>. QED
    BY <1>2, <2>1
<1>10. ASSUME NEW stack \in Seq(Slice) PROVE [a5 EXCEPT !.stack = stack, !.top = y] \in AbilityType
  BY <1>8 DEF AbilityType
<1>. QED
  BY <1>3, <1>9, <1>10

\* A slice terminated.
LEMMA RemoveTyped ==
    ASSUME NEW a \in AbilityType, NEW x \in Slice
    PROVE  RemoveAbilitySlice(a, x) \in AbilityType
<1>1. SUFFICES ASSUME CheckLegalForRemove(a, x) PROVE RemoveAbilitySlice(a, x) \in AbilityType
  BY DEF RemoveAbilitySlice
<1>2. a.top \in Slice /\ a.stack \in Seq(Slice) /\ a.stack # <<>>
  BY <1>1 DEF CheckLegalForRemove, AbilityType
<1>3. ASSUME NEW b \in AbilityType, NEW stack \in Seq(Slice), NEW top \in Slice
      PROVE  [b EXCEPT !.stack = stack] \in AbilityType /\ [b EXCEPT !.top = top] \in AbilityType
  BY DEF AbilityType
<1>4. RemoveTop(a) \in AbilityType
  <2>. DEFINE next == Head(a.stack)
              b  == SliceOnInactive(a, a.top)
              b1 == [b EXCEPT !.stack = Tail(@)]
              a1 == SliceOnActive(b1, next)
              b2 == SliceOnBackground(a1, a.top)
              a2 == SliceOnStop(b2, a.top)
  <2>1. next \in Slice /\ Tail(a.stack) \in Seq(Slice)
    BY <1>2, EmptySeq, HeadTailProperties
  <2>2. RemoveTop(a) = [a2 EXCEPT !.top = next]
    BY DEF RemoveTop
  <2>. HIDE DEF next
  <2>3. b \in AbilityType /\ b.stack = a.stack
    BY <1>2, SliceTyped
  <2>. HIDE DEF b
  <2>4. b1 \in AbilityType
    BY <1>3, <2>1, <2>3
  <2>. HIDE DEF b1
  <2>5. a1 \in AbilityType
    BY <2>1, <2>4, SliceTyped
  <2>. HIDE DEF a1
  <2>6. b2 \in AbilityType
    BY <1>2, <2>5, SliceTyped
  <2>. HIDE DEF b2
  <2>7. a2 \in AbilityType
    BY <1>2, <2>6, SliceTyped
  <2>. HIDE DEF a2
  <2>. QED
    BY <1>3, <2>1, <2>2, <2>7
<1>5. RemoveStacked(a, x) \in AbilityType
  <2>. DEFINE b == SliceOnStop(a, x)
  <2>1. b \in AbilityType /\ b.stack = a.stack
    BY SliceTyped
  <2>. DEFINE stack == Keep(a.stack, {i \in DOMAIN a.stack : a.stack[i] # x})
  <2>2. stack \in Seq(Slice)
    BY <1>2, Cut
  <2>3. RemoveStacked(a, x) = [b EXCEPT !.stack = stack]
    BY <2>1 DEF RemoveStacked
  <2>. HIDE DEF b, stack
  <2>. QED
    BY <1>3, <2>1, <2>2, <2>3
<1>. QED
  BY <1>1, <1>4, <1>5 DEF RemoveAbilitySlice

-----------------------------------------------------------------------------
(* The process: its queue, its threads and its abilities.                  *)

\* The abilities have their types, whatever slices are presented.
AbilitiesTyped ==
    /\ DOMAIN ability \subseteq Token
    /\ \A t \in DOMAIN ability : ability[t] \in AbilityType
    /\ misled \in BOOLEAN

\* Every ability is one between two callbacks, and so were those that have ended.
AbilitiesSound == ~misled /\ \A t \in DOMAIN ability : AbilityInv(ability[t])

\* The second if the application presents no slice that is on the stack.
AbilitiesInv == AbilitiesTyped /\ (~Represent => AbilitiesSound)

QueueTyped ==
    /\ inbox \in Seq(TaskType) /\ queue \in Seq(TaskType)
    /\ ipc \in TaskType \cup {NoTask} /\ current \in TaskType \cup {NoTask}
    /\ ui \in {"off", "loop", "posting", "done"}
    /\ loop \in LoopState
    /\ running \in BOOLEAN /\ quit \in BOOLEAN /\ dropped \in BOOLEAN
    /\ asked \in [Token -> Int]
    /\ messages \in Nat

Has(seq, type) == \E i \in DOMAIN seq : seq[i].type = type

ExitAtEnd(seq) == \A i \in DOMAIN seq : seq[i].type = "exit" => i = Len(seq)

\* The main thread posts to its own queue.
Posting == loop \in {"pushStop", "postQuit", "pushQuit"}

\* Nothing comes from the service any more.
Over == inbox = <<>> /\ ipc = NoTask /\ messages > MaxMessages

\* The exit is the last message on its way to the main thread.
ExitLast ==
    /\ ExitAtEnd(inbox) /\ (Has(inbox, "exit") => messages > MaxMessages)
    /\ ipc.type = "exit" => inbox = <<>> /\ messages > MaxMessages
    /\ Has(queue, "exit") => Over
    /\ current.type = "exit" => Over
    /\ Posting => Over

\* A thread that is about to push a task has seen room for it: of the two others,
\* one at most is in the same place.
UIPushes == IF ui = "posting" THEN 1 ELSE 0

OtherPushes == IF ipc # NoTask \/ loop \in {"pushStop", "pushQuit"} THEN 1 ELSE 0

Room == Len(queue) + UIPushes + OtherPushes <= Capacity + 1

IInv == AbilitiesInv /\ QueueTyped /\ ExitLast /\ Room

-----------------------------------------------------------------------------
(* Queues of tasks.                                                        *)

\* What the tasks there are look like, and that none is not one of them.
LEMMA Tasks ==
    /\ \A type \in {"init", "ui", "exit", "stop", "quit"} : Task(type) \in TaskType /\ Task(type).type = type
    /\ NoTask.type = "none"
    /\ \A task \in TaskType : task # NoTask
    /\ \A task \in TaskType : task.type = "transact" => task.token \in Token /\ task.state \in AbilityState
BY DEF Task, NoTask, TaskType

\* Room for one more push, when it has seen the queue below its capacity.
LEMMA OneMorePush ==
    ASSUME QueueTyped, HasRoom, queue' = queue
    PROVE  Room'
<1>1. Len(queue) \in Nat /\ Len(queue) < Capacity /\ Capacity \in Nat
  BY AppAssumption DEF QueueTyped, HasRoom
<1>2. UIPushes' \in 0..1 /\ OtherPushes' \in 0..1
  BY DEF UIPushes, OtherPushes
<1>. QED
  BY <1>1, <1>2 DEF Room

\* A push that has been counted, or none.
LEMMA NoMorePush ==
    ASSUME QueueTyped, Room, Len(queue') + UIPushes' + OtherPushes' <= Len(queue) + UIPushes + OtherPushes,
           Len(queue') \in Nat
    PROVE  Room'
<1>1. Len(queue) \in Nat /\ Capacity \in Nat
  BY AppAssumption DEF QueueTyped
<1>2. UIPushes \in 0..1 /\ OtherPushes \in 0..1 /\ UIPushes' \in 0..1 /\ OtherPushes' \in 0..1
  BY DEF UIPushes, OtherPushes
<1>. QED
  BY <1>1, <1>2 DEF Room

\* The queue with one more task.
LEMMA Appended ==
    ASSUME NEW seq \in Seq(TaskType), NEW task \in TaskType
    PROVE  LET r == Append(seq, task)
           IN  /\ r \in Seq(TaskType) /\ Len(r) = Len(seq) + 1 /\ r # <<>>
               /\ Has(r, "exit") => Has(seq, "exit") \/ task.type = "exit"
               /\ ~Has(seq, "exit") => ExitAtEnd(r)
<1>. DEFINE r == Append(seq, task)
<1>1. /\ r \in Seq(TaskType) /\ Len(r) = Len(seq) + 1 /\ Len(seq) \in Nat
      /\ DOMAIN r = 1..(Len(seq) + 1) /\ DOMAIN seq = 1..Len(seq)
      /\ \A i \in 1..Len(seq) : r[i] = seq[i]
      /\ r[Len(seq) + 1] = task
  BY AppendProperties, LenProperties
<1>. HIDE DEF r
<1>2. r # <<>>
  BY <1>1, EmptySeq
<1>3. Has(r, "exit") => Has(seq, "exit") \/ task.type = "exit"
  <2>1. SUFFICES ASSUME NEW i \in 1..(Len(seq) + 1), r[i].type = "exit", task.type # "exit"
                 PROVE  Has(seq, "exit")
    BY <1>1 DEF Has
  <2>2. i \in 1..Len(seq)
    BY <1>1, <2>1
  <2>. QED
    BY <1>1, <2>1, <2>2 DEF Has
<1>4. ~Has(seq, "exit") => ExitAtEnd(r)
  BY <1>1 DEF Has, ExitAtEnd
<1>. QED
  BY <1>1, <1>2, <1>3, <1>4 DEF r

\* The queue without its first task.
LEMMA Taken ==
    ASSUME NEW seq \in Seq(TaskType), seq # <<>>
    PROVE  /\ Head(seq) \in TaskType /\ Tail(seq) \in Seq(TaskType) /\ Len(Tail(seq)) = Len(seq) - 1
           /\ Len(seq) \in Nat
           /\ Head(seq).type = "exit" => Has(seq, "exit")
           /\ Has(Tail(seq), "exit") => Has(seq, "exit")
           /\ ExitAtEnd(seq) => ExitAtEnd(Tail(seq)) /\ (Head(seq).type = "exit" => Tail(seq) = <<>>)
<1>. DEFINE r == Tail(seq)
<1>1. /\ Len(seq) \in Nat \ {0} /\ DOMAIN seq = 1..Len(seq) /\ Head(seq) = seq[1]
      /\ Head(seq) \in TaskType /\ r \in Seq(TaskType)
      /\ Len(r) = Len(seq) - 1 /\ DOMAIN r = 1..(Len(seq) - 1)
      /\ \A i \in 1..(Len(seq) - 1) : r[i] = seq[i + 1]
  BY EmptySeq, HeadTailProperties
<1>. HIDE DEF r
<1>2. Head(seq).type = "exit" => Has(seq, "exit")
  <2>1. 1 \in DOMAIN seq
    BY <1>1
  <2>. QED
    BY <1>1, <2>1 DEF Has
<1>3. \A i \in DOMAIN r : i + 1 \in DOMAIN seq /\ r[i] = seq[i + 1]
  BY <1>1
<1>4. Has(r, "exit") => Has(seq, "exit")
  BY <1>3 DEF Has
<1>5. ExitAtEnd(seq) => ExitAtEnd(r)
  <2>1. SUFFICES ASSUME ExitAtEnd(seq), NEW i \in DOMAIN r, r[i].type = "exit"
                 PROVE  i = Len(r)
    BY DEF ExitAtEnd
  <2>2. i + 1 = Len(seq)
    BY <1>3, <2>1 DEF ExitAtEnd
  <2>. QED
    BY <1>1, <2>1, <2>2
<1>6. ExitAtEnd(seq) /\ Head(seq).type = "exit" => r = <<>>
  <2>1. SUFFICES ASSUME ExitAtEnd(seq), Head(seq).type = "exit" PROVE r = <<>>
    OBVIOUS
  <2>2. 1 = Len(seq)
    BY <1>1, <2>1 DEF ExitAtEnd
  <2>3. Len(r) = 0
    BY <1>1, <2>2
  <2>. QED
    BY <1>1, <2>3, EmptySeq
<1>. QED
  BY <1>1, <1>2, <1>4, <1>5, <1>6 DEF r

-----------------------------------------------------------------------------
(* The steps.                                                              *)

\* The invariant holds when the process starts.
LEMMA InitEstablishes == Init => IInv
<1>. SUFFICES ASSUME Init PROVE IInv
  OBVIOUS
<1>1. /\ inbox = <<Task("init")>> /\ inbox \in Seq(TaskType) /\ Len(inbox) = 1
      /\ DOMAIN inbox = {1} /\ inbox[1].type = "init"
  BY Tasks DEF Init
<1>2. queue = <<>> /\ queue \in Seq(TaskType) /\ Len(queue) = 0 /\ DOMAIN queue = {}
  BY EmptySeq DEF Init
<1>3. AbilitiesInv
  BY DEF Init, AbilitiesInv, AbilitiesTyped, AbilitiesSound
<1>4. QueueTyped
  <2>1. asked \in [Token -> Int]
    BY DEF Init
  <2>2. /\ ipc = NoTask /\ current = NoTask /\ ui = "off" /\ loop = "run" /\ messages = 0
        /\ running = TRUE /\ quit = FALSE /\ dropped = FALSE
    BY DEF Init
  <2>3. running \in BOOLEAN /\ quit \in BOOLEAN /\ dropped \in BOOLEAN
    BY <2>2
  <2>. QED
    BY <1>1, <1>2, <2>1, <2>2, <2>3 DEF QueueTyped, LoopState
<1>5. ExitLast
  BY <1>1, <1>2, Tasks DEF Init, ExitLast, ExitAtEnd, Has, Posting
<1>6. Room
  BY <1>2, AppAssumption DEF Init, Room, UIPushes, OtherPushes
<1>. QED
  BY <1>3, <1>4, <1>5, <1>6 DEF IInv

\* The main thread takes a task.
LEMMA TakeKeeps ==
    ASSUME IInv, Take, loop \in {"run", "woken"},
           UNCHANGED <<ability, misled, inbox, ipc, ui, running, quit, asked, dropped, messages, events>>
    PROVE  IInv'
<1>1. /\ queue # <<>> /\ queue \in Seq(TaskType) /\ current' = Head(queue) /\ queue' = Tail(queue)
      /\ loop' = "perform"
  BY DEF Take, IInv, QueueTyped
<1>2. /\ Head(queue) \in TaskType /\ Tail(queue) \in Seq(TaskType) /\ Len(Tail(queue)) = Len(queue) - 1
      /\ Len(queue) \in Nat
      /\ Head(queue).type = "exit" => Has(queue, "exit")
      /\ Has(Tail(queue), "exit") => Has(queue, "exit")
  BY <1>1, Taken
<1>3. AbilitiesInv'
  BY DEF IInv, AbilitiesInv, AbilitiesTyped, AbilitiesSound
<1>4. QueueTyped'
  BY <1>1, <1>2 DEF IInv, QueueTyped, LoopState
<1>5. ExitLast'
  BY <1>1, <1>2 DEF IInv, ExitLast, ExitAtEnd, Has, Posting, Over
<1>6. Room'
  <2>1. Len(queue') \in Nat /\ Len(queue') <= Len(queue)
    BY <1>1, <1>2, EmptySeq
  <2>2. UIPushes' = UIPushes /\ OtherPushes' <= OtherPushes
    BY <1>1 DEF UIPushes, OtherPushes
  <2>3. UIPushes \in Nat /\ OtherPushes \in Nat /\ OtherPushes' \in Nat
    BY DEF UIPushes, OtherPushes
  <2>. QED
    BY <1>2, <2>1, <2>2, <2>3, NoMorePush DEF IInv
<1>. QED
  BY <1>3, <1>4, <1>5, <1>6 DEF IInv

\* The main thread takes a task, waits or ends its loop.
LEMMA RunKeeps ==
    ASSUME IInv, RunNext \/ RunWoken \/ RunEnds
    PROVE  IInv'
<1>1. CASE RunNext /\ Take
  BY <1>1, TakeKeeps DEF RunNext
<1>2. CASE RunWoken
  BY <1>2, TakeKeeps DEF RunWoken
<1>3. CASE (RunNext /\ ~Take) \/ RunEnds
  <2>1. /\ UNCHANGED <<ability, misled, inbox, ipc, ui, queue, current, running, quit, asked, dropped, messages>>
        /\ loop = "run" /\ loop' \in {"waiting", "ended"}
    BY <1>3 DEF RunNext, RunEnds
  <2>2. AbilitiesInv'
    BY <2>1 DEF IInv, AbilitiesInv, AbilitiesTyped, AbilitiesSound
  <2>3. QueueTyped'
    BY <2>1 DEF IInv, QueueTyped, LoopState
  <2>4. ExitLast'
    BY <2>1 DEF IInv, ExitLast, ExitAtEnd, Has, Posting, Over
  <2>5. Room'
    BY <2>1 DEF IInv, Room, UIPushes, OtherPushes
  <2>. QED
    BY <2>2, <2>3, <2>4, <2>5 DEF IInv
<1>. QED
  BY <1>1, <1>2, <1>3

\* A message of the service comes in, and becomes a task.
LEMMA IpcKeeps ==
    ASSUME IInv, IpcNext
    PROVE  IInv'
<1>1. CASE AmsCallback
  <2>1. /\ ipc = NoTask /\ inbox # <<>> /\ inbox \in Seq(TaskType) /\ inbox' = Tail(inbox)
        /\ UNCHANGED <<ability, misled, ui, queue, loop, current, running, quit, asked, messages>>
        /\ \/ HasRoom /\ ipc' = Head(inbox) /\ dropped' = dropped
           \/ ipc' = ipc /\ dropped' = TRUE
    BY <1>1 DEF AmsCallback, IInv, QueueTyped
  <2>2. /\ Head(inbox) \in TaskType /\ Tail(inbox) \in Seq(TaskType)
        /\ Head(inbox).type = "exit" => Has(inbox, "exit")
        /\ Has(Tail(inbox), "exit") => Has(inbox, "exit")
        /\ ExitAtEnd(inbox) => ExitAtEnd(Tail(inbox)) /\ (Head(inbox).type = "exit" => Tail(inbox) = <<>>)
    BY <2>1, Taken
  <2>3. AbilitiesInv'
    BY <2>1 DEF IInv, AbilitiesInv, AbilitiesTyped, AbilitiesSound
  <2>4. QueueTyped'
    <3>1. dropped' \in BOOLEAN
      BY <2>1 DEF IInv, QueueTyped
    <3>2. ipc' \in TaskType \cup {NoTask} /\ inbox' \in Seq(TaskType)
      BY <2>1, <2>2 DEF IInv, QueueTyped
    <3>. QED
      BY <2>1, <3>1, <3>2 DEF IInv, QueueTyped
  <2>5. ~Over
    BY <2>1 DEF Over
  <2>6. ExitLast'
    <3>1. ~Has(queue, "exit") /\ current.type # "exit" /\ ~Posting
      BY <2>5 DEF IInv, ExitLast
    <3>2. ~Has(queue, "exit")' /\ current'.type # "exit" /\ ~Posting'
      BY <2>1, <3>1 DEF Has, Posting
    <3>3. ExitAtEnd(inbox)' /\ (Has(inbox, "exit")' => messages' > MaxMessages)
      BY <2>1, <2>2 DEF IInv, ExitLast, Has, ExitAtEnd
    <3>4. ipc'.type = "exit" => inbox' = <<>> /\ messages' > MaxMessages
      BY <2>1, <2>2, Tasks DEF IInv, ExitLast
    <3>. QED
      BY <3>2, <3>3, <3>4 DEF ExitLast
  <2>7. Room'
    <3>1. CASE ipc' = ipc
      BY <2>1, <3>1 DEF IInv, Room, UIPushes, OtherPushes
    <3>2. CASE HasRoom
      BY <2>1, <3>2, OneMorePush DEF IInv
    <3>. QED
      BY <2>1, <3>1, <3>2
  <2>. QED
    BY <2>3, <2>4, <2>6, <2>7 DEF IInv
<1>2. CASE AmsCallbackPost
  <2>1. /\ ipc # NoTask /\ ipc \in TaskType /\ queue \in Seq(TaskType) /\ queue' = Append(queue, ipc)
        /\ loop' = (IF loop = "waiting" THEN "woken" ELSE loop) /\ ipc' = NoTask
        /\ UNCHANGED <<ability, misled, inbox, ui, current, running, quit, asked, dropped, messages>>
    BY <1>2 DEF AmsCallbackPost, Push, IInv, QueueTyped
  <2>2. /\ queue' \in Seq(TaskType) /\ Len(queue') = Len(queue) + 1 /\ Len(queue) \in Nat
        /\ Has(queue', "exit") => Has(queue, "exit") \/ ipc.type = "exit"
    BY <2>1, Appended
  <2>3. AbilitiesInv'
    BY <2>1 DEF IInv, AbilitiesInv, AbilitiesTyped, AbilitiesSound
  <2>4. QueueTyped'
    BY <2>1, <2>2 DEF IInv, QueueTyped, LoopState
  <2>5. ExitLast'
    <3>1. ~Has(queue, "exit") /\ current.type # "exit" /\ ~Posting
      BY <2>1 DEF IInv, ExitLast, Over
    <3>2. Has(queue, "exit")' => Over'
      BY <2>1, <2>2, <3>1 DEF IInv, ExitLast, Over, Has
    <3>3. current'.type # "exit" /\ ~Posting'
      BY <2>1, <3>1 DEF Posting
    <3>4. ExitAtEnd(inbox)' /\ (Has(inbox, "exit")' => messages' > MaxMessages)
      BY <2>1 DEF IInv, ExitLast, Has, ExitAtEnd
    <3>. QED
      BY <2>1, <3>2, <3>3, <3>4, Tasks DEF ExitLast
  <2>6. Room'
    <3>1. ~Posting
      BY <2>1 DEF IInv, ExitLast, Over
    <3>. QED
      BY <2>1, <2>2, <3>1 DEF IInv, Room, UIPushes, OtherPushes, Posting
  <2>. QED
    BY <2>3, <2>4, <2>5, <2>6 DEF IInv
<1>. QED
  BY <1>1, <1>2 DEF IpcNext

\* The UI thread.
LEMMA UIKeeps ==
    ASSUME IInv, UINext
    PROVE  IInv'
<1>1. CASE UITaskPost
  <2>1. /\ UNCHANGED <<ability, misled, inbox, ipc, queue, loop, current, running, quit, asked, dropped, messages>>
        /\ ui = "loop" /\ ui' \in {"done", "posting", "loop"} /\ (ui' = "posting" => HasRoom)
    BY <1>1 DEF UITaskPost
  <2>2. AbilitiesInv'
    BY <2>1 DEF IInv, AbilitiesInv, AbilitiesTyped, AbilitiesSound
  <2>3. QueueTyped'
    BY <2>1 DEF IInv, QueueTyped
  <2>4. ExitLast'
    BY <2>1 DEF IInv, ExitLast, ExitAtEnd, Has, Posting, Over
  <2>5. Room'
    <3>1. CASE ui' = "posting"
      BY <2>1, <3>1, OneMorePush DEF IInv
    <3>2. CASE ui' # "posting"
      BY <2>1, <3>2 DEF IInv, Room, UIPushes, OtherPushes
    <3>. QED
      BY <3>1, <3>2
  <2>. QED
    BY <2>2, <2>3, <2>4, <2>5 DEF IInv
<1>2. CASE UITaskPush
  <2>1. /\ ui = "posting" /\ ui' = "loop" /\ queue \in Seq(TaskType) /\ queue' = Append(queue, Task("ui"))
        /\ loop' = (IF loop = "waiting" THEN "woken" ELSE loop)
        /\ UNCHANGED <<ability, misled, inbox, ipc, current, running, quit, asked, dropped, messages>>
    BY <1>2 DEF UITaskPush, Push, IInv, QueueTyped
  <2>2. /\ queue' \in Seq(TaskType) /\ Len(queue') = Len(queue) + 1 /\ Len(queue) \in Nat
        /\ Has(queue', "exit") => Has(queue, "exit")
    BY <2>1, Appended, Tasks
  <2>3. AbilitiesInv'
    BY <2>1 DEF IInv, AbilitiesInv, AbilitiesTyped, AbilitiesSound
  <2>4. QueueTyped'
    BY <2>1, <2>2 DEF IInv, QueueTyped, LoopState
  <2>5. ExitLast'
    BY <2>1, <2>2 DEF IInv, ExitLast, ExitAtEnd, Has, Posting, Over
  <2>6. Room'
    BY <2>1, <2>2 DEF IInv, Room, UIPushes, OtherPushes
  <2>. QED
    BY <2>3, <2>4, <2>5, <2>6 DEF IInv
<1>. QED
  BY <1>1, <1>2 DEF UINext

\* The end of a task that has posted nothing.
LEMMA DoneKeeps ==
    ASSUME IInv, Done, UNCHANGED <<inbox, ipc, queue, messages>>, AbilitiesInv',
           ui' = ui \/ (ui = "off" /\ ui' = "loop"),
           running' \in BOOLEAN, quit' \in BOOLEAN, dropped' \in BOOLEAN, asked' \in [Token -> Int]
    PROVE  IInv'
<1>1. QueueTyped'
  BY DEF IInv, QueueTyped, Done, LoopState
<1>2. ExitLast'
  BY Tasks DEF IInv, ExitLast, ExitAtEnd, Has, Posting, Over, Done
<1>3. Room'
  <2>1. UIPushes' = UIPushes /\ OtherPushes' <= OtherPushes
    BY DEF UIPushes, OtherPushes, Done
  <2>2. UIPushes \in Nat /\ OtherPushes \in Nat /\ OtherPushes' \in Nat /\ Len(queue) \in Nat
    BY DEF UIPushes, OtherPushes, IInv, QueueTyped
  <2>. QED
    BY <2>1, <2>2, NoMorePush DEF IInv
<1>. QED
  BY <1>1, <1>2, <1>3 DEF IInv

\* A transaction: the ability it is about is between two callbacks again.
LEMMA TransactKeeps ==
    ASSUME IInv, PerformTransactAbilityState
    PROVE  IInv'
<1>. DEFINE t  == current.token
            a  == IF t \in DOMAIN ability THEN ability[t] ELSE NewAbility(Kind[t])
            a1 == IF a.state = current.state THEN a ELSE HandleLifecycleTransaction(a, current.state)
<1>1. t \in Token /\ current.state \in AbilityState
  BY Tasks DEF PerformTransactAbilityState, Performs, IInv, QueueTyped
<1>2. AbilitiesInv'
  <2>1. CASE Kind[t] = "unknown"
    BY <2>1 DEF PerformTransactAbilityState, IInv, AbilitiesInv, AbilitiesTyped, AbilitiesSound
  <2>2. CASE Kind[t] # "unknown"
    <3>1. /\ ability' = IF a1.state = "INITIAL" /\ ~a1.exited THEN Without(ability, t) ELSE With(ability, t, a1)
          /\ misled' = (misled \/ a1.misled)
      BY <2>2 DEF PerformTransactAbilityState
    <3>2. Kind[t] \in {"page", "service"} /\ NewAbility(Kind[t]) \in AbilityType
      <4>1. Kind[t] \in {"page", "service"}
        BY <1>1, <2>2, AppAssumption
      <4>2. [x \in Slice |-> "UNINITIALIZED"] \in [Slice -> SliceState] /\ <<>> \in Seq(Slice)
        BY EmptySeq DEF SliceState
      <4>. QED
        BY <4>1, <4>2 DEF NewAbility, AbilityType, AbilityState
    <3>3. a \in AbilityType
      BY <3>2 DEF IInv, AbilitiesInv, AbilitiesTyped
    <3>4. ~Represent => AbilityInv(a) \/ \E kind \in {"page", "service"} : a = NewAbility(kind)
      BY <3>2 DEF IInv, AbilitiesInv, AbilitiesSound
    <3>. HIDE DEF a
    <3>5. a1 \in AbilityType
      BY <1>1, <3>3, TransactionTyped
    <3>6. ~Represent => ~a1.exited /\ ~a1.misled /\ (a1.state = "INITIAL" \/ AbilityInv(a1))
      <4>1. CASE a.state = current.state
        <5>1. AbilityInv(a) => ~a1.exited /\ ~a1.misled /\ AbilityInv(a1)
          BY <4>1, InvState
        <5>2. (\E kind \in {"page", "service"} : a = NewAbility(kind))
                => ~a1.exited /\ ~a1.misled /\ a1.state = "INITIAL"
          BY <4>1 DEF NewAbility
        <5>. QED
          BY <3>4, <5>1, <5>2
      <4>2. CASE a.state # current.state
        BY <1>1, <3>4, <4>2, TransactionKeeps
      <4>. QED
        BY <4>1, <4>2
    <3>. HIDE DEF a1, t
    <3>7. AbilitiesTyped'
      <4>1. misled' \in BOOLEAN
        BY <3>1, <3>5 DEF IInv, AbilitiesInv, AbilitiesTyped, AbilityType
      <4>2. DOMAIN ability' \subseteq Token /\ \A u \in DOMAIN ability' : ability'[u] \in AbilityType
        BY <1>1, <3>1, <3>5 DEF Without, With, IInv, AbilitiesInv, AbilitiesTyped
      <4>. QED
        BY <4>1, <4>2 DEF AbilitiesTyped
    <3>8. ~Represent => AbilitiesSound'
      <4>1. SUFFICES ASSUME ~Represent PROVE AbilitiesSound'
        OBVIOUS
      <4>2. ~misled'
        BY <3>1, <3>6, <4>1 DEF IInv, AbilitiesInv, AbilitiesSound
      <4>3. \A u \in DOMAIN ability' : AbilityInv(ability'[u])
        <5>1. CASE a1.state = "INITIAL"
          BY <3>1, <3>6, <4>1, <5>1 DEF Without, IInv, AbilitiesInv, AbilitiesSound
        <5>2. CASE a1.state # "INITIAL"
          BY <3>1, <3>6, <4>1, <5>2 DEF With, IInv, AbilitiesInv, AbilitiesSound
        <5>. QED
          BY <5>1, <5>2
      <4>. QED
        BY <4>2, <4>3 DEF AbilitiesSound
    <3>. QED
      BY <3>7, <3>8 DEF AbilitiesInv
  <2>. QED
    BY <2>1, <2>2
<1>3. /\ Done /\ UNCHANGED <<inbox, ipc, queue, messages>>
      /\ ui' = ui \/ (ui = "off" /\ ui' = "loop")
  BY DEF PerformTransactAbilityState, InitUITaskEnv
<1>4. running' \in BOOLEAN /\ quit' \in BOOLEAN /\ dropped' \in BOOLEAN
  BY DEF PerformTransactAbilityState, IInv, QueueTyped
<1>5. asked' \in [Token -> Int]
  BY <1>1 DEF PerformTransactAbilityState, Report, IInv, QueueTyped
<1>. QED
  BY <1>2, <1>3, <1>4, <1>5, DoneKeeps

\* A slice presented or terminated by a UI event.
LEMMA UITaskKeeps ==
    ASSUME IInv, PerformUITask
    PROVE  IInv'
<1>1. AbilitiesInv'
  <2>1. CASE UNCHANGED ability
    BY <2>1 DEF PerformUITask, IInv, AbilitiesInv, AbilitiesTyped, AbilitiesSound
  <2>2. CASE \E t \in DOMAIN ability : ability[t].kind = "page" /\ UIEvent(t)
    <3>1. PICK t \in DOMAIN ability : ability[t].kind = "page" /\ UIEvent(t)
      BY <2>2
    <3>2. ability[t] \in AbilityType /\ (~Represent => PageInv(ability[t]))
      BY <3>1 DEF IInv, AbilitiesInv, AbilitiesTyped, AbilitiesSound, AbilityInv, ServiceInv
    <3>3. PICK r : /\ r \in AbilityType /\ (~Represent => PageInv(r))
                   /\ ability' = [ability EXCEPT ![t] = r]
      <4>1. PICK x \in Slice :
               \/ \E y \in Slice :
                     /\ Represent \/ ability[t].slice[y] \in {"UNINITIALIZED", "INITIAL"}
                     /\ ability' = [ability EXCEPT ![t] = AddAbilitySlice(ability[t], x, y)]
               \/ ability' = [ability EXCEPT ![t] = RemoveAbilitySlice(ability[t], x)]
        BY <3>1 DEF UIEvent
      <4>. QED
        BY <3>2, <4>1, AddKeeps, RemoveKeeps, AddTyped, RemoveTyped
    <3>4. misled' = misled
      BY DEF PerformUITask
    <3>5. AbilitiesTyped'
      BY <3>1, <3>3, <3>4 DEF IInv, AbilitiesInv, AbilitiesTyped
    <3>6. ~Represent => AbilitiesSound'
      BY <3>1, <3>3, <3>4 DEF IInv, AbilitiesInv, AbilitiesSound, AbilityInv
    <3>. QED
      BY <3>5, <3>6 DEF AbilitiesInv
  <2>. QED
    BY <2>1, <2>2 DEF PerformUITask
<1>2. /\ Done /\ UNCHANGED <<inbox, ipc, queue, messages, ui>>
      /\ running' \in BOOLEAN /\ quit' \in BOOLEAN /\ dropped' \in BOOLEAN /\ asked' \in [Token -> Int]
  BY DEF PerformUITask, IInv, QueueTyped
<1>. QED
  BY <1>1, <1>2, DoneKeeps

\* The tasks that touch neither an ability nor the queue.
LEMMA TaskKeeps ==
    ASSUME IInv, PerformAppInit \/ PerformStop \/ PerformQuit \/ (PostQuit /\ ~HasRoom)
    PROVE  IInv'
<1>1. Done /\ UNCHANGED <<ability, misled, inbox, ipc, queue, messages, ui, asked>>
  BY DEF PerformAppInit, PerformStop, PerformQuit, PostQuit
<1>2. running' \in BOOLEAN /\ quit' \in BOOLEAN /\ dropped' \in BOOLEAN
  <2>1. running \in BOOLEAN /\ quit \in BOOLEAN /\ dropped \in BOOLEAN
    BY DEF IInv, QueueTyped
  <2>2. running' = running \/ running' = FALSE
    BY DEF PerformAppInit, PerformStop, PerformQuit, PostQuit
  <2>3. quit' = quit \/ quit' = TRUE
    BY DEF PerformAppInit, PerformStop, PerformQuit, PostQuit
  <2>4. dropped' = dropped \/ dropped' = TRUE
    BY DEF PerformAppInit, PerformStop, PerformQuit, PostQuit
  <2>. QED
    BY <2>1, <2>2, <2>3, <2>4
<1>3. AbilitiesInv' /\ asked' \in [Token -> Int]
  BY <1>1 DEF IInv, AbilitiesInv, AbilitiesTyped, AbilitiesSound, QueueTyped
<1>. QED
  BY <1>1, <1>2, <1>3, DoneKeeps

\* The exit: the main thread looks for room, and pushes.
LEMMA ExitKeeps ==
    ASSUME IInv, PerformAppExit \/ PushStop \/ (PostQuit /\ HasRoom) \/ PushQuit
    PROVE  IInv'
<1>1. /\ UNCHANGED <<ability, misled, inbox, ipc, ui, running, quit, asked, dropped, messages>>
      /\ queue \in Seq(TaskType) /\ Over
  <2>1. Over
    BY DEF PerformAppExit, PushStop, PostQuit, PushQuit, Performs, IInv, ExitLast, Posting
  <2>2. UNCHANGED <<ability, misled, inbox, ipc, ui, running, quit, asked, dropped, messages>>
    BY DEF PerformAppExit, PushStop, PostQuit, PushQuit, Done
  <2>. QED
    BY <2>1, <2>2 DEF IInv, QueueTyped
<1>2. AbilitiesInv'
  BY <1>1 DEF IInv, AbilitiesInv, AbilitiesTyped, AbilitiesSound
<1>3. CASE PerformAppExit \/ (PostQuit /\ HasRoom)
  <2>1. /\ queue' = queue /\ current' = current
        /\ loop \in {"perform", "postQuit"} /\ loop' \in {"pushStop", "postQuit", "pushQuit"}
        /\ (loop' \in {"pushStop", "pushQuit"} => HasRoom)
    BY <1>3 DEF PerformAppExit, PostQuit, Performs
  <2>2. QueueTyped'
    BY <1>1, <2>1 DEF IInv, QueueTyped, LoopState
  <2>3. ExitLast'
    BY <1>1, <2>1 DEF IInv, ExitLast, ExitAtEnd, Has, Posting, Over
  <2>4. Room'
    <3>1. CASE HasRoom
      BY <2>1, <3>1, OneMorePush DEF IInv
    <3>2. CASE ~HasRoom
      BY <1>1, <2>1, <3>2 DEF IInv, Room, UIPushes, OtherPushes
    <3>. QED
      BY <3>1, <3>2
  <2>. QED
    BY <1>2, <2>2, <2>3, <2>4 DEF IInv
<1>4. CASE PushStop \/ PushQuit
  <2>1. /\ loop \in {"pushStop", "pushQuit"} /\ loop' \in {"postQuit", "run"}
        /\ current' \in {current, NoTask}
        /\ \E task \in {Task("stop"), Task("quit")} : queue' = Append(queue, task)
    BY <1>4 DEF PushStop, PushQuit, Done
  <2>2. /\ queue' \in Seq(TaskType) /\ Len(queue') = Len(queue) + 1 /\ Len(queue) \in Nat
    BY <1>1, <2>1, Appended, Tasks
  <2>3. QueueTyped'
    BY <1>1, <2>1, <2>2 DEF IInv, QueueTyped, LoopState
  <2>4. ExitLast'
    BY <1>1, <2>1, Tasks DEF IInv, ExitLast, ExitAtEnd, Has, Posting, Over
  <2>5. Room'
    <3>1. ipc = NoTask
      BY <1>1 DEF Over
    <3>. QED
      BY <1>1, <2>1, <2>2, <3>1 DEF IInv, Room, UIPushes, OtherPushes
  <2>. QED
    BY <1>2, <2>3, <2>4, <2>5 DEF IInv
<1>. QED
  BY <1>3, <1>4

\* A message of the service.
LEMMA AmsKeeps ==
    ASSUME IInv, AmsNext
    PROVE  IInv'
<1>1. /\ UNCHANGED <<ability, misled, ipc, ui, queue, loop, current, running, quit, dropped>>
      /\ messages <= MaxMessages /\ messages' \in Nat /\ asked' \in [Token -> Int]
      /\ \E task \in TaskType :
            /\ inbox' = Append(inbox, task)
            /\ task.type = "exit" => messages' > MaxMessages
  <2>1. CASE AmsExit
    <3>1. Task("exit") \in TaskType /\ MaxMessages \in Nat /\ messages' = MaxMessages + 1
      BY <2>1, Tasks, AppAssumption DEF AmsExit
    <3>. QED
      BY <2>1, <3>1 DEF AmsExit, IInv, QueueTyped
  <2>2. CASE \E t \in Token, state \in AbilityState : AmsTransact(t, state)
    <3>1. PICK t \in Token, state \in AbilityState : AmsTransact(t, state)
      BY <2>2
    <3>. DEFINE task == [type |-> "transact", token |-> t, state |-> state]
    <3>2. task \in TaskType /\ task.type # "exit"
      BY DEF TaskType
    <3>3. messages < MaxMessages /\ messages' = messages + 1 /\ inbox' = Append(inbox, task)
      BY <3>1 DEF AmsTransact, Sends
    <3>4. UNCHANGED <<ability, misled, ipc, ui, queue, loop, current, running, quit, dropped>>
      BY <3>1 DEF AmsTransact, Sends
    <3>5. asked' \in [Token -> Int]
      BY <3>1 DEF AmsTransact, IInv, QueueTyped
    <3>6. messages \in Nat /\ MaxMessages \in Nat
      BY AppAssumption DEF IInv, QueueTyped
    <3>. HIDE DEF task
    <3>. QED
      BY <3>2, <3>3, <3>4, <3>5, <3>6
  <2>. QED
    BY <2>1, <2>2 DEF AmsNext
<1>2. PICK task \in TaskType : inbox' = Append(inbox, task) /\ (task.type = "exit" => messages' > MaxMessages)
  BY <1>1
<1>3. /\ messages \in Nat /\ MaxMessages \in Nat /\ inbox \in Seq(TaskType)
      /\ ~(messages > MaxMessages)
  BY <1>1, AppAssumption DEF IInv, QueueTyped
<1>4. ~Has(inbox, "exit") /\ ipc.type # "exit" /\ ~Has(queue, "exit") /\ current.type # "exit" /\ ~Posting
  BY <1>3 DEF IInv, ExitLast, Over
<1>5. /\ inbox' \in Seq(TaskType) /\ ExitAtEnd(inbox')
      /\ Has(inbox', "exit") => task.type = "exit"
  BY <1>2, <1>3, <1>4, Appended
<1>6. AbilitiesInv'
  BY <1>1 DEF IInv, AbilitiesInv, AbilitiesTyped, AbilitiesSound
<1>7. QueueTyped'
  BY <1>1, <1>5 DEF IInv, QueueTyped
<1>8. ExitLast'
  BY <1>1, <1>2, <1>4, <1>5 DEF ExitLast, Has, ExitAtEnd, Posting
<1>9. Room'
  BY <1>1 DEF IInv, Room, UIPushes, OtherPushes
<1>. QED
  BY <1>6, <1>7, <1>8, <1>9 DEF IInv

\* The invariant is inductive.
LEMMA StepKeeps == IInv /\ [Next]_vars => IInv'
<1>. SUFFICES ASSUME IInv, [Next]_vars PROVE IInv'
  OBVIOUS
<1>1. CASE MainNext
  BY <1>1, RunKeeps, TaskKeeps, TransactKeeps, UITaskKeeps, ExitKeeps DEF MainNext
<1>2. CASE IpcNext
  BY <1>2, IpcKeeps
<1>3. CASE UINext
  BY <1>3, UIKeeps
<1>4. CASE AmsNext
  BY <1>4, AmsKeeps
<1>5. CASE UNCHANGED vars
  BY <1>5
  DEF vars, IInv, AbilitiesInv, AbilitiesTyped, AbilitiesSound, QueueTyped, ExitLast, ExitAtEnd, Has, Posting, Over,
      Room, UIPushes, OtherPushes
<1>. QED
  BY <1>1, <1>2, <1>3, <1>4, <1>5 DEF Next

-----------------------------------------------------------------------------
(* The theorems.                                                           *)

\* IInv is an invariant of the process.
THEOREM Invariance == Spec => []IInv
BY InitEstablishes, StepKeeps, PTL DEF Spec

\* The memory of the process stays well typed, and however the posts of its threads
\* interleave, the queue exceeds its capacity by one task at most.
THEOREM QueueBounded == Spec => []AppTypeOK
<1>1. IInv => AppTypeOK
  <2>. SUFFICES ASSUME IInv PROVE AppTypeOK
    OBVIOUS
  <2>1. \A t \in DOMAIN ability : ability[t] \in AbilityType
    BY DEF IInv, AbilitiesInv, AbilitiesTyped
  <2>2. Len(queue) <= Capacity + 1
    <3>1. Len(queue) \in Nat /\ Capacity \in Nat /\ UIPushes \in Nat /\ OtherPushes \in Nat
      BY AppAssumption DEF IInv, QueueTyped, UIPushes, OtherPushes
    <3>. QED
      BY <3>1 DEF IInv, Room
  <2>. QED
    BY <2>1, <2>2 DEF IInv, AbilitiesInv, AbilitiesTyped, QueueTyped, AppTypeOK
<1>. QED
  BY <1>1, Invariance, PTL

\* Whatever the service asks for, and whatever slices the application presents that
\* have not been started or have been destroyed (ability_slice.h:118), no callback
\* comes out of order, also as an ability ends, and no check calls exit(-1).
THEOREM CallbacksInOrder ==
    ASSUME ~Represent
    PROVE  Spec => []InOrder
<1>1. IInv => InOrder
  BY InvState DEF IInv, AbilitiesInv, AbilitiesSound, InOrder
<1>. QED
  BY <1>1, Invariance, PTL

\* The slices of a page follow it, however deep its stack becomes, if no slice is
\* presented that is on the stack.
THEOREM SlicesInStep ==
    ASSUME ~Represent
    PROVE  Spec => []SlicesFollow
<1>1. IInv => SlicesFollow
  BY DEF IInv, AbilitiesInv, AbilitiesSound, AbilityInv, PageInv, ServiceInv, SlicesFollow
<1>. QED
  BY <1>1, Invariance, PTL

\* The window of a page shows its slice on top exactly when the page is in front, if
\* no slice is presented that is on the stack.
THEOREM WindowInStep ==
    ASSUME ~Represent
    PROVE  Spec => []ScreenShowsTop
<1>1. IInv => ScreenShowsTop
  BY DEF IInv, AbilitiesInv, AbilitiesSound, AbilityInv, PageInv, ServiceInv, ScreenShowsTop
<1>. QED
  BY <1>1, Invariance, PTL

\* When the main thread handles the exit, no message of the service is on its way:
\* no task is queued behind the quit task but those of the UI thread.
THEOREM ExitIsLast == Spec => [](Posting => Over)
<1>1. IInv => (Posting => Over)
  BY DEF IInv, ExitLast
<1>. QED
  BY <1>1, Invariance, PTL
=============================================================================
