----------------------------- MODULE AppSlices -----------------------------
(***************************************************************************)
(* A page ability and its slices (Ability, AbilitySliceManager,            *)
(* AbilitySliceScheduler, AbilitySlice, AbilitySliceStack, AbilityWindow). *)
(*                                                                         *)
(* A function of the code is an operator from an ability a to an ability:  *)
(*   kind      "page" or "service": a service has neither slices nor window *)
(*   state     abilityState_                                               *)
(*   top       topAbilitySlice_                                            *)
(*   stack     abilitySliceStack_, the top of the stack first              *)
(*   slice     the state of each slice                                     *)
(*   window    abilityWindow_: none, empty (nothing attached yet), created *)
(*             (attached and not yet shown), shown or hidden               *)
(*   content   the slice whose root view is bound to the window            *)
(*   exited    TRUE once a check of the code has called exit(-1)           *)
(*   misled    TRUE once a slice has got a callback out of order           *)
(***************************************************************************)
EXTENDS Naturals, Sequences, FiniteSets

CONSTANTS
    Slice,          \* the slices of a page
    Main,           \* the slice of its main route
    Blank,          \* the slices that set no content of their own (a page whose
                    \* main slice is one of them exits at its start)
    None

ASSUME SlicesAssumption ==
    /\ Blank \subseteq Slice
    /\ Main \in Slice \ Blank
    /\ None \notin Slice

AbilityState == {"INITIAL", "INACTIVE", "ACTIVE", "BACKGROUND"}
SliceState == AbilityState \cup {"UNINITIALIZED"}

\* Ability::Init
NewAbility(kind) ==
    [kind |-> kind, state |-> "INITIAL", top |-> None, stack |-> <<>>,
     slice |-> [x \in Slice |-> "UNINITIALIZED"],
     window |-> IF kind = "page" THEN "empty" ELSE "none", content |-> None,
     exited |-> FALSE, misled |-> FALSE]

Exit(a) == [a EXCEPT !.exited = TRUE]

Stacked(a) == {a.stack[i] : i \in DOMAIN a.stack}

-----------------------------------------------------------------------------
(* The window.                                                             *)

\* Ability::SetUIContent and AbilityWindow::SetRootView
SetUIContent(a, x) ==
    IF a.window = "none" THEN Exit(a)
    ELSE [a EXCEPT !.window = IF @ = "empty" THEN "created" ELSE @, !.content = x]

\* EnsureLatestUIAttached, then Show or Hide
ShowWindow(a, how) == IF a.window = "empty" THEN Exit(a) ELSE [a EXCEPT !.window = how]

OnPostAbilityStop(a) ==
    IF a.window = "empty" THEN Exit(a) ELSE [a EXCEPT !.window = "none", !.content = None]

-----------------------------------------------------------------------------
(* The callbacks of a slice.  The application's override does what it has  *)
(* to do around the one of AbilitySlice: it sets its content in OnStart.   *)

\* The states in which a slice expects a callback.
Expects(callback) ==
    CASE callback = "OnStart"      -> {"INITIAL"}
      [] callback = "OnActive"     -> {"INACTIVE", "BACKGROUND"}
      [] callback = "OnInactive"   -> {"ACTIVE"}
      [] callback = "OnBackground" -> {"INACTIVE"}
      [] callback = "OnStop"       -> {"BACKGROUND"}

Call(a, x, callback, state) ==
    [a EXCEPT !.slice[x] = state, !.misled = @ \/ a.slice[x] \notin Expects(callback)]

SliceOnStart(a, x) ==
    LET a1 == Call(a, x, "OnStart", "INACTIVE")
    IN  IF x \in Blank THEN a1 ELSE SetUIContent(a1, x)

SliceOnActive(a, x) ==
    LET a1 == IF a.slice[x] = "BACKGROUND" /\ x \notin Blank THEN SetUIContent(a, x) ELSE a
    IN  Call(a1, x, "OnActive", "ACTIVE")

SliceOnInactive(a, x)   == Call(a, x, "OnInactive", "INACTIVE")
SliceOnBackground(a, x) == Call(a, x, "OnBackground", "BACKGROUND")
SliceOnStop(a, x)       == Call(a, x, "OnStop", "INITIAL")

\* AbilitySlice::Init
SliceInit(a, x) == [a EXCEPT !.slice[x] = "INITIAL"]

-----------------------------------------------------------------------------
(* AbilitySliceScheduler: the lifecycle of the ability, for its slices.    *)

\* The slice the loader makes for the main route.
GetTargetAbilitySlice == Main

HandleStartAbilitySlice(a) ==
    LET top == IF a.top = None THEN GetTargetAbilitySlice ELSE a.top
    IN  SliceOnStart(SliceInit([a EXCEPT !.top = top], top), top)

\* The other callbacks go to the slice on top, if there is one.
HandleInactiveAbilitySlice(a) == IF a.top = None THEN a ELSE SliceOnInactive(a, a.top)
HandleActiveAbilitySlice(a) == IF a.top = None THEN a ELSE SliceOnActive(a, a.top)
HandleMoveAbilitySliceToBackground(a) == IF a.top = None THEN a ELSE SliceOnBackground(a, a.top)

\* The slice on top is stopped, and every slice under it: one that is there more
\* than once is stopped as often.
HandleStopAbilitySlice(a) ==
    LET ends == Stacked(a) \cup {a.top}
    IN  IF a.top = None THEN a
        ELSE [a EXCEPT !.slice = [x \in Slice |-> IF x \in ends THEN "INITIAL" ELSE @[x]],
                       !.misled = @ \/ a.top \in Stacked(a)
                                    \/ (\E i, j \in DOMAIN a.stack : i # j /\ a.stack[i] = a.stack[j])
                                    \/ \E x \in ends : a.slice[x] \notin Expects("OnStop"),
                       !.top = None, !.stack = <<>>]

CheckLegalForAdd(a, caller, target) ==
    /\ a.top # None
    /\ a.state = "ACTIVE"
    /\ a.slice[caller] \notin {"UNINITIALIZED", "INITIAL"}
    /\ a.slice[target] # "ACTIVE"
    /\ target # a.top

AddAbilitySlice(a, caller, target) ==
    LET a1 == IF a.slice[a.top] = "ACTIVE" THEN SliceOnInactive(a, a.top) ELSE a
        a2 == IF a1.slice[target] = "UNINITIALIZED" THEN SliceInit(a1, target) ELSE a1
        a3 == IF a2.slice[target] = "INITIAL" THEN SliceOnStart(a2, target) ELSE a2
        a4 == SliceOnActive(a3, target)
        a5 == IF a4.slice[a.top] = "INACTIVE" THEN SliceOnBackground(a4, a.top) ELSE a4
    IN  IF CheckLegalForAdd(a, caller, target)
        THEN [a5 EXCEPT !.stack = <<a.top>> \o @, !.top = target]
        ELSE a

\* The only slice of an ability is not removed: the ability is asked to end.
CheckLegalForRemove(a, x) ==
    /\ a.top # None
    /\ a.state = "ACTIVE"
    /\ x \in Stacked(a) \cup {a.top}
    /\ a.slice[x] \notin {"UNINITIALIZED", "INITIAL"}
    /\ a.stack # <<>>

\* Mutant: a slice of the stack is stopped and stays in it.
RemoveStopped(a, x) == SliceOnStop(a, x)

\* The elements at the positions S, in their order.
Keep(stack, S) ==
    [k \in 1..Cardinality(S) |->
        stack[CHOOSE i \in S : Cardinality({j \in S : j < i}) = k - 1]]

\* AbilitySliceStack::Remove, after the slice has been stopped: it leaves the stack
\* wherever it is in it.
RemoveStacked(a, x) ==
    [SliceOnStop(a, x) EXCEPT !.stack = Keep(@, {i \in DOMAIN @ : @[i] # x})]

\* Mutant: the slice underneath is shown without being told.
RemoveTopSilently(a) ==
    LET a1 == SliceOnStop(SliceOnBackground(SliceOnInactive(a, a.top), a.top), a.top)
    IN  [a1 EXCEPT !.stack = Tail(@), !.top = Head(a.stack), !.slice[Head(a.stack)] = "ACTIVE"]

\* The slice underneath is ACTIVE before the one on top ends.
RemoveTop(a) ==
    LET next == Head(a.stack)
        a1   == SliceOnActive([SliceOnInactive(a, a.top) EXCEPT !.stack = Tail(@)], next)
        a2   == SliceOnStop(SliceOnBackground(a1, a.top), a.top)
    IN  [a2 EXCEPT !.top = next]

RemoveAbilitySlice(a, x) ==
    CASE ~CheckLegalForRemove(a, x)               -> a
      [] CheckLegalForRemove(a, x) /\ x = a.top   -> RemoveTop(a)
      [] CheckLegalForRemove(a, x) /\ x # a.top   -> RemoveStacked(a, x)

-----------------------------------------------------------------------------
(* The callbacks of an ability.  A page delivers each to its slices before *)
(* it takes the new state; each exits if it comes in a wrong state.        *)

InState(a, states, then) == IF a.state \in states THEN then ELSE Exit(a)

Deliver(a, page) == IF a.kind = "page" THEN page ELSE a

OnStart(a) ==
    LET a1 == Deliver(a, ShowWindow(HandleStartAbilitySlice(a), "shown"))
    IN  InState(a, {"INITIAL"}, [a1 EXCEPT !.state = "INACTIVE"])

OnInactive(a) ==
    LET a1 == Deliver(a, HandleInactiveAbilitySlice(a))
    IN  InState(a, {"ACTIVE"}, [a1 EXCEPT !.state = "INACTIVE"])

OnActive(a) ==
    LET a1 == Deliver(a, HandleActiveAbilitySlice(a))
        a2 == Deliver(a, IF a.state = "BACKGROUND" THEN ShowWindow(a1, "shown") ELSE a1)
    IN  InState(a, {"INACTIVE", "BACKGROUND"}, [a2 EXCEPT !.state = "ACTIVE"])

OnBackground(a) ==
    LET a1 == Deliver(a, ShowWindow(HandleMoveAbilitySliceToBackground(a), "hidden"))
    IN  InState(a, {"INACTIVE"}, [a1 EXCEPT !.state = "BACKGROUND"])

OnStop(a) ==
    LET a1 == Deliver(a, OnPostAbilityStop(HandleStopAbilitySlice(a)))
    IN  InState(a, {"BACKGROUND"}, [a1 EXCEPT !.state = "INITIAL"])

\* Mutant: an ability goes to the background without being INACTIVE first.
HandleLifecycleAtOnce(a, state) ==
    LET a1 == IF a.state = "INITIAL" THEN OnStart(a) ELSE a
    IN  CASE state = "INITIAL"    -> OnStop(IF a1.state # "BACKGROUND" THEN OnBackground(a1) ELSE a1)
          [] state = "INACTIVE"   -> IF a1.state = "ACTIVE" THEN OnInactive(a1) ELSE a1
          [] state = "ACTIVE"     -> OnActive(a1)
          [] state = "BACKGROUND" -> OnBackground(a1)

\* AbilityThread::HandleLifecycleTransaction: the callbacks on the way to the
\* state that is asked for.  From BACKGROUND there is no way to INACTIVE.
HandleLifecycleTransaction(a, state) ==
    LET a1 == IF a.state = "INITIAL" THEN OnStart(a) ELSE a
        a2 == IF a1.state = "ACTIVE" THEN OnInactive(a1) ELSE a1
        a3 == IF a2.state = "INACTIVE" THEN OnBackground(a2) ELSE a2
    IN  CASE state = "INITIAL"    -> OnStop(a3)
          [] state = "INACTIVE"   -> a2
          [] state = "ACTIVE"     -> OnActive(a2)
          [] state = "BACKGROUND" -> a3

-----------------------------------------------------------------------------
(* What the parts of a page have to do with one another.                   *)

AbilityType ==
    [kind : {"page", "service"}, state : AbilityState, top : Slice \cup {None}, stack : Seq(Slice),
     slice : [Slice -> SliceState], window : {"none", "empty", "created", "shown", "hidden"},
     content : Slice \cup {None}, exited : BOOLEAN, misled : BOOLEAN]

\* The slices of a page follow it: the one on top is in the page's state, those
\* on the stack are in the background, each once, and the others are not started.
FollowsPage(a) ==
    /\ a.state # "INITIAL"
    /\ a.top # None
    /\ a.slice[a.top] = a.state
    /\ a.top \notin Stacked(a)
    /\ \A i, j \in DOMAIN a.stack : a.stack[i] = a.stack[j] => i = j
    /\ \A x \in Stacked(a) : a.slice[x] = "BACKGROUND"
    /\ \A x \in Slice \ (Stacked(a) \cup {a.top}) : a.slice[x] \in {"UNINITIALIZED", "INITIAL"}

\* The window is on the screen when the page is INACTIVE or ACTIVE, and shows the
\* slice on top if that has content of its own.
ShowsTop(a) ==
    /\ a.window = (IF a.state = "BACKGROUND" THEN "hidden" ELSE "shown")
    /\ a.top \notin Blank => a.content = a.top
=============================================================================
