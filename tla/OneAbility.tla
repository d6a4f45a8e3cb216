----------------------------- MODULE OneAbility -----------------------------
(***************************************************************************)
(* What the mini system promises its applications: one ability exists at a  *)
(* time, and it gets its callbacks in the order slite_ability.h describes:  *)
(* OnCreate once, then OnForeground and OnBackground in turn, and OnDestroy  *)
(* only in the background.  An ability goes when it was destroyed, or at     *)
(* once, without any callback, when it is in the foreground and forced to    *)
(* stop.                                                                   *)
(***************************************************************************)
CONSTANT App

VARIABLE ability    \* the set of abilities that exist: [app, life]

Init == ability = {}

\* The task of an ability is created in the place of the one before, if any.
Launch(a) ==
    /\ \A x \in ability : x.life \in {"FOREGROUND", "UNINITIALIZED"}
    /\ ability' = {[app |-> a, life |-> "NONE"]}

OnCallback(from, to) ==
    \E a \in App :
        /\ ability = {[app |-> a, life |-> from]}
        /\ ability' = {[app |-> a, life |-> to]}

OnCreate == OnCallback("NONE", "INITIAL")
OnForeground == OnCallback("INITIAL", "FOREGROUND") \/ OnCallback("BACKGROUND", "FOREGROUND")
OnBackground == OnCallback("FOREGROUND", "BACKGROUND")
OnDestroy == OnCallback("BACKGROUND", "UNINITIALIZED")

Release ==
    /\ \A x \in ability : x.life \in {"FOREGROUND", "UNINITIALIZED"}
    /\ ability' = {}

Next ==
    \/ \E a \in App : Launch(a)
    \/ OnCreate \/ OnForeground \/ OnBackground \/ OnDestroy
    \/ Release

Spec == Init /\ [][Next]_ability
=============================================================================
