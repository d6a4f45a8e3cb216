------------------------------ MODULE MCWants ------------------------------
(***************************************************************************)
(* A small instance of Wants: a number that takes more than one byte, a    *)
(* number that is refused, and a string.                                   *)
(***************************************************************************)
EXTENDS Wants

MCTarget == [device |-> None, bundle |-> "media", ability |-> "Play"]
MCRaw == <<7, 7, 7>>
MCKeyOf == [p \in Param |-> CASE p = "volume" -> <<118>> [] p = "pan" -> <<112>> [] OTHER -> <<116, 116>>]
MCValueOf == [p \in Param |-> CASE p = "volume" -> 66051 [] p = "pan" -> -1 [] OTHER -> <<104, 105>>]
\* At most one allocation of a call fails.
MCFailures == {{}} \cup {{i} : i \in 1..10}
=============================================================================
