------------------------------- MODULE MCApp -------------------------------
(***************************************************************************)
(* A small instance of App: a page, and a class that is not found; three   *)
(* slices, one of which sets no content.                                   *)
(***************************************************************************)
EXTENDS App

MCKind == [t \in Token |-> IF t = 1 THEN "page" ELSE "unknown"]
=============================================================================
