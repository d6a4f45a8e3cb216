----------------------------- MODULE MCConnect -----------------------------
(***************************************************************************)
(* Small instances of Connect: a bundle with two services, two client      *)
(* processes, and the launcher, whose page has token 1.                    *)
(***************************************************************************)
EXTENDS Connect

MCBundle == {"home", "media"}
MCServices == {"Play", "Scan"}
MCBundleOf == [a \in MCServices |-> "media"]
MCPageToken == [c \in Client |-> IF c = "app" THEN 2 ELSE 3]
MCWanted == [c \in Client |-> MCServices]
AllVisible == [c \in Client |-> MCServices]
NoFailures == {{}}
AnyFailures == {{}, {"media"}}
=============================================================================
