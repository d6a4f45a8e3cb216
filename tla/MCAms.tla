------------------------------- MODULE MCAms -------------------------------
(***************************************************************************)
(* Small instances of Ams: the launcher with one ability, a bundle "mail"  *)
(* with two, and bundles with one.                                         *)
(***************************************************************************)
EXTENDS Ams

MCBundle == {"home", "mail", "shop"}
MCAbility == {"Desk", "Inbox", "Compose", "Cart"}
MCBundleOf == [a \in MCAbility |->
                 CASE a = "Desk" -> "home"
                   [] a \in {"Inbox", "Compose"} -> "mail"
                   [] OTHER -> "shop"]
MCMainAbility == [b \in MCBundle |->
                    CASE b = "home" -> "Desk" [] b = "mail" -> "Inbox" [] OTHER -> "Cart"]
\* A fourth bundle: three applications can be started one from the other.
MC4Bundle == MCBundle \cup {"game"}
MC4Ability == {"Desk", "Inbox", "Cart", "Play"}
MC4BundleOf == [a \in MC4Ability |->
                  CASE a = "Desk" -> "home" [] a = "Inbox" -> "mail"
                    [] a = "Cart" -> "shop" [] OTHER -> "game"]
MC4MainAbility == [b \in MC4Bundle |->
                     CASE b = "home" -> "Desk" [] b = "mail" -> "Inbox"
                       [] b = "shop" -> "Cart" [] OTHER -> "Play"]
MCBoot == <<"home">>
\* Two keep-alive applications are started back to back.
MCBoot2 == <<"home", "mail">>
NoFailures == {{}}
AnyFailures == {{}, MCBundle}
=============================================================================
