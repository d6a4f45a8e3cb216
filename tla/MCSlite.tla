------------------------------ MODULE MCSlite -------------------------------
(* Instances of Slite: a launcher, JS and native applications.             *)
EXTENDS Slite

CONSTANTS home, js1, js2, nat

MCApp == {home, js1, js2, nat}

Start(a, m) == [id |-> "start", want |-> [app |-> a, mission |-> m]]
Terminate(t) == [id |-> "terminate", token |-> t]

MCMultiRequests ==
    {Start(js1, m) : m \in {Unset, 0}} \cup {Start(nat, Unset)}
      \cup {Start(home, Unset), Start(js2, Unset)}
      \cup {Terminate(t) : t \in 0..2}
      \cup {[id |-> "terminateMission", mission |-> 0],
            [id |-> "terminateApp", token |-> 1],
            [id |-> "forceStop", app |-> js1],
            [id |-> "terminateAll", app |-> nat]}

MCSingleRequests ==
    {Start(a, Unset) : a \in {home, js1, js2}}
      \cup {Terminate(t) : t \in 0..2}
      \cup {[id |-> "forceStop", app |-> a] : a \in {home, js1}}
      \cup {[id |-> "terminateApp", token |-> 1], [id |-> "terminateAll", app |-> nat]}

MCNone == {{}}
MCFailures == {{}, {js1}}
=============================================================================
