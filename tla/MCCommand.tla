------------------------------- MODULE MCCommand -------------------------------
(***************************************************************************)
(* Instances of Command for TLC: scripts of a required prompt, regular and *)
(* not, before or after a dialog of each kind, and a script without any.   *)
(***************************************************************************)
EXTENDS Command

CONSTANTS a, b

D(k, t) == [kind |-> k, text |-> t]
Prompts == {<<a, b>>, <<a, a, b>>, <<b>>}

MCScripts ==
    {<<D("expect", t), D(k, u)>> : t \in Prompts, k \in {"expect", "end"}, u \in {<<b>>, <<b, a>>}}
    \cup {<<D(k, u), D("expect", t)>> : t \in Prompts, k \in {"optional", "fail"}, u \in {<<b, b>>}}
    \cup {<<>>}
===============================================================================
