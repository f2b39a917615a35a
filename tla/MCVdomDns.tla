------------------------------ MODULE MCVdomDns -----------------------------
(* VdomDns with two VDOMs, two servers and a few configurations.           *)
EXTENDS VdomDns

CONSTANTS root, lab, s1, s2

MCVdom == {root, lab}
MCServer == {s1, s2}

MCMinVdom(S) == IF lab \in S THEN lab ELSE root    \* "lab" sorts before "root"

Single == [vdoms |-> {root}, management |-> root, global |-> s1,
           override |-> [v \in MCVdom |-> Inherit]]

(* The second VDOM inherits the global server.                             *)
Inherited == [Single EXCEPT !.vdoms = {root, lab}]

(* Both have a setting of their own, one of which is ignored.              *)
Overridden == [Inherited EXCEPT !.override = [v \in MCVdom |-> s2]]

(* The other VDOM manages the FortiGate.                                   *)
Moved == [Overridden EXCEPT !.management = lab]

MCConfig == {Single, Inherited, Overridden, Moved}
=============================================================================
