---------------------------- MODULE MCInterfaces ----------------------------
(* Interfaces with an interface in each of two VDOMs.                      *)
EXTENDS Interfaces

CONSTANTS root, lab, wan, dmz

MCVdom == {root, lab}
MCMinVdom(S) == IF lab \in S THEN lab ELSE root    \* "lab" sorts before "root"
MCInterface == {wan, dmz}
MCVdomOf == [i \in MCInterface |-> IF i = wan THEN root ELSE lab]
=============================================================================
