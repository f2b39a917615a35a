-------------------------- MODULE MCPreferredNames --------------------------
(* PreferredNames with a history of the names the user has chosen, on a    *)
(* FortiGate that nobody changes and an entry that nobody reconfigures.    *)
EXTENDS PreferredNames

VARIABLE chosen    \* the name chosen last for each interface

MCVars == <<vars, chosen>>

MCInit == Init /\ chosen = [i \in Interface |-> NoName]

Choose(i) ==
  /\ SetValue(i)
  /\ chosen' = [chosen EXCEPT ![i] = IF entity'[i].value \in Name THEN entity'[i].value
                                     ELSE NoName]

QuietNext ==
  \/ \E i \in Interface : Choose(i)
  \/ Poll /\ UNCHANGED chosen
  \/ AddNewInterfaces /\ UNCHANGED chosen
  \/ HandleUpdates /\ UNCHANGED chosen
  \/ Unload /\ UNCHANGED chosen
  \/ SetUp /\ UNCHANGED chosen

QuietSpec == MCInit /\ [][QuietNext]_MCVars

(* README.md: "A Home Assistant override is preserved across refreshes and *)
(* restarts; it is replaced only after the alias changes on the            *)
(* FortiGate".                                                             *)
OverrideIsPreserved ==
  \A i \in Interface : chosen[i] # NoName /\ entity[i] # NoRecord => entity[i].value = chosen[i]
=============================================================================
