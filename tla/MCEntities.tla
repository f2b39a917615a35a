----------------------------- MODULE MCEntities -----------------------------
(* A FortiGate with one row in most tables: the rows of a table do not     *)
(* depend on one another, the tables with the same MAC address do.         *)
EXTENDS Entities, TLC

CONSTANTS ap, mac, vdom, named  \* an access point, a MAC address, a VDOM, a host name

MCThings == [t \in Tables |-> CASE t = "aps" -> {ap} [] t = "vdoms" -> {vdom}
                                 [] OTHER -> {mac}]

MCTables == {"arp", "clients", "devices", "vdoms"}

MCWifiTables == {"aps", "clients"}

MCValue == [t \in Tables |-> IF t = "clients" THEN {Unnamed, named} ELSE {Unnamed}]

MCSymmetry == Permutations(Version)
=============================================================================
