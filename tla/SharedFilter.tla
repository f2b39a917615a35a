---------------------------- MODULE SharedFilter ----------------------------
(***************************************************************************)
(* What the filters of a dashboard page promise (refined by Filters):      *)
(* a filter shows what the user picked from its options until that is no   *)
(* longer offered, or until a filter it depends on is picked anew; it then *)
(* returns to where it started, and never to something nobody picked.      *)
(***************************************************************************)
CONSTANTS
  Values,   \* the names a hub may get
  hubField  \* the filter that follows a hub to its new name

VARIABLES
  fields,   \* the filters of the page
  start,    \* what they show at first
  chosen,   \* what they show
  offers,   \* what they offer
  fresh,    \* they have been checked against what they offer
  excused   \* the filter for the hub may be left with a hub that is gone

filterVars == <<fields, start, chosen, offers, fresh, excused>>

Fits ==
  fresh => \A f \in fields : chosen[f] \in offers[f] \/ (f = hubField /\ excused)

Init ==
  /\ chosen = start
  /\ fresh = TRUE
  /\ excused = FALSE
  /\ Fits

SamePage == UNCHANGED <<fields, start>>

(* The user picks an option; filters that depend on it may start anew.     *)
Pick(f) ==
  /\ f \in fields
  /\ chosen'[f] \in offers[f]
  /\ \A g \in fields \ {f} : chosen'[g] \in {chosen[g], start[g]}
  /\ UNCHANGED <<fresh, excused>>
  /\ SamePage /\ Fits'

(* The world changes and the page does not know yet.                       *)
Drift ==
  /\ fresh' = FALSE
  /\ UNCHANGED <<chosen, excused>>
  /\ SamePage

(* The page is told.  A hub that was picked may have another name.         *)
Adjust ==
  /\ fresh' = TRUE
  /\ \A g \in fields : \/ chosen'[g] \in {chosen[g], start[g]}
                       \/ g = hubField /\ chosen'[g] \in Values
  /\ excused => excused'
  /\ SamePage /\ Fits'

Next == (\E f \in fields : Pick(f)) \/ Drift \/ Adjust

Spec == Init /\ [][Next]_filterVars
=============================================================================
