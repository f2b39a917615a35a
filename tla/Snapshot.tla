------------------------------ MODULE Snapshot ------------------------------
(***************************************************************************)
(* What a coordinator promises to the entities that show its tables        *)
(* (implemented by Poll).  The entities know of no requests: after a       *)
(* success they show all that has been received, every table at the same   *)
(* moment, after a failure they are unavailable, and between two outcomes  *)
(* nothing they show changes.  A failure costs no table but its own.       *)
(***************************************************************************)
CONSTANTS
  Tables,    \* the tables of a FortiGate
  Value,     \* what an answer may contain
  NoValue,   \* an empty answer
  Marked,    \* tables that a failure marks as not available
  Emptied    \* tables that a failure empties

VARIABLES
  received,  \* what is left of the answers so far
  ready,     \* there has been a success
  ok,        \* the last outcome was one
  shown      \* what the entities show

snapshotVars == <<received, ready, ok, shown>>

None == [value |-> NoValue, available |-> FALSE]

Nothing == [t \in Tables |-> None]

View(tables, outcome) == [ok |-> outcome, tables |-> IF outcome THEN tables ELSE Nothing]

Init ==
  /\ received = Nothing
  /\ ready = FALSE
  /\ ok = TRUE
  /\ shown = View(Nothing, TRUE)

Answers == [value : Value \cup {NoValue}, available : {TRUE}]

(* What is left of table t after a failure.                                *)
Left(t) ==
  CASE t \in Emptied            -> None
    [] t \in Marked \ Emptied   -> [received[t] EXCEPT !.available = FALSE]
    [] t \notin Marked \cup Emptied -> received[t]

(* One table is answered, or its request fails.                            *)
Change(t) == \E c \in Answers \cup {Left(t)} : received' = [received EXCEPT ![t] = c]

Receive ==
  /\ \E t \in Tables : Change(t)
  /\ UNCHANGED <<ready, ok, shown>>

(* With the last answer, if that is one of the tables.                     *)
Publish ==
  /\ UNCHANGED received \/ \E t \in Tables : Change(t)
  /\ ready' = TRUE
  /\ ok' = TRUE
  /\ shown' = View(received', TRUE)

Lose ==
  /\ ready
  /\ ok' = FALSE
  /\ shown' = View(received, FALSE)
  /\ UNCHANGED <<received, ready>>

(* Without a success nothing is kept.                                      *)
Restart ==
  /\ ~ready
  /\ received' = Nothing
  /\ UNCHANGED <<ready, ok, shown>>

Next == Receive \/ Publish \/ Lose \/ Restart

Spec == Init /\ [][Next]_snapshotVars
=============================================================================
