----------------------------- MODULE Interfaces -----------------------------
(***************************************************************************)
(* The part of a poll that reads the statistics of the interfaces          *)
(* (coordinator.py, _async_get_interfaces and _add_interface_rates): one   *)
(* request for all VDOMs or, where the FortiGate rejects that, one for     *)
(* each VDOM, and the rates calculated from successive counters.           *)
(*                                                                         *)
(* Every request is an await: packets pass, interfaces restart, come and   *)
(* go between the answers.  An answer that is accepted names every         *)
(* interface it is asked about: that the code skips a record without a     *)
(* name is left out.  One counter stands for the six of an interface       *)
(* and a rate for the difference of two samples of it; the time between    *)
(* them is taken to be positive.                                           *)
(***************************************************************************)
EXTENDS Integers

CONSTANTS
  Vdom,          \* the FortiGate's virtual domains
  Root,          \* the name "root", used when no VDOM is known
  MinVdom(_),    \* the first name of a set of VDOMs, in lexical order
  Interface,     \* interfaces the FortiGate may have
  VdomOf,        \* the VDOM of each
  MaxCount,      \* counters are counted up to this bound
  MaxBoot,       \* an interface restarts or is created this often
  NoCount,       \* no counter, and no sample of one
  NoRate,        \* Python's None as a rate
  NoRecord       \* an interface that is not in a response or a table

Count == 0..MaxCount
Boot == 0..MaxBoot

(* What an answer says of an interface.  Its boot is not in the answer: it *)
(* tells which run of the counter the sample belongs to.                   *)
Sample == [value : Count \cup {NoCount}, boot : Boot]

Record == [value : Count \cup {NoCount}, boot : Boot, rate : Count \cup {NoRate}]

ASSUME InterfacesAssumption ==
  /\ Root \in Vdom
  /\ \A S \in SUBSET Vdom : S # {} => MinVdom(S) \in S
  /\ VdomOf \in [Interface -> Vdom]
  /\ MaxCount \in Nat /\ MaxBoot \in Nat
  /\ NoCount \notin Nat /\ NoRate \notin Nat
  /\ NoRecord \notin Sample \cup Record

VARIABLES
  exists,      \* the interfaces the FortiGate has
  count,       \* their counters
  boot,        \* the runs of these counters
  rejects,     \* the FortiGate rejects the request for all VDOMs
  calm,        \* no request fails and nothing is reconfigured any more
  known,       \* vdom_names
  mode,        \* _interface_wildcard_supported: None, True or False
  pc,          \* the request the poll waits for
  todo,        \* VDOMs still to be asked
  failed,      \* VDOMs whose request failed in this poll, or in the last one
  malformed,   \* one of the answers was malformed
  received,    \* the answers of this poll
  samples,     \* _interface_counters
  table        \* _interfaces_by_key

vars == <<exists, count, boot, rejects, calm, known, mode, pc, todo, failed,
          malformed, received, samples, table>>

fortigate == <<exists, count, boot, rejects>>
poll == <<mode, pc, todo, failed, malformed, received>>
tables == <<samples, table>>

Keys(t) == {i \in Interface : t[i] # NoRecord}

Nothing == [i \in Interface |-> NoRecord]

Init ==
  /\ exists \in SUBSET Interface
  /\ count = [i \in Interface |-> 0] /\ boot = [i \in Interface |-> 0]
  /\ rejects \in BOOLEAN
  /\ calm = FALSE
  /\ known \in {{}, {Root}, Vdom}
  /\ mode = "unknown" /\ pc = "idle" /\ todo = {} /\ failed = {} /\ malformed = FALSE
  /\ received = Nothing
  /\ samples = [i \in Interface |-> NoCount]
  /\ table = Nothing

-----------------------------------------------------------------------------
(* The FortiGate.                                                          *)

Traffic(i) ==
  /\ i \in exists
  /\ count[i] < MaxCount
  /\ count' = [count EXCEPT ![i] = @ + 1]
  /\ UNCHANGED <<exists, boot, rejects, calm, known, poll, tables>>

(* The counter starts again: the interface is new, or was reset.           *)
Restart(i) ==
  /\ ~calm
  /\ boot[i] < MaxBoot
  /\ exists' = exists \cup {i}
  /\ boot' = [boot EXCEPT ![i] = @ + 1]
  /\ count' = [count EXCEPT ![i] = 0]
  /\ UNCHANGED <<rejects, calm, known, poll, tables>>

Delete(i) ==
  /\ ~calm
  /\ exists' = exists \ {i}
  /\ UNCHANGED <<count, boot, rejects, calm, known, poll, tables>>

CalmDown ==
  /\ ~calm
  /\ calm' = TRUE
  /\ UNCHANGED <<fortigate, known, poll, tables>>

MayFail == ~calm

-----------------------------------------------------------------------------
(* _add_interface_rates.                                                   *)

(* Wrong: a counter that has started again is not noticed.                 *)
RateWithoutCheck(previous, current) ==
  IF previous # NoCount /\ current # NoCount THEN current - previous ELSE NoRate

Rate(previous, current) ==
  IF previous # NoCount /\ current # NoCount /\ current >= previous
  THEN current - previous ELSE NoRate

(* Wrong: samples are kept until another one replaces them.                *)
SamplesKept(results) ==
  [i \in Interface |->
     IF results[i] # NoRecord /\ results[i].value # NoCount THEN results[i].value
     ELSE samples[i]]

(* The samples to keep: those that were observed now.                      *)
SamplesOf(results) ==
  [i \in Interface |-> IF results[i] # NoRecord THEN results[i].value ELSE NoCount]

(* A table replaces the last one.                                          *)
Store(results) ==
  /\ table' = [i \in Interface |->
       IF results[i] = NoRecord THEN NoRecord
       ELSE [value |-> results[i].value, boot |-> results[i].boot,
             rate |-> Rate(samples[i], results[i].value)]]
  /\ samples' = SamplesOf(results)

-----------------------------------------------------------------------------
(* _async_get_interfaces.                                                  *)

(* An answer about interfaces S, some of them without counters.            *)
Answer(S, silent) ==
  [i \in Interface |->
     IF i \notin S THEN NoRecord
     ELSE [value |-> IF i \in silent THEN NoCount ELSE count[i], boot |-> boot[i]]]

(* The VDOMs to ask, when these names are known.                           *)
Asked(names) == IF names = {} THEN {Root} ELSE names

(* Wrong: a malformed answer of an earlier poll still counts.              *)
AskEachVdomStale(names) ==
  /\ pc' = "each"
  /\ todo' = Asked(names)
  /\ failed' = {} /\ received' = Nothing /\ UNCHANGED malformed

AskEachVdom(names) ==
  /\ pc' = "each"
  /\ todo' = Asked(names)
  /\ failed' = {} /\ malformed' = FALSE /\ received' = Nothing

(* The next poll reaches this part of its work.  Shortly before, the VDOM  *)
(* inventory was refreshed, or was recent enough, or its request failed,   *)
(* or not every name in the answer was usable (VdomDns).                   *)
StartPoll ==
  /\ pc = "idle"
  /\ known' \in {known, Vdom} \cup (IF MayFail THEN SUBSET Vdom ELSE {})
  /\ \/ mode = "each" /\ AskEachVdom(known')
     \/ mode # "each" /\ pc' = "all" /\ UNCHANGED <<todo, failed, malformed, received>>
  /\ UNCHANGED <<fortigate, calm, mode, tables>>

(* The request for all VDOMs succeeds.                                     *)
AllAnswer ==
  /\ pc = "all"
  /\ ~rejects
  /\ mode' = "all"
  /\ pc' = "idle"
  /\ failed' = {}
  /\ \E silent \in {{}, Interface} : Store(Answer(exists, silent))
  /\ UNCHANGED <<fortigate, calm, known, todo, malformed, received>>

(* It is rejected with status 400, or the answer is malformed: from now on *)
(* the VDOMs are asked one by one.                                         *)
AllRejected ==
  /\ pc = "all"
  /\ rejects \/ MayFail
  /\ mode' = "each"
  /\ AskEachVdom(known)
  /\ UNCHANGED <<fortigate, calm, known, tables>>

(* It fails in another way: the last table is retained.                    *)
AllFails ==
  /\ pc = "all"
  /\ MayFail
  /\ pc' = "idle"
  /\ UNCHANGED <<fortigate, calm, known, mode, todo, failed, malformed, received, tables>>

(* Wrong: the first failure ends the requests.                             *)
RestUnlessFailed(v, fails) == IF fails THEN {} ELSE todo \ {v}

(* What is left to ask after the VDOM v, whose request has failed or not.  *)
Rest(v, fails) == todo \ {v}

(* The end of the poll, in the same step as its last answer.  One          *)
(* malformed answer, or no answer at all, retains the last table.          *)
Finish ==
  /\ pc' = "idle"
  /\ IF failed' = Asked(known) \/ malformed' THEN UNCHANGED tables ELSE Store(received')

(* The request for one VDOM ends; other VDOMs follow.                      *)
VdomAnswer ==
  /\ pc = "each"
  /\ LET v == MinVdom(todo) IN
     /\ \/ /\ \E silent \in {{}, Interface} :
                LET answer == Answer({i \in exists : VdomOf[i] = v}, silent) IN
                received' = [i \in Interface |->
                               IF VdomOf[i] = v THEN answer[i] ELSE received[i]]
           /\ UNCHANGED <<failed, malformed>>
        \/ /\ MayFail /\ failed' = failed \cup {v}
           /\ UNCHANGED <<malformed, received>>
        \/ /\ MayFail /\ malformed' = TRUE
           /\ UNCHANGED <<failed, received>>
     /\ todo' = Rest(v, failed' # failed)
  /\ \/ todo' # {} /\ UNCHANGED <<pc, tables>>
     \/ todo' = {} /\ Finish
  /\ UNCHANGED <<fortigate, calm, known, mode>>

(* The answer is no object: the TypeError of client.py is not caught and   *)
(* ends the poll, whatever was received so far; the last table is kept.    *)
VdomRaises ==
  /\ pc = "each"
  /\ MayFail
  /\ pc' = "idle" /\ todo' = {} /\ failed' = {} /\ malformed' = FALSE
  /\ received' = Nothing
  /\ UNCHANGED <<fortigate, calm, known, mode, tables>>

Next ==
  \/ \E i \in Interface : Traffic(i) \/ Restart(i) \/ Delete(i)
  \/ CalmDown
  \/ StartPoll \/ AllAnswer \/ AllRejected \/ AllFails
  \/ VdomAnswer \/ VdomRaises

Spec == Init /\ [][Next]_vars

(* Polls go on and every request ends; every so often the inventory is     *)
(* refreshed, five minutes after the last time (VdomDns).                  *)
FairSpec ==
  /\ Spec
  /\ WF_vars(StartPoll) /\ SF_vars(StartPoll /\ known' = Vdom)
  /\ WF_vars(AllAnswer \/ AllRejected \/ AllFails)
  /\ WF_vars(VdomAnswer)

-----------------------------------------------------------------------------
TypeOK ==
  /\ exists \subseteq Interface
  /\ count \in [Interface -> Count]
  /\ boot \in [Interface -> Boot]
  /\ rejects \in BOOLEAN /\ calm \in BOOLEAN /\ malformed \in BOOLEAN
  /\ known \subseteq Vdom
  /\ mode \in {"unknown", "all", "each"}
  /\ pc \in {"idle", "all", "each"}
  /\ todo \subseteq Vdom /\ (pc = "each" => todo # {})
  /\ failed \subseteq Vdom
  /\ received \in [Interface -> Sample \cup {NoRecord}]
  /\ samples \in [Interface -> Count \cup {NoCount}]
  /\ table \in [Interface -> Record \cup {NoRecord}]

(* Rates are calculated from the samples of the table that is shown,       *)
(* whatever polls failed in between: the counters are never ahead of it,   *)
(* and none is left of an interface that is not in it                      *)
(* (_add_interface_rates).                                                 *)
SamplesAreOfTable ==
  \A i \in Interface :
    samples[i] = IF table[i] = NoRecord THEN NoCount ELSE table[i].value

(* A rate is the difference to the sample in the table before: an          *)
(* interface that was missing from that table has none, also when it is    *)
(* back, and a counter that was seen to go back gives none.                *)
RatesFollowOn ==
  [][\A i \in Keys(table') :
       table'[i] # table[i] /\ table'[i].rate # NoRate =>
         /\ table[i] # NoRecord
         /\ table'[i].rate \in Nat
         /\ table'[i].rate = table'[i].value - table[i].value]_vars

(* A VDOM whose request fails costs no other VDOM its interfaces: one that *)
(* disappears from the table has ceased to exist, at least for a moment,   *)
(* or is in a VDOM that was not known or did not answer                    *)
(* (_async_get_interfaces).                                                *)
OnlyFailedAreDropped ==
  [][\A i \in Keys(table) \ Keys(table') :
       \/ i \notin exists \/ boot[i] # table[i].boot
       \/ VdomOf[i] \in failed' \cup (Vdom \ known)]_vars

(* Whatever failed before, once the FortiGate answers again and has        *)
(* settled the table shows all of its interfaces, by the one way of asking *)
(* or the other, and it stays so.                                          *)
Recovers == calm ~> [](Keys(table) = exists)

(* README.md: "The first sample after setup or a counter reset remains     *)
(* unavailable until a valid delta can be calculated."                     *)
ResetGivesNoRate ==
  [][\A i \in Keys(table) \cap Keys(table') :
       table'[i].boot # table[i].boot => table'[i].rate = NoRate]_vars
=============================================================================
