-------------------------- MODULE Interfaces_proofs -------------------------
(* Proofs about Interfaces, for any VDOMs, interfaces and bounds.          *)
EXTENDS Interfaces, TLAPS

(* The inductive invariant: a table replaces another one together with the *)
(* samples, so the samples are those of the table before the step and the  *)
(* rates follow on.                                                        *)
IInv == TypeOK /\ SamplesAreOfTable

(* What RatesFollowOn says of a step.                                      *)
FollowOn ==
  \A i \in Keys(table') :
    table'[i] # table[i] /\ table'[i].rate # NoRate =>
      /\ table[i] # NoRecord
      /\ table'[i].rate \in Nat
      /\ table'[i].rate = table'[i].value - table[i].value

-----------------------------------------------------------------------------
(* A rate is a difference of two samples that did not go back.             *)
LEMMA RateIsDifference ==
  ASSUME NEW previous \in Count \cup {NoCount}, NEW current \in Count \cup {NoCount}
  PROVE  /\ Rate(previous, current) \in Count \cup {NoRate}
         /\ Rate(previous, current) # NoRate =>
              /\ previous # NoCount
              /\ Rate(previous, current) = current - previous
  BY InterfacesAssumption DEF Rate, Count

LEMMA AnswerType ==
  ASSUME TypeOK, NEW S, NEW silent
  PROVE  Answer(S, silent) \in [Interface -> Sample \cup {NoRecord}]
  BY DEF TypeOK, Answer, Sample

LEMMA AskedType ==
  ASSUME NEW names \in SUBSET Vdom
  PROVE  Asked(names) \in SUBSET Vdom /\ Asked(names) # {}
  BY InterfacesAssumption DEF Asked

(* What a poll that stores its results leaves behind.                      *)
LEMMA StoreKeepsStep ==
  ASSUME IInv,
         NEW results \in [Interface -> Sample \cup {NoRecord}],
         Store(results)
  PROVE  /\ samples' \in [Interface -> Count \cup {NoCount}]
         /\ table' \in [Interface -> Record \cup {NoRecord}]
         /\ SamplesAreOfTable'
         /\ FollowOn
<1> DEFINE rec(i) == [value |-> results[i].value, boot |-> results[i].boot,
                      rate |-> Rate(samples[i], results[i].value)]
<1>1. \A i \in Interface : samples[i] \in Count \cup {NoCount}
  BY DEF IInv, TypeOK
<1>2. \A i \in Interface : results[i] # NoRecord =>
        results[i].value \in Count \cup {NoCount} /\ results[i].boot \in Boot
  BY DEF Sample
<1>3. \A i \in Interface : results[i] # NoRecord => rec(i) \in Record
  BY <1>1, <1>2, RateIsDifference DEF Record
<1>4. \A i \in Interface : table'[i] = IF results[i] = NoRecord THEN NoRecord ELSE rec(i)
  BY DEF Store
<1>5. \A i \in Interface :
        samples'[i] = IF results[i] # NoRecord THEN results[i].value ELSE NoCount
  BY DEF Store, SamplesOf
<1>6. samples' \in [Interface -> Count \cup {NoCount}]
  BY <1>2 DEF Store, SamplesOf
<1>7. table' \in [Interface -> Record \cup {NoRecord}]
  BY <1>3 DEF Store
<1>8. SamplesAreOfTable'
  <2> SUFFICES ASSUME NEW i \in Interface
               PROVE  samples'[i] = IF table'[i] = NoRecord THEN NoCount
                                    ELSE table'[i].value
    BY DEF SamplesAreOfTable
  <2>1. CASE results[i] = NoRecord
    BY <2>1, <1>4, <1>5
  <2>2. CASE results[i] # NoRecord
    <3>1. table'[i] = rec(i) /\ table'[i] # NoRecord
      BY <2>2, <1>3, <1>4, InterfacesAssumption
    <3>2. rec(i).value = results[i].value
      OBVIOUS
    <3>3. table'[i].value = results[i].value
      BY <3>1, <3>2
    <3> QED
      BY <2>2, <3>1, <3>3, <1>5
  <2> QED
    BY <2>1, <2>2
<1>9. FollowOn
  <2> SUFFICES ASSUME NEW i \in Interface, table'[i] # NoRecord,
                      table'[i].rate # NoRate
               PROVE  /\ table[i] # NoRecord
                      /\ table'[i].rate \in Nat
                      /\ table'[i].rate = table'[i].value - table[i].value
    BY DEF FollowOn, Keys
  <2>1. table'[i] = rec(i) /\ results[i] # NoRecord
    BY <1>4
  <2>2. /\ table'[i].rate = Rate(samples[i], results[i].value)
        /\ table'[i].value = results[i].value
    BY <2>1
  <2>3. /\ samples[i] # NoCount
        /\ table'[i].rate = results[i].value - samples[i]
        /\ table'[i].rate \in Nat
    <3> DEFINE r == Rate(samples[i], results[i].value)
    <3>1. samples[i] \in Count \cup {NoCount} /\ results[i].value \in Count \cup {NoCount}
      BY <1>1, <1>2, <2>1
    <3>2. /\ r \in Count \cup {NoRate}
          /\ r # NoRate => samples[i] # NoCount /\ r = results[i].value - samples[i]
      BY <3>1, RateIsDifference
    <3>3. table'[i].rate = r /\ r # NoRate
      BY <2>2
    <3> HIDE DEF r
    <3> QED
      BY <3>2, <3>3, InterfacesAssumption DEF Count
  <2>4. table[i] # NoRecord /\ samples[i] = table[i].value
    BY <2>3 DEF IInv, SamplesAreOfTable
  <2> QED
    BY <2>2, <2>3, <2>4
<1> QED
  BY <1>6, <1>7, <1>8, <1>9

(* Nothing changes in the tables.                                          *)
LEMMA TablesKept ==
  ASSUME IInv, UNCHANGED tables
  PROVE  /\ samples' \in [Interface -> Count \cup {NoCount}]
         /\ table' \in [Interface -> Record \cup {NoRecord}]
         /\ SamplesAreOfTable'
         /\ FollowOn
  BY DEF IInv, TypeOK, tables, SamplesAreOfTable, FollowOn

-----------------------------------------------------------------------------
LEMMA InitIInv == Init => IInv
<1> SUFFICES ASSUME Init PROVE IInv
  OBVIOUS
<1>1. 0 \in Count /\ 0 \in Boot
  BY InterfacesAssumption DEF Count, Boot
<1>2. /\ received \in [Interface -> Sample \cup {NoRecord}]
      /\ samples \in [Interface -> Count \cup {NoCount}]
      /\ table \in [Interface -> Record \cup {NoRecord}]
  BY DEF Init, Nothing
<1>3. /\ count \in [Interface -> Count]
      /\ boot \in [Interface -> Boot]
  BY <1>1 DEF Init
<1>4. known \subseteq Vdom
  BY InterfacesAssumption DEF Init
<1>5. SamplesAreOfTable
  BY DEF Init, SamplesAreOfTable, Nothing
<1> QED
  BY <1>2, <1>3, <1>4, <1>5 DEF Init, IInv, TypeOK

(* Every step keeps the invariant, and the rates follow on.                *)
LEMMA StepIInv == IInv /\ [Next]_vars => IInv' /\ FollowOn
<1> SUFFICES ASSUME IInv, [Next]_vars
             PROVE  IInv' /\ FollowOn
  OBVIOUS
<1> USE DEF fortigate, poll
<1>1. ASSUME NEW i \in Interface, Traffic(i) \/ Restart(i) \/ Delete(i)
      PROVE  IInv' /\ FollowOn
  <2>1. UNCHANGED tables /\ UNCHANGED <<rejects, calm, known, poll>>
    BY <1>1 DEF Traffic, Restart, Delete, tables
  <2>2. /\ exists' \subseteq Interface
        /\ count' \in [Interface -> Count]
        /\ boot' \in [Interface -> Boot]
    BY <1>1, InterfacesAssumption DEF Traffic, Restart, Delete, IInv, TypeOK, Count, Boot
  <2> QED
    BY <2>1, <2>2, TablesKept DEF IInv, TypeOK
<1>2. CASE CalmDown
  BY <1>2, TablesKept DEF CalmDown, IInv, TypeOK
<1>3. CASE StartPoll
  <2>1. known' \in SUBSET Vdom /\ UNCHANGED tables
    BY <1>3 DEF StartPoll, IInv, TypeOK
  <2>2. Asked(known') \in SUBSET Vdom /\ Asked(known') # {}
    BY <2>1, AskedType
  <2>3. Nothing \in [Interface -> Sample \cup {NoRecord}]
    BY DEF Nothing
  <2> QED
    BY <1>3, <2>1, <2>2, <2>3, TablesKept DEF StartPoll, AskEachVdom, IInv, TypeOK
<1>4. CASE AllAnswer
  <2> PICK silent \in {{}, Interface} : Store(Answer(exists, silent))
    BY <1>4 DEF AllAnswer
  <2>1. Answer(exists, silent) \in [Interface -> Sample \cup {NoRecord}]
    BY AnswerType DEF IInv
  <2>2. /\ samples' \in [Interface -> Count \cup {NoCount}]
        /\ table' \in [Interface -> Record \cup {NoRecord}]
        /\ SamplesAreOfTable' /\ FollowOn
    BY <2>1, StoreKeepsStep
  <2> QED
    BY <1>4, <2>2 DEF AllAnswer, IInv, TypeOK
<1>5. CASE AllRejected
  <2>1. Asked(known) \in SUBSET Vdom /\ Asked(known) # {}
    BY AskedType DEF IInv, TypeOK
  <2>2. Nothing \in [Interface -> Sample \cup {NoRecord}]
    BY DEF Nothing
  <2> QED
    BY <1>5, <2>1, <2>2, TablesKept DEF AllRejected, AskEachVdom, IInv, TypeOK
<1>6. CASE AllFails
  BY <1>6, TablesKept DEF AllFails, IInv, TypeOK
<1>7. CASE VdomAnswer
  <2> DEFINE v == MinVdom(todo)
  <2>1. v \in Vdom
    BY <1>7, InterfacesAssumption DEF VdomAnswer, IInv, TypeOK
  <2>2. received' \in [Interface -> Sample \cup {NoRecord}]
    <3>1. CASE UNCHANGED received
      BY <3>1 DEF IInv, TypeOK
    <3>2. CASE \E silent \in {{}, Interface} :
                 received' = [i \in Interface |->
                   IF VdomOf[i] = v
                   THEN Answer({j \in exists : VdomOf[j] = v}, silent)[i]
                   ELSE received[i]]
      <4> PICK silent \in {{}, Interface} :
                 received' = [i \in Interface |->
                   IF VdomOf[i] = v
                   THEN Answer({j \in exists : VdomOf[j] = v}, silent)[i]
                   ELSE received[i]]
        BY <3>2
      <4>1. Answer({j \in exists : VdomOf[j] = v}, silent)
              \in [Interface -> Sample \cup {NoRecord}]
        BY AnswerType DEF IInv
      <4> QED
        BY <4>1 DEF IInv, TypeOK
    <3> QED
      BY <1>7, <3>1, <3>2 DEF VdomAnswer
  <2>3. /\ failed' \subseteq Vdom /\ malformed' \in BOOLEAN
        /\ todo' \subseteq Vdom
        /\ UNCHANGED <<fortigate, calm, known, mode>>
    BY <1>7, <2>1 DEF VdomAnswer, Rest, IInv, TypeOK
  <2>4. /\ samples' \in [Interface -> Count \cup {NoCount}]
        /\ table' \in [Interface -> Record \cup {NoRecord}]
        /\ SamplesAreOfTable' /\ FollowOn
    <3>1. UNCHANGED tables \/ Store(received')
      BY <1>7 DEF VdomAnswer, Finish, tables
    <3> QED
      BY <2>2, <3>1, StoreKeepsStep, TablesKept
  <2>5. (pc' = "idle") \/ (pc' = "each" /\ todo' # {})
    BY <1>7 DEF VdomAnswer, Finish
  <2> QED
    BY <2>2, <2>3, <2>4, <2>5 DEF IInv, TypeOK
<1>8. CASE VdomRaises
  BY <1>8, TablesKept DEF VdomRaises, Nothing, IInv, TypeOK
<1>9. CASE UNCHANGED vars
  BY <1>9, TablesKept DEF vars, tables, IInv, TypeOK
<1> QED
  BY <1>1, <1>2, <1>3, <1>4, <1>5, <1>6, <1>7, <1>8, <1>9 DEF Next

-----------------------------------------------------------------------------
(* Every variable has its type, and a poll that asks VDOM after VDOM never *)
(* runs out of them before it has finished.                                *)
THEOREM TypeCorrect == Spec => []TypeOK
<1>1. IInv => TypeOK
  BY DEF IInv
<1> QED
  BY InitIInv, StepIInv, <1>1, PTL DEF Spec

(* The counters that rates start from are those of the table shown.        *)
THEOREM SamplesInStep == Spec => []SamplesAreOfTable
<1>1. IInv => SamplesAreOfTable
  BY DEF IInv
<1> QED
  BY InitIInv, StepIInv, <1>1, PTL DEF Spec

(* A rate never spans a table that did not have the interface, and is      *)
(* never negative.                                                         *)
THEOREM RatesAreDifferences == Spec => RatesFollowOn
<1>1. IInv /\ [Next]_vars => [FollowOn]_vars
  BY StepIInv
<1>2. IInv /\ [Next]_vars => IInv'
  BY StepIInv
<1> QED
  BY InitIInv, <1>1, <1>2, PTL DEF Spec, RatesFollowOn, FollowOn
-----------------------------------------------------------------------------
(* The second invariant.  A sample is of the counter's current run or of   *)
(* an earlier one ...                                                      *)
BootsOrdered ==
  \A i \in Interface :
    /\ table[i] # NoRecord => table[i].boot <= boot[i]
    /\ received[i] # NoRecord => received[i].boot <= boot[i]

(* ... and while the VDOMs are asked, there is a reason for an interface   *)
(* of the table not to be among the answers.                               *)
Excused(i) ==
  \/ i \notin exists \/ boot[i] # table[i].boot
  \/ VdomOf[i] \in failed \cup todo \cup (Vdom \ known)

MissingExcused ==
  pc = "each" => \A i \in Keys(table) : received[i] # NoRecord \/ malformed \/ Excused(i)

DInv == IInv /\ BootsOrdered /\ MissingExcused

(* What OnlyFailedAreDropped says of a step.                               *)
DroppedExcused ==
  \A i \in Keys(table) \ Keys(table') :
    \/ i \notin exists \/ boot[i] # table[i].boot
    \/ VdomOf[i] \in failed' \cup (Vdom \ known)

LEMMA InitDInv == Init => DInv
<1> SUFFICES ASSUME Init PROVE DInv
  OBVIOUS
<1>1. \A i \in Interface : table[i] = NoRecord /\ received[i] = NoRecord
  BY DEF Init, Nothing
<1> QED
  BY <1>1, InitIInv DEF Init, DInv, BootsOrdered, MissingExcused

(* The interfaces missing from a table that was just stored.               *)
LEMMA StoredKeys ==
  ASSUME IInv, NEW results \in [Interface -> Sample \cup {NoRecord}], Store(results)
  PROVE  \A i \in Interface :
           IF results[i] = NoRecord THEN table'[i] = NoRecord
           ELSE table'[i] # NoRecord /\ table'[i].boot = results[i].boot
<1> SUFFICES ASSUME NEW i \in Interface, results[i] # NoRecord
             PROVE  table'[i] # NoRecord /\ table'[i].boot = results[i].boot
  BY DEF Store
<1> DEFINE rec == [value |-> results[i].value, boot |-> results[i].boot,
                   rate |-> Rate(samples[i], results[i].value)]
<1>1. table'[i] = rec
  BY DEF Store
<1>2. results[i].value \in Count \cup {NoCount} /\ results[i].boot \in Boot
  BY DEF Sample
<1>3. Rate(samples[i], results[i].value) \in Count \cup {NoRate}
  BY <1>2, RateIsDifference DEF IInv, TypeOK
<1>4. rec \in Record
  BY <1>2, <1>3 DEF Record
<1>5. rec.boot = results[i].boot
  OBVIOUS
<1> QED
  BY <1>1, <1>4, <1>5, InterfacesAssumption

(* An answer has the interfaces asked for, in their current runs.          *)
LEMMA AnswerKeys ==
  ASSUME NEW S, NEW silent, NEW i \in Interface
  PROVE  IF i \in S THEN Answer(S, silent)[i].boot = boot[i]
         ELSE Answer(S, silent)[i] = NoRecord
  BY DEF Answer

LEMMA AnswerHas ==
  ASSUME TypeOK, NEW S, NEW silent, NEW i \in Interface, i \in S
  PROVE  Answer(S, silent)[i] # NoRecord
<1> DEFINE sample == [value |-> IF i \in silent THEN NoCount ELSE count[i],
                      boot |-> boot[i]]
<1>1. sample \in Sample
  BY DEF TypeOK, Sample
<1>2. Answer(S, silent)[i] = sample
  BY DEF Answer
<1> QED
  BY <1>1, <1>2, InterfacesAssumption

(* The FortiGate's counters only start again in a new run.                 *)
LEMMA FortigateStep ==
  ASSUME DInv, NEW i \in Interface, Traffic(i) \/ Restart(i) \/ Delete(i)
  PROVE  BootsOrdered' /\ MissingExcused' /\ DroppedExcused
<1>1. UNCHANGED <<table, received, pc, todo, failed, malformed, known>>
  BY DEF Traffic, Restart, Delete, poll, tables
<1>2. \A j \in Interface : boot[j] \in Int /\ boot'[j] \in Int /\ boot[j] <= boot'[j]
  BY InterfacesAssumption DEF DInv, IInv, TypeOK, Traffic, Restart, Delete, Boot
<1>3. \A j \in exists' : j \in exists \/ (j \in Interface /\ boot[j] < boot'[j])
  BY InterfacesAssumption DEF DInv, IInv, TypeOK, Traffic, Restart, Delete, Boot
<1>4. \A j \in Interface : table[j] # NoRecord => table[j].boot \in Int
  BY InterfacesAssumption DEF DInv, IInv, TypeOK, Record, Boot
<1>5. \A j \in Interface : received[j] # NoRecord => received[j].boot \in Int
  BY InterfacesAssumption DEF DInv, IInv, TypeOK, Sample, Boot
<1>6. BootsOrdered'
  BY <1>1, <1>2, <1>4, <1>5 DEF DInv, BootsOrdered
<1>7. MissingExcused'
  <2> SUFFICES ASSUME pc = "each", NEW j \in Interface, table[j] # NoRecord,
                      received[j] = NoRecord, ~malformed
               PROVE  Excused(j)'
    BY <1>1 DEF MissingExcused, Keys
  <2>1. Excused(j) /\ table[j].boot <= boot[j]
    BY DEF DInv, MissingExcused, BootsOrdered, Keys
  <2>2. j \notin exists' \/ boot'[j] # table[j].boot
           \/ VdomOf[j] \in failed \cup todo \cup (Vdom \ known)
    <3>1. CASE j \in exists
      <4>1. boot[j] # table[j].boot \/ VdomOf[j] \in failed \cup todo \cup (Vdom \ known)
        BY <2>1, <3>1 DEF Excused
      <4> QED
        BY <4>1, <2>1, <1>2, <1>4
    <3>2. CASE j \notin exists
      BY <2>1, <3>2, <1>2, <1>3, <1>4
    <3> QED
      BY <3>1, <3>2
  <2> QED
    BY <1>1, <2>2 DEF Excused
<1>8. DroppedExcused
  BY <1>1 DEF DroppedExcused, Keys
<1> QED
  BY <1>6, <1>7, <1>8

(* One VDOM has answered, or its request has failed: there still is a      *)
(* reason for everything that is missing.                                  *)
LEMMA VdomStep ==
  ASSUME DInv, VdomAnswer
  PROVE  BootsOrdered' /\ MissingExcused' /\ DroppedExcused
<1> DEFINE v == MinVdom(todo)
           T == {j \in exists : VdomOf[j] = v}
<1>1. /\ pc = "each" /\ todo' = todo \ {v}
      /\ UNCHANGED <<exists, boot, known>>
      /\ \/ /\ \E silent \in {{}, Interface} :
                 received' = [i \in Interface |->
                   IF VdomOf[i] = v THEN Answer(T, silent)[i] ELSE received[i]]
            /\ UNCHANGED <<failed, malformed>>
         \/ failed' = failed \cup {v} /\ UNCHANGED <<malformed, received>>
         \/ malformed' = TRUE /\ UNCHANGED <<failed, received>>
  BY DEF VdomAnswer, Rest, fortigate
<1>2. \/ pc' = "each" /\ UNCHANGED tables
      \/ pc' = "idle" /\ UNCHANGED tables
      \/ pc' = "idle" /\ todo' = {} /\ ~malformed' /\ Store(received')
  BY <1>1 DEF VdomAnswer, Finish
<1> HIDE DEF v
<1>3. failed \subseteq failed' /\ (malformed => malformed')
  BY <1>1 DEF DInv, IInv, TypeOK
<1>4. \A j \in Interface : boot[j] \in Int
  BY InterfacesAssumption DEF DInv, IInv, TypeOK, Boot
<1>5. \A j \in Interface :
        received'[j] = received[j]
          \/ (IF j \in T THEN received'[j].boot = boot[j] ELSE received'[j] = NoRecord)
  <2>1. CASE UNCHANGED received
    BY <2>1
  <2>2. CASE \E silent \in {{}, Interface} :
               received' = [i \in Interface |->
                 IF VdomOf[i] = v THEN Answer(T, silent)[i] ELSE received[i]]
    <3> PICK silent \in {{}, Interface} :
               received' = [i \in Interface |->
                 IF VdomOf[i] = v THEN Answer(T, silent)[i] ELSE received[i]]
      BY <2>2
    <3> HIDE DEF T
    <3>1. \A j \in Interface :
            IF j \in T THEN Answer(T, silent)[j].boot = boot[j]
            ELSE Answer(T, silent)[j] = NoRecord
      BY AnswerKeys
    <3>2. \A j \in Interface :
            received'[j] = received[j] \/ received'[j] = Answer(T, silent)[j]
      OBVIOUS
    <3> QED
      BY <3>1, <3>2
  <2> QED
    BY <1>1, <2>1, <2>2
<1>6. \A j \in Interface : received'[j] # NoRecord => received'[j].boot <= boot'[j]
  BY <1>1, <1>4, <1>5 DEF DInv, BootsOrdered
<1>7. ASSUME NEW j \in Interface, table[j] # NoRecord, received'[j] = NoRecord, ~malformed'
      PROVE  \/ j \notin exists \/ boot[j] # table[j].boot
             \/ VdomOf[j] \in failed' \cup todo' \cup (Vdom \ known)
  <2>1. ~malformed
    BY <1>3, <1>7
  <2>2. CASE VdomOf[j] = v
    <3>1. CASE failed' = failed \cup {v}
      BY <2>2, <3>1
    <3>2. CASE \E silent \in {{}, Interface} :
                 received' = [i \in Interface |->
                   IF VdomOf[i] = v THEN Answer(T, silent)[i] ELSE received[i]]
      <4> PICK silent \in {{}, Interface} :
                 received' = [i \in Interface |->
                   IF VdomOf[i] = v THEN Answer(T, silent)[i] ELSE received[i]]
        BY <3>2
      <4>1. Answer(T, silent)[j] = NoRecord
        BY <2>2, <1>7
      <4>2. j \notin T
        BY <4>1, AnswerHas DEF DInv, IInv
      <4> QED
        BY <4>2, <2>2
    <3> QED
      BY <3>1, <3>2, <1>1, <1>7
  <2>3. CASE VdomOf[j] # v
    <3>1. received[j] = NoRecord
      BY <1>1, <1>7, <2>3
    <3>2. Excused(j)
      BY <1>1, <1>7, <2>1, <3>1 DEF DInv, MissingExcused, Keys
    <3> QED
      BY <1>1, <1>3, <2>3, <3>2 DEF Excused
  <2> QED
    BY <2>2, <2>3
<1>8. CASE UNCHANGED tables
  <2>1. table' = table
    BY <1>8 DEF tables
  <2>2. BootsOrdered'
    BY <1>1, <1>6, <2>1 DEF DInv, BootsOrdered
  <2>3. MissingExcused'
    BY <1>1, <1>7, <2>1 DEF MissingExcused, Excused, Keys
  <2>4. DroppedExcused
    BY <2>1 DEF DroppedExcused, Keys
  <2> QED
    BY <2>2, <2>3, <2>4
<1>9. CASE pc' = "idle" /\ todo' = {} /\ ~malformed' /\ Store(received')
  <2>1. received' \in [Interface -> Sample \cup {NoRecord}]
    BY StepIInv DEF DInv, IInv, TypeOK, Next
  <2>2. \A i \in Interface :
          IF received'[i] = NoRecord THEN table'[i] = NoRecord
          ELSE table'[i] # NoRecord /\ table'[i].boot = received'[i].boot
    BY <1>9, <2>1, StoredKeys DEF DInv
  <2>3. BootsOrdered'
    BY <1>6, <2>2 DEF BootsOrdered
  <2>4. MissingExcused'
    BY <1>9 DEF MissingExcused
  <2>5. DroppedExcused
    BY <1>7, <1>9, <2>2 DEF DroppedExcused, Keys
  <2> QED
    BY <2>3, <2>4, <2>5
<1> QED
  BY <1>2, <1>8, <1>9

LEMMA StepDInv == DInv /\ [Next]_vars => DInv' /\ DroppedExcused
<1> SUFFICES ASSUME DInv, [Next]_vars
             PROVE  BootsOrdered' /\ MissingExcused' /\ DroppedExcused
  BY StepIInv DEF DInv
<1> USE DEF fortigate, poll
<1>1. ASSUME UNCHANGED <<table, received, boot, exists>>,
             pc' = "each" => UNCHANGED <<pc, todo, failed, malformed, known>>
      PROVE  BootsOrdered' /\ MissingExcused' /\ DroppedExcused
  BY <1>1 DEF DInv, BootsOrdered, MissingExcused, Excused, DroppedExcused, Keys
(* The VDOMs are about to be asked.                                        *)
<1>2. ASSUME UNCHANGED <<table, boot, exists>>, AskEachVdom(known')
      PROVE  BootsOrdered' /\ MissingExcused' /\ DroppedExcused
  <2>1. \A i \in Interface : received'[i] = NoRecord
    BY <1>2 DEF AskEachVdom, Nothing
  <2>2. BootsOrdered'
    BY <1>2, <2>1 DEF DInv, BootsOrdered
  <2>3. known' \subseteq todo'
    BY <1>2 DEF AskEachVdom, Asked
  <2>4. \A i \in Interface : VdomOf[i] \in Vdom
    BY InterfacesAssumption
  <2>5. MissingExcused'
    BY <2>3, <2>4 DEF MissingExcused, Excused, Keys
  <2>6. DroppedExcused
    BY <1>2 DEF DroppedExcused, Keys
  <2> QED
    BY <2>2, <2>5, <2>6
<1>3. ASSUME NEW i \in Interface, Traffic(i) \/ Restart(i) \/ Delete(i)
      PROVE  BootsOrdered' /\ MissingExcused' /\ DroppedExcused
  BY <1>3, FortigateStep
<1>4. CASE CalmDown
  BY <1>4, <1>1 DEF CalmDown, tables
<1>5. CASE StartPoll
  BY <1>5, <1>1, <1>2 DEF StartPoll, tables
<1>6. CASE AllAnswer
  <2> PICK silent \in {{}, Interface} : Store(Answer(exists, silent))
    BY <1>6 DEF AllAnswer
  <2> DEFINE results == Answer(exists, silent)
  <2>1. results \in [Interface -> Sample \cup {NoRecord}]
    BY AnswerType DEF DInv, IInv
  <2>2. \A i \in Interface :
          IF i \in exists THEN results[i] # NoRecord /\ results[i].boot = boot[i]
          ELSE results[i] = NoRecord
    BY AnswerKeys, AnswerHas DEF DInv, IInv
  <2> HIDE DEF results
  <2>3. \A i \in Interface :
          IF results[i] = NoRecord THEN table'[i] = NoRecord
          ELSE table'[i] # NoRecord /\ table'[i].boot = results[i].boot
    BY <2>1, StoredKeys DEF results, DInv
  <2>4. \A i \in Interface : boot[i] \in Int
    BY InterfacesAssumption DEF DInv, IInv, TypeOK, Boot
  <2>5. UNCHANGED <<boot, received>> /\ pc' = "idle"
    BY <1>6 DEF AllAnswer
  <2>6. BootsOrdered'
    BY <2>2, <2>3, <2>4, <2>5 DEF DInv, BootsOrdered
  <2>7. MissingExcused' /\ DroppedExcused
    BY <2>2, <2>3, <2>5 DEF MissingExcused, DroppedExcused, Keys
  <2> QED
    BY <2>6, <2>7
<1>7. CASE AllRejected
  BY <1>7, <1>2 DEF AllRejected, tables
<1>8. CASE AllFails
  BY <1>8, <1>1 DEF AllFails, tables
<1>9. CASE VdomAnswer
  BY <1>9, VdomStep
<1>10. CASE VdomRaises
  BY <1>10 DEF VdomRaises, Nothing, tables, DInv, BootsOrdered, MissingExcused,
               DroppedExcused, Keys
<1>11. CASE UNCHANGED vars
  BY <1>11, <1>1 DEF vars, tables
<1> QED
  BY <1>3, <1>4, <1>5, <1>6, <1>7, <1>8, <1>9, <1>10, <1>11 DEF Next

(* A VDOM whose request fails costs no other VDOM its interfaces.          *)
THEOREM OnlyFailedDrop == Spec => OnlyFailedAreDropped
<1>1. DInv /\ [Next]_vars => [DroppedExcused]_vars
  BY StepDInv
<1>2. DInv /\ [Next]_vars => DInv'
  BY StepDInv
<1> QED
  BY InitDInv, <1>1, <1>2, PTL DEF Spec, OnlyFailedAreDropped, DroppedExcused

-----------------------------------------------------------------------------
(* Results have those of the FortiGate's interfaces that are in VDOMs V.   *)
HasAll(results, V) ==
  \A i \in Interface : VdomOf[i] \in V => (results[i] # NoRecord <=> i \in exists)

(* The table is right, and what a poll has received or will ask for is     *)
(* enough for the next one: where VDOMs are asked one by one, all of them  *)
(* are known.                                                              *)
Settled ==
  /\ Keys(table) = exists
  /\ pc = "all" => mode # "each"
  /\ pc = "each" => mode = "each"
  /\ rejects \/ mode = "each" =>
       /\ known = Vdom
       /\ pc = "each" => failed = {} /\ ~malformed /\ HasAll(received, Vdom \ todo)

LEMMA StoreHasAll ==
  ASSUME IInv, NEW results \in [Interface -> Sample \cup {NoRecord}],
         Store(results), HasAll(results, Vdom), UNCHANGED exists
  PROVE  Keys(table') = exists'
<1>1. \A i \in Interface : table'[i] # NoRecord <=> i \in exists
  BY StoredKeys, InterfacesAssumption DEF HasAll
<1> QED
  BY <1>1 DEF Keys, IInv, TypeOK

LEMMA AnswerHasAll ==
  ASSUME TypeOK, NEW V, NEW silent
  PROVE  HasAll(Answer({i \in exists : VdomOf[i] \in V}, silent), V)
<1> DEFINE T == {i \in exists : VdomOf[i] \in V}
<1> SUFFICES ASSUME NEW i \in Interface, VdomOf[i] \in V
             PROVE  Answer(T, silent)[i] # NoRecord <=> i \in exists
  BY DEF HasAll
<1>1. i \in T <=> i \in exists
  OBVIOUS
<1> HIDE DEF T
<1> QED
  BY <1>1, AnswerHas, AnswerKeys

(* The answer for one VDOM, when no request fails.                         *)
LEMMA VdomAnswerSettles ==
  ASSUME IInv, IInv', Settled, calm, VdomAnswer
  PROVE  Settled'
<1> DEFINE v == MinVdom(todo)
           T == {i \in exists : VdomOf[i] = v}
<1>1. /\ pc = "each" /\ mode = "each" /\ known = Vdom /\ failed = {} /\ ~malformed
      /\ HasAll(received, Vdom \ todo) /\ Keys(table) = exists
  BY DEF VdomAnswer, Settled
<1>2. v \in todo /\ todo \subseteq Vdom
  BY <1>1, InterfacesAssumption DEF IInv, TypeOK
<1>3. PICK silent \in {{}, Interface} :
        received' = [i \in Interface |->
          IF VdomOf[i] = v THEN Answer(T, silent)[i] ELSE received[i]]
  BY DEF VdomAnswer, MayFail
<1>4. /\ todo' = todo \ {v}
      /\ UNCHANGED <<failed, malformed, exists, rejects, known, mode>>
  BY DEF VdomAnswer, MayFail, Rest, fortigate
<1>5. \/ todo' # {} /\ UNCHANGED <<pc, table>>
      \/ todo' = {} /\ Finish
  BY DEF VdomAnswer, tables
<1>6. HasAll(received, Vdom \ todo)' /\ HasAll(received', Vdom \ todo')
  <2>1. T = {i \in exists : VdomOf[i] \in {v}}
    OBVIOUS
  <2>2. HasAll(Answer(T, silent), {v})
    BY <2>1, AnswerHasAll DEF IInv
  <2> SUFFICES ASSUME NEW i \in Interface, VdomOf[i] \in Vdom \ (todo \ {v})
               PROVE  received'[i] # NoRecord <=> i \in exists
    BY <1>4 DEF HasAll
  <2>3. CASE VdomOf[i] = v
    <3> HIDE DEF T, v
    <3>1. received'[i] = Answer(T, silent)[i]
      BY <1>3, <2>3
    <3> QED
      BY <2>2, <2>3, <3>1 DEF HasAll
  <2>4. CASE VdomOf[i] # v
    <3> HIDE DEF T, v
    <3>1. received'[i] = received[i] /\ VdomOf[i] \in Vdom \ todo
      BY <1>3, <2>4
    <3> QED
      BY <1>1, <3>1 DEF HasAll
  <2> QED
    BY <2>3, <2>4
<1>7. CASE todo' # {} /\ UNCHANGED <<pc, table>>
  BY <1>1, <1>4, <1>6, <1>7 DEF Settled, Keys
<1>8. CASE todo' = {} /\ Finish
  <2>1. Asked(known) # {}
    BY AskedType DEF IInv, TypeOK
  <2>2. pc' = "idle" /\ Store(received')
    BY <1>1, <1>4, <1>8, <2>1 DEF Finish
  <2>3. received' \in [Interface -> Sample \cup {NoRecord}]
    BY DEF IInv, TypeOK
  <2>4. HasAll(received', Vdom)
    BY <1>6, <1>8
  <2>5. Keys(table') = exists'
    BY <1>4, <2>2, <2>3, <2>4, StoreHasAll
  <2> QED
    BY <1>1, <1>4, <2>2, <2>5 DEF Settled, Keys
<1> QED
  BY <1>5, <1>7, <1>8

(* Recovery is final, whatever polls follow and without any fairness: once *)
(* the table has all interfaces and the next poll can ask for all of them, *)
(* no poll, and no step of one, loses an interface again, by either way of *)
(* asking (_async_get_interfaces).  What Recovers says besides is that     *)
(* this is reached.                                                        *)
THEOREM RecoveryIsFinal == Spec => [][calm /\ Settled => Settled']_vars
<1>1. ASSUME IInv, IInv', [Next]_vars, vars' # vars, calm, Settled PROVE Settled'
  <2>1. ASSUME NEW i \in Interface, Traffic(i) PROVE Settled'
    BY <1>1, <2>1 DEF Traffic, Settled, HasAll, Keys, poll, tables
  <2>2. CASE StartPoll
    <3>1. /\ pc = "idle" /\ known' \in {known, Vdom} /\ mode' = mode
          /\ UNCHANGED <<exists, rejects, table>>
          /\ \/ mode = "each" /\ AskEachVdom(known')
             \/ mode # "each" /\ pc' = "all"
      BY <1>1, <2>2 DEF StartPoll, MayFail, fortigate, tables
    <3>2. CASE mode = "each"
      <4>1. known' = Vdom /\ Asked(Vdom) = Vdom
        BY <1>1, <3>1, <3>2, InterfacesAssumption DEF Settled, Asked
      <4> QED
        BY <1>1, <3>1, <3>2, <4>1 DEF Settled, Keys, AskEachVdom, HasAll
    <3>3. CASE mode # "each"
      BY <1>1, <3>1, <3>3 DEF Settled, Keys
    <3> QED
      BY <3>2, <3>3
  <2>3. CASE AllAnswer
    <3>1. PICK silent \in {{}, Interface} : Store(Answer(exists, silent))
      BY <2>3 DEF AllAnswer
    <3>2. Answer(exists, silent) \in [Interface -> Sample \cup {NoRecord}]
      BY <1>1, AnswerType DEF IInv
    <3>3. HasAll(Answer(exists, silent), Vdom)
      <4>1. exists = {i \in exists : VdomOf[i] \in Vdom}
        BY <1>1, InterfacesAssumption DEF IInv, TypeOK
      <4>2. HasAll(Answer({i \in exists : VdomOf[i] \in Vdom}, silent), Vdom)
        BY <1>1, AnswerHasAll DEF IInv
      <4> QED
        BY <4>1, <4>2
    <3>4. pc' = "idle" /\ mode' = "all" /\ ~rejects /\ UNCHANGED <<exists, rejects>>
      BY <2>3 DEF AllAnswer, fortigate
    <3>5. Keys(table') = exists'
      BY <1>1, <3>1, <3>2, <3>3, <3>4, StoreHasAll
    <3> QED
      BY <3>4, <3>5 DEF Settled, Keys
  <2>4. CASE AllRejected
    <3>1. /\ rejects /\ mode' = "each" /\ AskEachVdom(known)
          /\ UNCHANGED <<exists, rejects, known, table>>
      BY <1>1, <2>4 DEF AllRejected, MayFail, fortigate, tables
    <3>2. known = Vdom /\ Asked(Vdom) = Vdom
      BY <1>1, <3>1, InterfacesAssumption DEF Settled, Asked
    <3> QED
      BY <1>1, <3>1, <3>2 DEF Settled, Keys, AskEachVdom, HasAll
  <2>5. CASE VdomAnswer
    BY <1>1, <2>5, VdomAnswerSettles
  <2> QED
    BY <1>1, <2>1, <2>2, <2>3, <2>4, <2>5
       DEF Next, Restart, Delete, CalmDown, AllFails, VdomRaises, MayFail
<1>2. IInv /\ IInv' /\ [Next]_vars => [calm /\ Settled => Settled']_vars
  BY <1>1
<1>3. IInv /\ [Next]_vars => IInv'
  BY StepIInv
<1> QED
  BY InitIInv, <1>2, <1>3, PTL DEF Spec
=============================================================================
