----------------------- MODULE DetectedDevices_proofs -----------------------
(***************************************************************************)
(* Proofs about DetectedDevices: types, the changes recorded explain what  *)
(* is shown, the latest change of a device is retained, and every poll     *)
(* without failures brings the inventory nearer.                           *)
(***************************************************************************)
EXTENDS DetectedDevices, TLAPS

(* The types, and that the history begins with the first index.            *)
HistoryBegins == ~indexed => since = None

IInv == TypeOK /\ ChangesExplain /\ HistoryBegins

-----------------------------------------------------------------------------
(* The devices that are there before anything is received.                 *)
LEMMA NoneIsDevices == None \in Devices /\ DOMAIN None = {}
  <1>1. DOMAIN None = {}
    BY DEF None
  <1>2. None \in [{} -> [Field -> Value]]
    BY DEF None
  <1> QED BY <1>1, <1>2 DEF Devices

(* A function on some devices with values of a device is one of Devices.   *)
LEMMA DevicesIntro ==
  ASSUME NEW d, NEW S \in SUBSET Mac, d \in [S -> [Field -> Value]]
  PROVE  d \in Devices
  BY DEF Devices

(* ... and the other way round.                                            *)
LEMMA DevicesElim ==
  ASSUME NEW d \in Devices
  PROVE  DOMAIN d \in SUBSET Mac /\ d \in [DOMAIN d -> [Field -> Value]]
  BY DEF Devices

LEMMA ChangesElim ==
  ASSUME TypeOK
  PROVE  DOMAIN changes \in SUBSET Mac /\ changes \in [DOMAIN changes -> SUBSET Field]
  BY DEF TypeOK

LEMMA ReconfigureType ==
  ASSUME TypeOK, Reconfigure
  PROVE  fg' \in Devices
<1>1. DOMAIN fg \in SUBSET Mac /\ fg \in [DOMAIN fg -> [Field -> Value]]
  BY DevicesElim DEF TypeOK
<1>2. PICK m \in Mac :
        \/ m \in DOMAIN fg /\ fg' = Restrict(fg, DOMAIN fg \ {m})
        \/ \E f \in Field, v \in Value :
             m \in DOMAIN fg /\ fg' = [fg EXCEPT ![m][f] = v]
        \/ \E d \in [Field -> Value] :
             m \notin DOMAIN fg /\ fg' = [x \in DOMAIN fg \cup {m} |-> IF x = m THEN d ELSE fg[x]]
  BY DEF Reconfigure
<1>3. CASE m \in DOMAIN fg /\ fg' = Restrict(fg, DOMAIN fg \ {m})
  <2>1. fg' \in [DOMAIN fg \ {m} -> [Field -> Value]]
    BY <1>1, <1>3 DEF Restrict
  <2> QED BY <1>1, <2>1, DevicesIntro
<1>4. ASSUME NEW f \in Field, NEW v \in Value, m \in DOMAIN fg, fg' = [fg EXCEPT ![m][f] = v]
      PROVE  fg' \in Devices
  <2>1. [fg[m] EXCEPT ![f] = v] \in [Field -> Value]
    BY <1>1, <1>4
  <2>2. fg' \in [DOMAIN fg -> [Field -> Value]]
    BY <1>1, <1>4, <2>1
  <2> QED BY <1>1, <2>2, DevicesIntro
<1>5. ASSUME NEW d \in [Field -> Value],
             fg' = [x \in DOMAIN fg \cup {m} |-> IF x = m THEN d ELSE fg[x]]
      PROVE  fg' \in Devices
  <2>1. fg' \in [DOMAIN fg \cup {m} -> [Field -> Value]]
    BY <1>1, <1>5
  <2> QED BY <1>1, <2>1, DevicesIntro
<1> QED BY <1>2, <1>3, <1>4, <1>5

-----------------------------------------------------------------------------
LEMMA InitInv == Init => IInv
<1> SUFFICES ASSUME Init PROVE IInv
  OBVIOUS
<1>1. fg \in Devices /\ inventory \in Devices /\ byMac \in Devices /\ since \in Devices
  BY NoneIsDevices DEF Init
<1>2. age \in 1..Refresh
  BY DetectedDevicesAssumption DEF Init
<1>3. changes \in [{} -> SUBSET Field]
  BY DEF Init, None
<1>4. DOMAIN byMac \cup DOMAIN changes \subseteq DOMAIN since
  BY NoneIsDevices DEF Init
<1>5. TypeOK
  BY <1>1, <1>2, <1>3, <1>4 DEF Init, TypeOK
<1>6. ChangesExplain
  BY NoneIsDevices DEF Init, ChangesExplain
<1>7. HistoryBegins
  BY DEF Init, HistoryBegins
<1> QED BY <1>5, <1>6, <1>7 DEF IInv

(* The index and what goes with it.                                        *)
LEMMA IndexInv ==
  ASSUME IInv, Index
  PROVE  IInv'
<1>1. /\ DOMAIN inventory \in SUBSET Mac /\ inventory \in [DOMAIN inventory -> [Field -> Value]]
      /\ DOMAIN since \in SUBSET Mac /\ since \in [DOMAIN since -> [Field -> Value]]
      /\ DOMAIN byMac \in SUBSET Mac /\ byMac \in [DOMAIN byMac -> [Field -> Value]]
  BY DevicesElim DEF IInv, TypeOK
<1>2. Recorded \in SUBSET DOMAIN inventory
  BY DEF Recorded
<1>3. since' \in [DOMAIN since \cup DOMAIN inventory -> [Field -> Value]]
  <2>1. ASSUME NEW m \in DOMAIN since \cup DOMAIN inventory
        PROVE  (IF m \in Recorded \/ m \notin DOMAIN since THEN inventory[m] ELSE since[m])
                 \in [Field -> Value]
    BY <1>1, <1>2
  <2> QED BY <2>1 DEF Index
<1>4. since' \in Devices
  BY <1>1, <1>3, DevicesIntro
<1>5. \A m \in Mac : ChangedFields(m) \in SUBSET Field
  BY DEF ChangedFields
<1>6. changes' \in [DOMAIN changes \cup Recorded -> SUBSET Field]
  BY <1>1, <1>2, <1>5, ChangesElim DEF Index, ChangesAfter, IInv
<1>7. DOMAIN changes \cup Recorded \in SUBSET Mac
  BY <1>1, <1>2, ChangesElim DEF IInv
<1>8. DOMAIN byMac' \cup DOMAIN changes' \subseteq DOMAIN since'
  BY <1>2, <1>3, <1>6 DEF Index, IInv, TypeOK
<1>9. TypeOK'
  <2>1. changes' \in UNION {[present -> SUBSET Field] : present \in SUBSET Mac}
    BY <1>6, <1>7
  <2>2. /\ fg' = fg /\ calm' = calm /\ inventory' = inventory /\ available' = available
        /\ age' = age /\ byMac' = inventory /\ indexed' = TRUE /\ poll' = "idle"
    BY DEF Index
  <2> QED BY <1>4, <1>8, <2>1, <2>2 DEF IInv, TypeOK
<1>10. ASSUME NEW m \in DOMAIN byMac' PROVE byMac'[m] = since'[m]
  <2>1. m \in DOMAIN inventory /\ byMac'[m] = inventory[m]
    BY <1>10 DEF Index
  <2>2. since'[m] = IF m \in Recorded \/ m \notin DOMAIN since THEN inventory[m] ELSE since[m]
    BY <2>1 DEF Index
  <2>3. CASE m \in Recorded \/ m \notin DOMAIN since
    BY <2>1, <2>2, <2>3
  <2>4. CASE m \notin Recorded /\ m \in DOMAIN since /\ indexed
    <3>1. m \in DOMAIN byMac /\ ChangedFields(m) = {}
      BY <2>1, <2>4 DEF Recorded
    <3>2. \A f \in Field : byMac[m][f] = inventory[m][f]
      BY <3>1 DEF ChangedFields
    <3>3. byMac[m] \in [Field -> Value] /\ inventory[m] \in [Field -> Value]
      BY <1>1, <2>1, <3>1
    <3>4. byMac[m] = inventory[m]
      BY <3>2, <3>3
    <3>5. byMac[m] = since[m]
      BY <3>1 DEF IInv, ChangesExplain
    <3> QED BY <2>1, <2>2, <2>4, <3>4, <3>5
  <2>5. CASE m \in DOMAIN since /\ ~indexed
    BY <2>5, NoneIsDevices DEF IInv, HistoryBegins
  <2> QED BY <2>3, <2>4, <2>5
<1>11. ChangesExplain'
  BY <1>10 DEF ChangesExplain
<1>12. HistoryBegins'
  BY DEF Index, HistoryBegins
<1> QED BY <1>9, <1>11, <1>12 DEF IInv

(* Other steps leave the index alone.                                      *)
LEMMA NextInv ==
  ASSUME IInv, [Next]_vars
  PROVE  IInv'
<1>1. CASE Reconfigure
  <2>1. fg' \in Devices
    BY <1>1, ReconfigureType DEF IInv
  <2>2. UNCHANGED <<calm, inventory, available, age, poll, index>>
    BY <1>1 DEF Reconfigure
  <2> QED BY <2>1, <2>2 DEF IInv, TypeOK, ChangesExplain, HistoryBegins, index
<1>2. CASE CalmDown
  BY <1>2 DEF CalmDown, IInv, TypeOK, ChangesExplain, HistoryBegins, index
<1>3. CASE StartPoll
  <2>1. age' \in 1..Refresh
    BY <1>3, DetectedDevicesAssumption DEF StartPoll, IInv, TypeOK
  <2>2. poll' \in {"idle", "asking", "rest"}
    BY <1>3 DEF StartPoll
  <2>3. UNCHANGED <<fg, calm, inventory, available, index>>
    BY <1>3 DEF StartPoll
  <2> QED BY <2>1, <2>2, <2>3 DEF IInv, TypeOK, ChangesExplain, HistoryBegins, index
<1>4. CASE Answer
  <2>1. age' \in 1..Refresh
    BY <1>4, DetectedDevicesAssumption DEF Answer
  <2> QED BY <1>4, <2>1 DEF Answer, IInv, TypeOK, ChangesExplain, HistoryBegins, index
<1>5. CASE NoAnswer
  BY <1>5 DEF NoAnswer, IInv, TypeOK, ChangesExplain, HistoryBegins, index
<1>6. CASE PollFails
  <2>1. age' \in 1..Refresh
    BY <1>6, DetectedDevicesAssumption DEF PollFails, IInv, TypeOK
  <2>2. inventory' \in Devices /\ available' \in BOOLEAN /\ (~available' => inventory' = None)
    BY <1>6, NoneIsDevices DEF PollFails, IInv, TypeOK
  <2>3. poll' = "idle" /\ UNCHANGED <<fg, calm, index>>
    BY <1>6 DEF PollFails
  <2> QED BY <2>1, <2>2, <2>3 DEF IInv, TypeOK, ChangesExplain, HistoryBegins, index
<1>7. CASE Index
  BY <1>7, IndexInv
<1>8. CASE UNCHANGED vars
  BY <1>8 DEF vars, index, IInv, TypeOK, ChangesExplain, HistoryBegins
<1> QED BY <1>1, <1>2, <1>3, <1>4, <1>5, <1>6, <1>7, <1>8 DEF Next, PollSteps

(* Every behaviour keeps the inductive invariant.                          *)
LEMMA Inductive == Spec => []IInv
  BY InitInv, NextInv, PTL DEF Spec

(* Every variable has its type, for any devices, fields and interval.      *)
THEOREM TypeCorrect == Spec => []TypeOK
<1>1. IInv => TypeOK
  BY DEF IInv
<1> QED BY <1>1, Inductive, PTL

(* A device is as it was when its change was recorded, whatever failed.    *)
THEOREM ChangesAreExplained == Spec => []ChangesExplain
<1>1. IInv => ChangesExplain
  BY DEF IInv
<1> QED BY <1>1, Inductive, PTL

-----------------------------------------------------------------------------
(* A step that changes what is recorded for a device has indexed it as new *)
(* or as changed.                                                          *)
LEMMA StepRetains ==
  ASSUME IInv, [Next]_vars, NEW m \in DOMAIN changes
  PROVE  /\ m \in DOMAIN changes'
         /\ changes'[m] # changes[m] =>
              /\ m \in DOMAIN byMac'
              /\ m \notin DOMAIN byMac \/ byMac'[m] # byMac[m]
<1>1. CASE Index
  <2>1. m \in DOMAIN changes'
    BY <1>1 DEF Index, ChangesAfter
  <2>2. ASSUME changes'[m] # changes[m]
        PROVE  m \in DOMAIN byMac' /\ (m \notin DOMAIN byMac \/ byMac'[m] # byMac[m])
    <3>1. m \in Recorded
      BY <1>1, <2>2 DEF Index, ChangesAfter
    <3>2. m \in DOMAIN inventory /\ byMac' = inventory
      BY <1>1, <3>1 DEF Index, Recorded
    <3>3. m \notin DOMAIN byMac \/ \E f \in Field : byMac[m][f] # inventory[m][f]
      BY <3>1 DEF Recorded, ChangedFields
    <3> QED BY <3>2, <3>3
  <2> QED BY <2>1, <2>2
<1>2. CASE ~Index
  <2>1. changes' = changes
    BY <1>2 DEF Next, PollSteps, Reconfigure, CalmDown, StartPoll, Answer, NoAnswer,
                PollFails, vars, index
  <2> QED BY <2>1
<1> QED BY <1>1, <1>2

(* The latest change of a device is retained until it changes again, also  *)
(* while the device is away (README.md:173).                               *)
THEOREM LatestIsRetained == Spec => LatestRetained
<1> DEFINE Kept ==
      \A m \in DOMAIN changes :
        /\ m \in DOMAIN changes'
        /\ changes'[m] # changes[m] =>
             /\ m \in DOMAIN byMac'
             /\ m \notin DOMAIN byMac \/ byMac'[m] # byMac[m]
<1>1. IInv /\ [Next]_vars => Kept
  BY StepRetains
<1>2. IInv /\ [Next]_vars => [Kept]_vars
  BY <1>1
<1> QED BY <1>2, Inductive, PTL DEF Spec, LatestRetained

-----------------------------------------------------------------------------
(* Catching up, without the fairness that lets polls go on: the steps of   *)
(* polls until all is shown.  An answer that is out of date is used until  *)
(* its age is Refresh; one that is not is indexed in this poll or the next *)
(* one.                                                                    *)
AllShown == inventory = fg /\ byMac = fg

Distance ==
  IF inventory = fg
  THEN IF poll = "idle" THEN 3 ELSE IF poll = "asking" THEN 2 ELSE 1
  ELSE 4 + 4 * (Refresh - age)
         + (IF poll = "rest" THEN 3 ELSE IF poll = "idle" THEN 2 ELSE 1)

Closer == AllShown' \/ (~AllShown /\ Distance' \in Nat /\ Distance' < Distance)

LEMMA OlderIsCloser ==
  ASSUME NEW m \in Int, NEW a \in Int, NEW b \in Int, a <= b, b <= m
  PROVE  4 + 4 * (m - b) + 1 \in Nat /\ 4 + 4 * (m - b) + 1 < 4 + 4 * (m - a) + 2
  OBVIOUS

(* Once nothing changes or fails any more, every step of a poll brings the *)
(* inventory nearer to being shown as it is, however old the last answer   *)
(* and wherever it was left, and once it is shown it stays                 *)
(* (coordinator.py:1318-1400).  What CatchesUp says besides is that there  *)
(* are such steps.                                                         *)
THEOREM CatchingUpIsNear == Spec => [][calm => Closer]_vars
<1>1. ASSUME IInv, [Next]_vars, calm, vars' # vars PROVE Closer
  <2> USE DetectedDevicesAssumption
  <2>1. age \in 1..Refresh /\ Refresh \in Nat /\ poll \in {"idle", "asking", "rest"}
    BY <1>1 DEF IInv, TypeOK
  <2>2. CASE StartPoll
    <3>1. /\ poll = "idle" /\ poll' \in {"asking", "rest"}
          /\ age' \in {age, age + 1} /\ age' \in 1..Refresh
          /\ poll' = "rest" => age' = age + 1
          /\ fg' = fg /\ inventory' = inventory /\ byMac' = byMac
      BY <2>1, <2>2 DEF StartPoll, Due, index
    <3>2. CASE inventory = fg
      BY <3>1, <3>2 DEF Closer, AllShown, Distance
    <3>3. CASE inventory # fg
      <4>1. Distance = 4 + 4 * (Refresh - age) + 2
        BY <3>1, <3>3 DEF Distance
      <4>2. CASE poll' = "rest"
        <5>1. Distance' = 4 + 4 * (Refresh - age') + 3 /\ age' = age + 1
          BY <3>1, <3>3, <4>2 DEF Distance
        <5> QED
          BY <2>1, <3>1, <3>3, <4>1, <5>1 DEF Closer, AllShown
      <4>3. CASE poll' = "asking"
        <5>1. Distance' = 4 + 4 * (Refresh - age') + 1
          BY <3>1, <3>3, <4>3 DEF Distance
        <5>2. age' \in Int /\ age <= age' /\ age' <= Refresh
          BY <2>1, <3>1
        <5>3. age \in Int /\ Refresh \in Int
          BY <2>1
        <5>4. /\ 4 + 4 * (Refresh - age') + 1 \in Nat
              /\ 4 + 4 * (Refresh - age') + 1 < 4 + 4 * (Refresh - age) + 2
          BY <5>2, <5>3, OlderIsCloser
        <5> QED
          BY <3>3, <4>1, <5>1, <5>4 DEF Closer, AllShown
      <4> QED
        BY <3>1, <4>2, <4>3
    <3> QED
      BY <3>2, <3>3
  <2>3. CASE Answer
    <3>1. poll = "asking" /\ poll' = "rest" /\ inventory' = fg /\ fg' = fg /\ byMac' = byMac
      BY <2>3 DEF Answer, index
    <3>2. Distance' = 1
      BY <3>1 DEF Distance
    <3>3. Distance \in Nat /\ Distance > 1
      BY <2>1, <3>1 DEF Distance
    <3> QED
      BY <3>1, <3>2, <3>3 DEF Closer, AllShown
  <2>4. CASE Index
    <3>1. /\ poll = "rest" /\ poll' = "idle" /\ byMac' = inventory
          /\ fg' = fg /\ inventory' = inventory /\ age' = age
      BY <2>4 DEF Index
    <3>2. CASE inventory = fg
      BY <3>1, <3>2 DEF Closer, AllShown
    <3>3. CASE inventory # fg
      <4>1. Distance = 4 + 4 * (Refresh - age) + 3 /\ Distance' = 4 + 4 * (Refresh - age) + 2
        BY <3>1, <3>3 DEF Distance
      <4> QED
        BY <2>1, <3>3, <4>1 DEF Closer, AllShown
    <3> QED
      BY <3>2, <3>3
  <2> QED
    BY <1>1, <2>2, <2>3, <2>4 DEF Next, PollSteps, Reconfigure, CalmDown, NoAnswer, PollFails
<1>2. IInv /\ [Next]_vars => [calm => Closer]_vars
  BY <1>1
<1> QED BY <1>2, Inductive, PTL DEF Spec
=============================================================================
