---------------------------- MODULE Poll_proofs -----------------------------
(* Proofs about Poll, for any choice of tracked requests and any answers.  *)
EXTENDS Poll, Naturals, TLAPS

(* Where entities read a table: from the coordinator's field at once, from *)
(* the published data, or from an index that is built before the last      *)
(* request.                                                                *)
ReadsFromSources ==
  \A t \in Tracked :
    /\ t \in ReadAtOnce => reads[t] = got[t]
    /\ t \in ReadFromData => reads[t] = data[t]
    /\ t \in IndexedLate /\ pc = Last => reads[t] = got[t]

(* Before the first success nothing is published and nobody has been told. *)
NothingYet == ~set_up => success /\ data = Empty

(* The listeners know the outcome, and the published data unless they are  *)
(* unavailable.                                                            *)
KnownIsPublished == seen = Shown(data, success)

(* The inductive invariant.                                                *)
IInv == TypeOK /\ ReadsFromSources /\ NothingYet /\ KnownIsPublished /\ OnePicture

-----------------------------------------------------------------------------
LEMMA EveryTableHasASource ==
  ASSUME NEW t \in Tracked
  PROVE  t \in ReadAtOnce \/ t \in ReadFromData \/ t \in IndexedLate
  BY PollAssumption
  DEF Table, Retained, Marked, Emptied, ReadAtOnce, Fatal, ReadFromData, IndexedLate

LEMMA EmptyType == Empty \in [Tracked -> Content]
  BY DEF Empty, Nothing, Content

LEMMA OverlayType ==
  ASSUME NEW f \in [Tracked -> Content], NEW g \in [Tracked -> Content], NEW S
  PROVE  /\ Overlay(f, g, S) \in [Tracked -> Content]
         /\ \A t \in Tracked : Overlay(f, g, S)[t] = IF t \in S THEN g[t] ELSE f[t]
  BY DEF Overlay

LEMMA AfterType ==
  ASSUME NEW r \in Request \ {Last}
  PROVE  After[r] \in Request /\ (After[r] = Last => r = "vaps")
  BY DEF After, Request, Last

LEMMA ShownType ==
  ASSUME NEW tables \in [Tracked -> Content], NEW ok \in BOOLEAN
  PROVE  Shown(tables, ok) \in [ok : BOOLEAN, tables : [Tracked -> Content]]
  BY EmptyType DEF Shown

LEMMA InitIInv == Init => IInv
  <1> SUFFICES ASSUME Init PROVE IInv
    OBVIOUS
  <1>1. TypeOK
    BY EmptyType, ShownType DEF Init, TypeOK
  <1> QED
    BY <1>1
    DEF Init, IInv, ReadsFromSources, NothingYet, KnownIsPublished, OnePicture, Last

(* An answer, a table that is recent enough, or a failure that is caught:  *)
(* only what was asked for changes.                                        *)
LEMMA ProceedStep ==
  ASSUME IInv, NEW r \in Request \ {Last}, pc = r,
         NEW received \in [Tracked -> Content],
         \A t \in Tracked : t # r => received[t] = got[t],
         Proceed(r, received),
         failed' \subseteq Tracked
  PROVE  IInv'
  <1>1. /\ pc' = After[r] /\ got' = received /\ reads' = ReadsAfter(r, received)
        /\ UNCHANGED <<set_up, byWifi, data, success, seen, calm>>
        /\ pc' \in Request
    BY AfterType DEF Proceed
  <1>2. /\ reads' \in [Tracked -> Content]
        /\ \A t \in Tracked :
             reads'[t] = IF t \in (IF r = "vaps" THEN IndexedLate ELSE ReadAtOnce \cap {r})
                         THEN received[t] ELSE reads[t]
    BY <1>1, OverlayType DEF IInv, TypeOK, ReadsAfter
  <1>3. TypeOK'
    BY <1>1, <1>2 DEF IInv, TypeOK
  <1>4. ReadsFromSources'
    <2> SUFFICES ASSUME NEW t \in Tracked
                 PROVE  /\ t \in ReadAtOnce => reads'[t] = got'[t]
                        /\ t \in ReadFromData => reads'[t] = data'[t]
                        /\ t \in IndexedLate /\ pc' = Last => reads'[t] = got'[t]
      BY DEF ReadsFromSources
    <2>1. t \in ReadAtOnce => reads'[t] = got'[t]
      BY <1>1, <1>2 DEF IInv, ReadsFromSources, ReadAtOnce, IndexedLate
    <2>2. t \in ReadFromData => reads'[t] = data'[t]
      BY <1>1, <1>2 DEF IInv, ReadsFromSources, ReadFromData, Fatal, ReadAtOnce, IndexedLate
    <2>3. t \in IndexedLate /\ pc' = Last => reads'[t] = got'[t]
      BY <1>1, <1>2, AfterType
    <2> QED
      BY <2>1, <2>2, <2>3
  <1>5. pc' # "idle"
    BY <1>1 DEF Request
  <1> QED
    BY <1>1, <1>3, <1>4, <1>5 DEF IInv, NothingYet, KnownIsPublished, OnePicture

LEMMA AnswerStep ==
  ASSUME IInv, NEW r \in Request, Answer(r)
  PROVE  IInv'
  <1>1. PICK v \in Value \cup {NoValue} :
          Proceed(r, [t \in Tracked |-> IF t = r THEN [value |-> v, available |-> TRUE]
                                                 ELSE got[t]])
    BY DEF Answer
  <1> DEFINE received == [t \in Tracked |-> IF t = r THEN [value |-> v, available |-> TRUE]
                                                     ELSE got[t]]
  <1>2. /\ received \in [Tracked -> Content]
        /\ \A t \in Tracked : t # r => received[t] = got[t]
    BY DEF IInv, TypeOK, Content
  <1>3. r \in Request \ {Last} /\ pc = r /\ failed' \subseteq Tracked
    BY DEF Answer, IInv, TypeOK
  <1> HIDE DEF received
  <1>4. Proceed(r, received)
    BY <1>1 DEF received
  <1> QED
    BY <1>2, <1>3, <1>4, ProceedStep

LEMMA SkipStep ==
  ASSUME IInv, NEW r \in Request, Skip(r)
  PROVE  IInv'
  <1>1. /\ r \in Request \ {Last} /\ pc = r /\ Proceed(r, got)
        /\ failed' \subseteq Tracked /\ got \in [Tracked -> Content]
    BY DEF Skip, IInv, TypeOK, Cached, Last
  <1> QED
    BY <1>1, ProceedStep

LEMMA CaughtStep ==
  ASSUME IInv, NEW r \in Request, Caught(r)
  PROVE  IInv'
  <1>1. /\ r \in Request \ {Last} /\ pc = r /\ Proceed(r, AfterFailure(r))
        /\ failed' \subseteq Tracked
    BY DEF Caught, IInv, TypeOK, Fatal, Last
  <1>2. AfterFailure(r) \in [Tracked -> Content]
    BY DEF AfterFailure, IInv, TypeOK, Content
  <1>3. \A t \in Tracked : t # r => AfterFailure(r)[t] = got[t]
    BY DEF AfterFailure
  <1> QED
    BY <1>1, <1>2, <1>3, ProceedStep

(* All that was received becomes the published data; what is not read from *)
(* there was indexed before; and the listeners are told unless they show   *)
(* it already.                                                             *)
LEMMA Published ==
  ASSUME IInv, pc = Last, NEW received \in [Tracked -> Content],
         \A t \in Tracked : t # Last => received[t] = got[t],
         Publish(received)
  PROVE  reads' = received /\ seen' = Shown(received, TRUE)
  <1>1. /\ data' = received
        /\ reads' = Overlay(reads, received, ReadFromData)
        /\ seen' = IF (data' # data \/ ~set_up) \/ ~success THEN Shown(reads', TRUE)
                                                            ELSE seen
    BY DEF Publish, Tell
  <1>2. \A t \in Tracked : reads'[t] = IF t \in ReadFromData THEN received[t] ELSE reads[t]
    BY <1>1, OverlayType DEF IInv, TypeOK
  <1>3. reads' \in [Tracked -> Content]
    BY <1>1, OverlayType DEF IInv, TypeOK
  <1>4. \A t \in Tracked : reads'[t] = received[t]
    <2> SUFFICES ASSUME NEW t \in Tracked, t \notin ReadFromData PROVE reads[t] = got[t]
      BY <1>2 DEF ReadFromData, Fatal, Last
    <2> QED
      BY EveryTableHasASource DEF IInv, ReadsFromSources
  <1>5. reads' = received
    BY <1>3, <1>4
  <1>6. seen' = Shown(received, TRUE)
    <2>1. CASE success /\ set_up /\ data' = data
      <3>1. success = TRUE
        BY <2>1 DEF IInv, TypeOK
      <3>2. seen' = seen /\ seen = Shown(data, TRUE) /\ data = received
        BY <1>1, <2>1, <3>1 DEF IInv, KnownIsPublished
      <3> QED
        BY <3>2
    <2>2. CASE ~(success /\ set_up /\ data' = data)
      BY <1>1, <1>5, <2>2
    <2> QED
      BY <2>1, <2>2
  <1> QED
    BY <1>5, <1>6

LEMMA SucceedStep ==
  ASSUME IInv, Succeed
  PROVE  IInv'
  <1>1. PICK v \in Value \cup {NoValue} :
          Publish([t \in Tracked |-> IF t = Last THEN [value |-> v, available |-> TRUE]
                                                 ELSE got[t]])
    BY DEF Succeed
  <1> DEFINE received == [t \in Tracked |-> IF t = Last
                                            THEN [value |-> v, available |-> TRUE]
                                            ELSE got[t]]
  <1>2. received \in [Tracked -> Content] /\ \A t \in Tracked : t # Last => received[t] = got[t]
    BY DEF IInv, TypeOK, Content
  <1>3. Publish(received) /\ pc = Last
    BY <1>1 DEF Succeed
  <1> HIDE DEF received
  <1>4. /\ pc' = "idle" /\ success' /\ set_up' /\ success' = TRUE /\ set_up' = TRUE
        /\ byWifi' = FALSE
        /\ got' = received /\ data' = received
        /\ UNCHANGED <<failed, calm>>
    BY <1>3 DEF Publish
  <1>5. reads' = received /\ seen' = Shown(received, TRUE)
    BY <1>2, <1>3, Published
  <1>6. TypeOK'
    BY <1>2, <1>4, <1>5, ShownType DEF IInv, TypeOK
  <1>7. ReadsFromSources'
    BY <1>4, <1>5 DEF ReadsFromSources, Last
  <1> QED
    BY <1>4, <1>5, <1>6, <1>7 DEF IInv, NothingYet, KnownIsPublished, OnePicture

LEMMA FailStep ==
  ASSUME IInv, NEW r \in Request, Fail(r)
  PROVE  IInv'
  <1>1. /\ pc' = "idle" /\ failed' \subseteq Tracked /\ byWifi' \in BOOLEAN
        /\ success' = ~set_up
        /\ got' = IF set_up THEN got ELSE Empty
        /\ reads' = IF set_up THEN reads ELSE Empty
        /\ seen' = IF success /\ set_up THEN Shown(reads, FALSE) ELSE seen
        /\ UNCHANGED <<set_up, data, calm>>
    BY DEF Fail, Tell, IInv, TypeOK
  <1>2. success' \in BOOLEAN
    BY <1>1 DEF IInv, TypeOK
  <1>3. TypeOK'
    BY <1>1, <1>2, EmptyType DEF IInv, TypeOK, Shown
  <1>4. CASE set_up
    <2>1. ~success' /\ got' = got /\ reads' = reads /\ data' = data /\ set_up'
      BY <1>1, <1>4
    <2>2. success' = FALSE
      BY <1>1, <1>4 DEF IInv, TypeOK
    <2>3. seen' = Shown(data, FALSE)
      <3>1. CASE success
        BY <1>1, <1>4, <3>1 DEF Shown
      <3>2. CASE ~success
        <4>1. success = FALSE
          BY <3>2 DEF IInv, TypeOK
        <4> QED
          BY <1>1, <3>2, <4>1 DEF IInv, KnownIsPublished
      <3> QED
        BY <3>1, <3>2
    <2>4. KnownIsPublished'
      BY <2>1, <2>2, <2>3 DEF KnownIsPublished
    <2> QED
      BY <1>1, <1>3, <2>1, <2>4 DEF IInv, ReadsFromSources, NothingYet, OnePicture, Last
  <1>5. CASE ~set_up
    <2>1. /\ success = TRUE /\ success' = TRUE /\ ~set_up'
          /\ got' = Empty /\ reads' = Empty /\ data = Empty /\ data' = Empty
          /\ seen' = seen
      BY <1>1, <1>5 DEF IInv, TypeOK, NothingYet
    <2>2. KnownIsPublished'
      BY <2>1 DEF IInv, KnownIsPublished
    <2> QED
      BY <1>3, <2>1, <2>2
      DEF IInv, ReadsFromSources, NothingYet, OnePicture
  <1> QED
    BY <1>4, <1>5

LEMMA QuietStep ==
  ASSUME IInv, CalmDown \/ StartPoll \/ UNCHANGED vars
  PROVE  IInv'
  <1>1. /\ UNCHANGED <<set_up, byWifi, got, reads, data, success, seen>>
        /\ failed' \in {failed, {}}
        /\ calm' \in {calm, TRUE}
        /\ pc' \in {pc, First}
    BY DEF CalmDown, StartPoll, vars
  <1> QED
    BY <1>1
    DEF IInv, TypeOK, ReadsFromSources, NothingYet, KnownIsPublished, OnePicture, First,
        Last, Request

LEMMA NextIInv == IInv /\ [Next]_vars => IInv'
  BY QuietStep, AnswerStep, SkipStep, CaughtStep, FailStep, SucceedStep DEF Next

LEMMA IInvHolds == Spec => []IInv
  BY InitIInv, NextIInv, PTL DEF Spec

-----------------------------------------------------------------------------
(* Every variable keeps its type: no table ever goes missing from the data *)
(* or from what entities read, whatever fails.                             *)
THEOREM TypeCorrect == Spec => []TypeOK
  <1>1. IInv => TypeOK
    BY DEF IInv
  <1> QED
    BY <1>1, IInvHolds, PTL

(* Between polls entities read one poll's answers, although the tables are *)
(* replaced at three different moments of a poll (_async_update_data).     *)
THEOREM EntitiesSeeOnePicture == Spec => []OnePicture
  <1>1. IInv => OnePicture
    BY DEF IInv
  <1> QED
    BY <1>1, IInvHolds, PTL

(* No listener misses a change although always_update is off and failed    *)
(* polls change what entities read without publishing it.                  *)
THEOREM NoChangeGoesUnnoticed == Spec => []ListenersTold
  <1>1. IInv => ListenersTold
    BY DEF IInv, KnownIsPublished, OnePicture, ListenersTold, Shown
  <1> QED
    BY <1>1, IInvHolds, PTL

-----------------------------------------------------------------------------
(* The place of each request in a poll.                                    *)
Position ==
  [meta |-> 1, names |-> 2, aps |-> 3, channels |-> 4, clients |-> 5, arp |-> 6,
   dhcp |-> 7, devices |-> 8, vdoms |-> 9, interfaces |-> 10, available |-> 11,
   resources |-> 12, dns |-> 13, vaps |-> 14, profiles |-> 15]

(* No request is made twice in a poll, so that none that has failed is     *)
(* answered after all.                                                     *)
FailedAreBehind ==
  pc # "idle" => \A t \in failed : Position[t] < Position[pc]

FailedAreMarked ==
  pc # "idle" \/ success =>
    \A t \in Tracked \cap (Marked \cup Emptied) : t \in failed => ~got[t].available

FInv == FailedAreBehind /\ FailedAreMarked

LEMMA PositionType ==
  /\ \A r \in Request : Position[r] \in Nat
  /\ \A r \in Request \ {Last} : Position[After[r]] = Position[r] + 1
  <1>1. \A r \in Request : Position[r] \in Nat
    BY DEF Position, Request
  <1>2. \A r \in Request \ {Last} : Position[After[r]] = Position[r] + 1
    BY DEF Position, After, Request, Last
  <1> QED
    BY <1>1, <1>2

LEMMA TrackedAreRequests == Tracked \subseteq Request
  BY PollAssumption DEF Table, Fatal, Retained, Marked, Emptied, Request

(* What a step that goes on to the next request has to show.               *)
LEMMA ProceedFailed ==
  ASSUME IInv, FInv, NEW r \in Request \ {Last}, pc = r,
         NEW received \in [Tracked -> Content],
         Proceed(r, received),
         failed' \subseteq failed \cup {r},
         \A t \in Tracked \cap (Marked \cup Emptied) :
           t \in failed' => ~received[t].available
  PROVE  FInv'
  <1>1. pc' = After[r] /\ got' = received
    BY DEF Proceed
  <1>2. pc # "idle"
    BY DEF Request
  <1>3. FailedAreBehind'
    <2> SUFFICES ASSUME NEW t \in failed' PROVE Position[t] < Position[After[r]]
      BY <1>1 DEF FailedAreBehind
    <2>1. Position[After[r]] = Position[r] + 1 /\ Position[r] \in Nat
      BY PositionType
    <2>2. CASE t = r
      BY <2>1, <2>2
    <2>3. CASE t \in failed
      <3>1. Position[t] < Position[r]
        BY <1>2, <2>3 DEF FInv, FailedAreBehind
      <3>2. Position[t] \in Nat
        BY <2>3, TrackedAreRequests, PositionType DEF IInv, TypeOK
      <3> QED
        BY <2>1, <3>1, <3>2
    <2> QED
      BY <2>2, <2>3
  <1>4. FailedAreMarked'
    BY <1>1 DEF FailedAreMarked
  <1> QED
    BY <1>3, <1>4 DEF FInv

LEMMA AnswerFailed ==
  ASSUME IInv, FInv, NEW r \in Request, Answer(r)
  PROVE  FInv'
  <1>1. PICK v \in Value \cup {NoValue} :
          Proceed(r, [t \in Tracked |-> IF t = r THEN [value |-> v, available |-> TRUE]
                                                 ELSE got[t]])
    BY DEF Answer
  <1> DEFINE received == [t \in Tracked |-> IF t = r THEN [value |-> v, available |-> TRUE]
                                                     ELSE got[t]]
  <1>2. /\ received \in [Tracked -> Content]
        /\ \A t \in Tracked : t # r => received[t] = got[t]
    BY DEF IInv, TypeOK, Content
  <1>3. r \in Request \ {Last} /\ pc = r /\ failed' = failed /\ pc # "idle"
    BY DEF Answer, Request
  <1>4. r \notin failed
    BY <1>3, PositionType DEF FInv, FailedAreBehind
  <1> HIDE DEF received
  <1>5. Proceed(r, received)
    BY <1>1 DEF received
  <1>6. \A t \in Tracked \cap (Marked \cup Emptied) :
          t \in failed' => ~received[t].available
    BY <1>2, <1>3, <1>4 DEF FInv, FailedAreMarked
  <1> QED
    BY <1>2, <1>3, <1>5, <1>6, ProceedFailed

LEMMA SkipFailed ==
  ASSUME IInv, FInv, NEW r \in Request, Skip(r)
  PROVE  FInv'
  <1>1. /\ r \in Request \ {Last} /\ pc = r /\ pc # "idle" /\ Proceed(r, got)
        /\ failed' = failed /\ got \in [Tracked -> Content]
    BY DEF Skip, IInv, TypeOK, Cached, Last, Request
  <1>2. \A t \in Tracked \cap (Marked \cup Emptied) : t \in failed' => ~got[t].available
    BY <1>1 DEF FInv, FailedAreMarked
  <1> QED
    BY <1>1, <1>2, ProceedFailed

LEMMA CaughtFailed ==
  ASSUME IInv, FInv, NEW r \in Request, Caught(r)
  PROVE  FInv'
  <1>1. /\ r \in Request \ {Last} /\ pc = r /\ pc # "idle" /\ Proceed(r, AfterFailure(r))
        /\ failed' \subseteq failed \cup {r}
    BY DEF Caught, Fatal, Last, Request
  <1>2. AfterFailure(r) \in [Tracked -> Content]
    BY DEF AfterFailure, IInv, TypeOK, Content
  <1>3. \A t \in Tracked \cap (Marked \cup Emptied) :
          t \in failed' => ~AfterFailure(r)[t].available
    <2> SUFFICES ASSUME NEW t \in Tracked, t \in Marked \cup Emptied, t \in failed'
                 PROVE  ~AfterFailure(r)[t].available
      OBVIOUS
    <2>1. CASE t = r
      BY <2>1 DEF AfterFailure
    <2>2. CASE t # r
      <3>1. t \in failed /\ AfterFailure(r)[t] = got[t]
        BY <1>1, <2>2 DEF AfterFailure
      <3> QED
        BY <1>1, <3>1 DEF FInv, FailedAreMarked
    <2> QED
      BY <2>1, <2>2
  <1> QED
    BY <1>1, <1>2, <1>3, ProceedFailed

(* The last request is one whose failure ends the poll.                    *)
LEMMA SucceedFailed ==
  ASSUME IInv, FInv, Succeed
  PROVE  FInv'
  <1>1. PICK v \in Value \cup {NoValue} :
          /\ got' = [t \in Tracked |-> IF t = Last THEN [value |-> v, available |-> TRUE]
                                                   ELSE got[t]]
          /\ pc' = "idle" /\ failed' = failed /\ pc # "idle"
    BY DEF Succeed, Publish, Last
  <1>2. \A t \in Marked \cup Emptied : t # Last
    BY DEF Marked, Emptied, Last
  <1>3. FailedAreMarked'
    BY <1>1, <1>2 DEF FInv, FailedAreMarked
  <1> QED
    BY <1>1, <1>3 DEF FInv, FailedAreBehind

LEMMA FailFailed ==
  ASSUME IInv, FInv, NEW r \in Request, Fail(r)
  PROVE  FInv'
  <1>1. /\ pc' = "idle" /\ success' = ~set_up /\ set_up \in BOOLEAN
        /\ got' = IF set_up THEN got ELSE Empty
    BY DEF Fail, IInv, TypeOK
  <1>2. \A t \in Tracked : ~Empty[t].available
    BY DEF Empty, Nothing
  <1>3. FailedAreMarked'
    BY <1>1, <1>2 DEF FailedAreMarked
  <1> QED
    BY <1>1, <1>3 DEF FInv, FailedAreBehind

LEMMA InitFailed == Init => FInv
  BY DEF Init, FInv, FailedAreBehind, FailedAreMarked

LEMMA NextFailed == IInv /\ FInv /\ [Next]_vars => FInv'
  <1> SUFFICES ASSUME IInv, FInv, [Next]_vars PROVE FInv'
    OBVIOUS
  <1>1. CASE CalmDown \/ UNCHANGED vars
    BY <1>1 DEF CalmDown, vars, FInv, FailedAreBehind, FailedAreMarked
  <1>2. CASE StartPoll
    BY <1>2 DEF StartPoll, FInv, FailedAreBehind, FailedAreMarked
  <1> QED
    BY <1>1, <1>2, AnswerFailed, SkipFailed, CaughtFailed, FailFailed, SucceedFailed DEF Next

(* After a successful poll, entities do not take a table for current that  *)
(* has failed and is not meant to be retained (_async_get_vdom_resources   *)
(* and the handlers of the DNS servers and of the Wi-Fi clients).          *)
THEOREM NothingFailedIsShown == Spec => []AvailableIsCurrent
  <1>1. IInv /\ FInv => AvailableIsCurrent
    BY DEF IInv, OnePicture, FInv, FailedAreMarked, AvailableIsCurrent
  <1> QED
    BY <1>1, IInvHolds, InitFailed, NextFailed, PTL DEF Spec

-----------------------------------------------------------------------------
(* What the entities show is the abstract view of what was received.       *)
LEMMA ShownIsView == \A tables, outcome : Shown(tables, outcome) = Promise!View(tables, outcome)
  BY DEF Shown, Promise!View, Empty, Promise!Nothing, Nothing, Promise!None

LEMMA InitRefines == Init => Promise!Init
  BY ShownIsView DEF Init, Promise!Init, Empty, Promise!Nothing, Nothing, Promise!None

(* The answers, and what a caught failure leaves of a table.               *)
LEMMA LeftIsAfterFailure ==
  ASSUME TypeOK, NEW r \in Tracked
  PROVE  AfterFailure(r) = [got EXCEPT ![r] = Promise!Left(r)]
  <1>1. got \in [Tracked -> Content]
    BY DEF TypeOK
  <1>2. AfterFailure(r)[r] = Promise!Left(r)
    <2>1. got[r] \in Content
      BY <1>1
    <2>2. CASE r \in Emptied
      BY <2>2 DEF AfterFailure, Promise!Left, Promise!None
    <2>3. CASE r \in Marked \ Emptied
      BY <2>1, <2>3 DEF AfterFailure, Promise!Left, Content
    <2>4. CASE r \notin Marked \cup Emptied
      BY <2>4 DEF AfterFailure, Promise!Left
    <2> QED
      BY <2>2, <2>3, <2>4
  <1>3. AfterFailure(r) = [t \in Tracked |-> IF t = r THEN AfterFailure(r)[r] ELSE got[t]]
    BY DEF AfterFailure
  <1> QED
    BY <1>1, <1>2, <1>3

(* The answer to a tracked request replaces one table, that to another     *)
(* request none.                                                           *)
LEMMA OneTableChanges ==
  ASSUME TypeOK, NEW r, NEW v \in Value \cup {NoValue},
         got' = [t \in Tracked |-> IF t = r THEN [value |-> v, available |-> TRUE]
                                           ELSE got[t]]
  PROVE  got' = got \/ \E t \in Tracked : Promise!Change(t)
  <1>1. got \in [Tracked -> Content]
    BY DEF TypeOK
  <1>2. CASE r \notin Tracked
    BY <1>1, <1>2
  <1>3. CASE r \in Tracked
    <2> DEFINE c == [value |-> v, available |-> TRUE]
    <2>1. c \in Promise!Answers
      BY DEF Promise!Answers
    <2>2. got' = [got EXCEPT ![r] = c]
      BY <1>1, <1>3
    <2> HIDE DEF c
    <2>3. Promise!Change(r)
      BY <2>1, <2>2 DEF Promise!Change
    <2> QED
      BY <1>3, <2>3
  <1> QED
    BY <1>2, <1>3

LEMMA AnswerRefines ==
  ASSUME IInv, NEW r \in Request, Answer(r)
  PROVE  Promise!Receive \/ UNCHANGED Promise!snapshotVars
  <1>1. PICK v \in Value \cup {NoValue} :
          got' = [t \in Tracked |-> IF t = r THEN [value |-> v, available |-> TRUE]
                                             ELSE got[t]]
    BY DEF Answer, Proceed
  <1>2. UNCHANGED <<set_up, success, seen>>
    BY DEF Answer, Proceed
  <1>3. got' = got \/ \E t \in Tracked : Promise!Change(t)
    BY <1>1, OneTableChanges DEF IInv
  <1> QED
    BY <1>2, <1>3 DEF Promise!Receive, Promise!snapshotVars

LEMMA CaughtRefines ==
  ASSUME IInv, NEW r \in Request, Caught(r)
  PROVE  Promise!Receive \/ UNCHANGED Promise!snapshotVars
  <1>1. got' = AfterFailure(r) /\ UNCHANGED <<set_up, success, seen>>
    BY DEF Caught, Proceed
  <1>2. CASE r \notin Tracked
    <2>1. AfterFailure(r) = [t \in Tracked |-> got[t]]
      BY <1>2 DEF AfterFailure
    <2>2. got' = got
      BY <1>1, <2>1 DEF IInv, TypeOK
    <2> QED
      BY <1>1, <2>2 DEF Promise!snapshotVars
  <1>3. CASE r \in Tracked
    <2>1. got' = [got EXCEPT ![r] = Promise!Left(r)]
      BY <1>1, <1>3, LeftIsAfterFailure DEF IInv
    <2>2. Promise!Change(r)
      BY <2>1 DEF Promise!Change
    <2> QED
      BY <1>1, <1>3, <2>2 DEF Promise!Receive
  <1> QED
    BY <1>2, <1>3

(* The listeners show all that was received, told or not.                  *)
LEMMA SucceedRefines ==
  ASSUME IInv, Succeed
  PROVE  Promise!Publish
  <1>1. PICK v \in Value \cup {NoValue} :
          Publish([t \in Tracked |-> IF t = Last THEN [value |-> v, available |-> TRUE]
                                                 ELSE got[t]])
    BY DEF Succeed
  <1> DEFINE received == [t \in Tracked |-> IF t = Last
                                            THEN [value |-> v, available |-> TRUE]
                                            ELSE got[t]]
  <1>2. received \in [Tracked -> Content] /\ \A t \in Tracked : t # Last => received[t] = got[t]
    BY DEF IInv, TypeOK, Content
  <1>3. got' = got \/ \E t \in Tracked : Promise!Change(t)
    BY <1>1, OneTableChanges DEF IInv, Publish
  <1>4. Publish(received) /\ pc = Last
    BY <1>1 DEF Succeed
  <1> HIDE DEF received
  <1>5. got' = received /\ set_up' = TRUE /\ success' = TRUE
    BY <1>4 DEF Publish
  <1>6. seen' = Shown(got', TRUE)
    BY <1>2, <1>4, <1>5, Published
  <1>7. seen' = Promise!View(got', TRUE)
    BY <1>6, ShownIsView
  <1> QED
    BY <1>3, <1>5, <1>7 DEF Promise!Publish

(* Entities are unavailable after a poll that failed; before there was a   *)
(* success nobody listens.                                                 *)
LEMMA FailRefines ==
  ASSUME IInv, NEW r \in Request, Fail(r)
  PROVE  Promise!Lose \/ Promise!Restart
  <1>1. /\ success' = ~set_up /\ set_up' = set_up
        /\ got' = IF set_up THEN got ELSE Empty
        /\ seen' = IF success /\ set_up THEN Shown(reads, FALSE) ELSE seen
    BY DEF Fail, Tell
  <1>2. \A tables : Shown(tables, FALSE) = Promise!View(got, FALSE)
    BY DEF Shown, Promise!View, Empty, Promise!Nothing, Nothing, Promise!None
  <1>3. CASE set_up
    <2>1. success' = FALSE /\ got' = got
      BY <1>1, <1>3 DEF IInv, TypeOK
    <2>2. seen' = Promise!View(got, FALSE)
      <3>1. CASE success
        BY <1>1, <1>2, <1>3, <3>1
      <3>2. CASE ~success
        <4>1. success = FALSE
          BY <3>2 DEF IInv, TypeOK
        <4> QED
          BY <1>1, <1>2, <3>2, <4>1 DEF IInv, KnownIsPublished
      <3> QED
        BY <3>1, <3>2
    <2> QED
      BY <1>1, <1>3, <2>1, <2>2 DEF Promise!Lose
  <1>4. CASE ~set_up
    <2>1. success = TRUE /\ success' = TRUE /\ got' = Empty /\ seen' = seen
      BY <1>1, <1>4 DEF IInv, TypeOK, NothingYet
    <2>2. Empty = Promise!Nothing
      BY DEF Empty, Promise!Nothing, Nothing, Promise!None
    <2> QED
      BY <1>1, <1>4, <2>1, <2>2 DEF Promise!Restart
  <1> QED
    BY <1>3, <1>4

LEMMA NextRefines == IInv /\ [Next]_vars => [Promise!Next]_(Promise!snapshotVars)
  <1> SUFFICES ASSUME IInv, [Next]_vars
               PROVE  Promise!Next \/ UNCHANGED Promise!snapshotVars
    OBVIOUS
  <1>1. CASE CalmDown \/ StartPoll \/ UNCHANGED vars
    BY <1>1 DEF CalmDown, StartPoll, vars, Promise!snapshotVars
  <1>2. ASSUME NEW r \in Request, Answer(r)
        PROVE  Promise!Next \/ UNCHANGED Promise!snapshotVars
    BY <1>2, AnswerRefines DEF Promise!Next
  <1>3. ASSUME NEW r \in Request, Skip(r) PROVE UNCHANGED Promise!snapshotVars
    BY <1>3 DEF Skip, Proceed, Promise!snapshotVars
  <1>4. ASSUME NEW r \in Request, Caught(r)
        PROVE  Promise!Next \/ UNCHANGED Promise!snapshotVars
    BY <1>4, CaughtRefines DEF Promise!Next
  <1>5. ASSUME NEW r \in Request, Fail(r) PROVE Promise!Next
    BY <1>5, FailRefines DEF Promise!Next
  <1>6. CASE Succeed
    BY <1>6, SucceedRefines DEF Promise!Next
  <1> QED
    BY <1>1, <1>2, <1>3, <1>4, <1>5, <1>6 DEF Next

(* Entities cannot tell that a poll is fifteen requests, that their        *)
(* answers are read at three different moments, or that they are not told  *)
(* of polls that bring nothing new: all they ever show is the whole of     *)
(* what was received up to a success, or nothing (_async_update_data).     *)
THEOREM PollRefines == Spec => ImplementsSnapshot
  <1>1. Init => Promise!Init
    BY InitRefines
  <1>2. IInv /\ [Next]_vars => [Promise!Next]_(Promise!snapshotVars)
    BY NextRefines
  <1> QED
    BY <1>1, <1>2, IInvHolds, PTL DEF Spec, ImplementsSnapshot, Promise!Spec

-----------------------------------------------------------------------------
(* Recovery, without the fairness that lets time pass.                     *)
Recovered == set_up /\ success /\ (pc = "idle" => seen.tables = data)

(* How many of the fifteen requests, and the poll that makes them, are     *)
(* still to come before all is published.                                  *)
Distance == IF pc = "idle" THEN 16 ELSE 16 - Position[pc]

Closer == Recovered' \/ (~Recovered /\ Distance' \in Nat /\ Distance' < Distance)

LEMMA PositionBound ==
  /\ \A r \in Request : Position[r] \in 1..15
  /\ \A r \in Request \ {Last} : After[r] \in Request /\ Position[After[r]] = Position[r] + 1
  <1>1. \A r \in Request : Position[r] \in 1..15
    BY DEF Position, Request
  <1> QED
    BY <1>1, AfterType, PositionType

(* A poll that succeeded stays what was seen last.                         *)
LEMMA RecoveredIs == IInv => (Recovered <=> set_up /\ success)
  <1> SUFFICES ASSUME IInv, success PROVE seen.tables = data
    BY DEF Recovered
  <1>1. success = TRUE
    BY DEF IInv, TypeOK
  <1> QED
    BY <1>1 DEF IInv, KnownIsPublished, Shown

LEMMA RecoveredIsNext == IInv' => (Recovered' <=> set_up' /\ success')
  BY RecoveredIs, PTL

LEMMA ProceedCloser ==
  ASSUME IInv, IInv', NEW r \in Request \ {Last}, pc = r, NEW received, Proceed(r, received)
  PROVE  Closer
  <1>1. pc' = After[r] /\ set_up' = set_up /\ success' = success
    BY DEF Proceed
  <1>2. CASE Recovered
    BY <1>1, <1>2, RecoveredIs, RecoveredIsNext DEF Closer
  <1>3. CASE ~Recovered
    <2>1. pc # "idle" /\ pc' # "idle"
      BY <1>1, PositionBound DEF Request
    <2>2. Position[r] \in 1..15 /\ Position[pc'] \in 1..15 /\ Position[pc'] = Position[r] + 1
      BY <1>1, PositionBound
    <2>3. Distance = 16 - Position[r] /\ Distance' = 16 - Position[pc']
      BY <2>1 DEF Distance
    <2> QED
      BY <1>3, <2>2, <2>3 DEF Closer
  <1> QED
    BY <1>2, <1>3

(* Once requests are answered, every step of a poll brings it nearer to    *)
(* its end, which publishes all there is, and from then on nothing is      *)
(* unavailable again, wherever failures have left the coordinator and      *)
(* whether or not the entry was set up (_async_update_data).  What Recovers *)
(* says besides is that there are such steps.                              *)
THEOREM RecoveryIsNear == Spec => [][calm => Closer]_vars
  <1>1. ASSUME IInv, IInv', [Next]_vars, calm, vars' # vars PROVE Closer
    <2>1. CASE StartPoll
      <3>1. /\ pc = "idle" /\ pc' = First /\ First \in Request /\ pc' # "idle"
            /\ set_up' = set_up /\ success' = success
        BY <2>1 DEF StartPoll, First, Request
      <3>2. Distance = 16 /\ Distance' = 16 - Position[pc'] /\ Position[pc'] \in 1..15
        BY <3>1, PositionBound DEF Distance
      <3>3. Recovered' <=> Recovered
        BY <1>1, <3>1, RecoveredIs, RecoveredIsNext
      <3> QED
        BY <3>2, <3>3 DEF Closer
    <2>2. ASSUME NEW r \in Request, Answer(r) PROVE Closer
      <3>1. r \in Request \ {Last} /\ pc = r /\ \E received : Proceed(r, received)
        BY <2>2 DEF Answer
      <3> QED
        BY <1>1, <3>1, ProceedCloser
    <2>3. ASSUME NEW r \in Request, Skip(r) PROVE Closer
      <3>1. r \in Request \ {Last} /\ pc = r /\ Proceed(r, got)
        BY <2>3 DEF Skip, Cached, Last
      <3> QED
        BY <1>1, <3>1, ProceedCloser
    <2>4. CASE Succeed
      <3>1. set_up' /\ success'
        BY <2>4 DEF Succeed, Publish
      <3> QED
        BY <1>1, <3>1, RecoveredIsNext DEF Closer
    <2> QED
      BY <1>1, <2>1, <2>2, <2>3, <2>4 DEF Next, CalmDown, Caught, Fail
  <1>2. IInv /\ IInv' /\ [Next]_vars => [calm => Closer]_vars
    BY <1>1
  <1> QED
    BY <1>2, IInvHolds, PTL DEF Spec
=============================================================================
