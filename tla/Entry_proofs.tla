---------------------------- MODULE Entry_proofs ----------------------------
(* Proofs about one config entry: about EntryLifecycle, for any set of     *)
(* entries and of managers, and about Entities, for any tables, rows and   *)
(* values.                                                                 *)
EXTENDS EntryLifecycle, Entities, TLAPS

-----------------------------------------------------------------------------
(* EntryLifecycle.                                                         *)

(* The registered hubs are the entries in the states of HubState.          *)
HubsAreRegistered == hubs = {e \in Entry : state[e] \in HubState}

(* A platform that is not set up has added no entities.                    *)
SharedNeedsReady ==
  \A p \in Platform, e \in Entry : p \notin ready[e] => shared[p][e] = NoManager

(* The inductive invariant: the invariants of the module with what ties    *)
(* the registration to the state and the entities to the set-up platforms. *)
IInv ==
  /\ TypeOK
  /\ HubsAreRegistered
  /\ SharedNeedsReady
  /\ OwnerIsRegistered
  /\ SharedOnlyWithOwner
  /\ NoStaleManager
  /\ OwnerShowsFilters

-----------------------------------------------------------------------------
(* With no manager there are no shared entities, so a new manager is one   *)
(* that nothing refers to, and an existing one is kept.                    *)
LEMMA ManagerObtained ==
  ASSUME IInv, GetOrCreateManager
  PROVE  /\ manager' \in Manager
         /\ manager' # NoManager
         /\ \A p \in Platform, e \in Entry : shared[p][e] \in {NoManager, manager'}
  BY LifecycleAssumption DEF IInv, TypeOK, GetOrCreateManager, NoStaleManager

(* The initial states satisfy the inductive invariant.                     *)
LEMMA InitIInv == Init => IInv
  BY LifecycleAssumption
  DEF Init, IInv, TypeOK, HubsAreRegistered, SharedNeedsReady, OwnerIsRegistered,
      SharedOnlyWithOwner, HasShared, NoStaleManager, OwnerShowsFilters, EntryState,
      HubState

(* Steps that only move an entry between states, none of which makes or    *)
(* ends a registration, or that queue a reload.                            *)
LEMMA QuietStep ==
  ASSUME IInv,
         UNCHANGED <<hubs, manager, owner, ready, shared>>,
         state' \in [Entry -> EntryState],
         disabled' \subseteq Entry, pending' \subseteq Entry,
         \A e \in Entry : /\ state'[e] \in HubState <=> state[e] \in HubState
                          /\ state'[e] \in {"platforms", "loaded"}
                               => state[e] \in {"platforms", "loaded"}
  PROVE  IInv'
  BY DEF IInv, TypeOK, HubsAreRegistered, SharedNeedsReady, OwnerIsRegistered,
         SharedOnlyWithOwner, HasShared, NoStaleManager, OwnerShowsFilters

(* The state an entry is in after its part of a reload.                    *)
LEMMA BeginSetupIsIdle ==
  ASSUME NEW e \in Entry
  PROVE  BeginSetup(e) \in EntryState \ HubState
  BY DEF BeginSetup, EntryState, HubState

LEMMA UserStep ==
  ASSUME IInv, NEW e \in Entry, User(e)
  PROVE  IInv'
  <1>1. /\ UNCHANGED <<state, hubs, manager, owner, ready, shared>>
        /\ disabled' \subseteq Entry
        /\ pending' \subseteq Entry
    BY DEF IInv, TypeOK, User, RequestReload, Disable, Enable
  <1> QED
    BY <1>1, QuietStep DEF IInv, TypeOK

LEMMA StartReloadStep ==
  ASSUME IInv, NEW e \in Entry, StartReload(e)
  PROVE  IInv'
  <1>1. /\ UNCHANGED <<disabled, hubs, manager, owner, ready, shared>>
        /\ pending' \subseteq Entry
        /\ state[e] \in EntryState \ InProgress
    BY DEF IInv, TypeOK, StartReload
  <1>2. /\ state' \in [Entry -> EntryState]
        /\ \A x \in Entry : x # e => state'[x] = state[x]
        /\ state[e] = "loaded" => state'[e] = "unloading"
        /\ state[e] = "failed_unload" => state'[e] = "failed_unload"
        /\ state[e] \notin {"loaded", "failed_unload"} => state'[e] = BeginSetup(e)
    BY BeginSetupIsIdle DEF IInv, TypeOK, StartReload, EntryState
  <1>3. \A x \in Entry : /\ state'[x] \in HubState <=> state[x] \in HubState
                         /\ state'[x] \in {"platforms", "loaded"}
                              => state[x] \in {"platforms", "loaded"}
    BY <1>1, <1>2, BeginSetupIsIdle DEF EntryState, HubState, InProgress
  <1> QED
    BY <1>1, <1>2, <1>3, QuietStep DEF IInv, TypeOK

LEMMA RetryStep ==
  ASSUME IInv, NEW e \in Entry, Retry(e)
  PROVE  IInv'
  <1>1. /\ UNCHANGED <<disabled, pending, hubs, manager, owner, ready, shared>>
        /\ state' \in [Entry -> EntryState]
        /\ \A x \in Entry : x # e => state'[x] = state[x]
        /\ state[e] = "setup_retry" /\ state'[e] = BeginSetup(e)
    BY BeginSetupIsIdle DEF IInv, TypeOK, Retry
  <1>2. \A x \in Entry : /\ state'[x] \in HubState <=> state[x] \in HubState
                         /\ state'[x] \in {"platforms", "loaded"}
                              => state[x] \in {"platforms", "loaded"}
    BY <1>1, BeginSetupIsIdle DEF HubState
  <1> QED
    BY <1>1, <1>2, QuietStep DEF IInv, TypeOK

LEMMA ConnectFailsStep ==
  ASSUME IInv, NEW e \in Entry, ConnectFails(e)
  PROVE  IInv'
  <1>1. /\ UNCHANGED <<disabled, pending, hubs, manager, owner, ready, shared>>
        /\ state' = [state EXCEPT ![e] = "setup_retry"]
        /\ state[e] = "connecting"
        /\ state \in [Entry -> EntryState]
    BY DEF IInv, TypeOK, ConnectFails
  <1> QED
    BY <1>1, QuietStep DEF IInv, TypeOK, EntryState, HubState

(* The only step without a registration that may create a manager.         *)
LEMMA SetupErrorsStep ==
  ASSUME IInv, NEW e \in Entry, SetupErrors(e)
  PROVE  IInv'
  <1>1. /\ UNCHANGED <<disabled, pending, hubs, owner, ready, shared>>
        /\ state' = [state EXCEPT ![e] = "setup_error"]
        /\ state[e] = "connecting"
        /\ state \in [Entry -> EntryState]
    BY DEF IInv, TypeOK, SetupErrors
  <1>2. CASE UNCHANGED manager
    BY <1>1, <1>2, QuietStep DEF IInv, TypeOK, EntryState, HubState
  <1>3. CASE GetOrCreateManager
    <2>1. TypeOK' /\ HubsAreRegistered'
      BY <1>1, <1>3, ManagerObtained
      DEF IInv, TypeOK, HubsAreRegistered, EntryState, HubState
    <2>2. NoStaleManager'
      BY <1>1, <1>3, ManagerObtained DEF NoStaleManager
    <2>3. /\ SharedNeedsReady'
          /\ OwnerIsRegistered'
          /\ SharedOnlyWithOwner'
          /\ OwnerShowsFilters'
      BY <1>1
      DEF IInv, SharedNeedsReady, OwnerIsRegistered, SharedOnlyWithOwner, HasShared,
          OwnerShowsFilters
    <2> QED
      BY <2>1, <2>2, <2>3 DEF IInv
  <1> QED
    BY <1>2, <1>3 DEF SetupErrors

LEMMA RegisterStep ==
  ASSUME IInv, NEW e \in Entry, Register(e)
  PROVE  IInv'
  <1>1. /\ UNCHANGED <<disabled, pending, owner, ready, shared>>
        /\ state' = [state EXCEPT ![e] = "platforms"]
        /\ state[e] = "connecting"
        /\ hubs' = hubs \cup {e}
        /\ state \in [Entry -> EntryState]
        /\ GetOrCreateManager
    BY DEF IInv, TypeOK, Register
  <1>2. TypeOK' /\ HubsAreRegistered'
    BY <1>1, ManagerObtained DEF IInv, TypeOK, HubsAreRegistered, EntryState, HubState
  <1>3. NoStaleManager'
    BY <1>1, ManagerObtained DEF NoStaleManager
  <1>4. e # owner                        \* the owner is registered, e is not
    BY <1>1, LifecycleAssumption DEF IInv, OwnerIsRegistered, HubsAreRegistered, HubState
  <1>5. OwnerShowsFilters'
    BY <1>1, <1>4 DEF IInv, OwnerShowsFilters, HasShared
  <1>6. SharedNeedsReady' /\ OwnerIsRegistered' /\ SharedOnlyWithOwner'
    BY <1>1 DEF IInv, SharedNeedsReady, OwnerIsRegistered, SharedOnlyWithOwner, HasShared
  <1> QED
    BY <1>2, <1>3, <1>5, <1>6 DEF IInv

LEMMA SetupPlatformStep ==
  ASSUME IInv, NEW e \in Entry, NEW p \in Platform, SetupPlatform(e, p)
  PROVE  IInv'
  <1>1. /\ UNCHANGED <<state, disabled, pending, hubs, manager>>
        /\ state[e] = "platforms"
        /\ ready' = [ready EXCEPT ![e] = @ \cup {p}]
        /\ owner' = ClaimOwner(e)
        /\ shared' = IF owner' = e THEN [shared EXCEPT ![p][e] = manager] ELSE shared
    BY DEF SetupPlatform
  <1>2. e \in hubs /\ manager \in Manager /\ manager # NoManager
    BY <1>1 DEF IInv, TypeOK, HubsAreRegistered, HubState, NoStaleManager
  <1>3. owner' \in Entry /\ owner' \in hubs /\ (owner # NoEntry => owner' = owner)
    BY <1>1, <1>2, LifecycleAssumption DEF IInv, TypeOK, ClaimOwner, OwnerIsRegistered
  <1>4. TypeOK' /\ HubsAreRegistered' /\ OwnerIsRegistered'
    BY <1>1, <1>2, <1>3 DEF IInv, TypeOK, HubsAreRegistered, OwnerIsRegistered
  <1>5. \A q \in Platform, x \in Entry :
          shared'[q][x] = IF owner' = e /\ q = p /\ x = e THEN manager ELSE shared[q][x]
    BY <1>1 DEF IInv, TypeOK
  <1>6. SharedNeedsReady' /\ NoStaleManager'
    BY <1>1, <1>2, <1>5 DEF IInv, TypeOK, SharedNeedsReady, NoStaleManager
  <1>7. SharedOnlyWithOwner'
    BY <1>3, <1>5, LifecycleAssumption DEF IInv, SharedOnlyWithOwner, HasShared
  <1>8. OwnerShowsFilters'
    <2> SUFFICES ASSUME NEW x \in Entry, owner' = x, state[x] \in {"platforms", "loaded"}
                 PROVE  \E q \in Platform : shared'[q][x] # NoManager
      BY <1>1 DEF OwnerShowsFilters, HasShared
    <2>1. CASE x = e
      BY <1>2, <1>5, <2>1
    <2>2. CASE x # e
      BY <1>1, <1>3, <1>5, <2>2 DEF IInv, OwnerShowsFilters, HasShared, ClaimOwner
    <2> QED
      BY <2>1, <2>2
  <1> QED
    BY <1>4, <1>6, <1>7, <1>8 DEF IInv

LEMMA FinishSetupStep ==
  ASSUME IInv, NEW e \in Entry, FinishSetup(e)
  PROVE  IInv'
  <1>1. /\ UNCHANGED <<disabled, pending, hubs, manager, owner, ready, shared>>
        /\ state' = [state EXCEPT ![e] = "loaded"]
        /\ state[e] = "platforms"
        /\ state \in [Entry -> EntryState]
    BY DEF IInv, TypeOK, FinishSetup
  <1> QED
    BY <1>1, QuietStep DEF IInv, TypeOK, EntryState, HubState

LEMMA UnloadPlatformStep ==
  ASSUME IInv, NEW e \in Entry, NEW p \in Platform, UnloadPlatform(e, p)
  PROVE  IInv'
  <1>1. /\ UNCHANGED <<state, disabled, pending, hubs, manager, owner>>
        /\ state[e] = "unloading"
        /\ ready' = [ready EXCEPT ![e] = @ \ {p}]
        /\ shared' = [shared EXCEPT ![p][e] = NoManager]
    BY DEF UnloadPlatform
  <1>2. \A q \in Platform, x \in Entry :
          shared'[q][x] = IF q = p /\ x = e THEN NoManager ELSE shared[q][x]
    BY <1>1 DEF IInv, TypeOK
  <1>3. TypeOK' /\ HubsAreRegistered' /\ OwnerIsRegistered'
    BY <1>1 DEF IInv, TypeOK, HubsAreRegistered, OwnerIsRegistered
  <1>4. SharedNeedsReady' /\ NoStaleManager' /\ SharedOnlyWithOwner'
    BY <1>1, <1>2
    DEF IInv, TypeOK, SharedNeedsReady, NoStaleManager, SharedOnlyWithOwner, HasShared
  <1>5. OwnerShowsFilters'
    BY <1>1, <1>2 DEF IInv, OwnerShowsFilters, HasShared
  <1> QED
    BY <1>3, <1>4, <1>5 DEF IInv

LEMMA UnloadFailsStep ==
  ASSUME IInv, NEW e \in Entry, UnloadFails(e)
  PROVE  IInv'
  <1>1. /\ UNCHANGED <<disabled, pending, hubs, manager, owner, ready, shared>>
        /\ state' = [state EXCEPT ![e] = "failed_unload"]
        /\ state[e] = "unloading"
        /\ state \in [Entry -> EntryState]
    BY DEF IInv, TypeOK, UnloadFails
  <1> QED
    BY <1>1, QuietStep DEF IInv, TypeOK, EntryState, HubState

(* The entities of e are gone, so the entries that are left lose nothing,  *)
(* and when no entry is left nothing refers to the manager.                *)
LEMMA FinishUnloadStep ==
  ASSUME IInv, NEW e \in Entry, FinishUnload(e)
  PROVE  IInv'
  <1>1. /\ UNCHANGED <<disabled, ready, shared>>
        /\ state[e] = "unloading"
        /\ ready[e] = {}
        /\ hubs' = hubs \ {e}
        /\ owner' = OwnerAfterRelease(e)
        /\ manager' = ManagerAfterUnload(e)
        /\ state' = [state EXCEPT ![e] = BeginSetup(e)]
        /\ pending' \subseteq Entry
    BY DEF IInv, TypeOK, FinishUnload, Successors
  <1>2. BeginSetup(e) \in EntryState \ HubState
    BY BeginSetupIsIdle
  <1>3. \A p \in Platform : shared[p][e] = NoManager
    BY <1>1 DEF IInv, SharedNeedsReady
  <1>4. e \in hubs /\ manager # NoManager
    BY <1>1 DEF IInv, TypeOK, HubsAreRegistered, HubState, NoStaleManager
  <1>5. TypeOK' /\ HubsAreRegistered'
    BY <1>1, <1>2
    DEF IInv, TypeOK, HubsAreRegistered, OwnerAfterRelease, ManagerAfterUnload
  <1>6. SharedNeedsReady' /\ OwnerIsRegistered' /\ SharedOnlyWithOwner'
    BY <1>1, <1>3
    DEF IInv, SharedNeedsReady, OwnerIsRegistered, SharedOnlyWithOwner, HasShared,
        OwnerAfterRelease
  <1>7. NoStaleManager'
    <2>1. CASE hubs \ {e} = {}
      <3>1. \A p \in Platform, x \in Entry : shared[p][x] = NoManager
        BY <1>3, <2>1, LifecycleAssumption
        DEF IInv, SharedOnlyWithOwner, HasShared, OwnerIsRegistered
      <3> QED
        BY <1>1, <2>1, <3>1 DEF NoStaleManager
    <2>2. CASE hubs \ {e} # {}
      BY <1>1, <1>4, <2>2 DEF IInv, NoStaleManager, ManagerAfterUnload
    <2> QED
      BY <2>1, <2>2
  <1>8. OwnerShowsFilters'
    BY <1>1, <1>2, LifecycleAssumption
    DEF IInv, TypeOK, OwnerShowsFilters, HasShared, OwnerAfterRelease, HubState
  <1> QED
    BY <1>5, <1>6, <1>7, <1>8 DEF IInv

LEMMA NextIInv == IInv /\ [Next]_vars => IInv'
  <1> SUFFICES ASSUME IInv, [Next]_vars PROVE IInv'
    OBVIOUS
  <1>1. CASE Next
    <2>1. PICK e \in Entry :
            \/ User(e) \/ StartReload(e) \/ Retry(e) \/ Setup(e) \/ FinishSetup(e)
            \/ Unload(e)
            \/ \E p \in Platform : SetupPlatform(e, p) \/ UnloadPlatform(e, p)
      BY <1>1 DEF Next
    <2> QED
      BY <2>1, UserStep, StartReloadStep, RetryStep, RegisterStep, ConnectFailsStep,
         SetupErrorsStep, SetupPlatformStep, FinishSetupStep, UnloadPlatformStep,
         FinishUnloadStep, UnloadFailsStep
      DEF Setup, Unload
  <1>2. CASE UNCHANGED vars
    BY <1>2
    DEF vars, IInv, TypeOK, HubsAreRegistered, SharedNeedsReady, OwnerIsRegistered,
        SharedOnlyWithOwner, HasShared, NoStaleManager, OwnerShowsFilters
  <1> QED
    BY <1>1, <1>2

LEMMA IInvHolds == Spec => []IInv
  BY InitIInv, NextIInv, PTL DEF Spec

-----------------------------------------------------------------------------
(* Every variable keeps its type, for any set of entries.                  *)
THEOREM TypeCorrect == Spec => []TypeOK
  <1>1. IInv => TypeOK
    BY DEF IInv
  <1> QED
    BY <1>1, IInvHolds, PTL

(* The shared entities exist once: however the setups, unloads, failures   *)
(* and reloads of any number of entries interleave, only the owner has any *)
(* (claim_owner, release_owner and the select and switch platforms).       *)
THEOREM SharedExistOnce == Spec => []SharedOnlyWithOwner
  <1>1. IInv => SharedOnlyWithOwner
    BY DEF IInv
  <1> QED
    BY <1>1, IInvHolds, PTL

(* The owner is registered, so its unload releases the ownership           *)
(* (release_owner after unregister_hub in async_unload_entry).             *)
THEOREM OwnerStaysRegistered == Spec => []OwnerIsRegistered
  <1>1. IInv => OwnerIsRegistered
    BY DEF IInv
  <1> QED
    BY <1>1, IInvHolds, PTL

(* No shared entity ever listens to a filter manager that was shut down or *)
(* replaced (async_setup_entry and async_unload_entry in __init__.py).     *)
THEOREM ManagerStaysCurrent == Spec => []NoStaleManager
  <1>1. IInv => NoStaleManager
    BY DEF IInv
  <1> QED
    BY <1>1, IInvHolds, PTL

(* The owner that is set up shows shared entities (claim_owner is only     *)
(* called by a platform that then adds them).                              *)
THEOREM OwnerHasEntities == Spec => []OwnerShowsFilters
  <1>1. IInv => OwnerShowsFilters
    BY DEF IInv
  <1> QED
    BY <1>1, IInvHolds, PTL

-----------------------------------------------------------------------------
(* Entities.                                                               *)

(* What any table may have rows of.                                        *)
Thing == UNION {Things[t] : t \in Tables}

(* The kinds of sensors.                                                   *)
Kind == {"state", "row", "ip", "last_name", "assigned", "match"}

(* Tables that are what entities may read.                                 *)
Typed(tbls) ==
  /\ tbls \in [Tables -> UNION {Content(t) : t \in Tables}]
  /\ \A t \in Tables : tbls[t] \in Content(t)

(* What Last Known Hostname may be.                                        *)
Names == Value["clients"] \cup {None}

(* Last Known Hostname never shows an address.                             *)
LastNames == \A s \in DOMAIN shown : s[3] = "last_name" => shown[s].value \in Names

(* Sensors are unloaded with their entry.                                  *)
NoneUnloaded == ~loaded => DOMAIN shown = {}

(* The firmware sensor compares a release with the one it shows.           *)
ComparedIsShown == firmware.value = firmware.last

(* The inductive invariant.  A poll of which the listeners are not told    *)
(* leaves the sensors as they were; that they are current all the same     *)
(* follows from what they showed before, so the invariants of the module   *)
(* are needed together.                                                    *)
EntitiesInv ==
  /\ EntitiesTypeOK /\ LastNames /\ NoneUnloaded /\ ComparedIsShown
  /\ ShownIsCurrent /\ AllDiscovered /\ RememberedReturn /\ ReleaseShown

-----------------------------------------------------------------------------
(* What a sensor consists of, and what makes one.                          *)
LEMMA SensorElim ==
  ASSUME NEW rows, NEW flags, NEW s \in Sensors(rows, flags)
  PROVE  /\ s = <<s[1], s[2], s[3]>>
         /\ s[1] \in Tables /\ s[2] \in rows[s[1]] /\ s[3] \in SensorsOf(s[1], flags)
  <1>1. PICK t \in Tables : s \in {t} \X rows[t] \X SensorsOf(t, flags)
    BY DEF Sensors
  <1> QED
    BY <1>1

(* A row with a kind of sensors of its table makes a sensor.               *)
LEMMA SensorIntro ==
  ASSUME NEW rows, NEW flags, NEW t \in Tables, NEW x \in rows[t], NEW k \in SensorsOf(t, flags)
  PROVE  <<t, x, k>> \in Sensors(rows, flags)
  BY DEF Sensors

(* More rows, more sensors.                                                *)
LEMMA SensorsGrow ==
  ASSUME NEW rows, NEW more, NEW flags, \A t \in Tables : rows[t] \subseteq more[t]
  PROVE  Sensors(rows, flags) \subseteq Sensors(more, flags)
  BY DEF Sensors

(* Only clients have sensors that read other tables.                       *)
LEMMA KindsOfSensors ==
  ASSUME NEW t \in Tables, NEW flags, NEW k \in SensorsOf(t, flags)
  PROVE  /\ k \in Kind
         /\ k \in {"ip", "assigned", "last_name"} => t = "clients"
  BY EntitiesAssumption DEF SensorsOf, Kind, AllTables

(* What a table says of anything, known or not.                            *)
LEMMA RowType ==
  ASSUME NEW tbls, Typed(tbls), NEW t, NEW x
  PROVE  Row(tbls, t, x) \in Said
  <1>1. CASE t \in Tables /\ x \in Things[t]
    <2>1. tbls[t].rows \in [Things[t] -> Value[t] \cup {None}]
      BY <1>1 DEF Typed, Content
    <2> QED
      BY <1>1, <2>1 DEF Row, Said
  <1>2. CASE ~(t \in Tables /\ x \in Things[t])
    BY <1>2 DEF Row, Said
  <1> QED
    BY <1>1, <1>2

(* The type of what a sensor shows; writing it twice is writing it once,   *)
(* also for the last known host name, which depends on what was shown.     *)
LEMMA ViewType ==
  ASSUME NEW tbls, Typed(tbls), NEW ok \in BOOLEAN, NEW rows, NEW flags, NEW s \in Sensors(rows, flags),
         \A t \in Tables : rows[t] \subseteq Things[t],
         NEW name, s[3] = "last_name" => name \in Names
  PROVE  /\ View(tbls, ok, s, name) \in [ok : BOOLEAN, value : Said]
         /\ s[3] = "last_name" => View(tbls, ok, s, name).value \in Names
         /\ s[3] # "state" =>
              View(tbls, ok, s, View(tbls, ok, s, name).value) = View(tbls, ok, s, name)
  <1> DEFINE t == s[1]
             x == s[2]
  <1>1. t \in Tables /\ x \in Things[t] /\ s[3] \in Kind /\ (s[3] = "last_name" => t = "clients")
    BY SensorElim, KindsOfSensors
  <1>2. tbls[t].rows[x] \in Value[t] \cup {None}
    BY <1>1 DEF Typed, Content
  <1>3. tbls[t].rows[x] \in Said
    BY <1>1, <1>2 DEF Said
  <1>4. \A c \in BOOLEAN, v \in Said : State(c, v) \in [ok : BOOLEAN, value : Said]
    BY DEF State
  <1>5. CASE s[3] = "row"
    <2>1. View(tbls, ok, s, name) = RowState(tbls, ok, t, x)
          /\ View(tbls, ok, s, View(tbls, ok, s, name).value) = RowState(tbls, ok, t, x)
      BY <1>5 DEF View
    <2>2. RowState(tbls, ok, t, x) \in [ok : BOOLEAN, value : Said]
      BY <1>3, <1>4 DEF RowState
    <2> QED
      BY <1>5, <2>1, <2>2
  <1>6. CASE s[3] = "ip"
    <2>1. View(tbls, ok, s, name) = IpState(tbls, ok, x)
          /\ View(tbls, ok, s, View(tbls, ok, s, name).value) = IpState(tbls, ok, x)
      BY <1>6 DEF View
    <2>2. IpState(tbls, ok, x) \in [ok : BOOLEAN, value : Said]
      BY <1>4, RowType DEF IpState
    <2> QED
      BY <1>6, <2>1, <2>2
  <1>7. CASE s[3] = "assigned"
    <2>1. View(tbls, ok, s, name) = AssignedState(tbls, ok, x)
          /\ View(tbls, ok, s, View(tbls, ok, s, name).value) = AssignedState(tbls, ok, x)
      BY <1>7 DEF View
    <2>2. AssignedState(tbls, ok, x) \in [ok : BOOLEAN, value : Said]
      BY <1>4, RowType DEF AssignedState
    <2> QED
      BY <1>7, <2>1, <2>2
  <1>8. CASE s[3] = "match"
    <2>1. View(tbls, ok, s, name) = MatchState(tbls, ok, x)
          /\ View(tbls, ok, s, View(tbls, ok, s, name).value) = MatchState(tbls, ok, x)
      BY <1>8 DEF View
    <2>2. MatchState(tbls, ok, x) \in [ok : BOOLEAN, value : Said]
      BY <1>4, RowType DEF MatchState
    <2> QED
      BY <1>8, <2>1, <2>2
  <1>9. CASE s[3] = "last_name"
    <2> DEFINE now == tbls["clients"].rows[x]
               last == IF now \in {None, Unnamed} THEN name ELSE now
    <2>1. \A n : View(tbls, ok, s, n) = LastName(tbls, x, n)
      BY <1>9 DEF View
    <2>2. now \in Names /\ last \in Names /\ Names \subseteq Said
      BY <1>1, <1>2, <1>9, EntitiesAssumption DEF Names, Said
    <2>3. LastName(tbls, x, name) = State(last # None, last)
      BY DEF LastName
    <2>4. LastName(tbls, x, last) = State(last # None, last)
      BY DEF LastName
    <2>5. State(last # None, last).value = last
      BY DEF State
    <2>6. State(last # None, last) \in [ok : BOOLEAN, value : Said]
      BY <1>4, <2>2
    <2> QED
      BY <2>1, <2>2, <2>3, <2>4, <2>5, <2>6
  <1>10. CASE s[3] = "state"
    <2>1. View(tbls, ok, s, name) = State(TRUE, tbls[t].rows[x])
      BY <1>10 DEF View
    <2> QED
      BY <1>3, <1>4, <1>10, <2>1
  <1> QED
    BY <1>1, <1>5, <1>6, <1>7, <1>8, <1>9, <1>10 DEF Kind

-----------------------------------------------------------------------------
(* What a request comes to is something that entities may read.            *)
LEMMA OutcomeType ==
  ASSUME NEW t \in Tables, NEW flags, NEW before \in Content(t), NEW c \in Outcomes(t, flags, before)
  PROVE  c \in Content(t)
  <1>1. Nothing[t] \in Content(t)
    BY DEF Nothing, Content
  <1>2. Failure(t, before) \in Content(t)
    <2>1. [before EXCEPT !.available = FALSE] \in Content(t)
      BY DEF Content
    <2> QED
      BY <1>1, <2>1 DEF Failure
  <1>3. \A r \in [Things[t] -> Value[t] \cup {None}] : [rows |-> r, available |-> TRUE] \in Content(t)
    BY DEF Content
  <1> QED
    BY <1>1, <1>2, <1>3 DEF Outcomes, Answers

(* Each table is as it was, or is in S and what a request for it comes to. *)
Asked(tbls, S, flags) ==
  {q \in [Tables -> UNION {Content(t) : t \in Tables}] :
     \A t \in Tables : q[t] = tbls[t] \/ (t \in S /\ q[t] \in Outcomes(t, flags, tbls[t]))}

(* One request more leads from such tables to such tables.                 *)
LEMMA AskOne ==
  ASSUME NEW tbls, Typed(tbls), NEW S \in SUBSET Tables, NEW flags, NEW t,
         NEW all \in SUBSET Asked(tbls, S, flags)
  PROVE  AndThen(all, t, S, flags, tbls) \in SUBSET Asked(tbls, S, flags)
  <1>1. ASSUME t \in S, NEW a \in all, NEW c \in Outcomes(t, flags, tbls[t])
        PROVE  [a EXCEPT ![t] = c] \in Asked(tbls, S, flags)
    <2>1. t \in Tables /\ c \in Content(t)
      BY <1>1, OutcomeType DEF Typed
    <2>2. [a EXCEPT ![t] = c] \in [Tables -> UNION {Content(u) : u \in Tables}]
      BY <2>1 DEF Asked
    <2> QED
      BY <1>1, <2>1, <2>2 DEF Asked
  <1> QED
    BY <1>1 DEF AndThen

(* What can be read after requests one after the other.                    *)
LEMMA RequestedType ==
  ASSUME NEW tbls, Typed(tbls), NEW S \in SUBSET Tables, NEW flags, NEW q \in Requested(S, flags, tbls)
  PROVE  /\ Typed(q)
         /\ \A t \in Tables : q[t] = tbls[t] \/ (t \in S /\ q[t] \in Outcomes(t, flags, tbls[t]))
  <1> DEFINE After(all, t) == AndThen(all, t, S, flags, tbls)
             R == SUBSET Asked(tbls, S, flags)
             wifi == After(After({tbls}, "aps"), "clients")
             addresses == After(After(After(wifi, "arp"), "dhcp"), "devices")
             rest == After(After(After(addresses, "vdoms"), "interfaces"), "dns")
  <1>1. {tbls} \in R
    BY DEF Asked, Typed
  <1>2. ASSUME NEW t, NEW all \in R PROVE After(all, t) \in R
    BY AskOne
  <1>3. q \in rest
    BY DEF Requested
  <1> HIDE DEF After, R
  <1>4. wifi \in R
    BY <1>1, <1>2
  <1> HIDE DEF wifi
  <1>5. addresses \in R
    BY <1>2, <1>4
  <1> HIDE DEF addresses
  <1>6. rest \in R
    BY <1>2, <1>5
  <1>7. q \in Asked(tbls, S, flags)
    BY <1>3, <1>6 DEF R
  <1>8. \A t \in Tables : q[t] \in Content(t)
    BY <1>7, OutcomeType DEF Asked, Typed
  <1> QED
    BY <1>7, <1>8 DEF Asked, Typed

-----------------------------------------------------------------------------
(* What NamesKept says of a step.                                          *)
NamesStay == \A x \in Things["clients"] : Named(x) => Named(x)'

(* A last known host name is not lost by writing it again.                 *)
LEMMA LastNameStays ==
  ASSUME NEW tbls, NEW ok, NEW x, NEW name, name # None
  PROVE  View(tbls, ok, <<"clients", x, "last_name">>, name).value # None
  <1> DEFINE now == tbls["clients"].rows[x]
             last == IF now \in {None, Unnamed} THEN name ELSE now
  <1>1. View(tbls, ok, <<"clients", x, "last_name">>, name) = LastName(tbls, x, name)
    BY DEF View
  <1>2. LastName(tbls, x, name).value = last
    BY DEF LastName, State
  <1>3. last # None
    OBVIOUS
  <1> QED
    BY <1>1, <1>2, <1>3

(* The type of the first state of a sensor.                                *)
LEMMA NewStateType ==
  ASSUME NEW tbls, Typed(tbls), NEW ok \in BOOLEAN, NEW rows, NEW flags, NEW s \in Sensors(rows, flags),
         \A t \in Tables : rows[t] \subseteq Things[t],
         stored \in [Things["clients"] -> Names]
  PROVE  /\ NewState(tbls, ok, s) \in [ok : BOOLEAN, value : Said]
         /\ s[3] = "last_name" => NewState(tbls, ok, s).value \in Names
         /\ s[3] # "state" => View(tbls, ok, s, NewState(tbls, ok, s).value) = NewState(tbls, ok, s)
  <1> DEFINE name == IF s[3] = "last_name" THEN stored[s[2]] ELSE None
  <1>1. s[1] \in Tables /\ s[2] \in Things[s[1]] /\ (s[3] = "last_name" => s[1] = "clients")
    BY SensorElim, KindsOfSensors
  <1>2. s[3] = "last_name" => name \in Names
    BY <1>1
  <1>3. NewState(tbls, ok, s) = View(tbls, ok, s, name)
    BY DEF NewState
  <1> HIDE DEF name
  <1> QED
    BY <1>2, <1>3, ViewType

(* What holds of a sensor that was just written.                           *)
Fresh(s) ==
  /\ shown'[s] \in [ok : BOOLEAN, value : Said]
  /\ s[3] = "last_name" => shown'[s].value \in Names
  /\ s[3] # "state" => View(tables', success', s, shown'[s].value) = shown'[s]

(* The tables that are read now.                                           *)
LEMMA TypedNow == EntitiesTypeOK => Typed(tables)
  BY DEF EntitiesTypeOK, Typed

-----------------------------------------------------------------------------
(* When the listeners are told every sensor is brought up to date, and the *)
(* new rows get theirs (async_update_listeners).                           *)
LEMMA ListenersTold ==
  ASSUME EntitiesInv, loaded, loaded', Typed(tables'), version' \in Version, success' \in BOOLEAN,
         UNCHANGED <<loaded, sync, stored>>, TellListeners(tables', version', success')
  PROVE  EntitiesInv' /\ NamesStay
  <1>1. /\ known' = WithNew(tables', success')
        /\ shown' = [s \in Sensors(known', sync) |->
                       IF s \in DOMAIN shown THEN Written(tables', success', s)
                       ELSE NewState(tables', success', s)]
        /\ firmware' = FirmwareAfter(version', success')
        /\ registry' = [t \in DOMAIN registry |-> registry[t] \cup known'[t]]
    BY DEF TellListeners
  <1>2. /\ EntitiesTypeOK /\ LastNames /\ NoneUnloaded /\ ComparedIsShown /\ RememberedReturn
        /\ stored \in [Things["clients"] -> Names]
    BY DEF EntitiesInv, EntitiesTypeOK, Names
  <1>3. /\ known' \in [Tables -> SUBSET Thing]
        /\ \A t \in Tables : known[t] \subseteq known'[t] /\ known'[t] \subseteq Things[t]
        /\ success' =>
             \A t \in Discovered \cap Tables : Synced(t, sync) => Rows(tables', t) \subseteq known'[t]
    <2>1. \A t \in Tables : Rows(tables', t) \subseteq Things[t]
      BY DEF Rows
    <2>2. \A t \in Tables : known[t] \subseteq Things[t] /\ Things[t] \subseteq Thing
      BY <1>2 DEF EntitiesTypeOK, Thing
    <2> QED
      BY <1>1, <2>1, <2>2 DEF WithNew
  <1>4. DOMAIN shown = Sensors(known, sync) /\ DOMAIN shown' = Sensors(known', sync)
        /\ DOMAIN shown \subseteq DOMAIN shown'
    BY <1>1, <1>2, <1>3, SensorsGrow DEF EntitiesTypeOK
  <1>5. ASSUME NEW s \in DOMAIN shown' PROVE Fresh(s)
    <2>1. CASE s \notin DOMAIN shown
      <3>1. shown'[s] = NewState(tables', success', s)
        BY <1>1, <1>4, <2>1
      <3> QED
        BY <1>2, <1>3, <1>4, <3>1, NewStateType DEF Fresh
    <2>2. CASE s \in DOMAIN shown
      <3>1. shown'[s] = IF s[3] = "state" THEN shown[s] ELSE View(tables', success', s, shown[s].value)
        BY <1>1, <1>4, <2>2 DEF Written
      <3>2. shown[s] \in [ok : BOOLEAN, value : Said] /\ (s[3] = "last_name" => shown[s].value \in Names)
        BY <1>2, <1>4, <2>2 DEF EntitiesTypeOK, LastNames
      <3>3. CASE s[3] = "state"
        BY <3>1, <3>2, <3>3 DEF Fresh
      <3>4. CASE s[3] # "state"
        BY <1>3, <1>4, <3>1, <3>2, <3>4, ViewType DEF Fresh
      <3> QED
        BY <3>3, <3>4
    <2> QED
      BY <2>1, <2>2
  <1>6. /\ registry' \in [Remembered \cap Tables -> SUBSET Thing]
        /\ \A t \in Remembered \cap Tables : registry'[t] = registry[t] \cup known'[t]
    <2>1. registry \in [Remembered \cap Tables -> SUBSET Thing]
      BY <1>2 DEF EntitiesTypeOK, Thing
    <2> QED
      BY <1>1, <1>3, <2>1
  <1>7. firmware' \in [ok : BOOLEAN, value : Version, last : Version] /\ firmware'.value = firmware'.last
        /\ firmware'.value = version'
    BY <1>1, <1>2 DEF FirmwareAfter, EntitiesTypeOK, ComparedIsShown
  <1>8. EntitiesTypeOK'
    <2>1. shown' \in [Sensors(known', sync) -> [ok : BOOLEAN, value : Said]]
      <3>1. \A s \in Sensors(known', sync) : shown'[s] \in [ok : BOOLEAN, value : Said]
        BY <1>4, <1>5 DEF Fresh
      <3> QED
        BY <1>1, <3>1
    <2>2. \A t \in Remembered \cap Tables : registry'[t] \subseteq Things[t]
      BY <1>2, <1>3, <1>6 DEF EntitiesTypeOK
    <2>3. loaded' \in BOOLEAN /\ sync' = sync /\ stored' = stored
      BY <1>2 DEF EntitiesTypeOK
    <2> QED
      BY <1>2, <1>3, <1>6, <1>7, <2>1, <2>2, <2>3 DEF EntitiesTypeOK, Typed, Thing
  <1>9. LastNames' /\ NoneUnloaded' /\ ComparedIsShown'
    BY <1>5, <1>7 DEF LastNames, NoneUnloaded, ComparedIsShown, Fresh
  <1>10. ShownIsCurrent'
    BY <1>5 DEF ShownIsCurrent, Fresh
  <1>11. AllDiscovered'
    BY <1>3 DEF AllDiscovered, Rows
  <1>12. RememberedReturn'
    BY <1>2, <1>3, <1>6 DEF RememberedReturn
  <1>13. ReleaseShown'
    BY <1>7 DEF ReleaseShown
  <1>14. NamesStay
    <2> SUFFICES ASSUME NEW x \in Things["clients"], Kept(x) # None
                 PROVE  Kept(x)' # None
      BY DEF NamesStay, Named
    <2> DEFINE s == <<"clients", x, "last_name">>
    <2>1. s[1] = "clients" /\ s[2] = x /\ s[3] = "last_name"
      OBVIOUS
    <2>2. CASE s \in DOMAIN shown
      <3>1. shown[s].value # None
        BY <2>2 DEF Kept
      <3>2. shown'[s] = View(tables', success', s, shown[s].value)
        BY <1>1, <1>4, <2>1, <2>2 DEF Written
      <3>3. shown'[s].value # None
        BY <3>1, <3>2, LastNameStays
      <3> QED
        BY <1>4, <2>2, <3>3 DEF Kept
    <2>3. CASE s \notin DOMAIN shown /\ s \in DOMAIN shown'
      <3>1. stored[x] # None
        BY <2>3 DEF Kept
      <3>2. shown'[s] = View(tables', success', s, stored[x])
        BY <1>1, <1>4, <2>1, <2>3 DEF NewState
      <3>3. shown'[s].value # None
        BY <3>1, <3>2, LastNameStays
      <3> QED
        BY <2>3, <3>3 DEF Kept
    <2>4. CASE s \notin DOMAIN shown /\ s \notin DOMAIN shown'
      BY <2>4 DEF Kept
    <2> QED
      BY <2>2, <2>3, <2>4
  <1> QED
    BY <1>8, <1>9, <1>10, <1>11, <1>12, <1>13, <1>14 DEF EntitiesInv

(* When they are not told, there is nothing to tell, or nothing is         *)
(* claimed.                                                                *)
LEMMA ListenersNotTold ==
  ASSUME EntitiesInv, loaded, Typed(tables'), version' \in Version, success' \in BOOLEAN,
         UNCHANGED <<loaded, sync, stored, known, shown, firmware, registry>>,
         success' => success /\ tables' = tables /\ version' = version
  PROVE  EntitiesInv' /\ NamesStay
  <1>1. EntitiesTypeOK'
    BY DEF EntitiesInv, EntitiesTypeOK, Typed
  <1>2. LastNames' /\ NoneUnloaded' /\ ComparedIsShown'
    BY DEF EntitiesInv, LastNames, NoneUnloaded, ComparedIsShown
  <1>3. ShownIsCurrent'
    <2> SUFFICES ASSUME success', NEW s \in DOMAIN shown, s[3] # "state"
                 PROVE  shown[s] = View(tables', TRUE, s, shown[s].value)
      BY DEF ShownIsCurrent
    <2> QED
      BY DEF EntitiesInv, ShownIsCurrent
  <1>4. AllDiscovered'
    BY DEF EntitiesInv, AllDiscovered, Rows
  <1>5. RememberedReturn'
    BY DEF EntitiesInv, RememberedReturn
  <1>6. ReleaseShown'
    BY DEF EntitiesInv, ReleaseShown
  <1>7. NamesStay
    BY DEF NamesStay, Named, Kept
  <1> QED
    BY <1>1, <1>2, <1>3, <1>4, <1>5, <1>6, <1>7 DEF EntitiesInv

-----------------------------------------------------------------------------
(* A poll that gets to its end.                                            *)
LEMMA PollStep ==
  ASSUME EntitiesInv, Poll
  PROVE  EntitiesInv' /\ NamesStay
  <1>1. /\ loaded /\ loaded' /\ success' = TRUE /\ version' \in Version
        /\ UNCHANGED <<loaded, sync, stored>>
        /\ TellIf(~success \/ tables' # tables \/ version' # version)
    BY DEF Poll
  <1>2. Typed(tables')
    <2>1. tables' \in Requested(Tables, sync, tables) /\ Typed(tables)
      BY TypedNow DEF Poll, EntitiesInv
    <2> QED
      BY <2>1, RequestedType
  <1>3. CASE TellListeners(tables', version', success')
    BY <1>1, <1>2, <1>3, ListenersTold
  <1>4. CASE ~(~success \/ tables' # tables \/ version' # version)
    BY <1>1, <1>2, <1>4, ListenersNotTold DEF TellIf
  <1> QED
    BY <1>1, <1>3, <1>4 DEF TellIf

(* A poll that fails.                                                      *)
LEMMA PollCutStep ==
  ASSUME EntitiesInv, PollCut
  PROVE  EntitiesInv' /\ NamesStay
  <1>1. /\ loaded /\ loaded' /\ success' = FALSE
        /\ UNCHANGED <<loaded, sync, stored>>
        /\ TellIf(success)
    BY DEF PollCut
  <1>2. PICK S \in {{}, ReadAtOnce \cap Tables, Tables \ {"aps"}} :
          /\ tables' \in Requested(S, sync, tables)
          /\ IF S = {} THEN version' = version ELSE version' \in Version
    BY DEF PollCut
  <1>3. Typed(tables') /\ version' \in Version
    <2>1. Typed(tables) /\ version \in Version /\ S \in SUBSET Tables
      BY TypedNow DEF EntitiesInv, EntitiesTypeOK
    <2> QED
      BY <1>2, <2>1, RequestedType
  <1>4. CASE success
    <2>1. TellListeners(tables', version', success')
      BY <1>1, <1>4 DEF TellIf
    <2> QED
      BY <1>1, <1>3, <2>1, ListenersTold
  <1>5. CASE ~success
    BY <1>1, <1>3, <1>5, ListenersNotTold DEF TellIf
  <1> QED
    BY <1>4, <1>5

(* The set-up of the platforms.                                            *)
LEMMA SetUpStep ==
  ASSUME EntitiesInv, NEW flags \in SUBSET (Optional \cap Tables), SetUp(flags)
  PROVE  EntitiesInv' /\ NamesStay
  <1>1. /\ ~loaded /\ loaded' = TRUE /\ sync' = flags /\ success' = TRUE
        /\ version' \in Version
        /\ known' = KnownAtSetup(tables', flags)
        /\ shown' = [s \in Sensors(known', flags) |-> NewState(tables', TRUE, s)]
        /\ firmware' = [ok |-> TRUE, value |-> version', last |-> version']
        /\ registry' = [t \in DOMAIN registry |-> registry[t] \cup known'[t]]
        /\ stored' = stored
    BY DEF SetUp
  <1>2. /\ EntitiesTypeOK /\ NoneUnloaded
        /\ stored \in [Things["clients"] -> Names]
    BY DEF EntitiesInv, EntitiesTypeOK, Names
  <1>3. Typed(tables')
    <2>1. tables' \in Requested(Tables, flags, tables) /\ Typed(tables)
      BY <1>2, TypedNow DEF SetUp
    <2> QED
      BY <2>1, RequestedType
  <1>4. /\ known' \in [Tables -> SUBSET Thing]
        /\ \A t \in Tables : known'[t] \subseteq Things[t]
        /\ \A t \in Tables : Synced(t, flags) => Rows(tables', t) \subseteq known'[t]
        /\ \A t \in Remembered \cap Tables : Synced(t, flags) => registry[t] \subseteq known'[t]
    <2>1. \A t \in Tables : Rows(tables', t) \subseteq Things[t] /\ Things[t] \subseteq Thing
      BY DEF Rows, Thing
    <2>2. \A t \in Remembered \cap Tables : registry[t] \subseteq Things[t]
      BY <1>2 DEF EntitiesTypeOK
    <2> QED
      BY <1>1, <2>1, <2>2 DEF KnownAtSetup
  <1>5. DOMAIN shown' = Sensors(known', flags)
    BY <1>1
  <1>6. ASSUME NEW s \in DOMAIN shown' PROVE Fresh(s)
    <2>1. shown'[s] = NewState(tables', success', s)
      BY <1>1, <1>5
    <2> QED
      BY <1>1, <1>2, <1>3, <1>4, <1>5, <2>1, NewStateType DEF Fresh
  <1>7. /\ registry' \in [Remembered \cap Tables -> SUBSET Thing]
        /\ \A t \in Remembered \cap Tables : registry'[t] = registry[t] \cup known'[t]
    <2>1. registry \in [Remembered \cap Tables -> SUBSET Thing]
      BY <1>2 DEF EntitiesTypeOK, Thing
    <2> QED
      BY <1>1, <1>4, <2>1
  <1>8. EntitiesTypeOK'
    <2>1. shown' \in [Sensors(known', flags) -> [ok : BOOLEAN, value : Said]]
      <3>1. \A s \in Sensors(known', flags) : shown'[s] \in [ok : BOOLEAN, value : Said]
        BY <1>5, <1>6 DEF Fresh
      <3> QED
        BY <1>1, <3>1
    <2>2. \A t \in Remembered \cap Tables : registry'[t] \subseteq Things[t]
      BY <1>2, <1>4, <1>7 DEF EntitiesTypeOK
    <2>3. firmware' \in [ok : BOOLEAN, value : Version, last : Version]
      BY <1>1
    <2>4. loaded' \in BOOLEAN /\ success' \in BOOLEAN /\ sync' \subseteq Optional
      BY <1>1
    <2> QED
      BY <1>1, <1>2, <1>3, <1>4, <1>7, <2>1, <2>2, <2>3, <2>4 DEF EntitiesTypeOK, Typed, Thing
  <1>9. LastNames' /\ NoneUnloaded' /\ ComparedIsShown'
    BY <1>1, <1>6 DEF LastNames, NoneUnloaded, ComparedIsShown, Fresh
  <1>10. ShownIsCurrent'
    BY <1>1, <1>6 DEF ShownIsCurrent, Fresh
  <1>11. AllDiscovered'
    BY <1>1, <1>4 DEF AllDiscovered, Rows
  <1>12. RememberedReturn'
    BY <1>1, <1>4, <1>7 DEF RememberedReturn
  <1>13. ReleaseShown'
    BY <1>1 DEF ReleaseShown
  <1>14. NamesStay
    <2> SUFFICES ASSUME NEW x \in Things["clients"], Kept(x) # None
                 PROVE  Kept(x)' # None
      BY DEF NamesStay, Named
    <2> DEFINE s == <<"clients", x, "last_name">>
    <2>1. stored[x] # None /\ s[2] = x /\ s[3] = "last_name"
      BY <1>1, <1>2 DEF Kept, NoneUnloaded
    <2>2. CASE s \in DOMAIN shown'
      <3>1. shown'[s] = View(tables', TRUE, s, stored[x])
        BY <1>1, <1>5, <2>1, <2>2 DEF NewState
      <3>2. shown'[s].value # None
        BY <2>1, <3>1, LastNameStays
      <3> QED
        BY <2>2, <3>2 DEF Kept
    <2>3. CASE s \notin DOMAIN shown'
      BY <1>1, <2>1, <2>3 DEF Kept
    <2> QED
      BY <2>2, <2>3
  <1> QED
    BY <1>8, <1>9, <1>10, <1>11, <1>12, <1>13, <1>14 DEF EntitiesInv

(* The tables before the first answer.                                     *)
LEMMA NothingTyped == Typed(Nothing)
  <1>1. \A t \in Tables : Nothing[t] \in Content(t)
    BY DEF Nothing, Content
  <1> QED
    BY <1>1 DEF Typed, Nothing

(* No rows, no sensors.                                                    *)
LEMMA NoSensors == \A flags : Sensors([t \in Tables |-> {}], flags) = {}
  BY SensorElim

(* The platforms are unloaded; Home Assistant keeps the last host names.   *)
LEMMA UnloadStep ==
  ASSUME EntitiesInv, UnloadPlatforms
  PROVE  EntitiesInv' /\ NamesStay
  <1>1. /\ loaded' = FALSE /\ sync' = {} /\ tables' = Nothing /\ success' = TRUE
        /\ known' = [t \in Tables |-> {}]
        /\ shown' = << >>
        /\ firmware' = [ok |-> FALSE, value |-> version, last |-> version]
        /\ stored' = [x \in Things["clients"] |-> Kept(x)]
        /\ UNCHANGED <<version, registry>>
    BY DEF UnloadPlatforms
  <1>2. EntitiesTypeOK /\ LastNames
    BY DEF EntitiesInv
  <1>3. DOMAIN shown' = {} /\ shown' \in [{} -> [ok : BOOLEAN, value : Said]]
    BY <1>1
  <1>4. stored' \in [Things["clients"] -> Names]
    <2>1. \A x \in Things["clients"] : Kept(x) \in Names
      BY <1>2 DEF Kept, LastNames, EntitiesTypeOK, Names
    <2> QED
      BY <1>1, <2>1
  <1>5. EntitiesTypeOK'
    <2>1. known' \in [Tables -> SUBSET Thing] /\ \A t \in Tables : known'[t] \subseteq Things[t]
      BY <1>1
    <2>2. shown' \in [Sensors(known', sync') -> [ok : BOOLEAN, value : Said]]
      BY <1>1, <1>3, NoSensors
    <2>3. firmware' \in [ok : BOOLEAN, value : Version, last : Version]
      BY <1>1, <1>2 DEF EntitiesTypeOK
    <2>4. loaded' \in BOOLEAN /\ success' \in BOOLEAN /\ sync' \subseteq Optional
      BY <1>1
    <2>5. Typed(tables')
      BY <1>1, NothingTyped
    <2> QED
      BY <1>1, <1>2, <1>4, <2>1, <2>2, <2>3, <2>4, <2>5 DEF EntitiesTypeOK, Typed, Thing, Names
  <1>6. LastNames' /\ NoneUnloaded' /\ ComparedIsShown'
    BY <1>1, <1>3 DEF LastNames, NoneUnloaded, ComparedIsShown
  <1>7. ShownIsCurrent' /\ AllDiscovered' /\ RememberedReturn' /\ ReleaseShown'
    BY <1>1 DEF ShownIsCurrent, AllDiscovered, RememberedReturn, ReleaseShown
  <1>8. NamesStay
    <2> SUFFICES ASSUME NEW x \in Things["clients"], Kept(x) # None
                 PROVE  Kept(x)' # None
      BY DEF NamesStay, Named
    <2>1. <<"clients", x, "last_name">> \notin DOMAIN shown'
      BY <1>3
    <2> QED
      BY <1>1, <2>1 DEF Kept
  <1> QED
    BY <1>5, <1>6, <1>7, <1>8 DEF EntitiesInv

(* The user removes an entity from the registry.                           *)
LEMMA ForgetStep ==
  ASSUME EntitiesInv, NEW t \in Remembered \cap Tables, NEW x \in Things[t], Forget(t, x)
  PROVE  EntitiesInv' /\ NamesStay
  <1>1. /\ registry' = [registry EXCEPT ![t] = @ \ {x}]
        /\ UNCHANGED <<loaded, sync, tables, version, success, known, shown, firmware, stored>>
    BY DEF Forget
  <1>2. EntitiesTypeOK /\ RememberedReturn
    BY DEF EntitiesInv
  <1>3. /\ registry' \in [Remembered \cap Tables -> SUBSET Thing]
        /\ \A u \in Remembered \cap Tables : registry'[u] \subseteq registry[u]
    BY <1>1, <1>2 DEF EntitiesTypeOK, Thing
  <1>4. EntitiesTypeOK'
    BY <1>1, <1>2, <1>3 DEF EntitiesTypeOK, Thing
  <1>5. RememberedReturn'
    BY <1>1, <1>2, <1>3 DEF RememberedReturn
  <1>6. LastNames' /\ NoneUnloaded' /\ ComparedIsShown' /\ ShownIsCurrent' /\ AllDiscovered' /\ ReleaseShown'
    BY <1>1 DEF EntitiesInv, LastNames, NoneUnloaded, ComparedIsShown, ShownIsCurrent, AllDiscovered,
       ReleaseShown, Rows
  <1>7. NamesStay
    BY <1>1 DEF NamesStay, Named, Kept
  <1> QED
    BY <1>4, <1>5, <1>6, <1>7 DEF EntitiesInv

-----------------------------------------------------------------------------
(* The initial states.                                                     *)
LEMMA InitEntitiesInv == EntitiesInit => EntitiesInv
  <1> SUFFICES ASSUME EntitiesInit PROVE EntitiesInv
    OBVIOUS
  <1>1. /\ loaded = FALSE /\ sync = {} /\ tables = Nothing /\ success = TRUE /\ version \in Version
        /\ known = [t \in Tables |-> {}] /\ shown = << >>
        /\ firmware = [ok |-> FALSE, value |-> version, last |-> version]
        /\ registry = [t \in Remembered \cap Tables |-> {}]
        /\ stored = [x \in Things["clients"] |-> None]
    BY DEF EntitiesInit
  <1>2. DOMAIN shown = {} /\ shown \in [{} -> [ok : BOOLEAN, value : Said]]
    BY <1>1
  <1>3. EntitiesTypeOK
    <2>1. /\ known \in [Tables -> SUBSET Thing] /\ \A t \in Tables : known[t] \subseteq Things[t]
          /\ registry \in [Remembered \cap Tables -> SUBSET Thing]
          /\ \A t \in Remembered \cap Tables : registry[t] \subseteq Things[t]
      BY <1>1
    <2>2. shown \in [Sensors(known, sync) -> [ok : BOOLEAN, value : Said]]
      BY <1>1, <1>2, NoSensors
    <2>3. firmware \in [ok : BOOLEAN, value : Version, last : Version]
      BY <1>1
    <2>4. loaded \in BOOLEAN /\ success \in BOOLEAN /\ sync \subseteq Optional
      BY <1>1
    <2>5. Typed(tables) /\ stored \in [Things["clients"] -> Names]
      BY <1>1, NothingTyped DEF Names
    <2> QED
      BY <1>1, <2>1, <2>2, <2>3, <2>4, <2>5 DEF EntitiesTypeOK, Typed, Thing, Names
  <1>4. LastNames /\ NoneUnloaded /\ ComparedIsShown
    BY <1>1, <1>2 DEF LastNames, NoneUnloaded, ComparedIsShown
  <1>5. ShownIsCurrent /\ AllDiscovered /\ RememberedReturn /\ ReleaseShown
    BY <1>1 DEF ShownIsCurrent, AllDiscovered, RememberedReturn, ReleaseShown
  <1> QED
    BY <1>3, <1>4, <1>5 DEF EntitiesInv

(* Every step.                                                             *)
LEMMA EntitiesStep ==
  ASSUME EntitiesInv, [EntitiesNext]_entitiesVars
  PROVE  EntitiesInv' /\ NamesStay
  <1>1. ASSUME NEW flags \in SUBSET (Optional \cap Tables), SetUp(flags)
        PROVE  EntitiesInv' /\ NamesStay
    BY <1>1, SetUpStep
  <1>2. CASE Poll
    BY <1>2, PollStep
  <1>3. CASE PollCut
    BY <1>3, PollCutStep
  <1>4. CASE UnloadPlatforms
    BY <1>4, UnloadStep
  <1>5. ASSUME NEW t \in Remembered \cap Tables, NEW x \in Things[t], Forget(t, x)
        PROVE  EntitiesInv' /\ NamesStay
    BY <1>5, ForgetStep
  <1>6. CASE UNCHANGED entitiesVars
    BY <1>6 DEF entitiesVars, EntitiesInv, EntitiesTypeOK, LastNames, NoneUnloaded, ComparedIsShown,
       ShownIsCurrent, AllDiscovered, RememberedReturn, ReleaseShown, Rows, NamesStay, Named, Kept
  <1> QED
    BY <1>1, <1>2, <1>3, <1>4, <1>5, <1>6 DEF EntitiesNext

(* The invariant holds throughout.                                         *)
LEMMA EntitiesInvHolds == EntitiesSpec => []EntitiesInv
  <1>1. EntitiesInv /\ [EntitiesNext]_entitiesVars => EntitiesInv'
    BY EntitiesStep
  <1> QED
    BY <1>1, InitEntitiesInv, PTL DEF EntitiesSpec

-----------------------------------------------------------------------------
(* Every variable keeps its type: in particular there is a state for       *)
(* exactly the sensors of the rows that have got sensors, whatever polls,  *)
(* failures and reloads were before.                                       *)
THEOREM EntitiesTypeCorrect == EntitiesSpec => []EntitiesTypeOK
  <1>1. EntitiesInv => EntitiesTypeOK
    BY DEF EntitiesInv
  <1> QED
    BY <1>1, EntitiesInvHolds, PTL

(* Unless the last poll failed, every sensor with a coordinator shows what *)
(* it would write now, though Home Assistant only tells it of polls with   *)
(* another outcome or other data (always_update is off, coordinator.py).   *)
THEOREM SensorsShowTheData == EntitiesSpec => []ShownIsCurrent
  <1>1. EntitiesInv => ShownIsCurrent
    BY DEF EntitiesInv
  <1> QED
    BY <1>1, EntitiesInvHolds, PTL

(* Unless the last poll failed, every row of a synchronised table has its  *)
(* sensors, though a poll that failed may have brought the row, and told   *)
(* nobody.                                                                 *)
THEOREM EverythingDiscovered == EntitiesSpec => []AllDiscovered
  <1>1. EntitiesInv => AllDiscovered
    BY DEF EntitiesInv
  <1> QED
    BY <1>1, EntitiesInvHolds, PTL

(* What had sensors before has them in every later load in which its table *)
(* is synchronised (the known sets in async_setup_entry of sensor.py).     *)
THEOREM RememberedAreBack == EntitiesSpec => []RememberedReturn
  <1>1. EntitiesInv => RememberedReturn
    BY DEF EntitiesInv
  <1> QED
    BY <1>1, EntitiesInvHolds, PTL

(* The firmware sensor names the release of the last answer.               *)
THEOREM ReleaseIsShown == EntitiesSpec => []ReleaseShown
  <1>1. EntitiesInv => ReleaseShown
    BY DEF EntitiesInv
  <1> QED
    BY <1>1, EntitiesInvHolds, PTL

(* A host name that was learned is replaced, never lost, by any step of    *)
(* the integration or of Home Assistant.                                   *)
THEOREM LearnedNamesStay == EntitiesSpec => NamesKept
  <1>1. EntitiesInv /\ [EntitiesNext]_entitiesVars
        => [\A x \in Things["clients"] : Named(x) => Named(x)']_entitiesVars
    BY EntitiesStep DEF NamesStay
  <1> QED
    BY <1>1, EntitiesInvHolds, PTL DEF EntitiesSpec, NamesKept
=============================================================================
