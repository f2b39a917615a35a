--------------------------- MODULE VdomDns_proofs ---------------------------
(* Proofs about VdomDns, for any VDOMs, servers, configurations and        *)
(* refresh interval.                                                       *)
EXTENDS VdomDns, FiniteSetTheorems, TLAPS

(* The configuration is only requested when it is out of date.             *)
RequestedWhenStale == pc \in {"dns", "vdom_dns"} => ~Fresh(configAge)

(* The inductive invariant: a request that fails leaves the age alone, so  *)
(* the age at the time of the request matters.                             *)
IInv == TypeOK /\ UnavailableIsRetried /\ RequestedWhenStale

LEMMA CalmBoundType == CalmBound \in Nat \ {0}
  BY VdomAssumption DEF CalmBound

LEMMA ReadingTypes ==
  ASSUME TypeOK
  PROVE  /\ fg.vdoms \subseteq Vdom
         /\ GlobalReadings \subseteq Setting \ {Inherit}
  BY VdomAssumption DEF TypeOK, ConfigType, GlobalReadings, Setting

(* What is usable of an answer is part of it.                              *)
LEMMA UsableIsPart ==
  ASSUME NEW S, NEW part \in Usable(S)
  PROVE  part \subseteq S
  BY DEF Usable

LEMMA ManagementVdomType ==
  ASSUME TypeOK
  PROVE  ManagementVdom \in Vdom
  BY VdomAssumption DEF TypeOK, ManagementVdom

LEMMA ConfiguredType ==
  ASSUME TypeOK, NEW glob, NEW overrides
  PROVE  Configured(glob, overrides) \subseteq Key
  BY ManagementVdomType DEF TypeOK, Configured, Key

(* Whatever is combined, a record has the key of a configured server.      *)
LEMMA RebuildType ==
  ASSUME NEW conf \in [keys : SUBSET Key, available : BOOLEAN],
         NEW lat \in [keys : SUBSET Key, available : BOOLEAN]
  PROVE  /\ Rebuild(conf, lat) \in
              [keys : SUBSET Key, configured : BOOLEAN, measured : SUBSET Key]
         /\ Rebuild(conf, lat).measured \subseteq Rebuild(conf, lat).keys
  BY DEF Rebuild

LEMMA InitIInv == Init => IInv
  <1> SUFFICES ASSUME Init PROVE IInv
    OBVIOUS
  <1>1. Nothing \in [keys : SUBSET Key, available : BOOLEAN]
    BY DEF Nothing
  <1>2. Rebuild(Nothing, Nothing) \in
          [keys : SUBSET Key, configured : BOOLEAN, measured : SUBSET Key]
    BY <1>1, RebuildType
  <1>3. calm \in -1..CalmBound /\ vdomAge \in 0..TTL /\ configAge \in 0..TTL
    BY VdomAssumption, CalmBoundType DEF Init
  <1>4. TypeOK
    BY <1>1, <1>2, <1>3, VdomAssumption DEF Init, TypeOK, Setting
  <1> QED
    BY <1>4, VdomAssumption DEF Init, IInv, UnavailableIsRetried, RequestedWhenStale, Fresh

LEMMA EnvironmentStep ==
  ASSUME IInv, Reconfigure \/ Settle
  PROVE  IInv'
  <1>1. /\ UNCHANGED <<pc, listValid, global, inventory, dns>>
        /\ fg' \in Config
        /\ calm' \in {calm, 0}
    BY DEF IInv, TypeOK, Reconfigure, Settle
  <1>2. TypeOK'
    BY <1>1, VdomAssumption DEF IInv, TypeOK, inventory, dns, CalmBound
  <1> QED
    BY <1>1, <1>2 DEF IInv, UnavailableIsRetried, RequestedWhenStale, Fresh, dns

LEMMA TimeStep ==
  ASSUME IInv, Slow \/ StartPoll
  PROVE  IInv'
  <1>1. /\ vdomAge' = Older(vdomAge) /\ configAge' = Older(configAge)
        /\ UNCHANGED <<fg, calm, listValid, global, vdoms, known, management, config,
                       latency, servers>>
    BY DEF Slow, StartPoll
  <1>2. \/ pc' = pc
        \/ pc' \in {"list", "latency"}
        \/ pc' = "dns" /\ ~Fresh(configAge')
    BY DEF Slow, StartPoll, DnsStage
  <1>3. /\ vdomAge' \in 0..TTL /\ configAge' \in 0..TTL
        /\ ~Fresh(configAge) => ~Fresh(configAge')
    BY <1>1, VdomAssumption DEF IInv, TypeOK, Older, Fresh
  <1>4. TypeOK'
    BY <1>1, <1>2, <1>3 DEF IInv, TypeOK
  <1>5. UnavailableIsRetried' /\ RequestedWhenStale'
    BY <1>1, <1>2, <1>3 DEF IInv, UnavailableIsRetried, RequestedWhenStale
  <1> QED
    BY <1>4, <1>5 DEF IInv

LEMMA InventoryStep ==
  ASSUME IInv, ListAnswer \/ GlobalAnswer
  PROVE  IInv'
  <1>1. fg \in ConfigType /\ fg.vdoms \subseteq Vdom
    BY VdomAssumption, ReadingTypes DEF IInv, TypeOK
  <1>2. /\ UNCHANGED <<config, configAge>>
        /\ pc' \in {"global", "latency"} \/ (pc' = "dns" /\ ~Fresh(configAge))
    BY DEF ListAnswer, GlobalAnswer, dns, DnsStage
  <1>3. TypeOK'
    <2>1. CASE ListAnswer
      <3>1. vdoms' \subseteq Vdom /\ known' \in BOOLEAN /\ listValid' \in BOOLEAN
        BY <1>1, <2>1, UsableIsPart DEF IInv, TypeOK, ListAnswer
      <3> QED
        BY <1>2, <2>1, <3>1 DEF IInv, TypeOK, ListAnswer, dns
    <2>2. CASE GlobalAnswer
      BY <1>1, <1>2, <2>2, VdomAssumption DEF IInv, TypeOK, GlobalAnswer, dns, ConfigType
    <2> QED
      BY <2>1, <2>2
  <1> QED
    BY <1>2, <1>3 DEF IInv, UnavailableIsRetried, RequestedWhenStale, Fresh

(* The two ways a request for the configuration ends, after which the poll *)
(* goes on with the latency.                                               *)
LEMMA ConfigOutcome ==
  ASSUME IInv, pc \in {"dns", "vdom_dns"}, pc' = "latency",
         NEW glob, NEW overrides,
         ConfigRead(glob, overrides) \/ ConfigFails,
         UNCHANGED <<fg, calm, listValid, inventory, latency, servers>>,
         global' = global
  PROVE  IInv'
  <1>1. CASE ConfigRead(glob, overrides)
    <2>1. /\ config' \in [keys : SUBSET Key, available : BOOLEAN]
          /\ config'.available
          /\ configAge' \in 0..TTL
      BY <1>1, ConfiguredType, VdomAssumption DEF IInv, ConfigRead
    <2> QED
      BY <2>1 DEF IInv, TypeOK, UnavailableIsRetried, RequestedWhenStale, inventory
  <1>2. CASE ConfigFails
    <2>1. config' \in [keys : SUBSET Key, available : BOOLEAN]
      BY <1>2 DEF IInv, TypeOK, ConfigFails, Unavailable
    <2>2. UNCHANGED configAge /\ ~Fresh(configAge)
      BY <1>2 DEF IInv, RequestedWhenStale, ConfigFails
    <2> QED
      BY <2>1, <2>2
      DEF IInv, TypeOK, UnavailableIsRetried, RequestedWhenStale, inventory, Fresh
  <1> QED
    BY <1>1, <1>2

LEMMA DnsAnswerStep ==
  ASSUME IInv, DnsAnswer
  PROVE  IInv'
  <1>1. CASE /\ pc = "dns"
             /\ global' \in GlobalReadings /\ pc' = "vdom_dns"
             /\ UNCHANGED <<fg, calm, listValid, inventory, dns>>
    <2>1. global' \in Setting \ {Inherit}
      BY <1>1, ReadingTypes DEF IInv
    <2>2. TypeOK'
      BY <1>1, <2>1 DEF IInv, TypeOK, inventory, dns
    <2> QED
      BY <1>1, <2>2 DEF IInv, UnavailableIsRetried, RequestedWhenStale, Fresh, dns
  <1>2. CASE /\ pc = "dns" /\ pc' = "latency" /\ global' = global
             /\ UNCHANGED <<fg, calm, listValid, inventory, latency, servers>>
             /\ \/ \E glob \in GlobalReadings : ConfigRead(glob, NoOverride)
                \/ ConfigFails
    BY <1>2, ConfigOutcome
  <1> QED
    BY <1>1, <1>2 DEF DnsAnswer, dns

LEMMA VdomDnsAnswerStep ==
  ASSUME IInv, VdomDnsAnswer
  PROVE  IInv'
  BY ConfigOutcome DEF VdomDnsAnswer

LEMMA LatencyAnswerStep ==
  ASSUME IInv, LatencyAnswer
  PROVE  IInv'
  <1>1. fg \in ConfigType
    BY VdomAssumption DEF IInv, TypeOK
  <1>2. Effective \subseteq Key
    BY <1>1 DEF Effective, Key, ConfigType
  <1>3. latency' \in [keys : SUBSET Key, available : BOOLEAN]
    <2>1. CASE latency' = Unavailable(latency)
      BY <2>1 DEF IInv, TypeOK, Unavailable
    <2>2. CASE \E keys \in {{}} \cup Usable(Effective) :
                 latency' = [keys |-> keys, available |-> TRUE]
      <3>1. PICK keys \in SUBSET Key : latency' = [keys |-> keys, available |-> TRUE]
        BY <1>2, <2>2, UsableIsPart
      <3> QED
        BY <3>1
    <2> QED
      BY <2>1, <2>2 DEF LatencyAnswer
  <1>4. servers' \in [keys : SUBSET Key, configured : BOOLEAN, measured : SUBSET Key]
    BY <1>3, RebuildType DEF IInv, TypeOK, LatencyAnswer
  <1>5. calm' \in -1..CalmBound
    <2>1. calm \in -1..CalmBound
      BY DEF IInv, TypeOK
    <2>2. calm' = IF calm \in 0..(CalmBound - 1) THEN calm + 1 ELSE calm
      BY DEF LatencyAnswer
    <2> QED
      BY <2>1, <2>2, CalmBoundType
  <1>6. TypeOK'
    BY <1>3, <1>4, <1>5 DEF IInv, TypeOK, LatencyAnswer, inventory
  <1> QED
    BY <1>6 DEF IInv, UnavailableIsRetried, RequestedWhenStale, Fresh, LatencyAnswer

LEMMA NextIInv == IInv /\ [Next]_vars => IInv'
  <1> SUFFICES ASSUME IInv, [Next]_vars PROVE IInv'
    OBVIOUS
  <1>1. CASE Next
    BY <1>1, EnvironmentStep, TimeStep, InventoryStep, DnsAnswerStep, VdomDnsAnswerStep,
       LatencyAnswerStep
    DEF Next
  <1>2. CASE UNCHANGED vars
    BY <1>2
    DEF vars, inventory, dns, IInv, TypeOK, UnavailableIsRetried, RequestedWhenStale, Fresh
  <1> QED
    BY <1>1, <1>2

LEMMA IInvHolds == Spec => []IInv
  BY InitIInv, NextIInv, PTL DEF Spec

-----------------------------------------------------------------------------
(* Every variable keeps its type: among others, a DNS server is always the *)
(* server of a VDOM that exists by name, also while no VDOM or no          *)
(* management VDOM is known.                                               *)
THEOREM TypeCorrect == Spec => []TypeOK
  <1>1. IInv => TypeOK
    BY DEF IInv
  <1> QED
    BY <1>1, IInvHolds, PTL

(* The cache never hides a failed DNS configuration request: whatever the  *)
(* refresh interval is, the next poll repeats it                           *)
(* (_async_get_dns_configuration).                                         *)
THEOREM FailureIsRetried == Spec => []UnavailableIsRetried
  <1>1. IInv => UnavailableIsRetried
    BY DEF IInv
  <1> QED
    BY <1>1, IInvHolds, PTL

(* The inventory is only requested when it is out of date, so a half that  *)
(* fails finds it so; and a list that was accepted is known from then on.  *)
RequestedWhenUnlisted ==
  /\ pc \in {"list", "global"} => ~Fresh(vdomAge)
  /\ listValid => known

LInv == InventoryIsRetried /\ RequestedWhenUnlisted

LEMMA InitLInv == Init => LInv
  BY VdomAssumption DEF Init, LInv, InventoryIsRetried, RequestedWhenUnlisted, Fresh

LEMMA NextLInv == IInv /\ LInv /\ [Next]_vars => LInv'
  <1> SUFFICES ASSUME IInv, LInv, [Next]_vars PROVE LInv'
    OBVIOUS
  <1> USE DEF LInv, InventoryIsRetried, RequestedWhenUnlisted
  <1>1. ASSUME UNCHANGED <<listValid, known, management, vdomAge>>,
               pc' \in {"list", "global"} => pc' = pc
        PROVE  LInv'
    BY <1>1 DEF Fresh
  (* Time only makes an inventory older.                                   *)
  <1>2. CASE Slow \/ StartPoll
    <2>1. vdomAge' = Older(vdomAge) /\ UNCHANGED <<listValid, known, management>>
      BY <1>2 DEF Slow, StartPoll
    <2>2. ~Fresh(vdomAge) => ~Fresh(vdomAge')
      BY <2>1, VdomAssumption DEF IInv, TypeOK, Older, Fresh
    <2>3. pc' \in {"list", "global"} => pc' = pc \/ ~Fresh(vdomAge')
      BY <1>2 DEF Slow, StartPoll, DnsStage
    <2> QED
      BY <2>1, <2>2, <2>3
  <1>3. CASE ListAnswer
    BY <1>3 DEF ListAnswer, Fresh
  (* It becomes fresh only with an accepted list and a management VDOM.    *)
  <1>4. CASE GlobalAnswer
    <2>1. pc' \notin {"list", "global"} /\ UNCHANGED <<listValid, known>>
      BY <1>4 DEF GlobalAnswer, DnsStage
    <2>2. CASE UNCHANGED <<management, vdomAge>>
      BY <2>1, <2>2 DEF Fresh
    <2>3. CASE /\ management' = fg.management
               /\ vdomAge' = IF listValid THEN 0 ELSE vdomAge
      <3>1. fg.management # NoVdom
        BY VdomAssumption DEF IInv, TypeOK, ConfigType
      <3> QED
        BY <1>4, <2>1, <2>3, <3>1 DEF GlobalAnswer, Fresh
    <2> QED
      BY <1>4, <2>2, <2>3 DEF GlobalAnswer
  <1>5. CASE Reconfigure \/ Settle \/ DnsAnswer \/ VdomDnsAnswer \/ LatencyAnswer
    BY <1>1, <1>5 DEF Reconfigure, Settle, DnsAnswer, VdomDnsAnswer, LatencyAnswer, inventory
  <1>6. CASE UNCHANGED vars
    BY <1>1, <1>6 DEF vars
  <1> QED
    BY <1>2, <1>3, <1>4, <1>5, <1>6 DEF Next

(* The cache never hides an inventory whose list or management VDOM is     *)
(* missing, for any refresh interval and whichever requests fail           *)
(* (_async_get_vdom_inventory).                                            *)
THEOREM UnreadInventoryIsRetried == Spec => []InventoryIsRetried
  <1>1. LInv => InventoryIsRetried
    BY DEF LInv
  <1> QED
    BY <1>1, InitLInv, NextLInv, IInvHolds, PTL DEF Spec

-----------------------------------------------------------------------------
(* Catching up.  The inventory is current from the end of poll number TTL  *)
(* after the FortiGate settled; a configuration read before that is read   *)
(* again within TTL polls more.                                            *)

InventoryCurrent == vdoms = fg.vdoms /\ management = fg.management

ConfigCurrent == config.available /\ config.keys = Effective

(* The number of the poll that runs, or of the last one, since the         *)
(* FortiGate settled.                                                      *)
PollNumber == IF pc = "idle" THEN calm ELSE calm + 1

(* While the inventory is out of date its age grows with the polls, so one *)
(* of the first TTL polls reads it.                                        *)
InventoryInTime ==
  \/ InventoryCurrent
  \/ pc \in {"list", "global"} /\ calm < TTL
  \/ pc \notin {"list", "global"} /\ PollNumber < TTL /\ vdomAge >= PollNumber

(* A configuration read with an old inventory was read in one of the first *)
(* TTL - 1 polls, and its age grows from there.                            *)
ConfigInTime ==
  \/ ConfigCurrent
  \/ /\ configAge >= PollNumber - (TTL - 1)
     /\ pc \in {"idle", "latency"} => PollNumber < CalmBound

Settled ==
  calm # -1 => /\ InventoryInTime
               /\ ConfigInTime
               /\ pc = "global" => vdoms = fg.vdoms
               /\ pc = "vdom_dns" => global = fg.global
               /\ calm = CalmBound => servers.configured /\ servers.keys = Effective

LEMMA ConfigFacts ==
  ASSUME TypeOK
  PROVE  /\ fg.vdoms \subseteq Vdom /\ IsFiniteSet(fg.vdoms)
         /\ fg.management \in fg.vdoms /\ fg.management # NoVdom
         /\ fg.global \in Setting \ {Inherit}
         /\ fg.override \in [Vdom -> Setting]
  BY VdomAssumption, ManagementAssumption DEF TypeOK, ConfigType

(* With a current inventory the integration configures what the FortiGate  *)
(* uses.                                                                   *)
LEMMA ConfiguredIsEffective ==
  ASSUME TypeOK, InventoryCurrent
  PROVE  Configured(fg.global, fg.override) = Effective
  <1>1. ManagementVdom = fg.management /\ vdoms = fg.vdoms /\ vdoms # {}
    BY ConfigFacts DEF InventoryCurrent, ManagementVdom
  <1> QED
    BY <1>1 DEF Configured, SettingOf, Effective

(* With one VDOM, which is the management VDOM, overrides make no          *)
(* difference: _async_get_dns_configuration does not request them.         *)
LEMMA SingleIsEffective ==
  ASSUME TypeOK, InventoryCurrent, Cardinality(vdoms) <= 1
  PROVE  Configured(fg.global, NoOverride) = Effective
  <1>1. ManagementVdom = fg.management /\ vdoms = fg.vdoms /\ fg.management \in vdoms
    BY ConfigFacts DEF InventoryCurrent, ManagementVdom
  <1>2. \A v \in vdoms : v = fg.management
    <2>1. ASSUME NEW v \in vdoms, v # fg.management PROVE FALSE
      <3>1. IsFiniteSet(vdoms) /\ {v, fg.management} \subseteq vdoms
        BY <1>1, ConfigFacts
      <3>2. Cardinality({v, fg.management}) <= Cardinality(vdoms)
        BY <3>1, FS_Subset
      <3>3. Cardinality({v, fg.management}) = 2
        <4>1. IsFiniteSet({fg.management}) /\ Cardinality({fg.management}) = 1
          BY FS_Singleton
        <4>2. Cardinality({fg.management} \cup {v}) = Cardinality({fg.management}) + 1
          BY <2>1, <4>1, FS_AddElement
        <4>3. {fg.management} \cup {v} = {v, fg.management}
          OBVIOUS
        <4> QED
          BY <4>1, <4>2, <4>3
      <3>4. Cardinality(vdoms) \in Nat
        BY <3>1, FS_CardinalityType
      <3> QED
        BY <3>2, <3>3, <3>4
    <2> QED
      BY <2>1
  <1> QED
    BY <1>1, <1>2 DEF Configured, SettingOf, Effective

LEMMA InitSettled == Init => Settled
  BY DEF Init, Settled

LEMMA EnvironmentSettled ==
  ASSUME IInv, Settled, Reconfigure \/ Settle
  PROVE  Settled'
  <1>1. CASE Reconfigure
    BY <1>1 DEF Reconfigure, Settled
  <1>2. CASE Settle
    <2>1. /\ calm' = 0 /\ pc' = "idle"
          /\ UNCHANGED <<vdoms, vdomAge, config, configAge>>
      BY <1>2 DEF Settle, inventory, dns
    <2>2. PollNumber' = 0 /\ vdomAge \in Nat /\ configAge \in Nat
      BY <2>1, VdomAssumption DEF PollNumber, IInv, TypeOK
    <2>3. 0 < CalmBound /\ TTL \in Nat \ {0}
      BY CalmBoundType, VdomAssumption
    <2>4. InventoryInTime'
      BY <2>1, <2>2, <2>3 DEF InventoryInTime
    <2>5. ConfigInTime'
      BY <2>1, <2>2, <2>3 DEF ConfigInTime, CalmBound
    <2> QED
      BY <2>1, <2>3, <2>4, <2>5 DEF Settled
  <1> QED
    BY <1>1, <1>2

LEMMA OlderIsOlder ==
  ASSUME NEW age \in 0..TTL
  PROVE  /\ Older(age) \in 0..TTL
         /\ Older(age) >= age
         /\ Older(age) = TTL \/ Older(age) = age + 1
  BY VdomAssumption DEF Older

LEMMA SlowSettled ==
  ASSUME IInv, Settled, Slow
  PROVE  Settled'
  <1> SUFFICES ASSUME calm # -1 PROVE Settled'
    BY DEF Slow, Settled
  <1>1. UNCHANGED <<fg, calm, pc, global, vdoms, management, config, servers>>
    BY DEF Slow
  <1>2. /\ vdomAge' \in Nat /\ vdomAge \in Nat /\ vdomAge' >= vdomAge
        /\ configAge' \in Nat /\ configAge \in Nat /\ configAge' >= configAge
        /\ PollNumber \in Int
    BY OlderIsOlder, VdomAssumption, CalmBoundType DEF Slow, IInv, TypeOK, PollNumber
  <1>3. PollNumber' = PollNumber /\ Effective' = Effective
    BY <1>1 DEF PollNumber, Effective
  <1>4. InventoryInTime'
    BY <1>1, <1>2, <1>3, VdomAssumption DEF Settled, InventoryInTime, InventoryCurrent
  <1>5. ConfigInTime'
    BY <1>1, <1>2, <1>3, VdomAssumption DEF Settled, ConfigInTime, ConfigCurrent, CalmBound
  <1> QED
    BY <1>1, <1>3, <1>4, <1>5 DEF Settled, CalmBound

LEMMA StartPollSettled ==
  ASSUME IInv, Settled, StartPoll
  PROVE  Settled'
  <1> SUFFICES ASSUME calm # -1 PROVE Settled'
    BY DEF StartPoll, Settled
  <1>1. /\ UNCHANGED <<fg, calm, global, vdoms, management, config, servers>>
        /\ pc = "idle"
        /\ pc' = IF Fresh(vdomAge') THEN DnsStage(configAge') ELSE "list"
        /\ pc' \in {"list", "dns", "latency"}
    BY DEF StartPoll, DnsStage
  <1>2. /\ vdomAge \in 0..TTL /\ configAge \in 0..TTL /\ calm \in 0..CalmBound
        /\ vdomAge' \in 0..TTL /\ (vdomAge' = TTL \/ vdomAge' = vdomAge + 1)
        /\ configAge' \in 0..TTL /\ (configAge' = TTL \/ configAge' = configAge + 1)
    BY OlderIsOlder, VdomAssumption DEF StartPoll, IInv, TypeOK, CalmBound
  <1>3. PollNumber = calm /\ PollNumber' = calm + 1 /\ Effective' = Effective
    BY <1>1 DEF PollNumber, Effective
  <1>4. TTL \in Nat \ {0} /\ CalmBound = 2 * TTL - 1
    BY VdomAssumption DEF CalmBound
  <1>5. InventoryInTime'
    BY <1>1, <1>2, <1>3, <1>4
    DEF Settled, InventoryInTime, InventoryCurrent, Fresh
  <1>6. pc' = "latency" => configAge' < TTL
    BY <1>1 DEF DnsStage, Fresh
  <1>7. ConfigInTime'
    <2>1. CASE ConfigCurrent
      BY <1>1, <1>3, <2>1 DEF ConfigInTime, ConfigCurrent
    <2>2. CASE configAge >= calm - (TTL - 1) /\ calm < CalmBound
      <3>1. configAge' >= calm + 1 - (TTL - 1)
        BY <1>2, <1>4, <2>2
      <3>2. pc' = "latency" => calm + 1 < CalmBound
        BY <1>2, <1>4, <1>6, <3>1
      <3>3. configAge' >= PollNumber' - (TTL - 1)
        BY <1>2, <1>3, <1>4, <3>1
      <3>4. pc' \in {"idle", "latency"} => PollNumber' < CalmBound'
        <4>1. pc' # "idle"
          BY <1>1
        <4> QED
          BY <1>3, <3>2, <4>1 DEF CalmBound
      <3> QED
        BY <3>3, <3>4 DEF ConfigInTime
    <2> QED
      BY <1>1, <1>3, <2>1, <2>2 DEF Settled, ConfigInTime
  <1> QED
    BY <1>1, <1>3, <1>5, <1>7 DEF Settled, CalmBound

LEMMA InventorySettled ==
  ASSUME IInv, Settled, ListAnswer \/ GlobalAnswer
  PROVE  Settled'
  <1> SUFFICES ASSUME calm # -1 PROVE Settled'
    BY DEF ListAnswer, GlobalAnswer, Settled
  <1>1. /\ UNCHANGED <<fg, calm, config, configAge, servers, global>>
        /\ pc \in {"list", "global"}
        /\ vdoms' = fg.vdoms
    BY DEF ListAnswer, GlobalAnswer, MayFail, Usable, dns, Settled
  <1>2. PollNumber' = PollNumber /\ PollNumber = calm + 1 /\ Effective' = Effective
    <2>1. pc' # "idle"
      BY DEF ListAnswer, GlobalAnswer, DnsStage
    <2> QED
      BY <1>1, <2>1 DEF PollNumber, Effective
  <1>3. /\ calm \in 0..CalmBound /\ configAge \in 0..TTL
        /\ TTL \in Nat \ {0} /\ CalmBound = 2 * TTL - 1
    BY VdomAssumption DEF IInv, TypeOK, CalmBound
  <1>4. InventoryInTime'
    <2>1. CASE ListAnswer
      BY <1>1, <2>1 DEF ListAnswer, Settled, InventoryInTime, InventoryCurrent
    <2>2. CASE GlobalAnswer
      BY <1>1, <2>2 DEF GlobalAnswer, MayFail, InventoryInTime, InventoryCurrent
    <2> QED
      BY <2>1, <2>2
  <1>5. pc' = "latency" => configAge < TTL
    BY DEF ListAnswer, GlobalAnswer, DnsStage, Fresh
  <1>6. pc' \in {"global", "dns", "latency"}
    BY DEF ListAnswer, GlobalAnswer, DnsStage
  <1>7. ConfigInTime'
    <2>1. CASE ConfigCurrent
      BY <1>1, <1>2, <2>1 DEF ConfigInTime, ConfigCurrent
    <2>2. CASE configAge >= PollNumber - (TTL - 1)
      <3>1. pc' = "latency" => PollNumber < CalmBound
        BY <1>2, <1>3, <1>5, <2>2
      <3> QED
        BY <1>1, <1>2, <1>6, <2>2, <3>1 DEF ConfigInTime, CalmBound
    <2> QED
      BY <2>1, <2>2 DEF Settled, ConfigInTime
  <1> QED
    BY <1>1, <1>2, <1>4, <1>6, <1>7 DEF Settled, CalmBound

(* A configuration read now is current, or in time to be read again.       *)
LEMMA ReadInTime ==
  ASSUME IInv, Settled, calm # -1, pc \in {"dns", "vdom_dns"}, pc' = "latency",
         NEW glob, NEW overrides, ConfigRead(glob, overrides),
         InventoryCurrent => Configured(glob, overrides) = Effective,
         UNCHANGED <<fg, calm, inventory, servers>>
  PROVE  Settled'
  <1>1. /\ PollNumber' = PollNumber /\ PollNumber = calm + 1 /\ Effective' = Effective
        /\ UNCHANGED <<vdoms, management, vdomAge>>
    BY DEF PollNumber, Effective, inventory
  <1>2. /\ calm \in 0..CalmBound /\ TTL \in Nat \ {0} /\ CalmBound = 2 * TTL - 1
    BY VdomAssumption DEF IInv, TypeOK, CalmBound
  <1>3. InventoryInTime'
    BY <1>1 DEF Settled, InventoryInTime, InventoryCurrent
  <1>4. ConfigInTime'
    <2>1. CASE InventoryCurrent
      BY <1>1, <2>1 DEF ConfigRead, ConfigInTime, ConfigCurrent
    <2>2. CASE PollNumber < TTL
      <3>1. configAge' = 0
        BY DEF ConfigRead
      <3>2. 0 >= PollNumber - (TTL - 1) /\ PollNumber < CalmBound
        BY <1>1, <1>2, <2>2
      <3> QED
        BY <1>1, <3>1, <3>2 DEF ConfigInTime, CalmBound
    <2> QED
      BY <2>1, <2>2 DEF Settled, InventoryInTime
  <1> QED
    BY <1>1, <1>3, <1>4 DEF Settled, CalmBound

LEMMA DnsSettled ==
  ASSUME IInv, Settled, DnsAnswer \/ VdomDnsAnswer
  PROVE  Settled'
  <1> SUFFICES ASSUME calm # -1 PROVE Settled'
    BY DEF DnsAnswer, VdomDnsAnswer, Settled
  <1>1. UNCHANGED <<fg, calm, inventory, servers>> /\ TypeOK
    BY DEF DnsAnswer, VdomDnsAnswer, IInv
  <1>2. CASE /\ pc = "dns" /\ pc' = "vdom_dns"
             /\ global' = fg.global
             /\ UNCHANGED <<config, configAge>>
    <2>1. PollNumber' = PollNumber /\ Effective' = Effective
      BY <1>1, <1>2 DEF PollNumber, Effective
    <2>2. InventoryInTime' /\ ConfigInTime'
      BY <1>1, <1>2, <2>1
      DEF Settled, InventoryInTime, InventoryCurrent, ConfigInTime, ConfigCurrent,
          inventory, CalmBound
    <2> QED
      BY <1>1, <1>2, <2>1, <2>2 DEF Settled, CalmBound
  <1>3. CASE /\ pc = "dns" /\ pc' = "latency"
             /\ Cardinality(vdoms) <= 1
             /\ ConfigRead(fg.global, NoOverride)
    BY <1>1, <1>3, SingleIsEffective, ReadInTime
  <1>4. CASE /\ pc = "vdom_dns" /\ pc' = "latency"
             /\ ConfigRead(global, fg.override)
    <2>1. global = fg.global
      BY <1>4 DEF Settled
    <2> QED
      BY <1>1, <1>4, <2>1, ConfiguredIsEffective, ReadInTime
  <1>5. ~MayFail /\ GlobalReadings = {fg.global} /\ OverrideReadings = {fg.override}
    BY DEF MayFail, GlobalReadings, OverrideReadings
  <1> QED
    BY <1>2, <1>3, <1>4, <1>5 DEF DnsAnswer, VdomDnsAnswer

LEMMA LatencySettled ==
  ASSUME IInv, Settled, LatencyAnswer
  PROVE  Settled'
  <1>1. /\ pc = "latency" /\ pc' = "idle"
        /\ calm' = IF calm \in 0..(CalmBound - 1) THEN calm + 1 ELSE calm
        /\ UNCHANGED <<fg, vdoms, management, vdomAge, config, configAge>>
    BY DEF LatencyAnswer, inventory
  <1>2. calm \in -1..CalmBound /\ TTL \in Nat \ {0} /\ CalmBound = 2 * TTL - 1
    BY VdomAssumption DEF IInv, TypeOK, CalmBound
  <1> SUFFICES ASSUME calm # -1 PROVE Settled'
    BY <1>1, <1>2 DEF Settled
  <1>3. PollNumber = calm + 1 /\ PollNumber' = calm' /\ Effective' = Effective
    BY <1>1 DEF PollNumber, Effective
  <1>4. CASE calm < CalmBound
    <2>1. calm' = calm + 1
      BY <1>1, <1>2, <1>4
    <2>2. InventoryInTime'
      BY <1>1, <1>3, <2>1 DEF Settled, InventoryInTime, InventoryCurrent
    <2>3. ConfigInTime'
      BY <1>1, <1>3, <2>1 DEF Settled, ConfigInTime, ConfigCurrent, CalmBound
    <2>4. calm' = CalmBound => ConfigCurrent
      BY <1>1, <1>2, <1>3, <2>1 DEF Settled, ConfigInTime
    <2>5. calm' = CalmBound' => servers'.configured /\ servers'.keys = Effective'
      BY <1>3, <2>4 DEF LatencyAnswer, Rebuild, ConfigCurrent, CalmBound
    <2> QED
      BY <1>1, <2>2, <2>3, <2>5 DEF Settled
  <1>5. CASE calm = CalmBound
    <2>1. calm' = calm
      BY <1>1, <1>2, <1>5
    <2>2. InventoryCurrent /\ ConfigCurrent
      BY <1>1, <1>2, <1>3, <1>5 DEF Settled, InventoryInTime, ConfigInTime
    <2>3. InventoryInTime' /\ ConfigInTime'
      BY <1>1, <1>3, <2>2
      DEF InventoryInTime, InventoryCurrent, ConfigInTime, ConfigCurrent
    <2>4. servers'.configured /\ servers'.keys = Effective'
      BY <1>3, <2>2 DEF LatencyAnswer, Rebuild, ConfigCurrent
    <2> QED
      BY <1>1, <2>3, <2>4 DEF Settled
  <1> QED
    BY <1>2, <1>4, <1>5

LEMMA NextSettled == IInv /\ Settled /\ [Next]_vars => Settled'
  <1> SUFFICES ASSUME IInv, Settled, [Next]_vars PROVE Settled'
    OBVIOUS
  <1>1. CASE Next
    BY <1>1, EnvironmentSettled, SlowSettled, StartPollSettled, InventorySettled,
       DnsSettled, LatencySettled
    DEF Next
  <1>2. CASE UNCHANGED vars
    BY <1>2
    DEF vars, inventory, dns, Settled, InventoryInTime, InventoryCurrent, ConfigInTime,
        ConfigCurrent, PollNumber, Effective, CalmBound
  <1> QED
    BY <1>1, <1>2

(* A FortiGate that has settled is shown as it is after 2 * TTL - 1 polls, *)
(* for every refresh interval, number of VDOMs and skew of the two refresh *)
(* times before (_async_get_vdom_inventory, _async_get_dns_configuration). *)
THEOREM CaughtUp == Spec => []CatchesUp
  <1>1. IInv /\ Settled => CatchesUp
    <2> SUFFICES ASSUME IInv, Settled, calm = CalmBound PROVE InventoryCurrent
      BY CalmBoundType DEF Settled, CatchesUp, InventoryCurrent
    <2>1. TTL \in Nat \ {0} /\ CalmBound = 2 * TTL - 1
      BY VdomAssumption DEF CalmBound
    <2> QED
      BY <2>1 DEF Settled, InventoryInTime, PollNumber
  <1> QED
    BY <1>1, InitSettled, NextSettled, IInvHolds, PTL DEF Spec
=============================================================================
