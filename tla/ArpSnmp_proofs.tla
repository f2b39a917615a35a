--------------------------- MODULE ArpSnmp_proofs ---------------------------
(***************************************************************************)
(* Proofs about ArpSnmp: types, the issue matches what the last request    *)
(* for the ARP table has shown, the coordinator works with the settings of *)
(* the entry, and what has been mended stays.                              *)
(***************************************************************************)
EXTENDS ArpSnmp, TLAPS

(* While the request for the table is under way: one made with the API     *)
(* does not require SNMP, and the issue is gone if SNMP is not required.   *)
Asked ==
  poll.at = "arp" =>
    /\ poll.via \in {"api", "snmp"}
    /\ poll.via = "api" => ~poll.requires
    /\ ~poll.requires => ~issue

(* At any other time what IssueMatches says, from the first table on.      *)
Settled ==
  (/\ state \in {"first", "loaded"} /\ poll.at # "arp" /\ ~reload
   /\ state = "first" => poll.at = "rest")
    => (issue <=> poll.requires /\ (client.community = None \/ failed))

IInv == TypeOK /\ Asked /\ Settled /\ SettingsInUse

-----------------------------------------------------------------------------
Settings == [sync : BOOLEAN, community : Community \cup {None}]

LEMMA SettingsTypes ==
  /\ NoData \in Settings
  /\ \A d \in Settings : ClientOf(d) \in Settings /\ Finished(d) \in Settings
  BY DEF Settings, NoData, ClientOf, Finished

FormLists == {<<>>, <<"area">>, <<"label">>, <<"area", "label">>}

LEMMA FormTypes ==
  /\ \A m \in Mode : Forms(m) \in FormLists
  /\ \A l \in FormLists : l # <<>> => Head(l) \in {"area", "label"} /\ Tail(l) \in FormLists
<1>1. \A m \in Mode : Forms(m) \in FormLists
  BY ArpSnmpAssumption DEF Forms, FormLists
<1>2. Head(<<"area">>) = "area" /\ Tail(<<"area">>) = <<>>
  OBVIOUS
<1>3. Head(<<"label">>) = "label" /\ Tail(<<"label">>) = <<>>
  OBVIOUS
<1>4. Head(<<"area", "label">>) = "area" /\ Tail(<<"area", "label">>) = <<"label">>
  OBVIOUS
<1> QED BY <1>1, <1>2, <1>3, <1>4 DEF FormLists

(* A flow that may go on.                                                  *)
Flows == [at : {"none", "snmp", "walk", "area", "label"}, forms : FormLists,
          pending : Settings, supplied : Community \cup {None},
          source : {"user", "reconfigure"}]

LEMMA NoFlowType == NoFlow \in Flows
  BY SettingsTypes DEF NoFlow, Flows, FormLists

(* TypeOK with these names.                                                *)
Types ==
  /\ fw \in Version /\ accepts \in Community \cup {None} /\ calm \in BOOLEAN
  /\ state \in {"absent", "starting", "first", "retry", "error", "loaded"}
  /\ data \in Settings /\ client \in Settings
  /\ reload \in BOOLEAN /\ issue \in BOOLEAN /\ failed \in BOOLEAN
  /\ version \in Version
  /\ poll \in [at : {"idle", "aps", "arp", "rest"}, requires : BOOLEAN,
               via : {"none", "api", "snmp"}]
  /\ table \in {"none", "empty", "api", "snmp"}
  /\ flow \in Flows
  /\ repair \in [at : {"none", "form", "walk"}, supplied : Community \cup {None}]

Together ==
  /\ (poll.at # "idle") => (state \in {"first", "loaded"})
  /\ (state = "first") => (poll.at # "idle")
  /\ (poll.via = "snmp") => (client.community # None)
  /\ (flow.at # "none") => (flow.source = "user") = (state = "absent")

LEMMA TypeOKIs == TypeOK <=> Types /\ Together
  BY DEF TypeOK, Types, Together, Settings, Flows, FormLists

LEMMA TypeOKNext ==
  ASSUME Types', Together'
  PROVE  TypeOK'
  BY DEF TypeOK, Types, Together, Settings, Flows, FormLists

-----------------------------------------------------------------------------
LEMMA InitInv == Init => IInv
<1> SUFFICES ASSUME Init PROVE IInv
  OBVIOUS
<1>1. poll.at = "idle" /\ poll.via = "none" /\ flow.at = "none" /\ state = "absent"
  BY DEF Init, Idle, NoFlow
<1>2. Types
  BY SettingsTypes, NoFlowType DEF Init, Types, Idle, NoRepair, Version
<1>3. Together /\ Asked /\ Settled /\ SettingsInUse
  BY <1>1 DEF Together, Asked, Settled, SettingsInUse
<1> QED BY <1>2, <1>3, TypeOKIs DEF IInv

(* Without a coordinator nothing is said of one.                           *)
LEMMA WithoutCoordinator ==
  ASSUME IInv, NoCoordinator, state' \in {"starting", "retry", "error"}, issue' \in BOOLEAN,
         reload' \in BOOLEAN, data' = data,
         fw' = fw, accepts' = accepts, calm' = calm,
         \/ flow' = flow /\ repair' = repair
         \/ flow' = NoFlow /\ repair' = NoRepair,
         state # "absent"
  PROVE  IInv'
<1>1. Types /\ Together
  BY TypeOKIs DEF IInv
<1>2. /\ client' = NoData /\ version' = "6.4" /\ table' = "none" /\ failed' = FALSE
      /\ poll' = [at |-> "idle", requires |-> FALSE, via |-> "none"]
  BY DEF NoCoordinator, Idle
<1>3. flow' \in Flows /\ (flow'.at # "none" => flow'.source # "user")
  BY <1>1, NoFlowType DEF Types, Together, NoFlow
<1>4. repair' \in [at : {"none", "form", "walk"}, supplied : Community \cup {None}]
  BY <1>1 DEF Types, NoRepair
<1>5. Types'
  BY <1>1, <1>2, <1>3, <1>4, SettingsTypes DEF Types, Version
<1>6. Together' /\ Asked' /\ Settled' /\ SettingsInUse'
  BY <1>2, <1>3 DEF Together, Asked, Settled, SettingsInUse
<1> QED BY <1>5, <1>6, TypeOKNext DEF IInv

-----------------------------------------------------------------------------
(* The FortiGate changes nothing that the invariant speaks of.             *)
LEMMA FortigateInv ==
  ASSUME IInv, Upgrade \/ SnmpAgent \/ CalmDown
  PROVE  IInv'
<1>1. Types /\ Together
  BY TypeOKIs DEF IInv
<1>2. /\ UNCHANGED <<state, data, reload, running, issue>>
      /\ fw' \in Version /\ accepts' \in Community \cup {None} /\ calm' \in BOOLEAN
  BY <1>1 DEF Upgrade, SnmpAgent, CalmDown, Types
<1>3. flow' \in Flows /\ (flow' = flow \/ flow'.at = "none")
  BY <1>1, NoFlowType DEF Upgrade, SnmpAgent, CalmDown, flows, Types, NoFlow
<1>4. repair' \in [at : {"none", "form", "walk"}, supplied : Community \cup {None}]
  BY <1>1 DEF Upgrade, SnmpAgent, CalmDown, flows, Types, NoRepair
<1>5. Types'
  BY <1>1, <1>2, <1>3, <1>4 DEF Types, running
<1>6. Together' /\ Asked' /\ Settled' /\ SettingsInUse'
  BY <1>1, <1>2, <1>3 DEF IInv, Together, Asked, Settled, SettingsInUse, running
<1> QED BY <1>5, <1>6, TypeOKNext DEF IInv

(* A reload that is scheduled withdraws what was said of the coordinator.  *)
LEMMA UserReloadsInv ==
  ASSUME IInv, UserReloads
  PROVE  IInv'
<1>1. Types /\ Together
  BY TypeOKIs DEF IInv
<1>2. reload' /\ UNCHANGED <<fortigate, state, data, running, issue, flows>>
  BY DEF UserReloads
<1>3. Types'
  BY <1>1, <1>2 DEF UserReloads, Types, fortigate, running, flows
<1>4. Together' /\ Asked' /\ Settled' /\ SettingsInUse'
  BY <1>1, <1>2 DEF IInv, Together, Asked, Settled, SettingsInUse, running, flows
<1> QED BY <1>3, <1>4, TypeOKNext DEF IInv

LEMMA EntryInv ==
  ASSUME IInv, EntrySteps
  PROVE  IInv'
<1>1. Types /\ Together
  BY TypeOKIs DEF IInv
<1>2. CASE StatusAnswered
  <2>1. /\ poll' = [Idle EXCEPT !.at = "aps"]
        /\ client' = ClientOf(data) /\ state' = "first" /\ state = "starting"
    BY <1>2 DEF StatusAnswered
  <2>2. /\ Idle \in [at : {"idle", "aps", "arp", "rest"}, requires : BOOLEAN,
                      via : {"none", "api", "snmp"}]
        /\ Idle.via = "none"
    BY DEF Idle
  <2>3. /\ poll' \in [at : {"idle", "aps", "arp", "rest"}, requires : BOOLEAN,
                      via : {"none", "api", "snmp"}]
        /\ poll'.at = "aps" /\ poll'.via = "none"
    BY <2>1, <2>2
  <2>4. client' \in Settings
    BY <1>1, <2>1, SettingsTypes DEF Types
  <2>5. Types'
    BY <1>1, <1>2, <2>1, <2>3, <2>4 DEF Types, StatusAnswered, fortigate, flows
  <2>6. Together' /\ Asked' /\ Settled' /\ SettingsInUse'
    BY <1>1, <1>2, <2>1, <2>3 DEF Together, Asked, Settled, SettingsInUse, StatusAnswered, flows
  <2> QED BY <2>5, <2>6, TypeOKNext DEF IInv
<1>3. CASE StatusFailed \/ Retry
  <2>1. /\ state \in {"starting", "retry"} /\ state' \in {"starting", "retry", "error"}
        /\ UNCHANGED <<fortigate, data, reload, running, issue, flows>>
    BY <1>3 DEF StatusFailed, Retry
  <2>2. Types'
    BY <1>1, <2>1 DEF Types, fortigate, running, flows
  <2>3. Together' /\ Asked' /\ Settled' /\ SettingsInUse'
    BY <1>1, <2>1 DEF IInv, Together, Asked, Settled, SettingsInUse, running, flows
  <2> QED BY <2>2, <2>3, TypeOKNext DEF IInv
<1>4. CASE Reload
  <2>1. /\ NoCoordinator /\ state \in {"loaded", "retry", "error"} /\ state' = "starting"
        /\ reload' = FALSE /\ UNCHANGED <<fortigate, data, flows>>
    BY <1>4 DEF Reload
  <2>2. issue' \in BOOLEAN
    BY <1>4 DEF Reload
  <2> QED BY <2>1, <2>2, WithoutCoordinator DEF fortigate, flows
<1>5. CASE Restart
  BY <1>1, <1>5, WithoutCoordinator DEF Restart, fortigate, Types
<1> QED BY <1>2, <1>3, <1>4, <1>5 DEF EntrySteps

-----------------------------------------------------------------------------
(* What a poll leaves alone.                                               *)
LEMMA PollInv ==
  ASSUME IInv, PollSteps
  PROVE  IInv'
<1>1. Types /\ Together
  BY TypeOKIs DEF IInv
<1> DEFINE Polls == [at : {"idle", "aps", "arp", "rest"}, requires : BOOLEAN,
                     via : {"none", "api", "snmp"}]
<1>2. poll \in Polls
  BY <1>1 DEF Types
<1>3. CASE PollBegins
  <2>1. /\ poll' = [poll EXCEPT !.at = "aps"] /\ state = "loaded" /\ poll.at = "idle"
        /\ UNCHANGED <<fortigate, state, data, reload, client, version, table, failed, issue, flows>>
    BY <1>3 DEF PollBegins
  <2>2. /\ poll' \in Polls /\ poll'.at = "aps"
        /\ poll'.requires = poll.requires /\ poll'.via = poll.via
    BY <1>2, <2>1
  <2>3. Types'
    BY <1>1, <2>1, <2>2 DEF Types, fortigate, flows
  <2>4. Together' /\ Asked' /\ Settled' /\ SettingsInUse'
    BY <1>1, <2>1, <2>2 DEF IInv, Together, Asked, Settled, SettingsInUse, flows
  <2> QED BY <2>3, <2>4, TypeOKNext DEF IInv
<1>4. CASE ApsAnswered
  <2>1. Via(fw) \in {"none", "api", "snmp"} /\ RequiresSnmp(fw) \in BOOLEAN
    BY <1>1 DEF Via, RequiresSnmp, Types, Version, Settings
  <2>2. /\ poll' \in Polls /\ poll'.requires = RequiresSnmp(fw) /\ poll'.via = Via(fw)
        /\ poll'.at = IF Via(fw) = "none" THEN "rest" ELSE "arp"
        /\ poll.at = "aps"
    BY <1>4, <2>1 DEF ApsAnswered
  <2>3. /\ issue' = IF ~RequiresSnmp(fw) THEN FALSE
                     ELSE IF Via(fw) = "none" THEN TRUE ELSE issue
        /\ table' = (IF Via(fw) = "none" THEN "empty" ELSE table) /\ version' = fw
        /\ UNCHANGED <<fortigate, state, data, reload, client, failed, flows>>
    BY <1>4 DEF ApsAnswered
  <2>4. Types'
    BY <1>1, <2>2, <2>3 DEF Types, fortigate, flows
  <2>5. Via(fw) = "snmp" => client.community # None
    BY DEF Via
  <2>6. Via(fw) = "api" => ~RequiresSnmp(fw)
    BY DEF Via, RequiresSnmp
  <2>7. (Via(fw) = "none" /\ RequiresSnmp(fw)) => client.community = None
    BY DEF Via, RequiresSnmp
  <2>8. Together'
    BY <1>1, <2>2, <2>3, <2>5 DEF Together, flows
  <2>9. Asked'
    BY <2>1, <2>2, <2>3, <2>6 DEF Asked
  <2>10. Settled'
    BY <2>1, <2>2, <2>3, <2>7 DEF Settled
  <2>11. SettingsInUse'
    BY <2>3 DEF IInv, SettingsInUse
  <2> QED BY <2>4, <2>8, <2>9, <2>10, <2>11, TypeOKNext DEF IInv
<1>5. CASE PollFailed
  <2>1. CASE state = "first" /\ state' = "retry" /\ NoCoordinator
    BY <1>1, <1>5, <2>1, WithoutCoordinator DEF PollFailed, fortigate, flows, Types
  <2>2. CASE /\ state = "loaded" /\ version' \in {version, fw}
             /\ poll' = [poll EXCEPT !.at = "idle"]
             /\ UNCHANGED <<state, client, table, failed>>
    <3>1. poll.at \in {"aps", "rest"} /\ UNCHANGED <<fortigate, data, reload, issue, flows>>
      BY <1>5 DEF PollFailed
    <3>2. /\ poll' \in Polls /\ poll'.at = "idle"
          /\ poll'.requires = poll.requires /\ poll'.via = poll.via
      BY <1>2, <2>2
    <3>3. Types'
      BY <1>1, <2>2, <3>1, <3>2 DEF Types, fortigate, flows
    <3>4. Together' /\ Asked' /\ Settled' /\ SettingsInUse'
      BY <1>1, <2>2, <3>1, <3>2 DEF IInv, Together, Asked, Settled, SettingsInUse, flows
    <3> QED BY <3>3, <3>4, TypeOKNext DEF IInv
  <2> QED BY <1>5, <2>1, <2>2 DEF PollFailed
<1>6. CASE ArpAnswered \/ ArpFailed \/ ArpMalformed
  <2>1. /\ poll.at = "arp" /\ poll' = [poll EXCEPT !.at = "rest", !.via = "none"]
        /\ UNCHANGED <<fortigate, state, data, reload, client, flows>>
    BY <1>6 DEF ArpAnswered, ArpFailed, ArpMalformed
  <2>2. /\ poll' \in Polls /\ poll'.at = "rest" /\ poll'.via = "none"
        /\ poll'.requires = poll.requires
    BY <1>2, <2>1
  <2>3. /\ poll.via \in {"api", "snmp"} /\ (poll.via = "api" => ~poll.requires)
        /\ (~poll.requires => ~issue)
    BY <2>1 DEF IInv, Asked
  <2>4. /\ version' \in Version /\ table' \in {"none", "empty", "api", "snmp"}
        /\ failed' \in BOOLEAN /\ issue' \in BOOLEAN
    BY <1>1, <1>2, <1>6, <2>3 DEF ArpAnswered, ArpFailed, ArpMalformed, Types
  <2>5. Types'
    BY <1>1, <2>1, <2>2, <2>4 DEF Types, fortigate, flows
  <2>6. issue' <=> poll'.requires /\ (client'.community = None \/ failed')
    <3>1. CASE ArpAnswered
      BY <1>1, <2>1, <2>2, <2>3, <3>1 DEF ArpAnswered, Together
    <3>2. CASE ArpFailed
      BY <1>1, <2>1, <2>2, <2>3, <3>2 DEF ArpFailed, Types
    <3>3. CASE ArpMalformed
      BY <2>1, <2>2, <2>3, <3>3 DEF ArpMalformed
    <3> QED BY <1>6, <3>1, <3>2, <3>3
  <2>7. Together' /\ Asked' /\ Settled' /\ SettingsInUse'
    BY <1>1, <2>1, <2>2, <2>6 DEF IInv, Together, Asked, Settled, SettingsInUse, flows
  <2> QED BY <2>5, <2>7, TypeOKNext DEF IInv
<1>7. CASE RestAnswered
  <2>1. /\ poll.at = "rest" /\ poll' = [poll EXCEPT !.at = "idle"] /\ state' = "loaded"
        /\ version' = fw
        /\ UNCHANGED <<fortigate, data, reload, client, table, failed, issue, flows>>
    BY <1>7 DEF RestAnswered
  <2>2. /\ poll' \in Polls /\ poll'.at = "idle"
        /\ poll'.requires = poll.requires /\ poll'.via = poll.via
    BY <1>2, <2>1
  <2>3. state \in {"first", "loaded"}
    BY <1>1, <2>1 DEF Together
  <2>4. Types'
    BY <1>1, <2>1, <2>2 DEF Types, fortigate, flows
  <2>5. Together' /\ Asked' /\ Settled' /\ SettingsInUse'
    BY <1>1, <2>1, <2>2, <2>3 DEF IInv, Together, Asked, Settled, SettingsInUse, flows
  <2> QED BY <2>4, <2>5, TypeOKNext DEF IInv
<1>8. CASE SetupRaises
  BY <1>1, <1>8, WithoutCoordinator DEF SetupRaises, fortigate, flows, Types
<1> QED BY <1>3, <1>4, <1>5, <1>6, <1>7, <1>8 DEF PollSteps

-----------------------------------------------------------------------------
(* A flow that goes on shows its next form or writes the entry, which is   *)
(* then to be reloaded or, if it is new, to be set up.                     *)
LEMMA ContinueInv ==
  ASSUME IInv, NEW f \in Flows, Continue(f),
         (f.source = "user") = (state = "absent"),
         UNCHANGED <<fortigate, running, issue, repair>>
  PROVE  IInv'
<1>1. Types /\ Together
  BY TypeOKIs DEF IInv
<1>2. CASE f.forms # <<>>
  <2>1. /\ flow' = [f EXCEPT !.at = Head(f.forms), !.forms = Tail(f.forms)]
        /\ UNCHANGED <<state, data, reload>>
    BY <1>2 DEF Continue
  <2>2. Head(f.forms) \in {"area", "label"} /\ Tail(f.forms) \in FormLists
    BY <1>2, FormTypes DEF Flows
  <2>3. flow' \in Flows /\ flow'.source = f.source
    BY <2>1, <2>2 DEF Flows
  <2>4. Types'
    BY <1>1, <2>1, <2>3 DEF Types, fortigate, running
  <2>5. Together' /\ Asked' /\ Settled' /\ SettingsInUse'
    BY <1>1, <2>1, <2>3 DEF IInv, Together, Asked, Settled, SettingsInUse, running
  <2> QED BY <2>4, <2>5, TypeOKNext DEF IInv
<1>3. CASE f.forms = <<>>
  <2>1. /\ flow' = NoFlow /\ data' = Finished(f.pending)
        /\ state' = (IF f.source = "user" THEN "starting" ELSE state)
        /\ reload' = (reload \/ f.source = "reconfigure")
    BY <1>3 DEF Continue
  <2>2. flow' \in Flows /\ flow'.at = "none"
    BY <2>1, NoFlowType DEF NoFlow
  <2>3. data' \in Settings
    BY <2>1, SettingsTypes DEF Flows
  <2>4. f.source \in {"user", "reconfigure"}
    BY DEF Flows
  <2>5. Types'
    BY <1>1, <2>1, <2>2, <2>3, <2>4 DEF Types, fortigate, running
  <2>6. Together' /\ Asked' /\ Settled' /\ SettingsInUse'
    <3>1. CASE f.source = "user"
      <4>1. state = "absent" /\ state' = "starting" /\ poll.at = "idle"
        BY <1>1, <2>1, <3>1 DEF Together, Types
      <4> QED BY <1>1, <2>2, <4>1 DEF IInv, Together, Asked, Settled, SettingsInUse, running
    <3>2. CASE f.source = "reconfigure"
      <4>1. state' = state /\ reload' = TRUE
        BY <2>1, <3>2
      <4> QED BY <1>1, <2>2, <4>1 DEF IInv, Together, Asked, Settled, SettingsInUse, running
    <3> QED BY <2>4, <3>1, <3>2
  <2> QED BY <2>5, <2>6, TypeOKNext DEF IInv
<1> QED BY <1>2, <1>3

(* Steps of the flows that change nothing but the flows.                   *)
LEMMA FlowsOnlyInv ==
  ASSUME IInv, UNCHANGED <<fortigate, state, data, reload, running, issue>>,
         flow' \in Flows,
         flow'.at # "none" => (flow'.source = "user") = (state = "absent"),
         repair' \in [at : {"none", "form", "walk"}, supplied : Community \cup {None}]
  PROVE  IInv'
<1>1. Types /\ Together
  BY TypeOKIs DEF IInv
<1>2. Types'
  BY <1>1 DEF Types, fortigate, running
<1>3. Together' /\ Asked' /\ Settled' /\ SettingsInUse'
  BY <1>1 DEF IInv, Together, Asked, Settled, SettingsInUse, running
<1> QED BY <1>2, <1>3, TypeOKNext DEF IInv

LEMMA FlowInv ==
  ASSUME IInv, FlowSteps
  PROVE  IInv'
<1>1. Types /\ Together
  BY TypeOKIs DEF IInv
<1>2. CASE Connected
  <2>1. PICK sync \in BOOLEAN, mode \in Mode :
          LET f == [NoFlow EXCEPT !.forms = Forms(mode),
                                  !.pending = [data EXCEPT !.sync = sync],
                                  !.source = IF state = "absent" THEN "user" ELSE "reconfigure"]
          IN IF sync /\ fw = "6.2"
             THEN /\ flow' = [f EXCEPT !.at = "snmp"]
                  /\ UNCHANGED <<state, data, reload>>
             ELSE Continue(f)
    BY <1>2 DEF Connected
  <2> DEFINE f == [NoFlow EXCEPT !.forms = Forms(mode),
                                 !.pending = [data EXCEPT !.sync = sync],
                                 !.source = IF state = "absent" THEN "user" ELSE "reconfigure"]
  <2>2. UNCHANGED <<fortigate, running, issue, repair>>
    BY <1>2 DEF Connected
  <2>3. [data EXCEPT !.sync = sync] \in Settings
    BY <1>1 DEF Types, Settings
  <2>4. Forms(mode) \in FormLists
    BY FormTypes
  <2>5. f \in Flows /\ (f.source = "user") = (state = "absent")
    BY <2>3, <2>4, NoFlowType DEF Flows
  <2>6. CASE sync /\ fw = "6.2"
    <3>1. flow' = [f EXCEPT !.at = "snmp"] /\ UNCHANGED <<state, data, reload>>
      BY <2>1, <2>6
    <3>2. flow' \in Flows /\ flow'.source = f.source
      BY <2>5, <3>1 DEF Flows
    <3>3. repair' \in [at : {"none", "form", "walk"}, supplied : Community \cup {None}]
      BY <1>1, <2>2 DEF Types
    <3> QED BY <2>2, <2>5, <3>1, <3>2, <3>3, FlowsOnlyInv
  <2>7. CASE ~(sync /\ fw = "6.2")
    <3>1. Continue(f)
      BY <2>1, <2>7
    <3> QED BY <2>2, <2>5, <3>1, ContinueInv
  <2> QED BY <2>6, <2>7
<1>3. CASE SnmpAccepted
  <2>1. /\ flow.at = "walk" /\ flow.supplied \in Community \cup {None}
        /\ Continue([flow EXCEPT !.pending.community = flow.supplied])
        /\ UNCHANGED <<fortigate, running, issue, repair>>
    BY <1>1, <1>3 DEF SnmpAccepted, Types, Flows
  <2>2. [flow.pending EXCEPT !.community = flow.supplied] \in Settings
    BY <1>1, <2>1 DEF Types, Flows, Settings
  <2>3. /\ [flow EXCEPT !.pending.community = flow.supplied] \in Flows
        /\ [flow EXCEPT !.pending.community = flow.supplied].source = flow.source
    BY <1>1, <2>2 DEF Types, Flows
  <2>4. (flow.source = "user") = (state = "absent")
    BY <1>1, <2>1 DEF Together
  <2> QED BY <2>1, <2>3, <2>4, ContinueInv
<1>4. CASE FormSubmitted
  <2>1. /\ flow.at \in {"area", "label"} /\ Continue(flow)
        /\ UNCHANGED <<fortigate, running, issue, repair>>
    BY <1>4 DEF FormSubmitted
  <2>2. flow \in Flows /\ (flow.source = "user") = (state = "absent")
    BY <1>1, <2>1 DEF Types, Together
  <2> QED BY <2>1, <2>2, ContinueInv
<1>5. CASE SnmpSubmitted \/ SnmpRefused \/ FlowClosed
  <2>1. /\ UNCHANGED <<fortigate, state, data, reload, running, issue, repair>>
        /\ flow.at # "none"
    BY <1>5 DEF SnmpSubmitted, SnmpRefused, FlowClosed
  <2>2. flow' \in Flows /\ (flow'.at = "none" \/ flow'.source = flow.source)
    <3>1. CASE SnmpSubmitted
      <4>1. PICK c \in Community : flow' = [flow EXCEPT !.at = "walk", !.supplied = c]
        BY <3>1 DEF SnmpSubmitted
      <4> QED BY <1>1, <4>1 DEF Types, Flows
    <3>2. CASE SnmpRefused
      BY <1>1, <3>2 DEF SnmpRefused, Types, Flows
    <3>3. CASE FlowClosed
      BY <3>3, NoFlowType DEF FlowClosed, NoFlow
    <3> QED BY <1>5, <3>1, <3>2, <3>3
  <2>3. flow'.at # "none" => (flow'.source = "user") = (state = "absent")
    BY <1>1, <2>1, <2>2 DEF Together
  <2>4. repair' \in [at : {"none", "form", "walk"}, supplied : Community \cup {None}]
    BY <1>1, <2>1 DEF Types
  <2> QED BY <2>1, <2>2, <2>3, <2>4, FlowsOnlyInv
<1> QED BY <1>2, <1>3, <1>4, <1>5 DEF FlowSteps

LEMMA RepairInv ==
  ASSUME IInv, RepairSteps
  PROVE  IInv'
<1>1. Types /\ Together
  BY TypeOKIs DEF IInv
<1> DEFINE Repairs == [at : {"none", "form", "walk"}, supplied : Community \cup {None}]
<1>2. CASE RepairAccepted
  <2>1. /\ data' = [data EXCEPT !.community = repair.supplied]
        /\ issue' = FALSE /\ reload' = TRUE /\ repair' = NoRepair
        /\ UNCHANGED <<fortigate, state, running, flow>>
    BY <1>2 DEF RepairAccepted
  <2>2. data' \in Settings
    BY <1>1, <2>1 DEF Types, Settings
  <2>3. repair' \in Repairs
    BY <2>1 DEF NoRepair
  <2>4. Types'
    BY <1>1, <2>1, <2>2, <2>3 DEF Types, fortigate, running
  <2>5. Together' /\ Asked' /\ Settled' /\ SettingsInUse'
    BY <1>1, <2>1 DEF IInv, Together, Asked, Settled, SettingsInUse, running
  <2> QED BY <2>4, <2>5, TypeOKNext DEF IInv
<1>3. CASE RepairOpened \/ RepairSubmitted \/ RepairRefused \/ RepairClosed
  <2>1. UNCHANGED <<fortigate, state, data, reload, running, issue, flow>>
    BY <1>3 DEF RepairOpened, RepairSubmitted, RepairRefused, RepairClosed
  <2>2. repair' \in Repairs
    BY <1>3 DEF RepairOpened, RepairSubmitted, RepairRefused, RepairClosed, NoRepair
  <2>3. flow' \in Flows /\ (flow'.at # "none" => (flow'.source = "user") = (state = "absent"))
    BY <1>1, <2>1 DEF Types, Together
  <2> QED BY <2>1, <2>2, <2>3, FlowsOnlyInv
<1> QED BY <1>2, <1>3 DEF RepairSteps

-----------------------------------------------------------------------------
LEMMA StutterInv ==
  ASSUME IInv, UNCHANGED vars
  PROVE  IInv'
<1>1. Types /\ Together
  BY TypeOKIs DEF IInv
<1>2. Types'
  BY <1>1 DEF Types, vars
<1>3. Together' /\ Asked' /\ Settled' /\ SettingsInUse'
  BY <1>1 DEF IInv, Together, Asked, Settled, SettingsInUse, vars
<1> QED BY <1>2, <1>3, TypeOKNext DEF IInv

LEMMA NextInv ==
  ASSUME IInv, [Next]_vars
  PROVE  IInv'
  BY FortigateInv, UserReloadsInv, EntryInv, PollInv, FlowInv, RepairInv, StutterInv DEF Next

LEMMA Inductive == Spec => []IInv
  BY InitInv, NextInv, PTL DEF Spec

(* Every variable has its type, and what belongs together goes together,   *)
(* for any communities.                                                    *)
THEOREM TypeCorrect == Spec => []TypeOK
<1>1. IInv => TypeOK
  BY DEF IInv
<1> QED BY <1>1, Inductive, PTL

(* Between polls the issue stands for what the last request for the ARP    *)
(* table has shown, whatever flows and reloads came in between.            *)
THEOREM IssueIsRight == Spec => []IssueMatches
<1>1. IInv => IssueMatches
  BY DEF IInv, Settled, IssueMatches
<1> QED BY <1>1, Inductive, PTL

(* The coordinator works with the settings of the entry, or a reload is    *)
(* scheduled.                                                              *)
THEOREM SettingsAreInUse == Spec => []SettingsInUse
<1>1. IInv => SettingsInUse
  BY DEF IInv
<1> QED BY <1>1, Inductive, PTL

-----------------------------------------------------------------------------
(* All is as it has to be, nobody is about to change it, and a request for *)
(* the table that is under way is the one that the version calls for.      *)
Settling ==
  /\ state = "loaded" /\ ~reload
  /\ flow.at = "none" /\ repair.at = "none"
  /\ issue <=> Needed
  /\ RightTable
  /\ poll.at = "arp" => poll.requires = RequiresSnmp(fw) /\ poll.via = Via(fw)

(* How the table is requested, said of the settings of the entry.          *)
LEMMA ViaOfEntry ==
  ASSUME TypeOK, client = ClientOf(data)
  PROVE  /\ RequiresSnmp(fw) <=> data.sync /\ fw = "6.2"
         /\ Via(fw) = "api" <=> data.sync /\ fw = "6.4"
         /\ Via(fw) = "snmp" <=> data.sync /\ fw # "6.4" /\ data.community # None
         /\ Via(fw) \in {"none", "api", "snmp"}
         /\ Via(fw) = "snmp" => client.community = data.community
<1>1. client.sync = data.sync /\ (data.sync => client.community = data.community)
        /\ (~data.sync => client.community = None)
  BY DEF TypeOK, ClientOf, NoData
<1> QED
  BY <1>1 DEF Via, RequiresSnmp, TypeOK

(* The repair is final, without any fairness: once the issue stands        *)
(* exactly if it has to and the table is the right one, no poll raises,    *)
(* withdraws or empties anything again, although each of them decides anew *)
(* how the table is requested (coordinator.py, _async_update_data).  What  *)
(* Mended says besides is that this is reached.                            *)
THEOREM MendedIsFinal == Spec => [][calm /\ Settling => Settling']_vars
<1>1. ASSUME IInv, [Next]_vars, vars' # vars, calm, Settling PROVE Settling'
  <2>1. /\ state = "loaded" /\ ~reload /\ flow.at = "none" /\ repair.at = "none"
        /\ issue <=> Needed
        /\ RightTable
        /\ poll.at = "arp" => poll.requires = RequiresSnmp(fw) /\ poll.via = Via(fw)
    BY <1>1 DEF Settling
  <2>2. TypeOK /\ client = ClientOf(data)
    BY <1>1, <2>1 DEF IInv, SettingsInUse
  <2>3. CASE PollBegins \/ RestAnswered
    <3>1. /\ UNCHANGED <<fw, accepts, data, reload, client, table, issue, flow, repair>>
          /\ state' = "loaded" /\ poll'.at \in {"idle", "aps"}
      BY <2>1, <2>2, <2>3 DEF PollBegins, RestAnswered, fortigate, flows, TypeOK
    <3> QED
      BY <2>1, <3>1 DEF Settling, Needed, RightTable, SnmpAnswers
  <2>4. CASE ApsAnswered
    <3>1. /\ UNCHANGED <<fw, accepts, state, data, reload, client, flow, repair>>
          /\ poll' = [at       |-> IF Via(fw) = "none" THEN "rest" ELSE "arp",
                      requires |-> RequiresSnmp(fw), via |-> Via(fw)]
          /\ table' = (IF Via(fw) = "none" THEN "empty" ELSE table)
          /\ issue' = IF ~RequiresSnmp(fw) THEN FALSE
                      ELSE IF Via(fw) = "none" THEN TRUE ELSE issue
      BY <2>4 DEF ApsAnswered, fortigate, flows
    <3>2. Needed' = Needed
      BY <3>1 DEF Needed, SnmpAnswers
    <3>3. issue' <=> Needed'
      BY <2>1, <2>2, <3>1, <3>2, ViaOfEntry DEF Needed, SnmpAnswers, TypeOK, Version
    <3>4. RightTable'
      BY <2>1, <2>2, <3>1, <3>2, ViaOfEntry DEF RightTable, Needed, SnmpAnswers, TypeOK, Version
    <3>5. (poll.at = "arp" => poll.requires = RequiresSnmp(fw) /\ poll.via = Via(fw))'
      BY <3>1 DEF Via, RequiresSnmp
    <3> QED
      BY <2>1, <3>1, <3>3, <3>4, <3>5 DEF Settling
  <2>5. CASE ArpAnswered
    <3>1. /\ UNCHANGED <<fw, accepts, state, data, reload, client, flow, repair>>
          /\ poll.at = "arp" /\ poll'.at = "rest"
          /\ table' = Via(fw) /\ issue' = FALSE
          /\ Via(fw) \in {"api", "snmp"}
          /\ Via(fw) = "snmp" => SnmpAnswers(client.community)
      BY <1>1, <2>1, <2>2, <2>5 DEF ArpAnswered, ArpAnswers, fortigate, flows, IInv, Asked, TypeOK
    <3>2. Needed' = Needed /\ ~Needed
      BY <2>2, <3>1, ViaOfEntry DEF Needed, SnmpAnswers
    <3>3. RightTable'
      BY <2>2, <3>1, <3>2, ViaOfEntry DEF RightTable, TypeOK, Version
    <3> QED
      BY <2>1, <3>1, <3>2, <3>3 DEF Settling
  <2>6. CASE ArpFailed
    <3>1. /\ UNCHANGED <<fw, accepts, state, data, reload, client, table, flow, repair>>
          /\ poll.at = "arp" /\ poll'.at = "rest" /\ issue' = (issue \/ poll.requires)
          /\ ~ArpAnswers
      BY <1>1, <2>2, <2>6 DEF ArpFailed, fortigate, flows, TypeOK
    <3>2. Needed' = Needed /\ RightTable'
      BY <2>1, <3>1 DEF Needed, SnmpAnswers, RightTable
    <3>3. poll.requires => Needed
      BY <1>1, <2>1, <2>2, <3>1, ViaOfEntry
         DEF ArpAnswers, Needed, SnmpAnswers, IInv, Asked
    <3> QED
      BY <2>1, <3>1, <3>2, <3>3 DEF Settling
  <2> QED
    BY <1>1, <2>1, <2>3, <2>4, <2>5, <2>6
       DEF Next, Upgrade, SnmpAgent, CalmDown, UserReloads, EntrySteps, StatusAnswered, StatusFailed, Retry,
           Reload, Restart, PollSteps, PollFailed, ArpMalformed, SetupRaises, FlowSteps, Connected,
           SnmpSubmitted, SnmpAccepted, SnmpRefused, FormSubmitted, FlowClosed, RepairSteps,
           RepairOpened, RepairSubmitted, RepairAccepted, RepairRefused, RepairClosed
<1>2. IInv /\ [Next]_vars => [calm /\ Settling => Settling']_vars
  BY <1>1
<1> QED
  BY <1>2, Inductive, PTL DEF Spec
=============================================================================
