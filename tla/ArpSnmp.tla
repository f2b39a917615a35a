------------------------------ MODULE ArpSnmp ------------------------------
(***************************************************************************)
(* Where the ARP table of one FortiGate comes from, and the settings that  *)
(* this takes.  FortiOS 6.4 answers an API request; FortiOS 6.2 has to be  *)
(* asked with SNMP, for which the user has to supply a community.  The     *)
(* version may change while the integration runs.  If SNMP is required but *)
(* does not work an issue is raised, and the flow that repairs it, the     *)
(* flow that reconfigures the entry, the polls and reloads of the entry    *)
(* all run interleaved (coordinator.py, repairs.py, config_flow.py,        *)
(* __init__.py).                                                           *)
(***************************************************************************)
EXTENDS Sequences

CONSTANTS
  Community,  \* SNMP communities
  None,
  Mode        \* how the user may want devices to be organized

Version == {"6.2", "6.4"}

ASSUME ArpSnmpAssumption ==
  None \notin Community /\ Mode \subseteq {"none", "area", "label", "both"}

VARIABLES
  fw,        \* the FortiGate's firmware
  accepts,   \* the community it answers, if it answers SNMP at all
  calm,      \* from some time on nothing changes any more and nothing fails
  state,     \* of the config entry
  data,      \* entry.data: is ARP synchronized, and the community
  reload,    \* a reload of the entry is scheduled
  client,    \* what the running coordinator was set up with, as data
  version,   \* client.version
  poll,      \* the poll: where it is, requires_snmp and how the table is requested
  table,     \* _arp_table: where it is from
  failed,    \* _arp_error_logged
  issue,     \* the issue exists
  flow,      \* the config flow: where it is, the forms left, _pending_data
  repair     \* the repair flow

vars == <<fw, accepts, calm, state, data, reload, client, version, poll, table, failed,
          issue, flow, repair>>

fortigate == <<fw, accepts, calm>>
running == <<client, version, poll, table, failed>>
flows == <<flow, repair>>

NoData == [sync |-> FALSE, community |-> None]

Idle == [at |-> "idle", requires |-> FALSE, via |-> "none"]

NoFlow == [at |-> "none", forms |-> <<>>, pending |-> NoData, supplied |-> None,
           source |-> "user"]
NoRepair == [at |-> "none", supplied |-> None]

(* No coordinator: it goes with an unload and with a set-up that fails.    *)
NoCoordinator ==
  /\ client' = NoData /\ version' = "6.4" /\ poll' = Idle
  /\ table' = "none" /\ failed' = FALSE

(* FortiOS answers SNMP whatever its version is.                           *)
SnmpAnswers(c) == c # None /\ c = accepts

(* A coordinator is only given an SNMP client if ARP is synchronized.      *)
ClientOf(d) == IF d.sync THEN d ELSE NoData

Init ==
  /\ fw \in Version
  /\ accepts \in Community \cup {None}
  /\ calm = FALSE
  /\ state = "absent" /\ data = NoData /\ reload = FALSE
  /\ client = NoData /\ version = "6.4" /\ poll = Idle
  /\ table = "none" /\ failed = FALSE
  /\ issue = FALSE
  /\ flow = NoFlow /\ repair = NoRepair

-----------------------------------------------------------------------------
(* The FortiGate is upgraded or downgraded, or its SNMP agent is set up    *)
(* anew.  At some time there is an end to this.                            *)

Upgrade ==
  /\ ~calm
  /\ fw' \in Version \ {fw}
  /\ UNCHANGED <<accepts, calm, state, data, reload, running, issue, flows>>

SnmpAgent ==
  /\ ~calm
  /\ accepts' \in (Community \cup {None}) \ {accepts}
  /\ UNCHANGED <<fw, calm, state, data, reload, running, issue, flows>>

(* Not in the first poll, whose set-up has a status already that may fail  *)
(* it.                                                                     *)
CalmDown ==
  /\ ~calm /\ state \notin {"absent", "first"}
  /\ calm' = TRUE
  /\ flow' = NoFlow /\ repair' = NoRepair
  /\ UNCHANGED <<fw, accepts, state, data, reload, running, issue>>

-----------------------------------------------------------------------------
(* Set-up, in which the first poll has to succeed.                         *)

StatusAnswered ==
  /\ state = "starting"
  /\ state' = "first"
  /\ version' = fw
  /\ client' = ClientOf(data)
  /\ poll' = [Idle EXCEPT !.at = "aps"]
  /\ table' = "none" /\ failed' = FALSE
  /\ UNCHANGED <<fortigate, data, reload, issue, flows>>

(* A request that fails is tried again by Home Assistant; a status without *)
(* a version, or with one that cannot be parsed, is an error, which is not.*)
StatusFailed ==
  /\ state = "starting" /\ ~calm
  /\ state' \in {"retry", "error"}
  /\ UNCHANGED <<fortigate, data, reload, running, issue, flows>>

Retry ==
  /\ state = "retry"
  /\ state' = "starting"
  /\ UNCHANGED <<fortigate, data, reload, running, issue, flows>>

(* Wrong: a poll under way goes on.                                        *)
ReloadKeepsPoll ==
  /\ reload /\ state \in {"loaded", "retry", "error"}
  /\ reload' = FALSE
  /\ state' = "starting"
  /\ issue' = (issue /\ state # "loaded")
  /\ UNCHANGED <<fortigate, data, running, flows>>

(* Home Assistant reloads an entry that is not being set up.  Only one     *)
(* that is loaded is unloaded by the integration, which deletes the issue; *)
(* a poll under way is cancelled.                                          *)
Reload ==
  /\ reload /\ state \in {"loaded", "retry", "error"}
  /\ reload' = FALSE
  /\ state' = "starting"
  /\ NoCoordinator
  /\ issue' = (issue /\ state # "loaded")
  /\ UNCHANGED <<fortigate, data, flows>>

(* The user has the entry reloaded.  Nobody touches one that works in the  *)
(* calm, and nothing else helps one whose set-up ended in an error.        *)
UserReloads ==
  /\ ~reload /\ state # "absent"
  /\ calm => state = "error"
  /\ reload' = TRUE
  /\ UNCHANGED <<fortigate, state, data, running, issue, flows>>

(* Home Assistant is restarted; issues and flows are in its memory only.   *)
Restart ==
  /\ state # "absent" /\ ~calm
  /\ state' = "starting"
  /\ reload' = FALSE /\ issue' = FALSE
  /\ NoCoordinator
  /\ flow' = NoFlow /\ repair' = NoRepair
  /\ UNCHANGED <<fortigate, data>>

-----------------------------------------------------------------------------
(* A poll, from the first request up to the ARP table ("aps"), then the    *)
(* table ("arp") and the rest.  Each answer carries the version.           *)

PollBegins ==
  /\ state = "loaded" /\ poll.at = "idle"
  /\ poll' = [poll EXCEPT !.at = "aps"]
  /\ UNCHANGED <<fortigate, state, data, reload, client, version, table, failed, issue, flows>>

(* The first poll takes the set-up with it.  Another answer may have come  *)
(* before the request that failed.                                         *)
PollFailed ==
  /\ poll.at \in {"aps", "rest"} /\ ~calm
  /\ \/ /\ state = "first"
        /\ state' = "retry"
        /\ NoCoordinator
     \/ /\ state = "loaded"
        /\ version' \in {version, fw}
        /\ poll' = [poll EXCEPT !.at = "idle"]
        /\ UNCHANGED <<state, client, table, failed>>
  /\ UNCHANGED <<fortigate, data, reload, issue, flows>>

RequiresSnmp(v) == client.sync /\ v = "6.2"

Via(v) ==
  CASE client.sync /\ v = "6.4"                -> "api"
    [] client.community # None /\ v # "6.4"    -> "snmp"
    [] OTHER                                   -> "none"

(* Wrong: the issue is left to an answer for the ARP table.                *)
ApsAnsweredKeepsIssue ==
  /\ poll.at = "aps"
  /\ version' = fw
  /\ poll' = [at       |-> IF Via(fw) = "none" THEN "rest" ELSE "arp",
              requires |-> RequiresSnmp(fw),
              via      |-> Via(fw)]
  /\ table' = IF Via(fw) = "none" THEN "empty" ELSE table
  /\ issue' = (issue \/ (RequiresSnmp(fw) /\ Via(fw) = "none"))
  /\ UNCHANGED <<fortigate, state, data, reload, client, failed, flows>>

(* After the access points and Wi-Fi clients have been received the ARP    *)
(* table is next: the issue goes if SNMP is not required, and is raised at *)
(* once if it is but there are no settings for it.                         *)
ApsAnswered ==
  /\ poll.at = "aps"
  /\ version' = fw
  /\ poll' = [at       |-> IF Via(fw) = "none" THEN "rest" ELSE "arp",
              requires |-> RequiresSnmp(fw),
              via      |-> Via(fw)]
  /\ table' = IF Via(fw) = "none" THEN "empty" ELSE table
  /\ issue' = IF ~RequiresSnmp(fw) THEN FALSE
              ELSE IF Via(fw) = "none" THEN TRUE ELSE issue
  /\ UNCHANGED <<fortigate, state, data, reload, client, failed, flows>>

(* FortiOS 6.2 has no such resource.  An answer of the API carries the     *)
(* version, one of SNMP does not.                                          *)
ArpAnswers == IF poll.via = "api" THEN fw = "6.4" ELSE SnmpAnswers(client.community)

ArpAnswered ==
  /\ poll.at = "arp" /\ ArpAnswers
  /\ version' = IF poll.via = "api" THEN fw ELSE version
  /\ poll' = [poll EXCEPT !.at = "rest", !.via = "none"]
  /\ table' = poll.via
  /\ failed' = FALSE /\ issue' = FALSE
  /\ UNCHANGED <<fortigate, state, data, reload, client, flows>>

(* The table received last is kept.                                        *)
ArpFailed ==
  /\ poll.at = "arp" /\ (calm => ~ArpAnswers)
  /\ poll' = [poll EXCEPT !.at = "rest", !.via = "none"]
  /\ failed' = TRUE
  /\ issue' = (issue \/ poll.requires)
  /\ UNCHANGED <<fortigate, state, data, reload, client, version, table, flows>>

(* An answer of the API without a list says nothing about SNMP.            *)
ArpMalformed ==
  /\ poll.at = "arp" /\ poll.via = "api" /\ ~calm
  /\ version' = fw
  /\ poll' = [poll EXCEPT !.at = "rest", !.via = "none"]
  /\ failed' = TRUE
  /\ UNCHANGED <<fortigate, state, data, reload, client, table, issue, flows>>

(* The first poll is over, but the status the set-up began with has no     *)
(* serial number or no results: an error, and no coordinator is left.      *)
SetupRaises ==
  /\ poll.at = "rest" /\ state = "first" /\ ~calm
  /\ state' = "error"
  /\ NoCoordinator
  /\ UNCHANGED <<fortigate, data, reload, issue, flows>>

RestAnswered ==
  /\ poll.at = "rest"
  /\ version' = fw
  /\ poll' = [poll EXCEPT !.at = "idle"]
  /\ state' = "loaded"
  /\ UNCHANGED <<fortigate, data, reload, client, table, failed, issue, flows>>

-----------------------------------------------------------------------------
(* The config flow, which adds the entry or reconfigures it.               *)

Forms(mode) ==
  CASE mode = "none"  -> <<>>
    [] mode = "area"  -> <<"area">>
    [] mode = "label" -> <<"label">>
    [] mode = "both"  -> <<"area", "label">>

(* Settings for SNMP go with the synchronization.                          *)
Finished(d) == [d EXCEPT !.community = IF d.sync THEN @ ELSE None]

(* Wrong: the entry is not reloaded.                                       *)
ContinueWithoutReload(f) ==
  IF f.forms # <<>>
  THEN /\ flow' = [f EXCEPT !.at = Head(f.forms), !.forms = Tail(f.forms)]
       /\ UNCHANGED <<state, data, reload>>
  ELSE /\ flow' = NoFlow
       /\ data' = Finished(f.pending)
       /\ state' = IF f.source = "user" THEN "starting" ELSE state
       /\ UNCHANGED reload

(* The next form of flow f is shown or, after the last one, the entry is   *)
(* written as f has it and reloaded.                                       *)
Continue(f) ==
  IF f.forms # <<>>
  THEN /\ flow' = [f EXCEPT !.at = Head(f.forms), !.forms = Tail(f.forms)]
       /\ UNCHANGED <<state, data, reload>>
  ELSE /\ flow' = NoFlow
       /\ data' = Finished(f.pending)
       /\ state' = IF f.source = "user" THEN "starting" ELSE state
       /\ reload' = (reload \/ f.source = "reconfigure")

(* The connection has been tested; the form for SNMP comes first if it is  *)
(* needed.  The form before has the settings of the entry only in so far   *)
(* as it shows them: what it does not show is taken from the entry as it   *)
(* is at this moment.                                                      *)
Connected ==
  /\ ~calm /\ flow.at = "none"
  /\ \E sync \in BOOLEAN, mode \in Mode :
       LET f == [NoFlow EXCEPT !.forms = Forms(mode),
                               !.pending = [data EXCEPT !.sync = sync],
                               !.source = IF state = "absent" THEN "user" ELSE "reconfigure"]
       IN IF sync /\ fw = "6.2"
          THEN /\ flow' = [f EXCEPT !.at = "snmp"]
               /\ UNCHANGED <<state, data, reload>>
          ELSE Continue(f)
  /\ UNCHANGED <<fortigate, running, issue, repair>>

SnmpSubmitted ==
  /\ flow.at = "snmp"
  /\ \E c \in Community : flow' = [flow EXCEPT !.at = "walk", !.supplied = c]
  /\ UNCHANGED <<fortigate, state, data, reload, running, issue, repair>>

SnmpAccepted ==
  /\ flow.at = "walk" /\ SnmpAnswers(flow.supplied)
  /\ Continue([flow EXCEPT !.pending.community = flow.supplied])
  /\ UNCHANGED <<fortigate, running, issue, repair>>

SnmpRefused ==
  /\ flow.at = "walk"
  /\ flow' = [flow EXCEPT !.at = "snmp", !.supplied = None]
  /\ UNCHANGED <<fortigate, state, data, reload, running, issue, repair>>

FormSubmitted ==
  /\ flow.at \in {"area", "label"}
  /\ Continue(flow)
  /\ UNCHANGED <<fortigate, running, issue, repair>>

FlowClosed ==
  /\ flow.at # "none"
  /\ flow' = NoFlow
  /\ UNCHANGED <<fortigate, state, data, reload, running, issue, repair>>

-----------------------------------------------------------------------------
(* The repair flow.  It is opened from the issue and outlives it.          *)

RepairOpened ==
  /\ ~calm /\ issue /\ repair.at = "none"
  /\ repair' = [NoRepair EXCEPT !.at = "form"]
  /\ UNCHANGED <<fortigate, state, data, reload, running, issue, flow>>

RepairSubmitted ==
  /\ repair.at = "form"
  /\ \E c \in Community : repair' = [at |-> "walk", supplied |-> c]
  /\ UNCHANGED <<fortigate, state, data, reload, running, issue, flow>>

(* Wrong: the entry is not reloaded.                                       *)
RepairAcceptedNoReload ==
  /\ repair.at = "walk" /\ SnmpAnswers(repair.supplied)
  /\ data' = [data EXCEPT !.community = repair.supplied]
  /\ issue' = FALSE
  /\ repair' = NoRepair
  /\ UNCHANGED <<fortigate, state, reload, running, flow>>

(* The settings are put into the entry as it is after the test.            *)
RepairAccepted ==
  /\ repair.at = "walk" /\ SnmpAnswers(repair.supplied)
  /\ data' = [data EXCEPT !.community = repair.supplied]
  /\ issue' = FALSE
  /\ reload' = TRUE
  /\ repair' = NoRepair
  /\ UNCHANGED <<fortigate, state, running, flow>>

RepairRefused ==
  /\ repair.at = "walk"
  /\ repair' = [NoRepair EXCEPT !.at = "form"]
  /\ UNCHANGED <<fortigate, state, data, reload, running, issue, flow>>

RepairClosed ==
  /\ repair.at # "none"
  /\ repair' = NoRepair
  /\ UNCHANGED <<fortigate, state, data, reload, running, issue, flow>>

-----------------------------------------------------------------------------
EntrySteps == StatusAnswered \/ StatusFailed \/ Retry \/ Reload \/ Restart

PollSteps ==
  \/ PollBegins \/ ApsAnswered \/ PollFailed
  \/ ArpAnswered \/ ArpFailed \/ ArpMalformed \/ RestAnswered \/ SetupRaises

FlowSteps ==
  \/ Connected \/ SnmpSubmitted \/ SnmpAccepted \/ SnmpRefused \/ FormSubmitted \/ FlowClosed

RepairSteps ==
  RepairOpened \/ RepairSubmitted \/ RepairAccepted \/ RepairRefused \/ RepairClosed

Next ==
  \/ Upgrade \/ SnmpAgent \/ CalmDown
  \/ UserReloads \/ EntrySteps \/ PollSteps \/ FlowSteps \/ RepairSteps

(* Requests end in an answer, a refusal or a timeout; Home Assistant       *)
(* starts polls, set-ups and scheduled reloads.  Nobody has to answer a    *)
(* form or to reload an entry, and nothing has to calm down.               *)
Fairness == WF_vars(EntrySteps) /\ WF_vars(PollSteps)

Spec == Init /\ [][Next]_vars

FairSpec == Spec /\ Fairness

-----------------------------------------------------------------------------
(* Types, and what goes together: a poll belongs to an entry that is being *)
(* set up or loaded, and SNMP is only asked with settings for it.          *)
TypeOK ==
  /\ fw \in Version /\ accepts \in Community \cup {None} /\ calm \in BOOLEAN
  /\ state \in {"absent", "starting", "first", "retry", "error", "loaded"}
  /\ data \in [sync : BOOLEAN, community : Community \cup {None}]
  /\ client \in [sync : BOOLEAN, community : Community \cup {None}]
  /\ reload \in BOOLEAN /\ issue \in BOOLEAN /\ failed \in BOOLEAN
  /\ version \in Version
  /\ poll \in [at : {"idle", "aps", "arp", "rest"}, requires : BOOLEAN,
               via : {"none", "api", "snmp"}]
  /\ table \in {"none", "empty", "api", "snmp"}
  /\ flow \in [at : {"none", "snmp", "walk", "area", "label"},
               forms : {<<>>, <<"area">>, <<"label">>, <<"area", "label">>},
               pending : [sync : BOOLEAN, community : Community \cup {None}],
               supplied : Community \cup {None},
               source : {"user", "reconfigure"}]
  /\ repair \in [at : {"none", "form", "walk"}, supplied : Community \cup {None}]
  /\ (poll.at # "idle") => (state \in {"first", "loaded"})
  /\ (state = "first") => (poll.at # "idle")
  /\ (poll.via = "snmp") => (client.community # None)
  /\ (flow.at # "none") => (flow.source = "user") = (state = "absent")

(* Between polls the issue says what the last request for the ARP table    *)
(* has shown: it is there if and only if SNMP was required and there were  *)
(* no settings or it failed.  It does not outlive an upgrade, nor the end  *)
(* of the synchronization, even if the API does not answer.                *)
IssueMatches ==
  (state = "loaded" /\ poll.at = "idle" /\ ~reload) =>
    (issue <=> poll.requires /\ (client.community = None \/ failed))

(* The coordinator works with the settings of the entry, whichever flow    *)
(* wrote them and whatever step of the set-up that came between: until a   *)
(* reload that is scheduled, or the set-up that comes next.                *)
SettingsInUse == (state \in {"first", "loaded"} /\ ~reload) => client = ClientOf(data)

(* When all is calm the issue comes to stand exactly if it has to: SNMP is *)
(* required and the FortiGate does not answer what the entry has.  The     *)
(* table then is from the API, from SNMP or empty, as the version has it.  *)
(* An entry whose set-up ended in an error stays so, until somebody        *)
(* reloads it.                                                             *)
Needed == data.sync /\ fw = "6.2" /\ ~SnmpAnswers(data.community)

RightTable ==
  CASE ~data.sync                                 -> table = "empty"
    [] data.sync /\ fw = "6.4"                    -> table = "api"
    [] data.sync /\ fw = "6.2" /\ ~Needed         -> table = "snmp"
    [] OTHER                                      -> data.community # None \/ table = "empty"

Mended ==
  (calm /\ state # "absent" /\ (state = "error" => reload))
    ~> [](state = "loaded" /\ (issue <=> Needed) /\ RightTable)

(* Settings for SNMP are retained while ARP stays synchronized: only a     *)
(* form in which others were supplied replaces them.                       *)
SettingsRetained ==
  [][(data.sync /\ data'.sync /\ data'.community # data.community)
       => data'.community \in {flow.supplied, repair.supplied} \ {None}]_vars
=============================================================================
