-------------------------- MODULE DetectedDevices --------------------------
(***************************************************************************)
(* The inventory of detected devices (coordinator.py): requested every few *)
(* minutes, indexed at the end of each poll that succeeds, and compared    *)
(* with the index before, so that each device tells which of its fields    *)
(* have changed last.  A later request of the same poll may fail, and the  *)
(* answer then waits for the next poll to be indexed.                      *)
(***************************************************************************)
EXTENDS Naturals, Functions

CONSTANTS
  Mac,      \* devices by their address
  Field,    \* the fields that are compared
  Value,
  Refresh   \* polls for which an answer is used

ASSUME DetectedDevicesAssumption == Refresh \in Nat \ {0}

(* Devices that are there, each with its fields.                           *)
Devices == UNION {[present -> [Field -> Value]] : present \in SUBSET Mac}

None == [m \in {} |-> {}]

VARIABLES
  fg,         \* the devices the FortiGate has detected
  calm,       \* from some time on no request fails and no device changes
  inventory,  \* _device_inventory
  available,  \* it has been received
  age,        \* polls since then, up to Refresh
  poll,       \* where the poll is
  byMac,      \* _detected_devices_by_mac
  indexed,    \* _detected_device_inventory_indexed
  changes,    \* _detected_device_changes: the fields, or {} for a new device
  since       \* history: each device as it was when its change was recorded

vars == <<fg, calm, inventory, available, age, poll, byMac, indexed, changes, since>>

index == <<byMac, indexed, changes, since>>

Init ==
  /\ fg \in Devices
  /\ calm = FALSE
  /\ inventory = None /\ available = FALSE /\ age = Refresh
  /\ poll = "idle"
  /\ byMac = None /\ indexed = FALSE /\ changes = None /\ since = None

(* Devices come, go and change.                                            *)
Reconfigure ==
  /\ ~calm
  /\ \E m \in Mac :
       \/ m \in DOMAIN fg /\ fg' = Restrict(fg, DOMAIN fg \ {m})
       \/ \E f \in Field, v \in Value :
            m \in DOMAIN fg /\ fg' = [fg EXCEPT ![m][f] = v]
       \/ \E d \in [Field -> Value] :
            m \notin DOMAIN fg /\ fg' = [x \in DOMAIN fg \cup {m} |-> IF x = m THEN d ELSE fg[x]]
  /\ UNCHANGED <<calm, inventory, available, age, poll, index>>

CalmDown ==
  /\ ~calm
  /\ calm' = TRUE
  /\ UNCHANGED <<fg, inventory, available, age, poll, index>>

(* Wrong: what was received once is used for good.                         *)
DueOnce == ~available

(* After a failure the request is repeated in the next poll only if there  *)
(* is no answer yet, or the last one has become too old.                   *)
Due == ~available \/ age = Refresh

StartPoll ==
  /\ poll = "idle"
  /\ poll' = IF Due THEN "asking" ELSE "rest"
  /\ age' = IF age < Refresh THEN age + 1 ELSE age
  /\ UNCHANGED <<fg, calm, inventory, available, index>>

(* The answer is used from the moment the request was made.                *)
Answer ==
  /\ poll = "asking"
  /\ poll' = "rest"
  /\ inventory' = fg /\ available' = TRUE /\ age' = 1
  /\ UNCHANGED <<fg, calm, index>>

(* A failure, or an answer without a list: the last answer is retained.    *)
NoAnswer ==
  /\ poll = "asking" /\ ~calm
  /\ poll' = "rest"
  /\ UNCHANGED <<fg, calm, inventory, available, age, index>>

(* One of the requests before or after it fails the poll, and the first    *)
(* poll takes the coordinator with it: set-up is repeated with a new one.  *)
PollFails ==
  /\ poll \in {"asking", "rest"} /\ ~calm
  /\ poll' = "idle"
  /\ IF indexed
     THEN UNCHANGED <<inventory, available, age>>
     ELSE inventory' = None /\ available' = FALSE /\ age' = Refresh
  /\ UNCHANGED <<fg, calm, index>>

ChangedFields(m) ==
  IF m \in DOMAIN byMac THEN {f \in Field : byMac[m][f] # inventory[m][f]} ELSE {}

(* Wrong: a device that is back again is taken for the one it was.         *)
RecordedKnown ==
  {m \in DOMAIN inventory \cap DOMAIN byMac : indexed /\ ChangedFields(m) # {}}

(* Devices with a change to be recorded: all that are new, also after they *)
(* were away, but none when the index is built for the first time.         *)
Recorded ==
  {m \in DOMAIN inventory : indexed /\ (m \notin DOMAIN byMac \/ ChangedFields(m) # {})}

ChangesAfter ==
  [m \in DOMAIN changes \cup Recorded |->
     IF m \in Recorded THEN ChangedFields(m) ELSE changes[m]]

(* The index is built after all requests have been answered, whether the   *)
(* inventory was among them or not.                                        *)
Index ==
  /\ poll = "rest"
  /\ poll' = "idle"
  /\ byMac' = inventory
  /\ indexed' = TRUE
  /\ changes' = ChangesAfter
  /\ since' = [m \in DOMAIN since \cup DOMAIN inventory |->
                 IF m \in Recorded \/ m \notin DOMAIN since THEN inventory[m] ELSE since[m]]
  /\ UNCHANGED <<fg, calm, inventory, available, age>>

PollSteps == StartPoll \/ Answer \/ NoAnswer \/ PollFails \/ Index

Next == Reconfigure \/ CalmDown \/ PollSteps

(* Home Assistant starts polls, and each request ends.                     *)
Spec == Init /\ [][Next]_vars /\ WF_vars(PollSteps)

-----------------------------------------------------------------------------
(* Types, and what goes with them: there is nothing before the first       *)
(* answer, and an answer that was indexed was received.                    *)
TypeOK ==
  /\ fg \in Devices /\ inventory \in Devices /\ byMac \in Devices /\ since \in Devices
  /\ calm \in BOOLEAN /\ available \in BOOLEAN /\ indexed \in BOOLEAN
  /\ age \in 1..Refresh
  /\ poll \in {"idle", "asking", "rest"}
  /\ changes \in UNION {[present -> SUBSET Field] : present \in SUBSET Mac}
  /\ ~available => inventory = None
  /\ ~indexed => byMac = None /\ changes = None
  /\ DOMAIN byMac \cup DOMAIN changes \subseteq DOMAIN since

(* Whatever failed and however long an answer had to wait, the changes     *)
(* recorded explain what is shown: a device is as it was when its change   *)
(* was recorded, or has never changed.                                     *)
ChangesExplain == \A m \in DOMAIN byMac : byMac[m] = since[m]

(* The latest change of a device is retained, also while it is away: it is *)
(* replaced only if the device shown has come or has changed.              *)
LatestRetained ==
  [][\A m \in DOMAIN changes :
       /\ m \in DOMAIN changes'
       /\ changes'[m] # changes[m] =>
            /\ m \in DOMAIN byMac'
            /\ m \notin DOMAIN byMac \/ byMac'[m] # byMac[m]]_vars

(* Once nothing changes any more the devices of the FortiGate come to be   *)
(* shown, and stay.                                                        *)
CatchesUp == calm ~> [](byMac = fg)
=============================================================================
