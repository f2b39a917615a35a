---------------------------- MODULE Organization ----------------------------
(***************************************************************************)
(* Areas and labels of the devices of one FortiGate (organization.py): the *)
(* hub, its access points and their Wi-Fi clients.  The manager applies    *)
(* what is configured, lets devices follow the hub and clients follow      *)
(* their access point, and has to leave alone what the user has chosen.    *)
(*                                                                         *)
(* Every handler runs in one go.  The registry tells the manager of each   *)
(* change; of changes that it makes itself it takes no notice.             *)
(***************************************************************************)
EXTENDS Naturals, FiniteSets

CONSTANTS
  Hub, Ap, Client,  \* the devices
  Area, Label,      \* of the registries of Home Assistant
  None,
  Setting,          \* what the user may configure
  AreasFor,         \* AreasFor[d]: where the user may put device d
  LabelsFor,        \* LabelsFor[d]: labels the user may give it
  MaxEdits          \* bound on what the user does

Device == {Hub} \cup Ap \cup Client

Mode == {"none", "area", "label", "both"}

(* What the form may leave in the settings, before what does not apply is  *)
(* removed from them.                                                      *)
Settings ==
  [mode : Mode, area : Area \cup {None}, inherit : BOOLEAN, move : BOOLEAN, areaOfAp : BOOLEAN,
   label : Label \cup {None}, labelsOfAp : BOOLEAN, labelsOfHub : BOOLEAN]

ASSUME OrganizationAssumption ==
  /\ Hub \notin Ap \cup Client /\ Ap \cap Client = {}
  /\ None \notin Area \cup Label \cup Ap
  /\ Setting \subseteq Settings
  /\ \A d \in Device : AreasFor[d] \subseteq Area \cup {None} /\ LabelsFor[d] \subseteq Label
  /\ MaxEdits \in Nat

VARIABLES
  settings,   \* what is configured: entry.data and the manager's copy of it
  running,    \* the manager is set up
  area,       \* area of each device that exists
  labels,     \* labels of each device that exists
  ap,         \* the access point of each client in the published data
  memory,     \* _client_ap_labels
  edits,
  own,        \* history: labels that the user gave to each client
  placed,     \* history: the area the user chose for each client
  forgotten   \* history: labels of access points that were in a lost memory

organizationVars == <<settings, running, area, labels, ap, memory, edits, own, placed, forgotten>>

-----------------------------------------------------------------------------
(* What is configured.                                                     *)

InAreaMode(s) == s.mode \in {"area", "both"}
InLabelMode(s) == s.mode \in {"label", "both"}

ConfiguredArea(s) == IF InAreaMode(s) THEN s.area ELSE None

(* A legacy name stands for the label it is resolved to.                   *)
ConfiguredLabel(s) == IF InLabelMode(s) THEN s.label ELSE None

(* The flow removes what does not apply to the mode.                       *)
Clean(s) ==
  [s EXCEPT !.area        = IF InAreaMode(s) THEN @ ELSE None,
            !.inherit     = @ /\ InAreaMode(s),
            !.move        = @ /\ InAreaMode(s),
            !.areaOfAp    = @ /\ InAreaMode(s),
            !.label       = IF InLabelMode(s) THEN @ ELSE None,
            !.labelsOfAp  = @ /\ InLabelMode(s),
            !.labelsOfHub = @ /\ InLabelMode(s)]

-----------------------------------------------------------------------------
(* The handlers work on the registry and on the manager's memory, a record *)
(* r of areas, labels and memory, with the associations w of the clients   *)
(* in the published data, and return the record that results.              *)

Devices(r) == DOMAIN r.labels

(* The access point of a client that is associated, if it has a device.    *)
ApOf(r, w, c) == IF w[c] \in Devices(r) THEN w[c] ELSE None

ClientsOf(r, w, x) == {c \in Client \cap Devices(r) : w[c] = x}

Associated(r, w) == {c \in Client \cap Devices(r) : ApOf(r, w, c) # None}

(* One label more, next to those of a snapshot of the labels.              *)
AddLabel(r, snapshot, x) ==
  [r EXCEPT !.labels = [d \in Devices(r) |->
      IF x # None /\ x \notin snapshot[d] THEN snapshot[d] \cup {x} ELSE @[d]]]

SyncDevicesToHubLabels(r) ==
  [r EXCEPT !.labels = [d \in Devices(r) |->
      IF Hub \in Devices(r) THEN @[d] \cup @[Hub] ELSE @[d]]]

(* Wrong: nothing goes.                                                    *)
ClientLabelsGrow(r, w, c, old) == old \cup r.labels[ApOf(r, w, c)]

(* Wrong: everything else goes.                                            *)
ClientLabelsCopy(r, w, c, old) == r.labels[ApOf(r, w, c)]

(* A client with the labels old gets those of its access point; those that *)
(* it got from an access point before, and only those, go.                 *)
ClientLabels(r, w, c, old) ==
  (old \cup r.labels[ApOf(r, w, c)]) \ (r.memory[c] \ r.labels[ApOf(r, w, c)])

SyncClientsToApLabels(r, w) ==
  [r EXCEPT
     !.labels = [d \in Devices(r) |->
        IF d \in Associated(r, w) THEN ClientLabels(r, w, d, @[d]) ELSE @[d]],
     !.memory = [c \in Client |->
        IF c \in Associated(r, w) THEN r.labels[ApOf(r, w, c)] ELSE @[c]]]

(* Clients without an area, or in the one that the hub had, go to the area *)
(* of their access point.                                                  *)
SyncClientsToApAreas(r, w, fallback) ==
  [r EXCEPT !.area = [d \in Devices(r) |->
      IF /\ d \in Associated(r, w) /\ @[ApOf(r, w, d)] # None
         /\ @[d] \in {None, fallback}
      THEN @[ApOf(r, w, d)] ELSE @[d]]]

If(condition, new, r) == IF condition THEN new ELSE r

-----------------------------------------------------------------------------
(* Every device gets the configured label and, if it has none, the area.   *)
Assigned(s, r) ==
  [AddLabel(r, r.labels, ConfiguredLabel(s)) EXCEPT
     !.area = [d \in Devices(r) |->
        IF @[d] = None /\ (d = Hub \/ s.inherit) THEN ConfiguredArea(s) ELSE @[d]]]

(* Wrong: clients follow their access points before these follow the hub.  *)
ApplyExistingInReverse(s, r, w) ==
  LET assigned == Assigned(s, r)
      areas    == If(s.areaOfAp, SyncClientsToApAreas(assigned, w, None), assigned)
      ofAp     == If(s.labelsOfAp, SyncClientsToApLabels(areas, w), areas)
  IN  If(s.labelsOfHub, SyncDevicesToHubLabels(ofAp), ofAp)

(* _apply_existing_devices                                                 *)
ApplyExistingDevices(s, r, w) ==
  LET assigned == Assigned(s, r)
      areas    == If(s.areaOfAp, SyncClientsToApAreas(assigned, w, None), assigned)
      ofHub    == If(s.labelsOfHub, SyncDevicesToHubLabels(areas), areas)
  IN  If(s.labelsOfAp, SyncClientsToApLabels(ofHub, w), ofHub)

(* _apply_to_new_device.  Each of the three labellings starts from the     *)
(* labels the device had when it was created, so the last one that changes *)
(* anything decides.                                                       *)
NewDeviceLabels(s, r, w, d) ==
  LET created == r.labels[d]
      marked  == AddLabel(r, r.labels, ConfiguredLabel(s)).labels[d]
      ofHub   == IF /\ d # Hub /\ s.labelsOfHub /\ Hub \in Devices(r)
                    /\ ~(r.labels[Hub] \subseteq created)
                 THEN created \cup r.labels[Hub] ELSE marked
      ofAp    == IF d \in Associated(r, w) THEN ClientLabels(r, w, d, created) ELSE created
  IN  IF s.labelsOfAp /\ ofAp # created THEN ofAp ELSE ofHub

NewDeviceArea(s, r, w, d) ==
  LET ofAp == IF d \in Associated(r, w) /\ s.areaOfAp THEN r.area[ApOf(r, w, d)] ELSE None
  IN  CASE r.area[d] # None        -> r.area[d]
        [] r.area[d] = None /\ ofAp # None -> ofAp
        [] OTHER -> IF d = Hub \/ s.inherit THEN ConfiguredArea(s) ELSE None

ApplyToNewDevice(s, r, w, d) ==
  [area   |-> [r.area EXCEPT ![d] = NewDeviceArea(s, r, w, d)],
   labels |-> [r.labels EXCEPT ![d] = NewDeviceLabels(s, r, w, d)],
   memory |-> IF s.labelsOfAp /\ d \in Associated(r, w)
              THEN [r.memory EXCEPT ![d] = r.labels[ApOf(r, w, d)]] ELSE r.memory]

-----------------------------------------------------------------------------
(* reconfigure: from the settings old to s.  All labels are computed from  *)
(* entries that were read before the first change, so a device that gets   *)
(* the new label gets the old one back with it.                            *)
RelabelledHub(old, s, r) ==
  LET dropped == [r EXCEPT !.labels = [d \in Devices(r) |->
                    IF ConfiguredLabel(old) # ConfiguredLabel(s)
                    THEN @[d] \ {ConfiguredLabel(old)} ELSE @[d]]]
  IN  AddLabel(dropped, r.labels, ConfiguredLabel(s))

(* Devices without an area, or in the one that the hub has left, go along. *)
RehousedDevices(old, s, r) ==
  LET from == ConfiguredArea(old)
      to   == ConfiguredArea(s)
      Moves(d) == \/ d = Hub /\ r.area[d] \in {None, from}
                  \/ d # Hub /\ s.inherit /\ r.area[d] = None
                  \/ d # Hub /\ s.inherit /\ s.move /\ from # to /\ r.area[d] = from
  IN  [r EXCEPT !.area = [d \in Devices(r) |->
         IF to # None /\ Moves(d) THEN to ELSE @[d]]]

Reconfigured(old, s, r, w) ==
  LET labelled == RelabelledHub(old, s, r)
      ofHub    == If(s.labelsOfHub, SyncDevicesToHubLabels(labelled), labelled)
      ofAp     == If(s.labelsOfAp, SyncClientsToApLabels(ofHub, w), ofHub)
      housed   == RehousedDevices(old, s, ofAp)
  IN  If(s.areaOfAp, SyncClientsToApAreas(housed, w, ConfiguredArea(old)), housed)

-----------------------------------------------------------------------------
(* What the manager does after the user has changed device d; r is the     *)
(* registry with that change, before is what the device had.               *)

(* Wrong: whatever the mode is.                                            *)
HubAreaSettingsAlways(s, a) == [s EXCEPT !.area = a]

(* The new area of the hub is configured from now on.                      *)
HubAreaSettings(s, a) == IF InAreaMode(s) THEN [s EXCEPT !.area = a] ELSE s

HubAreaMove(s, r, before) ==
  [r EXCEPT !.area = [d \in Devices(r) |->
     IF /\ InAreaMode(s) /\ s.inherit /\ s.move
        /\ d # Hub /\ @[d] \in {None, before}
     THEN @[Hub] ELSE @[d]]]

(* Wrong: all clients of the access point move with it.                    *)
ApAreaMoveAll(s, r, w, x, before) ==
  [r EXCEPT !.area = [d \in Devices(r) |->
     IF s.areaOfAp /\ d \in ClientsOf(r, w, x) THEN @[x] ELSE @[d]]]

ApAreaMove(s, r, w, x, before) ==
  [r EXCEPT !.area = [d \in Devices(r) |->
     IF /\ s.areaOfAp /\ d \in ClientsOf(r, w, x)
        /\ @[d] \in {None, before, ConfiguredArea(s)}
     THEN @[x] ELSE @[d]]]

ApLabelChange(s, r, w, x, before) ==
  LET added   == r.labels[x] \ before
      removed == before \ r.labels[x]
  IN  IF ~s.labelsOfAp THEN r
      ELSE [r EXCEPT
        !.labels = [d \in Devices(r) |->
           IF d \in ClientsOf(r, w, x) THEN (@[d] \cup added) \ removed ELSE @[d]],
        !.memory = [c \in Client |->
           IF c \in ClientsOf(r, w, x) THEN r.labels[x] ELSE @[c]]]

HubLabelChange(s, r, before) ==
  LET added   == r.labels[Hub] \ before
      removed == before \ r.labels[Hub]
  IN  IF ~s.labelsOfHub THEN r
      ELSE [r EXCEPT !.labels = [d \in Devices(r) |->
              IF d = Hub THEN @[d] ELSE (@[d] \cup added) \ removed]]

-----------------------------------------------------------------------------
Now == [area |-> area, labels |-> labels, memory |-> memory]

Becomes(r) ==
  /\ area' = r.area
  /\ labels' = r.labels
  /\ memory' = r.memory

Nobody == [c \in Client |-> None]

Associations == [Client -> Ap \cup {None}]

OrganizationInit ==
  /\ settings \in {Clean(s) : s \in Setting}
  /\ running = FALSE
  /\ area = [d \in {Hub} |-> None]
  /\ labels = [d \in {Hub} |-> {}]
  /\ ap = Nobody
  /\ memory = [c \in Client |-> {}]
  /\ edits = 0
  /\ own = [c \in Client |-> {}]
  /\ placed = Nobody
  /\ forgotten = [c \in Client |-> {}]

(* The first poll has succeeded and the device of the FortiGate is there;  *)
(* a new manager applies the settings to the devices there are.            *)
Setup ==
  /\ ~running /\ running' = TRUE
  /\ ap' \in Associations
  /\ Becomes(ApplyExistingDevices(settings, Now, ap'))
  /\ UNCHANGED <<settings, edits, own, placed, forgotten>>

(* Unloading, a reload or a restart: the memory of the manager is lost.    *)
Stop ==
  /\ running /\ running' = FALSE
  /\ ap' = Nobody
  /\ memory' = [c \in Client |-> {}]
  /\ forgotten' = [c \in Client |-> forgotten[c] \cup memory[c]]
  /\ UNCHANGED <<settings, area, labels, edits, own, placed>>

(* A poll: clients come, roam and go.  Labels follow, areas do not.        *)
CoordinatorUpdate ==
  /\ running
  /\ ap' \in Associations
  /\ Becomes(If(settings.labelsOfAp, SyncClientsToApLabels(Now, ap'), Now))
  /\ UNCHANGED <<settings, running, edits, own, placed, forgotten>>

(* A device is discovered.                                                 *)
Create(d) ==
  /\ running /\ d \notin DOMAIN labels
  /\ d \in Client => ap[d] # None
  /\ LET there == DOMAIN labels \cup {d}
         new   == [area   |-> [x \in there |-> IF x = d THEN None ELSE area[x]],
                   labels |-> [x \in there |-> IF x = d THEN {} ELSE labels[x]],
                   memory |-> memory]
     IN  Becomes(ApplyToNewDevice(settings, new, ap, d))
  /\ UNCHANGED <<settings, running, ap, edits, own, placed, forgotten>>

(* The config flow ends; a manager that runs applies the difference.       *)
ChangeSettings(s) ==
  /\ edits < MaxEdits /\ edits' = edits + 1
  /\ settings' = Clean(s)
  /\ Becomes(If(running, Reconfigured(settings, Clean(s), Now, ap), Now))
  /\ UNCHANGED <<running, ap, own, placed, forgotten>>

(* The user puts device d into area a.                                     *)
MoveDevice(d, a) ==
  /\ edits < MaxEdits /\ edits' = edits + 1
  /\ d \in DOMAIN area /\ a \in AreasFor[d] /\ a # area[d]
  /\ LET moved == [Now EXCEPT !.area[d] = a]
     IN  Becomes(CASE running /\ d = Hub   -> HubAreaMove(settings, moved, area[d])
                   [] running /\ d \in Ap  -> ApAreaMove(settings, moved, ap, d, area[d])
                   [] OTHER                -> moved)
  /\ settings' = If(running /\ d = Hub, HubAreaSettings(settings, a), settings)
  /\ placed' = [c \in Client |-> IF c = d THEN a ELSE placed[c]]
  /\ UNCHANGED <<running, ap, own, forgotten>>

(* The user gives device d the labels l.                                   *)
LabelDevice(d, l) ==
  /\ edits < MaxEdits /\ edits' = edits + 1
  /\ d \in DOMAIN labels /\ l # labels[d]
  /\ l \ labels[d] \subseteq LabelsFor[d]
  /\ LET labelled == [Now EXCEPT !.labels[d] = l]
     IN  Becomes(CASE running /\ d = Hub  -> HubLabelChange(settings, labelled, labels[d])
                   [] running /\ d \in Ap -> ApLabelChange(settings, labelled, ap, d, labels[d])
                   [] OTHER               -> labelled)
  /\ own' = [c \in Client |-> IF c = d THEN (own[c] \cup (l \ labels[d])) \cap l ELSE own[c]]
  /\ forgotten' = [c \in Client |->
                     IF ap[c] = d THEN forgotten[c] \cup (memory[c] \ (memory'[c] \cup labels[d]))
                     ELSE forgotten[c]]
  /\ UNCHANGED <<settings, running, ap, placed>>

OrganizationNext ==
  \/ Setup \/ Stop \/ CoordinatorUpdate
  \/ \E d \in Device : Create(d)
  \/ \E s \in Setting : ChangeSettings(s)
  \/ \E d \in Device, a \in Area \cup {None} : MoveDevice(d, a)
  \/ \E d \in Device, l \in SUBSET Label : LabelDevice(d, l)

OrganizationSpec == OrganizationInit /\ [][OrganizationNext]_organizationVars

-----------------------------------------------------------------------------
OrganizationTypeOK ==
  /\ settings \in Settings /\ settings = Clean(settings)
  /\ running \in BOOLEAN
  /\ Hub \in DOMAIN labels /\ DOMAIN labels \subseteq Device
  /\ area \in [DOMAIN labels -> Area \cup {None}]
  /\ labels \in [DOMAIN labels -> SUBSET Label]
  /\ ap \in Associations
  /\ memory \in [Client -> SUBSET Label]
  /\ edits \in 0 .. MaxEdits
  /\ own \in [Client -> SUBSET Label] /\ forgotten \in [Client -> SUBSET Label]
  /\ placed \in [Client -> Area \cup {None}]

(* Labels and areas that the user uses for one kind of device only.        *)
ClientOnly(l) == (\A s \in Setting : s.label # l) /\ \A d \in {Hub} \cup Ap : l \notin LabelsFor[d]
ApOnly(l) == (\A s \in Setting : s.label # l) /\ l \notin LabelsFor[Hub]
Private(a) == (\A s \in Setting : s.area # a) /\ \A d \in {Hub} \cup Ap : a \notin AreasFor[d]

(* A label that only clients have is never taken from a client by any      *)
(* handler, in whatever order labels, roaming, new devices, restarts and   *)
(* settings follow one another (README.md:345-355).                        *)
ClientLabelsKept ==
  \A c \in Client \cap DOMAIN labels : \A l \in own[c] : ClientOnly(l) => l \in labels[c]

(* A label that comes from access points only stays with a client no       *)
(* longer than the manager remembers where it has it from: the label is    *)
(* the user's own, or in the memory that the next poll works from, or it   *)
(* was in a memory that is lost (a restart, organization.py:65).           *)
ApLabelsAccounted ==
  \A c \in Client \cap DOMAIN labels : \A l \in labels[c] :
    ApOnly(l) => l \in own[c] \cup memory[c] \cup forgotten[c]

(* The same as README.md:351-353 and the comment of                        *)
(* _handle_coordinator_update have it, with no memory that is lost: after  *)
(* a poll the labels a client has are its own or those of its access point.*)
NoLabelLeftBehind ==
  [][(CoordinatorUpdate /\ settings.labelsOfAp)
     => \A c \in Client \cap DOMAIN labels : \A l \in labels'[c] :
          (ApOnly(l) /\ ap'[c] \in DOMAIN labels) => l \in own[c] \cup labels'[ap'[c]]]_organizationVars

(* An area that the user has chosen for a client, and that is neither the  *)
(* hub's nor any access point's, stays whatever else moves (README.md:340: *)
(* devices manually moved away are left alone).                            *)
PrivateAreaKept ==
  \A c \in Client \cap DOMAIN area : Private(placed[c]) /\ placed[c] # None => area[c] = placed[c]

(* What a new manager does to the devices there are is complete, although  *)
(* areas and labels follow one another in one pass (organization.py:148):  *)
(* a restart right after it, which forgets the labels of access points,    *)
(* would change nothing, neither in the registry nor in the memory.        *)
Complete(r, w) ==
  ApplyExistingDevices(settings, [r EXCEPT !.memory = [c \in Client |-> {}]], w) = r

SetupIsComplete ==
  [][Setup => Complete([area |-> area', labels |-> labels', memory |-> memory'], ap')]_organizationVars

(* The configured label is on a device that was just created               *)
(* (README.md:342: a label to apply to the FortiGate, access points and    *)
(* clients).                                                               *)
NewDeviceLabelled ==
  [][(\E d \in Device : Create(d)) /\ ConfiguredLabel(settings) # None
     => \A d \in DOMAIN labels' \ DOMAIN labels : ConfiguredLabel(settings) \in labels'[d]]_organizationVars

(* When another label is configured, no device keeps the one of before     *)
(* (reconfigure takes it from every device, organization.py:95-101, before *)
(* it applies the new one).                                                *)
OldLabelRemoved ==
  [][\A s \in Setting : (ChangeSettings(s) /\ running /\ ~settings'.labelsOfHub /\ ~settings'.labelsOfAp
                          /\ ConfiguredLabel(settings) # ConfiguredLabel(settings'))
     => \A d \in DOMAIN labels' : ConfiguredLabel(settings) \notin labels'[d]]_organizationVars
=============================================================================
