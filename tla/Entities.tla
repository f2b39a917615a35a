------------------------------ MODULE Entities ------------------------------
(***************************************************************************)
(* The sensors of one FortiGate (sensor.py): for which access points,      *)
(* clients, addresses, devices, interfaces, VDOMs and DNS servers there    *)
(* are any, when they are set up and when later polls bring something new, *)
(* and what each of them shows between two polls.                          *)
(*                                                                         *)
(* Home Assistant is external: its entity registry remembers an entity     *)
(* until the user removes it, which is possible while nobody provides it;  *)
(* it keeps the last state of an entity that is to be restored; and it     *)
(* tells the listeners of a poll only when the data or the outcome is      *)
(* another one than before (always_update is off).  What is in the module  *)
(* Poll in single requests is one step here.                               *)
(***************************************************************************)

CONSTANTS
  Tables,     \* the tables of a FortiGate that are followed
  Things,     \* Things[t]: what table t may have rows of
  Value,      \* Value[t]: what a row of table t may say
  Unnamed,    \* the row is there without a host name or an address
  None,
  Version     \* releases of FortiOS

AllTables == {"aps", "clients", "arp", "dhcp", "devices", "interfaces", "vdoms", "dns"}

(* Their listener looks at what was published, not at the tables that      *)
(* entities read.                                                          *)
AddedFromData == {"clients"}

(* Synchronised when the user asked for it.                                *)
Optional == {"arp", "dhcp", "devices", "interfaces"}

(* Listeners add sensors for the new rows of all tables but this one.      *)
Discovered == AllTables \ {"aps"}

(* Sensors are set up for what the entity registry remembers, too.         *)
Remembered == {"clients", "arp", "dhcp", "devices", "interfaces"}

(* After a failure: emptied, marked as not available, or retained.         *)
Emptied == {"clients"}
Marked == {"dns"}

(* Read by entities before the whole answer is there.                      *)
ReadAtOnce == {"interfaces", "vdoms", "dns"}

(* Only shown when their table was received at least once.                 *)
NeedsTable == {"dhcp", "devices", "interfaces", "vdoms", "dns"}

ASSUME EntitiesAssumption ==
  /\ "clients" \in Tables
  /\ Tables \subseteq AllTables
  /\ \A t \in Tables : None \notin Value[t]

VARIABLES
  loaded,     \* the entry is set up
  sync,       \* the optional tables that are synchronised
  tables,     \* what entities read: the rows, and whether there is an answer
  version,    \* the client's version_text
  success,    \* last_update_success
  known,      \* rows of each table that have got their sensors
  shown,      \* the state written for each sensor, and for the firmware
  firmware,   \* the firmware sensor: what it shows and _last_device_version
  registry,   \* Home Assistant's entity registry: rows with sensors, as far as read
  stored      \* Home Assistant's restore state of Last Known Hostname

entitiesVars == <<loaded, sync, tables, version, success, known, shown, firmware, registry,
          stored>>

Content(t) == [rows : [Things[t] -> Value[t] \cup {None}], available : BOOLEAN]

Nothing == [t \in Tables |-> [rows |-> [x \in Things[t] |-> None], available |-> FALSE]]

(* What table t says of x, and whether it can say anything.                *)
Row(tbls, t, x) ==
  IF t \in Tables /\ x \in Things[t] THEN tbls[t].rows[x] ELSE None

Received(tbls, t) == t \in Tables /\ tbls[t].available

Rows(tbls, t) == {x \in Things[t] : tbls[t].rows[x] # None}

-----------------------------------------------------------------------------
(* The sensors of a row, by what they show.  The observation status of a   *)
(* detected device is left out: what it shows follows from the time of     *)
(* day, too.                                                               *)

Synced(t, flags) == t \notin Optional \/ t \in flags

SensorsOf(t, flags) ==
  CASE t = "aps" -> {"state", "row"}
    [] t = "clients" -> {"row", "ip", "last_name"}
                          \cup (IF "dhcp" \in flags THEN {"assigned"} ELSE {})
                          \cup (IF "devices" \in flags THEN {"match"} ELSE {})
    [] t \in {"arp", "dhcp"} -> {"row"} \cup (IF "devices" \in flags THEN {"match"} ELSE {})
    [] OTHER -> {"row"}

Sensors(rows, flags) ==
  UNION {{t} \X rows[t] \X SensorsOf(t, flags) : t \in Tables}

State(ok, value) == [ok |-> ok, value |-> value]

(* The sensors that show a field of a row.                                 *)
RowState(tbls, ok, t, x) ==
  State(/\ ok
        /\ t \in NeedsTable => tbls[t].available
        /\ t = "aps" \/ tbls[t].rows[x] # None,
        tbls[t].rows[x])

(* The client's own address, or else one of the ARP table.                 *)
IpState(tbls, ok, x) ==
  LET own == Row(tbls, "clients", x)  arp == Row(tbls, "arp", x)
  IN State(ok /\ (own # None \/ arp # None),
           IF own \notin {None, Unnamed} THEN own ELSE arp)

(* Whether there is a lease, if leases were ever received.                 *)
AssignedState(tbls, ok, x) == State(ok /\ Received(tbls, "dhcp"), Row(tbls, "dhcp", x))

(* The device the inventory has under the same MAC address.                *)
MatchState(tbls, ok, x) == State(ok /\ Received(tbls, "devices"), Row(tbls, "devices", x))

(* The client's present host name, or the last one that was seen; name is  *)
(* the one remembered so far.                                              *)
LastName(tbls, x, name) ==
  LET now == tbls["clients"].rows[x]
      last == IF now \in {None, Unnamed} THEN name ELSE now
  IN State(last # None, last)

(* What sensor s shows next.                                               *)
View(tbls, ok, s, name) ==
  LET t == s[1]  x == s[2]
  IN CASE s[3] = "row" -> RowState(tbls, ok, t, x)
       [] s[3] = "ip" -> IpState(tbls, ok, x)
       [] s[3] = "assigned" -> AssignedState(tbls, ok, x)
       [] s[3] = "match" -> MatchState(tbls, ok, x)
       [] s[3] = "last_name" -> LastName(tbls, x, name)
       [] s[3] = "state" -> State(TRUE, tbls[t].rows[x])

(* Wrong: the name kept by Home Assistant is not restored.                 *)
NewStateUnrestored(tbls, ok, s) == View(tbls, ok, s, None)

(* The state written when a sensor has been added: the last known host     *)
(* name is restored when the client has none now.                          *)
NewState(tbls, ok, s) ==
  View(tbls, ok, s, IF s[3] = "last_name" THEN stored[s[2]] ELSE None)

(* Wrong: availability is left out of the comparison.                      *)
WrittenOnNewValue(tbls, ok, s) ==
  LET next == View(tbls, ok, s, shown[s].value)
  IN IF s[3] = "state" \/ next.value = shown[s].value THEN shown[s] ELSE next

(* A coordinator sensor writes its state when it differs from the last     *)
(* one, which comes to the state it has now.  The sensors that say how an  *)
(* access point is connected have no coordinator: they never write again.  *)
Written(tbls, ok, s) ==
  IF s[3] = "state" THEN shown[s] ELSE View(tbls, ok, s, shown[s].value)

EntitiesInit ==
  /\ loaded = FALSE /\ sync = {}
  /\ tables = Nothing /\ success = TRUE
  /\ version \in Version
  /\ known = [t \in Tables |-> {}]
  /\ shown = << >>
  /\ firmware = [ok |-> FALSE, value |-> version, last |-> version]
  /\ registry = [t \in Remembered \cap Tables |-> {}]
  /\ stored = [x \in Things["clients"] |-> None]

-----------------------------------------------------------------------------
(* What a request for table t may come to, when the entities read it as    *)
(* before: an answer, or a failure.                                        *)
Answers(t) == {[rows |-> r, available |-> TRUE] : r \in [Things[t] -> Value[t] \cup {None}]}

Failure(t, before) ==
  CASE t \in Emptied -> Nothing[t]
    [] t \in Marked -> [before EXCEPT !.available = FALSE]
    [] OTHER -> before

Outcomes(t, flags, before) ==
  IF ~Synced(t, flags) THEN {Nothing[t]}
  ELSE Answers(t) \cup (IF t = "aps" THEN {} ELSE {Failure(t, before)})

(* One table more is requested, if it is in S: all that can be read then.  *)
AndThen(all, t, S, flags, tbls) ==
  IF t \in S THEN {[a EXCEPT ![t] = c] : a \in all, c \in Outcomes(t, flags, tbls[t])} ELSE all

(* All that can be read after the tables in S were requested, one after    *)
(* the other.                                                              *)
Requested(S, flags, tbls) ==
  LET After(all, t) == AndThen(all, t, S, flags, tbls)
      wifi      == After(After({tbls}, "aps"), "clients")
      addresses == After(After(After(wifi, "arp"), "dhcp"), "devices")
  IN After(After(After(addresses, "vdoms"), "interfaces"), "dns")

-----------------------------------------------------------------------------
(* Wrong: what the entity registry remembers is left out.                  *)
KnownNow(tbls, flags) == [t \in Tables |-> Rows(tbls, t)]

(* What gets sensors when the entry is set up.                             *)
KnownAtSetup(tbls, flags) ==
  [t \in Tables |->
     IF ~Synced(t, flags) THEN {}
     ELSE Rows(tbls, t) \cup (IF t \in Remembered THEN registry[t] ELSE {})]

SetUp(flags) ==
  /\ ~loaded
  /\ loaded' = TRUE /\ sync' = flags /\ success' = TRUE
  /\ tables' \in Requested(Tables, flags, tables)
  /\ version' \in Version
  /\ known' = KnownAtSetup(tables', flags)
  /\ shown' = [s \in Sensors(known', flags) |-> NewState(tables', TRUE, s)]
  /\ firmware' = [ok |-> TRUE, value |-> version', last |-> version']
  /\ registry' = [t \in DOMAIN registry |-> registry[t] \cup known'[t]]
  /\ UNCHANGED stored

(* Wrong: nameless clients are not discovered.                             *)
WithNewNamed(tbls, ok) ==
  [t \in Tables |->
     IF t \in Discovered /\ Synced(t, sync)
     THEN known[t] \cup {x \in Rows(tbls, t) : tbls[t].rows[x] # Unnamed} ELSE known[t]]

(* Rows that have got sensors once the listeners have been told.  After a  *)
(* failure they find nothing new in what was published: it was the same    *)
(* after the success before.                                               *)
WithNew(tbls, ok) ==
  [t \in Tables |->
     IF t \in Discovered /\ Synced(t, sync) /\ (ok \/ t \notin AddedFromData)
     THEN known[t] \cup Rows(tbls, t) ELSE known[t]]

(* Wrong: the device is brought up to date, the state is not written.      *)
FirmwareUnwritten(ver, ok) ==
  IF ver = firmware.last THEN firmware ELSE [firmware EXCEPT !.last = ver]

(* The firmware sensor compares releases before it writes anything.        *)
FirmwareAfter(ver, ok) ==
  IF ver = firmware.last THEN firmware ELSE [ok |-> ok, value |-> ver, last |-> ver]

(* async_update_listeners: the sensors and the listeners that add more.    *)
TellListeners(tbls, ver, ok) ==
  /\ known' = WithNew(tbls, ok)
  /\ shown' = [s \in Sensors(known', sync) |->
                 IF s \in DOMAIN shown THEN Written(tbls, ok, s) ELSE NewState(tbls, ok, s)]
  /\ firmware' = FirmwareAfter(ver, ok)
  /\ registry' = [t \in DOMAIN registry |-> registry[t] \cup known'[t]]

(* Listeners are told of new data or another outcome only.                 *)
TellIf(news) ==
  IF news THEN TellListeners(tables', version', success')
  ELSE UNCHANGED <<known, shown, firmware, registry>>

(* A poll that gets to its end, though requests may have failed.  The data *)
(* that was published is what entities read, unless the last poll failed.  *)
Poll ==
  /\ loaded
  /\ tables' \in Requested(Tables, sync, tables)
  /\ version' \in Version
  /\ success' = TRUE
  /\ TellIf(~success \/ tables' # tables \/ version' # version)
  /\ UNCHANGED <<loaded, sync, stored>>

(* A poll that fails: with its first request, when the SSIDs or when the   *)
(* profiles are requested.  Then some tables are new for their entities,   *)
(* and the release may be, but nothing is published.                       *)
PollCut ==
  /\ loaded
  /\ \E S \in {{}, ReadAtOnce \cap Tables, Tables \ {"aps"}} :
       /\ tables' \in Requested(S, sync, tables)
       /\ IF S = {} THEN version' = version ELSE version' \in Version
  /\ success' = FALSE
  /\ TellIf(success)
  /\ UNCHANGED <<loaded, sync, stored>>

(* Home Assistant keeps the state of a sensor that is to be restored.      *)
Kept(x) ==
  LET s == <<"clients", x, "last_name">>
  IN IF s \in DOMAIN shown THEN shown[s].value ELSE stored[x]

(* Wrong: what is known outlives the platform.                             *)
UnloadKeepsKnown ==
  /\ loaded
  /\ loaded' = FALSE /\ sync' = {}
  /\ tables' = Nothing /\ success' = TRUE
  /\ shown' = << >>
  /\ firmware' = [ok |-> FALSE, value |-> version, last |-> version]
  /\ stored' = [x \in Things["clients"] |-> Kept(x)]
  /\ UNCHANGED <<version, known, registry>>

(* The entry is unloaded, or Home Assistant stops.                         *)
UnloadPlatforms ==
  /\ loaded
  /\ loaded' = FALSE /\ sync' = {}
  /\ tables' = Nothing /\ success' = TRUE
  /\ known' = [t \in Tables |-> {}]
  /\ shown' = << >>
  /\ firmware' = [ok |-> FALSE, value |-> version, last |-> version]
  /\ stored' = [x \in Things["clients"] |-> Kept(x)]
  /\ UNCHANGED <<version, registry>>

(* The user removes what nobody provides from the entity registry.         *)
Forget(t, x) ==
  /\ x \in registry[t] \ known[t]
  /\ registry' = [registry EXCEPT ![t] = @ \ {x}]
  /\ UNCHANGED <<loaded, sync, tables, version, success, known, shown, firmware,
                 stored>>

EntitiesNext ==
  \/ \E flags \in SUBSET (Optional \cap Tables) : SetUp(flags)
  \/ Poll
  \/ PollCut
  \/ UnloadPlatforms
  \/ \E t \in Remembered \cap Tables : \E x \in Things[t] : Forget(t, x)

EntitiesSpec == EntitiesInit /\ [][EntitiesNext]_entitiesVars

-----------------------------------------------------------------------------
Said == (UNION {Value[t] : t \in Tables}) \cup {None}

EntitiesTypeOK ==
  /\ loaded \in BOOLEAN /\ success \in BOOLEAN
  /\ sync \subseteq Optional
  /\ tables \in [Tables -> UNION {Content(t) : t \in Tables}]
  /\ \A t \in Tables : tables[t] \in Content(t)
  /\ version \in Version
  /\ known \in [Tables -> SUBSET UNION {Things[t] : t \in Tables}]
  /\ \A t \in Tables : known[t] \subseteq Things[t]
  /\ registry \in [Remembered \cap Tables -> SUBSET UNION {Things[t] : t \in Tables}]
  /\ \A t \in Remembered \cap Tables : registry[t] \subseteq Things[t]
  /\ shown \in [Sensors(known, sync) -> [ok : BOOLEAN, value : Said]]
  /\ firmware \in [ok : BOOLEAN, value : Version, last : Version]
  /\ stored \in [Things["clients"] -> Value["clients"] \cup {None}]

(* Unless the last poll failed, every sensor of SensorsOf with a           *)
(* coordinator shows what it would write now: also after polls that        *)
(* failed, that changed only what entities read, or of which the listeners *)
(* were not told.  (The observation status, which becomes Stale as time    *)
(* goes by, does not: it waits until the listeners are told.)              *)
ShownIsCurrent ==
  loaded /\ success =>
    \A s \in DOMAIN shown :
      s[3] # "state" => shown[s] = View(tables, TRUE, s, shown[s].value)

(* ... and everything the synchronised tables list now has its sensors,    *)
(* however the polls before ended.                                         *)
AllDiscovered ==
  loaded /\ success =>
    \A t \in Discovered \cap Tables : Synced(t, sync) => Rows(tables, t) \subseteq known[t]

(* README.md: "Keep disconnected client entities available": what had      *)
(* sensors before has them in every later load in which its table is       *)
(* synchronised, unless the user removed them, also when the requests of   *)
(* the set-up failed.                                                      *)
RememberedReturn ==
  loaded =>
    \A t \in Remembered \cap Tables : Synced(t, sync) => registry[t] \subseteq known[t]

Named(x) == Kept(x) # None

(* README.md: "Retain Last Known MAC and Last Known Hostname sensors after *)
(* a client disconnects and across Home Assistant restarts": a host name   *)
(* that was learned is replaced by later ones, never lost.                 *)
NamesKept == [][\A x \in Things["clients"] : Named(x) => Named(x)']_entitiesVars

(* The firmware sensor names the release of the last answer, also when the *)
(* upgrade was first seen in a poll that failed.                           *)
ReleaseShown == loaded /\ success => firmware.value = version

(* CHANGELOG.md: "Firmware upgrades are reflected by the firmware entity   *)
(* immediately": after a poll without failure the entity shows the release *)
(* the FortiGate has answered with.                                        *)
FirmwareShown ==
  loaded /\ success => firmware.ok /\ firmware.value = version
=============================================================================
