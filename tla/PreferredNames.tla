--------------------------- MODULE PreferredNames ---------------------------
(***************************************************************************)
(* The preferred names of interfaces (text.py): a name that the user may   *)
(* override, that follows the alias of the interface on the FortiGate, and *)
(* that is stored in the config entry; and the reconfigure flow            *)
(* (config_flow.py), the other writer of the stored names.                 *)
(*                                                                         *)
(* Python dictionaries are references.  The callback that adds entities    *)
(* has a dictionary of its own, stored_preferences, and stores that very   *)
(* object in entry.data, from where a flow may take it; clearing it then   *)
(* clears it everywhere.  `shared' tells who holds it; its content is      *)
(* theirs, and while nobody does it is overwritten before it is read.      *)
(* Home Assistant's async_update_entry is external: it replaces entry.data *)
(* only if the contents differ.                                            *)
(*                                                                         *)
(* An entry without stored names counts as one whose stored names are      *)
(* empty.  The code tells them apart only while a flow that began before   *)
(* the first set-up ends after it.                                         *)
(***************************************************************************)
CONSTANTS
  Interface,   \* the interfaces, and their names, which are names by default
  Alias,       \* aliases the FortiGate may give them
  NoAlias,     \* the empty string as an alias
  Name,        \* names the user may choose
  NoName,      \* the empty string as a choice
  Absent,      \* in place of an alias: no such interface
  NoRecord,    \* nothing stored, or no entity
  NoFlow       \* no reconfigure flow in progress

(* What is stored for an interface, and what its entity has: the preferred *)
(* name and the alias it was made for.                                     *)
Record == [value : Interface \cup Alias \cup Name, source : Alias \cup {NoAlias}]

Preferences == [Interface -> Record \cup {NoRecord}]

Aliases == [Interface -> Alias \cup {NoAlias, Absent}]

ASSUME PreferredNamesAssumption ==
  /\ Absent \notin Alias \cup {NoAlias}
  /\ NoAlias \notin Alias /\ NoName \notin Name
  /\ NoRecord \notin Record /\ NoFlow \notin Preferences

VARIABLES
  fg,        \* the aliases on the FortiGate
  up,        \* the text platform is set up
  table,     \* the aliases the coordinator has received
  todo,      \* listeners of the coordinator that are still to be called
  entity,    \* the entities: _value and _source_alias of each
  data,      \* the preferred names in entry.data
  flow,      \* those in the flow's _pending_data
  shared,    \* which of these two hold the callback's stored_preferences
  outdated   \* entry.data was replaced by a flow, and a reload is due

vars == <<fg, up, table, todo, entity, data, flow, shared, outdated>>

platform == <<up, table, todo, entity>>
stored == <<data, flow, shared, outdated>>

Nothing == [i \in Interface |-> NoRecord]

Init ==
  /\ fg \in Aliases
  /\ up = FALSE /\ outdated = FALSE
  /\ table = [i \in Interface |-> Absent]
  /\ todo = {}
  /\ entity = Nothing /\ data = Nothing
  /\ flow = NoFlow /\ shared = {}

-----------------------------------------------------------------------------
(* Stored names.                                                           *)

(* alias or interface_name                                                 *)
Default(i, alias) == IF alias = NoAlias THEN i ELSE alias

(* _interface_preference: the stored name, if it was made for this alias.  *)
Preference(preferences, i, alias) ==
  IF preferences[i] # NoRecord /\ preferences[i].source = alias THEN preferences[i]
  ELSE [value |-> Default(i, alias), source |-> alias]

(* The interfaces in a table that have no entity among `entities'.         *)
New(aliases, entities) == {i \in Interface : aliases[i] # Absent /\ entities[i] = NoRecord}

(* add_interface_entities, for a table and the entities there are; and the *)
(* preferences with the names of the new ones.                             *)
WithNew(aliases, entities, preferences) ==
  [i \in Interface |->
     IF i \in New(aliases, entities) THEN Preference(preferences, i, aliases[i])
     ELSE entities[i]]

WithNewStored(aliases, entities, preferences) ==
  [i \in Interface |->
     IF i \in New(aliases, entities) THEN Preference(preferences, i, aliases[i])
     ELSE preferences[i]]

(* Wrong: the entity's own record replaces those of the others.            *)
PersistAlone(records) ==
  /\ data' = records
  /\ shared' = IF records = data THEN shared ELSE shared \ {"data"}

(* _persist: entities store their records beside those of the others, in a *)
(* dictionary of its own.                                                  *)
Persist(records) ==
  LET updated == [i \in Interface |-> IF records[i] # NoRecord THEN records[i] ELSE data[i]] IN
  /\ data' = updated
  /\ shared' = IF updated = data THEN shared ELSE shared \ {"data"}

-----------------------------------------------------------------------------
(* The FortiGate and its polls.                                            *)

(* An interface is renamed, created or deleted.                            *)
Reconfigure(i) ==
  /\ todo = {}
  /\ fg' \in {[fg EXCEPT ![i] = alias] : alias \in Alias \cup {NoAlias, Absent}}
  /\ UNCHANGED <<platform, stored>>

(* Answers may lack the interfaces of VDOMs that have failed.              *)
Answers == {[i \in Interface |-> IF i \in S THEN fg[i] ELSE Absent] : S \in SUBSET Interface}

(* A poll ends.  Its listeners are called in the order they were added in, *)
(* which depends on how long the entities took to be added.                *)
Poll ==
  /\ up /\ todo = {}
  /\ table' \in Answers \cup {table}
  /\ todo' = {"callback", "entities"}
  /\ UNCHANGED <<fg, up, entity, stored>>

(* add_new_interfaces: the callback's dictionary takes over what is        *)
(* stored.  If that is the same object, there is nothing to be taken over  *)
(* once it was cleared.                                                    *)
AddNewInterfaces ==
  /\ "callback" \in todo
  /\ LET latest == IF "data" \in shared THEN Nothing ELSE data IN
     /\ entity' = WithNew(table, entity, latest)
     /\ data' = WithNewStored(table, entity, latest)
     /\ shared' = IF data' # latest THEN shared \cup {"data"} ELSE shared
     /\ flow' = IF "flow" \in shared THEN data' ELSE flow
  /\ todo' = todo \ {"callback"}
  /\ UNCHANGED <<fg, up, table, outdated>>

(* Wrong: an alias that was removed is not applied.                        *)
SeenAlias(i) ==
  entity[i] # NoRecord /\ table[i] \notin {Absent, NoAlias, entity[i].source}

(* The entity's interface has another alias than the one it has applied.   *)
AliasChanged(i) == entity[i] # NoRecord /\ table[i] \notin {Absent, entity[i].source}

(* Wrong: what is stored is what the entities had before.                  *)
HandleUpdatesLate ==
  LET changed == {i \in Interface : AliasChanged(i)} IN
  /\ "entities" \in todo
  /\ entity' = [i \in Interface |->
       IF i \in changed THEN [value |-> Default(i, table[i]), source |-> table[i]]
       ELSE entity[i]]
  /\ Persist([i \in Interface |-> IF i \in changed THEN entity[i] ELSE NoRecord])
  /\ todo' = todo \ {"entities"}
  /\ UNCHANGED <<fg, up, table, flow, outdated>>

(* _handle_coordinator_update of all entities.                             *)
HandleUpdates ==
  LET changed == {i \in Interface : AliasChanged(i)} IN
  /\ "entities" \in todo
  /\ entity' = [i \in Interface |->
       IF i \in changed THEN [value |-> Default(i, table[i]), source |-> table[i]]
       ELSE entity[i]]
  /\ Persist([i \in Interface |-> IF i \in changed THEN entity'[i] ELSE NoRecord])
  /\ todo' = todo \ {"entities"}
  /\ UNCHANGED <<fg, up, table, flow, outdated>>

-----------------------------------------------------------------------------
(* The user.                                                               *)

(* async_set_value of an entity that is available.  The empty string is    *)
(* the way back to the default.                                            *)
SetValue(i) ==
  /\ up /\ todo = {}
  /\ entity[i] # NoRecord /\ table[i] # Absent
  /\ \E name \in Name \cup {NoName} :
       entity' = [entity EXCEPT ![i].value =
                    IF name = NoName THEN Default(i, entity[i].source) ELSE name]
  /\ Persist([Nothing EXCEPT ![i] = entity'[i]])
  /\ UNCHANGED <<fg, up, table, todo, flow, outdated>>

(* The reconfigure flow copies entry.data when the connection has been     *)
(* validated, and asks further questions: the copy is shallow.             *)
StartFlow ==
  /\ todo = {} /\ flow = NoFlow
  /\ flow' = data
  /\ shared' = IF "data" \in shared THEN shared \cup {"flow"} ELSE shared
  /\ UNCHANGED <<fg, platform, data, outdated>>

AbandonFlow ==
  /\ todo = {} /\ flow # NoFlow
  /\ flow' = NoFlow
  /\ shared' = shared \ {"flow"}
  /\ UNCHANGED <<fg, platform, data, outdated>>

(* The last answer: the copy is written back, and a reload is scheduled.   *)
FinishFlow ==
  /\ todo = {} /\ flow # NoFlow
  /\ data' = flow
  /\ flow' = NoFlow
  /\ shared' = IF (IF flow = data THEN "data" ELSE "flow") \in shared THEN {"data"} ELSE {}
  /\ outdated' = up
  /\ UNCHANGED <<fg, platform>>

-----------------------------------------------------------------------------
(* The entry is unloaded, by a reload or otherwise, and set up again.      *)

Unload ==
  /\ up /\ todo = {}
  /\ up' = FALSE /\ outdated' = FALSE
  /\ table' = [i \in Interface |-> Absent]
  /\ entity' = Nothing
  /\ shared' = {}
  /\ UNCHANGED <<fg, todo, data, flow>>

(* async_setup_entry, after a first poll.  stored_preferences is a copy of *)
(* what is stored.                                                         *)
SetUp ==
  /\ ~up
  /\ up' = TRUE
  /\ table' \in Answers
  /\ entity' = WithNew(table', Nothing, data)
  /\ data' = WithNewStored(table', Nothing, data)
  /\ shared' = IF data' # data THEN {"data"} ELSE {}
  /\ UNCHANGED <<fg, todo, flow, outdated>>

Next ==
  \/ \E i \in Interface : Reconfigure(i) \/ SetValue(i)
  \/ Poll \/ AddNewInterfaces \/ HandleUpdates
  \/ StartFlow \/ AbandonFlow \/ FinishFlow
  \/ Unload \/ SetUp

Spec == Init /\ [][Next]_vars

-----------------------------------------------------------------------------
TypeOK ==
  /\ fg \in Aliases
  /\ up \in BOOLEAN /\ outdated \in BOOLEAN
  /\ table \in Aliases
  /\ todo \subseteq {"callback", "entities"}
  /\ entity \in Preferences /\ data \in Preferences
  /\ flow \in Preferences \cup {NoFlow}
  /\ shared \subseteq {"data", "flow"}

(* What is stored for an entity, if anything is, is what it shows and the  *)
(* alias it was made for: whoever writes entry.data, in whatever order, a  *)
(* name that was replaced does not come back (_persist, the callback and   *)
(* the set-up; a flow that writes an old copy is followed by a reload).    *)
StoredAgrees ==
  ~outdated => \A i \in Interface : entity[i] # NoRecord => data[i] \in {NoRecord, entity[i]}

(* After an update, whatever the order of its listeners, every entity      *)
(* whose interface was received has applied its current alias              *)
(* (_handle_coordinator_update; add_interface_entities for new ones).      *)
AliasApplied ==
  todo = {} => \A i \in Interface : entity[i] # NoRecord => table[i] \in {Absent, entity[i].source}

(* Nobody who stores a name loses another one: a stored name disappears    *)
(* only when the callback clears a dictionary that is entry.data's own, or *)
(* when a flow writes back the copy it has made earlier ("Persist this     *)
(* preference without replacing other interfaces", _persist).              *)
OthersAreKept ==
  [][\A i \in Interface :
       data[i] # NoRecord /\ data'[i] = NoRecord =>
         \/ "callback" \in todo /\ "data" \in shared
         \/ flow # NoFlow /\ data' = flow]_vars
=============================================================================
