--------------------------- MODULE Registry_proofs --------------------------
(* Proofs about what the integration writes into the registries next to    *)
(* what the user chooses there: about PreferredNames, for any interfaces,  *)
(* aliases and names, and about Organization, for any devices, areas,      *)
(* labels and settings.                                                    *)
EXTENDS PreferredNames, Organization, TLAPS

-----------------------------------------------------------------------------
(* PreferredNames.                                                         *)

(* Between the moment an update is announced and the moment the entities   *)
(* handle it they may lag behind the table, so AliasApplied is stated for  *)
(* every moment after that, not only for the end of the update.            *)
Handled ==
  "entities" \notin todo =>
    \A i \in Interface : entity[i] # NoRecord => table[i] \in {Absent, entity[i].source}

(* Entities and updates belong to a platform that is set up, so that a     *)
(* flow that ends while it is not cannot contradict an entity.             *)
OnlyWhenUp == ~up => entity = Nothing /\ todo = {}

IInv == TypeOK /\ StoredAgrees /\ Handled /\ OnlyWhenUp

(* What OthersAreKept says of a step.                                      *)
Kept ==
  \A i \in Interface :
    data[i] # NoRecord /\ data'[i] = NoRecord =>
      \/ "callback" \in todo /\ "data" \in shared
      \/ flow # NoFlow /\ data' = flow

-----------------------------------------------------------------------------
LEMMA NothingType == Nothing \in Preferences /\ (\A i \in Interface : Nothing[i] = NoRecord)
  BY DEF Nothing, Preferences

(* A default, and hence a preference, is a record made for the alias.      *)
LEMMA PreferenceIsRecord ==
  ASSUME NEW i \in Interface, NEW alias \in Alias \cup {NoAlias},
         NEW preferences \in Preferences
  PROVE  /\ Default(i, alias) \in Interface \cup Alias \cup Name
         /\ [value |-> Default(i, alias), source |-> alias] \in Record
         /\ Preference(preferences, i, alias) \in Record
         /\ Preference(preferences, i, alias) # NoRecord
         /\ Preference(preferences, i, alias).source = alias
<1>1. Default(i, alias) \in Interface \cup Alias \cup Name
  BY DEF Default
<1>2. [value |-> Default(i, alias), source |-> alias] \in Record
  BY <1>1 DEF Record
<1>3. [value |-> Default(i, alias), source |-> alias].source = alias
  OBVIOUS
<1>4. preferences[i] \in Record \cup {NoRecord}
  BY DEF Preferences
<1>5. Preference(preferences, i, alias) \in Record
  BY <1>2, <1>4 DEF Preference
<1> QED
  BY <1>1, <1>2, <1>3, <1>5, PreferredNamesAssumption DEF Preference

(* What adding the new entities of a table does: to entities and to what   *)
(* is stored, it gives the same record for a new one and leaves the others *)
(* as they are.                                                            *)
LEMMA NewEntities ==
  ASSUME NEW aliases \in Aliases, NEW entities \in Preferences,
         NEW preferences \in Preferences
  PROVE  /\ WithNew(aliases, entities, preferences) \in Preferences
         /\ WithNewStored(aliases, entities, preferences) \in Preferences
         /\ \A i \in New(aliases, entities) :
              /\ WithNew(aliases, entities, preferences)[i]
                   = WithNewStored(aliases, entities, preferences)[i]
              /\ WithNew(aliases, entities, preferences)[i] # NoRecord
              /\ WithNew(aliases, entities, preferences)[i].source = aliases[i]
         /\ \A i \in Interface \ New(aliases, entities) :
              /\ WithNew(aliases, entities, preferences)[i] = entities[i]
              /\ WithNewStored(aliases, entities, preferences)[i] = preferences[i]
<1>1. \A i \in New(aliases, entities) : i \in Interface /\ aliases[i] \in Alias \cup {NoAlias}
  BY DEF New, Aliases
<1>2. \A i \in New(aliases, entities) :
        LET p == Preference(preferences, i, aliases[i]) IN
        p \in Record /\ p # NoRecord /\ p.source = aliases[i]
  BY <1>1, PreferenceIsRecord
<1>3. \A i \in Interface : entities[i] \in Record \cup {NoRecord}
                        /\ preferences[i] \in Record \cup {NoRecord}
  BY DEF Preferences
<1>4. WithNew(aliases, entities, preferences) \in Preferences
  BY <1>2, <1>3 DEF WithNew, Preferences
<1>5. WithNewStored(aliases, entities, preferences) \in Preferences
  BY <1>2, <1>3 DEF WithNewStored, Preferences
<1>6. \A i \in New(aliases, entities) :
        /\ WithNew(aliases, entities, preferences)[i] = Preference(preferences, i, aliases[i])
        /\ WithNewStored(aliases, entities, preferences)[i]
             = Preference(preferences, i, aliases[i])
  BY <1>1 DEF WithNew, WithNewStored
<1>7. \A i \in Interface \ New(aliases, entities) :
        /\ WithNew(aliases, entities, preferences)[i] = entities[i]
        /\ WithNewStored(aliases, entities, preferences)[i] = preferences[i]
  BY DEF WithNew, WithNewStored
<1> QED
  BY <1>2, <1>4, <1>5, <1>6, <1>7

(* Storing records changes no other one.                                   *)
LEMMA PersistStores ==
  ASSUME TypeOK, NEW records \in Preferences, Persist(records)
  PROVE  /\ data' \in Preferences
         /\ shared' \subseteq {"data", "flow"}
         /\ \A i \in Interface :
              data'[i] = IF records[i] # NoRecord THEN records[i] ELSE data[i]
<1>1. \A i \in Interface : records[i] \in Record \cup {NoRecord}
                        /\ data[i] \in Record \cup {NoRecord}
  BY DEF TypeOK, Preferences
<1>2. data' = [i \in Interface |-> IF records[i] # NoRecord THEN records[i] ELSE data[i]]
  BY DEF Persist
<1>3. data' \in Preferences
  BY <1>1, <1>2 DEF Preferences
<1>4. shared' \subseteq {"data", "flow"}
  BY DEF Persist, TypeOK
<1> QED
  BY <1>2, <1>3, <1>4

-----------------------------------------------------------------------------
(* The actions, one lemma for each that touches names.                     *)

LEMMA InitInvariant == Init => IInv
<1> SUFFICES ASSUME Init PROVE IInv
  OBVIOUS
<1>1. [i \in Interface |-> Absent] \in Aliases
  BY DEF Aliases
<1>2. TypeOK
  BY <1>1, NothingType DEF Init, TypeOK
<1> QED
  BY <1>2, NothingType DEF Init, IInv, StoredAgrees, Handled, OnlyWhenUp

(* What steps keep that leave the entities and what is stored alone.       *)
LEMMA PollStep == ASSUME IInv, Poll PROVE IInv' /\ Kept
<1>1. Answers \subseteq Aliases
  BY DEF Answers, Aliases, TypeOK, IInv
<1>2. TypeOK'
  BY <1>1 DEF IInv, TypeOK, Poll, stored
<1> QED
  BY <1>2 DEF IInv, Poll, stored, StoredAgrees, Handled, OnlyWhenUp, Kept

LEMMA ReconfigureStep ==
  ASSUME IInv, NEW i \in Interface, Reconfigure(i)
  PROVE  IInv' /\ Kept
<1>1. fg' \in Aliases
  BY DEF IInv, TypeOK, Reconfigure, Aliases
<1>2. TypeOK'
  BY <1>1 DEF IInv, TypeOK, Reconfigure, platform, stored
<1> QED
  BY <1>2 DEF IInv, Reconfigure, platform, stored, StoredAgrees, Handled, OnlyWhenUp, Kept

LEMMA AddNewInterfacesStep == ASSUME IInv, AddNewInterfaces PROVE IInv' /\ Kept
<1> DEFINE latest == IF "data" \in shared THEN Nothing ELSE data
           new == New(table, entity)
<1>1. latest \in Preferences
  BY NothingType DEF IInv, TypeOK
<1>2. table \in Aliases /\ entity \in Preferences
  BY DEF IInv, TypeOK
<1>3. /\ entity' = WithNew(table, entity, latest)
      /\ data' = WithNewStored(table, entity, latest)
  BY DEF AddNewInterfaces
<1> HIDE DEF latest
<1>4. /\ entity' \in Preferences /\ data' \in Preferences
      /\ \A i \in new : entity'[i] = data'[i] /\ entity'[i] # NoRecord
                     /\ entity'[i].source = table[i]
      /\ \A i \in Interface \ new : entity'[i] = entity[i] /\ data'[i] = latest[i]
  BY <1>1, <1>2, <1>3, NewEntities
<1>5. \A i \in Interface : latest[i] \in {NoRecord, data[i]}
  BY NothingType DEF latest
<1>6. TypeOK'
  <2>1. shared' \subseteq {"data", "flow"} /\ flow' \in Preferences \cup {NoFlow}
    BY <1>4 DEF AddNewInterfaces, IInv, TypeOK
  <2> QED
    BY <1>4, <2>1 DEF AddNewInterfaces, IInv, TypeOK
<1>7. StoredAgrees'
  BY <1>4, <1>5 DEF AddNewInterfaces, IInv, StoredAgrees
<1>8. Handled'
  <2> SUFFICES ASSUME "entities" \notin todo', NEW i \in Interface, entity'[i] # NoRecord
               PROVE  table[i] \in {Absent, entity'[i].source}
    BY DEF Handled, AddNewInterfaces
  <2>1. CASE i \in new
    BY <2>1, <1>4
  <2>2. CASE i \notin new
    BY <2>2, <1>4 DEF IInv, Handled, AddNewInterfaces
  <2> QED
    BY <2>1, <2>2
<1>9. OnlyWhenUp'
  BY DEF AddNewInterfaces, IInv, OnlyWhenUp
<1>10. Kept
  <2> SUFFICES ASSUME NEW i \in Interface, data[i] # NoRecord, data'[i] = NoRecord,
                      "data" \notin shared
               PROVE  FALSE
    BY DEF Kept, AddNewInterfaces
  <2>1. latest = data
    BY DEF latest
  <2>2. i \notin new
    BY <1>4
  <2> QED
    BY <1>4, <2>1, <2>2
<1> QED
  BY <1>6, <1>7, <1>8, <1>9, <1>10 DEF IInv

LEMMA HandleUpdatesStep == ASSUME IInv, HandleUpdates PROVE IInv' /\ Kept
<1> DEFINE changed == {i \in Interface : AliasChanged(i)}
           records == [i \in Interface |-> IF i \in changed THEN entity'[i] ELSE NoRecord]
<1>1. entity' = [i \in Interface |->
        IF i \in changed THEN [value |-> Default(i, table[i]), source |-> table[i]]
        ELSE entity[i]]
  BY DEF HandleUpdates
<1>2. \A i \in changed : i \in Interface /\ table[i] \in Alias \cup {NoAlias}
  BY DEF AliasChanged, IInv, TypeOK, Aliases
<1>3. \A i \in changed : entity'[i] \in Record /\ entity'[i] # NoRecord
                      /\ entity'[i].source = table[i]
  <2> SUFFICES ASSUME NEW i \in changed
               PROVE  entity'[i] \in Record /\ entity'[i] # NoRecord
                      /\ entity'[i].source = table[i]
    OBVIOUS
  <2>1. [value |-> Default(i, table[i]), source |-> table[i]] \in Record
    BY <1>2, PreferenceIsRecord, NothingType
  <2>2. entity'[i] = [value |-> Default(i, table[i]), source |-> table[i]]
    BY <1>1, <1>2
  <2> QED
    BY <2>1, <2>2, PreferredNamesAssumption
<1>4. \A i \in Interface \ changed : entity'[i] = entity[i]
  BY <1>1
<1>5. \A i \in Interface : entity[i] \in Record \cup {NoRecord}
  BY DEF IInv, TypeOK, Preferences
<1>6. entity' \in Preferences
  BY <1>1, <1>3, <1>5 DEF Preferences
<1>7. records \in Preferences
  BY <1>3 DEF Preferences
<1>8. Persist(records)
  BY DEF HandleUpdates
<1> HIDE DEF changed
<1>9. /\ data' \in Preferences /\ shared' \subseteq {"data", "flow"}
      /\ \A i \in Interface : data'[i] = IF records[i] # NoRecord THEN records[i] ELSE data[i]
  <2> HIDE DEF records
  <2> QED
    BY <1>7, <1>8, PersistStores DEF IInv
<1>10. \A i \in Interface : data'[i] = IF i \in changed THEN entity'[i] ELSE data[i]
  BY <1>3, <1>9
<1>11. TypeOK'
  BY <1>6, <1>9 DEF HandleUpdates, IInv, TypeOK
<1>12. StoredAgrees'
  BY <1>4, <1>10 DEF HandleUpdates, IInv, StoredAgrees
<1>13. Handled'
  <2> SUFFICES ASSUME NEW i \in Interface, entity'[i] # NoRecord
               PROVE  table[i] \in {Absent, entity'[i].source}
    BY DEF Handled, HandleUpdates
  <2>1. CASE i \in changed
    BY <2>1, <1>3
  <2>2. CASE i \notin changed
    BY <2>2, <1>4 DEF changed, AliasChanged
  <2> QED
    BY <2>1, <2>2
<1>14. OnlyWhenUp'
  BY DEF HandleUpdates, IInv, OnlyWhenUp
<1>15. Kept
  BY <1>3, <1>10 DEF Kept
<1> QED
  BY <1>11, <1>12, <1>13, <1>14, <1>15 DEF IInv

LEMMA SetValueStep ==
  ASSUME IInv, NEW i \in Interface, SetValue(i)
  PROVE  IInv' /\ Kept
<1>1. PICK name \in Name \cup {NoName} :
        entity' = [entity EXCEPT ![i].value =
                     IF name = NoName THEN Default(i, entity[i].source) ELSE name]
  BY DEF SetValue
<1>2. entity[i] \in Record /\ entity \in Preferences
  BY DEF SetValue, IInv, TypeOK, Preferences
<1>3. entity[i].source \in Alias \cup {NoAlias}
  BY <1>2 DEF Record
<1> DEFINE value == IF name = NoName THEN Default(i, entity[i].source) ELSE name
           records == [Nothing EXCEPT ![i] = entity'[i]]
<1>4. value \in Interface \cup Alias \cup Name
  BY <1>3, PreferenceIsRecord, NothingType
<1>5. entity'[i] = [entity[i] EXCEPT !.value = value]
  BY <1>1, <1>2 DEF Preferences
<1> HIDE DEF value
<1>6. entity'[i] \in Record /\ entity'[i] # NoRecord /\ entity'[i].source = entity[i].source
  BY <1>2, <1>4, <1>5, PreferredNamesAssumption DEF Record
<1>7. \A j \in Interface \ {i} : entity'[j] = entity[j]
  BY <1>1, <1>2 DEF Preferences
<1>8. entity' \in Preferences
  BY <1>1, <1>2, <1>6, <1>7 DEF Preferences
<1>9. records \in Preferences
  BY <1>6, NothingType DEF Preferences
<1>10. \A j \in Interface : records[j] = IF j = i THEN entity'[i] ELSE NoRecord
  BY NothingType DEF Preferences
<1>11. /\ data' \in Preferences /\ shared' \subseteq {"data", "flow"}
       /\ \A j \in Interface : data'[j] = IF records[j] # NoRecord THEN records[j] ELSE data[j]
  <2>1. Persist(records)
    BY DEF SetValue
  <2> HIDE DEF records
  <2> QED
    BY <1>9, <2>1, PersistStores DEF IInv
<1>12. \A j \in Interface : data'[j] = IF j = i THEN entity'[i] ELSE data[j]
  BY <1>6, <1>10, <1>11
<1>13. TypeOK'
  BY <1>8, <1>11 DEF SetValue, IInv, TypeOK
<1>14. StoredAgrees'
  BY <1>7, <1>12 DEF SetValue, IInv, StoredAgrees
<1>15. Handled'
  BY <1>6, <1>7 DEF SetValue, IInv, Handled
<1>16. OnlyWhenUp'
  BY DEF SetValue, IInv, OnlyWhenUp
<1>17. Kept
  BY <1>6, <1>12 DEF Kept
<1> QED
  BY <1>13, <1>14, <1>15, <1>16, <1>17 DEF IInv

LEMMA FlowStep ==
  ASSUME IInv, StartFlow \/ AbandonFlow \/ FinishFlow
  PROVE  IInv' /\ Kept
<1>1. CASE StartFlow
  <2>1. TypeOK'
    BY <1>1 DEF StartFlow, platform, IInv, TypeOK
  <2> QED
    BY <1>1, <2>1 DEF StartFlow, platform, IInv, StoredAgrees, Handled, OnlyWhenUp, Kept
<1>2. CASE AbandonFlow
  <2>1. TypeOK'
    BY <1>2 DEF AbandonFlow, platform, IInv, TypeOK
  <2> QED
    BY <1>2, <2>1 DEF AbandonFlow, platform, IInv, StoredAgrees, Handled, OnlyWhenUp, Kept
<1>3. CASE FinishFlow
  <2>1. TypeOK'
    BY <1>3 DEF FinishFlow, platform, IInv, TypeOK
  <2>2. StoredAgrees'
    BY <1>3, NothingType DEF FinishFlow, platform, IInv, OnlyWhenUp, StoredAgrees
  <2>3. Handled' /\ OnlyWhenUp'
    BY <1>3 DEF FinishFlow, platform, IInv, Handled, OnlyWhenUp
  <2>4. Kept
    BY <1>3 DEF FinishFlow, Kept
  <2> QED
    BY <2>1, <2>2, <2>3, <2>4 DEF IInv
<1> QED
  BY <1>1, <1>2, <1>3

LEMMA UnloadStep == ASSUME IInv, Unload PROVE IInv' /\ Kept
<1>1. [i \in Interface |-> Absent] \in Aliases
  BY DEF Aliases
<1>2. TypeOK'
  BY <1>1, NothingType DEF Unload, IInv, TypeOK
<1> QED
  BY <1>2, NothingType DEF Unload, IInv, StoredAgrees, Handled, OnlyWhenUp, Kept

LEMMA SetUpStep == ASSUME IInv, SetUp PROVE IInv' /\ Kept
<1>1. table' \in Aliases
  BY DEF SetUp, Answers, Aliases, IInv, TypeOK
<1>2. data \in Preferences /\ Nothing \in Preferences
  BY NothingType DEF IInv, TypeOK
<1>3. /\ entity' = WithNew(table', Nothing, data)
      /\ data' = WithNewStored(table', Nothing, data)
  BY DEF SetUp
<1> DEFINE new == New(table', Nothing)
<1>4. /\ entity' \in Preferences /\ data' \in Preferences
      /\ \A i \in new : entity'[i] = data'[i] /\ entity'[i] # NoRecord
                     /\ entity'[i].source = table'[i]
      /\ \A i \in Interface \ new : entity'[i] = Nothing[i] /\ data'[i] = data[i]
  BY <1>1, <1>2, <1>3, NewEntities
<1>5. \A i \in Interface : entity'[i] # NoRecord => i \in new
  BY <1>4, NothingType
<1>6. TypeOK'
  BY <1>1, <1>4 DEF SetUp, IInv, TypeOK
<1>7. StoredAgrees' /\ Handled'
  BY <1>4, <1>5 DEF StoredAgrees, Handled
<1>8. OnlyWhenUp'
  BY DEF SetUp, OnlyWhenUp
<1>9. Kept
  BY <1>4 DEF Kept
<1> QED
  BY <1>6, <1>7, <1>8, <1>9 DEF IInv

LEMMA StepPreservesInvariant == IInv /\ [Next]_vars => IInv' /\ (Kept \/ UNCHANGED vars)
<1> SUFFICES ASSUME IInv, [Next]_vars PROVE IInv' /\ (Kept \/ UNCHANGED vars)
  OBVIOUS
<1>1. CASE UNCHANGED vars
  <2>1. TypeOK'
    BY <1>1 DEF vars, IInv, TypeOK
  <2> QED
    BY <1>1, <2>1 DEF vars, IInv, StoredAgrees, Handled, OnlyWhenUp
<1>2. ASSUME NEW i \in Interface, Reconfigure(i) \/ SetValue(i)
      PROVE  IInv' /\ Kept
  BY <1>2, ReconfigureStep, SetValueStep
<1>3. CASE Next
  BY <1>2, <1>3, PollStep, AddNewInterfacesStep, HandleUpdatesStep, FlowStep, UnloadStep,
     SetUpStep
     DEF Next
<1> QED
  BY <1>1, <1>3

-----------------------------------------------------------------------------
LEMMA Invariant == Spec => []IInv
<1>1. IInv /\ [Next]_vars => IInv'
  BY StepPreservesInvariant
<1> QED
  BY <1>1, InitInvariant, PTL DEF Spec

(* The type invariant of the stored names, the entities and the flow.      *)
THEOREM TypeCorrect == Spec => []TypeOK
<1>1. IInv => TypeOK
  BY DEF IInv
<1> QED
  BY <1>1, Invariant, PTL

(* What text.py stores for an entity is what the entity shows, whatever    *)
(* order its callback, its entities and the reconfigure flow write in.     *)
THEOREM StoredRecordsAgree == Spec => []StoredAgrees
<1>1. IInv => StoredAgrees
  BY DEF IInv
<1> QED
  BY <1>1, Invariant, PTL

(* Every entity has applied the alias of its interface at the end of an    *)
(* update, whether it or the callback was called first.                    *)
THEOREM AliasesAreApplied == Spec => []AliasApplied
<1>1. IInv => AliasApplied
  BY DEF IInv, Handled, AliasApplied
<1> QED
  BY <1>1, Invariant, PTL

(* A stored name is lost only by clearing the shared dictionary or by the  *)
(* old copy of a flow, never by storing another name.                      *)
THEOREM OnlySharedIsLost == Spec => OthersAreKept
<1>1. IInv /\ [Next]_vars => [Kept]_vars
  BY StepPreservesInvariant
<1>2. [Kept]_vars =>
        [\A i \in Interface :
           data[i] # NoRecord /\ data'[i] = NoRecord =>
             \/ "callback" \in todo /\ "data" \in shared
             \/ flow # NoFlow /\ data' = flow]_vars
  BY DEF Kept
<1> QED
  BY <1>1, <1>2, Invariant, PTL DEF Spec, OthersAreKept

-----------------------------------------------------------------------------
(* Organization.                                                           *)

(* A registry with the devices S, and the manager's memory.                *)
Registry(S) ==
  [area : [S -> Area \cup {None}], labels : [S -> SUBSET Label], memory : [Client -> SUBSET Label]]

(* Sets of devices that may be there: the hub always is.                   *)
Present == {S \in SUBSET Device : Hub \in S}

(* The label l is on clients only, and was never taken for a label of an   *)
(* access point.                                                           *)
OnClientsOnly(r, l) ==
  /\ \A d \in Devices(r) \ Client : l \notin r.labels[d]
  /\ \A c \in Client : l \notin r.memory[c]

(* The area a is no area of the hub or an access point.                    *)
Elsewhere(r, a) == \A d \in Devices(r) \ Client : r.area[d] # a

(* A client has the label l from an access point, as the memory or what is *)
(* traced otherwise tells.                                                 *)
FromAps(r, traced, l) ==
  /\ l \notin r.labels[Hub]
  /\ \A c \in Client \cap Devices(r) : l \in r.labels[c] => l \in r.memory[c] \cup traced[c]

(* From the registry r to the registry new: a label that only clients have *)
(* is lost by no client, nor spread.                                       *)
KeepsClientLabels(r, new) ==
  \A l \in Label : ClientOnly(l) /\ OnClientsOnly(r, l) =>
    /\ OnClientsOnly(new, l)
    /\ \A c \in Client \cap Devices(r) : l \in r.labels[c] => l \in new.labels[c]

(* ...  a label that comes from access points only remains traced.         *)
KeepsApLabels(r, new) ==
  \A l \in Label, traced \in [Client -> SUBSET Label] :
    ApOnly(l) /\ FromAps(r, traced, l) => FromAps(new, traced, l)

(* ...  and nothing moves into or out of an area that only clients have.   *)
KeepsAreas(r, new) ==
  \A a \in Area : Private(a) /\ Elsewhere(r, a) =>
    /\ Elsewhere(new, a)
    /\ \A c \in Client \cap Devices(r) : r.area[c] = a => new.area[c] = a

(* What the manager may do to a registry.  It is stated of one step from   *)
(* any registry to another, so that it can be shown of each operator alone *)
(* and put together along the handlers.                                    *)
Harmless(r, new) == KeepsClientLabels(r, new) /\ KeepsApLabels(r, new) /\ KeepsAreas(r, new)

(* Settings that there can be: what the form leaves, with an area that the *)
(* user chose for the hub.                                                 *)
Possible ==
  {s \in Settings : /\ s.label \in {x.label : x \in Setting} \cup {None}
                    /\ s.area \in {x.area : x \in Setting} \cup AreasFor[Hub] \cup {None}}

-----------------------------------------------------------------------------
(* Doing nothing is harmless.                                              *)
LEMMA HarmlessReflexive ==
  ASSUME NEW S \in Present, NEW r \in Registry(S)
  PROVE  Harmless(r, r)
  BY DEF Harmless, KeepsClientLabels, KeepsApLabels, KeepsAreas

(* One harmless operation after another.                                   *)
LEMMA HarmlessTransitive ==
  ASSUME NEW S \in Present, NEW r \in Registry(S), NEW q \in Registry(S), NEW p \in Registry(S),
         Harmless(r, q), Harmless(q, p)
  PROVE  Harmless(r, p)
  <1>1. Devices(q) = Devices(r)
    BY DEF Registry, Devices
  <1>2. KeepsClientLabels(r, p)
    BY <1>1 DEF Harmless, KeepsClientLabels
  <1>3. KeepsApLabels(r, p)
    BY <1>1 DEF Harmless, KeepsApLabels
  <1>4. KeepsAreas(r, p)
    BY <1>1 DEF Harmless, KeepsAreas
  <1> QED
    BY <1>2, <1>3, <1>4 DEF Harmless

-----------------------------------------------------------------------------
(* The configured label is none of a client's or an access point's own.    *)
LEMMA LabelConfigured ==
  ASSUME NEW s \in Possible
  PROVE  /\ ConfiguredLabel(s) \in Label \cup {None}
         /\ \A l \in Label : ClientOnly(l) \/ ApOnly(l) => ConfiguredLabel(s) # l
  <1>1. s \in Settings /\ s.label \in {x.label : x \in Setting} \cup {None}
    BY DEF Possible
  <1>2. ConfiguredLabel(s) \in {s.label, None}
    BY DEF ConfiguredLabel
  <1>3. s.label \in Label \cup {None}
    BY <1>1 DEF Settings
  <1> QED
    BY <1>1, <1>2, <1>3, OrganizationAssumption DEF ClientOnly, ApOnly

(* The configured area is none that only clients have.                     *)
LEMMA AreaConfigured ==
  ASSUME NEW s \in Possible
  PROVE  /\ ConfiguredArea(s) \in Area \cup {None}
         /\ \A a \in Area : Private(a) => ConfiguredArea(s) # a
  <1>1. s \in Settings /\ s.area \in {x.area : x \in Setting} \cup AreasFor[Hub] \cup {None}
    BY DEF Possible
  <1>2. ConfiguredArea(s) \in {s.area, None}
    BY DEF ConfiguredArea
  <1>3. s.area \in Area \cup {None}
    BY <1>1 DEF Settings
  <1> QED
    BY <1>1, <1>2, <1>3, OrganizationAssumption DEF Private

-----------------------------------------------------------------------------
(* The configured label is added.                                          *)
LEMMA AddLabelHarmless ==
  ASSUME NEW S \in Present, NEW r \in Registry(S), NEW x \in Label \cup {None},
         \A l \in Label : ClientOnly(l) \/ ApOnly(l) => x # l
  PROVE  AddLabel(r, r.labels, x) \in Registry(S) /\ Harmless(r, AddLabel(r, r.labels, x))
  <1> DEFINE new == AddLabel(r, r.labels, x)
  <1>1. Devices(r) = S
    BY DEF Registry, Devices
  <1>2. /\ new \in Registry(S)
        /\ new.area = r.area /\ new.memory = r.memory
        /\ new.labels \in [S -> SUBSET Label]
        /\ \A d \in S : new.labels[d] = r.labels[d] \cup (IF x = None THEN {} ELSE {x})
    BY <1>1 DEF AddLabel, Registry
  <1>3. Devices(new) = S
    BY <1>2 DEF Devices
  <1> HIDE DEF new
  <1>4. KeepsClientLabels(r, new)
    BY <1>1, <1>2, <1>3, OrganizationAssumption DEF KeepsClientLabels, OnClientsOnly
  <1>5. KeepsApLabels(r, new)
    BY <1>1, <1>2, <1>3, OrganizationAssumption DEF KeepsApLabels, FromAps, Present
  <1>6. KeepsAreas(r, new)
    BY <1>1, <1>2, <1>3 DEF KeepsAreas, Elsewhere
  <1> QED
    BY <1>2, <1>4, <1>5, <1>6 DEF Harmless, new

(* The label of before is exchanged for the one that is configured now.    *)
LEMMA RelabelledHubHarmless ==
  ASSUME NEW S \in Present, NEW r \in Registry(S), NEW old \in Possible, NEW s \in Possible
  PROVE  RelabelledHub(old, s, r) \in Registry(S) /\ Harmless(r, RelabelledHub(old, s, r))
  <1> DEFINE x == ConfiguredLabel(s)
             y == ConfiguredLabel(old)
             dropped == [r EXCEPT !.labels = [d \in Devices(r) |-> IF y # x THEN @[d] \ {y} ELSE @[d]]]
             new == RelabelledHub(old, s, r)
  <1>1. Devices(r) = S
    BY DEF Registry, Devices
  <1>2. /\ x \in Label \cup {None} /\ y \in Label \cup {None}
        /\ \A l \in Label : ClientOnly(l) \/ ApOnly(l) => x # l /\ y # l
    BY LabelConfigured
  <1>3. new = AddLabel(dropped, r.labels, x)
    BY DEF RelabelledHub
  <1> HIDE DEF x, y, new
  <1>4. /\ dropped \in Registry(S)
        /\ dropped.area = r.area /\ dropped.memory = r.memory
        /\ dropped.labels = [d \in S |-> IF y # x THEN r.labels[d] \ {y} ELSE r.labels[d]]
    BY <1>1 DEF Registry
  <1>5. Devices(dropped) = S
    BY <1>4 DEF Devices
  <1> HIDE DEF dropped
  <1>6. /\ new \in Registry(S)
        /\ new.area = r.area /\ new.memory = r.memory
        /\ new.labels \in [S -> SUBSET Label]
        /\ \A d \in S : new.labels[d] \subseteq r.labels[d] \cup ({x} \ {None})
        /\ \A d \in S : r.labels[d] \ {y} \subseteq new.labels[d]
    <2>1. new = [dropped EXCEPT !.labels = [d \in S |->
                   IF x # None /\ x \notin r.labels[d] THEN r.labels[d] \cup {x} ELSE @[d]]]
      BY <1>3, <1>5 DEF AddLabel
    <2>2. /\ new \in Registry(S)
          /\ new.area = r.area /\ new.memory = r.memory
          /\ new.labels = [d \in S |->
               IF x # None /\ x \notin r.labels[d] THEN r.labels[d] \cup {x} ELSE dropped.labels[d]]
      BY <2>1, <1>2, <1>4 DEF Registry
    <2> QED
      BY <2>2, <1>2, <1>4 DEF Registry
  <1>7. Devices(new) = S
    BY <1>6 DEF Devices
  <1>8. KeepsClientLabels(r, new)
    BY <1>1, <1>2, <1>6, <1>7, OrganizationAssumption DEF KeepsClientLabels, OnClientsOnly
  <1>9. KeepsApLabels(r, new)
    BY <1>1, <1>2, <1>6, <1>7, OrganizationAssumption DEF KeepsApLabels, FromAps, Present
  <1>10. KeepsAreas(r, new)
    BY <1>1, <1>6, <1>7 DEF KeepsAreas, Elsewhere
  <1> QED
    BY <1>6, <1>8, <1>9, <1>10 DEF Harmless, new

(* Devices get the labels of the hub.                                      *)
LEMMA HubLabelsHarmless ==
  ASSUME NEW S \in Present, NEW r \in Registry(S)
  PROVE  SyncDevicesToHubLabels(r) \in Registry(S) /\ Harmless(r, SyncDevicesToHubLabels(r))
  <1> DEFINE new == SyncDevicesToHubLabels(r)
  <1>1. Devices(r) = S /\ Hub \in S /\ Hub \notin Client
    BY OrganizationAssumption DEF Registry, Devices, Present
  <1>2. /\ new \in Registry(S)
        /\ new.area = r.area /\ new.memory = r.memory
        /\ new.labels = [d \in S |-> r.labels[d] \cup r.labels[Hub]]
    BY <1>1 DEF SyncDevicesToHubLabels, Registry
  <1>3. Devices(new) = S
    BY <1>2 DEF Devices
  <1> HIDE DEF new
  <1>4. KeepsClientLabels(r, new)
    BY <1>1, <1>2, <1>3 DEF KeepsClientLabels, OnClientsOnly
  <1>5. KeepsApLabels(r, new)
    BY <1>1, <1>2, <1>3 DEF KeepsApLabels, FromAps
  <1>6. KeepsAreas(r, new)
    BY <1>1, <1>2, <1>3 DEF KeepsAreas, Elsewhere
  <1> QED
    BY <1>2, <1>4, <1>5, <1>6 DEF Harmless, new

(* An associated client's access point has a device, and is not a client. *)
LEMMA AssociatedAp ==
  ASSUME NEW S \in Present, NEW r \in Registry(S), NEW w \in Associations,
         NEW c \in Associated(r, w)
  PROVE  /\ c \in Client \cap S
         /\ ApOf(r, w, c) = w[c] /\ w[c] \in S \ Client /\ w[c] # Hub
  <1>1. Devices(r) = S
    BY DEF Registry, Devices
  <1>2. c \in Client /\ w[c] \in Ap \cup {None}
    BY <1>1 DEF Associated, Associations
  <1> QED
    BY <1>1, <1>2, OrganizationAssumption DEF Associated, ApOf

(* Clients get the labels of their access point, and lose what they got    *)
(* from another one before.                                                *)
LEMMA ApLabelsHarmless ==
  ASSUME NEW S \in Present, NEW r \in Registry(S), NEW w \in Associations
  PROVE  SyncClientsToApLabels(r, w) \in Registry(S) /\ Harmless(r, SyncClientsToApLabels(r, w))
  <1> DEFINE new == SyncClientsToApLabels(r, w)
             Follow == Associated(r, w)
  <1>1. Devices(r) = S /\ Hub \in S /\ Hub \notin Client
    BY OrganizationAssumption DEF Registry, Devices, Present
  <1>2. \A c \in Follow : c \in Client \cap S /\ ApOf(r, w, c) = w[c] /\ w[c] \in S \ Client
    BY AssociatedAp
  <1>3. /\ r.labels \in [S -> SUBSET Label] /\ r.memory \in [Client -> SUBSET Label]
        /\ r.area \in [S -> Area \cup {None}]
    BY DEF Registry
  <1>4. new = [area |-> r.area,
               labels |-> [d \in S |-> IF d \in Follow THEN ClientLabels(r, w, d, r.labels[d])
                                       ELSE r.labels[d]],
               memory |-> [c \in Client |-> IF c \in Follow THEN r.labels[ApOf(r, w, c)]
                                            ELSE r.memory[c]]]
    <2> DEFINE f == [d \in S |-> IF d \in Follow THEN ClientLabels(r, w, d, r.labels[d])
                                 ELSE r.labels[d]]
               g == [c \in Client |-> IF c \in Follow THEN r.labels[ApOf(r, w, c)]
                                      ELSE r.memory[c]]
    <2>1. new = [r EXCEPT !.labels = f, !.memory = g]
      BY <1>1 DEF SyncClientsToApLabels
    <2> HIDE DEF f, g, new
    <2>2. new = [area |-> r.area, labels |-> f, memory |-> g]
      BY <2>1 DEF Registry
    <2> QED
      BY <2>2 DEF f, g
  <1> HIDE DEF new, Follow
  <1>5. \A d \in Follow : ClientLabels(r, w, d, r.labels[d])
            = (r.labels[d] \cup r.labels[w[d]]) \ (r.memory[d] \ r.labels[w[d]])
    BY <1>2 DEF ClientLabels
  <1>6. /\ new \in Registry(S)
        /\ new.area = r.area
        /\ new.labels \in [S -> SUBSET Label] /\ new.memory \in [Client -> SUBSET Label]
        /\ \A d \in S \ Follow : new.labels[d] = r.labels[d]
        /\ \A d \in Follow :
             new.labels[d] = (r.labels[d] \cup r.labels[w[d]]) \ (r.memory[d] \ r.labels[w[d]])
        /\ \A c \in Follow : new.memory[c] = r.labels[w[c]]
        /\ \A c \in Client \ Follow : new.memory[c] = r.memory[c]
    <2>1. \A d \in Follow : ClientLabels(r, w, d, r.labels[d]) \in SUBSET Label
      BY <1>2, <1>3, <1>5
    <2>2. \A d \in Follow : r.labels[ApOf(r, w, d)] \in SUBSET Label
      BY <1>2, <1>3
    <2>3. new \in Registry(S)
      BY <1>3, <1>4, <2>1, <2>2 DEF Registry
    <2> QED
      BY <2>3, <1>2, <1>4, <1>5 DEF Registry
  <1>7. Devices(new) = S
    BY <1>6 DEF Devices
  <1>8. KeepsClientLabels(r, new)
    <2> SUFFICES ASSUME NEW l \in Label, OnClientsOnly(r, l)
                 PROVE  /\ OnClientsOnly(new, l)
                        /\ \A c \in Client \cap S : l \in r.labels[c] => l \in new.labels[c]
      BY <1>1 DEF KeepsClientLabels
    <2>1. \A d \in S \ Client : l \notin new.labels[d]
      BY <1>1, <1>2, <1>6 DEF OnClientsOnly
    <2>2. \A c \in Client : l \notin new.memory[c]
      BY <1>1, <1>2, <1>6 DEF OnClientsOnly
    <2>3. \A c \in Client \cap S : l \in r.labels[c] => l \in new.labels[c]
      BY <1>1, <1>2, <1>6 DEF OnClientsOnly
    <2> QED
      BY <2>1, <2>2, <2>3, <1>7 DEF OnClientsOnly
  <1>9. KeepsApLabels(r, new)
    <2> SUFFICES ASSUME NEW l \in Label, NEW traced \in [Client -> SUBSET Label], FromAps(r, traced, l)
                 PROVE  FromAps(new, traced, l)
      BY DEF KeepsApLabels
    <2>1. l \notin new.labels[Hub]
      BY <1>1, <1>2, <1>6 DEF FromAps
    <2>2. \A c \in Client \cap S : l \in new.labels[c] => l \in new.memory[c] \cup traced[c]
      BY <1>1, <1>2, <1>6 DEF FromAps
    <2> QED
      BY <2>1, <2>2, <1>7 DEF FromAps
  <1>10. KeepsAreas(r, new)
    BY <1>1, <1>6, <1>7 DEF KeepsAreas, Elsewhere
  <1> QED
    BY <1>6, <1>8, <1>9, <1>10 DEF Harmless, new

(* An operation that depends on a setting.                                 *)
LEMMA IfHarmless ==
  ASSUME NEW S \in Present, NEW r \in Registry(S), NEW q \in Registry(S), NEW p \in Registry(S),
         Harmless(r, q), Harmless(q, p), NEW condition \in BOOLEAN
  PROVE  If(condition, p, q) \in Registry(S) /\ Harmless(r, If(condition, p, q))
  <1>1. Harmless(r, p)
    BY HarmlessTransitive
  <1> QED
    BY <1>1 DEF If

(* An operation on areas only, in which private areas take no part.        *)
LEMMA AreasHarmless ==
  ASSUME NEW S \in Present, NEW r \in Registry(S), NEW new \in Registry(S),
         new.labels = r.labels, new.memory = r.memory,
         \A a \in Area : Private(a) /\ Elsewhere(r, a) =>
           \A d \in S : new.area[d] = a <=> r.area[d] = a
  PROVE  Harmless(r, new)
  <1>1. Devices(r) = S /\ Devices(new) = S
    BY DEF Registry, Devices
  <1>2. KeepsClientLabels(r, new)
    BY <1>1 DEF KeepsClientLabels, OnClientsOnly
  <1>3. KeepsApLabels(r, new)
    BY <1>1 DEF KeepsApLabels, FromAps
  <1>4. KeepsAreas(r, new)
    BY <1>1 DEF KeepsAreas, Elsewhere
  <1> QED
    BY <1>2, <1>3, <1>4 DEF Harmless

(* Clients go to the area of their access point.                           *)
LEMMA ApAreasHarmless ==
  ASSUME NEW S \in Present, NEW r \in Registry(S), NEW w \in Associations,
         NEW fallback \in Area \cup {None}, \A a \in Area : Private(a) => fallback # a
  PROVE  /\ SyncClientsToApAreas(r, w, fallback) \in Registry(S)
         /\ Harmless(r, SyncClientsToApAreas(r, w, fallback))
  <1> DEFINE new == SyncClientsToApAreas(r, w, fallback)
             Follow == Associated(r, w)
             f == [d \in S |-> IF /\ d \in Follow /\ r.area[ApOf(r, w, d)] # None
                                  /\ r.area[d] \in {None, fallback}
                               THEN r.area[ApOf(r, w, d)] ELSE r.area[d]]
  <1>1. Devices(r) = S
    BY DEF Registry, Devices
  <1>2. \A c \in Follow : c \in Client \cap S /\ ApOf(r, w, c) = w[c] /\ w[c] \in S \ Client
    BY AssociatedAp
  <1>3. new = [r EXCEPT !.area = f]
    BY <1>1 DEF SyncClientsToApAreas
  <1> HIDE DEF new, Follow
  <1>4. f \in [S -> Area \cup {None}]
    BY <1>2 DEF Registry
  <1>5. \A a \in Area : Private(a) /\ Elsewhere(r, a) => \A d \in S : f[d] = a <=> r.area[d] = a
    BY <1>1, <1>2, OrganizationAssumption DEF Elsewhere
  <1> HIDE DEF f
  <1>6. new \in Registry(S) /\ new.area = f /\ new.labels = r.labels /\ new.memory = r.memory
    BY <1>3, <1>4 DEF Registry
  <1>7. Harmless(r, new)
    BY <1>5, <1>6, AreasHarmless
  <1> QED
    BY <1>6, <1>7 DEF new

-----------------------------------------------------------------------------
(* _apply_existing_devices.                                                *)
LEMMA ExistingHarmless ==
  ASSUME NEW S \in Present, NEW r \in Registry(S), NEW w \in Associations, NEW s \in Possible
  PROVE  ApplyExistingDevices(s, r, w) \in Registry(S) /\ Harmless(r, ApplyExistingDevices(s, r, w))
  <1> DEFINE home == ConfiguredArea(s)
             labelled == AddLabel(r, r.labels, ConfiguredLabel(s))
             f == [d \in S |-> IF labelled.area[d] = None /\ (d = Hub \/ s.inherit)
                               THEN home ELSE labelled.area[d]]
             housed == [labelled EXCEPT !.area = f]
             areas == If(s.areaOfAp, SyncClientsToApAreas(housed, w, None), housed)
             ofHub == If(s.labelsOfHub, SyncDevicesToHubLabels(areas), areas)
             ofAp == If(s.labelsOfAp, SyncClientsToApLabels(ofHub, w), ofHub)
  <1>1. Devices(r) = S
    BY DEF Registry, Devices
  <1>2. s.areaOfAp \in BOOLEAN /\ s.labelsOfHub \in BOOLEAN /\ s.labelsOfAp \in BOOLEAN
    BY DEF Possible, Settings
  <1>3. ApplyExistingDevices(s, r, w) = ofAp
    <2>1. Assigned(s, r) = housed
      BY <1>1 DEF Assigned
    <2> HIDE DEF housed
    <2> QED
      BY <2>1 DEF ApplyExistingDevices
  <1>4. labelled \in Registry(S) /\ Harmless(r, labelled)
    BY LabelConfigured, AddLabelHarmless
  <1>5. home \in Area \cup {None} /\ \A a \in Area : Private(a) => home # a
    BY AreaConfigured
  <1> HIDE DEF labelled, home
  <1>6. f \in [S -> Area \cup {None}]
    BY <1>4, <1>5 DEF Registry
  <1>7. \A a \in Area : Private(a) => \A d \in S : f[d] = a <=> labelled.area[d] = a
    BY <1>5, OrganizationAssumption
  <1> HIDE DEF f
  <1>8. /\ housed \in Registry(S)
        /\ housed.area = f /\ housed.labels = labelled.labels /\ housed.memory = labelled.memory
    BY <1>4, <1>6 DEF Registry
  <1> HIDE DEF housed
  <1>9. Harmless(r, housed)
    <2>1. Harmless(labelled, housed)
      BY <1>4, <1>7, <1>8, AreasHarmless
    <2> QED
      BY <1>4, <1>8, <2>1, HarmlessTransitive
  <1>10. areas \in Registry(S) /\ Harmless(r, areas)
    BY <1>2, <1>8, <1>9, ApAreasHarmless, IfHarmless, OrganizationAssumption
  <1> HIDE DEF areas
  <1>11. ofHub \in Registry(S) /\ Harmless(r, ofHub)
    BY <1>2, <1>10, HubLabelsHarmless, IfHarmless
  <1> HIDE DEF ofHub
  <1>12. ofAp \in Registry(S) /\ Harmless(r, ofAp)
    BY <1>2, <1>11, ApLabelsHarmless, IfHarmless
  <1> QED
    BY <1>3, <1>12

(* Devices follow the hub to another configured area.                      *)
LEMMA RehousedHarmless ==
  ASSUME NEW S \in Present, NEW r \in Registry(S), NEW old \in Possible, NEW s \in Possible
  PROVE  RehousedDevices(old, s, r) \in Registry(S) /\ Harmless(r, RehousedDevices(old, s, r))
  <1> DEFINE from == ConfiguredArea(old)
             to == ConfiguredArea(s)
             Moves(d) == \/ d = Hub /\ r.area[d] \in {None, from}
                         \/ d # Hub /\ s.inherit /\ r.area[d] = None
                         \/ d # Hub /\ s.inherit /\ s.move /\ from # to /\ r.area[d] = from
             f == [d \in S |-> IF to # None /\ Moves(d) THEN to ELSE r.area[d]]
             new == RehousedDevices(old, s, r)
  <1>1. Devices(r) = S
    BY DEF Registry, Devices
  <1>2. /\ from \in Area \cup {None} /\ to \in Area \cup {None}
        /\ \A a \in Area : Private(a) => from # a /\ to # a
    BY AreaConfigured
  <1>3. new = [r EXCEPT !.area = f]
    BY <1>1 DEF RehousedDevices
  <1> HIDE DEF new, from, to
  <1>4. f \in [S -> Area \cup {None}]
    BY <1>2 DEF Registry
  <1>5. \A d \in S : Moves(d) => r.area[d] \in {None, from}
    OBVIOUS
  <1>6. \A a \in Area : Private(a) => \A d \in S : f[d] = a <=> r.area[d] = a
    BY <1>2, <1>5, OrganizationAssumption DEF Registry
  <1> HIDE DEF f
  <1>7. new \in Registry(S) /\ new.area = f /\ new.labels = r.labels /\ new.memory = r.memory
    BY <1>3, <1>4 DEF Registry
  <1>8. Harmless(r, new)
    BY <1>6, <1>7, AreasHarmless
  <1> QED
    BY <1>7, <1>8 DEF new

(* reconfigure.                                                            *)
LEMMA ReconfiguredHarmless ==
  ASSUME NEW S \in Present, NEW r \in Registry(S), NEW w \in Associations,
         NEW old \in Possible, NEW s \in Possible
  PROVE  Reconfigured(old, s, r, w) \in Registry(S) /\ Harmless(r, Reconfigured(old, s, r, w))
  <1> DEFINE labelled == RelabelledHub(old, s, r)
             ofHub == If(s.labelsOfHub, SyncDevicesToHubLabels(labelled), labelled)
             ofAp == If(s.labelsOfAp, SyncClientsToApLabels(ofHub, w), ofHub)
             housed == RehousedDevices(old, s, ofAp)
             areas == If(s.areaOfAp, SyncClientsToApAreas(housed, w, ConfiguredArea(old)), housed)
  <1>1. Reconfigured(old, s, r, w) = areas
    BY DEF Reconfigured
  <1>2. s.areaOfAp \in BOOLEAN /\ s.labelsOfHub \in BOOLEAN /\ s.labelsOfAp \in BOOLEAN
    BY DEF Possible, Settings
  <1>3. labelled \in Registry(S) /\ Harmless(r, labelled)
    BY RelabelledHubHarmless
  <1> HIDE DEF labelled
  <1>4. ofHub \in Registry(S) /\ Harmless(r, ofHub)
    BY <1>2, <1>3, HubLabelsHarmless, IfHarmless
  <1> HIDE DEF ofHub
  <1>5. ofAp \in Registry(S) /\ Harmless(r, ofAp)
    BY <1>2, <1>4, ApLabelsHarmless, IfHarmless
  <1> HIDE DEF ofAp
  <1>6. housed \in Registry(S) /\ Harmless(r, housed)
    BY <1>5, RehousedHarmless, HarmlessTransitive
  <1> HIDE DEF housed
  <1>7. areas \in Registry(S) /\ Harmless(r, areas)
    BY <1>2, <1>6, AreaConfigured, ApAreasHarmless, IfHarmless
  <1> QED
    BY <1>1, <1>7

(* _apply_to_new_device, of a device that has no area and no labels yet.   *)
LEMMA NewDeviceHarmless ==
  ASSUME NEW S \in Present, NEW d \in S, NEW r \in Registry(S), NEW w \in Associations,
         NEW s \in Possible, r.area[d] = None, r.labels[d] = {}
  PROVE  ApplyToNewDevice(s, r, w, d) \in Registry(S) /\ Harmless(r, ApplyToNewDevice(s, r, w, d))
  <1> DEFINE new == ApplyToNewDevice(s, r, w, d)
             x == ConfiguredLabel(s)
             a == NewDeviceArea(s, r, w, d)
             l == NewDeviceLabels(s, r, w, d)
             m == IF s.labelsOfAp /\ d \in Associated(r, w)
                  THEN [r.memory EXCEPT ![d] = r.labels[ApOf(r, w, d)]] ELSE r.memory
             ofAp == s.labelsOfAp /\ d \in Associated(r, w)
  <1>1. Devices(r) = S /\ Hub \in S /\ Hub \notin Client
    BY OrganizationAssumption DEF Registry, Devices, Present
  <1>2. d \in Associated(r, w) => d \in Client /\ ApOf(r, w, d) = w[d] /\ w[d] \in S \ Client
    BY AssociatedAp
  <1>3. x \in Label \cup {None} /\ \A y \in Label : ClientOnly(y) \/ ApOnly(y) => x # y
    BY LabelConfigured
  <1>4. /\ ConfiguredArea(s) \in Area \cup {None}
        /\ \A b \in Area : Private(b) => ConfiguredArea(s) # b
    BY AreaConfigured
  <1>5. /\ r.labels \in [S -> SUBSET Label] /\ r.memory \in [Client -> SUBSET Label]
        /\ r.area \in [S -> Area \cup {None}]
    BY DEF Registry
  <1>6. a \in {None, ConfiguredArea(s)} \/ (d \in Associated(r, w) /\ a = r.area[w[d]])
    BY <1>2 DEF NewDeviceArea
  <1>7. ~ofAp => l \subseteq r.labels[Hub] \cup ({x} \ {None})
    <2>1. AddLabel(r, r.labels, x).labels[d] \subseteq {x} \ {None}
      BY <1>1, <1>5 DEF AddLabel, Registry
    <2> QED
      BY <1>1, <2>1 DEF NewDeviceLabels
  <1>8. ofAp => l \subseteq r.labels[Hub] \cup ({x} \ {None}) \cup r.labels[w[d]]
    <2>1. AddLabel(r, r.labels, x).labels[d] \subseteq {x} \ {None}
      BY <1>1, <1>5 DEF AddLabel, Registry
    <2> QED
      BY <1>1, <1>2, <2>1 DEF NewDeviceLabels, ClientLabels
  <1> HIDE DEF x, a, l
  <1>9. a \in Area \cup {None} /\ l \in SUBSET Label
    BY <1>1, <1>2, <1>3, <1>4, <1>5, <1>6, <1>7, <1>8
  <1>10. m \in [Client -> SUBSET Label]
    BY <1>2, <1>5
  <1>11. /\ new \in Registry(S)
         /\ new.area = [r.area EXCEPT ![d] = a] /\ new.labels = [r.labels EXCEPT ![d] = l]
         /\ new.memory = m
    BY <1>5, <1>9, <1>10 DEF ApplyToNewDevice, Registry, a, l
  <1> HIDE DEF new
  <1>12. Devices(new) = S
    BY <1>11 DEF Registry, Devices
  <1>13. KeepsClientLabels(r, new)
    <2> SUFFICES ASSUME NEW y \in Label, ClientOnly(y), OnClientsOnly(r, y)
                 PROVE  /\ OnClientsOnly(new, y)
                        /\ \A c \in Client \cap S : y \in r.labels[c] => y \in new.labels[c]
      BY <1>1 DEF KeepsClientLabels
    <2>1. \A e \in S \ Client : y \notin r.labels[e]
      BY <1>1 DEF OnClientsOnly
    <2>2. \A c \in Client : y \notin r.memory[c]
      BY DEF OnClientsOnly
    <2>3. d \notin Client => y \notin l
      BY <1>1, <1>2, <1>3, <1>7, <2>1
    <2>4. \A e \in S \ Client : y \notin new.labels[e]
      BY <1>5, <1>11, <2>1, <2>3
    <2>5. \A c \in Client : y \notin new.memory[c]
      BY <1>2, <1>5, <1>11, <2>1, <2>2
    <2>6. \A c \in Client \cap S : y \in r.labels[c] => y \in new.labels[c]
      BY <1>5, <1>11
    <2> QED
      BY <1>12, <2>4, <2>5, <2>6 DEF OnClientsOnly
  <1>14. KeepsApLabels(r, new)
    <2> SUFFICES ASSUME NEW y \in Label, NEW traced \in [Client -> SUBSET Label], ApOnly(y),
                        FromAps(r, traced, y)
                 PROVE  FromAps(new, traced, y)
      BY DEF KeepsApLabels
    <2>1. y \notin r.labels[Hub]
      BY DEF FromAps
    <2>2. \A c \in Client \cap S : y \in r.labels[c] => y \in r.memory[c] \cup traced[c]
      BY <1>1 DEF FromAps
    <2>3. d = Hub => y \notin l
      BY <1>1, <1>2, <1>3, <1>7, <2>1
    <2>4. y \notin new.labels[Hub]
      BY <1>1, <1>5, <1>11, <2>1, <2>3
    <2>5. d \in Client /\ y \in l => y \in new.memory[d]
      BY <1>2, <1>3, <1>5, <1>7, <1>8, <1>11, <2>1
    <2>6. \A c \in (Client \cap S) \ {d} : new.labels[c] = r.labels[c] /\ new.memory[c] = r.memory[c]
      BY <1>2, <1>5, <1>11
    <2>7. d \in Client /\ y \in new.labels[d] => y \in l
      BY <1>5, <1>11
    <2>8. \A c \in Client \cap S : y \in new.labels[c] => y \in new.memory[c] \cup traced[c]
      BY <2>2, <2>5, <2>6, <2>7
    <2> QED
      BY <1>12, <2>4, <2>8 DEF FromAps
  <1>15. KeepsAreas(r, new)
    <2> SUFFICES ASSUME NEW b \in Area, Private(b), Elsewhere(r, b)
                 PROVE  /\ Elsewhere(new, b)
                        /\ \A c \in Client \cap S : r.area[c] = b => new.area[c] = b
      BY <1>1 DEF KeepsAreas
    <2>1. \A e \in S \ Client : r.area[e] # b
      BY <1>1 DEF Elsewhere
    <2>2. a # b
      BY <1>2, <1>4, <1>6, <2>1, OrganizationAssumption
    <2>3. \A e \in S \ Client : new.area[e] # b
      BY <1>5, <1>11, <2>1, <2>2
    <2>4. \A c \in Client \cap S : r.area[c] = b => new.area[c] = b
      BY <1>5, <1>11, OrganizationAssumption
    <2> QED
      BY <1>12, <2>3, <2>4 DEF Elsewhere
  <1> QED
    BY <1>11, <1>13, <1>14, <1>15 DEF Harmless, new

(* The devices follow the hub, which the user has moved.                   *)
LEMMA HubAreaMoveHarmless ==
  ASSUME NEW S \in Present, NEW r \in Registry(S), NEW s \in Possible,
         NEW before \in Area \cup {None}, \A a \in Area : Private(a) => before # a
  PROVE  HubAreaMove(s, r, before) \in Registry(S) /\ Harmless(r, HubAreaMove(s, r, before))
  <1> DEFINE new == HubAreaMove(s, r, before)
             f == [d \in S |-> IF /\ InAreaMode(s) /\ s.inherit /\ s.move
                                  /\ d # Hub /\ r.area[d] \in {None, before}
                               THEN r.area[Hub] ELSE r.area[d]]
  <1>1. Devices(r) = S /\ Hub \in S /\ Hub \notin Client
    BY OrganizationAssumption DEF Registry, Devices, Present
  <1>2. new = [r EXCEPT !.area = f]
    BY <1>1 DEF HubAreaMove
  <1> HIDE DEF new
  <1>3. f \in [S -> Area \cup {None}]
    BY <1>1 DEF Registry
  <1>4. \A a \in Area : Private(a) /\ Elsewhere(r, a) => \A d \in S : f[d] = a <=> r.area[d] = a
    BY <1>1, OrganizationAssumption DEF Elsewhere
  <1> HIDE DEF f
  <1>5. new \in Registry(S) /\ new.area = f /\ new.labels = r.labels /\ new.memory = r.memory
    BY <1>2, <1>3 DEF Registry
  <1>6. Harmless(r, new)
    BY <1>4, <1>5, AreasHarmless
  <1> QED
    BY <1>5, <1>6 DEF new

(* The clients of an access point follow it.                               *)
LEMMA ApAreaMoveHarmless ==
  ASSUME NEW S \in Present, NEW r \in Registry(S), NEW s \in Possible, NEW w \in Associations,
         NEW x \in S \cap Ap,
         NEW before \in Area \cup {None}, \A a \in Area : Private(a) => before # a
  PROVE  ApAreaMove(s, r, w, x, before) \in Registry(S) /\ Harmless(r, ApAreaMove(s, r, w, x, before))
  <1> DEFINE new == ApAreaMove(s, r, w, x, before)
             f == [d \in S |-> IF /\ s.areaOfAp /\ d \in ClientsOf(r, w, x)
                                  /\ r.area[d] \in {None, before, ConfiguredArea(s)}
                               THEN r.area[x] ELSE r.area[d]]
  <1>1. Devices(r) = S /\ x \in S /\ x \notin Client
    BY OrganizationAssumption DEF Registry, Devices, Present
  <1>2. new = [r EXCEPT !.area = f]
    BY <1>1 DEF ApAreaMove
  <1> HIDE DEF new
  <1>3. f \in [S -> Area \cup {None}]
    BY <1>1 DEF Registry
  <1>4. \A a \in Area : Private(a) /\ Elsewhere(r, a) => \A d \in S : f[d] = a <=> r.area[d] = a
    BY <1>1, AreaConfigured, OrganizationAssumption DEF Elsewhere
  <1> HIDE DEF f
  <1>5. new \in Registry(S) /\ new.area = f /\ new.labels = r.labels /\ new.memory = r.memory
    BY <1>2, <1>3 DEF Registry
  <1>6. Harmless(r, new)
    BY <1>4, <1>5, AreasHarmless
  <1> QED
    BY <1>5, <1>6 DEF new

(* The devices follow the hub, whose labels the user has changed.          *)
LEMMA HubLabelChangeHarmless ==
  ASSUME NEW S \in Present, NEW r \in Registry(S), NEW s \in Possible, NEW before \in SUBSET Label,
         \A l \in Label : ClientOnly(l) \/ ApOnly(l) => l \notin before
  PROVE  HubLabelChange(s, r, before) \in Registry(S) /\ Harmless(r, HubLabelChange(s, r, before))
  <1> DEFINE new == HubLabelChange(s, r, before)
  <1>1. Devices(r) = S /\ Hub \in S /\ Hub \notin Client
    BY OrganizationAssumption DEF Registry, Devices, Present
  <1>2. CASE ~s.labelsOfHub
    BY <1>2, HarmlessReflexive DEF HubLabelChange
  <1>3. CASE s.labelsOfHub
    <2>1. /\ new \in Registry(S) /\ new.area = r.area /\ new.memory = r.memory
          /\ new.labels = [d \in S |->
               IF d = Hub THEN r.labels[d]
               ELSE (r.labels[d] \cup (r.labels[Hub] \ before)) \ (before \ r.labels[Hub])]
      BY <1>1, <1>3 DEF HubLabelChange, Registry
    <2>2. Devices(new) = S
      BY <2>1 DEF Devices
    <2> HIDE DEF new
    <2>3. KeepsClientLabels(r, new)
      BY <1>1, <2>1, <2>2 DEF KeepsClientLabels, OnClientsOnly
    <2>4. KeepsApLabels(r, new)
      BY <1>1, <2>1, <2>2 DEF KeepsApLabels, FromAps
    <2>5. KeepsAreas(r, new)
      BY <1>1, <2>1, <2>2 DEF KeepsAreas, Elsewhere
    <2> QED
      BY <2>1, <2>3, <2>4, <2>5 DEF Harmless, new
  <1> QED
    BY <1>2, <1>3

(* What the user has a right to, as of the registry r and the histories. *)

-----------------------------------------------------------------------------
(* What the user's choices o (labels of clients), p (areas of clients) and *)
(* the memories f that were lost require of the registry r.  It is the     *)
(* invariants of the module, for labels and areas that are no client's yet *)
(* as well: a label that only clients have is never in the memory, and no  *)
(* access point is in a private area.                                      *)
RespectsUser(r, o, p, f) ==
  /\ \A l \in Label : ClientOnly(l) =>
       /\ OnClientsOnly(r, l)
       /\ \A c \in Client \cap Devices(r) : l \in o[c] => l \in r.labels[c]
  /\ \A l \in Label : ApOnly(l) => FromAps(r, [c \in Client |-> o[c] \cup f[c]], l)
  /\ \A a \in Area : Private(a) =>
       /\ Elsewhere(r, a)
       /\ \A c \in Client \cap Devices(r) : p[c] = a => r.area[c] = a
  /\ \A c \in Client \ Devices(r) : o[c] = {} /\ p[c] = None

(* The inductive invariant.                                                *)
OrganizationInv ==
  /\ OrganizationTypeOK
  /\ settings \in Possible
  /\ RespectsUser(Now, own, placed, forgotten)

(* The registry as it is.                                                  *)
LEMMA NowRegistry ==
  ASSUME OrganizationTypeOK
  PROVE  DOMAIN labels \in Present /\ Now \in Registry(DOMAIN labels)
  BY DEF OrganizationTypeOK, Present, Registry, Now

(* What a handler returns is the registry that results.                    *)
LEMMA Becoming ==
  ASSUME NEW S \in Present, NEW r \in Registry(S), Becomes(r)
  PROVE  /\ Now' = r
         /\ Hub \in DOMAIN labels' /\ DOMAIN labels' \subseteq Device
         /\ area' \in [DOMAIN labels' -> Area \cup {None}]
         /\ labels' \in [DOMAIN labels' -> SUBSET Label]
         /\ memory' \in [Client -> SUBSET Label]
  BY DEF Becomes, Registry, Present, Now

(* What is harmless keeps to the user's choices.                           *)
LEMMA HarmlessRespects ==
  ASSUME NEW S \in Present, NEW r \in Registry(S), NEW new \in Registry(S), Harmless(r, new),
         NEW o \in [Client -> SUBSET Label], NEW p, NEW f \in [Client -> SUBSET Label],
         RespectsUser(r, o, p, f)
  PROVE  RespectsUser(new, o, p, f)
  <1>1. Devices(r) = S /\ Devices(new) = S
    BY DEF Registry, Devices
  <1>2. ASSUME NEW l \in Label, ClientOnly(l)
        PROVE  /\ OnClientsOnly(new, l)
               /\ \A c \in Client \cap S : l \in o[c] => l \in new.labels[c]
    BY <1>1, <1>2 DEF Harmless, KeepsClientLabels, RespectsUser
  <1>3. ASSUME NEW l \in Label, ApOnly(l)
        PROVE  FromAps(new, [c \in Client |-> o[c] \cup f[c]], l)
    <2> DEFINE traced == [c \in Client |-> o[c] \cup f[c]]
    <2>1. traced \in [Client -> SUBSET Label] /\ FromAps(r, traced, l)
      BY <1>3 DEF RespectsUser
    <2> QED
      BY <1>3, <2>1 DEF Harmless, KeepsApLabels
  <1>4. ASSUME NEW a \in Area, Private(a)
        PROVE  /\ Elsewhere(new, a)
               /\ \A c \in Client \cap S : p[c] = a => new.area[c] = a
    BY <1>1, <1>4 DEF Harmless, KeepsAreas, RespectsUser
  <1>5. \A c \in Client \ S : o[c] = {} /\ p[c] = None
    BY <1>1 DEF RespectsUser
  <1> QED
    BY <1>1, <1>2, <1>3, <1>4, <1>5 DEF RespectsUser

(* Nothing is left to be removed.                                          *)

-----------------------------------------------------------------------------
(* Nothing is left to be removed.                                          *)
LEMMA CleanAlready ==
  ASSUME NEW s \in Settings,
         InAreaMode(s) \/ (s.area = None /\ ~s.inherit /\ ~s.move /\ ~s.areaOfAp),
         InLabelMode(s) \/ (s.label = None /\ ~s.labelsOfAp /\ ~s.labelsOfHub)
  PROVE  Clean(s) = s
  <1>1. /\ s.inherit \in BOOLEAN /\ s.move \in BOOLEAN /\ s.areaOfAp \in BOOLEAN
        /\ s.labelsOfAp \in BOOLEAN /\ s.labelsOfHub \in BOOLEAN
    BY DEF Settings
  <1>2. /\ (s.inherit /\ InAreaMode(s)) = s.inherit
        /\ (s.move /\ InAreaMode(s)) = s.move
        /\ (s.areaOfAp /\ InAreaMode(s)) = s.areaOfAp
        /\ (s.labelsOfAp /\ InLabelMode(s)) = s.labelsOfAp
        /\ (s.labelsOfHub /\ InLabelMode(s)) = s.labelsOfHub
    BY <1>1
  <1>3. /\ (IF InAreaMode(s) THEN s.area ELSE None) = s.area
        /\ (IF InLabelMode(s) THEN s.label ELSE None) = s.label
    OBVIOUS
  <1>4. Clean(s) = [s EXCEPT !.area = s.area, !.inherit = s.inherit, !.move = s.move,
                             !.areaOfAp = s.areaOfAp, !.label = s.label,
                             !.labelsOfAp = s.labelsOfAp, !.labelsOfHub = s.labelsOfHub]
    BY <1>2, <1>3, Zenon DEF Clean
  <1> QED
    BY <1>4 DEF Settings

(* The flow removes what does not apply, and nothing after that.           *)
LEMMA CleanPossible ==
  ASSUME NEW s \in Setting
  PROVE  Clean(s) \in Possible /\ Clean(Clean(s)) = Clean(s)
  <1>1. s \in Settings
    BY OrganizationAssumption
  <1>2. Clean(s) \in Settings /\ Clean(s).mode = s.mode
        /\ Clean(s).area \in {s.area, None} /\ Clean(s).label \in {s.label, None}
    BY <1>1 DEF Clean, Settings
  <1>3. Clean(Clean(s)) = Clean(s)
    <2> DEFINE q == Clean(s)
    <2>1. InAreaMode(q) = InAreaMode(s) /\ InLabelMode(q) = InLabelMode(s)
      BY <1>2 DEF InAreaMode, InLabelMode
    <2>2. /\ q.inherit = (s.inherit /\ InAreaMode(s)) /\ q.move = (s.move /\ InAreaMode(s))
          /\ q.areaOfAp = (s.areaOfAp /\ InAreaMode(s))
          /\ q.labelsOfAp = (s.labelsOfAp /\ InLabelMode(s))
          /\ q.labelsOfHub = (s.labelsOfHub /\ InLabelMode(s))
          /\ q.area = (IF InAreaMode(s) THEN s.area ELSE None)
          /\ q.label = (IF InLabelMode(s) THEN s.label ELSE None)
      BY <1>1 DEF Clean, Settings
    <2>3. q \in Settings
      BY <1>2
    <2> HIDE DEF q
    <2>4. Clean(q) = q
      BY <2>1, <2>2, <2>3, CleanAlready
    <2> QED
      BY <2>4 DEF q
  <1> QED
    BY <1>2, <1>3 DEF Possible

(* The user's choice of an area for the hub is a setting there can be.     *)
LEMMA HubAreaPossible ==
  ASSUME NEW s \in Possible, s = Clean(s), NEW a \in AreasFor[Hub]
  PROVE  HubAreaSettings(s, a) \in Possible /\ Clean(HubAreaSettings(s, a)) = HubAreaSettings(s, a)
  <1>1. s \in Settings /\ a \in Area \cup {None}
    BY OrganizationAssumption DEF Possible, Device
  <1>2. CASE InAreaMode(s)
    <2> DEFINE q == [s EXCEPT !.area = a]
    <2>1. q \in Settings /\ q.area = a /\ q.label = s.label /\ q.mode = s.mode
      BY <1>1 DEF Settings
    <2>2. Clean(q) = q
      BY <1>1, <1>2 DEF Clean, Settings, InAreaMode, InLabelMode
    <2> QED
      BY <1>2, <2>1, <2>2 DEF HubAreaSettings, Possible
  <1>3. CASE ~InAreaMode(s)
    BY <1>3 DEF HubAreaSettings
  <1> QED
    BY <1>2, <1>3

-----------------------------------------------------------------------------
(* The initial states.                                                     *)
LEMMA InitOrganizationInv == OrganizationInit => OrganizationInv
  <1> SUFFICES ASSUME OrganizationInit PROVE OrganizationInv
    OBVIOUS
  <1>1. settings \in Possible /\ settings = Clean(settings)
    BY CleanPossible DEF OrganizationInit
  <1>2. OrganizationTypeOK
    <2>1. settings \in Settings
      BY <1>1 DEF Possible
    <2>2. DOMAIN labels = {Hub}
      BY DEF OrganizationInit
    <2>3. area \in [{Hub} -> Area \cup {None}] /\ labels \in [{Hub} -> SUBSET Label]
      BY DEF OrganizationInit
    <2>4. ap \in Associations /\ placed \in [Client -> Area \cup {None}]
      BY DEF OrganizationInit, Associations, Nobody
    <2>5. /\ memory \in [Client -> SUBSET Label] /\ own \in [Client -> SUBSET Label]
          /\ forgotten \in [Client -> SUBSET Label]
      BY DEF OrganizationInit
    <2>6. edits \in 0 .. MaxEdits
      <3>1. MaxEdits \in Nat /\ edits = 0
        BY OrganizationAssumption DEF OrganizationInit
      <3> QED
        BY <3>1
    <2>8. running \in BOOLEAN
      BY DEF OrganizationInit
    <2>7. Hub \in {Hub} /\ {Hub} \subseteq Device
      BY DEF Device
    <2> QED
      BY <1>1, <2>1, <2>2, <2>3, <2>4, <2>5, <2>6, <2>7, <2>8, Zenon
           DEF OrganizationTypeOK
  <1>3. RespectsUser(Now, own, placed, forgotten)
    BY OrganizationAssumption
       DEF OrganizationInit, RespectsUser, Now, Devices, OnClientsOnly, FromAps, Elsewhere, Nobody
  <1> QED
    BY <1>1, <1>2, <1>3 DEF OrganizationInv

(* A step that changes the registry in a harmless way.                     *)
LEMMA HarmlessStep ==
  ASSUME OrganizationInv, NEW new \in Registry(DOMAIN labels), Harmless(Now, new), Becomes(new),
         settings' \in Possible, settings' = Clean(settings'), running' \in BOOLEAN,
         ap' \in Associations, edits' \in 0 .. MaxEdits, UNCHANGED <<own, placed, forgotten>>
  PROVE  OrganizationInv'
  <1>1. DOMAIN labels \in Present /\ Now \in Registry(DOMAIN labels)
    BY NowRegistry DEF OrganizationInv
  <1>2. own \in [Client -> SUBSET Label] /\ forgotten \in [Client -> SUBSET Label]
    BY DEF OrganizationInv, OrganizationTypeOK
  <1>3. RespectsUser(new, own, placed, forgotten)
    BY <1>1, <1>2, HarmlessRespects DEF OrganizationInv
  <1>4. /\ Now' = new
        /\ Hub \in DOMAIN labels' /\ DOMAIN labels' \subseteq Device
        /\ area' \in [DOMAIN labels' -> Area \cup {None}]
        /\ labels' \in [DOMAIN labels' -> SUBSET Label]
        /\ memory' \in [Client -> SUBSET Label]
    BY <1>1, Becoming
  <1>5. OrganizationTypeOK'
    BY <1>4 DEF OrganizationInv, OrganizationTypeOK, Possible
  <1>6. RespectsUser(Now, own, placed, forgotten)'
    <2>1. RespectsUser(Now', own', placed', forgotten')
      BY <1>3, <1>4
    <2> QED
      BY <2>1 DEF RespectsUser, OnClientsOnly, FromAps, Elsewhere, Devices, Now, ClientOnly, ApOnly, Private
  <1> QED
    BY <1>5, <1>6 DEF OrganizationInv

(* A new manager.                                                          *)
LEMMA SetupStep ==
  ASSUME OrganizationInv, Setup
  PROVE  OrganizationInv'
  <1>1. DOMAIN labels \in Present /\ Now \in Registry(DOMAIN labels)
    BY NowRegistry DEF OrganizationInv
  <1>2. settings \in Possible /\ ap' \in Associations
    BY DEF OrganizationInv, Setup
  <1> DEFINE new == ApplyExistingDevices(settings, Now, ap')
  <1>3. new \in Registry(DOMAIN labels) /\ Harmless(Now, new)
    BY <1>1, <1>2, ExistingHarmless
  <1>4. Becomes(new) /\ running' \in BOOLEAN /\ UNCHANGED <<settings, edits, own, placed, forgotten>>
    BY DEF Setup
  <1>5. /\ settings' \in Possible /\ settings' = Clean(settings') /\ edits' \in 0 .. MaxEdits
        /\ UNCHANGED <<own, placed, forgotten>>
    BY <1>2, <1>4 DEF OrganizationInv, OrganizationTypeOK, Clean, InAreaMode, InLabelMode
  <1> HIDE DEF new
  <1> QED
    BY <1>2, <1>3, <1>4, <1>5, HarmlessStep

(* A poll.                                                                 *)
LEMMA CoordinatorUpdateStep ==
  ASSUME OrganizationInv, CoordinatorUpdate
  PROVE  OrganizationInv'
  <1>1. DOMAIN labels \in Present /\ Now \in Registry(DOMAIN labels)
    BY NowRegistry DEF OrganizationInv
  <1>2. settings \in Possible /\ ap' \in Associations
    BY DEF OrganizationInv, CoordinatorUpdate
  <1> DEFINE new == If(settings.labelsOfAp, SyncClientsToApLabels(Now, ap'), Now)
  <1>3. new \in Registry(DOMAIN labels) /\ Harmless(Now, new)
    BY <1>1, <1>2, ApLabelsHarmless, HarmlessReflexive DEF If
  <1>4. Becomes(new) /\ running' \in BOOLEAN /\ UNCHANGED <<settings, edits, own, placed, forgotten>>
    BY DEF CoordinatorUpdate, OrganizationInv, OrganizationTypeOK
  <1>5. /\ settings' \in Possible /\ settings' = Clean(settings') /\ edits' \in 0 .. MaxEdits
        /\ UNCHANGED <<own, placed, forgotten>>
    BY <1>2, <1>4 DEF OrganizationInv, OrganizationTypeOK, Clean, InAreaMode, InLabelMode
  <1> HIDE DEF new
  <1> QED
    BY <1>2, <1>3, <1>4, <1>5, HarmlessStep

(* The config flow ends.                                                   *)
LEMMA ChangeSettingsStep ==
  ASSUME OrganizationInv, NEW s \in Setting, ChangeSettings(s)
  PROVE  OrganizationInv'
  <1>1. DOMAIN labels \in Present /\ Now \in Registry(DOMAIN labels)
    BY NowRegistry DEF OrganizationInv
  <1>2. settings \in Possible /\ ap \in Associations /\ running \in BOOLEAN /\ edits \in 0 .. MaxEdits
    BY DEF OrganizationInv, OrganizationTypeOK
  <1>3. Clean(s) \in Possible /\ Clean(s) = Clean(Clean(s))
    BY CleanPossible
  <1> DEFINE new == If(running, Reconfigured(settings, Clean(s), Now, ap), Now)
  <1>4. new \in Registry(DOMAIN labels) /\ Harmless(Now, new)
    BY <1>1, <1>2, <1>3, ReconfiguredHarmless, HarmlessReflexive DEF If
  <1>5. /\ Becomes(new) /\ settings' = Clean(s) /\ edits < MaxEdits /\ edits' = edits + 1
        /\ UNCHANGED <<running, ap, own, placed, forgotten>>
    BY DEF ChangeSettings
  <1>6. settings' \in Possible /\ settings' = Clean(settings')
    <2>1. Clean(settings') = Clean(Clean(s))
      BY <1>5 DEF Clean, InAreaMode, InLabelMode
    <2> QED
      BY <2>1, <1>3, <1>5
  <1>7. edits' \in 0 .. MaxEdits
    BY <1>2, <1>5, OrganizationAssumption
  <1> HIDE DEF new
  <1> QED
    BY <1>2, <1>4, <1>5, <1>6, <1>7, HarmlessStep

(* The manager's memory is lost.                                           *)
LEMMA StopStep ==
  ASSUME OrganizationInv, Stop
  PROVE  OrganizationInv'
  <1> DEFINE S == DOMAIN labels
             new == [Now EXCEPT !.memory = [c \in Client |-> {}]]
  <1>1. S \in Present /\ Now \in Registry(S)
    BY NowRegistry DEF OrganizationInv
  <1>2. /\ running' = FALSE /\ ap' = Nobody /\ memory' = [c \in Client |-> {}]
        /\ forgotten' = [c \in Client |-> forgotten[c] \cup memory[c]]
        /\ UNCHANGED <<settings, area, labels, edits, own, placed>>
    BY DEF Stop
  <1>3. OrganizationTypeOK /\ settings \in Possible /\ RespectsUser(Now, own, placed, forgotten)
    BY DEF OrganizationInv
  <1>4. OrganizationTypeOK'
    <2>1. ap' \in Associations
      BY <1>2 DEF Nobody, Associations
    <2>2. memory' \in [Client -> SUBSET Label] /\ forgotten' \in [Client -> SUBSET Label]
      BY <1>2, <1>3 DEF OrganizationTypeOK
    <2> QED
      BY <1>2, <1>3, <2>1, <2>2
           DEF OrganizationTypeOK, Clean, InAreaMode, InLabelMode
  <1>5. /\ Devices(Now) = S /\ Devices(Now') = S /\ Now'.labels = Now.labels /\ Now'.area = Now.area
        /\ Now'.memory = [c \in Client |-> {}] /\ Now.memory = memory
    BY <1>2 DEF Devices, Now
  <1>6. RespectsUser(Now', own', placed', forgotten')
    <2>1. \A l \in Label : ClientOnly(l) =>
            /\ OnClientsOnly(Now', l)
            /\ \A c \in Client \cap S : l \in own'[c] => l \in Now'.labels[c]
      BY <1>2, <1>3, <1>5 DEF RespectsUser, OnClientsOnly
    <2>2. \A l \in Label : ApOnly(l) =>
            FromAps(Now', [c \in Client |-> own'[c] \cup forgotten'[c]], l)
      BY <1>2, <1>3, <1>5 DEF RespectsUser, FromAps
    <2>3. \A a \in Area : Private(a) =>
            /\ Elsewhere(Now', a)
            /\ \A c \in Client \cap S : placed'[c] = a => Now'.area[c] = a
      BY <1>2, <1>3, <1>5 DEF RespectsUser, Elsewhere
    <2>4. \A c \in Client \ S : own'[c] = {} /\ placed'[c] = None
      BY <1>2, <1>3, <1>5 DEF RespectsUser
    <2> QED
      BY <1>5, <2>1, <2>2, <2>3, <2>4 DEF RespectsUser
  <1> QED
    BY <1>2, <1>3, <1>4, <1>6 DEF OrganizationInv, RespectsUser, OnClientsOnly, FromAps, Elsewhere,
            Devices, Now, ClientOnly, ApOnly, Private, Possible

(* A step into the registry r, with what else has its type.                *)
LEMMA RegistryStep ==
  ASSUME NEW S \in Present, NEW r \in Registry(S), Becomes(r),
         RespectsUser(r, own', placed', forgotten'),
         settings' \in Possible, settings' = Clean(settings'), running' \in BOOLEAN,
         ap' \in Associations, edits' \in 0 .. MaxEdits,
         own' \in [Client -> SUBSET Label], forgotten' \in [Client -> SUBSET Label],
         placed' \in [Client -> Area \cup {None}]
  PROVE  OrganizationInv'
  <1>1. /\ Now' = r
        /\ Hub \in DOMAIN labels' /\ DOMAIN labels' \subseteq Device
        /\ area' \in [DOMAIN labels' -> Area \cup {None}]
        /\ labels' \in [DOMAIN labels' -> SUBSET Label]
        /\ memory' \in [Client -> SUBSET Label]
    BY Becoming
  <1>2. settings' \in Settings
    BY DEF Possible
  <1>3. OrganizationTypeOK'
    BY <1>1, <1>2 DEF OrganizationTypeOK
  <1>4. RespectsUser(Now', own', placed', forgotten')
    BY <1>1
  <1> QED
    BY <1>3, <1>4 DEF OrganizationInv, RespectsUser, OnClientsOnly, FromAps, Elsewhere,
            Devices, Now, ClientOnly, ApOnly, Private, Possible

(* A device is created.                                                    *)
LEMMA CreateStep ==
  ASSUME OrganizationInv, NEW d \in Device, Create(d)
  PROVE  OrganizationInv'
  <1> DEFINE S == DOMAIN labels
             T == S \cup {d}
             added == [area   |-> [x \in T |-> IF x = d THEN None ELSE area[x]],
                       labels |-> [x \in T |-> IF x = d THEN {} ELSE labels[x]],
                       memory |-> memory]
             new == ApplyToNewDevice(settings, added, ap, d)
  <1>1. /\ S \in Present /\ Now \in Registry(S)
        /\ OrganizationTypeOK /\ settings \in Possible /\ RespectsUser(Now, own, placed, forgotten)
    BY NowRegistry DEF OrganizationInv
  <1>2. /\ d \notin S /\ Becomes(new)
        /\ UNCHANGED <<settings, running, ap, edits, own, placed, forgotten>>
    BY DEF Create
  <1>3. T \in Present /\ d \in T
    BY <1>1 DEF Present
  <1>4. added \in Registry(T) /\ added.area[d] = None /\ added.labels[d] = {}
    BY <1>1, <1>3 DEF Registry, OrganizationTypeOK
  <1>5. /\ Devices(Now) = S /\ Devices(added) = T /\ added.memory = Now.memory
        /\ \A x \in S : added.labels[x] = Now.labels[x] /\ added.area[x] = Now.area[x]
    BY <1>2 DEF Devices, Now
  <1>6. RespectsUser(added, own, placed, forgotten)
    <2> HIDE DEF added
    <2>1. (own[d] = {} /\ placed[d] = None) \/ d \notin Client
      BY <1>2, <1>1, <1>5 DEF RespectsUser
    <2>2. \A l \in Label : ClientOnly(l) =>
            /\ OnClientsOnly(added, l)
            /\ \A c \in Client \cap T : l \in own[c] => l \in added.labels[c]
      BY <1>1, <1>4, <1>5, <2>1 DEF RespectsUser, OnClientsOnly
    <2>3. \A l \in Label : ApOnly(l) => FromAps(added, [c \in Client |-> own[c] \cup forgotten[c]], l)
      <3> SUFFICES ASSUME NEW l \in Label, ApOnly(l)
                   PROVE  FromAps(added, [c \in Client |-> own[c] \cup forgotten[c]], l)
        OBVIOUS
      <3>1. FromAps(Now, [c \in Client |-> own[c] \cup forgotten[c]], l)
        BY <1>1 DEF RespectsUser
      <3>2. Hub \in S
        BY <1>1 DEF Present
      <3> QED
        BY <1>4, <1>5, <3>1, <3>2 DEF FromAps
    <2>4. \A a \in Area : Private(a) =>
            /\ Elsewhere(added, a)
            /\ \A c \in Client \cap T : placed[c] = a => added.area[c] = a
      BY <1>1, <1>4, <1>5, <2>1, OrganizationAssumption DEF RespectsUser, Elsewhere
    <2>5. \A c \in Client \ T : own[c] = {} /\ placed[c] = None
      BY <1>1, <1>5 DEF RespectsUser
    <2> QED
      BY <1>5, <2>2, <2>3, <2>4, <2>5 DEF RespectsUser
  <1> HIDE DEF added
  <1>7. ap \in Associations /\ running \in BOOLEAN /\ edits \in 0 .. MaxEdits /\ settings = Clean(settings)
        /\ own \in [Client -> SUBSET Label] /\ forgotten \in [Client -> SUBSET Label]
        /\ placed \in [Client -> Area \cup {None}]
    BY <1>1 DEF OrganizationTypeOK
  <1>8. new \in Registry(T) /\ Harmless(added, new)
    BY <1>1, <1>3, <1>4, <1>7, NewDeviceHarmless
  <1> HIDE DEF new
  <1>9. RespectsUser(new, own, placed, forgotten)
    BY <1>3, <1>4, <1>6, <1>7, <1>8, HarmlessRespects
  <1>10. RespectsUser(new, own', placed', forgotten')
    BY <1>2, <1>9
  <1>11. settings' = Clean(settings')
    BY <1>2, <1>7 DEF Clean, InAreaMode, InLabelMode
  <1> QED
    BY <1>1, <1>2, <1>3, <1>7, <1>8, <1>10, <1>11, RegistryStep

(* The user moves a device.                                                *)
LEMMA MoveDeviceStep ==
  ASSUME OrganizationInv, NEW d \in Device, NEW a \in Area \cup {None}, MoveDevice(d, a)
  PROVE  OrganizationInv'
  <1> DEFINE S == DOMAIN labels
             moved == [Now EXCEPT !.area[d] = a]
             new == CASE running /\ d = Hub   -> HubAreaMove(settings, moved, area[d])
                      [] running /\ d \in Ap  -> ApAreaMove(settings, moved, ap, d, area[d])
                      [] OTHER                -> moved
  <1>1. /\ S \in Present /\ Now \in Registry(S)
        /\ OrganizationTypeOK /\ settings \in Possible /\ RespectsUser(Now, own, placed, forgotten)
    BY NowRegistry DEF OrganizationInv
  <1>2. /\ edits < MaxEdits /\ edits' = edits + 1
        /\ d \in DOMAIN area /\ a \in AreasFor[d]
        /\ Becomes(new)
        /\ settings' = If(running /\ d = Hub, HubAreaSettings(settings, a), settings)
        /\ placed' = [c \in Client |-> IF c = d THEN a ELSE placed[c]]
        /\ UNCHANGED <<running, ap, own, forgotten>>
    BY DEF MoveDevice
  <1>3. ap \in Associations /\ running \in BOOLEAN /\ edits \in 0 .. MaxEdits /\ settings = Clean(settings)
        /\ own \in [Client -> SUBSET Label] /\ forgotten \in [Client -> SUBSET Label]
        /\ placed \in [Client -> Area \cup {None}] /\ DOMAIN area = S
        /\ area \in [S -> Area \cup {None}] /\ labels \in [S -> SUBSET Label]
        /\ memory \in [Client -> SUBSET Label]
    BY <1>1 DEF OrganizationTypeOK
  <1>4. /\ moved \in Registry(S) /\ moved.area = [area EXCEPT ![d] = a]
        /\ moved.labels = labels /\ moved.memory = memory
    BY <1>2, <1>3 DEF Now, Registry
  <1>5. /\ Devices(Now) = S /\ Devices(moved) = S /\ Now.labels = labels /\ Now.area = area
        /\ Now.memory = memory
    BY <1>4 DEF Devices, Now
  <1>6. placed' \in [Client -> Area \cup {None}]
    BY <1>2, <1>3
  <1>7. RespectsUser(moved, own, placed', forgotten)
    <2> HIDE DEF moved
    <2>1. \A l \in Label : ClientOnly(l) =>
            /\ OnClientsOnly(moved, l)
            /\ \A c \in Client \cap S : l \in own[c] => l \in moved.labels[c]
      BY <1>1, <1>4, <1>5 DEF RespectsUser, OnClientsOnly
    <2>2. \A l \in Label : ApOnly(l) => FromAps(moved, [c \in Client |-> own[c] \cup forgotten[c]], l)
      BY <1>1, <1>4, <1>5 DEF RespectsUser, FromAps
    <2>3. \A b \in Area : Private(b) =>
            /\ Elsewhere(moved, b)
            /\ \A c \in Client \cap S : placed'[c] = b => moved.area[c] = b
      <3> SUFFICES ASSUME NEW b \in Area, Private(b)
                   PROVE  /\ \A x \in S \ Client : moved.area[x] # b
                          /\ \A c \in Client \cap S : placed'[c] = b => moved.area[c] = b
        BY <1>5 DEF Elsewhere
      <3>1. \A x \in S \ Client : area[x] # b
        BY <1>1, <1>5 DEF RespectsUser, Elsewhere
      <3>2. \A c \in Client \cap S : placed[c] = b => area[c] = b
        BY <1>1, <1>5 DEF RespectsUser
      <3>3. d \notin Client => a # b
        BY <1>2 DEF Private, Device
      <3> QED
        BY <1>2, <1>3, <1>4, <3>1, <3>2, <3>3
    <2>4. \A c \in Client \ S : own[c] = {} /\ placed'[c] = None
      BY <1>1, <1>2, <1>3, <1>5 DEF RespectsUser
    <2> QED
      BY <1>5, <2>1, <2>2, <2>3, <2>4 DEF RespectsUser
  <1>8. area[d] \in Area \cup {None} /\ (d \notin Client => \A b \in Area : Private(b) => area[d] # b)
    BY <1>1, <1>2, <1>3, <1>5 DEF RespectsUser, Elsewhere
  <1> HIDE DEF moved
  <1>9. new \in Registry(S) /\ Harmless(moved, new)
    <2>1. CASE running /\ d = Hub
      <3>1. new = HubAreaMove(settings, moved, area[d]) /\ d \notin Client
        BY <2>1, OrganizationAssumption
      <3> QED
        BY <1>1, <1>4, <1>8, <3>1, HubAreaMoveHarmless
    <2>2. CASE running /\ d \in Ap
      <3>1. new = ApAreaMove(settings, moved, ap, d, area[d]) /\ d \notin Client /\ d \in S \cap Ap
        BY <1>2, <1>3, <2>2, OrganizationAssumption
      <3> QED
        BY <1>1, <1>3, <1>4, <1>8, <3>1, ApAreaMoveHarmless
    <2>3. CASE ~(running /\ d = Hub) /\ ~(running /\ d \in Ap)
      <3>1. new = moved
        BY <2>3
      <3> QED
        BY <1>1, <1>4, <3>1, HarmlessReflexive
    <2> QED
      BY <2>1, <2>2, <2>3
  <1> HIDE DEF new
  <1>10. RespectsUser(new, own, placed', forgotten)
    BY <1>1, <1>3, <1>4, <1>7, <1>9, HarmlessRespects
  <1>11. RespectsUser(new, own', placed', forgotten')
    BY <1>2, <1>10
  <1>12. settings' \in Possible /\ settings' = Clean(settings')
    <2>1. CASE running /\ d = Hub
      <3> DEFINE q == HubAreaSettings(settings, a)
      <3>1. q \in Possible /\ Clean(q) = q
        BY <1>1, <1>2, <1>3, <2>1, HubAreaPossible
      <3>2. settings' = q
        BY <1>2, <2>1 DEF If
      <3>3. Clean(settings') = Clean(q)
        BY <3>2 DEF Clean, InAreaMode, InLabelMode
      <3> QED
        BY <3>1, <3>2, <3>3
    <2>2. CASE ~(running /\ d = Hub)
      <3>1. settings' = settings
        BY <1>2, <2>2 DEF If
      <3> QED
        BY <1>1, <1>3, <3>1 DEF Clean, InAreaMode, InLabelMode
    <2> QED
      BY <2>1, <2>2
  <1>13. edits' \in 0 .. MaxEdits
    BY <1>2, <1>3, OrganizationAssumption
  <1> QED
    BY <1>1, <1>2, <1>3, <1>6, <1>9, <1>11, <1>12, <1>13, RegistryStep

(* What ApLabelChange adds to a client comes into the memory; what it      *)
(* forgets was taken from the client, or is counted as forgotten.          *)
ForgottenAfter(w, x, before, r, new, f) ==
  [c \in Client |-> IF w[c] = x THEN f[c] \cup (r.memory[c] \ (new.memory[c] \cup before))
                    ELSE f[c]]

(* The clients follow an access point, whose labels the user has changed.  *)
(* The manager's memory then is what the access point has, whatever it was *)
(* before: this is not harmless, and ForgottenAfter has the difference.    *)
LEMMA ApLabelChangeRespects ==
  ASSUME NEW S \in Present, NEW r \in Registry(S), NEW s \in Possible, NEW w \in Associations,
         NEW x \in S \cap Ap, NEW before \in SUBSET Label,
         \A l \in Label : ClientOnly(l) => l \notin before,
         NEW o \in [Client -> SUBSET Label], NEW p \in [Client -> Area \cup {None}],
         NEW f \in [Client -> SUBSET Label], RespectsUser(r, o, p, f)
  PROVE  LET new == ApLabelChange(s, r, w, x, before)
         IN  /\ new \in Registry(S)
             /\ RespectsUser(new, o, p, ForgottenAfter(w, x, before, r, new, f))
  <1> DEFINE new == ApLabelChange(s, r, w, x, before)
             Mine == ClientsOf(r, w, x)
             g == ForgottenAfter(w, x, before, r, new, f)
  <1>0. \A c \in Client : g[c] = IF w[c] = x
              THEN f[c] \cup (r.memory[c] \ (new.memory[c] \cup before)) ELSE f[c]
    BY DEF ForgottenAfter
  <1> HIDE DEF g
  <1>1. Devices(r) = S /\ x \in S /\ x \notin Client /\ Hub \in S /\ Hub \notin Client /\ x # Hub
    BY OrganizationAssumption DEF Registry, Devices, Present
  <1>2. /\ r.labels \in [S -> SUBSET Label] /\ r.memory \in [Client -> SUBSET Label]
    BY DEF Registry
  <1>3. /\ \A c \in Mine : c \in Client \cap S /\ w[c] = x
        /\ \A c \in Client \cap S : w[c] = x => c \in Mine
    BY <1>1 DEF ClientsOf
  <1>4. CASE ~s.labelsOfAp
    <2>1. new = r
      BY <1>4 DEF ApLabelChange
    <2>2. \A c \in Client : f[c] \subseteq g[c]
      BY <1>0, <2>1
    <2>3. \A l \in Label : ApOnly(l) => FromAps(r, [c \in Client |-> o[c] \cup g[c]], l)
      BY <1>1, <2>2 DEF RespectsUser, FromAps
    <2>4. RespectsUser(r, o, p, g)
      BY <2>3 DEF RespectsUser
    <2> QED
      BY <2>1, <2>4 DEF g
  <1>5. CASE s.labelsOfAp
    <2> DEFINE added == r.labels[x] \ before
               removed == before \ r.labels[x]
    <2>1. /\ new \in Registry(S) /\ new.area = r.area
          /\ new.labels = [d \in S |-> IF d \in Mine THEN (r.labels[d] \cup added) \ removed
                                       ELSE r.labels[d]]
          /\ new.memory = [c \in Client |-> IF c \in Mine THEN r.labels[x] ELSE r.memory[c]]
      <3> DEFINE l1 == [d \in S |-> IF d \in Mine THEN (r.labels[d] \cup added) \ removed
                                    ELSE r.labels[d]]
                 m1 == [c \in Client |-> IF c \in Mine THEN r.labels[x] ELSE r.memory[c]]
      <3>1. new = [r EXCEPT !.labels = l1, !.memory = m1]
        BY <1>1, <1>5 DEF ApLabelChange
      <3>2. l1 \in [S -> SUBSET Label] /\ m1 \in [Client -> SUBSET Label]
        BY <1>1, <1>2
      <3> HIDE DEF l1, m1, new
      <3>3. new \in Registry(S) /\ new.area = r.area /\ new.labels = l1 /\ new.memory = m1
        BY <3>1, <3>2 DEF Registry
      <3> QED
        BY <3>3 DEF l1, m1
    <2> HIDE DEF Mine
    <2>2. /\ \A d \in S \ Mine : new.labels[d] = r.labels[d]
          /\ \A d \in Mine : new.labels[d] = (r.labels[d] \cup added) \ removed
          /\ \A c \in Mine : new.memory[c] = r.labels[x]
          /\ \A c \in Client \ Mine : new.memory[c] = r.memory[c]
          /\ Devices(new) = S
      BY <1>3, <2>1 DEF Devices
    <2> HIDE DEF new
    <2>3. \A l \in Label : ClientOnly(l) =>
            /\ OnClientsOnly(new, l)
            /\ \A c \in Client \cap S : l \in o[c] => l \in new.labels[c]
      <3> SUFFICES ASSUME NEW l \in Label, ClientOnly(l)
                   PROVE  /\ \A d \in S \ Client : l \notin new.labels[d]
                          /\ \A c \in Client : l \notin new.memory[c]
                          /\ \A c \in Client \cap S : l \in o[c] => l \in new.labels[c]
        BY <2>2 DEF OnClientsOnly
      <3>1. /\ \A d \in S \ Client : l \notin r.labels[d]
            /\ \A c \in Client : l \notin r.memory[c]
            /\ \A c \in Client \cap S : l \in o[c] => l \in r.labels[c]
        BY <1>1 DEF RespectsUser, OnClientsOnly
      <3> QED
        BY <1>1, <1>3, <2>2, <3>1
    <2>4. \A l \in Label : ApOnly(l) => FromAps(new, [c \in Client |-> o[c] \cup g[c]], l)
      <3> SUFFICES ASSUME NEW l \in Label, ApOnly(l)
                   PROVE  /\ l \notin new.labels[Hub]
                          /\ \A c \in Client \cap S :
                               l \in new.labels[c] => l \in new.memory[c] \cup (o[c] \cup g[c])
        BY <2>2 DEF FromAps
      <3>1. /\ l \notin r.labels[Hub]
            /\ \A c \in Client \cap S : l \in r.labels[c] => l \in r.memory[c] \cup (o[c] \cup f[c])
        BY <1>1 DEF RespectsUser, FromAps
      <3>2. l \notin new.labels[Hub]
        BY <1>1, <1>3, <2>2, <3>1
      <3>3. ASSUME NEW c \in Client \cap S, l \in new.labels[c], c \in Mine
            PROVE  l \in new.memory[c] \cup (o[c] \cup g[c])
        <4>1. g[c] = f[c] \cup (r.memory[c] \ (r.labels[x] \cup before))
          BY <1>0, <1>3, <2>2, <3>3
        <4> QED
          BY <2>2, <3>1, <3>3, <4>1
      <3>4. ASSUME NEW c \in Client \cap S, l \in new.labels[c], c \notin Mine
            PROVE  l \in new.memory[c] \cup (o[c] \cup g[c])
        BY <1>0, <1>3, <2>2, <3>1, <3>4
      <3> QED
        BY <3>2, <3>3, <3>4
    <2>5. \A a \in Area : Private(a) =>
            /\ Elsewhere(new, a)
            /\ \A c \in Client \cap S : p[c] = a => new.area[c] = a
      BY <1>1, <2>1, <2>2 DEF RespectsUser, Elsewhere
    <2>6. \A c \in Client \ S : o[c] = {} /\ p[c] = None
      BY <1>1 DEF RespectsUser
    <2>7. RespectsUser(new, o, p, g)
      BY <2>2, <2>3, <2>4, <2>5, <2>6 DEF RespectsUser
    <2> QED
      BY <2>1, <2>7 DEF new, g
  <1> QED
    BY <1>4, <1>5

(* The user changes the labels of a device.                                *)
LEMMA LabelDeviceStep ==
  ASSUME OrganizationInv, NEW d \in Device, NEW l \in SUBSET Label, LabelDevice(d, l)
  PROVE  OrganizationInv'
  <1> DEFINE S == DOMAIN labels
             labelled == [Now EXCEPT !.labels[d] = l]
             new == CASE running /\ d = Hub  -> HubLabelChange(settings, labelled, labels[d])
                      [] running /\ d \in Ap -> ApLabelChange(settings, labelled, ap, d, labels[d])
                      [] OTHER               -> labelled
  <1>1. /\ S \in Present /\ Now \in Registry(S)
        /\ OrganizationTypeOK /\ settings \in Possible /\ RespectsUser(Now, own, placed, forgotten)
    BY NowRegistry DEF OrganizationInv
  <1>2. /\ edits < MaxEdits /\ edits' = edits + 1
        /\ d \in S /\ l \ labels[d] \subseteq LabelsFor[d]
        /\ Becomes(new)
        /\ own' = [c \in Client |-> IF c = d THEN (own[c] \cup (l \ labels[d])) \cap l ELSE own[c]]
        /\ forgotten' = [c \in Client |->
                       IF ap[c] = d THEN forgotten[c] \cup (memory[c] \ (memory'[c] \cup labels[d]))
                       ELSE forgotten[c]]
        /\ UNCHANGED <<settings, running, ap, placed>>
    BY DEF LabelDevice
  <1>3. ap \in Associations /\ running \in BOOLEAN /\ edits \in 0 .. MaxEdits /\ settings = Clean(settings)
        /\ own \in [Client -> SUBSET Label] /\ forgotten \in [Client -> SUBSET Label]
        /\ placed \in [Client -> Area \cup {None}]
        /\ area \in [S -> Area \cup {None}] /\ labels \in [S -> SUBSET Label]
        /\ memory \in [Client -> SUBSET Label]
    BY <1>1 DEF OrganizationTypeOK
  <1>4. /\ labelled \in Registry(S) /\ labelled.labels = [labels EXCEPT ![d] = l]
        /\ labelled.area = area /\ labelled.memory = memory
    BY <1>2, <1>3 DEF Now, Registry
  <1>5. /\ Devices(Now) = S /\ Devices(labelled) = S /\ Now.labels = labels /\ Now.area = area
        /\ Now.memory = memory
    BY <1>4 DEF Devices, Now
  <1>6. own' \in [Client -> SUBSET Label] /\ forgotten' \in [Client -> SUBSET Label]
    BY <1>2, <1>3
  <1> HIDE DEF labelled
  <1>7. RespectsUser(labelled, own', placed, forgotten)
    <2>1. ASSUME NEW x \in Label, ClientOnly(x)
          PROVE  /\ OnClientsOnly(labelled, x)
                 /\ \A c \in Client \cap S : x \in own'[c] => x \in labelled.labels[c]
      <3>1. /\ \A e \in S \ Client : x \notin labels[e]
            /\ \A c \in Client : x \notin memory[c]
            /\ \A c \in Client \cap S : x \in own[c] => x \in labels[c]
        BY <1>1, <1>5, <2>1 DEF RespectsUser, OnClientsOnly
      <3>2. d \notin Client => x \notin l
        BY <1>2, <2>1, <3>1 DEF ClientOnly, Device
      <3>3. \A e \in S \ Client : x \notin labelled.labels[e]
        BY <1>2, <1>3, <1>4, <3>1, <3>2
      <3>4. \A c \in Client \cap S : x \in own'[c] => x \in labelled.labels[c]
        BY <1>2, <1>3, <1>4, <3>1
      <3> QED
        BY <1>4, <1>5, <3>1, <3>3, <3>4 DEF OnClientsOnly
    <2>2. ASSUME NEW x \in Label, ApOnly(x)
          PROVE  FromAps(labelled, [c \in Client |-> own'[c] \cup forgotten[c]], x)
      <3>1. /\ x \notin labels[Hub]
            /\ \A c \in Client \cap S : x \in labels[c] => x \in memory[c] \cup (own[c] \cup forgotten[c])
        BY <1>1, <1>5, <2>2 DEF RespectsUser, FromAps
      <3>2. x \notin labelled.labels[Hub]
        BY <1>1, <1>2, <1>3, <1>4, <2>2, <3>1 DEF ApOnly, Present
      <3>3. \A c \in Client \cap S : x \in labelled.labels[c] =>
              x \in labelled.memory[c] \cup (own'[c] \cup forgotten[c])
        BY <1>2, <1>3, <1>4, <3>1
      <3> QED
        BY <1>5, <3>2, <3>3 DEF FromAps
    <2>3. \A a \in Area : Private(a) =>
            /\ Elsewhere(labelled, a)
            /\ \A c \in Client \cap S : placed[c] = a => labelled.area[c] = a
      BY <1>1, <1>4, <1>5 DEF RespectsUser, Elsewhere
    <2>4. \A c \in Client \ S : own'[c] = {} /\ placed[c] = None
      BY <1>1, <1>2, <1>5 DEF RespectsUser
    <2> QED
      BY <1>5, <2>1, <2>2, <2>3, <2>4 DEF RespectsUser
  <1>8. /\ labels[d] \in SUBSET Label
        /\ d \notin Client => \A x \in Label : ClientOnly(x) => x \notin labels[d]
        /\ d = Hub => \A x \in Label : ApOnly(x) => x \notin labels[d]
    BY <1>1, <1>2, <1>3, <1>5 DEF RespectsUser, OnClientsOnly, FromAps
  <1>9. memory' = new.memory
    BY <1>2 DEF Becomes
  <1>10. new \in Registry(S) /\ RespectsUser(new, own', placed, forgotten')
    <2>1. ASSUME new \in Registry(S), RespectsUser(new, own', placed, forgotten)
          PROVE  RespectsUser(new, own', placed, forgotten')
      <3>1. \A c \in Client : forgotten[c] \subseteq forgotten'[c]
        BY <1>2, <1>3
      <3>2. \A x \in Label : FromAps(new, [c \in Client |-> own'[c] \cup forgotten[c]], x)
                          => FromAps(new, [c \in Client |-> own'[c] \cup forgotten'[c]], x)
        BY <3>1 DEF FromAps
      <3> QED
        BY <2>1, <3>2 DEF RespectsUser
    <2>2. CASE running /\ d = Hub
      <3>1. new = HubLabelChange(settings, labelled, labels[d]) /\ d \notin Client
        BY <2>2, OrganizationAssumption
      <3> HIDE DEF new
      <3>2. new \in Registry(S) /\ Harmless(labelled, new)
        BY <1>1, <1>4, <1>8, <2>2, <3>1, HubLabelChangeHarmless
      <3>3. RespectsUser(new, own', placed, forgotten)
        BY <1>1, <1>3, <1>4, <1>6, <1>7, <3>2, HarmlessRespects
      <3> QED
        BY <2>1, <3>2, <3>3
    <2>3. CASE running /\ d \in Ap
      <3>1. new = ApLabelChange(settings, labelled, ap, d, labels[d]) /\ d \notin Client /\ d \in S \cap Ap
        BY <1>2, <2>3, OrganizationAssumption
      <3> DEFINE q == ApLabelChange(settings, labelled, ap, d, labels[d])
      <3>2. q \in Registry(S) /\ RespectsUser(q, own', placed,
                                   ForgottenAfter(ap, d, labels[d], labelled, q, forgotten))
        <4>1. \A x \in Label : ClientOnly(x) => x \notin labels[d]
          BY <1>8, <3>1
        <4> QED
          BY <1>1, <1>3, <1>4, <1>6, <1>7, <1>8, <3>1, <4>1, ApLabelChangeRespects
      <3> HIDE DEF q, new
      <3>3. forgotten' = ForgottenAfter(ap, d, labels[d], labelled, q, forgotten)
        <4>1. new = q /\ labelled.memory = memory
          BY <1>4, <3>1 DEF q
        <4> QED
          BY <1>2, <1>9, <4>1 DEF ForgottenAfter
      <3> QED
        BY <3>1, <3>2, <3>3 DEF q
    <2>4. CASE ~(running /\ d = Hub) /\ ~(running /\ d \in Ap)
      <3>1. new = labelled
        BY <2>4
      <3> HIDE DEF new
      <3> QED
        BY <1>4, <1>7, <2>1, <3>1
    <2> QED
      BY <2>2, <2>3, <2>4
  <1> HIDE DEF new
  <1>11. RespectsUser(new, own', placed', forgotten')
    BY <1>2, <1>10
  <1>12. settings' \in Possible /\ settings' = Clean(settings')
    BY <1>1, <1>2, <1>3 DEF Clean, InAreaMode, InLabelMode
  <1>13. edits' \in 0 .. MaxEdits
    BY <1>2, <1>3, OrganizationAssumption
  <1>14. placed' \in [Client -> Area \cup {None}] /\ ap' \in Associations /\ running' \in BOOLEAN
    BY <1>2, <1>3
  <1> QED
    BY <1>1, <1>2, <1>6, <1>10, <1>11, <1>12, <1>13, <1>14, RegistryStep

(* Every step.                                                             *)
LEMMA NextOrganizationInv == OrganizationInv /\ [OrganizationNext]_organizationVars => OrganizationInv'
  <1> SUFFICES ASSUME OrganizationInv, [OrganizationNext]_organizationVars PROVE OrganizationInv'
    OBVIOUS
  <1>1. CASE Setup
    BY <1>1, SetupStep
  <1>2. CASE Stop
    BY <1>2, StopStep
  <1>3. CASE CoordinatorUpdate
    BY <1>3, CoordinatorUpdateStep
  <1>4. ASSUME NEW d \in Device, Create(d) PROVE OrganizationInv'
    BY <1>4, CreateStep
  <1>5. ASSUME NEW s \in Setting, ChangeSettings(s) PROVE OrganizationInv'
    BY <1>5, ChangeSettingsStep
  <1>6. ASSUME NEW d \in Device, NEW a \in Area \cup {None}, MoveDevice(d, a) PROVE OrganizationInv'
    BY <1>6, MoveDeviceStep
  <1>7. ASSUME NEW d \in Device, NEW l \in SUBSET Label, LabelDevice(d, l) PROVE OrganizationInv'
    BY <1>7, LabelDeviceStep
  <1>8. CASE UNCHANGED organizationVars
    BY <1>8 DEF organizationVars, OrganizationInv, OrganizationTypeOK, Clean, InAreaMode, InLabelMode,
       RespectsUser, OnClientsOnly, FromAps, Elsewhere, Devices, Now, ClientOnly, ApOnly, Private, Possible
  <1> QED
    BY <1>1, <1>2, <1>3, <1>4, <1>5, <1>6, <1>7, <1>8 DEF OrganizationNext

(* The invariant holds throughout.                                         *)
LEMMA OrganizationInvHolds == OrganizationSpec => []OrganizationInv
  BY InitOrganizationInv, NextOrganizationInv, PTL DEF OrganizationSpec

-----------------------------------------------------------------------------
(* Every variable keeps its type: the same devices have areas and labels,  *)
(* the hub among them, and settings that do not apply to the mode are      *)
(* never in effect (config_flow.py).                                       *)
THEOREM OrganizationTypeCorrect == OrganizationSpec => []OrganizationTypeOK
  <1>1. OrganizationInv => OrganizationTypeOK
    BY DEF OrganizationInv
  <1> QED
    BY <1>1, OrganizationInvHolds, PTL

(* A label that only clients have is never taken from the client the user  *)
(* gave it to, by any handler of organization.py, for any number of access *)
(* points, clients, labels and settings.                                   *)
THEOREM OwnLabelsStay == OrganizationSpec => []ClientLabelsKept
  <1>1. OrganizationInv => ClientLabelsKept
    <2> SUFFICES ASSUME OrganizationInv, NEW c \in Client \cap DOMAIN labels, NEW l \in own[c], ClientOnly(l)
                 PROVE  l \in labels[c]
      BY DEF ClientLabelsKept
    <2>1. l \in Label /\ c \in Client \cap Devices(Now) /\ Now.labels = labels
      BY DEF OrganizationInv, OrganizationTypeOK, Devices, Now
    <2> QED
      BY <2>1 DEF OrganizationInv, RespectsUser
  <1> QED
    BY <1>1, OrganizationInvHolds, PTL

(* A label that a client has from access points is in the memory from      *)
(* which the next poll removes it, or was in a memory that was lost, or is *)
(* the user's own.                                                         *)
THEOREM ApLabelsTraced == OrganizationSpec => []ApLabelsAccounted
  <1>1. OrganizationInv => ApLabelsAccounted
    <2> SUFFICES ASSUME OrganizationInv, NEW c \in Client \cap DOMAIN labels, NEW l \in labels[c], ApOnly(l)
                 PROVE  l \in own[c] \cup memory[c] \cup forgotten[c]
      BY DEF ApLabelsAccounted
    <2>1. /\ l \in Label /\ c \in Client \cap Devices(Now)
          /\ Now.labels = labels /\ Now.memory = memory
      BY DEF OrganizationInv, OrganizationTypeOK, Devices, Now
    <2> QED
      BY <2>1 DEF OrganizationInv, RespectsUser, FromAps
  <1> QED
    BY <1>1, OrganizationInvHolds, PTL

(* A client stays in the area the user put it into if neither the hub nor  *)
(* an access point is ever put there, whatever else moves (README.md:340). *)
THEOREM PrivateAreaStays == OrganizationSpec => []PrivateAreaKept
  <1>1. OrganizationInv => PrivateAreaKept
    <2> SUFFICES ASSUME OrganizationInv, NEW c \in Client \cap DOMAIN area, Private(placed[c]),
                        placed[c] # None
                 PROVE  area[c] = placed[c]
      BY DEF PrivateAreaKept
    <2>1. placed[c] \in Area /\ c \in Client \cap Devices(Now) /\ Now.area = area
      BY DEF OrganizationInv, OrganizationTypeOK, Devices, Now
    <2> QED
      BY <2>1 DEF OrganizationInv, RespectsUser
  <1> QED
    BY <1>1, OrganizationInvHolds, PTL

-----------------------------------------------------------------------------
(* A registry in which nothing is left to apply: the area and the label    *)
(* that are configured, the labels of the hub, and the area and the labels *)
(* of the access points are there already.                                 *)
Assigns(s, r) ==
  /\ \A d \in Devices(r) : ConfiguredLabel(s) \in r.labels[d] \cup {None}
  /\ \A d \in Devices(r) :
       (d = Hub \/ s.inherit) /\ r.area[d] = None => ConfiguredArea(s) = None

AreasFollow(s, r, w) ==
  s.areaOfAp => \A c \in Associated(r, w) : r.area[c] = None => r.area[w[c]] = None

LabelsFollowHub(s, r) ==
  s.labelsOfHub => \A d \in Devices(r) : r.labels[Hub] \subseteq r.labels[d]

LabelsFollowAp(s, r, w) ==
  \A c \in Client :
    IF s.labelsOfAp /\ c \in Associated(r, w)
    THEN r.labels[w[c]] \subseteq r.labels[c] /\ r.memory[c] = r.labels[w[c]]
    ELSE r.memory[c] = {}

Applied(s, r, w) ==
  Assigns(s, r) /\ AreasFollow(s, r, w) /\ LabelsFollowHub(s, r) /\ LabelsFollowAp(s, r, w)

Forgetting(r) == [r EXCEPT !.memory = [c \in Client |-> {}]]

(* A registry with other areas, labels or memory.                          *)
LEMMA RegistryParts ==
  ASSUME NEW S, NEW r \in Registry(S)
  PROVE  /\ r = [area |-> r.area, labels |-> r.labels, memory |-> r.memory]
         /\ \A f : [r EXCEPT !.area = f] = [area |-> f, labels |-> r.labels, memory |-> r.memory]
         /\ \A l : [r EXCEPT !.labels = l] = [area |-> r.area, labels |-> l, memory |-> r.memory]
         /\ \A m : [r EXCEPT !.memory = m] = [area |-> r.area, labels |-> r.labels, memory |-> m]
         /\ \A l, m : [r EXCEPT !.labels = l, !.memory = m]
                       = [area |-> r.area, labels |-> l, memory |-> m]
  <1>1. r = [area |-> r.area, labels |-> r.labels, memory |-> r.memory]
    BY DEF Registry
  <1>2. \A f : [r EXCEPT !.area = f] = [area |-> f, labels |-> r.labels, memory |-> r.memory]
    BY <1>1
  <1>3. \A l : [r EXCEPT !.labels = l] = [area |-> r.area, labels |-> l, memory |-> r.memory]
    BY <1>1
  <1>4. \A m : [r EXCEPT !.memory = m] = [area |-> r.area, labels |-> r.labels, memory |-> m]
    BY <1>1
  <1>5. ASSUME NEW l, NEW m
        PROVE  [r EXCEPT !.labels = l, !.memory = m] = [area |-> r.area, labels |-> l, memory |-> m]
    <2> DEFINE q == [r EXCEPT !.labels = l]
    <2>1. [r EXCEPT !.labels = l, !.memory = m] = [q EXCEPT !.memory = m]
      OBVIOUS
    <2>2. q = [area |-> r.area, labels |-> l, memory |-> r.memory]
      BY <1>3
    <2> HIDE DEF q
    <2>3. [q EXCEPT !.memory = m] = [area |-> r.area, labels |-> l, memory |-> m]
      BY <2>2
    <2> QED
      BY <2>1, <2>3
  <1> QED
    BY <1>1, <1>2, <1>3, <1>4, <1>5

(* Who is associated depends on which devices there are.                   *)
LEMMA SameAssociated ==
  ASSUME NEW S \in Present, NEW r \in Registry(S), NEW q \in Registry(S), NEW w
  PROVE  Associated(r, w) = Associated(q, w)
  BY DEF Registry, Associated, ApOf, Devices

(* The configured label and the area.                                      *)
LEMMA AssignedApplies ==
  ASSUME NEW S \in Present, NEW r \in Registry(S), NEW s \in Possible
  PROVE  /\ Assigned(s, r) \in Registry(S) /\ Assigned(s, r).memory = r.memory
         /\ Assigns(s, Assigned(s, r))
  <1> DEFINE x == ConfiguredLabel(s)
             home == ConfiguredArea(s)
             l == [d \in S |-> IF x # None /\ x \notin r.labels[d] THEN r.labels[d] \cup {x}
                                                                 ELSE r.labels[d]]
             f == [d \in S |-> IF r.area[d] = None /\ (d = Hub \/ s.inherit) THEN home ELSE r.area[d]]
             new == Assigned(s, r)
  <1>1. Devices(r) = S
    BY DEF Registry, Devices
  <1>2. x \in Label \cup {None} /\ home \in Area \cup {None}
    BY LabelConfigured, AreaConfigured
  <1>3. new = [area |-> f, labels |-> l, memory |-> r.memory]
    <2>1. AddLabel(r, r.labels, x) = [area |-> r.area, labels |-> l, memory |-> r.memory]
      BY <1>1, RegistryParts DEF AddLabel
    <2>2. new = [AddLabel(r, r.labels, x) EXCEPT !.area = f]
      BY <1>1, <2>1 DEF Assigned
    <2> HIDE DEF l, f, x
    <2> QED
      BY <2>1, <2>2
  <1> HIDE DEF x, home, new
  <1>4. l \in [S -> SUBSET Label] /\ f \in [S -> Area \cup {None}]
    BY <1>2 DEF Registry
  <1>5. \A d \in S : x \in l[d] \cup {None}
    OBVIOUS
  <1>6. \A d \in S : (d = Hub \/ s.inherit) /\ f[d] = None => home = None
    OBVIOUS
  <1> HIDE DEF f, l
  <1>7. new \in Registry(S) /\ Devices(new) = S
    BY <1>3, <1>4 DEF Registry, Devices
  <1>8. Assigns(s, new)
    BY <1>3, <1>5, <1>6, <1>7 DEF Assigns, x, home
  <1> QED
    BY <1>3, <1>7, <1>8 DEF new

(* The areas of access points.                                             *)
LEMMA ApAreasApply ==
  ASSUME NEW S \in Present, NEW r \in Registry(S), NEW w \in Associations, NEW s \in Possible,
         Assigns(s, r)
  PROVE  LET new == If(s.areaOfAp, SyncClientsToApAreas(r, w, None), r)
         IN  /\ new \in Registry(S) /\ new.memory = r.memory
             /\ Assigns(s, new) /\ AreasFollow(s, new, w)
  <1>1. CASE ~s.areaOfAp
    BY <1>1 DEF If, AreasFollow
  <1>2. CASE s.areaOfAp
    <2> DEFINE new == SyncClientsToApAreas(r, w, None)
               Follow == Associated(r, w)
               f == [d \in S |-> IF /\ d \in Follow /\ r.area[ApOf(r, w, d)] # None
                                    /\ r.area[d] \in {None, None}
                                 THEN r.area[ApOf(r, w, d)] ELSE r.area[d]]
    <2>1. Devices(r) = S
      BY DEF Registry, Devices
    <2>2. \A c \in Follow : c \in Client \cap S /\ ApOf(r, w, c) = w[c] /\ w[c] \in S \ Client
      BY AssociatedAp
    <2>3. new = [area |-> f, labels |-> r.labels, memory |-> r.memory]
      BY <2>1 DEF SyncClientsToApAreas, Registry
    <2> HIDE DEF Follow
    <2>4. f \in [S -> Area \cup {None}]
      BY <2>2 DEF Registry
    <2>5. \A d \in S : f[d] = None => r.area[d] = None
      OBVIOUS
    <2>6. \A c \in Follow : f[c] = None => f[w[c]] = None
      <3> SUFFICES ASSUME NEW c \in Follow, f[c] = None PROVE f[w[c]] = None
        OBVIOUS
      <3>1. w[c] \notin Follow /\ w[c] \in S /\ c \in S /\ ApOf(r, w, c) = w[c]
        BY <2>2
      <3>2. f[w[c]] = r.area[w[c]]
        BY <3>1
      <3> QED
        BY <3>1, <3>2
    <2> HIDE DEF f, new
    <2>7. new \in Registry(S) /\ Devices(new) = S
      BY <2>3, <2>4 DEF Registry, Devices
    <2>8. Associated(new, w) = Follow
      BY <2>7, SameAssociated DEF Follow
    <2>9. Assigns(s, new)
      BY <2>1, <2>3, <2>5, <2>7 DEF Assigns
    <2>10. AreasFollow(s, new, w)
      BY <2>3, <2>6, <2>8 DEF AreasFollow
    <2> QED
      BY <1>2, <2>3, <2>7, <2>9, <2>10 DEF If, new
  <1> QED
    BY <1>1, <1>2

(* The labels of the hub.                                                  *)
LEMMA HubLabelsApply ==
  ASSUME NEW S \in Present, NEW r \in Registry(S), NEW w \in Associations, NEW s \in Possible,
         Assigns(s, r), AreasFollow(s, r, w)
  PROVE  LET new == If(s.labelsOfHub, SyncDevicesToHubLabels(r), r)
         IN  /\ new \in Registry(S) /\ new.memory = r.memory
             /\ Assigns(s, new) /\ AreasFollow(s, new, w) /\ LabelsFollowHub(s, new)
  <1>1. CASE ~s.labelsOfHub
    BY <1>1 DEF If, LabelsFollowHub
  <1>2. CASE s.labelsOfHub
    <2> DEFINE new == SyncDevicesToHubLabels(r)
               l == [d \in S |-> r.labels[d] \cup r.labels[Hub]]
    <2>1. Devices(r) = S /\ Hub \in S
      BY DEF Registry, Devices, Present
    <2>2. new = [area |-> r.area, labels |-> l, memory |-> r.memory]
      <3>1. new = [r EXCEPT !.labels = l]
        BY <2>1 DEF SyncDevicesToHubLabels
      <3> HIDE DEF l, new
      <3> QED
        BY <3>1, RegistryParts
    <2>3. /\ l \in [S -> SUBSET Label]
          /\ \A d \in S : r.labels[d] \subseteq l[d] /\ l[Hub] \subseteq l[d]
      BY <2>1 DEF Registry
    <2> HIDE DEF l, new
    <2>4. new \in Registry(S) /\ Devices(new) = S
      BY <2>2, <2>3 DEF Registry, Devices
    <2>5. Associated(new, w) = Associated(r, w)
      BY <2>4, SameAssociated
    <2>6. Assigns(s, new)
      BY <2>1, <2>2, <2>3, <2>4 DEF Assigns
    <2>7. AreasFollow(s, new, w)
      BY <2>2, <2>5 DEF AreasFollow
    <2>8. LabelsFollowHub(s, new)
      BY <2>2, <2>3, <2>4 DEF LabelsFollowHub
    <2> QED
      BY <1>2, <2>2, <2>4, <2>6, <2>7, <2>8 DEF If, new
  <1> QED
    BY <1>1, <1>2

(* The labels of access points, with nothing remembered.                   *)
LEMMA ApLabelsApply ==
  ASSUME NEW S \in Present, NEW r \in Registry(S), NEW w \in Associations, NEW s \in Possible,
         r.memory = [c \in Client |-> {}],
         Assigns(s, r), AreasFollow(s, r, w), LabelsFollowHub(s, r)
  PROVE  LET new == If(s.labelsOfAp, SyncClientsToApLabels(r, w), r)
         IN  new \in Registry(S) /\ Applied(s, new, w)
  <1>1. CASE ~s.labelsOfAp
    BY <1>1 DEF If, Applied, LabelsFollowAp
  <1>2. CASE s.labelsOfAp
    <2> DEFINE new == SyncClientsToApLabels(r, w)
               Follow == Associated(r, w)
               l == [d \in S |-> IF d \in Follow THEN r.labels[d] \cup r.labels[w[d]] ELSE r.labels[d]]
               m == [c \in Client |-> IF c \in Follow THEN r.labels[w[c]] ELSE {}]
    <2>1. Devices(r) = S /\ Hub \in S /\ Hub \notin Client
      BY OrganizationAssumption DEF Registry, Devices, Present
    <2>2. \A c \in Follow : c \in Client \cap S /\ ApOf(r, w, c) = w[c] /\ w[c] \in S \ Client
      BY AssociatedAp
    <2>3. new = [area |-> r.area, labels |-> l, memory |-> m]
      <3>1. \A c \in Follow : ClientLabels(r, w, c, r.labels[c]) = r.labels[c] \cup r.labels[w[c]]
        BY <2>2 DEF ClientLabels
      <3>2. l = [d \in S |-> IF d \in Follow THEN ClientLabels(r, w, d, r.labels[d]) ELSE r.labels[d]]
        BY <3>1
      <3>3. m = [c \in Client |-> IF c \in Follow THEN r.labels[ApOf(r, w, c)] ELSE r.memory[c]]
        BY <2>2
      <3>4. new = [r EXCEPT
                     !.labels = [d \in S |-> IF d \in Follow THEN ClientLabels(r, w, d, r.labels[d])
                                                             ELSE r.labels[d]],
                     !.memory = [c \in Client |-> IF c \in Follow THEN r.labels[ApOf(r, w, c)]
                                                                  ELSE r.memory[c]]]
        BY <2>1 DEF SyncClientsToApLabels
      <3> HIDE DEF l, m, new, Follow
      <3> QED
        BY <3>2, <3>3, <3>4 DEF Registry
    <2> HIDE DEF Follow
    <2>4. l \in [S -> SUBSET Label] /\ m \in [Client -> SUBSET Label]
      BY <2>2 DEF Registry
    <2>5. \A d \in S : r.labels[d] \subseteq l[d]
      OBVIOUS
    <2>6. l[Hub] = r.labels[Hub] /\ \A c \in Follow : w[c] \in S /\ l[w[c]] = r.labels[w[c]]
      BY <2>1, <2>2
    <2>7. \A c \in Follow : l[w[c]] \subseteq l[c] /\ m[c] = l[w[c]]
      BY <2>2, <2>6
    <2>8. \A c \in Client \ Follow : m[c] = {}
      OBVIOUS
    <2> HIDE DEF l, m, new
    <2>9. new \in Registry(S) /\ Devices(new) = S
      BY <2>3, <2>4 DEF Registry, Devices
    <2>10. Associated(new, w) = Follow
      BY <2>9, SameAssociated DEF Follow
    <2>11. Assigns(s, new)
      BY <2>1, <2>3, <2>5, <2>9 DEF Assigns
    <2>12. AreasFollow(s, new, w)
      BY <2>3, <2>10 DEF AreasFollow, Follow
    <2>13. LabelsFollowHub(s, new)
      BY <2>1, <2>3, <2>5, <2>6, <2>9 DEF LabelsFollowHub
    <2>14. LabelsFollowAp(s, new, w)
      BY <1>2, <2>3, <2>7, <2>8, <2>10 DEF LabelsFollowAp
    <2> QED
      BY <1>2, <2>9, <2>11, <2>12, <2>13, <2>14 DEF If, Applied, new
  <1> QED
    BY <1>1, <1>2

(* The handler as a whole.                                                 *)
LEMMA ExistingApplies ==
  ASSUME NEW S \in Present, NEW r \in Registry(S), NEW w \in Associations, NEW s \in Possible,
         r.memory = [c \in Client |-> {}]
  PROVE  /\ ApplyExistingDevices(s, r, w) \in Registry(S)
         /\ Applied(s, ApplyExistingDevices(s, r, w), w)
  <1> DEFINE assigned == Assigned(s, r)
             areas == If(s.areaOfAp, SyncClientsToApAreas(assigned, w, None), assigned)
             ofHub == If(s.labelsOfHub, SyncDevicesToHubLabels(areas), areas)
             ofAp  == If(s.labelsOfAp, SyncClientsToApLabels(ofHub, w), ofHub)
  <1>1. ApplyExistingDevices(s, r, w) = ofAp
    BY DEF ApplyExistingDevices
  <1>2. assigned \in Registry(S) /\ assigned.memory = r.memory /\ Assigns(s, assigned)
    BY AssignedApplies
  <1> HIDE DEF assigned
  <1>3. areas \in Registry(S) /\ areas.memory = r.memory /\ Assigns(s, areas) /\ AreasFollow(s, areas, w)
    BY <1>2, ApAreasApply
  <1> HIDE DEF areas
  <1>4. /\ ofHub \in Registry(S) /\ ofHub.memory = r.memory
        /\ Assigns(s, ofHub) /\ AreasFollow(s, ofHub, w) /\ LabelsFollowHub(s, ofHub)
    BY <1>3, HubLabelsApply
  <1> HIDE DEF ofHub
  <1>5. ofAp \in Registry(S) /\ Applied(s, ofAp, w)
    BY <1>4, ApLabelsApply
  <1> QED
    BY <1>1, <1>5

(* Where nothing is left to apply, each part of the handler does nothing,  *)
(* except that the last one remembers again.                               *)
LEMMA AppliedStays ==
  ASSUME NEW S \in Present, NEW r \in Registry(S), NEW w \in Associations, NEW s \in Possible,
         Applied(s, r, w)
  PROVE  ApplyExistingDevices(s, Forgetting(r), w) = r
  <1> DEFINE q == Forgetting(r)
  <1>1. /\ q = [area |-> r.area, labels |-> r.labels, memory |-> [c \in Client |-> {}]]
        /\ r = [area |-> r.area, labels |-> r.labels, memory |-> r.memory]
        /\ r.area \in [S -> Area \cup {None}] /\ r.labels \in [S -> SUBSET Label]
        /\ r.memory \in [Client -> SUBSET Label]
    BY RegistryParts DEF Forgetting, Registry
  <1> HIDE DEF q
  <1>2. /\ q.area = r.area /\ q.labels = r.labels /\ q.memory = [c \in Client |-> {}]
        /\ q \in Registry(S) /\ Devices(r) = S /\ Devices(q) = S
    BY <1>1 DEF Registry, Devices
  <1>3. Associated(q, w) = Associated(r, w)
    BY <1>2, SameAssociated
  <1>4. \A c \in Associated(r, w) : /\ c \in Client \cap S /\ w[c] \in S \ Client
                                    /\ ApOf(q, w, c) = w[c]
    BY <1>2, <1>3, AssociatedAp
  <1>5. Assigned(s, q) = q
    <2> DEFINE x == ConfiguredLabel(s)
               l == [d \in S |-> IF x # None /\ x \notin r.labels[d] THEN r.labels[d] \cup {x}
                                                                   ELSE r.labels[d]]
               f == [d \in S |-> IF r.area[d] = None /\ (d = Hub \/ s.inherit) THEN ConfiguredArea(s)
                                                                            ELSE r.area[d]]
    <2>1. Assigned(s, q) = [area |-> f, labels |-> l, memory |-> q.memory]
      <3>1. AddLabel(q, q.labels, x) = [area |-> q.area, labels |-> l, memory |-> q.memory]
        <4>1. AddLabel(q, q.labels, x) = [q EXCEPT !.labels = l]
          BY <1>2 DEF AddLabel
        <4> HIDE DEF l
        <4> QED
          BY <1>2, <4>1, RegistryParts
      <3>2. Assigned(s, q) = [AddLabel(q, q.labels, x) EXCEPT !.area = f]
        BY <1>2, <3>1 DEF Assigned
      <3> HIDE DEF l, f, x
      <3> QED
        BY <3>1, <3>2
    <2>2. l = r.labels
      BY <1>1, <1>2 DEF Applied, Assigns
    <2>3. f = r.area
      BY <1>1, <1>2 DEF Applied, Assigns
    <2> QED
      BY <1>1, <1>2, <2>1, <2>2, <2>3
  <1>6. If(s.areaOfAp, SyncClientsToApAreas(q, w, None), q) = q
    <2>1. CASE ~s.areaOfAp
      BY <2>1 DEF If
    <2>2. CASE s.areaOfAp
      <3> DEFINE f == [d \in S |-> IF /\ d \in Associated(q, w) /\ r.area[ApOf(q, w, d)] # None
                                      /\ r.area[d] \in {None, None}
                                   THEN r.area[ApOf(q, w, d)] ELSE r.area[d]]
      <3>1. SyncClientsToApAreas(q, w, None) = [area |-> f, labels |-> q.labels, memory |-> q.memory]
        <4>1. SyncClientsToApAreas(q, w, None) = [q EXCEPT !.area = f]
          BY <1>2 DEF SyncClientsToApAreas
        <4> HIDE DEF f
        <4>2. [q EXCEPT !.area = f] = [area |-> f, labels |-> q.labels, memory |-> q.memory]
          BY <1>2, RegistryParts
        <4> QED
          BY <4>1, <4>2
      <3>2. \A d \in S : f[d] = r.area[d]
        BY <1>3, <1>4, <2>2 DEF Applied, AreasFollow
      <3>3. f = r.area
        BY <1>1, <3>2
      <3> QED
        BY <1>1, <1>2, <2>2, <3>1, <3>3 DEF If
    <2> QED
      BY <2>1, <2>2
  <1>7. If(s.labelsOfHub, SyncDevicesToHubLabels(q), q) = q
    <2>1. CASE ~s.labelsOfHub
      BY <2>1 DEF If
    <2>2. CASE s.labelsOfHub
      <3> DEFINE l == [d \in S |-> IF Hub \in S THEN r.labels[d] \cup r.labels[Hub] ELSE r.labels[d]]
      <3>1. SyncDevicesToHubLabels(q) = [area |-> q.area, labels |-> l, memory |-> q.memory]
        <4>1. SyncDevicesToHubLabels(q) = [q EXCEPT !.labels = l]
          BY <1>2 DEF SyncDevicesToHubLabels
        <4> HIDE DEF l
        <4> QED
          BY <1>2, <4>1, RegistryParts
      <3>2. \A d \in S : l[d] = r.labels[d]
        BY <1>2, <2>2 DEF Applied, LabelsFollowHub
      <3>3. l = r.labels
        BY <1>1, <3>2
      <3> QED
        BY <1>1, <1>2, <2>2, <3>1, <3>3 DEF If
    <2> QED
      BY <2>1, <2>2
  <1>8. If(s.labelsOfAp, SyncClientsToApLabels(q, w), q) = r
    <2>1. CASE ~s.labelsOfAp
      <3>1. r.memory = [c \in Client |-> {}]
        BY <1>1, <2>1 DEF Applied, LabelsFollowAp
      <3> QED
        BY <1>1, <2>1, <3>1 DEF If
    <2>2. CASE s.labelsOfAp
      <3> DEFINE l == [d \in S |-> IF d \in Associated(q, w) THEN ClientLabels(q, w, d, r.labels[d])
                                                             ELSE r.labels[d]]
                 m == [c \in Client |-> IF c \in Associated(q, w) THEN r.labels[ApOf(q, w, c)]
                                                                  ELSE q.memory[c]]
      <3>1. SyncClientsToApLabels(q, w) = [area |-> q.area, labels |-> l, memory |-> m]
        <4>1. SyncClientsToApLabels(q, w) = [q EXCEPT !.labels = l, !.memory = m]
          BY <1>2 DEF SyncClientsToApLabels
        <4> HIDE DEF l, m
        <4> QED
          BY <1>2, <4>1, RegistryParts
      <3>2. \A c \in Associated(r, w) : /\ r.labels[w[c]] \subseteq r.labels[c]
                                        /\ r.memory[c] = r.labels[w[c]]
        BY <1>4, <2>2 DEF Applied, LabelsFollowAp
      <3>3. \A c \in Associated(r, w) : ClientLabels(q, w, c, r.labels[c]) = r.labels[c]
        <4> SUFFICES ASSUME NEW c \in Associated(r, w)
                     PROVE  ClientLabels(q, w, c, r.labels[c]) = r.labels[c]
          OBVIOUS
        <4>1. ApOf(q, w, c) = w[c] /\ q.memory[c] = {} /\ q.labels = r.labels
          BY <1>2, <1>4
        <4> QED
          BY <3>2, <4>1 DEF ClientLabels
      <3>4. \A d \in S : l[d] = r.labels[d]
        BY <1>3, <3>3
      <3>5. \A c \in Client : m[c] = r.memory[c]
        <4> SUFFICES ASSUME NEW c \in Client PROVE m[c] = r.memory[c]
          OBVIOUS
        <4>1. CASE c \in Associated(r, w)
          BY <1>3, <1>4, <3>2, <4>1
        <4>2. CASE c \notin Associated(r, w)
          <5>1. r.memory[c] = {} /\ q.memory[c] = {}
            BY <1>2, <4>2 DEF Applied, LabelsFollowAp
          <5> QED
            BY <1>3, <4>2, <5>1
        <4> QED
          BY <4>1, <4>2
      <3>6. l = r.labels /\ m = r.memory
        BY <1>1, <3>4, <3>5
      <3> QED
        BY <1>1, <1>2, <2>2, <3>1, <3>6 DEF If
    <2> QED
      BY <2>1, <2>2
  <1> QED
    BY <1>5, <1>6, <1>7, <1>8 DEF ApplyExistingDevices, q

(* A manager that does not run has no memory.                              *)
ForgottenWhileStopped == ~running => memory = [c \in Client |-> {}]

LEMMA NextForgotten ==
  ASSUME OrganizationTypeOK, ForgottenWhileStopped, [OrganizationNext]_organizationVars
  PROVE  ForgottenWhileStopped'
  <1>1. CASE Setup \/ Stop \/ CoordinatorUpdate \/ UNCHANGED organizationVars
    BY <1>1 DEF Setup, Stop, CoordinatorUpdate, organizationVars, ForgottenWhileStopped
  <1>2. ASSUME NEW d \in Device, Create(d) PROVE ForgottenWhileStopped'
    BY <1>2 DEF Create, ForgottenWhileStopped
  <1>3. ASSUME NEW s \in Setting, ChangeSettings(s) PROVE ForgottenWhileStopped'
    BY <1>3 DEF ChangeSettings, ForgottenWhileStopped, If, Becomes, Now
  <1>4. ASSUME NEW d \in Device, NEW a \in Area \cup {None}, MoveDevice(d, a)
        PROVE  ForgottenWhileStopped'
    <2> SUFFICES ASSUME ~running PROVE memory' = memory
      BY <1>4 DEF MoveDevice, ForgottenWhileStopped
    <2>1. Becomes([Now EXCEPT !.area[d] = a])
      BY <1>4 DEF MoveDevice
    <2> QED
      BY <2>1 DEF Becomes, Now
  <1>5. ASSUME NEW d \in Device, NEW l \in SUBSET Label, LabelDevice(d, l)
        PROVE  ForgottenWhileStopped'
    <2> SUFFICES ASSUME ~running PROVE memory' = memory
      BY <1>5 DEF LabelDevice, ForgottenWhileStopped
    <2>1. Becomes([Now EXCEPT !.labels[d] = l])
      BY <1>5 DEF LabelDevice
    <2> QED
      BY <2>1 DEF Becomes, Now
  <1> QED
    BY <1>1, <1>2, <1>3, <1>4, <1>5 DEF OrganizationNext

(* A set-up leaves nothing to apply (_apply_existing_devices), for any     *)
(* devices, associations and settings: the labels that a client gets from  *)
(* its access point include those that this one gets in the same pass.     *)
THEOREM SetupLeavesNothing == OrganizationSpec => SetupIsComplete
  <1> DEFINE SetupCompletes ==
        Setup => Complete([area |-> area', labels |-> labels', memory |-> memory'], ap')
  <1>1. OrganizationInv /\ ForgottenWhileStopped /\ Setup => SetupCompletes
    <2> SUFFICES ASSUME OrganizationInv, ForgottenWhileStopped, Setup
                 PROVE  Complete([area |-> area', labels |-> labels', memory |-> memory'], ap')
      OBVIOUS
    <2> DEFINE S == DOMAIN labels
               new == ApplyExistingDevices(settings, Now, ap')
    <2>1. S \in Present /\ Now \in Registry(S) /\ settings \in Possible /\ ap' \in Associations
      BY NowRegistry DEF OrganizationInv, Setup
    <2>2. Now.memory = [c \in Client |-> {}]
      BY DEF Setup, ForgottenWhileStopped, Now
    <2>3. new \in Registry(S) /\ Applied(settings, new, ap')
      BY <2>1, <2>2, ExistingApplies
    <2>4. area' = new.area /\ labels' = new.labels /\ memory' = new.memory
      BY DEF Setup, Becomes
    <2> HIDE DEF new
    <2>5. new = [area |-> area', labels |-> labels', memory |-> memory']
      BY <2>3, <2>4 DEF Registry
    <2>6. ApplyExistingDevices(settings, Forgetting(new), ap') = new
      BY <2>1, <2>3, AppliedStays
    <2>7. Complete(new, ap')
      BY <2>6 DEF Complete, Forgetting
    <2> QED
      BY <2>5, <2>7
  <1>2. OrganizationInit => ForgottenWhileStopped
    BY DEF OrganizationInit, ForgottenWhileStopped
  <1>3. OrganizationInv /\ ForgottenWhileStopped /\ [OrganizationNext]_organizationVars
        => ForgottenWhileStopped' /\ [SetupCompletes]_organizationVars
    <2>1. OrganizationInv => OrganizationTypeOK
      BY DEF OrganizationInv
    <2>2. SetupCompletes \/ Setup
      OBVIOUS
    <2> HIDE DEF SetupCompletes
    <2> QED
      BY <1>1, <2>1, <2>2, NextForgotten
  <1> QED
    BY <1>2, <1>3, OrganizationInvHolds, PTL DEF OrganizationSpec, SetupIsComplete
=============================================================================
