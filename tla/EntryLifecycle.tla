--------------------------- MODULE EntryLifecycle ---------------------------
(***************************************************************************)
(* Config entries of the integration and the one set of shared dashboard   *)
(* filters they have in common (__init__.py, select.py, switch.py and the  *)
(* ownership part of filter_manager.py).                                   *)
(*                                                                         *)
(* Every FortiGate is a config entry.  The shared select and switch        *)
(* entities must exist once, so one entry owns them: its platforms claim   *)
(* the ownership while they are set up, and its unload releases it and     *)
(* asks Home Assistant to reload another entry, which is to claim it.      *)
(*                                                                         *)
(* Home Assistant is external: it serialises the operations on one entry   *)
(* with that entry's setup lock and interleaves operations on different    *)
(* entries at every await.  A reload is an unload followed, under the same *)
(* lock, by a setup unless the entry is disabled.                          *)
(***************************************************************************)
EXTENDS FiniteSets

CONSTANTS
  Entry,       \* config entries of this integration
  NoEntry,     \* Python's None in the owner field
  Manager,     \* identities of filter manager objects
  NoManager    \* no filter manager in hass.data

ASSUME LifecycleAssumption ==
  /\ NoEntry \notin Entry
  /\ NoManager \notin Manager
  /\ Manager # {}

Platform == {"select", "switch"}   \* the platforms with shared entities

VARIABLES
  state,      \* ConfigEntryState of each entry; "platforms" is the second half
              \* of SETUP_IN_PROGRESS, after the hub is registered
  disabled,   \* entries the user has disabled
  pending,    \* entries with a reload task waiting for the setup lock
  hubs,       \* keys of the filter manager's _hubs
  manager,    \* the manager in hass.data[DOMAIN], or NoManager
  owner,      \* its _owner_entry_id
  ready,      \* platforms of each entry that are set up
  shared      \* shared[p][e]: the manager that the shared entities of platform
              \* p added by entry e listen to, NoManager if e added none

vars == <<state, disabled, pending, hubs, manager, owner, ready, shared>>

EntryState == {"not_loaded", "connecting", "platforms", "loaded", "unloading",
               "setup_retry", "setup_error", "failed_unload"}

InProgress == {"connecting", "platforms", "unloading"}   \* the lock is held

(* Registered in the filter manager: from register_hub to unregister_hub.  *)
HubState == {"platforms", "loaded", "unloading", "failed_unload"}

Init ==
  /\ state = [e \in Entry |-> "not_loaded"]
  /\ disabled = {}
  /\ pending = Entry                 \* Home Assistant starts every entry
  /\ hubs = {}
  /\ manager = NoManager
  /\ owner = NoEntry
  /\ ready = [e \in Entry |-> {}]
  /\ shared = [p \in Platform |-> [e \in Entry |-> NoManager]]

-----------------------------------------------------------------------------
(* The user: reload, disable or enable an entry.  Each of them flips the   *)
(* flag if it has one and queues a reload; reloads queued for one entry    *)
(* before the first has started are one reload here.                       *)

RequestReload(e) ==
  /\ pending' = pending \cup {e}
  /\ UNCHANGED <<state, disabled, hubs, manager, owner, ready, shared>>

Disable(e) ==
  /\ e \notin disabled
  /\ disabled' = disabled \cup {e}
  /\ pending' = pending \cup {e}
  /\ UNCHANGED <<state, hubs, manager, owner, ready, shared>>

Enable(e) ==
  /\ e \in disabled
  /\ disabled' = disabled \ {e}
  /\ pending' = pending \cup {e}
  /\ UNCHANGED <<state, hubs, manager, owner, ready, shared>>

-----------------------------------------------------------------------------
(* Home Assistant: a queued reload gets the lock.                          *)

BeginSetup(e) == IF e \in disabled THEN "not_loaded" ELSE "connecting"

StartReload(e) ==
  /\ e \in pending
  /\ state[e] \notin InProgress
  /\ pending' = pending \ {e}
  /\ state' = [state EXCEPT ![e] =
                 CASE state[e] = "loaded"        -> "unloading"
                   [] state[e] = "failed_unload" -> "failed_unload"
                   [] OTHER                      -> BeginSetup(e)]
  /\ UNCHANGED <<disabled, hubs, manager, owner, ready, shared>>

(* The retry timer of an entry that was not ready; a reload cancels it.    *)
Retry(e) ==
  /\ state[e] = "setup_retry"
  /\ e \notin pending
  /\ state' = [state EXCEPT ![e] = BeginSetup(e)]
  /\ UNCHANGED <<disabled, pending, hubs, manager, owner, ready, shared>>

-----------------------------------------------------------------------------
(* async_setup_entry.                                                      *)

(* The FortiGate does not answer: the entry is not ready.                  *)
ConnectFails(e) ==
  /\ state[e] = "connecting"
  /\ state' = [state EXCEPT ![e] = "setup_retry"]
  /\ UNCHANGED <<disabled, pending, hubs, manager, owner, ready, shared>>

(* The manager in hass.data, or a new object: one that nothing refers to.  *)
GetOrCreateManager ==
  IF manager = NoManager
  THEN manager' \in Manager \ {shared[p][x] : p \in Platform, x \in Entry}
  ELSE manager' = manager

(* Any other exception.  One raised by an incomplete status answer comes   *)
(* after the manager was created.  Once the hub is registered nothing is   *)
(* left that could raise but Home Assistant's forwarding of the platforms, *)
(* which keeps their exceptions to itself: set-ups do not fail there here. *)
SetupErrors(e) ==
  /\ state[e] = "connecting"
  /\ state' = [state EXCEPT ![e] = "setup_error"]
  /\ \/ UNCHANGED manager
     \/ GetOrCreateManager
  /\ UNCHANGED <<disabled, pending, hubs, owner, ready, shared>>

(* Wrong: the ownership is claimed before the entities are added.          *)
RegisterAndClaim(e) ==
  /\ state[e] = "connecting"
  /\ GetOrCreateManager
  /\ hubs' = hubs \cup {e}
  /\ owner' = IF owner = NoEntry THEN e ELSE owner
  /\ state' = [state EXCEPT ![e] = "platforms"]
  /\ UNCHANGED <<disabled, pending, ready, shared>>

(* The answers are in: from here to the forwarding of the platforms no     *)
(* await lets anything else run.                                           *)
Register(e) ==
  /\ state[e] = "connecting"
  /\ GetOrCreateManager
  /\ hubs' = hubs \cup {e}
  /\ state' = [state EXCEPT ![e] = "platforms"]
  /\ UNCHANGED <<disabled, pending, owner, ready, shared>>

(* Wrong: the last entry to ask becomes the owner.                         *)
LastClaimant(e) == e

(* claim_owner: the owner after entry e has asked.                         *)
ClaimOwner(e) == IF owner = NoEntry THEN e ELSE owner

(* async_setup_entry of the select or switch platform: only the owner      *)
(* adds the shared entities.                                               *)
SetupPlatform(e, p) ==
  /\ state[e] = "platforms"
  /\ p \notin ready[e]
  /\ ready' = [ready EXCEPT ![e] = @ \cup {p}]
  /\ owner' = ClaimOwner(e)
  /\ shared' = IF owner' = e THEN [shared EXCEPT ![p][e] = manager] ELSE shared
  /\ UNCHANGED <<state, disabled, pending, hubs, manager>>

FinishSetup(e) ==
  /\ state[e] = "platforms"
  /\ ready[e] = Platform
  /\ state' = [state EXCEPT ![e] = "loaded"]
  /\ UNCHANGED <<disabled, pending, hubs, manager, owner, ready, shared>>

-----------------------------------------------------------------------------
(* async_unload_entry.                                                     *)

(* async_unload_platforms removes a platform and the entities it added.    *)
UnloadPlatform(e, p) ==
  /\ state[e] = "unloading"
  /\ p \in ready[e]
  /\ ready' = [ready EXCEPT ![e] = @ \ {p}]
  /\ shared' = [shared EXCEPT ![p][e] = NoManager]
  /\ UNCHANGED <<state, disabled, pending, hubs, manager, owner>>

(* A platform refused: the entry keeps its hub and its ownership, and Home *)
(* Assistant allows no further operation on it.                            *)
UnloadFails(e) ==
  /\ state[e] = "unloading"
  /\ state' = [state EXCEPT ![e] = "failed_unload"]
  /\ UNCHANGED <<disabled, pending, hubs, manager, owner, ready, shared>>

(* release_owner, called after unregister_hub: the entries that may be     *)
(* asked to take over.  The code takes the one registered first; the model *)
(* leaves the order of registration open.                                  *)
Successors(e) == IF owner = e THEN hubs \ {e} ELSE {}

OwnerAfterRelease(e) == IF owner = e THEN NoEntry ELSE owner

(* Wrong: the manager is dropped with the first entry that leaves.         *)
DropManager(e) == NoManager

(* shutdown, when nobody takes over and no hub is left.                    *)
ManagerAfterUnload(e) ==
  IF Successors(e) = {} /\ hubs \ {e} = {} THEN NoManager ELSE manager

(* Wrong: ownership is released and nobody is asked to take over.          *)
FinishUnloadSilently(e) ==
  /\ state[e] = "unloading"
  /\ ready[e] = {}
  /\ hubs' = hubs \ {e}
  /\ owner' = OwnerAfterRelease(e)
  /\ manager' = ManagerAfterUnload(e)
  /\ state' = [state EXCEPT ![e] = BeginSetup(e)]
  /\ UNCHANGED <<disabled, pending, ready, shared>>

(* The platforms are gone: the rest of the unload runs without an await,   *)
(* and the reload goes on with the setup under the same lock.              *)
FinishUnload(e) ==
  /\ state[e] = "unloading"
  /\ ready[e] = {}
  /\ hubs' = hubs \ {e}
  /\ owner' = OwnerAfterRelease(e)
  /\ manager' = ManagerAfterUnload(e)
  /\ \/ \E next \in Successors(e) : pending' = pending \cup {next}
     \/ Successors(e) = {} /\ UNCHANGED pending
  /\ state' = [state EXCEPT ![e] = BeginSetup(e)]
  /\ UNCHANGED <<disabled, ready, shared>>

-----------------------------------------------------------------------------
User(e) == RequestReload(e) \/ Disable(e) \/ Enable(e)

Setup(e) == Register(e) \/ ConnectFails(e) \/ SetupErrors(e)

Unload(e) == FinishUnload(e) \/ UnloadFails(e)

Next ==
  \E e \in Entry :
    \/ User(e)
    \/ StartReload(e)
    \/ Retry(e)
    \/ Setup(e)
    \/ \E p \in Platform : SetupPlatform(e, p) \/ UnloadPlatform(e, p)
    \/ FinishSetup(e)
    \/ Unload(e)

(* The event loop runs every task that is ready, a request ends or times   *)
(* out, and a retry timer fires.  Nobody is obliged to press a button.     *)
Fairness ==
  \A e \in Entry :
    /\ WF_vars(StartReload(e))
    /\ WF_vars(Retry(e))
    /\ WF_vars(Setup(e))
    /\ \A p \in Platform : WF_vars(SetupPlatform(e, p)) /\ WF_vars(UnloadPlatform(e, p))
    /\ WF_vars(FinishSetup(e))
    /\ WF_vars(Unload(e))

Spec == Init /\ [][Next]_vars

FairSpec == Spec /\ Fairness

-----------------------------------------------------------------------------
TypeOK ==
  /\ state \in [Entry -> EntryState]
  /\ disabled \subseteq Entry
  /\ pending \subseteq Entry
  /\ hubs \subseteq Entry
  /\ manager \in Manager \cup {NoManager}
  /\ owner \in Entry \cup {NoEntry}
  /\ ready \in [Entry -> SUBSET Platform]
  /\ shared \in [Platform -> [Entry -> Manager \cup {NoManager}]]

HasShared(e) == \E p \in Platform : shared[p][e] # NoManager

(* The shared entities exist once: whoever has some is the owner, also     *)
(* while another entry is being unloaded or set up (select.py, switch.py   *)
(* and release_owner).  Two sets would collide on their unique ids.        *)
SharedOnlyWithOwner == \A e \in Entry : HasShared(e) => e = owner

(* Ownership never outlives the owner's registration, so it can always be  *)
(* released by that entry's unload.                                        *)
OwnerIsRegistered == owner # NoEntry => owner \in hubs

(* While an entry is registered there is a manager, and every shared       *)
(* entity listens to the manager that is in hass.data: never to one that   *)
(* was shut down or replaced.                                              *)
NoStaleManager ==
  /\ hubs # {} => manager # NoManager
  /\ \A p \in Platform, e \in Entry : shared[p][e] \in {NoManager, manager}

(* No entry owns the filters without showing any: ownership is taken by    *)
(* adding entities (claim_owner) and only an unload removes them again.    *)
OwnerShowsFilters ==
  \A e \in Entry : owner = e /\ state[e] \in {"platforms", "loaded"} => HasShared(e)

(* An entry the hand-over cannot count on.                                 *)
Lost(e) == \/ e \in disabled
           \/ state[e] \in {"setup_retry", "setup_error", "failed_unload"}

(* async_unload_entry transfers the ownership: when the owner is unloaded  *)
(* while another entry is registered, the filters get a new owner, or that *)
(* same entry is the owner again, unless an entry that could take over     *)
(* fails or is disabled meanwhile.  What becomes of the old owner is no    *)
(* excuse: it may stay disabled or unreachable for good.                   *)
HandOver ==
  \A x \in Entry :
    (owner = x /\ state[x] = "unloading" /\ hubs # {x})
      ~> \/ owner # NoEntry /\ state[owner] # "unloading"
         \/ \E e \in Entry \ {x} : Lost(e)

(* No operation is running or waiting for a lock, and none got stuck.      *)
Idle == pending = {} /\ \A e \in Entry : state[e] \notin InProgress \cup {"failed_unload"}

(* The two platforms claim one after the other, and ownership may be       *)
(* released in between: the new owner can then lack one kind of entity.    *)
(* This is not an invariant of the code; the README says how it comes.     *)
OwnerShowsAllFilters ==
  Idle => \A e \in Entry : owner = e /\ state[e] = "loaded" =>
                              \A p \in Platform : shared[p][e] # NoManager

(* async_unload_entry's docstring: "Unload a FortiGate and transfer shared *)
(* filter ownership if needed."  Once everything has settled, a loaded     *)
(* entry implies that the shared filters have an owner.                    *)
LoadedImpliesOwned == Idle /\ (\E e \in Entry : state[e] = "loaded") => owner # NoEntry

=============================================================================
