# FortiOS KD in TLA+

FortiOS KD is a custom integration for Home Assistant. It polls one or more
FortiGate firewalls over HTTP and shows what it receives as entities: access
points, Wi-Fi clients, ARP, DHCP, detected devices, interfaces, VDOMs and DNS
servers. This directory holds TLA+ models of its stateful parts, the TLC
configurations that check them, and proofs of their safety properties.

Paths are relative to `custom_components/fortios_kd/` unless they start
otherwise.

## 1. The system

Everything runs in Home Assistant's event loop, so there are no threads: what
interleaves is what happens at an `await`, that is between two requests, between
two platforms of an entry, and between operations on different entries.

| Part | Source | State | Operations | Correct if | Modelled |
|---|---|---|---|---|---|
| Entry lifecycle | `__init__.py` | state of each config entry, `hass.data[DOMAIN]` | set up, unload, retry, reload | a set-up that fails leaves nothing behind; unloading one entry does not hurt another | `EntryLifecycle` |
| Shared filter ownership | `filter_manager.py`, `select.py`, `switch.py` | `_hubs`, `_owner_entry_id`, the manager object | register, unregister, claim, release, shut down | the shared entities exist exactly once, with a live manager | `EntryLifecycle` |
| Filter selections | `filter_manager.py` | 30 selections | select, normalise, rename a hub, unregister a hub | a selection is one of its options; a change resets what depends on it, and nothing else | `Filters`, `SharedFilter` |
| Poll | `coordinator.py:1638` | tables, indexes, published data, outcome | fifteen requests in order, publish, fail | a failure costs only its own table; entities see one picture and learn of every change | `Poll` |
| VDOMs and DNS | `coordinator.py:776-1021` | inventory, DNS configuration and latency, two refresh times | four requests, rebuild | what failed is asked for again at once, the table catches up | `VdomDns` |
| Interfaces | `coordinator.py:1130-1295` | table, counter samples, way of asking | one request, or one for each VDOM; rates | rates are real differences; a failing VDOM is isolated | `Interfaces` |
| Interface relationships, ARP, DHCP, clients | `coordinator.py` | one table each | one request each | retained or emptied on failure | `Poll`; ARP in `ArpSnmp`; what is found by MAC or IP address in `Entities` |
| Detected devices | `coordinator.py:1318-1400` | inventory, recorded changes | request, index and compare | a change is recorded once, against the right predecessor | `DetectedDevices` |
| Radio rates | `coordinator.py:1595` | samples | calculate | a rate is the average since the sample before | no |
| Preferred names | `text.py` | `entry.data`, each entity's value | set, follow an alias, store | an override survives until the alias changes | `PreferredNames` |
| Config flow | `config_flow.py` | `_pending_data` | steps, write back | nothing stored meanwhile is lost; what it stores is used | `ArpSnmp`; `PreferredNames`, `Organization` as a writer |
| Organization | `organization.py` | areas and labels of devices | follow hub or access point, reconfigure | manual choices are kept; what is inherited goes again | `Organization` |
| Entity discovery | `sensor.py` | known-sets, the state last written | add entities on an update, write states | each device has its entities, and they show what is known | `Entities` |
| Management VDOM sensors | `binary_sensor.py` | a known-set | add entities on an update | as for the VDOM sensors of `sensor.py` | no |
| API client, SNMP client | `api/`, `snmp_arp.py` | the version seen last | one request per call | | the version in `ArpSnmp` and `Entities`; the outcomes of a request are the alternatives of the actions of all modules |
| Repairs | `repairs.py`, `coordinator.py` | an issue in Home Assistant | raise, repair, delete | the issue is there exactly while it is needed | `ArpSnmp` |
| Debug captures, diagnostics | `debug.py`, `diagnostics.py` | a bounded list | sequential | | no |
| Privacy | `privacy.py` | none | mask a name | | as a function, in `Filters` |
| Dashboards | `frontend.py`, `frontend/*.js` | none | layout in the browser | | no |

How they interact: Home Assistant calls `async_setup_entry`, which makes the
first poll, registers the coordinator as a hub of the filter manager that all
entries share, and forwards to the platforms. The coordinator calls its
listeners after polls: the entities, the filter manager, the organization
manager and the callbacks that discover new entities. The filter manager calls
its own listeners, the shared selects and switches. Preferred names, the config
flow and the organization manager all write the same `entry.data`.

What is hard here: operations on several entries interleave at each await while
one filter manager is shared; a poll is a sequence of awaits whose tables are
read before it is complete; three kinds of caches with their own refresh times
are fed from each other; each request can fail on its own, and the ways to
handle a failure differ; entities are told of some changes and not of others;
objects (`entry.data`, device entries, the way of asking for interfaces)
are read before an await or a loop and used after it. `PROJECT.json` lists
these hazards line by line with the properties that cover them.

## 2. The modules

Written, in this order:

| Module | Models | Runs | Proofs |
|---|---|---|---|
| `EntryLifecycle` | config entries and the ownership of the shared filters | `EntryLifecycle.cfg` | `Entry_proofs` |
| `VdomDns` | VDOM inventory, DNS configuration and latency with their caches | `MCVdomDns.cfg` | `VdomDns_proofs` |
| `Snapshot` | what a coordinator promises to the entities | through `Poll` | in `Poll_proofs` |
| `Poll` | one poll: requests, failures, indexes, publication, listeners | `Poll.cfg` | `Poll_proofs` |
| `Interfaces` | interface statistics and rates | `MCInterfaces.cfg` | `Interfaces_proofs` |
| `PreferredNames` | names of interfaces in `entry.data`, and the reconfigure flow | `PreferredNames.cfg`, `PreferredNamesOverride.cfg` | `Registry_proofs` |
| `SharedFilter` | what any page of shared filters promises | through `Filters` | in `Filters_proofs` |
| `Filters` | the selections of every page, their options and their checks | `MCFilters.cfg` | `Filters_proofs` |
| `Organization` | areas and labels of the FortiGate, its access points and clients | `MCOrganization.cfg`, `OrganizationNewDevice.cfg` | `Registry_proofs` |
| `Entities` | which sensors exist and what they show | `MCEntities.cfg` | `Entry_proofs` |
| `ArpSnmp` | source of the ARP table, repair issue, config flow, reloads | `ArpSnmp.cfg` | `ArpSnmp_proofs` |
| `DetectedDevices` | inventory of detected devices and its recorded changes | `DetectedDevices.cfg` | `DetectedDevices_proofs` |

The other configurations belong to section 6. A module `MC...` gives the constants of
an instance that a configuration cannot express. `Entry_proofs` holds what is proved
about an entry, its life and its entities, and `Registry_proofs` what is proved about
`entry.data` and Home Assistant's registries: each extends two modules that share no
variable, which is why the definitions of `Entities` and `Organization` that others have
too carry the module's name (`EntitiesInit`, `OrganizationTypeOK`).

`VdomDns` and `Interfaces` are what happens inside the requests that `Poll`
names `vdoms`, `dns` and `interfaces`. They share no variables except
`vdom_names`, which `VdomDns` writes and `Interfaces` reads; `Interfaces`
takes its value from what `VdomDns` guarantees (while requests may fail it is anything
that can be read of the VDOMs, and it is refreshed every so often). `PreferredNames` reads the table of `Interfaces` as it
is published by a poll, and is set up and unloaded by `EntryLifecycle`; in both cases it
takes every outcome these allow.

`ArpSnmp` and `DetectedDevices` are the inside of the requests `arp` and `devices` of
`Poll`; they keep of the other requests that these may fail before or after them, which
is what lets an answer wait for a later poll. `Entities` goes the other way: a poll of
`Poll` is one step, with the three points at which it can be cut off (`Fatal` there), and
the tables behave as `Retained`, `Marked` and `Emptied` say. `Filters` starts where
`EntryLifecycle` registers a hub, and takes from a coordinator that its tables may be
newer than what the manager was told of. `Organization` reads the associations of clients
that a poll publishes. `SharedFilter` and `Filters` are joined by a refinement mapping, and so are `Snapshot`
and `Poll`; the others meet only in what one assumes and the other shows.

An operator whose comment starts with "Wrong:" is not part of a model. It is the
form of the definition after it that a plausible mistake would give, and is there
to show that a property notices the difference.

### EntryLifecycle

`state[e]` is Home Assistant's `ConfigEntryState`, with the set-up in two
phases: `connecting` until the first poll is there (two awaits, one action
each for success and failure, because nothing of the entry is visible before
their end), and `platforms` from `register_hub` on, when the hub is registered and
the platforms are set up one by one in any order. `hubs`, `owner` and `manager`
are `_hubs`, `_owner_entry_id` and `hass.data[DOMAIN]["filter_manager"]`.
`shared[p][e]` is what the entities that platform `p` of entry `e` added listen
to. An action is what the code does between two awaits: `Register` is lines
223-292 of `__init__.py`, `FinishUnload` is 300-314, which Home Assistant
continues with the set-up of a reload while it holds the same lock. Home
Assistant is external: it holds a lock per entry, runs operations on
different entries concurrently, cancels a retry when a reload is asked for, and
gives up an entry whose unload failed. The successor is left open among
the registered entries; the code takes the one registered first. Also left out is
the moment within one platform's set-up, which has no await, and a set-up that fails after
`register_hub`: all that could raise there is Home Assistant's forwarding of the platforms
(`__init__.py:292`), which reports their exceptions and raises none of them, so it would
take a platform that cannot be imported or a task that is cancelled. `Filters` is wider
here: its `RegisterHub` replaces a hub that is registered already, because
`register_hub` does, whatever may lead there.

### VdomDns

One poll is `list`, `global`, `dns`, `vdom_dns`, `latency`, in which the first two
and the next two are skipped while their results are recent. `vdomAge` and
`configAge` count poll intervals since the refresh times, up to `TTL`;
`Slow` lets an interval pass during a request. `fg` is the FortiGate's own
configuration, which may change at any await until it settles. A configuration
has a setting per VDOM and one address per setting: the two addresses are
treated alike by the code. `Rebuild` is `_rebuild_dns_servers`, and
`Configured` is `_configured_dns_servers`.

An answer is a failure when its shape is wrong, and is accepted otherwise, whatever can be
used of it: `_vdom_results` and `_vdom_dns_results` skip entries without notice, be it all of
them. So each answer that is accepted gives some part of what the FortiGate has
(`Usable`, `GlobalReadings`, `OverrideReadings`), all of it once it has settled. An accepted
list with nothing usable empties the inventory for as long as the cache lasts, unlike a
failure, which retains it. What the code does promise is `InventoryIsRetried`: an inventory of
which one half was not received in the last refresh is asked for by the next poll.

### Poll and Snapshot

`pc` is the request being waited for. The code's fifteen requests (with one for
`channels`, which is one for each model of access point) are made in their
order; for the ones in `Tracked` the module follows the answer through `got` (the
coordinator's own fields and local variables), `reads` (what entities read: some
fields at once, indexes after `get_vaps`, the rest from the published data) and
`data` (published). How a failure is treated is data: `Fatal`, `Retained`,
`Marked`, `Emptied`. `Tell` is Home Assistant's rule: listeners are called when
the data differs, because `always_update` is off, or when the outcome does.
`CatchesTypeError` are the handlers that also survive an answer of the wrong
kind; elsewhere such an answer ends the poll.

`Snapshot` knows no requests, no indexes and no rule for telling listeners. Tables are
received one at a time, or lost one at a time in the way that is theirs; a success
shows all that has been received, whatever was shown before, a failure shows nothing,
and between two outcomes what is shown stays. Under the mapping `received` is `got` and
`shown` is `seen`, what the entities showed when they were told the last time. An
entity that was not told, or that reads an index of an earlier poll, would show something
else than what was received.

### Interfaces

The request for all VDOMs is `all`, those for each one are `each`, asked in
lexical order; `mode` is `_interface_wildcard_supported`. `exists`, `count` and
`boot` are the FortiGate's interfaces, their counters and the runs of these, which
change between answers. A sample carries the run it was taken in, which the code
does not see. Time is abstract: `elapsed > 0` is assumed, and a rate stands for
the difference of the two samples. A request for a single VDOM that fails leaves
that VDOM out; one that is answered with something other than an object ends the poll
(`VdomRaises`), because the `TypeError` of `api/client.py` is not among what the code catches
there, and the last table stays. Interfaces without a name are left out of the answers.

### PreferredNames

`entity[i]` is `_value` and `_source_alias` of the entity for interface `i`, `data`
the dictionary of names in `entry.data`, `flow` the one in the flow's
`_pending_data`. Dictionaries are references: `stored_preferences` of
`async_setup_entry` may be the object that `entry.data` holds, and `shared` says
whether it is, and whether a flow has taken it from there. Its content needs no
variable. Whoever shares it has the same; while nobody does,
`add_new_interfaces` overwrites it before it reads it. `todo` holds the
listeners of one update that are still to be called; between them nothing else runs, and
their order is left open because it depends on how long Home Assistant takes to
add the entities. `SetUp` is a first poll and `text.async_setup_entry`. An answer may
lack interfaces, because their VDOM has failed. That interfaces are synchronised
is assumed, and a restart is an `Unload` and a `SetUp` whose data was saved.

### Filters and SharedFilter

The pages share nothing but the hubs, so a behaviour follows one of them: `page` is
chosen at the start and `sel` maps its filters to their selections, which are the
attributes `_selected_...` of `FilterManager`. `hubs[e]` is a hub as registered: its
name, what its coordinator holds, and its client devices in the registry. `told` is
whether the manager has been told of what the coordinators hold; a poll replaces tables
one by one (`Fetch`) and tells at its end (`CoordinatorUpdate`). The Wi-Fi page reads
published data only, so `Fetch` does not concern it. `Options` is the properties
`..._options`, `ResetBy` what the methods `async_select_...` reset, and `Normalised` is
`_handle_coordinator_update`: up to three rounds, since a filter is checked in the scope
that those before it have left. `Select` checks the option and applies it in one step;
in the code there is no await between. A switch is a filter with the options `on` and
`off`. A masked name is `Masked[x]`, and two names may become one. The page of the Wi-Fi graphs has a time span only. Two of the seven time
spans stand for all; the windows of the last sighting are not checked by the code, and
their options never change.

`SharedFilter` knows no tables: a filter is picked from what it offers, the world may
drift, and when the page has been told, each selection is an option again, and is the one
before, the first one, or a hub's new name. Under the mapping `offers` is `Options`,
`fresh` is `told` and `excused` the one case in which the code leaves a selection behind.

### Organization

`area` and `labels` are what Home Assistant's device registry has for each device that
exists, `settings` the configured ones, `ap` the associations published last and
`memory` the manager's `_client_ap_labels`. Each handler runs without an await, so each
is one action, and works on a record of the registry through the operators that stand
for the `_sync_...` methods. These are composed in the order of the code, and take their
labels from where the code takes them: `AddLabel` and `NewDeviceLabels` from a snapshot,
the others from the registry. `Stop` is an unload, a reload or a restart. What the user
does is limited to `MaxEdits`. `own`, `placed` and `forgotten` are history: what the
user gave a client, and which labels were in a memory that is gone. Changes the manager
makes itself are seen by its own listener, which ignores them.

### Entities

`tables` is what the entities read, `known[t]` the known-sets of the listeners that add
sensors, `shown` the state written last for each sensor: a row's own fields, those found
by MAC address in the ARP table, the leases or the inventory, the last known host
name, and an access point's state, which belongs to no coordinator and never writes
again. `firmware` is the sensor that returns early while the release is
the same. A sensor that writes only if its state differs comes to the state it would
write now, so one action tells them all. `registry` and `stored` are Home Assistant's
entity registry and its restore state, and both outlive an unload. After a failure that
the listeners are told of, those of most tables find new rows in what entities read already;
that of the clients looks at the published data (`AddedFromData`) and finds them at the next
success. The sensors are those of `SensorsOf`; the observation status of a detected device
(`sensor.py:3168`) is not among them, since it turns from "Recently seen" to "Stale" as time goes
by and shows that only when the listeners are told: `ShownIsCurrent` does not hold for it. Host names and
addresses are one value: of `Value[t]`, `Unnamed` is a row without one.

### ArpSnmp

`fw` and `accepts` are the FortiGate: its version, and the community it answers. `version`
is the client's, refreshed by each API answer and by no SNMP one. `poll` stands before the ARP
table (`aps`), at it (`arp`), or after it (`rest`), and carries `requires_snmp`, which
the code computes before the request and uses after it. `table` is where the table
came from, `failed` is `_arp_error_logged`. `flow` is the config flow with the forms that are
left, `repair` the repair flow; each has a test of the community that is awaited
(`walk`), during which everything else may happen. `reload` is a scheduled reload,
`client` what the running coordinator was set up with. `NoCoordinator` is what an unload
or a failed set-up leaves. A set-up fails in two ways. A request that fails is tried again
by Home Assistant (`retry`). A status answer without a version that can be parsed, without a
serial number or without results raises something else, and Home Assistant leaves the entry in
an error until somebody reloads it (`error`, `SetupRaises`, `UserReloads`). `calm` is the
point after which nothing changes or fails any more; there may be none, and it does not fall
into a set-up whose status may be one of those. `Mended` therefore speaks of an entry in an
error only if a reload of it is due: otherwise nothing in the program would ever load it.

### DetectedDevices

`inventory`, `available` and `age` are `_device_inventory`, its availability and its
refresh time in polls; `byMac`, `indexed` and `changes` are
`_detected_devices_by_mac`, `_detected_device_inventory_indexed` and
`_detected_device_changes`. `Index` is the end of a poll that succeeds, whether or not
it has asked for the inventory. `since` is history: each device as it was when its change was
recorded. A first poll that fails takes the coordinator with it.

## 3. What is checked

`tlc -workers 2 -config X.cfg M` in this directory.

| Run | States | Property | Says |
|---|---|---|---|
| lifecycle | 23 k | `SharedOnlyWithOwner` | shared entities exist once |
| | | `NoStaleManager` | nobody listens to a manager that was shut down or replaced |
| | | `OwnerShowsFilters` | no owner without shared entities |
| | | `HandOver` | after the owner's unload the filters get an owner again, unless the other entry is lost |
| poll | 250 k | `OnePicture` | after a success fields, indexes and data are of one poll |
| | | `ListenersTold` | entities know all they would show |
| | | `AvailableIsCurrent` | what failed is not shown as available |
| | | `Recovers` | polls always recover |
| | | `ImplementsSnapshot` | entities show all that was received up to a success, or nothing |
| vdom_dns | 1.4 M | `UnavailableIsRetried` | no cache hides a failure |
| | | `CatchesUp` | right within two refresh intervals |
| | | `InventoryIsRetried` | no cache hides an inventory of which half is missing |
| interfaces | 644 k | `SamplesAreOfTable` | samples and table stay in step |
| | | `RatesFollowOn` | a rate is the difference to the table before |
| | | `OnlyFailedAreDropped` | a failing VDOM is isolated |
| | | `Recovers` | the table becomes complete and stays so |
| preferred_names | 1.3 M | `StoredAgrees` | what is stored for an entity is what it shows |
| | | `AliasApplied` | an update leaves no alias unapplied |
| | | `OthersAreKept` | names are lost by the shared dictionary and old copies only |
| filters | 60 k | `Selectable` | when the manager has been told, each selection is an option |
| | | `NoNeedlessReset` | a poll takes away only what the scope that is left does not offer |
| | | `RenameKeepsScope` | a new name keeps each page's FortiGates, if names are distinct |
| | | `ImplementsSharedFilter` | every page keeps the promise of `SharedFilter` |
| organization | 1.2 M | `ClientLabelsKept` | no handler takes a client's own label |
| | | `ApLabelsAccounted` | an access point's label stays no longer than it is remembered |
| | | `PrivateAreaKept` | an area chosen for a client alone stays |
| | | `SetupIsComplete` | a restart right after a set-up changes nothing |
| entities | 118 k | `ShownIsCurrent` | after a success each sensor shows what it would write now |
| | | `AllDiscovered` | all that is listed has its sensors |
| | | `RememberedReturn` | what had sensors has them in later loads |
| | | `ReleaseShown` | the firmware sensor names the release answered last |
| | | `NamesKept` | a host name once learned is never lost |
| arp_snmp | 738 k | `IssueMatches` | the issue says what the last request has shown |
| | | `SettingsInUse` | the coordinator works with the entry's settings, or a reload is due |
| | | `Mended` | once all is calm, the issue and the table are right for good |
| devices | 192 k | `ChangesExplain` | a device is as it was when its change was recorded |
| | | `CatchesUp` | the inventory catches up |

Three runs, `organization`, `entities` and `arp_snmp`, also check a type invariant
(`OrganizationTypeOK`, `EntitiesTypeOK`, `TypeOK`), because it says which states go
together as well: in `Entities`, say, that exactly the rows with sensors have a state for
each of them. For the other modules `TypeOK` is proved for every instance and not
repeated here; so is `OwnerIsRegistered` of `EntryLifecycle`. Two runs,
`override` and `new_device`, show that the code does not do what a text in the repository says;
see section 6.

### Bounds

- Two entries: one that owns the filters and leaves, and one that is asked to take
  over, which is what `HandOver` and its excuse are about. Two
  managers: `GetOrCreateManager` takes an identity nobody refers to, and with
  `NoStaleManager` at most one is in use. A third entry is one that is overlooked
  (`EntryLifecycleOrphan.cfg`); the proofs cover every number.
- Two VDOMs, two servers and `TTL = 3` polls instead of ten: the refresh times can be
  equal, one or two polls apart, which gives all the orders in which the two caches
  expire. The configurations include an override in either VDOM, a management VDOM
  that changes, and a VDOM that is deleted. Polls after the FortiGate has
  settled are counted up to `2 * TTL - 1`; with one less `CatchesUp` fails.
- Three tracked tables, one for each way of treating a failure and of reading a table;
  the fifteen requests are all made. A single value besides the empty one is
  enough for "differs from before".
- Two VDOMs with an interface each, counters up to 1 and one restart: enough for a
  counter that goes back, stays or goes on, and the values do not decide which way is taken.
- Two interfaces: one that is written and one that must be kept. One alias besides
  the empty one, so that an alias can appear, go and come back, and one name of the
  user's.
- Two FortiGates with two names, which may be the same, so that one leaves the scope
  while the other stays. Two contents for a coordinator: in one there are fewer interfaces,
  devices and VDOMs (none of the last two kinds, so the hub itself leaves the page), and
  a profile that assigns SSIDs by mode instead of by name. One FortiGate masks, and two of
  its access points have one masked name. Two of the device page's columns stand for
  six, which the code treats alike. Every page is followed.
- One FortiGate, two access points and one client, which can roam. There is an area and a
  label for each role: of clients alone, of access points, of the settings. Four
  settings: nothing, two with everything on, and a label without inheritance. Three
  edits: one to set the scene, one that acts, one that undoes.
- Five kinds of sensors (ARP, clients, devices, VDOMs, firmware) with one row each, and
  clients with or without a name: rows of a table do not meet, rows of one MAC address in
  different tables do. `EntitiesFirmware.cfg` adds access points. Two releases, which
  are symmetric. Nothing is fair here and an entry may stay unloaded, so a state without a
  successor (no row left to forget, say) is not an error: deadlock is not checked.
- Two communities: one that is stored and one that the agent answers. Of the modes two
  suffice, with a form after the SNMP step and without: the form in which the flow
  waits while others write.
- Two devices with one compared field of two values, and an answer used for three polls: one
  to index it, one that fails, one more before it is due again.

### Fairness

`lifecycle`: the event loop runs ready tasks, a request ends or times out (the client
has a time-out), and a retry timer fires. No fairness on the user's actions, nor on
which outcome a set-up has. `poll`: the coordinator schedules its next poll after every
poll, successful or not, and each request ends; no fairness on success, so
recovery is only claimed once failures have stopped. `interfaces` needs in
addition that the inventory is refreshed again and again, strongly fair because it
is refreshed in some polls only; `CatchesUp` of `VdomDns` is why it is. `arp_snmp`: a
scheduled reload, a retry and a set-up take place, and polls go on; nobody has to answer a
form or reload an entry, and `Mended` only speaks of what follows once `calm` holds, which
nothing enforces. `devices`: polls go on, with the same `calm`. `filters`, `organization` and
`entities` have no liveness property and no fairness: what they promise has to
hold at once. Deadlock is checked in all runs but `entities`.

## 4. What is proved

Every invariant and every action property of the passing runs, and both refinements, are
proved for every value of the constants under the modules' `ASSUME`s: any number of
entries, tables, VDOMs, devices, names and edits. The assumptions say that the values
that stand for "nothing" are none of the others, and what the code takes for granted of its
inputs: a configuration of the FortiGate has finitely many VDOMs and its management VDOM
is one of them (`ManagementAssumption`), devices of different kinds are different
(`OrganizationAssumption`), and the like. TLC evaluates them in each run.

- `Entry_proofs`, about `EntryLifecycle`: `TypeOK`, `SharedOnlyWithOwner`,
  `OwnerIsRegistered`, `NoStaleManager`, `OwnerShowsFilters`. The properties are not
  inductive alone. The invariant adds which states go with being registered as a hub, and
  that a platform that is not set up has added no entities. With it the manager that
  `FinishUnload` drops is one nobody listens to.
- `Entry_proofs`, about `Entities`: `EntitiesTypeOK`, `ShownIsCurrent`, `AllDiscovered`,
  `RememberedReturn`, `ReleaseShown`, `NamesKept`. `ShownIsCurrent` and `ReleaseShown` speak
  of the time after a success, and the listeners are not told of every poll: that the
  sensors are current after one nobody was told of follows from what they showed
  before, so the invariants are inductive together only. What they lack is that the
  firmware sensor compares with the release it shows (`ComparedIsShown`), that an entry
  that is not loaded has no sensors (`NoneUnloaded`), and that what the sensor of the last
  known host name shows is a name or nothing (`LastNames`).
- `VdomDns_proofs`: `TypeOK`, `UnavailableIsRetried`, `InventoryIsRetried` and `CatchesUp`.
  The strengthening of the first says that while a request for
  the configuration is awaited, its refresh time has expired, so the failure that is
  about to mark it unavailable cannot meet a recent time. For the inventory it says the same
  of the request for the list, and that a list that was accepted is known. `CatchesUp` needs the ages of both
  caches to be tied to the number of polls since the FortiGate settled: an inventory that
  is not yet right is at least that old, so one of the first `TTL` polls reads it; and a
  configuration that was read with an old inventory was read in one of the first `TTL - 1`
  and is read again `TTL` polls later. The bound of the run, `2 * TTL - 1`, is the sum.
- `Poll_proofs`: `TypeOK`, `OnePicture`, `ListenersTold`, `AvailableIsCurrent`, and the
  refinement `ImplementsSnapshot`. The invariant says where entities read each table from
  (the coordinator's field, the published data, or an index that before the last request is
  of an earlier poll), that nothing is published before the first success, and that what
  entities were told of last is what they would be shown for the published data and the
  outcome. For `AvailableIsCurrent` it takes where in the order of requests a poll stands: a
  table that has failed in this poll is one whose turn has been, and it is emptied or
  marked from that moment on. The refinement rests on the lemma `Published`: whether the
  listeners are told or not, at a success they show what was received. `RecoveryIsNear` is
  explained below.
- `Interfaces_proofs`: `TypeOK`, `SamplesAreOfTable`, and the action properties
  `RatesFollowOn` and `OnlyFailedAreDropped`. The first two properties together are
  inductive; the third needs `MissingExcused`: while VDOMs are asked, every interface
  of the last table that has no answer yet is gone, restarted, or in a VDOM that has
  failed, is unknown or is still to be asked, and runs of counters in tables are never
  ahead of those of the FortiGate. `RecoveryIsFinal` is explained below.
- `Registry_proofs`, about `PreferredNames`: `TypeOK`, `StoredAgrees`, `AliasApplied` and
  the action property `OthersAreKept`. The invariant states `AliasApplied` from the moment
  the entities have handled an update, not only from its end, so that the
  callback may still come after them; and that without a platform there are no
  entities, so that a flow that ends then contradicts none.
- `Registry_proofs`, about `Organization`: `OrganizationTypeOK`, `ClientLabelsKept`,
  `ApLabelsAccounted`, `PrivateAreaKept` and the action property `SetupIsComplete`. The
  handlers are compositions of operators on a registry, and so is the argument.
  `Harmless(r, new)` is a relation between two registries (labels and areas that only
  clients have stay, labels of access points stay traceable, and both remain what they
  are); it is reflexive and transitive, each `_sync_...` operator has a lemma that says
  it is harmless, and the handlers follow by their composition. Only the edits of the
  user are treated by themselves: what a changed access point takes from its clients
  is what they had from it. For `SetupIsComplete` the parts of `ApplyExistingDevices`
  have a second lemma each, saying what it establishes (`Assigns`, `AreasFollow`,
  `LabelsFollowHub`, `LabelsFollowAp`) and that it leaves alone what the parts before
  it have; where all four hold, the whole does nothing (`AppliedStays`). It is the order of
  the parts that the second half of each lemma depends on.
- `ArpSnmp_proofs`: `TypeOK`, `IssueMatches`, `SettingsInUse`. `IssueMatches` speaks of the
  time between polls. Its strengthening follows the issue through a poll: after the
  decision on how to request the table the issue is gone if SNMP is not required, and is there if
  there are no settings; after the request it is what the request has shown.
  `SettingsInUse` is inductive together with the types, because every writer of `data`
  schedules a reload or precedes a set-up. `MendedIsFinal` is explained below.
- `DetectedDevices_proofs`: `TypeOK`, `ChangesExplain`, and the action property
  `LatestRetained`, which needs the part of `TypeOK` that says that every device with a
  change was seen. `CatchingUpIsNear` is explained below.
- `Filters_proofs`: `TypeOK`, `Selectable`, the action properties `NoNeedlessReset` and
  `RenameKeepsScope`, and the refinement `ImplementsSharedFilter`: every step of
  `Filters` is a step of `SharedFilter` or changes nothing it speaks of. The lemma they
  rest on is `NormalisedIs`, about the rounds of `_handle_coordinator_update`: what a
  filter offers depends on filters of earlier rounds only, so a selection that passed
  its round is still an option at the end, and one that fell back would not be one. The
  invariant adds the filters that no round checks: their options do not change, or, for
  the FortiGate of the Wi-Fi page, the selection goes with its hub unless a set-up has
  replaced the hub under another name.

Only model-checked are the liveness properties: `HandOver`, `Recovers` of `Poll` and of
`Interfaces`, `Mended`, and `CatchesUp` of `DetectedDevices`. They hold under fairness, and
reasoning about fairness needs `ENABLED`, which is out of the prover's reach. Of four of
them the part that needs no fairness is proved, about `Spec` without fairness:

- `RecoveryIsNear` of `Poll_proofs` and `CatchingUpIsNear` of `DetectedDevices_proofs`. A
  `Distance` to the good state, a natural number, is given for each state. Once `calm`,
  every step either leads to the good state or makes the distance smaller, and no step leaves
  the good state. In `Poll` it counts requests; in `DetectedDevices` the steps
  until an answer that is out of date has reached the age `Refresh`, and those from the next
  answer to the index. What TLC adds is that there are steps: that the program does not stop.
- `RecoveryIsFinal` of `Interfaces_proofs` and `MendedIsFinal` of `ArpSnmp_proofs`. Here
  there is no such distance: traffic, and the polls while a reload is pending, are steps that
  lead nowhere. What is proved is that the end is stable. The table of interfaces
  being complete is not: it may be complete while a VDOM is unknown, and the next poll
  that asks VDOM by VDOM then loses the interfaces of that one. `Settled` adds that the VDOMs are known
  where they are asked one by one, and what a poll under way has received; `Settling`
  adds to what `Mended` promises that no reload is pending and that a
  request for the ARP table is the one the version calls for. What TLC adds is that these
  states are reached.

## 5. What is not modelled, and the plan

Next, most important first:

1. The part of `HandOver` that needs no fairness: while an owner is being unloaded and
   another FortiGate is loaded, that the candidates left to ask only become fewer.
2. An abstract specification of the shared filters' ownership (the filters are with one
   owner, on offer, or lost), implemented by `EntryLifecycle`.
3. An abstract specification of the names in `entry.data` as independent registers, one per
   interface, which `PreferredNames` implements but for the shared dictionary.

Not modelled: radio rates (each is the difference to the sample before over the time in
between; samples are never dropped, so a rate over an absence is the true average of it,
and there is no state a failure could disturb); the refresh interval of the interface
relationships, which is that of the VDOMs over again; the name of the FortiGate among
the preferred names beyond its effect on the filters; the migration of old entries; the
validation of a form's fields, and the names and colours of labels that are created.
SNMP decoding, masking, translations, debug captures, diagnostics and dashboards, and
what the entities in `sensor.py` compute from a record, are sequential code over data
without a protocol.

## 6. Where the code and its texts differ

Two runs, each for a bug:

- `override` (`PreferredNamesOverride.cfg`). "A Home Assistant override is preserved
  across refreshes and restarts; it is replaced only after the alias changes on the
  FortiGate." Once `stored_preferences` is the object in `entry.data`, which it is
  after a set-up or an update that stored a new interface, the next
  `add_new_interfaces` clears it and updates it from itself. All stored names are
  gone, and the entities that are added next start from the alias: at the next set-up,
  or, as in the run, in the same update when an interface is back. `dict(latest_value)`
  taken before `clear()` would do.
- `new_device` (`OrganizationNewDevice.cfg`). "Select an existing label or enter a new
  label name to apply to the FortiGate, APs, and wifi clients." `_apply_to_new_device`
  labels a device up to three times, each time starting from the labels of the same
  snapshot. The last one that changes anything wins, so a client of a labelled access point
  ends up without the configured label and those of the hub.

Further disagreements, each kept as a configuration whose property TLC finds
violated (`tlc -config X.cfg M`). They concern the wording, a consequence that nobody
may mind, or a corner in which the code falls short of the text:

| Configuration | Module | Property | Text | What happens |
|---|---|---|---|---|
| `EntryLifecycleOrphan.cfg` | `MCEntryLifecycle` | `LoadedImpliesOwned` | `__init__.py:297` "Unload a FortiGate and transfer shared filter ownership if needed." | three entries: the owner is unloaded while a second is loaded and a third has registered; if the third is asked and fails or is disabled, nobody is asked any more |
| `PollWifi.cfg` | `Poll` | `WifiFailuresAreIsolated` | `CHANGELOG.md:17` "Wi-Fi response failures no longer make VDOMs and unrelated data unavailable." | holds for failed client requests; a failure for access points, VAPs or profiles, or a client answer of the wrong kind, ends the poll |
| `VdomDnsAvailable.cfg` | `MCVdomDns` | `DataAvailableAsDocumented` | `coordinator.py:750` "Return whether DNS configuration or latency data is current." | it is the availability of the configuration alone |
| `VdomDnsForgotten.cfg` | `MCVdomDns` | `InventoryRetained` | `coordinator.py:777` "Return VDOM inventory while retaining the last valid configuration." | holds for failures; a list that is accepted although none of its entries can be used (`[]`, or objects without names) replaces the inventory, and VDOMs the FortiGate still has are forgotten |
| `InterfacesReset.cfg` | `MCInterfaces` | `ResetGivesNoRate` | `README.md:195` "The first sample after setup or a counter reset remains unavailable" | a counter that has reached its last sample again since the reset is not recognised |
| `FiltersRename.cfg` | `MCFilters` | `RenamePreservesSelections` | `filter_manager.py:278`, active selections are preserved | of two FortiGates with one name (masked host names agree easily) one is renamed, and the selection leaves the other |
| `EntitiesFirmware.cfg` | `MCEntities` | `FirmwareShown` | `CHANGELOG.md:143` "Firmware upgrades are reflected by the firmware entity immediately" | the early return compares releases, not availability: an upgrade seen in a poll that then fails is written as unavailable, and stays so after the polls recover |
| `ArpSnmpSettings.cfg` | `ArpSnmp` | `SettingsRetained` | `CHANGELOG.md:147`, SNMP settings are retained while ARP stays synchronized | a flow that was opened before a repair writes its older copy back over what the repair has stored |
| `OrganizationOldLabel.cfg` | `MCOrganization` | `OldLabelRemoved` | `organization.py:95-101`, the old label is removed from every device | the new label is added to a snapshot that still has the old one, which comes back |
| `OrganizationRestart.cfg` | `MCOrganization` | `NoLabelLeftBehind` | `README.md:351-353`, labels of the access point follow the client | which labels came from an access point is only in memory: a client that was away during a restart and comes back at another access point keeps those of the one it left |

Also seen, and not promised anywhere: `OwnerShowsAllFilters` does not hold. When the
owner is unloaded between the moments the select and the switch platform of another
entry claim the ownership, the new owner has the entities of one platform only, until
it is reloaded. An issue survives
the removal of an entry whose first poll never succeeded, because only the unload of a
loaded entry deletes it. A repair that is submitted after the synchronization of ARP was
switched off stores a community that nothing uses.
