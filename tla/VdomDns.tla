------------------------------- MODULE VdomDns ------------------------------
(***************************************************************************)
(* The part of a poll that reads the VDOMs and their DNS servers           *)
(* (coordinator.py): the VDOM inventory and the DNS configuration, both    *)
(* kept for five minutes, the DNS latency, and the table of DNS servers    *)
(* that is rebuilt from them.                                              *)
(*                                                                         *)
(* Every request is an await: the FortiGate may be reconfigured between    *)
(* two of them, and what was read before is used after.  A request may     *)
(* fail, which includes an answer of an unexpected shape, and an answer    *)
(* that is accepted may have entries that cannot be used: they are skipped *)
(* without notice, be it all of them.                                      *)
(*                                                                         *)
(* One role per setting: the primary server stands for both.               *)
(***************************************************************************)
EXTENDS Integers, FiniteSets

CONSTANTS
  Vdom,         \* names of virtual domains
  Root,         \* the name "root", used when no VDOM is known
  NoVdom,       \* Python's None as management VDOM
  Server,       \* addresses of DNS servers
  NoServer,     \* a setting without a usable address
  Inherit,      \* the setting of a VDOM that has "vdom-dns" switched off
  Config,       \* configurations the FortiGate may be given
  MinVdom(_),   \* the first name of a set of VDOMs, in lexical order
  TTL           \* the refresh interval of 300 s, in poll intervals

Setting == Server \cup {NoServer, Inherit}

ConfigType ==
  [vdoms : SUBSET Vdom,                            \* its virtual domains
   management : Vdom,                              \* the management VDOM
   global : Setting \ {Inherit},                   \* the global DNS setting
   override : [Vdom -> Setting]]                   \* and those of the VDOMs

ASSUME VdomAssumption ==
  /\ Root \in Vdom
  /\ NoVdom \notin Vdom
  /\ NoServer \notin Server /\ Inherit \notin Server \cup {NoServer}
  /\ Config \subseteq ConfigType
  /\ Config # {}
  /\ \A S \in SUBSET Vdom : S # {} => MinVdom(S) \in S
  /\ TTL \in Nat \ {0}

(* A FortiGate has its management VDOM, and never infinitely many.         *)
ASSUME ManagementAssumption ==
  \A c \in Config : IsFiniteSet(c.vdoms) /\ c.management \in c.vdoms

Key == Vdom \X Server      \* DNSServerKey: a server as seen by one VDOM

VARIABLES
  fg,          \* the FortiGate's configuration
  calm,        \* polls finished since the FortiGate settled, or -1 before
  pc,          \* the request the poll is waiting for
  listValid,   \* vdom_list_valid
  global,      \* the global DNS setting this poll has read
  vdoms,       \* vdom_names, from _vdoms
  known,       \* "available" of _vdoms
  management,  \* _management_vdom
  vdomAge,     \* intervals since _vdom_inventory_updated_at; TTL if longer, or
               \* if there is no such time
  config,      \* keys of _dns_configuration and its "available"
  configAge,   \* the same for _dns_configuration_updated_at
  latency,     \* keys of _dns_latency and its "available"
  servers      \* _dns_servers and its index

vars == <<fg, calm, pc, listValid, global, vdoms, known, management, vdomAge,
          config, configAge, latency, servers>>

inventory == <<vdoms, known, management, vdomAge>>
dns == <<config, configAge, latency, servers>>

CalmBound == 2 * TTL - 1      \* polls are counted up to this many

-----------------------------------------------------------------------------
(* _rebuild_dns_servers: configured servers only; a latency entry adds to  *)
(* the record of its server.                                               *)
Rebuild(conf, lat) ==
  [keys       |-> conf.keys,
   configured |-> conf.available,
   measured   |-> IF lat.available THEN conf.keys \cap lat.keys ELSE {}]

Nothing == [keys |-> {}, available |-> FALSE]

Init ==
  /\ fg \in Config
  /\ calm = -1
  /\ pc = "idle"
  /\ listValid = FALSE
  /\ global = NoServer
  /\ vdoms = {} /\ known = FALSE /\ management = NoVdom /\ vdomAge = TTL
  /\ config = Nothing /\ configAge = TTL
  /\ latency = Nothing
  /\ servers = Rebuild(Nothing, Nothing)

-----------------------------------------------------------------------------
(* The FortiGate and the time.                                             *)

Reconfigure ==
  /\ calm = -1
  /\ fg' \in Config \ {fg}
  /\ UNCHANGED <<calm, pc, listValid, global, inventory, dns>>

(* From here on it is not reconfigured, fails no request and answers in    *)
(* full.                                                                   *)
Settle ==
  /\ calm = -1
  /\ pc = "idle"
  /\ calm' = 0
  /\ UNCHANGED <<fg, pc, listValid, global, inventory, dns>>

MayFail == calm = -1

(* What can be used of the entries S of an answer that is accepted.        *)
Usable(S) == IF MayFail THEN SUBSET S ELSE {S}

Older(age) == IF age < TTL THEN age + 1 ELSE TTL

(* An interval passes while the poll waits for an answer.                  *)
Slow ==
  /\ pc # "idle"
  /\ vdomAge' = Older(vdomAge)
  /\ configAge' = Older(configAge)
  /\ UNCHANGED <<fg, calm, pc, listValid, global, vdoms, known, management, config,
                 latency, servers>>

-----------------------------------------------------------------------------
Fresh(age) == age < TTL

(* Where the poll goes on when the inventory is there.                     *)
DnsStage(age) == IF Fresh(age) THEN "latency" ELSE "dns"

(* The next poll reaches this part of its work, an interval after the one  *)
(* before it or more.                                                      *)
StartPoll ==
  /\ pc = "idle"
  /\ vdomAge' = Older(vdomAge)
  /\ configAge' = Older(configAge)
  /\ pc' = IF Fresh(vdomAge') THEN DnsStage(configAge') ELSE "list"
  /\ UNCHANGED <<fg, calm, listValid, global, vdoms, known, management, config,
                 latency, servers>>

(* The first half of _async_get_vdom_inventory: get_vdoms.  An answer that *)
(* is accepted replaces the list, whatever is usable of it (_vdom_results).*)
ListAnswer ==
  /\ pc = "list"
  /\ pc' = "global"
  /\ \/ vdoms' \in Usable(fg.vdoms) /\ known' = TRUE /\ listValid' = TRUE
     \/ MayFail /\ listValid' = FALSE /\ UNCHANGED <<vdoms, known>>
  /\ UNCHANGED <<fg, calm, global, management, vdomAge, dns>>

(* Wrong: the inventory counts as refreshed although its list was not      *)
(* received.                                                               *)
GlobalAnswerStamps ==
  /\ pc = "global"
  /\ pc' = DnsStage(configAge)
  /\ \/ management' = fg.management /\ vdomAge' = 0
     \/ MayFail /\ UNCHANGED <<management, vdomAge>>
  /\ UNCHANGED <<fg, calm, listValid, global, vdoms, known, dns>>

(* The second half: get_vdom_global_settings.  The inventory counts as     *)
(* refreshed only when both halves were valid.                             *)
GlobalAnswer ==
  /\ pc = "global"
  /\ pc' = DnsStage(configAge)
  /\ \/ /\ management' = fg.management
        /\ vdomAge' = IF listValid THEN 0 ELSE vdomAge
     \/ MayFail /\ UNCHANGED <<management, vdomAge>>
  /\ UNCHANGED <<fg, calm, listValid, global, vdoms, known, dns>>

-----------------------------------------------------------------------------
(* _async_get_dns_configuration.                                           *)

ManagementVdom ==
  IF management # NoVdom THEN management
                         ELSE MinVdom(IF vdoms = {} THEN {Root} ELSE vdoms)

(* Wrong: the override of the management VDOM counts as well.              *)
SettingOfEach(v, glob, overrides) == IF overrides[v] # Inherit THEN overrides[v] ELSE glob

(* The setting in effect for a VDOM; the management VDOM has the global    *)
(* one, and another VDOM overrides it if its own is switched on.           *)
SettingOf(v, glob, overrides) ==
  IF v # ManagementVdom /\ overrides[v] # Inherit THEN overrides[v] ELSE glob

(* _configured_dns_servers.                                                *)
Configured(glob, overrides) ==
  {key \in (IF vdoms = {} THEN {ManagementVdom} ELSE vdoms) \X Server :
     key[2] = SettingOf(key[1], glob, overrides)}

(* The last results are kept, and are not available.                       *)
Unavailable(table) == [keys |-> table.keys, available |-> FALSE]

NoOverride == [v \in Vdom |-> Inherit]

(* Wrong: a failure counts as a refresh.                                   *)
ConfigFailsStamped ==
  /\ config' = Unavailable(config)
  /\ configAge' = 0

ConfigFails ==
  /\ config' = Unavailable(config)
  /\ UNCHANGED configAge

ConfigRead(glob, overrides) ==
  /\ config' = [keys |-> Configured(glob, overrides), available |-> TRUE]
  /\ configAge' = 0

(* What may be read of the global setting, whose address may be unusable,  *)
(* and of the others, which may besides be skipped or not say that they    *)
(* are switched on (_vdom_dns_results).                                    *)
GlobalReadings == {fg.global} \cup (IF MayFail THEN {NoServer} ELSE {})

OverrideReadings ==
  IF MayFail
  THEN {read \in [Vdom -> Setting] : \A v \in Vdom :
          read[v] # fg.override[v] =>
            fg.override[v] # Inherit /\ read[v] \in {NoServer, Inherit}}
  ELSE {fg.override}

(* get_global_dns; with one VDOM or none it is the only request.           *)
DnsAnswer ==
  /\ pc = "dns"
  /\ \/ /\ Cardinality(vdoms) > 1
        /\ global' \in GlobalReadings
        /\ pc' = "vdom_dns"
        /\ UNCHANGED <<config, configAge>>
     \/ /\ Cardinality(vdoms) <= 1
        /\ \E glob \in GlobalReadings : ConfigRead(glob, NoOverride)
        /\ pc' = "latency"
        /\ UNCHANGED global
     \/ /\ MayFail
        /\ ConfigFails
        /\ pc' = "latency"
        /\ UNCHANGED global
  /\ UNCHANGED <<fg, calm, listValid, inventory, latency, servers>>

(* get_vdom_dns.                                                           *)
VdomDnsAnswer ==
  /\ pc = "vdom_dns"
  /\ \/ \E overrides \in OverrideReadings : ConfigRead(global, overrides)
     \/ MayFail /\ ConfigFails
  /\ pc' = "latency"
  /\ UNCHANGED <<fg, calm, listValid, global, inventory, latency, servers>>

(* The servers the FortiGate itself uses, which it measures.               *)
Effective ==
  {key \in fg.vdoms \X Server :
     key[2] = IF key[1] # fg.management /\ fg.override[key[1]] # Inherit
              THEN fg.override[key[1]] ELSE fg.global}

(* _async_get_dns_latency, and then _rebuild_dns_servers with no await in  *)
(* between.  The FortiGate has measured all of its servers or none yet.    *)
LatencyAnswer ==
  /\ pc = "latency"
  /\ pc' = "idle"
  /\ \/ \E keys \in {{}} \cup Usable(Effective) :
          latency' = [keys |-> keys, available |-> TRUE]
     \/ MayFail /\ latency' = Unavailable(latency)
  /\ servers' = Rebuild(config, latency')
  /\ calm' = IF calm \in 0..(CalmBound - 1) THEN calm + 1 ELSE calm
  /\ UNCHANGED <<fg, listValid, global, inventory, config, configAge>>

Next ==
  \/ Reconfigure \/ Settle \/ Slow
  \/ StartPoll \/ ListAnswer \/ GlobalAnswer
  \/ DnsAnswer \/ VdomDnsAnswer \/ LatencyAnswer

Spec == Init /\ [][Next]_vars

-----------------------------------------------------------------------------
TypeOK ==
  /\ fg \in Config
  /\ calm \in -1..CalmBound
  /\ pc \in {"idle", "list", "global", "dns", "vdom_dns", "latency"}
  /\ listValid \in BOOLEAN
  /\ global \in Setting \ {Inherit}
  /\ vdoms \subseteq Vdom
  /\ known \in BOOLEAN
  /\ management \in Vdom \cup {NoVdom}
  /\ vdomAge \in 0..TTL
  /\ config \in [keys : SUBSET Key, available : BOOLEAN]
  /\ configAge \in 0..TTL
  /\ latency \in [keys : SUBSET Key, available : BOOLEAN]
  /\ servers \in [keys : SUBSET Key, configured : BOOLEAN, measured : SUBSET Key]

(* A DNS configuration that is marked unavailable is requested by the very *)
(* next poll: the five-minute cache never hides a failure, whatever fails, *)
(* and in whatever order (_async_get_dns_configuration).                   *)
UnavailableIsRetried == ~config.available => ~Fresh(configAge)

(* The five-minute cache never hides an inventory that is not all there:   *)
(* as long as its list was not accepted in the last refresh, or none ever  *)
(* was, or no management VDOM was ever received, the next poll asks again, *)
(* whichever of the two requests failed in whichever refresh               *)
(* (_async_get_vdom_inventory).                                            *)
InventoryIsRetried ==
  ~listValid \/ ~known \/ management = NoVdom => ~Fresh(vdomAge)

(* However the failures before have skewed the two refresh times, a        *)
(* FortiGate that has settled is shown as it is within two refresh         *)
(* intervals: the VDOMs of one refresh, the servers of the next.  One poll *)
(* earlier it need not be (_async_get_vdom_inventory and                   *)
(* _async_get_dns_configuration).                                          *)
CatchesUp ==
  calm = CalmBound => /\ vdoms = fg.vdoms
                      /\ management = fg.management
                      /\ servers.configured
                      /\ servers.keys = Effective

(* _async_get_vdom_inventory: "Return VDOM inventory while retaining the   *)
(* last valid configuration."  A name disappears only when the FortiGate   *)
(* no longer has that VDOM.                                                *)
InventoryRetained ==
  [][\A v \in vdoms \ vdoms' : v \notin fg.vdoms]_vars

(* dns_data_available: "Return whether DNS configuration or latency data   *)
(* is current."  It is the "available" of _dns_servers.                    *)
DnsDataAvailable == servers.configured

DataAvailableAsDocumented ==
  (servers.configured \/ servers.measured # {}) => DnsDataAvailable
=============================================================================
