------------------------------- MODULE Filters -------------------------------
(***************************************************************************)
(* The shared dashboard filters (filter_manager.py) with the selects and   *)
(* switches that show them.  Each page of the dashboards has a FortiGate   *)
(* filter and filters that offer what the FortiGates in its scope hold.    *)
(*                                                                         *)
(* The pages have nothing in common but the hubs, so a behaviour follows   *)
(* the selections of one page, any of Pages.  Ownership of the selects and *)
(* the life of the manager are in EntryLifecycle.                          *)
(***************************************************************************)
EXTENDS Naturals

CONSTANTS
  Entry,         \* the config entries
  Name,          \* display names of FortiGates
  Picture,       \* what a coordinator may hold
  Clients,       \* sets of client devices an entry may have in the registry
  Settings,      \* what the user has switched on for each entry
  Masked,        \* what is left of a name by masking
  DeviceFields,  \* the filters of the device page that are followed
  Pages          \* the pages that are followed

All == "All"
UnavailableClients == "Unavailable Clients"
NoArea == "No Area"
NoLabels == "No Labels"

(* A field that is missing in an answer, or blank.                         *)
Blank == ""

LastSeen == {"Less than 1 hour ago", "More than 1 hour ago"}

FieldsOf ==
  [wifi      |-> {"fortigate", "access_point", "ssid", "area", "label"},
   arp       |-> {"fortigate", "interface", "lease_type"},
   dhcp      |-> {"fortigate", "interface"},
   device    |-> {"fortigate", "last_seen"} \cup DeviceFields,
   vdom      |-> {"fortigate", "vdom"},
   interface |-> {"fortigate", "link", "speed_duplex", "parent"},
   wifi_graphs      |-> {"time_span"},
   vdom_graphs      |-> {"layout", "time_span"},
   interface_graphs |-> {"layout", "time_span", "hide_switch_members", "hide_ssid_interfaces"}]

(* Filters whose options never change.  Two of the seven time spans and of *)
(* the ten windows for the last sighting stand for all of them.            *)
Layouts == {"Combined", "Separate"}
TimeSpans == {"1 hour", "1 day"}

WifiGraphOptions == [time_span |-> TimeSpans]

VdomGraphOptions == [layout |-> Layouts, time_span |-> TimeSpans]

HideOptions == {"on", "off"}

InterfaceGraphOptions ==
  [layout |-> Layouts, time_span |-> TimeSpans,
   hide_switch_members |-> HideOptions, hide_ssid_interfaces |-> HideOptions]

Fixed == {"wifi_graphs", "vdom_graphs", "interface_graphs"}

FixedOptions(p) ==
  CASE p = "wifi_graphs"      -> WifiGraphOptions
    [] p = "vdom_graphs"      -> VdomGraphOptions
    [] p = "interface_graphs" -> InterfaceGraphOptions

Initial(p) ==
  IF p \in Fixed
  THEN [f \in FieldsOf[p] |-> CASE f = "layout"    -> "Combined"
                                [] f = "time_span" -> "1 hour"
                                [] OTHER           -> "on"]
  ELSE [f \in FieldsOf[p] |-> All]

ASSUME FiltersAssumption ==
  /\ Pages \subseteq DOMAIN FieldsOf
  /\ DeviceFields \subseteq {"hardware_vendor", "hardware_type", "hardware_family",
                             "operating_system", "software_version", "interface"}
  /\ All \notin Name

VARIABLES
  page,    \* the page that is followed
  sel,     \* its selections
  hubs,    \* the hubs that are registered: name, coordinator, client devices
  told,    \* the coordinators hold what they held when the manager was told last
  replaced \* a hub was registered anew under another name

vars == <<page, sel, hubs, told, replaced>>

-----------------------------------------------------------------------------
(* The hubs a page can show, and those that its FortiGate filter selects.  *)

ArpHubs(h) == {e \in DOMAIN h : Settings[e].arp}

DhcpHubs(h) == {e \in DOMAIN h : Settings[e].dhcp}

DeviceHubs(h) == {e \in DOMAIN h : Settings[e].device}

VdomHubs(h) == {e \in DOMAIN h : h[e].holds.vdoms # {}}

InterfaceHubs(h) == {e \in DOMAIN h : h[e].holds.interfaces # {}}

Offering(p, h) ==
  CASE p = "wifi"      -> DOMAIN h
    [] p = "arp"       -> ArpHubs(h)
    [] p = "dhcp"      -> DhcpHubs(h)
    [] p = "device"    -> DeviceHubs(h)
    [] p = "vdom"      -> VdomHubs(h)
    [] p = "interface" -> InterfaceHubs(h)

Scope(p, s, h) == {e \in Offering(p, h) : s["fortigate"] \in {All, h[e].name}}

FortigateOptions(p, h) == {All} \cup {h[e].name : e \in Offering(p, h)}

-----------------------------------------------------------------------------
(* What the other filters offer.                                           *)

Shown(mask, x) == IF mask THEN Masked[x] ELSE x

AccessPointOptions(s, h) ==
  {All} \cup UNION {{Shown(Settings[e].mask_ap, x) : x \in h[e].holds.aps}
                      : e \in Scope("wifi", s, h)}

(* By name, or by a profile that takes every VAP of the same mode.         *)
AssignedVaps(holds) ==
  holds.profile.vaps \cup {v.name : v \in {w \in holds.vaps : w.mode \in holds.profile.modes}}

Ssids(e, holds) ==
  {v.ssid : v \in {w \in holds.vaps :
                     Settings[e].unassigned \/ w.name \in AssignedVaps(holds)}}
  \cup holds.client_ssids

SsidOptions(s, h) ==
  {All, UnavailableClients} \cup
    UNION {{Shown(Settings[e].mask_ssid, x) : x \in Ssids(e, h[e].holds)}
             : e \in Scope("wifi", s, h)}

(* From the device registry: clients that are gone are included.           *)
ClientDevices(s, h) == UNION {h[e].clients : e \in Scope("wifi", s, h)}

AreaOptions(s, h) == {All} \cup {c.area : c \in ClientDevices(s, h)}

LabelOptions(s, h) ==
  {All} \cup UNION {IF c.labels = {} THEN {NoLabels} ELSE c.labels
                      : c \in ClientDevices(s, h)}

LeaseType(reserved) == CASE reserved = {}   -> "No DHCP lease"
                         [] TRUE \in reserved -> "Reserved"
                         [] OTHER           -> "Leased"

ArpRows(s, h) == UNION {h[e].holds.arp : e \in Scope("arp", s, h)}

ArpInterfaceOptions(s, h) == {All} \cup UNION {r.interfaces : r \in ArpRows(s, h)}

(* Only the lease types of the selected interface.                         *)
ArpLeaseTypeOptions(s, h) ==
  {All} \cup {LeaseType(r.reserved) :
                r \in {q \in ArpRows(s, h) :
                         s["interface"] = All \/ s["interface"] \in q.interfaces}}

DhcpInterfaceOptions(s, h) ==
  {All} \cup UNION {h[e].holds.dhcp : e \in Scope("dhcp", s, h)}

(* The values of one column of a table.                                    *)
Column(rows, f) == {All} \cup ({r[f] : r \in rows} \ {Blank})

DeviceOptions(f, s, h) ==
  IF f = "last_seen" THEN {All} \cup LastSeen
  ELSE Column(UNION {h[e].holds.devices : e \in Scope("device", s, h)}, f)

VdomOptions(s, h) == {All} \cup UNION {h[e].holds.vdoms : e \in Scope("vdom", s, h)}

InterfaceOptions(f, s, h) ==
  Column(UNION {h[e].holds.interfaces : e \in Scope("interface", s, h)}, f)

Options(p, f, s, h) ==
  CASE p \in Fixed                         -> FixedOptions(p)[f]
    [] p \notin Fixed /\ f = "fortigate"   -> FortigateOptions(p, h)
    [] p = "wifi" /\ f = "access_point"    -> AccessPointOptions(s, h)
    [] p = "wifi" /\ f = "ssid"            -> SsidOptions(s, h)
    [] p = "wifi" /\ f = "area"            -> AreaOptions(s, h)
    [] p = "wifi" /\ f = "label"           -> LabelOptions(s, h)
    [] p = "arp" /\ f = "interface"        -> ArpInterfaceOptions(s, h)
    [] p = "arp" /\ f = "lease_type"       -> ArpLeaseTypeOptions(s, h)
    [] p = "dhcp" /\ f = "interface"       -> DhcpInterfaceOptions(s, h)
    [] p = "device" /\ f # "fortigate"     -> DeviceOptions(f, s, h)
    [] p = "vdom" /\ f = "vdom"            -> VdomOptions(s, h)
    [] p = "interface" /\ f # "fortigate"  -> InterfaceOptions(f, s, h)

-----------------------------------------------------------------------------
(* _handle_coordinator_update: selections that are no longer offered fall  *)
(* back to All, one after the other, so that a filter is checked against   *)
(* the scope that the filters before it have left.  The FortiGate of the   *)
(* Wi-Fi page and the rolling windows are not checked.                     *)

Round(p) ==
  CASE p \in Fixed -> <<{}, {}, {}>>
    [] p = "wifi"  -> <<{}, FieldsOf[p] \ {"fortigate"}, {}>>
    [] p = "arp"   -> <<{"fortigate"}, {"interface"}, {"lease_type"}>>
    [] OTHER       -> <<{"fortigate"}, FieldsOf[p] \ {"fortigate", "last_seen"}, {}>>

(* Wrong: a selection moves on to another option.                          *)
CheckOther(fields, p, s, h) ==
  [f \in DOMAIN s |-> IF f \in fields /\ s[f] \notin Options(p, f, s, h)
                     THEN CHOOSE o \in Options(p, f, s, h) :
                            o # All \/ Options(p, f, s, h) = {All}
                     ELSE s[f]]

Check(fields, p, s, h) ==
  [f \in DOMAIN s |-> IF f \in fields /\ s[f] \notin Options(p, f, s, h) THEN All ELSE s[f]]

(* Wrong: all are checked against the scope of before.                     *)
NormalisedAtOnce(p, s, h) == Check(UNION {Round(p)[i] : i \in 1 .. 3}, p, s, h)

Normalised(p, s, h) ==
  LET first  == Check(Round(p)[1], p, s, h)
      second == Check(Round(p)[2], p, first, h)
  IN  Check(Round(p)[3], p, second, h)

-----------------------------------------------------------------------------
Init ==
  /\ page \in Pages
  /\ sel = Initial(page)
  /\ hubs = <<>>
  /\ told = TRUE
  /\ replaced = FALSE

(* The manager is told: it works on the hubs h and the selections s.       *)
Tell(s, h) ==
  /\ hubs' = h
  /\ sel' = Normalised(page, s, h)
  /\ told' = TRUE
  /\ UNCHANGED page

(* Set-up registers the hub; the one of a set-up that failed is replaced.  *)
RegisterHub(e) ==
  \E n \in Name, holds \in Picture, clients \in Clients :
    /\ Tell(sel, [x \in DOMAIN hubs \cup {e} |->
                    IF x = e THEN [name |-> n, holds |-> holds, clients |-> clients]
                    ELSE hubs[x]])
    /\ replaced' = (replaced \/ (e \in DOMAIN hubs /\ hubs[e].name # n))

(* Wrong: only the FortiGate filter falls back.                            *)
UnregisterHubOnly(e) ==
  /\ e \in DOMAIN hubs
  /\ LET left == [x \in DOMAIN hubs \ {e} |-> hubs[x]]
     IN  /\ hubs' = left
         /\ sel' = IF page \notin Fixed /\ sel["fortigate"] \notin FortigateOptions(page, left)
                   THEN [sel EXCEPT !["fortigate"] = All] ELSE sel
  /\ UNCHANGED <<page, told, replaced>>

(* Unloading takes the hub away.  If it was selected, the page starts anew.*)
UnregisterHub(e) ==
  /\ e \in DOMAIN hubs
  /\ LET left == [x \in DOMAIN hubs \ {e} |-> hubs[x]]
         lost == page \notin Fixed /\ sel["fortigate"] \notin FortigateOptions(page, left)
     IN  Tell(IF lost THEN Initial(page) ELSE sel, left)
  /\ UNCHANGED replaced

(* Wrong: the selection is left behind.                                    *)
RenameHubOnly(e) ==
  \E n \in Name :
    /\ e \in DOMAIN hubs /\ hubs[e].name # n
    /\ Tell(sel, [hubs EXCEPT ![e].name = n])
    /\ UNCHANGED replaced

(* The text entity gives the hub another name; selections of it move along.*)
UpdateHubName(e) ==
  \E n \in Name :
    /\ e \in DOMAIN hubs /\ hubs[e].name # n
    /\ LET moved == IF page \notin Fixed /\ sel["fortigate"] = hubs[e].name
                    THEN [sel EXCEPT !["fortigate"] = n] ELSE sel
       IN  Tell(moved, [hubs EXCEPT ![e].name = n])
    /\ UNCHANGED replaced

(* In the middle of a poll a table is replaced; nobody is told yet.  The   *)
(* Wi-Fi page reads the published data, which never changes like this.     *)
Fetch(e) ==
  \E holds \in Picture :
    /\ e \in DOMAIN hubs /\ page \notin {"wifi"} \cup Fixed
    /\ hubs' = [hubs EXCEPT ![e].holds = holds]
    /\ told' = FALSE
    /\ UNCHANGED <<page, sel, replaced>>

(* A poll ends and the listeners of the coordinator are told.              *)
CoordinatorUpdate(e) ==
  \E holds \in Picture :
    /\ e \in DOMAIN hubs
    /\ page = "wifi" \/ holds = hubs[e].holds
    /\ Tell(sel, [hubs EXCEPT ![e].holds = holds])
    /\ UNCHANGED replaced

(* An event of the device, area or label registry.                         *)
RegistryUpdate(e) ==
  \E clients \in Clients :
    /\ e \in DOMAIN hubs
    /\ Tell(sel, [hubs EXCEPT ![e].clients = clients])
    /\ UNCHANGED replaced

(* The filters that fall back to All when o is selected in filter f.       *)
ResetBy(p, f, o, s) ==
  CASE f = "fortigate"              -> FieldsOf[p] \ {f}
    [] p = "arp" /\ f = "interface" -> {"lease_type"}
    [] f = "access_point"           -> IF s["ssid"] = UnavailableClients THEN {"ssid"} ELSE {}
    [] f = "ssid"                   -> IF o = UnavailableClients
                                       THEN {"fortigate", "access_point"} ELSE {}
    [] OTHER                        -> {}

(* The user selects an option; another one is refused.                     *)
Select(f) ==
  /\ f \in FieldsOf[page]
  /\ \E o \in Options(page, f, sel, hubs) :
       sel' = [x \in DOMAIN sel |->
                 IF x = f THEN o
                 ELSE IF x \in ResetBy(page, f, o, sel) THEN All ELSE sel[x]]
  /\ UNCHANGED <<page, hubs, told, replaced>>

Next ==
  \/ \E e \in Entry : \/ RegisterHub(e) \/ UnregisterHub(e) \/ UpdateHubName(e)
                      \/ Fetch(e) \/ CoordinatorUpdate(e) \/ RegistryUpdate(e)
  \/ \E f \in FieldsOf[page] : Select(f)

Spec == Init /\ [][Next]_vars

-----------------------------------------------------------------------------
Hub == [name : Name, holds : Picture, clients : Clients]

TypeOK ==
  /\ page \in Pages
  /\ DOMAIN sel = FieldsOf[page]
  /\ DOMAIN hubs \subseteq Entry
  /\ \A e \in DOMAIN hubs : hubs[e] \in Hub
  /\ told \in BOOLEAN
  /\ replaced \in BOOLEAN

(* Whenever the manager has been told of what the coordinators hold, each  *)
(* selection is one of its options (select.py shows a value that is none   *)
(* as unknown), after any order of selections, renames, polls, registry    *)
(* events and unloads.  The FortiGate of the Wi-Fi page is not checked by  *)
(* _handle_coordinator_update; it may be left behind by a set-up that      *)
(* replaces a hub under another name, and by nothing else.                 *)
Selectable ==
  told => \A f \in FieldsOf[page] :
            \/ sel[f] \in Options(page, f, sel, hubs)
            \/ page = "wifi" /\ f = "fortigate" /\ replaced

(* A poll or a registry event takes away only a selection that is not      *)
(* offered in the scope that is left (the order in which                   *)
(* _handle_coordinator_update checks the filters).                         *)
NoNeedlessReset ==
  [][(\E e \in Entry : CoordinatorUpdate(e) \/ RegistryUpdate(e))
     => \A f \in FieldsOf[page] :
          (sel'[f] = All /\ sel[f] # All) => sel[f] \notin Options(page, f, sel', hubs')]_vars

DistinctNames(h) == \A e, x \in DOMAIN h : e # x => h[e].name # h[x].name

(* A new name of a FortiGate leaves every page with the FortiGates it had  *)
(* in its scope (update_hub_name "preserves active selections"), as long   *)
(* as no two FortiGates have the same name.                                *)
RenameKeepsScope ==
  [][((\E e \in Entry : UpdateHubName(e)) /\ page \notin Fixed /\ told
       /\ sel["fortigate"] \in FortigateOptions(page, hubs)
       /\ DistinctNames(hubs) /\ DistinctNames(hubs'))
     => Scope(page, sel', hubs') = Scope(page, sel, hubs)]_vars

(* The same without that condition, as the comment of update_hub_name says *)
(* it.  Two FortiGates may well have one name: masked host names agree     *)
(* easily.                                                                 *)
RenamePreservesSelections ==
  [][((\E e \in Entry : UpdateHubName(e)) /\ page \notin Fixed /\ told
       /\ sel["fortigate"] \in FortigateOptions(page, hubs))
     => Scope(page, sel', hubs') = Scope(page, sel, hubs)]_vars

-----------------------------------------------------------------------------
(* What the filters of a page promise, apart from how: SharedFilter.       *)
OptionsNow ==
  [f \in FieldsOf[page] |-> Options(page, f, sel, hubs)]

Promise ==
  INSTANCE SharedFilter WITH
    Values   <- Name,
    fields   <- FieldsOf[page],
    hubField <- "fortigate",
    start    <- Initial(page),
    chosen   <- sel,
    offers   <- OptionsNow,
    fresh    <- told,
    excused  <- replaced /\ page = "wifi"

ImplementsSharedFilter == Promise!Spec
=============================================================================
