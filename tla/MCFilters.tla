----------------------------- MODULE MCFilters -----------------------------
(* Filters with two FortiGates: fw1 masks names and shows every SSID, fw2  *)
(* does neither.                                                           *)
EXTENDS Filters

MCSettings ==
  [e \in {"fw1", "fw2"} |->
     [arp |-> TRUE, dhcp |-> e = "fw1", device |-> TRUE,
      mask_ap |-> e = "fw1", mask_ssid |-> e = "fw1", unassigned |-> e = "fw1"]]

MCMasked == [ap1 |-> "a", ap2 |-> "a", home |-> "h", guest |-> "g"]

Vap(name, ssid, mode) == [name |-> name, ssid |-> ssid, mode |-> mode]
Profile(vaps, modes) == [vaps |-> vaps, modes |-> modes]
Row(interfaces, reserved) == [interfaces |-> interfaces, reserved |-> reserved]
Device(vendor, type) == [hardware_vendor |-> vendor, hardware_type |-> type]
Port(link, speed, parent) == [link |-> link, speed_duplex |-> speed, parent |-> parent]

Small ==
  [aps |-> {"ap1"}, vaps |-> {Vap("v1", "home", "tunnel"), Vap("v2", "guest", "bridge")},
   profile |-> Profile({}, {"tunnel"}), client_ssids |-> {},
   arp |-> {Row({"lan"}, {}), Row({"wan"}, {FALSE})}, dhcp |-> {"lan"},
   devices |-> {Device("acme", "phone")}, vdoms |-> {}, interfaces |-> {}]

Large ==
  [aps |-> {"ap1", "ap2"}, vaps |-> {Vap("v1", "home", "tunnel"), Vap("v2", "guest", "bridge")},
   profile |-> Profile({"v2"}, {}), client_ssids |-> {"guest"},
   arp |-> {Row({"lan"}, {TRUE, FALSE}), Row({"lan", "dmz"}, {})}, dhcp |-> {"lan", "dmz"},
   devices |-> {Device("acme", Blank), Device("other", "phone")}, vdoms |-> {"root", "lab"},
   interfaces |-> {Port("Up", "100", "port2"), Port("Down", Blank, Blank)}]

MCPicture == {Small, Large}

Client(area, labels) == [area |-> area, labels |-> labels]

MCClients ==
  {{Client("kitchen", {})}, {Client(NoArea, {"trusted"}), Client("kitchen", {"trusted"})}}
=============================================================================
