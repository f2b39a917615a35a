--------------------------- MODULE Filters_proofs ---------------------------
(***************************************************************************)
(* Proofs about Filters: what a check of the selections leaves, that each  *)
(* selection can be selected, and that a page keeps the promise of         *)
(* SharedFilter.                                                           *)
(***************************************************************************)
EXTENDS Filters, TLAPS

PageNames ==
  {"wifi", "arp", "dhcp", "device", "vdom", "interface",
   "wifi_graphs", "vdom_graphs", "interface_graphs"}

LEMMA PagesAre == \A p \in Pages : p \in PageNames
  BY FiltersAssumption DEF FieldsOf, PageNames

(* The filters of a page, one page at a time.                              *)
LEMMA FieldsAre ==
  /\ FieldsOf["wifi"] = {"fortigate", "access_point", "ssid", "area", "label"}
  /\ FieldsOf["arp"] = {"fortigate", "interface", "lease_type"}
  /\ FieldsOf["dhcp"] = {"fortigate", "interface"}
  /\ FieldsOf["device"] = {"fortigate", "last_seen"} \cup DeviceFields
  /\ FieldsOf["vdom"] = {"fortigate", "vdom"}
  /\ FieldsOf["interface"] = {"fortigate", "link", "speed_duplex", "parent"}
  /\ FieldsOf["wifi_graphs"] = {"time_span"}
  /\ FieldsOf["vdom_graphs"] = {"layout", "time_span"}
  /\ FieldsOf["interface_graphs"] =
       {"layout", "time_span", "hide_switch_members", "hide_ssid_interfaces"}
  BY DEF FieldsOf

LEMMA FixedOptionsAre ==
  ASSUME NEW p \in Fixed, NEW f \in FieldsOf[p]
  PROVE  FixedOptions(p)[f] =
           IF f = "layout" THEN Layouts ELSE IF f = "time_span" THEN TimeSpans ELSE HideOptions
<1>1. CASE p = "wifi_graphs"
  <2>1. FixedOptions(p) = WifiGraphOptions /\ f = "time_span"
    BY <1>1, FieldsAre DEF FixedOptions
  <2> QED BY <2>1 DEF WifiGraphOptions
<1>2. CASE p = "vdom_graphs"
  <2>1. FixedOptions(p) = VdomGraphOptions /\ f \in {"layout", "time_span"}
    BY <1>2, FieldsAre DEF FixedOptions
  <2> QED BY <2>1 DEF VdomGraphOptions
<1>3. CASE p = "interface_graphs"
  <2>1. /\ FixedOptions(p) = InterfaceGraphOptions
        /\ f \in {"layout", "time_span", "hide_switch_members", "hide_ssid_interfaces"}
    BY <1>3, FieldsAre DEF FixedOptions
  <2> QED BY <2>1 DEF InterfaceGraphOptions
<1> QED BY <1>1, <1>2, <1>3 DEF Fixed

LEMMA HasFortigate ==
  ASSUME NEW p \in PageNames \ Fixed
  PROVE  "fortigate" \in FieldsOf[p]
  BY FieldsAre DEF PageNames, Fixed

-----------------------------------------------------------------------------
(* Options.                                                                *)

(* On a page with a FortiGate filter, everything can be widened to All.    *)
LEMMA AllIsOffered ==
  ASSUME NEW p \in PageNames \ Fixed, NEW f \in FieldsOf[p], NEW s, NEW h
  PROVE  All \in Options(p, f, s, h)
<1>1. CASE f = "fortigate"
  BY <1>1 DEF Options, FortigateOptions
<1>2. CASE f # "fortigate" /\ p = "wifi"
  BY <1>2, FieldsAre DEF Options, AccessPointOptions, SsidOptions, AreaOptions, LabelOptions, Fixed
<1>3. CASE f # "fortigate" /\ p = "arp"
  BY <1>3, FieldsAre DEF Options, ArpInterfaceOptions, ArpLeaseTypeOptions, Fixed
<1>4. CASE f # "fortigate" /\ p = "dhcp"
  BY <1>4, FieldsAre DEF Options, DhcpInterfaceOptions, Fixed
<1>5. CASE f # "fortigate" /\ p = "device"
  BY <1>5, FieldsAre DEF Options, DeviceOptions, Column, Fixed
<1>6. CASE f # "fortigate" /\ p = "vdom"
  BY <1>6, FieldsAre DEF Options, VdomOptions, Fixed
<1>7. CASE f # "fortigate" /\ p = "interface"
  BY <1>7, FieldsAre DEF Options, InterfaceOptions, Column, Fixed
<1> QED BY <1>1, <1>2, <1>3, <1>4, <1>5, <1>6, <1>7 DEF PageNames, Fixed

(* What a filter offers depends on the FortiGate that is selected, and     *)
(* what the lease type offers on the interface as well.                    *)
Alike(p, f, s, t) ==
  \/ p \in Fixed
  \/ f = "fortigate"
  \/ p = "device" /\ f = "last_seen"
  \/ /\ s["fortigate"] = t["fortigate"]
     /\ p = "arp" /\ f = "lease_type" => s["interface"] = t["interface"]

LEMMA SameScope ==
  ASSUME NEW p, NEW s, NEW t, NEW h, s["fortigate"] = t["fortigate"]
  PROVE  Scope(p, s, h) = Scope(p, t, h)
  BY DEF Scope

LEMMA SameOptions ==
  ASSUME NEW p \in PageNames, NEW f \in FieldsOf[p], NEW s, NEW t, NEW h, Alike(p, f, s, t)
  PROVE  Options(p, f, s, h) = Options(p, f, t, h)
<1>1. CASE p \in Fixed
  BY <1>1 DEF Options, Fixed
<1>2. CASE p \notin Fixed /\ f = "fortigate"
  BY <1>2 DEF Options
<1>3. CASE p = "device" /\ f = "last_seen"
  BY <1>3 DEF Options, DeviceOptions, Fixed
<1>4. CASE /\ p \notin Fixed /\ f # "fortigate" /\ s["fortigate"] = t["fortigate"]
           /\ p = "arp" /\ f = "lease_type" => s["interface"] = t["interface"]
  <2> Scope(p, s, h) = Scope(p, t, h)
    BY <1>4, SameScope
  <2>1. CASE p = "wifi"
    BY <1>4, <2>1, FieldsAre DEF Options, AccessPointOptions, SsidOptions, AreaOptions, LabelOptions,
                  ClientDevices, Fixed
  <2>2. CASE p = "arp"
    BY <1>4, <2>2, FieldsAre DEF Options, ArpInterfaceOptions, ArpLeaseTypeOptions, ArpRows, Fixed
  <2>3. CASE p = "dhcp"
    BY <1>4, <2>3, FieldsAre DEF Options, DhcpInterfaceOptions, Fixed
  <2>4. CASE p = "device"
    BY <1>4, <2>4, FieldsAre DEF Options, DeviceOptions, Fixed
  <2>5. CASE p = "vdom"
    BY <1>4, <2>5, FieldsAre DEF Options, VdomOptions, Fixed
  <2>6. CASE p = "interface"
    BY <1>4, <2>6, FieldsAre DEF Options, InterfaceOptions, Fixed
  <2> QED BY <1>4, <2>1, <2>2, <2>3, <2>4, <2>5, <2>6 DEF PageNames, Fixed
<1> QED BY <1>1, <1>2, <1>3, <1>4 DEF Alike

-----------------------------------------------------------------------------
(* Checks.                                                                 *)

LEMMA CheckIs ==
  ASSUME NEW F, NEW p, NEW s, NEW h, NEW f \in DOMAIN s
  PROVE  /\ DOMAIN Check(F, p, s, h) = DOMAIN s
         /\ f \notin F => Check(F, p, s, h)[f] = s[f]
         /\ f \in F /\ s[f] \in Options(p, f, s, h) => Check(F, p, s, h)[f] = s[f]
         /\ f \in F /\ s[f] \notin Options(p, f, s, h) => Check(F, p, s, h)[f] = All
  BY DEF Check

LEMMA CheckDomain ==
  ASSUME NEW F, NEW p, NEW s, NEW h
  PROVE  DOMAIN Check(F, p, s, h) = DOMAIN s
  BY DEF Check

(* Filters that a poll or a registry event leaves alone.                   *)
Unchecked(p, f) ==
  p \in Fixed \/ (p = "wifi" /\ f = "fortigate") \/ (p = "device" /\ f = "last_seen")

LEMMA RoundsAre ==
  ASSUME NEW p \in PageNames, NEW f \in FieldsOf[p]
  PROVE  /\ f \in Round(p)[1] <=> ~Unchecked(p, f) /\ f = "fortigate"
         /\ f \in Round(p)[2] <=> ~Unchecked(p, f) /\ f \notin {"fortigate", "lease_type"}
         /\ f \in Round(p)[3] <=> ~Unchecked(p, f) /\ f = "lease_type"
<1>1. CASE p \in Fixed
  BY <1>1 DEF Round, Unchecked, Fixed
<1>2. CASE p = "wifi"
  BY <1>2, FieldsAre DEF Round, Unchecked, Fixed
<1>3. CASE p = "arp"
  BY <1>3, FieldsAre DEF Round, Unchecked, Fixed
<1>4. CASE p = "device"
  <2>1. "last_seen" \notin DeviceFields /\ "lease_type" \notin DeviceFields /\ "fortigate" \notin DeviceFields
    BY FiltersAssumption
  <2> QED BY <1>4, <2>1, FieldsAre DEF Round, Unchecked, Fixed
<1>5. CASE p \in {"dhcp", "vdom", "interface"}
  BY <1>5, FieldsAre DEF Round, Unchecked, Fixed
<1> QED BY <1>1, <1>2, <1>3, <1>4, <1>5 DEF PageNames, Fixed

(* A check leaves options only, and takes away nothing that is still       *)
(* offered when it is complete.                                            *)
LEMMA NormalisedIs ==
  ASSUME NEW p \in PageNames, NEW s, NEW h, DOMAIN s = FieldsOf[p],
         NEW f \in FieldsOf[p]
  PROVE  LET t == Normalised(p, s, h)
         IN  /\ DOMAIN t = FieldsOf[p]
             /\ Unchecked(p, f) => t[f] = s[f]
             /\ ~Unchecked(p, f) => t[f] \in Options(p, f, t, h)
             /\ t[f] # s[f] => /\ p \notin Fixed
                               /\ t[f] = All
                               /\ s[f] \notin Options(p, f, t, h)
<1> DEFINE one == Check(Round(p)[1], p, s, h)
           two == Check(Round(p)[2], p, one, h)
           t   == Check(Round(p)[3], p, two, h)
<1>0. t = Normalised(p, s, h)
  BY DEF Normalised
<1>1. DOMAIN one = FieldsOf[p] /\ DOMAIN two = FieldsOf[p] /\ DOMAIN t = FieldsOf[p]
  BY CheckDomain
<1>2. \A g \in FieldsOf[p] : g \notin Round(p)[1] => one[g] = s[g]
  BY CheckIs
<1>3. \A g \in FieldsOf[p] : g \notin Round(p)[2] => two[g] = one[g]
  BY <1>1, CheckIs
<1>4. \A g \in FieldsOf[p] : g \notin Round(p)[3] => t[g] = two[g]
  BY <1>1, CheckIs
<1>5. p \notin Fixed => /\ "fortigate" \in FieldsOf[p]
                        /\ t["fortigate"] = two["fortigate"]
                        /\ t["fortigate"] = one["fortigate"]
  BY <1>3, <1>4, HasFortigate, RoundsAre
<1>6. p = "arp" => two["interface"] = t["interface"]
  BY <1>4, RoundsAre, FieldsAre
<1>7. CASE Unchecked(p, f)
  <2>1. t[f] = s[f]
    BY <1>2, <1>3, <1>4, <1>7, RoundsAre
  <2> QED BY <1>0, <1>1, <1>7, <2>1
<1>8. CASE ~Unchecked(p, f)
  <2>1. p \notin Fixed
    BY <1>8 DEF Unchecked
  <2>2. All \in Options(p, f, t, h)
    BY <2>1, AllIsOffered
  <2>3. CASE f = "fortigate"
    <3>1. Options(p, f, s, h) = Options(p, f, t, h)
      BY <2>3, SameOptions DEF Alike
    <3>2. f \in Round(p)[1] /\ t[f] = one[f]
      BY <1>5, <1>8, <2>1, <2>3, RoundsAre
    <3>3. t[f] = IF s[f] \in Options(p, f, s, h) THEN s[f] ELSE All
      BY <3>2, CheckIs
    <3> QED BY <1>0, <1>1, <1>8, <2>1, <2>2, <3>1, <3>3
  <2>4. CASE f = "lease_type"
    <3>1. Options(p, f, two, h) = Options(p, f, t, h)
      BY <1>5, <1>6, <2>1, SameOptions DEF Alike
    <3>2. f \in Round(p)[3] /\ two[f] = s[f]
      BY <1>2, <1>3, <1>8, <2>4, RoundsAre
    <3>3. t[f] = IF s[f] \in Options(p, f, two, h) THEN s[f] ELSE All
      BY <1>1, <3>2, CheckIs
    <3> QED BY <1>0, <1>1, <1>8, <2>1, <2>2, <3>1, <3>3
  <2>5. CASE f \notin {"fortigate", "lease_type"}
    <3>1. Options(p, f, one, h) = Options(p, f, t, h)
      BY <1>5, <2>1, <2>5, SameOptions DEF Alike
    <3>2. f \in Round(p)[2] /\ one[f] = s[f] /\ t[f] = two[f]
      BY <1>2, <1>4, <1>8, <2>5, RoundsAre
    <3>3. t[f] = IF s[f] \in Options(p, f, one, h) THEN s[f] ELSE All
      BY <1>1, <3>2, CheckIs
    <3> QED BY <1>0, <1>1, <1>8, <2>1, <2>2, <3>1, <3>3
  <2> QED BY <2>3, <2>4, <2>5
<1> QED BY <1>7, <1>8

-----------------------------------------------------------------------------
(* The invariant.  What is not checked after a poll is right by itself: it *)
(* is one of options that do not change, or the FortiGate of the Wi-Fi     *)
(* page, which changes hands with its hub.                                 *)
Uncheckeds ==
  /\ page \in Fixed => \A f \in FieldsOf[page] : sel[f] \in FixedOptions(page)[f]
  /\ page = "device" => sel["last_seen"] \in {All} \cup LastSeen
  /\ page = "wifi" /\ ~replaced => sel["fortigate"] \in FortigateOptions("wifi", hubs)

IInv == TypeOK /\ Uncheckeds /\ Selectable

LEMMA HubTypes ==
  ASSUME TypeOK, NEW e \in DOMAIN hubs
  PROVE  hubs[e].name \in Name
  BY DEF TypeOK, Hub

(* Selections of which the unchecked ones are right can all be selected    *)
(* once they have been checked.                                            *)
LEMMA TellSelects ==
  ASSUME TypeOK, NEW s, NEW h, Tell(s, h), DOMAIN s = FieldsOf[page],
         page \in Fixed => \A f \in FieldsOf[page] : s[f] \in FixedOptions(page)[f],
         page = "device" => s["last_seen"] \in {All} \cup LastSeen,
         page = "wifi" /\ ~replaced' => s["fortigate"] \in FortigateOptions("wifi", h)
  PROVE  /\ Uncheckeds' /\ Selectable'
         /\ page' \in Pages /\ DOMAIN sel' = FieldsOf[page'] /\ told' \in BOOLEAN
<1>1. /\ page' = page /\ page \in PageNames /\ page \in Pages
      /\ hubs' = h /\ told' = TRUE /\ sel' = Normalised(page, s, h)
  BY PagesAre DEF Tell, TypeOK
<1>2. DOMAIN sel' = FieldsOf[page]
  <2>1. \E f : f \in FieldsOf[page]
    BY <1>1, FieldsAre DEF PageNames
  <2> QED BY <1>1, <2>1, NormalisedIs
<1>3. \A f \in FieldsOf[page] :
        /\ Unchecked(page, f) => sel'[f] = s[f]
        /\ ~Unchecked(page, f) => sel'[f] \in Options(page, f, sel', h)
  BY <1>1, NormalisedIs
<1>4. Uncheckeds'
  <2>1. CASE page \in Fixed
    BY <1>1, <1>3, <2>1 DEF Uncheckeds, Unchecked, Fixed
  <2>2. CASE page = "wifi"
    BY <1>1, <1>3, <2>2, FieldsAre DEF Uncheckeds, Unchecked, Fixed
  <2>3. CASE page = "device"
    BY <1>1, <1>3, <2>3, FieldsAre DEF Uncheckeds, Unchecked, Fixed
  <2>4. CASE page \notin Fixed /\ page # "wifi" /\ page # "device"
    BY <1>1, <2>4 DEF Uncheckeds
  <2> QED BY <2>1, <2>2, <2>3, <2>4
<1>5. Selectable'
  <2> SUFFICES ASSUME NEW f \in FieldsOf[page]
               PROVE  \/ sel'[f] \in Options(page, f, sel', h)
                      \/ page = "wifi" /\ f = "fortigate" /\ replaced'
    BY <1>1 DEF Selectable
  <2>1. CASE ~Unchecked(page, f)
    BY <1>3, <2>1
  <2>2. CASE page \in Fixed
    BY <1>1, <1>4, <2>2 DEF Uncheckeds, Options, Fixed
  <2>3. CASE page = "wifi" /\ f = "fortigate"
    BY <1>1, <1>4, <2>3 DEF Uncheckeds, Options, Fixed
  <2>4. CASE page = "device" /\ f = "last_seen"
    BY <1>1, <1>4, <2>4 DEF Uncheckeds, Options, DeviceOptions, Fixed
  <2> QED BY <2>1, <2>2, <2>3, <2>4 DEF Unchecked
<1> QED BY <1>1, <1>2, <1>4, <1>5

(* The page as it starts.                                                  *)
LEMMA InitialFixed ==
  ASSUME NEW p \in Fixed
  PROVE  /\ DOMAIN Initial(p) = FieldsOf[p]
         /\ \A f \in FieldsOf[p] : /\ f = "layout" => Initial(p)[f] = "Combined"
                                   /\ f = "time_span" => Initial(p)[f] = "1 hour"
                                   /\ f \notin {"layout", "time_span"} => Initial(p)[f] = "on"
  BY DEF Initial

LEMMA InitialIs ==
  ASSUME NEW p \in PageNames
  PROVE  /\ DOMAIN Initial(p) = FieldsOf[p]
         /\ p \in Fixed => \A f \in FieldsOf[p] : Initial(p)[f] \in FixedOptions(p)[f]
         /\ p \notin Fixed => \A f \in FieldsOf[p] : Initial(p)[f] = All
<1>1. CASE p \notin Fixed
  BY <1>1 DEF Initial
<1>2. CASE p \in Fixed
  <2> SUFFICES ASSUME NEW f \in FieldsOf[p]
               PROVE  Initial(p)[f] \in FixedOptions(p)[f]
    BY <1>2, InitialFixed
  <2>1. /\ f = "layout" => Initial(p)[f] = "Combined"
        /\ f = "time_span" => Initial(p)[f] = "1 hour"
        /\ f \notin {"layout", "time_span"} => Initial(p)[f] = "on"
    BY <1>2, InitialFixed
  <2>2. FixedOptions(p)[f] =
          IF f = "layout" THEN Layouts ELSE IF f = "time_span" THEN TimeSpans ELSE HideOptions
    BY <1>2, FixedOptionsAre
  <2>3. CASE f = "layout"
    BY <2>1, <2>2, <2>3 DEF Layouts
  <2>4. CASE f = "time_span"
    BY <2>1, <2>2, <2>4 DEF TimeSpans
  <2>5. CASE f \notin {"layout", "time_span"}
    BY <2>1, <2>2, <2>5 DEF HideOptions
  <2> QED BY <2>3, <2>4, <2>5
<1> QED BY <1>1, <1>2

LEMMA InitInv == Init => IInv
<1> SUFFICES ASSUME Init PROVE IInv
  OBVIOUS
<1>1. /\ page \in Pages /\ page \in PageNames /\ sel = Initial(page) /\ DOMAIN hubs = {}
      /\ told = TRUE /\ replaced = FALSE
  BY PagesAre DEF Init
<1>2. TypeOK
  BY <1>1, InitialIs DEF TypeOK
<1>3. Uncheckeds
  <2>1. page = "wifi" => sel["fortigate"] = All
    BY <1>1, InitialIs, FieldsAre DEF Fixed
  <2>2. page = "device" => sel["last_seen"] = All
    BY <1>1, InitialIs, FieldsAre DEF Fixed
  <2>3. page \in Fixed => \A f \in FieldsOf[page] : sel[f] \in FixedOptions(page)[f]
    BY <1>1, InitialIs
  <2> QED BY <2>1, <2>2, <2>3 DEF Uncheckeds, FortigateOptions
<1>4. Selectable
  <2> SUFFICES ASSUME NEW f \in FieldsOf[page] PROVE sel[f] \in Options(page, f, sel, hubs)
    BY DEF Selectable
  <2>1. CASE page \in Fixed
    BY <1>3, <2>1 DEF Uncheckeds, Options, Fixed
  <2>2. CASE page \notin Fixed
    BY <1>1, <2>2, InitialIs, AllIsOffered
  <2> QED BY <2>1, <2>2
<1> QED BY <1>2, <1>3, <1>4 DEF IInv

-----------------------------------------------------------------------------
(* The steps.                                                              *)

LEMMA RegisterInv ==
  ASSUME IInv, NEW e \in Entry, RegisterHub(e)
  PROVE  IInv'
<1>1. PICK n \in Name, holds \in Picture, clients \in Clients :
        LET h == [x \in DOMAIN hubs \cup {e} |->
                    IF x = e THEN [name |-> n, holds |-> holds, clients |-> clients]
                    ELSE hubs[x]]
        IN  /\ Tell(sel, h)
            /\ replaced' = (replaced \/ (e \in DOMAIN hubs /\ hubs[e].name # n))
  BY DEF RegisterHub
<1> DEFINE h == [x \in DOMAIN hubs \cup {e} |->
                   IF x = e THEN [name |-> n, holds |-> holds, clients |-> clients]
                   ELSE hubs[x]]
<1>2. hubs' = h
  BY <1>1 DEF Tell
<1>3. /\ DOMAIN h = DOMAIN hubs \cup {e}
      /\ h[e] = [name |-> n, holds |-> holds, clients |-> clients]
      /\ \A x \in DOMAIN hubs \ {e} : h[x] = hubs[x]
  OBVIOUS
<1>4. DOMAIN hubs' \subseteq Entry /\ \A x \in DOMAIN hubs' : hubs'[x] \in Hub
  BY <1>2, <1>3 DEF IInv, TypeOK, Hub
<1>5. page = "wifi" /\ ~replaced' => sel["fortigate"] \in FortigateOptions("wifi", h)
  <2> SUFFICES ASSUME page = "wifi", ~replaced'
               PROVE  sel["fortigate"] \in FortigateOptions("wifi", h)
    OBVIOUS
  <2>1. ~replaced /\ (e \in DOMAIN hubs => hubs[e].name = n)
    BY <1>1 DEF IInv, TypeOK
  <2>2. sel["fortigate"] \in {All} \cup {hubs[x].name : x \in DOMAIN hubs}
    BY <2>1 DEF IInv, Uncheckeds, FortigateOptions, Offering
  <2>3. \A x \in DOMAIN hubs : x \in DOMAIN h /\ h[x].name = hubs[x].name
    BY <1>3, <2>1
  <2>4. sel["fortigate"] \in {All} \cup {h[x].name : x \in DOMAIN h}
    BY <2>2, <2>3
  <2> QED BY <2>4 DEF FortigateOptions, Offering
<1>6. /\ Uncheckeds' /\ Selectable'
      /\ page' \in Pages /\ DOMAIN sel' = FieldsOf[page'] /\ told' \in BOOLEAN
  <2>1. Tell(sel, h) /\ TypeOK /\ DOMAIN sel = FieldsOf[page]
    BY <1>1 DEF IInv, TypeOK
  <2>2. /\ page \in Fixed => \A f \in FieldsOf[page] : sel[f] \in FixedOptions(page)[f]
        /\ page = "device" => sel["last_seen"] \in {All} \cup LastSeen
    BY DEF IInv, Uncheckeds
  <2> HIDE DEF h
  <2> QED BY <1>5, <2>1, <2>2, TellSelects
<1>7. replaced' \in BOOLEAN
  BY <1>1 DEF IInv, TypeOK
<1> QED BY <1>4, <1>6, <1>7 DEF IInv, TypeOK

LEMMA UnregisterInv ==
  ASSUME IInv, NEW e \in Entry, UnregisterHub(e)
  PROVE  IInv'
<1> DEFINE left == [x \in DOMAIN hubs \ {e} |-> hubs[x]]
           lost == page \notin Fixed /\ sel["fortigate"] \notin FortigateOptions(page, left)
           s == IF lost THEN Initial(page) ELSE sel
<1>1. Tell(s, left) /\ replaced' = replaced
  BY DEF UnregisterHub
<1>2. page \in PageNames /\ DOMAIN s = FieldsOf[page]
  BY PagesAre, InitialIs DEF IInv, TypeOK
<1>3. page \in Fixed => \A f \in FieldsOf[page] : s[f] \in FixedOptions(page)[f]
  BY DEF IInv, Uncheckeds
<1>4. page = "device" => s["last_seen"] \in {All} \cup LastSeen
  BY <1>2, InitialIs, FieldsAre DEF IInv, Uncheckeds, Fixed
<1>5. page = "wifi" => s["fortigate"] \in FortigateOptions("wifi", left)
  BY <1>2, InitialIs, FieldsAre DEF Fixed, FortigateOptions
<1>6. /\ Uncheckeds' /\ Selectable'
      /\ page' \in Pages /\ DOMAIN sel' = FieldsOf[page'] /\ told' \in BOOLEAN
  <2> HIDE DEF s, left
  <2> QED BY <1>1, <1>2, <1>3, <1>4, <1>5, TellSelects DEF IInv
<1>7. DOMAIN hubs' \subseteq Entry /\ (\A x \in DOMAIN hubs' : hubs'[x] \in Hub) /\ replaced' \in BOOLEAN
  BY <1>1 DEF Tell, IInv, TypeOK
<1> QED BY <1>6, <1>7 DEF IInv, TypeOK

LEMMA RenameInv ==
  ASSUME IInv, NEW e \in Entry, UpdateHubName(e)
  PROVE  IInv'
<1>1. PICK n \in Name :
        /\ e \in DOMAIN hubs /\ hubs[e].name # n
        /\ LET moved == IF page \notin Fixed /\ sel["fortigate"] = hubs[e].name
                        THEN [sel EXCEPT !["fortigate"] = n] ELSE sel
           IN  Tell(moved, [hubs EXCEPT ![e].name = n])
        /\ replaced' = replaced
  BY DEF UpdateHubName
<1> DEFINE h == [hubs EXCEPT ![e].name = n]
           moved == IF page \notin Fixed /\ sel["fortigate"] = hubs[e].name
                    THEN [sel EXCEPT !["fortigate"] = n] ELSE sel
<1>2. page \in PageNames /\ DOMAIN sel = FieldsOf[page] /\ DOMAIN hubs \subseteq Entry
      /\ \A x \in DOMAIN hubs : hubs[x] \in Hub
  BY PagesAre DEF IInv, TypeOK
<1>3. /\ DOMAIN h = DOMAIN hubs
      /\ h[e] = [hubs[e] EXCEPT !.name = n]
      /\ \A x \in DOMAIN hubs \ {e} : h[x] = hubs[x]
  BY <1>1
<1>4. h[e] \in Hub /\ h[e].name = n
  BY <1>1, <1>2, <1>3 DEF Hub
<1>5. DOMAIN moved = FieldsOf[page]
  BY <1>2
<1>6. page \in Fixed => \A f \in FieldsOf[page] : moved[f] \in FixedOptions(page)[f]
  BY DEF IInv, Uncheckeds
<1>7. page = "device" => moved["last_seen"] \in {All} \cup LastSeen
  BY <1>2, FieldsAre DEF IInv, Uncheckeds
<1>8. page = "wifi" /\ ~replaced => moved["fortigate"] \in FortigateOptions("wifi", h)
  <2> SUFFICES ASSUME page = "wifi", ~replaced
               PROVE  moved["fortigate"] \in {All} \cup {h[x].name : x \in DOMAIN h}
    BY DEF FortigateOptions, Offering
  <2>1. sel["fortigate"] \in {All} \cup {hubs[x].name : x \in DOMAIN hubs}
    BY DEF IInv, Uncheckeds, FortigateOptions, Offering
  <2>2. CASE sel["fortigate"] = hubs[e].name
    <3>1. moved["fortigate"] = n
      BY <1>2, <2>2, FieldsAre DEF Fixed
    <3> QED BY <1>1, <1>3, <1>4, <3>1
  <2>3. CASE sel["fortigate"] # hubs[e].name
    <3>1. moved["fortigate"] = sel["fortigate"]
      BY <2>3
    <3> QED BY <1>1, <1>3, <2>1, <2>3, <3>1
  <2> QED BY <2>2, <2>3
<1>9. /\ Uncheckeds' /\ Selectable'
      /\ page' \in Pages /\ DOMAIN sel' = FieldsOf[page'] /\ told' \in BOOLEAN
  <2>1. Tell(moved, h) /\ replaced' = replaced
    BY <1>1
  <2> HIDE DEF moved, h
  <2> QED BY <1>5, <1>6, <1>7, <1>8, <2>1, TellSelects DEF IInv
<1>10. DOMAIN hubs' \subseteq Entry /\ (\A x \in DOMAIN hubs' : hubs'[x] \in Hub) /\ replaced' \in BOOLEAN
  <2>1. hubs' = h
    BY <1>1 DEF Tell
  <2>2. replaced' \in BOOLEAN
    BY <1>1 DEF IInv, TypeOK
  <2> HIDE DEF h
  <2> QED BY <1>2, <1>3, <1>4, <2>1, <2>2
<1> QED BY <1>9, <1>10 DEF IInv, TypeOK

(* An update of the coordinator or of the registries leaves the names.     *)
LEMMA UpdateInv ==
  ASSUME IInv, NEW e \in Entry, CoordinatorUpdate(e) \/ RegistryUpdate(e)
  PROVE  IInv'
<1>1. PICK h : /\ Tell(sel, h) /\ replaced' = replaced
               /\ DOMAIN h = DOMAIN hubs
               /\ \A x \in DOMAIN hubs : h[x] \in Hub /\ h[x].name = hubs[x].name
  <2>1. CASE CoordinatorUpdate(e)
    <3>1. PICK holds \in Picture : /\ e \in DOMAIN hubs
                                   /\ Tell(sel, [hubs EXCEPT ![e].holds = holds])
                                   /\ replaced' = replaced
      BY <2>1 DEF CoordinatorUpdate
    <3> DEFINE g == [hubs EXCEPT ![e].holds = holds]
    <3>2. DOMAIN g = DOMAIN hubs /\ \A x \in DOMAIN hubs : g[x] \in Hub /\ g[x].name = hubs[x].name
      BY <3>1 DEF IInv, TypeOK, Hub
    <3> QED BY <3>1, <3>2
  <2>2. CASE RegistryUpdate(e)
    <3>1. PICK clients \in Clients : /\ e \in DOMAIN hubs
                                     /\ Tell(sel, [hubs EXCEPT ![e].clients = clients])
                                     /\ replaced' = replaced
      BY <2>2 DEF RegistryUpdate
    <3> DEFINE g == [hubs EXCEPT ![e].clients = clients]
    <3>2. DOMAIN g = DOMAIN hubs /\ \A x \in DOMAIN hubs : g[x] \in Hub /\ g[x].name = hubs[x].name
      BY <3>1 DEF IInv, TypeOK, Hub
    <3> QED BY <3>1, <3>2
  <2> QED BY <2>1, <2>2
<1>2. FortigateOptions("wifi", h) = FortigateOptions("wifi", hubs)
  BY <1>1 DEF FortigateOptions, Offering
<1>3. /\ Uncheckeds' /\ Selectable'
      /\ page' \in Pages /\ DOMAIN sel' = FieldsOf[page'] /\ told' \in BOOLEAN
  <2>1. /\ DOMAIN sel = FieldsOf[page]
        /\ page \in Fixed => \A f \in FieldsOf[page] : sel[f] \in FixedOptions(page)[f]
        /\ page = "device" => sel["last_seen"] \in {All} \cup LastSeen
        /\ page = "wifi" /\ ~replaced' => sel["fortigate"] \in FortigateOptions("wifi", h)
    BY <1>1, <1>2 DEF IInv, Uncheckeds, TypeOK
  <2> QED BY <1>1, <2>1, TellSelects DEF IInv
<1>4. DOMAIN hubs' \subseteq Entry /\ (\A x \in DOMAIN hubs' : hubs'[x] \in Hub) /\ replaced' \in BOOLEAN
  BY <1>1 DEF Tell, IInv, TypeOK
<1> QED BY <1>3, <1>4 DEF IInv, TypeOK

LEMMA FetchInv ==
  ASSUME IInv, NEW e \in Entry, Fetch(e)
  PROVE  IInv'
<1>1. PICK holds \in Picture :
        /\ e \in DOMAIN hubs /\ page # "wifi" /\ page \notin Fixed
        /\ hubs' = [hubs EXCEPT ![e].holds = holds]
        /\ told' = FALSE /\ page' = page /\ sel' = sel /\ replaced' = replaced
  BY DEF Fetch
<1>2. DOMAIN hubs' \subseteq Entry /\ \A x \in DOMAIN hubs' : hubs'[x] \in Hub
  BY <1>1 DEF IInv, TypeOK, Hub
<1>3. TypeOK'
  BY <1>1, <1>2 DEF IInv, TypeOK
<1>4. Uncheckeds' /\ Selectable'
  BY <1>1 DEF IInv, Uncheckeds, Selectable
<1> QED BY <1>3, <1>4 DEF IInv

(* What a selection resets, by the page.                                   *)
LEMMA ResetsAre ==
  ASSUME NEW p \in PageNames, NEW f \in FieldsOf[p], NEW o, NEW s
  PROVE  LET R == ResetBy(p, f, o, s)
         IN  /\ p \in Fixed => R = {}
             /\ f = "fortigate" => R = FieldsOf[p] \ {f}
             /\ p = "arp" /\ f = "interface" => "lease_type" \in R
             /\ "fortigate" \in R => p = "wifi" /\ f = "ssid" /\ o = UnavailableClients
             /\ "interface" \in R /\ p = "arp" => f = "fortigate"
             /\ p = "wifi" /\ f = "ssid" /\ o = UnavailableClients
                  => R = {"fortigate", "access_point"}
<1>1. CASE p \in Fixed
  BY <1>1, FieldsAre DEF ResetBy, Fixed
<1>2. CASE p = "wifi"
  BY <1>2, FieldsAre DEF ResetBy, Fixed
<1>3. CASE p = "arp"
  BY <1>3, FieldsAre DEF ResetBy, Fixed
<1>4. CASE p = "device"
  BY <1>4, FieldsAre, FiltersAssumption DEF ResetBy, Fixed
<1>5. CASE p \in {"dhcp", "vdom", "interface"}
  BY <1>5, FieldsAre DEF ResetBy, Fixed
<1> QED BY <1>1, <1>2, <1>3, <1>4, <1>5 DEF PageNames, Fixed

(* A wider scope offers more areas and labels.                             *)
LEMMA Wider ==
  ASSUME NEW s, NEW t, NEW h, t["fortigate"] = All, NEW f \in {"area", "label"}
  PROVE  Options("wifi", f, s, h) \subseteq Options("wifi", f, t, h)
<1>1. Scope("wifi", s, h) \subseteq Scope("wifi", t, h)
  BY DEF Scope
<1>2. ClientDevices(s, h) \subseteq ClientDevices(t, h)
  BY <1>1 DEF ClientDevices
<1>3. AreaOptions(s, h) \subseteq AreaOptions(t, h)
  BY <1>2 DEF AreaOptions
<1>4. LabelOptions(s, h) \subseteq LabelOptions(t, h)
  BY <1>2 DEF LabelOptions
<1> QED BY <1>3, <1>4 DEF Options, Fixed

LEMMA SelectInv ==
  ASSUME IInv, NEW f \in FieldsOf[page], Select(f)
  PROVE  IInv'
<1>1. PICK o \in Options(page, f, sel, hubs) :
        sel' = [x \in DOMAIN sel |->
                  IF x = f THEN o
                  ELSE IF x \in ResetBy(page, f, o, sel) THEN All ELSE sel[x]]
  BY DEF Select
<1> DEFINE R == ResetBy(page, f, o, sel)
<1>2. /\ page' = page /\ hubs' = hubs /\ told' = told /\ replaced' = replaced
      /\ page \in PageNames /\ page \in Pages /\ DOMAIN sel = FieldsOf[page]
  BY PagesAre DEF Select, IInv, TypeOK
<1>3. /\ DOMAIN sel' = FieldsOf[page] /\ sel'[f] = o
      /\ \A g \in FieldsOf[page] : g # f => sel'[g] = IF g \in R THEN All ELSE sel[g]
  BY <1>1, <1>2
<1>4. /\ page \in Fixed => R = {}
      /\ f = "fortigate" => R = FieldsOf[page] \ {f}
      /\ page = "arp" /\ f = "interface" => "lease_type" \in R
      /\ "fortigate" \in R => page = "wifi" /\ f = "ssid" /\ o = UnavailableClients
      /\ "interface" \in R /\ page = "arp" => f = "fortigate"
      /\ page = "wifi" /\ f = "ssid" /\ o = UnavailableClients
           => R = {"fortigate", "access_point"}
  BY <1>2, ResetsAre
<1> HIDE DEF R
<1>5. TypeOK'
  BY <1>2, <1>3 DEF IInv, TypeOK
<1>6. Uncheckeds'
  <2>1. page \in Fixed => \A g \in FieldsOf[page] : sel'[g] \in FixedOptions(page)[g]
    <3> SUFFICES ASSUME page \in Fixed, NEW g \in FieldsOf[page]
                 PROVE  sel'[g] \in FixedOptions(page)[g]
      OBVIOUS
    <3>1. CASE g = f
      BY <1>3, <3>1 DEF Options, Fixed
    <3>2. CASE g # f
      BY <1>3, <1>4, <3>2 DEF IInv, Uncheckeds
    <3> QED BY <3>1, <3>2
  <2>2. page = "device" => sel'["last_seen"] \in {All} \cup LastSeen
    <3> SUFFICES ASSUME page = "device" PROVE sel'["last_seen"] \in {All} \cup LastSeen
      OBVIOUS
    <3>1. CASE f = "last_seen"
      BY <1>3, <3>1 DEF Options, DeviceOptions, Fixed
    <3>2. CASE f # "last_seen"
      BY <1>3, <3>2, FieldsAre DEF IInv, Uncheckeds
    <3> QED BY <3>1, <3>2
  <2>3. page = "wifi" /\ ~replaced => sel'["fortigate"] \in FortigateOptions("wifi", hubs)
    <3> SUFFICES ASSUME page = "wifi", ~replaced
                 PROVE  sel'["fortigate"] \in FortigateOptions("wifi", hubs)
      OBVIOUS
    <3>1. CASE f = "fortigate"
      BY <1>3, <3>1 DEF Options, Fixed
    <3>2. CASE f # "fortigate"
      BY <1>3, <3>2, FieldsAre DEF IInv, Uncheckeds, FortigateOptions
    <3> QED BY <3>1, <3>2
  <2> QED BY <1>2, <2>1, <2>2, <2>3 DEF Uncheckeds
<1>7. Selectable'
  <2> SUFFICES ASSUME told, NEW g \in FieldsOf[page]
               PROVE  \/ sel'[g] \in Options(page, g, sel', hubs)
                      \/ page = "wifi" /\ g = "fortigate" /\ replaced
    BY <1>2 DEF Selectable
  <2>1. CASE page \in Fixed
    BY <1>2, <1>6, <2>1 DEF Uncheckeds, Options, Fixed
  <2>2. CASE page \notin Fixed /\ g # f /\ g \in R
    BY <1>2, <1>3, <2>2, AllIsOffered
  <2>3. CASE page \notin Fixed /\ f = "fortigate" /\ g = f
    BY <1>2, <1>3, <2>3, SameOptions DEF Alike
  <2>4. CASE page \notin Fixed /\ f # "fortigate" /\ (g = f \/ g \notin R)
    <3>0. \/ g = f /\ o \in Options(page, f, sel, hubs)
          \/ g # f /\ sel'[g] = sel[g] /\ sel[g] \in Options(page, g, sel, hubs)
          \/ page = "wifi" /\ g = "fortigate" /\ replaced
      BY <1>1, <1>3, <2>4 DEF IInv, Selectable
    <3>1. CASE "fortigate" \notin R
      <4>1. sel'["fortigate"] = sel["fortigate"]
        BY <1>2, <1>3, <2>4, <3>1, HasFortigate
      <4>2. page = "arp" /\ g = "lease_type" => sel'["interface"] = sel["interface"]
        <5> SUFFICES ASSUME page = "arp", g = "lease_type"
                     PROVE  sel'["interface"] = sel["interface"]
          OBVIOUS
        <5>1. f # "interface" /\ "interface" \notin R
          BY <1>4, <2>4
        <5> QED BY <1>3, <5>1, FieldsAre
      <4>3. Options(page, g, sel, hubs) = Options(page, g, sel', hubs)
        BY <1>2, <4>1, <4>2, SameOptions DEF Alike
      <4> QED BY <1>3, <3>0, <4>3
    <3>2. CASE "fortigate" \in R
      <4>1. /\ page = "wifi" /\ f = "ssid" /\ o = UnavailableClients
            /\ R = {"fortigate", "access_point"} /\ sel'["fortigate"] = All
        BY <1>3, <1>4, <3>2, FieldsAre
      <4>2. CASE g = "ssid"
        BY <1>3, <4>1, <4>2 DEF Options, SsidOptions, Fixed
      <4>3. CASE g \in {"area", "label"}
        <5>1. sel[g] \in Options("wifi", g, sel, hubs) /\ sel'[g] = sel[g]
          BY <3>0, <4>1, <4>3
        <5> QED BY <4>1, <4>3, <5>1, Wider
      <4> QED BY <2>4, <4>1, <4>2, <4>3, FieldsAre
    <3> QED BY <3>1, <3>2
  <2> QED BY <1>4, <2>1, <2>2, <2>3, <2>4
<1> QED BY <1>5, <1>6, <1>7 DEF IInv

LEMMA NextInv == IInv /\ [Next]_vars => IInv'
<1> SUFFICES ASSUME IInv, [Next]_vars PROVE IInv'
  OBVIOUS
<1>1. ASSUME NEW e \in Entry, RegisterHub(e) PROVE IInv'
  BY <1>1, RegisterInv
<1>2. ASSUME NEW e \in Entry, UnregisterHub(e) PROVE IInv'
  BY <1>2, UnregisterInv
<1>3. ASSUME NEW e \in Entry, UpdateHubName(e) PROVE IInv'
  BY <1>3, RenameInv
<1>4. ASSUME NEW e \in Entry, Fetch(e) PROVE IInv'
  BY <1>4, FetchInv
<1>5. ASSUME NEW e \in Entry, CoordinatorUpdate(e) \/ RegistryUpdate(e) PROVE IInv'
  BY <1>5, UpdateInv
<1>6. ASSUME NEW f \in FieldsOf[page], Select(f) PROVE IInv'
  BY <1>6, SelectInv
<1>7. CASE UNCHANGED vars
  BY <1>7 DEF vars, IInv, TypeOK, Uncheckeds, Selectable
<1> QED BY <1>1, <1>2, <1>3, <1>4, <1>5, <1>6, <1>7 DEF Next

LEMMA Inductive == Spec => []IInv
  BY InitInv, NextInv, PTL DEF Spec

(* The page is one of those that are followed, its selections are those of *)
(* its filters, and the hubs are those of entries.                         *)
THEOREM TypeCorrect == Spec => []TypeOK
<1>1. IInv => TypeOK
  BY DEF IInv
<1> QED BY <1>1, Inductive, PTL

(* When the manager has been told, every selection is one of its options,  *)
(* for any FortiGates, tables and names (the filters of filter_manager.py).*)
THEOREM SelectionsAreOffered == Spec => []Selectable
<1>1. IInv => Selectable
  BY DEF IInv
<1> QED BY <1>1, Inductive, PTL

-----------------------------------------------------------------------------
(* Polls and registry events.                                              *)

LEMMA UpdateTells ==
  ASSUME NEW e \in Entry, CoordinatorUpdate(e) \/ RegistryUpdate(e)
  PROVE  sel' = Normalised(page, sel, hubs')
  BY DEF CoordinatorUpdate, RegistryUpdate, Tell

(* A poll or a registry event takes away only what is no longer offered in *)
(* the scope that is left: the order of the checks is right.               *)
THEOREM ResetsAreNeeded == Spec => NoNeedlessReset
<1> DEFINE Needed ==
      (\E e \in Entry : CoordinatorUpdate(e) \/ RegistryUpdate(e))
      => \A f \in FieldsOf[page] :
           (sel'[f] = All /\ sel[f] # All) => sel[f] \notin Options(page, f, sel', hubs')
<1>1. IInv => Needed
  <2> SUFFICES ASSUME IInv, NEW e \in Entry, CoordinatorUpdate(e) \/ RegistryUpdate(e),
                      NEW f \in FieldsOf[page], sel'[f] = All, sel[f] # All
               PROVE  sel[f] \notin Options(page, f, sel', hubs')
    OBVIOUS
  <2>1. page \in PageNames /\ DOMAIN sel = FieldsOf[page]
    BY PagesAre DEF IInv, TypeOK
  <2>2. sel' = Normalised(page, sel, hubs') /\ sel'[f] # sel[f]
    BY UpdateTells
  <2> QED BY <2>1, <2>2, NormalisedIs
<1>2. IInv /\ [Next]_vars => [Needed]_vars
  BY <1>1
<1> QED BY <1>2, Inductive, PTL DEF Spec, NoNeedlessReset

-----------------------------------------------------------------------------
(* Names.                                                                  *)

(* Which hubs a page can show is no question of their names.               *)
LEMMA SameOffering ==
  ASSUME NEW p \in PageNames \ Fixed, NEW h, NEW g, DOMAIN g = DOMAIN h,
         \A x \in DOMAIN h : g[x].holds = h[x].holds
  PROVE  Offering(p, g) = Offering(p, h) /\ Offering(p, h) \subseteq DOMAIN h
<1>1. /\ ArpHubs(g) = ArpHubs(h) /\ ArpHubs(h) \subseteq DOMAIN h
      /\ DhcpHubs(g) = DhcpHubs(h) /\ DhcpHubs(h) \subseteq DOMAIN h
      /\ DeviceHubs(g) = DeviceHubs(h) /\ DeviceHubs(h) \subseteq DOMAIN h
  BY DEF ArpHubs, DhcpHubs, DeviceHubs
<1>2. VdomHubs(g) = VdomHubs(h) /\ VdomHubs(h) \subseteq DOMAIN h
  BY DEF VdomHubs
<1>3. InterfaceHubs(g) = InterfaceHubs(h) /\ InterfaceHubs(h) \subseteq DOMAIN h
  BY DEF InterfaceHubs
<1> QED BY <1>1, <1>2, <1>3 DEF Offering, PageNames, Fixed

LEMMA RenameKeeps ==
  ASSUME IInv, NEW e \in Entry, UpdateHubName(e), page \notin Fixed,
         sel["fortigate"] \in FortigateOptions(page, hubs),
         DistinctNames(hubs), DistinctNames(hubs')
  PROVE  Scope(page, sel', hubs') = Scope(page, sel, hubs)
<1>1. PICK n \in Name :
        /\ e \in DOMAIN hubs
        /\ LET moved == IF page \notin Fixed /\ sel["fortigate"] = hubs[e].name
                        THEN [sel EXCEPT !["fortigate"] = n] ELSE sel
           IN  Tell(moved, [hubs EXCEPT ![e].name = n])
  BY DEF UpdateHubName
<1> DEFINE h == [hubs EXCEPT ![e].name = n]
           moved == IF page \notin Fixed /\ sel["fortigate"] = hubs[e].name
                    THEN [sel EXCEPT !["fortigate"] = n] ELSE sel
           shows == Offering(page, hubs)
<1>2. /\ hubs' = h /\ sel' = Normalised(page, moved, h)
      /\ page \in PageNames /\ DOMAIN sel = FieldsOf[page] /\ "fortigate" \in FieldsOf[page]
  BY <1>1, PagesAre, HasFortigate DEF Tell, IInv, TypeOK
<1>3. /\ DOMAIN h = DOMAIN hubs /\ h[e].name = n
      /\ \A x \in DOMAIN hubs : x # e => h[x].name = hubs[x].name
      /\ \A x \in DOMAIN hubs : h[x].holds = hubs[x].holds
  BY <1>1 DEF IInv, TypeOK, Hub
<1>4. DOMAIN moved = FieldsOf[page]
  BY <1>2
<1>5. /\ sel["fortigate"] = hubs[e].name => moved["fortigate"] = n
      /\ sel["fortigate"] # hubs[e].name => moved["fortigate"] = sel["fortigate"]
  BY <1>2
<1> HIDE DEF h, moved
<1>6. Offering(page, h) = shows /\ shows \subseteq DOMAIN hubs
  BY <1>2, <1>3, SameOffering
<1>7. n # All /\ hubs[e].name # All
  BY <1>1, FiltersAssumption, HubTypes DEF IInv
<1>8. /\ sel["fortigate"] = All \/ \E y \in shows : sel["fortigate"] = hubs[y].name
      /\ sel["fortigate"] = hubs[e].name => e \in shows
  BY <1>1, <1>6, <1>7 DEF FortigateOptions, DistinctNames
<1>9. moved["fortigate"] \in FortigateOptions(page, h)
  BY <1>1, <1>3, <1>5, <1>6, <1>8 DEF FortigateOptions
<1>10. sel'["fortigate"] = moved["fortigate"]
  <2>1. Options(page, "fortigate", sel', h) = FortigateOptions(page, h)
    BY DEF Options
  <2> QED BY <1>2, <1>4, <1>9, <2>1, NormalisedIs
<1>11. \A x \in shows : moved["fortigate"] \in {All, h[x].name}
                         <=> sel["fortigate"] \in {All, hubs[x].name}
  <2> SUFFICES ASSUME NEW x \in shows
               PROVE  moved["fortigate"] \in {All, h[x].name}
                      <=> sel["fortigate"] \in {All, hubs[x].name}
    OBVIOUS
  <2>1. CASE sel["fortigate"] = hubs[e].name
    BY <1>1, <1>2, <1>3, <1>5, <1>6, <1>7, <2>1 DEF DistinctNames
  <2>2. CASE sel["fortigate"] # hubs[e].name
    BY <1>1, <1>2, <1>3, <1>5, <1>6, <1>8, <2>2 DEF DistinctNames
  <2> QED BY <2>1, <2>2
<1> QED BY <1>2, <1>6, <1>10, <1>11 DEF Scope

(* A new name of a FortiGate leaves the page with the FortiGates it had in *)
(* its scope, if no two have the same name (update_hub_name).              *)
THEOREM RenamesKeepScope == Spec => RenameKeepsScope
<1> DEFINE Kept ==
      ((\E e \in Entry : UpdateHubName(e)) /\ page \notin Fixed /\ told
        /\ sel["fortigate"] \in FortigateOptions(page, hubs)
        /\ DistinctNames(hubs) /\ DistinctNames(hubs'))
      => Scope(page, sel', hubs') = Scope(page, sel, hubs)
<1>1. IInv => Kept
  BY RenameKeeps
<1>2. IInv /\ [Next]_vars => [Kept]_vars
  BY <1>1
<1> QED BY <1>2, Inductive, PTL DEF Spec, RenameKeepsScope

-----------------------------------------------------------------------------
(* The refinement.                                                         *)

LEMMA FitsIsSelectable == Selectable <=> Promise!Fits
  BY DEF Selectable, Promise!Fits, OptionsNow

LEMMA InitRefines == Init => Promise!Init
<1> SUFFICES ASSUME Init PROVE Promise!Init
  OBVIOUS
<1>1. Selectable
  BY InitInv DEF IInv
<1> QED BY <1>1, FitsIsSelectable DEF Init, Promise!Init

(* Being told is an Adjust.                                                *)
LEMMA TellRefines ==
  ASSUME IInv, IInv', NEW s, NEW h, Tell(s, h), DOMAIN s = FieldsOf[page],
         \A g \in FieldsOf[page] :
           s[g] \in {sel[g], Initial(page)[g]} \/ (g = "fortigate" /\ s[g] \in Name),
         replaced => replaced'
  PROVE  Promise!Adjust
<1>1. /\ page' = page /\ page \in PageNames /\ told' = TRUE
      /\ sel' = Normalised(page, s, h)
  BY PagesAre DEF Tell, IInv, TypeOK
<1>2. \A g \in FieldsOf[page] :
        sel'[g] \in {sel[g], Initial(page)[g]} \/ (g = "fortigate" /\ sel'[g] \in Name)
  <2> SUFFICES ASSUME NEW g \in FieldsOf[page]
               PROVE  \/ sel'[g] \in {sel[g], Initial(page)[g]}
                      \/ g = "fortigate" /\ sel'[g] \in Name
    OBVIOUS
  <2>1. sel'[g] = s[g] \/ (page \notin Fixed /\ sel'[g] = All)
    BY <1>1, NormalisedIs
  <2> QED BY <1>1, <2>1, InitialIs
<1>3. Promise!Fits'
  <2>1. Selectable'
    BY DEF IInv
  <2> QED BY <2>1, FitsIsSelectable DEF Selectable, Promise!Fits, OptionsNow
<1> QED BY <1>1, <1>2, <1>3 DEF Promise!Adjust, Promise!SamePage

LEMMA RegisterRefines ==
  ASSUME IInv, IInv', NEW e \in Entry, RegisterHub(e)
  PROVE  Promise!Adjust
<1>1. PICK n \in Name, holds \in Picture, clients \in Clients :
        /\ Tell(sel, [x \in DOMAIN hubs \cup {e} |->
                        IF x = e THEN [name |-> n, holds |-> holds, clients |-> clients]
                        ELSE hubs[x]])
        /\ replaced => replaced'
  BY DEF RegisterHub
<1> QED BY <1>1, TellRefines DEF IInv, TypeOK

LEMMA UnregisterRefines ==
  ASSUME IInv, IInv', NEW e \in Entry, UnregisterHub(e)
  PROVE  Promise!Adjust
<1> DEFINE left == [x \in DOMAIN hubs \ {e} |-> hubs[x]]
           lost == page \notin Fixed /\ sel["fortigate"] \notin FortigateOptions(page, left)
           s == IF lost THEN Initial(page) ELSE sel
<1>1. Tell(s, left) /\ replaced' = replaced
  BY DEF UnregisterHub
<1>2. DOMAIN s = FieldsOf[page]
  BY PagesAre, InitialIs DEF IInv, TypeOK
<1>3. \A g \in FieldsOf[page] : s[g] \in {sel[g], Initial(page)[g]}
  OBVIOUS
<1> HIDE DEF s, left
<1> QED BY <1>1, <1>2, <1>3, TellRefines

LEMMA RenameRefines ==
  ASSUME IInv, IInv', NEW e \in Entry, UpdateHubName(e)
  PROVE  Promise!Adjust
<1>1. PICK n \in Name :
        /\ LET moved == IF page \notin Fixed /\ sel["fortigate"] = hubs[e].name
                        THEN [sel EXCEPT !["fortigate"] = n] ELSE sel
           IN  Tell(moved, [hubs EXCEPT ![e].name = n])
        /\ replaced' = replaced
  BY DEF UpdateHubName
<1> DEFINE h == [hubs EXCEPT ![e].name = n]
           moved == IF page \notin Fixed /\ sel["fortigate"] = hubs[e].name
                    THEN [sel EXCEPT !["fortigate"] = n] ELSE sel
<1>2. Tell(moved, h)
  BY <1>1
<1>3. DOMAIN moved = FieldsOf[page]
  BY DEF IInv, TypeOK
<1>4. \A g \in FieldsOf[page] :
        moved[g] \in {sel[g], Initial(page)[g]} \/ (g = "fortigate" /\ moved[g] \in Name)
  BY DEF IInv, TypeOK
<1> HIDE DEF moved, h
<1> QED BY <1>1, <1>2, <1>3, <1>4, TellRefines

LEMMA UpdateRefines ==
  ASSUME IInv, IInv', NEW e \in Entry, CoordinatorUpdate(e) \/ RegistryUpdate(e)
  PROVE  Promise!Adjust
<1>1. PICK h : Tell(sel, h) /\ replaced' = replaced
  BY DEF CoordinatorUpdate, RegistryUpdate
<1> QED BY <1>1, TellRefines DEF IInv, TypeOK

LEMMA FetchRefines ==
  ASSUME NEW e \in Entry, Fetch(e)
  PROVE  Promise!Drift
  BY DEF Fetch, Promise!Drift, Promise!SamePage

LEMMA SelectRefines ==
  ASSUME IInv, IInv', NEW f \in FieldsOf[page], Select(f)
  PROVE  Promise!Pick(f)
<1>1. PICK o \in Options(page, f, sel, hubs) :
        sel' = [x \in DOMAIN sel |->
                  IF x = f THEN o
                  ELSE IF x \in ResetBy(page, f, o, sel) THEN All ELSE sel[x]]
  BY DEF Select
<1>2. /\ page' = page /\ hubs' = hubs /\ told' = told /\ replaced' = replaced
      /\ page \in PageNames /\ DOMAIN sel = FieldsOf[page]
  BY PagesAre DEF Select, IInv, TypeOK
<1>3. sel'[f] \in OptionsNow[f]
  BY <1>1, <1>2 DEF OptionsNow
<1>4. \A g \in FieldsOf[page] \ {f} : sel'[g] \in {sel[g], Initial(page)[g]}
  <2> SUFFICES ASSUME NEW g \in FieldsOf[page] \ {f}
               PROVE  sel'[g] \in {sel[g], Initial(page)[g]}
    OBVIOUS
  <2>1. CASE g \in ResetBy(page, f, o, sel)
    <3>1. page \notin Fixed
      BY <1>2, <2>1, ResetsAre
    <3>2. sel'[g] = All
      BY <1>1, <1>2, <2>1
    <3> QED BY <1>2, <3>1, <3>2, InitialIs
  <2>2. CASE g \notin ResetBy(page, f, o, sel)
    BY <1>1, <1>2, <2>2
  <2> QED BY <2>1, <2>2
<1>5. Promise!Fits'
  <2>1. Selectable'
    BY DEF IInv
  <2> QED BY <2>1 DEF Selectable, Promise!Fits, OptionsNow
<1> QED BY <1>2, <1>3, <1>4, <1>5 DEF Promise!Pick, Promise!SamePage

LEMMA StepRefines ==
  IInv /\ IInv' /\ [Next]_vars => [Promise!Next]_(Promise!filterVars)
<1> SUFFICES ASSUME IInv, IInv', [Next]_vars
             PROVE  Promise!Next \/ UNCHANGED Promise!filterVars
  OBVIOUS
<1>1. ASSUME NEW e \in Entry, RegisterHub(e) PROVE Promise!Next
  BY <1>1, RegisterRefines DEF Promise!Next
<1>2. ASSUME NEW e \in Entry, UnregisterHub(e) PROVE Promise!Next
  BY <1>2, UnregisterRefines DEF Promise!Next
<1>3. ASSUME NEW e \in Entry, UpdateHubName(e) PROVE Promise!Next
  BY <1>3, RenameRefines DEF Promise!Next
<1>4. ASSUME NEW e \in Entry, Fetch(e) PROVE Promise!Next
  BY <1>4, FetchRefines DEF Promise!Next
<1>5. ASSUME NEW e \in Entry, CoordinatorUpdate(e) \/ RegistryUpdate(e) PROVE Promise!Next
  BY <1>5, UpdateRefines DEF Promise!Next
<1>6. ASSUME NEW f \in FieldsOf[page], Select(f) PROVE Promise!Next
  BY <1>6, SelectRefines DEF Promise!Next
<1>7. CASE UNCHANGED vars
  BY <1>7 DEF vars, OptionsNow, Promise!filterVars
<1> QED BY <1>1, <1>2, <1>3, <1>4, <1>5, <1>6, <1>7 DEF Next

(* Every page of filters keeps the promise of SharedFilter: a selection    *)
(* stays until it is no longer offered or depends on one that was picked,  *)
(* and never moves to something nobody picked (filter_manager.py).         *)
THEOREM FiltersRefine == Spec => ImplementsSharedFilter
<1>1. Init => Promise!Init
  BY InitRefines
<1>2. IInv /\ IInv' /\ [Next]_vars => [Promise!Next]_(Promise!filterVars)
  BY StepRefines
<1> QED BY <1>1, <1>2, Inductive, PTL DEF Spec, ImplementsSharedFilter, Promise!Spec
=============================================================================
