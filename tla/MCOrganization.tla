--------------------------- MODULE MCOrganization ---------------------------
(* One FortiGate, two access points and a client.  "office" and "lab" are  *)
(* areas of the devices, "desk" is one of clients only; the labels "site"  *)
(* and "floor" can be configured, "up" is for access points, "mine" for    *)
(* clients only.                                                           *)
EXTENDS Organization

CONSTANTS hub, ap1, ap2, phone

MCArea == {"office", "lab", "desk"}
MCLabel == {"site", "floor", "up", "mine"}

MCAreasFor == [d \in Device |-> IF d \in Client THEN {"office", "desk", None}
                                ELSE {"office", "lab", None}]

MCLabelsFor == [d \in Device |-> CASE d = Hub    -> {"site"}
                                   [] d \in Ap   -> {"up"}
                                   [] OTHER      -> {"up", "mine"}]

Set(mode, a, l, follow) ==
  [mode |-> mode, area |-> a, inherit |-> follow, move |-> follow, areaOfAp |-> follow,
   label |-> l, labelsOfAp |-> follow, labelsOfHub |-> follow]

MCSetting ==
  {Set("none", None, None, FALSE), Set("both", "office", "site", TRUE),
   Set("both", "lab", "floor", TRUE), Set("label", None, "floor", FALSE)}
=============================================================================
