---------------------------- MODULE MCFulfillOrder ----------------------------
(***************************************************************************)
(* Small instances of FulfillOrder.  Its Lines are                         *)
(*   "new"    a new item, 1 licence (bought, transferred or switched to),  *)
(*   "idle"   a new item whose subscription Adobe does not activate,       *)
(*   "down"   3 licences given back or switched from, bought as 2 and 1,   *)
(*   "gone"   1 licence of a subscription that has lapsed.                 *)
(***************************************************************************)
EXTENDS FulfillOrder

MCOldQuantity == [line \in Lines |->
    CASE line = "down" -> 3 [] line = "gone" -> 1 [] OTHER -> 0]
MCNewQuantity == [line \in Lines |-> IF line \in {"new", "idle"} THEN 1 ELSE 0]
MCFirst == [line \in Lines |-> IF line = "down" THEN 3 ELSE 0]

MCPurchases == 1 .. 2
MCPurchaseLine == <<"down", "down">>
TwoAndOne == <<2, 1>>
OldestDropsOut == <<0, 9>>
MCNone == {}

MCDesired == [s \in Configured |-> s # "off"]
MCFirstEnabled == [s \in Configured |-> s = "off"]
=============================================================================
