---------------------------- MODULE MCChangeOrder ----------------------------
(***************************************************************************)
(* Small instances of ChangeOrder.  A run picks its Lines among            *)
(*   "up"    upsized from 1 to 3 while the customer holds 2 (an earlier    *)
(*           downsize lowered what renews, not what is held),              *)
(*   "new"   a new item, 1 licence,                                        *)
(*   "down"  downsized from 4 to 2, with earlier purchases to give back,   *)
(*   "trim"  downsized from 4 to 1, with nothing to give back.             *)
(***************************************************************************)
EXTENDS ChangeOrder

MCOldQuantity == [line \in Lines |->
    CASE line = "up" -> 1 [] line = "new" -> 0 [] line \in {"down", "trim"} -> 4]
MCNewQuantity == [line \in Lines |->
    CASE line = "up" -> 3 [] line = "new" -> 1 [] line = "down" -> 2 [] OTHER -> 1]
MCFirstCurrent == [line \in Lines |->
    IF line = "up" THEN 2 ELSE MCOldQuantity[line]]

\* The customer holds all of the upsize.
AllHeld == [MCFirstCurrent EXCEPT !["up"] = 3]

\* Three purchases of "down", all listed throughout, or the oldest only on
\* day 0.
MCPurchases == 1 .. 3
MCPurchaseLine == [p \in MCPurchases |-> "down"]
MCNone == {}
TwoOneOne == <<2, 1, 1>>
OneOneThree == <<1, 1, 3>>
ListedTogether == <<9, 9, 9>>
OldestDropsOut == <<0, 9, 9>>

\* Four purchases of "down": the second is a late renewal, so the first can
\* no longer be returned, and the third was made for another deployment.
FourPurchases == 1 .. 4
FourOfDown == [p \in FourPurchases |-> "down"]
FourQuantities == <<2, 1, 1, 3>>
TheLateRenewal == {2}
TheOtherDeployment == {3}
FourListed == <<9, 9, 9, 9>>
=============================================================================
