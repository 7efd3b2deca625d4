---------------------------- MODULE MCRenewalOrder ----------------------------
(***************************************************************************)
(* Small instances of RenewalOrder.  The customer holds "on" (its renewal  *)
(* is off), "up", "down", "off" and "late" (off too); "off" and "on" share *)
(* a SKU in one run.  Two plans: at the anniversary "on" is enabled, "up"  *)
(* raised, "down" lowered, "off" disabled, and "add" and, without an order *)
(* line, "again" are added, so that 14 licences renew before and after;    *)
(* now "up" is renewed and "late", of which Adobe may show it late, "down" *)
(* was renewed already, and "on" and "off" lapse although they were.       *)
(***************************************************************************)
EXTENDS RenewalOrder

Some(enabled, quantity, renewed) ==
    [enabled |-> enabled, quantity |-> quantity, codes |-> {}, renewed |-> renewed]

MCPreference == [id \in Known \cup Products |->
    CASE id = "on" -> Some(FALSE, 5, 2) [] id = "up" -> Some(TRUE, 3, 0)
      [] id = "down" -> Some(TRUE, 7, 7) [] id = "off" -> Some(TRUE, 4, 4)
      [] id = "late" -> Some(FALSE, 2, 0) [] OTHER -> Some(FALSE, 1, 0)]

NoCodes == [id \in Known |-> {}]
At(quantities) == [id \in Known \cup Products |->
    IF id \in DOMAIN quantities THEN quantities[id] ELSE 0]

AnniversaryPlan ==
    [path |-> "anniversary", entries |-> Known \ {"late"}, renewing |-> {"on", "up", "down"},
     netNew |-> {"add", "again"}, codes |-> NoCodes,
     quantity |-> At([on |-> 2, up |-> 5, down |-> 5, add |-> 1, again |-> 1])]

NowPlan ==
    [path |-> "now", entries |-> Known, renewing |-> {"up", "down", "late"},
     netNew |-> {}, codes |-> NoCodes, quantity |-> At([up |-> 5, late |-> 3])]

BothPlans == {AnniversaryPlan, NowPlan}
NowOnly == {NowPlan}

MCCommitted == [id \in Known |-> 4]
OwnSku == [id \in Known |-> id]
SharedSku == [OwnSku EXCEPT !["on"] = "off"]
=============================================================================
