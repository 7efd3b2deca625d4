----------------------------- MODULE SwitchOrder -----------------------------
(***************************************************************************)
(* Fulfilment of a change order that carries a mid-term upgrade: one Adobe *)
(* SWITCH order moves licences from the downsized lines to the new ones.   *)
(* The POST carries the hash of the payload as its correlation identifier, *)
(* and the payload of an MPT order is the same in every pass.              *)
(***************************************************************************)
EXTENDS PurchaseOrder

VARIABLE switchOrders   \* Adobe's SWITCH orders for this MPT order, by status

\* What a SWITCH order does to each line once Adobe processed it.
SwitchChange == [line \in Lines |-> NewQuantity[line] - OldQuantity[line]]

Settle(orderStatus) ==
    IF orderStatus = "COMPLETE" THEN Process(SwitchChange)
    ELSE UNCHANGED subscriptionVars

-----------------------------------------------------------------------------
GetSwitchPreviewOrder(next) ==
    /\ pc = "GetSwitchPreviewOrder"
    /\ \/ /\ ctx.newOrderId # 0
          /\ Continue(next)
       \/ /\ ctx.newOrderId = 0
          /\ \E offer \in Offers : ctx' = [ctx EXCEPT !.preview = PreviewOf(offer)]
          /\ Goto(next)
          /\ UNCHANGED <<status, dueDate, vendorId, today>>
       \/ /\ ctx.newOrderId = 0
          /\ "PreviewRejected" \in Refusals
          /\ switch_order_to_failed

\* What Adobe does with a SWITCH order it has not seen.
AcceptSwitchOrder ==
    /\ Len(switchOrders) < MaxNewOrders
    /\ \E orderStatus \in {"OPEN", "COMPLETE"} :
          /\ switchOrders' = Append(switchOrders, orderStatus)
          /\ ctx' = [ctx EXCEPT !.newOrderId = Len(switchOrders'), !.newOrder = orderStatus]
          /\ Settle(orderStatus)

\* Mutant of PlaceSwitchOrder: the correlation identifier differs every time.
PlaceSwitchOrderUncorrelated ==
    /\ pc = "SubmitSwitchOrder" /\ ctx.newOrderId = 0
    /\ AcceptSwitchOrder
    /\ Goto("SaveSwitchOrder")
    /\ UNCHANGED <<status, dueDate, vendorId, today>>

\* create_switch_order
PlaceSwitchOrder ==
    /\ pc = "SubmitSwitchOrder" /\ ctx.newOrderId = 0
    /\ IF DeduplicatesOrders /\ switchOrders # <<>>
         THEN /\ ctx' = [ctx EXCEPT !.newOrderId = 1, !.newOrder = switchOrders[1]]
              /\ UNCHANGED <<switchOrders, subscriptionVars>>
         ELSE AcceptSwitchOrder
    /\ Goto("SaveSwitchOrder")
    /\ UNCHANGED <<status, dueDate, vendorId, today>>

SaveSwitchOrder(next) ==
    /\ pc = "SaveSwitchOrder"
    /\ vendorId' = ctx.newOrderId
    /\ FollowOrder(next, ctx.newOrderId, ctx.newOrder)
    /\ UNCHANGED <<switchOrders, subscriptionVars>>

FetchSwitchOrder(next) ==
    /\ pc = "SubmitSwitchOrder" /\ ctx.newOrderId # 0
    /\ FollowOrder(next, ctx.newOrderId, switchOrders[ctx.newOrderId])
    /\ UNCHANGED <<vendorId, switchOrders, subscriptionVars>>

SwitchedLines == IF ctx.newOrder = "none" THEN {} ELSE NewLines

-----------------------------------------------------------------------------
(* The pipeline of fulfill_switch_order.                                    *)

Unswitched(step) == step /\ UNCHANGED switchOrders

Submitting(step) ==
    /\ Forgets(step)
    /\ UNCHANGED <<newOrders, buyers, customerVars, published>>

SwitchSteps ==
    \/ Unswitched(SetupCustomer("SetupDueDate"))
    \/ Unswitched(Only(SetupDueDate("ValidateDuplicateLines")))
    \/ Unswitched(Only(ValidateDuplicateLines("ValidateRenewalWindow")))
    \/ Unswitched(Only(ValidateRenewalWindow("ValidateSkuAvailability")))
    \/ Unswitched(Only(ValidateSkuAvailability("GetSwitchPreviewOrder")))
    \/ Unswitched(Only(GetSwitchPreviewOrder("UpdatePrices")))
    \/ Unswitched(Buying(UpdatePrices("SubmitSwitchOrder")))
    \/ Submitting(PlaceSwitchOrder)
    \/ Submitting(SaveSwitchOrder("CreateOrUpdateSubscriptions"))
    \/ Submitting(FetchSwitchOrder("CreateOrUpdateSubscriptions"))
    \/ Unswitched(CreateOrUpdateSubscriptions("CompleteOrder", SwitchedLines))
    \/ Unswitched(Only(CompleteOrder))

AdobeSettlesSwitchOrder ==
    /\ \E id \in DOMAIN switchOrders :
          /\ switchOrders[id] = "OPEN"
          /\ \E orderStatus \in {"COMPLETE", "FAILED"} :
                /\ switchOrders' = [switchOrders EXCEPT ![id] = orderStatus]
                /\ Settle(orderStatus)
    /\ UNCHANGED <<passVars, newOrders, buyers, customerVars, published, seen>>

SwitchInit == switchOrders = <<>>

SwitchTypeOK == switchOrders \in Seq({"OPEN", "COMPLETE", "FAILED"})
=============================================================================
