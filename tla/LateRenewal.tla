----------------------------- MODULE LateRenewal -----------------------------
(***************************************************************************)
(* Late renewal.  A line whose Adobe subscription has expired and may      *)
(* still be renewed by hand is renewed by a RENEWAL order in front of the  *)
(* NEW order; only what the line asks for beyond it is bought.  The split  *)
(* is saved on the order (Param.LATE_RENEWALS_INFO) before anything is     *)
(* placed, because Adobe no longer offers the renewal afterwards.          *)
(***************************************************************************)
EXTENDS NewOrderSteps

CONSTANT Lapses        \* what the customer may hold of each line in expired
                       \* subscriptions that Adobe offers to renew by hand

ASSUME LateRenewalAssumption == Lapses \subseteq [Lines -> Nat]

VARIABLES
    lapsed,            \* currentQuantity of the expired subscription of a line
    lateInfo,          \* ordering parameter lateRenewalsInfo of the order
    lateRenewals       \* Adobe's RENEWAL orders for this MPT order

lateVars == <<lapsed, lateInfo, lateRenewals>>

NoInfo == [x \in {} |-> 0]

LateRenewalOrder == [quantity : [Lines -> Nat], status : {"OPEN", "COMPLETE", "FAILED"}]

\* manual_renewal_lines, with renewal_qty; 0 for a line that was diverted.
RenewalQuantity(line) == IF lateInfo = NoInfo THEN 0 ELSE lateInfo[line]
ManualRenewalLines == {line \in Lines : RenewalQuantity(line) > 0}

\* Mutant of RestQuantity: a renewed line stays among the new lines.
RestQuantityWhole(line) == PurchaseQuantity(line)

\* What is left to buy: excess_qty of a renewed line, all of any other.
RestQuantity(line) ==
    IF line \in ManualRenewalLines THEN NewQuantity[line] - RenewalQuantity(line)
    ELSE PurchaseQuantity(line)

RestLines ==
    {line \in PurchaseLines : line \in ManualRenewalLines => RestQuantity(line) > 0}

-----------------------------------------------------------------------------
(* CheckManualRenewalSubscriptions.                                         *)

RestoreFromStored(next) ==
    /\ pc = "CheckManualRenewalSubscriptions"
    /\ lateInfo # NoInfo
    /\ Continue(next)
    /\ UNCHANGED lateVars

\* expired: the lines whose subscription has expired by now.  Those for which
\* Adobe refuses a preview as not renewable are diverted; any other refusal
\* fails the order.  The split is saved before the pass goes on.
ComputeFromAdobe(next, expired) ==
    /\ pc = "CheckManualRenewalSubscriptions"
    /\ lateInfo = NoInfo
    /\ LET offered == {line \in PurchaseLines \cap expired : lapsed[line] > 0}
           Renewable(line) == IF NewQuantity[line] < lapsed[line] THEN NewQuantity[line]
                              ELSE lapsed[line]
       IN  \/ offered = {} /\ Continue(next) /\ UNCHANGED lateInfo
           \/ /\ offered # {}
              /\ \E diverted \in SUBSET offered :
                    lateInfo' = [line \in Lines |->
                       IF line \in offered \ diverted THEN Renewable(line) ELSE 0]
              /\ Continue(next)
           \/ /\ offered # {} /\ "PreviewRejected" \in Refusals
              /\ switch_order_to_failed
              /\ UNCHANGED lateInfo
    /\ UNCHANGED <<lapsed, lateRenewals>>

-----------------------------------------------------------------------------
(* Renewing.                                                                *)

\* previewed: the pass has the preview CheckManualRenewalSubscriptions made.
PreviewRenewalOrders(next, previewed) ==
    /\ pc = "PreviewRenewalOrders"
    /\ \/ Continue(next)
       \/ /\ ManualRenewalLines # {} /\ lateRenewals = <<>> /\ ~previewed
          /\ "PreviewRejected" \in Refusals
          /\ switch_order_to_failed
    /\ UNCHANGED lateVars

\* Adobe processes a RENEWAL order: the subscriptions are active again.
Renews(quantity) ==
    /\ Process(quantity)
    /\ lapsed' = [line \in Lines |-> IF quantity[line] > 0 THEN 0 ELSE lapsed[line]]

FollowRenewalOrder(next, orderStatus) ==
    \/ orderStatus = "OPEN" /\ Wait
    \/ orderStatus = "COMPLETE" /\ Continue(next)
    \/ orderStatus = "FAILED" /\ switch_order_to_failed

\* get_existing_renewal_order finds the order by its external reference.
FindRenewalOrder(next) ==
    /\ lateRenewals # <<>>
    /\ FollowRenewalOrder(next, lateRenewals[1].status)
    /\ UNCHANGED <<lateVars, subscriptionVars>>

PlaceRenewalOrder(next) ==
    /\ lateRenewals = <<>>
    /\ \/ \E orderStatus \in {"OPEN", "COMPLETE"} :
             /\ lateRenewals' = <<[quantity |-> lateInfo, status |-> orderStatus]>>
             /\ IF orderStatus = "COMPLETE" THEN Renews(lateInfo)
                ELSE UNCHANGED <<subscriptionVars, lapsed>>
             /\ FollowRenewalOrder(next, orderStatus)
       \/ /\ "OrderRejected" \in Refusals
          /\ switch_order_to_failed
          /\ UNCHANGED <<lateRenewals, subscriptionVars, lapsed>>
    /\ UNCHANGED lateInfo

SubmitRenewalOrders(next) ==
    /\ pc = "SubmitRenewalOrders"
    /\ \/ /\ ManualRenewalLines = {}
          /\ Continue(next)
          /\ UNCHANGED <<lateVars, subscriptionVars>>
       \/ /\ ManualRenewalLines # {}
          /\ FindRenewalOrder(next) \/ PlaceRenewalOrder(next)

-----------------------------------------------------------------------------
(* Buying the rest.                                                         *)

RestPreview(offer) ==
    [quantity |-> [line \in Lines |-> IF line \in RestLines THEN RestQuantity(line) ELSE 0],
     offer    |-> offer]

GetRestPreview(next) ==
    /\ pc = "GetPreviewOrder"
    /\ \/ /\ RestLines = {} \/ ctx.newOrderId # 0
          /\ Continue(next)
       \/ /\ RestLines # {} /\ ctx.newOrderId = 0
          /\ \E offer \in Offers : ctx' = [ctx EXCEPT !.preview = RestPreview(offer)]
          /\ Goto(next)
          /\ UNCHANGED <<status, dueDate, vendorId, today>>
       \/ /\ RestLines # {} /\ ctx.newOrderId = 0
          /\ "PreviewRejected" \in Refusals
          /\ switch_order_to_failed
    /\ UNCHANGED <<subscriptionVars, newOrders>>

SubmitRestOrder(next) ==
    \/ /\ pc = "SubmitNewOrder" /\ RestLines = {}
       /\ Continue(next)
       /\ UNCHANGED <<subscriptionVars, newOrders>>
    \/ RestLines # {} /\ SubmitNewOrder(next)

\* _merge_adobe_line_items
BoughtOrRenewed ==
    ManualRenewalLines \cup
    (IF ctx.newOrder = "none" THEN {} ELSE Ordered(newOrders[ctx.newOrderId]))

-----------------------------------------------------------------------------
AdobeSettlesLateRenewal ==
    /\ \E id \in DOMAIN lateRenewals :
          /\ lateRenewals[id].status = "OPEN"
          /\ \/ /\ lateRenewals' = [lateRenewals EXCEPT ![id].status = "COMPLETE"]
                /\ Renews(lateRenewals[id].quantity)
             \/ /\ lateRenewals' = [lateRenewals EXCEPT ![id].status = "FAILED"]
                /\ UNCHANGED <<subscriptionVars, lapsed>>
    /\ UNCHANGED <<passVars, newOrders, lateInfo>>

LateRenewalInit ==
    /\ lapsed \in Lapses
    /\ lateInfo = NoInfo
    /\ lateRenewals = <<>>
=============================================================================
