----------------------------- MODULE ChangeOrder -----------------------------
(***************************************************************************)
(* Fulfilment of an MPT change order: upsized and new lines are bought     *)
(* with an Adobe NEW order, downsized lines are served by returning        *)
(* earlier purchases or by lowering the renewal quantity, every renewal    *)
(* quantity is brought to the quantity of its line, and the MPT order is   *)
(* completed.  Every pass starts over; what it finds done it does not do   *)
(* again.  Agreements with lapsed subscriptions to renew late are out of   *)
(* this module: CheckManualRenewalSubscriptions finds none.                *)
(***************************************************************************)
EXTENDS NewOrderSteps, ReturnSteps

CONSTANTS
    PatchErrors,      \* the errors Adobe may answer a renewal update with
    InactiveLines,    \* lines whose new Adobe subscription is not ACTIVE
    Commitment        \* the 3YC minimum the renewal quantities must add up to

\* 3120, 3119, 3123 and any other code of AdobeErrorCode.
ErrorCodes == {"INVALID_RENEWAL_STATE", "INACTIVE_SUBSCRIPTION_NOT_EDITABLE",
               "LINE_ITEM_OFFER_ID_EXPIRED", "OTHER"}

ASSUME ChangeOrderAssumption ==
    /\ PatchErrors \subseteq ErrorCodes
    /\ IsFiniteSet(Lines)
    /\ InactiveLines \subseteq Lines
    /\ Commitment \in Nat

VARIABLES
    subscribed,   \* lines with a subscription in the MPT order
    orderIds      \* ordering parameter adobeOrderIds: kind and number of the
                  \* NEW and RETURN orders saved on the MPT order

vars == <<passVars, subscriptionVars, newOrders, returns, subscribed, orderIds>>
adobeVars == <<subscriptionVars, newOrders, returns>>

RolledBackOrders == {id \in DOMAIN newOrders : newOrders[id].returned # "none"}

-----------------------------------------------------------------------------
(* UpdateRenewalQuantities, run once for the upsized and new lines and once *)
(* (UpdateRenewalQuantitiesDownsizes) for the downsized ones.               *)

\* Mutants of UpdatedBy: the downsizes are updated first; never.
UpdatedDownsizesFirst(step) ==
    IF step = "UpdateRenewalQuantities" THEN DownsizeLines ELSE PurchaseLines

UpdatedPurchasesOnly(step) == PurchaseLines

UpdatedBy(step) ==
    IF step = "UpdateRenewalQuantities" THEN PurchaseLines ELSE DownsizeLines

\* Errors that are swallowed, and the line counted as updated: the new order
\* already brought the quantity, or the offer expired.
Tolerated(code, line) ==
    \/ /\ code = "INVALID_RENEWAL_STATE"
       /\ renewal[line] < NewQuantity[line]
       /\ ctx.newOrder # "none" /\ line \in Ordered(newOrders[ctx.newOrderId])
            => ctx.newOrder = "COMPLETE"
    \/ /\ code = "LINE_ITEM_OFFER_ID_EXPIRED"
       /\ ctx.newOrder # "none"

\* _update_line: an intolerable error is remembered, the loop goes on.
UpdateLine(step, line) ==
    /\ pc = step
    /\ line \in (UpdatedBy(step) \cap subscribed) \ ctx.done
    /\ LET handled == [ctx EXCEPT !.done = @ \cup {line}]
           counted == [handled EXCEPT !.updated = @ \cup {<<line, renewal[line]>>}]
       IN  \/ /\ renewal[line] = NewQuantity[line]
              /\ ctx' = handled
              /\ UNCHANGED renewal
           \/ /\ renewal[line] # NewQuantity[line]
              /\ renewal' = [renewal EXCEPT ![line] = NewQuantity[line]]
              /\ ctx' = counted
           \/ /\ renewal[line] # NewQuantity[line]
              /\ \E code \in PatchErrors :
                    /\ ctx' = IF Tolerated(code, line) THEN counted
                              ELSE [handled EXCEPT !.error = code]
                    /\ \/ UNCHANGED renewal
                       \/ /\ code = "OTHER"   \* updated, but not read back
                          /\ renewal' = [renewal EXCEPT ![line] = NewQuantity[line]]
    /\ UNCHANGED <<status, dueDate, vendorId, today, pc, current, newOrders,
                   returns, subscribed>>

\* The end of the loop: on with the pipeline, or into the rollback.
LinesUpdated(step, next) ==
    /\ pc = step
    /\ UpdatedBy(step) \cap subscribed \subseteq ctx.done
    /\ IF ctx.error = "none"
         THEN /\ ctx' = [ctx EXCEPT !.done = {}, !.updated = {}]
              /\ Goto(next)
         ELSE /\ Goto("Rollback")
              /\ UNCHANGED ctx
    /\ UNCHANGED <<status, dueDate, vendorId, today, adobeVars, subscribed>>

UpdateRenewalQuantities(step, next) ==
    (\E line \in Lines : UpdateLine(step, line)) \/ LinesUpdated(step, next)

\* _rollback_updated_subscriptions, one call at a time.  Whatever it raises
\* is reported and swallowed, and ends the rollback.
RestoreLine ==
    /\ pc = "Rollback"
    /\ \E change \in ctx.updated :
         /\ renewal' = [renewal EXCEPT ![change[1]] = change[2]]
         /\ ctx' = [ctx EXCEPT !.updated = @ \ {change}]
    /\ UNCHANGED <<status, dueDate, vendorId, today, pc, current, newOrders,
                   returns, subscribed>>

\* create_return_order_by_adobe_order takes the whole NEW order back.
ReturnNewOrder ==
    /\ pc = "Rollback"
    /\ ctx.updated = {} /\ ctx.newOrder # "none"
    /\ newOrders[ctx.newOrderId].returned = "none"
    /\ newOrders' = [newOrders EXCEPT ![ctx.newOrderId].returned = "OPEN"]
    /\ Goto("RolledBack")
    /\ UNCHANGED <<status, dueDate, vendorId, today, ctx, subscriptionVars,
                   returns, subscribed>>

\* Nothing is left to undo, or one of the calls failed.
RollbackEnds ==
    /\ pc = "Rollback"
    /\ Goto("RolledBack")
    /\ UNCHANGED <<status, dueDate, vendorId, today, ctx, adobeVars, subscribed>>

\* Only two codes fail the order; after any other it stays Processing.
RolledBack ==
    /\ pc = "RolledBack"
    /\ IF ctx.error \in {"INVALID_RENEWAL_STATE", "INACTIVE_SUBSCRIPTION_NOT_EDITABLE"}
         THEN switch_order_to_failed
         ELSE Wait
    /\ UNCHANGED <<adobeVars, subscribed>>

-----------------------------------------------------------------------------
(* Publishing what was bought.                                              *)

\* Looks up the item of every line of the order: a pass that repriced the
\* lines has lost them, and raises.
CreateOrUpdateAssets(next) ==
    /\ pc = "CreateOrUpdateAssets"
    /\ IF ctx.newOrderId # 0 /\ ctx.linesRepriced THEN Wait ELSE Continue(next)
    /\ UNCHANGED <<adobeVars, subscribed>>

ToSubscribe == IF ctx.newOrder = "none" THEN {}
               ELSE Ordered(newOrders[ctx.newOrderId]) \ (subscribed \cup InactiveLines)

CreateOrUpdateSubscriptions(next) ==
    /\ pc = "CreateOrUpdateSubscriptions"
    /\ \/ \E line \in ToSubscribe :
            /\ subscribed' = subscribed \cup {line}
            /\ UNCHANGED passVars
       \/ /\ ToSubscribe = {}
          /\ Continue(next)
          /\ UNCHANGED subscribed
    /\ UNCHANGED adobeVars

-----------------------------------------------------------------------------
(* The Adobe orders the MPT order names.                                    *)

\* Mutant of ListNewOrder: the purchase is saved, and not put on the list.
ListNewOrderNowhere == UNCHANGED orderIds

\* SubmitNewOrder saves the purchase and puts it on the list in one call.
ListNewOrder ==
    orderIds' = IF pc = "SaveNewOrder" THEN orderIds \cup {<<"NEW", vendorId'>>}
                ELSE orderIds

\* SubmitReturnOrders puts each RETURN order it has placed on the list.
ListReturnOrder ==
    orderIds' = orderIds \cup
        {<<"RETURN", p>> : p \in {q \in Purchases : returns[q] = "none" /\ returns'[q] # "none"}}

\* externalIds.vendor: the purchase, until CompleteOrder replaces it by the
\* list, if there is one.
SavedOrder == IF vendorId # 0 THEN {<<"NEW", vendorId>>} ELSE {}
ExternalId == IF status = "Completed" /\ orderIds # {} THEN orderIds ELSE SavedOrder

-----------------------------------------------------------------------------
(* The pipeline of fulfill_change_order.                                    *)

Platform ==
    /\ Dispatch \/ Abort \/ Resume \/ NextDay
    /\ UNCHANGED <<adobeVars, subscribed, orderIds>>

Adobe ==
    /\ \/ AdobeSettlesNewOrder /\ UNCHANGED <<returns, subscribed>>
       \/ AdobeSettlesReturnOrder /\ UNCHANGED <<newOrders, subscribed>>
    /\ UNCHANGED orderIds

Prepare ==
    /\ \/ SetupContext("SetupDueDate")
       \/ SetupDueDate("ValidateDuplicateLines")
       \/ ValidateDuplicateLines("ValidateRenewalWindow")
       \/ ValidateRenewalWindow("ValidateSkuAvailability")
       \/ ValidateSkuAvailability("GetReturnOrders")
       \/ Validate3YCCommitment("GetPreviewOrder")
    /\ UNCHANGED <<adobeVars, subscribed>>

Buy ==
    /\ \/ GetPreviewOrder("UpdatePrices")
       \/ UpdatePrices("SubmitNewOrder")
       \/ SubmitNewOrder("UpdateRenewalQuantities")
    /\ ListNewOrder
    /\ UNCHANGED <<returns, subscribed>>

GiveBack ==
    /\ \/ /\ \/ GetReturnOrders("GetReturnableOrders", RolledBackOrders # {})
             \/ GetReturnableOrders("ValidateReturnableOrders")
             \/ ValidateReturnableOrders("Validate3YCCommitment")
             \/ SubmitReturnOrders("UpdateRenewalQuantitiesDownsizes")
          /\ ListReturnOrder
       \/ /\ \E p \in Purchases : LoseReturnOrder(p)
          /\ UNCHANGED orderIds
    /\ UNCHANGED <<newOrders, subscribed>>

Update ==
    \/ UpdateRenewalQuantities("UpdateRenewalQuantities", "SubmitReturnOrders")
    \/ UpdateRenewalQuantities("UpdateRenewalQuantitiesDownsizes", "CreateOrUpdateAssets")
    \/ RestoreLine \/ ReturnNewOrder \/ RollbackEnds \/ RolledBack

Publish ==
    \/ CreateOrUpdateAssets("CreateOrUpdateSubscriptions")
    \/ CreateOrUpdateSubscriptions("CompleteOrder")
    \/ CompleteOrder /\ UNCHANGED <<adobeVars, subscribed>>

Step ==
    \/ Buy
    \/ GiveBack
    \/ /\ Prepare \/ Update \/ Publish
       /\ UNCHANGED orderIds

Init ==
    /\ PassInit /\ SubscriptionsInit /\ NewOrderInit /\ ReturnInit
    /\ subscribed = Lines \ NewLines
    /\ orderIds = {}

Next == Platform \/ Adobe \/ Step

Spec == Init /\ [][Next]_vars

-----------------------------------------------------------------------------
Steps == {Idle, "SetupContext", "SetupDueDate", "ValidateDuplicateLines",
          "ValidateRenewalWindow", "ValidateSkuAvailability", "GetReturnOrders",
          "GetReturnableOrders", "ValidateReturnableOrders",
          "Validate3YCCommitment", "GetPreviewOrder", "UpdatePrices",
          "SubmitNewOrder", "SaveNewOrder", "UpdateRenewalQuantities",
          "SubmitReturnOrders", "UpdateRenewalQuantitiesDownsizes", "Rollback",
          "RolledBack", "CreateOrUpdateAssets", "CreateOrUpdateSubscriptions",
          "CompleteOrder"}

\* What a pass of this pipeline may know.
Context ==
    [newOrderId     : Nat,
     newOrder       : NewOrderStatus \cup {"none"},
     preview        : Payload \cup {NoPreview},
     linesRepriced  : BOOLEAN,
     returnOrders   : SUBSET Purchases,
     pendingReturns : SUBSET Purchases,
     otherReturns   : BOOLEAN,
     returnable     : UNION {[lines -> SUBSET Purchases] : lines \in SUBSET DownsizeLines},
     done           : SUBSET Lines,
     updated        : SUBSET (Lines \X Nat),
     error          : ErrorCodes \cup {"none"}]

StateTypeOK ==
    /\ PassTypeOK
    /\ pc \in Steps
    /\ SubscriptionsTypeOK
    /\ ctx \in Context
    /\ NewOrderTypeOK
    /\ ReturnTypeOK
    /\ subscribed \subseteq Lines
    /\ ctx.newOrder # "none" => ctx.newOrderId # 0

\* Every variable of a change order holds a value of its kind, and the order
\* identifiers a pass carries or the MPT order lists exist at Adobe
\* (SubmitNewOrder, GetReturnOrders, SubmitReturnOrders).
TypeOK ==
    /\ StateTypeOK
    /\ orderIds \subseteq ({"NEW"} \X DOMAIN newOrders) \cup ({"RETURN"} \X Purchases)

-----------------------------------------------------------------------------
(* Safety.                                                                  *)

\* No upsized or new item is bought beyond the quantity of its line, or what
\* the customer held before: a repeated preview leaves out what is already
\* there (_process_upsize_lines).
NeverOverbought ==
    \A line \in PurchaseLines :
        current[line] <= NewQuantity[line] \/ current[line] <= FirstCurrent[line]

\* The returns placed for a downsized line, over all passes, never take back
\* more than the downsize (GetReturnableOrders, SubmitReturnOrders).
ReturnedWithinDownsize ==
    \A line \in DownsizeLines : Quantity(ReturnedOf(line)) <= Downsize(line)

\* Adobe has processed the purchase recorded on a completed order: no pass
\* completes an order over a purchase still open or refused (SubmitNewOrder
\* before CompleteOrder).
PurchaseProcessed ==
    status = "Completed" /\ vendorId # 0 =>
        newOrders[vendorId].status \in {"COMPLETE", "CANCELLED"}

\* The purchase recorded on a completed order is the one the customer holds,
\* and the customer holds no other: none was given back, and none was placed
\* by a pass that did not live to record it (SaveNewOrder, ReturnNewOrder).
PurchaseHeld ==
    status = "Completed" =>
        \A id \in DOMAIN newOrders : Live(newOrders[id]) <=> id = vendorId

\* A completed order has served every line: the returns of a downsized line
\* are processed and add up to the downsize or there are none, what has a
\* subscription renews with the quantity of the line, and so does every new
\* item Adobe activated (SubmitReturnOrders, UpdateRenewalQuantities and
\* CreateOrUpdateSubscriptions before CompleteOrder).
CompletedIsDelivered ==
    status = "Completed" =>
      /\ \A line \in DownsizeLines : Quantity(ReturnedOf(line)) \in {0, Downsize(line)}
      /\ \A p \in Purchases : returns[p] # "OPEN"
      /\ \A line \in subscribed : renewal[line] = NewQuantity[line]
      /\ NewLines \ InactiveLines \subseteq subscribed

\* The renewal quantities together never fall below the committed minimum,
\* which the agreement meets before the order and will meet after it: "the
\* upsizes and new lines are processed first" (UpdateRenewalQuantities).
CommitmentKept == SumFunctionOnSet(renewal, Lines) >= Commitment

\* The purchase an order names by its external identifier.
Recorded == {id \in ExternalId : id[1] = "NEW"}

\* Once an order names a purchase it names that one for good, also when
\* completion replaces its external identifier by the list of the orders
\* saved, and no later pass places another (SubmitNewOrder looks at the saved
\* identifier, and lists what it saves; CompleteOrder).
RecordedPurchaseIsFinal ==
    [][Recorded # {} => Recorded' = Recorded /\ Len(newOrders') = Len(newOrders)]_vars

\* Nothing is bought or given back for an order that is not Processing: a
\* step that decides the order ends its pass (the early returns after
\* switch_order_to_failed and switch_order_to_query).
NothingOrderedOnceDecided ==
    [][status # "Processing" =>
         /\ Len(newOrders') = Len(newOrders)
         /\ \A id \in DOMAIN newOrders :
               newOrders[id].returned = "none" => newOrders'[id].returned = "none"
         /\ \A p \in Purchases : returns[p] = "none" => returns'[p] = "none"]_vars

-----------------------------------------------------------------------------
(* The promise a change order keeps.                                        *)

LiveOrders == {id \in DOMAIN newOrders : Live(newOrders[id])}

Purchase ==
    IF \E i, j \in LiveOrders : i # j THEN "twice"
    ELSE IF \E id \in LiveOrders : newOrders[id].status = "COMPLETE" THEN "held"
    ELSE IF LiveOrders # {} THEN "pending"
    ELSE IF newOrders = <<>> THEN "none"
    ELSE "lost"

Promise == INSTANCE OrderPromise WITH order <- status, purchase <- Purchase

\* A change order buys as OrderPromise says: at most once over all its passes,
\* never for a decided order, and it completes only over a purchase held
\* (fulfill_change_order as a whole).
KeepsPromise == Promise!Spec

-----------------------------------------------------------------------------
(* Liveness: passes go on, days go by and Adobe settles what is open.       *)

Fairness ==
    /\ WF_vars(Dispatch /\ UNCHANGED <<adobeVars, subscribed, orderIds>>)
    /\ WF_vars(NextDay /\ UNCHANGED <<adobeVars, subscribed, orderIds>>)
    /\ WF_vars(Adobe)
    /\ WF_vars(Step)
    /\ SF_vars(SetupDueDate("ValidateDuplicateLines")
                 /\ UNCHANGED <<adobeVars, subscribed, orderIds>>)

FairSpec == Spec /\ Fairness

\* As FairSpec, and the lookup of the customer does not fail for ever.
ReachableCustomer ==
    SF_vars(SetupContext("SetupDueDate") /\ pc' = "SetupDueDate"
              /\ UNCHANGED <<adobeVars, subscribed, orderIds>>)

FairReachableSpec == FairSpec /\ ReachableCustomer

\* A Processing order is decided in the end, at the latest by its due date,
\* whatever else keeps failing (SetupDueDate, and the comment on transport
\* faults in fulfill_order).
DecidedInTheEnd == status = "Processing" ~> status # "Processing"
=============================================================================
