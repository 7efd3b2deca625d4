---------------------------- MODULE NewOrderSteps ----------------------------
(***************************************************************************)
(* Buying: the steps that preview an Adobe NEW order for the upsized and   *)
(* new lines, submit it and wait for it, and Adobe's side of that order.   *)
(* The identifier of the order is saved on the MPT order (vendorId) only   *)
(* after Adobe answered the POST, so a pass may end between the two.       *)
(***************************************************************************)
EXTENDS OrderPass, AdobeSubscriptions, Sequences

CONSTANTS
    Offers,             \* the offers (discount level, flex discount) that a
                        \* preview may be priced with, now or at a retry
    DeduplicatesOrders, \* external: does Adobe take a NEW order with the
                        \* x-correlation-id of an earlier one for that one?
    MaxNewOrders        \* bound on the NEW orders placed

ASSUME NewOrderAssumption ==
    /\ Offers # {}
    /\ DeduplicatesOrders \in BOOLEAN
    /\ MaxNewOrders \in Nat

VARIABLE newOrders      \* Adobe's NEW orders for this MPT order, oldest first

NewOrderStatus == {"OPEN", "COMPLETE", "FAILED", "CANCELLED"}

\* payload: what was ordered, at what offer; its hash is the x-correlation-id.
\* returned: the RETURN order for the whole NEW order.
Payload == [quantity : [Lines -> Nat], offer : Offers]
NewOrder == [payload : Payload, status : NewOrderStatus,
             returned : {"none", "OPEN", "COMPLETE"}]

\* A line is in an order when the order buys some of it.
Ordered(order) == {line \in Lines : order.payload.quantity[line] > 0}

\* An order that holds, or will hold, licences for the customer.
Live(order) == order.status \in {"OPEN", "COMPLETE"} /\ order.returned = "none"

-----------------------------------------------------------------------------
(* Steps.                                                                   *)

\* create_preview_order: no line left to buy means no preview.
PreviewOf(offer) ==
    IF \A line \in Lines : PurchaseQuantity(line) = 0
      THEN NoPreview
      ELSE [quantity |-> [line \in Lines |-> PurchaseQuantity(line)],
            offer    |-> offer]

GetPreviewOrder(next) ==
    /\ pc = "GetPreviewOrder"
    /\ \/ /\ PurchaseLines = {} \/ ctx.newOrderId # 0
          /\ Continue(next)
       \/ /\ PurchaseLines # {} /\ ctx.newOrderId = 0
          /\ \E offer \in Offers : ctx' = [ctx EXCEPT !.preview = PreviewOf(offer)]
          /\ Goto(next)
          /\ UNCHANGED <<status, dueDate, vendorId, today>>
       \/ /\ PurchaseLines # {} /\ ctx.newOrderId = 0
          /\ "PreviewRejected" \in Refusals
          /\ switch_order_to_failed
    /\ UNCHANGED <<subscriptionVars, newOrders>>

\* Saves the previewed prices, and leaves only {id, price} of each line in
\* the order the rest of the pass works on.
UpdatePrices(next) ==
    /\ pc = "UpdatePrices"
    /\ ctx' = [ctx EXCEPT !.linesRepriced = (ctx.preview # NoPreview)]
    /\ Goto(next)
    /\ UNCHANGED <<status, dueDate, vendorId, today, subscriptionVars, newOrders>>

\* Mutants of FollowOrder: an OPEN order is not waited for; an order Adobe
\* refused does not fail the MPT order.
FollowOrderUnprocessed(next, id, orderStatus) ==
    /\ ctx' = [ctx EXCEPT !.newOrderId = id, !.newOrder = orderStatus]
    /\ Goto(next)
    /\ UNCHANGED <<status, dueDate, today>>

FollowOrderRefused(next, id, orderStatus) ==
    IF orderStatus = "OPEN" THEN EndPass /\ UNCHANGED <<status, dueDate, today>>
    ELSE FollowOrderUnprocessed(next, id, orderStatus)

\* What a pass does once it knows the status of the order.
FollowOrder(next, id, orderStatus) ==
    CASE orderStatus = "OPEN" -> EndPass /\ UNCHANGED <<status, dueDate, today>>
      [] orderStatus = "COMPLETE" ->
           /\ ctx' = [ctx EXCEPT !.newOrderId = id, !.newOrder = orderStatus]
           /\ Goto(next)
           /\ UNCHANGED <<status, dueDate, today>>
      [] OTHER -> status' = "Failed" /\ dueDate' = NoDate /\ EndPass
                  /\ UNCHANGED today

SkipNewOrder(next) ==
    /\ pc = "SubmitNewOrder"
    /\ PurchaseLines = {} \/ (ctx.newOrderId = 0 /\ ctx.preview = NoPreview)
    /\ Continue(next)
    /\ UNCHANGED <<subscriptionVars, newOrders>>

\* POST .../orders.  Adobe processes the order at once or keeps it OPEN.
PlaceNewOrder ==
    /\ pc = "SubmitNewOrder"
    /\ PurchaseLines # {} /\ ctx.newOrderId = 0 /\ ctx.preview # NoPreview
    /\ LET same == {i \in DOMAIN newOrders : newOrders[i].payload = ctx.preview}
           Answered(id, orderStatus) ==
              ctx' = [ctx EXCEPT !.newOrderId = id, !.newOrder = orderStatus]
       IN  IF DeduplicatesOrders /\ same # {}
             THEN \E id \in same :
                    /\ Answered(id, newOrders[id].status)
                    /\ UNCHANGED <<newOrders, subscriptionVars>>
             ELSE /\ Len(newOrders) < MaxNewOrders
                  /\ \E orderStatus \in {"OPEN", "COMPLETE"} :
                       /\ newOrders' = Append(newOrders,
                             [payload |-> ctx.preview, status |-> orderStatus,
                              returned |-> "none"])
                       /\ Answered(Len(newOrders) + 1, orderStatus)
                       /\ IF orderStatus = "COMPLETE"
                            THEN Process(ctx.preview.quantity)
                            ELSE UNCHANGED subscriptionVars
    /\ Goto("SaveNewOrder")
    /\ UNCHANGED <<status, dueDate, vendorId, today>>

\* update_order saves the identifier the POST was answered with.
SaveNewOrder(next) ==
    /\ pc = "SaveNewOrder"
    /\ vendorId' = ctx.newOrderId
    /\ FollowOrder(next, ctx.newOrderId, ctx.newOrder)
    /\ UNCHANGED <<subscriptionVars, newOrders>>

\* A later pass fetches the order it finds saved.
FetchNewOrder(next) ==
    /\ pc = "SubmitNewOrder"
    /\ PurchaseLines # {} /\ ctx.newOrderId # 0
    /\ FollowOrder(next, ctx.newOrderId, newOrders[ctx.newOrderId].status)
    /\ UNCHANGED <<vendorId, subscriptionVars, newOrders>>

SubmitNewOrder(next) ==
    SkipNewOrder(next) \/ PlaceNewOrder \/ SaveNewOrder(next) \/ FetchNewOrder(next)

-----------------------------------------------------------------------------
(* Adobe.                                                                   *)

AdobeCompletesNewOrder(id) ==
    /\ newOrders[id].status = "OPEN"
    /\ newOrders' = [newOrders EXCEPT ![id].status = "COMPLETE"]
    /\ Process(newOrders[id].payload.quantity)

AdobeFailsNewOrder(id) ==
    /\ newOrders[id].status = "OPEN"
    /\ newOrders' = [newOrders EXCEPT ![id].status = "FAILED"]
    /\ UNCHANGED subscriptionVars

AdobeCancelsReturnedOrder(id) ==
    /\ newOrders[id].returned = "OPEN"
    /\ newOrders' = [newOrders EXCEPT ![id].status = "CANCELLED",
                                      ![id].returned = "COMPLETE"]
    /\ Process([line \in Lines |-> -newOrders[id].payload.quantity[line]])

AdobeSettlesNewOrder ==
    /\ \E id \in DOMAIN newOrders :
          \/ AdobeCompletesNewOrder(id)
          \/ AdobeFailsNewOrder(id)
          \/ AdobeCancelsReturnedOrder(id)
    /\ UNCHANGED passVars

NewOrderInit == newOrders = <<>>

NewOrderTypeOK ==
    /\ newOrders \in Seq(NewOrder)
    /\ vendorId \in 0 .. Len(newOrders)
    /\ ctx.newOrderId \in 0 .. Len(newOrders)
=============================================================================
