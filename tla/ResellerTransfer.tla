--------------------------- MODULE ResellerTransfer ---------------------------
(***************************************************************************)
(* Fulfilment of a reseller change: an Adobe customer moves to this        *)
(* reseller with what it holds.  The pass that commits the change keeps    *)
(* the transfer in memory; what the order keeps are the identifiers of the *)
(* transfer and of the customer.  A transfer without line items, the       *)
(* revival of an account, is followed by a purchase.                       *)
(*                                                                         *)
(* Airtable records, deployments and the auto-renewal flags, whose errors  *)
(* are passed over, are left out.                                          *)
(***************************************************************************)
EXTENDS PurchaseOrder

VARIABLE change        \* Adobe's reseller transfer: its status and line items

\* externalIds.vendor and adobe_new_order_id may hold the transfer's identifier.
TransferId == MaxNewOrders + 1
TheCustomer == 1

ChangeStatus == {"none", "OPEN", "COMPLETE"}
Transferred == change.status = "COMPLETE"

-----------------------------------------------------------------------------
\* The preview of a change Adobe already committed is refused.
FetchResellerChangeData(next) ==
    /\ pc = "FetchResellerChangeData"
    /\ \/ /\ seen.account # 0 \/ change.status = "none"
          /\ Continue(next)
       \/ /\ seen.account = 0
          /\ change.status # "none" \/ "PreviewRejected" \in Refusals
          /\ switch_order_to_failed

ValidateResellerChange(next) ==
    /\ pc = "ValidateResellerChange"
    /\ \/ Continue(next)
       \/ /\ seen.account = 0
          /\ "ChangeRefused" \in Refusals
          /\ switch_order_to_failed

\* reseller_change_request with the action COMMIT.
CommitResellerChange(next) ==
    /\ pc = "CommitResellerChange"
    /\ \/ /\ seen.account # 0
          /\ Continue(next)
          /\ UNCHANGED <<customers, change, seen>>
       \/ /\ seen.account = 0
          /\ change.status = "none"
          /\ \E answer \in {"OPEN", "COMPLETE"} :
                change' = [change EXCEPT !.status = answer]
          /\ customers' = TheCustomer
          /\ seen' = [seen EXCEPT !.account = TheCustomer, !.transfer = TRUE]
          /\ Continue("SaveResellerChange")
       \/ /\ seen.account = 0
          /\ "ChangeRefused" \in Refusals
          /\ Forgets(switch_order_to_failed)
          /\ UNCHANGED <<customers, change>>
    /\ UNCHANGED <<customerId, agreementCustomer, boughtVars, published>>

\* adobe_new_order_id of the pass stays what SetupContext read.
SaveResellerChange(next) ==
    /\ pc = "SaveResellerChange"
    /\ vendorId' = TransferId
    /\ customerId' = seen.account
    /\ Goto(next)
    /\ UNCHANGED <<status, dueDate, today, ctx, customers, agreementCustomer,
                   boughtVars, published, seen, change>>

\* Mutant of CheckAdobeResellerTransfer: a transfer still OPEN is not waited for.
CheckAdobeResellerTransferOpen(next) ==
    /\ pc = "CheckAdobeResellerTransfer"
    /\ Continue(next)

CheckAdobeResellerTransfer(next) ==
    /\ pc = "CheckAdobeResellerTransfer"
    /\ IF seen.transfer /\ change.status = "OPEN" THEN Wait ELSE Continue(next)

\* Saves adobe_new_order_id, known or not, over the identifier of the transfer.
GetAdobeCustomer(next) ==
    /\ pc = "GetAdobeCustomer"
    /\ vendorId' = ctx.newOrderId
    /\ customerId' = seen.account
    /\ Goto(next)
    /\ UNCHANGED <<status, dueDate, today, ctx, customers, agreementCustomer,
                   boughtVars, published, seen, change>>

\* adobe_transfer_order.get("lineItems"): nothing when no transfer is at hand.
LineItems == IF seen.transfer THEN change.items ELSE {}

\* A transfer that is followed by a purchase loses its place on the order.
ProcessResellerTransferOrder(transferNext, purchaseNext) ==
    /\ pc = "ProcessResellerTransferOrder"
    /\ LET reset == LineItems = {} /\ seen.transfer /\ ctx.newOrderId = TransferId
       IN  /\ vendorId' = IF reset THEN 0 ELSE vendorId
           /\ ctx' = IF reset THEN [ctx EXCEPT !.newOrderId = 0] ELSE ctx
    /\ Goto(IF LineItems = {} THEN purchaseNext ELSE transferNext)
    /\ UNCHANGED <<status, dueDate, today>>

\* Subscriptions that are not ACTIVE are skipped.
CreateTransferSubscriptions(next) ==
    /\ pc = "CreateTransferSubscriptions"
    /\ LET toCreate == LineItems \ (published \cup InactiveLines) IN
       \/ \E line \in toCreate : published' = published \cup {line} /\ Continue(pc)
       \/ toCreate = {} /\ Continue(next) /\ UNCHANGED published
    /\ UNCHANGED <<boughtVars, customerVars, seen, change>>

\* The identifier of the transfer is taken for that of a NEW order; should
\* Adobe answer, then with the transfer.  For an order that buys nothing no
\* order is fetched, and CreateOrUpdateAssets raises over the lack of it.
FetchTransferAsOrder(next) ==
    /\ pc = "SubmitNewOrder" /\ ctx.newOrderId = TransferId
    /\ IF PurchaseLines = {} THEN Wait ELSE FollowOrder(next, TransferId, change.status)
    /\ UNCHANGED <<vendorId, subscriptionVars, newOrders>>

BoughtOrTransferred ==
    IF ctx.newOrderId = TransferId THEN change.items ELSE Bought

-----------------------------------------------------------------------------
(* The pipeline of fulfill_reseller_change_order, with the purchase that    *)
(* branches off at ProcessResellerTransferOrder.                            *)

Unmoved(step) == step /\ UNCHANGED change

ResellerSteps ==
    \/ Unmoved(SetupCustomer("SetupDueDate"))
    \/ Unmoved(Only(SetupDueDate("FetchResellerChangeData")))
    \/ Unmoved(Only(FetchResellerChangeData("ValidateResellerChange")))
    \/ Unmoved(Only(ValidateResellerChange("CommitResellerChange")))
    \/ CommitResellerChange("CheckAdobeResellerTransfer")
    \/ SaveResellerChange("SaveAgreement")
    \/ Unmoved(SaveAgreement("SaveAgreement", "CheckAdobeResellerTransfer"))
    \/ Unmoved(Only(CheckAdobeResellerTransfer("GetAdobeCustomer")))
    \/ GetAdobeCustomer("SaveAgreementAgain")
    \/ Unmoved(SaveAgreement("SaveAgreementAgain", "ProcessResellerTransferOrder"))
    \/ Unmoved(Only(ProcessResellerTransferOrder("CreateTransferSubscriptions",
                                                 "GetPreviewOrder")))
    \/ CreateTransferSubscriptions("CompleteOrder")
    \/ Unmoved(Only(CompleteOrder))

RevivalSteps ==
    \/ Buying(GetPreviewOrder("UpdatePrices"))
    \/ Buying(UpdatePrices("SubmitNewOrder"))
    \/ Buying(FetchTransferAsOrder("CreateOrUpdateAssets"))
    \/ ctx.newOrderId # TransferId /\ Buying(SubmitNewOrder("CreateOrUpdateAssets"))
    \/ CreateOrUpdateAssets("CreateOrUpdateSubscriptions")
    \/ CreateOrUpdateSubscriptions("CompleteOrder", BoughtOrTransferred)

AdobeSettlesChange ==
    /\ change.status = "OPEN"
    /\ change' = [change EXCEPT !.status = "COMPLETE"]
    /\ UNCHANGED <<passVars, boughtVars, customerVars, published, seen>>

ResellerInit == change \in [status : {"none"}, items : {{}, NewLines}]

ResellerTypeOK == change \in [status : ChangeStatus, items : {{}, NewLines}]
=============================================================================
