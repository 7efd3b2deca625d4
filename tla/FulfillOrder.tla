----------------------------- MODULE FulfillOrder -----------------------------
(***************************************************************************)
(* fulfill_order hands an order to the pipeline of its kind: a purchase, a *)
(* reseller change, a mid-term switch, a termination, a configuration.     *)
(* The kind is read off the order in every pass and never changes.  Change *)
(* orders, renewals and transfers have compositions of their own.          *)
(***************************************************************************)
EXTENDS ResellerTransfer, SwitchOrder, TerminationOrder, ConfigurationOrder

CONSTANT Kinds         \* the kinds of order looked at

OrderKinds == {"purchase", "reseller", "switch", "termination", "configuration"}

ASSUME FulfillOrderAssumption == Kinds \subseteq OrderKinds

VARIABLE kind          \* what the order is: its type and parameters

vars == <<passVars, boughtVars, customerVars, published, seen, change,
          switchOrders, returns, enabled, kind>>

\* Adobe customers of orders that are not the first of their agreement.
HasCustomer == kind \in {"switch", "termination", "configuration"}

-----------------------------------------------------------------------------
Platform ==
    /\ Dispatch \/ Resume \/ NextDay \/ Abort
    /\ seen' = IF pc' = Idle THEN NothingSeen ELSE seen
    /\ UNCHANGED <<boughtVars, customerVars, published, change, switchOrders,
                   returns, enabled, kind>>

Purchase ==
    /\ kind = "purchase" /\ PurchaseSteps
    /\ UNCHANGED <<change, switchOrders, returns, enabled, kind>>

ResellerChange ==
    /\ kind = "reseller"
    /\ ResellerSteps \/ (RevivalSteps /\ UNCHANGED change)
    /\ UNCHANGED <<switchOrders, returns, enabled, kind>>

MidTermSwitch ==
    /\ kind = "switch" /\ SwitchSteps
    /\ UNCHANGED <<change, returns, enabled, kind>>

Termination ==
    /\ kind = "termination" /\ TerminationSteps
    /\ UNCHANGED <<newOrders, purchaseVars, change, switchOrders, enabled, kind>>

Configuration ==
    /\ kind = "configuration" /\ ConfigurationSteps
    /\ UNCHANGED <<boughtVars, customerVars, published, seen, change, switchOrders,
                   returns, kind>>

Step == Purchase \/ ResellerChange \/ MidTermSwitch \/ Termination \/ Configuration

Adobe ==
    /\ \/ AdobeSettlesPurchase /\ UNCHANGED <<change, switchOrders, returns>>
       \/ AdobeSettlesChange /\ UNCHANGED <<switchOrders, returns>>
       \/ AdobeSettlesSwitchOrder /\ UNCHANGED <<change, returns>>
       \/ /\ AdobeSettlesReturnOrder
          /\ UNCHANGED <<newOrders, purchaseVars, change, switchOrders>>
    /\ UNCHANGED <<enabled, kind>>

Init ==
    /\ kind \in Kinds
    /\ PassInit /\ PurchaseInit /\ ResellerInit /\ SwitchInit /\ ReturnInit
    /\ ConfigurationInit
    /\ customers = IF HasCustomer THEN TheCustomer ELSE 0
    /\ customerId = customers
    /\ agreementCustomer = customers

Next == Platform \/ Adobe \/ Step

Spec == Init /\ [][Next]_vars

\* Every variable holds a value of its kind; there is one buyer to a NEW order,
\* and the purchase on record exists (SubmitNewOrder, update_order).
TypeOK ==
    /\ PassTypeOK
    /\ PurchaseTypeOK /\ ResellerTypeOK /\ SwitchTypeOK /\ ConfigurationTypeOK
    /\ returns \in [Purchases -> ReturnStatus]
    /\ {vendorId, ctx.newOrderId} \subseteq
          CASE kind = "switch" -> 0 .. Len(switchOrders)
            [] kind = "reseller" -> (0 .. Len(newOrders)) \cup {TransferId}
            [] OTHER -> 0 .. Len(newOrders)
    /\ kind \in OrderKinds

-----------------------------------------------------------------------------
(* Safety.                                                                  *)

\* All that is bought for an order is bought for the account on its record,
\* and the agreement never names another, wherever a pass was cut off between
\* creating the account, saving it twice and buying (CreateCustomer).
OneAccount ==
    /\ \A id \in DOMAIN buyers : buyers[id] = customerId
    /\ agreementCustomer # 0 => agreementCustomer = customerId

\* A purchase order is completed over a purchase Adobe has processed, with a
\* subscription for every line Adobe activated (CreateOrUpdateSubscriptions).
PurchasedIsDelivered ==
    kind = "purchase" /\ status = "Completed" =>
        /\ vendorId \in DOMAIN newOrders
        /\ newOrders[vendorId].status = "COMPLETE"
        /\ NewLines \ InactiveLines \subseteq published

\* Nothing of a reseller change is published, and the order not completed,
\* before Adobe has transferred the customer, by no pass whether it still
\* holds the transfer or not (CheckAdobeResellerTransfer, SubmitNewOrder).
PublishedIsTransferred ==
    kind = "reseller" /\ (published # {} \/ status = "Completed") => Transferred

\* Licences are switched once, however often the SWITCH order is placed: the
\* customer never holds other quantities than before or after the switch, and
\* those after it when the order is completed ("The step is idempotent").
SwitchedOnce ==
    kind = "switch" =>
        LET switched == [line \in Lines |-> Moved(FirstCurrent, line, SwitchChange[line])]
        IN  /\ current \in {FirstCurrent, switched}
            /\ status = "Completed" => current = switched

\* A termination is completed only when every licence of an active line has
\* come back, over however many passes: all its returns are processed and add
\* up to the line (GetReturnableOrders, SubmitReturnOrders).
TerminatedIsReturned ==
    kind = "termination" /\ status = "Completed" =>
        \A line \in DownsizeLines : FirstCurrent[line] > 0 =>
            /\ Quantity({p \in ReturnedOf(line) : returns[p] = "COMPLETE"}) = Downsize(line)
            /\ current[line] = 0

\* A completed configuration left no subscription with another flag than the
\* order asks for, after passes that failed or were cut off within the loop.
ConfiguredWhenCompleted ==
    kind = "configuration" /\ status = "Completed" => enabled = Desired

\* What a reseller change transferred is not bought anew: "Adobe reseller
\* transfer order has no line items, falling back to purchase fulfillment".
TransferredNotBought ==
    kind = "reseller" /\ change.items # {} => newOrders = <<>>

-----------------------------------------------------------------------------
(* Liveness: passes go on, days go by and Adobe settles what is open.       *)

Fairness ==
    /\ WF_vars(Platform /\ Dispatch)
    /\ WF_vars(Platform /\ NextDay)
    /\ WF_vars(Adobe)
    /\ WF_vars(Step)
    /\ SF_vars(Step /\ pc = "SetupContext" /\ pc' = "SetupDueDate")
    /\ SF_vars(Step /\ pc = "SetupDueDate")

FairSpec == Spec /\ Fairness

\* An order of any kind is decided in the end, at the latest by its due date
\* (SetupDueDate in every pipeline, and the comment in fulfill_order).
DecidedInTheEnd == status = "Processing" ~> status # "Processing"
=============================================================================
