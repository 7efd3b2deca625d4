---------------------------- MODULE TransferOrder ----------------------------
(***************************************************************************)
(* Fulfilment of an MPT transfer order for one VIP membership, beside the  *)
(* migration jobs that work on the record of the same membership.          *)
(*                                                                         *)
(* A membership without a record is transferred by the order itself.  One  *)
(* with a record was transferred by the jobs: the order publishes its      *)
(* subscriptions or, when all of them have expired, renews what may still  *)
(* be renewed and buys the rest.  What it has renewed or bought is active  *)
(* again, and a later pass finds it among the customer's subscriptions.    *)
(* The order of a global customer waits for the agreements of the          *)
(* deployments.                                                            *)
(***************************************************************************)
EXTENDS LateRenewal, Migration, Functions

CONSTANTS
    Membership,       \* the membership of the order
    Deployments,      \* the deployments its customer may have
    SubscriptionOf,   \* the transferred subscription of a line that may lapse
    TransferErrors    \* what may speak against the order, or fail in it

TransferErrorKinds ==
    {"MembershipUnknown", "GovernmentMismatch", "ItemsDiffer", "TransferRejected",
     "LineInDeployment", "RenewalRefused"}

ASSUME TransferOrderAssumption ==
    /\ Membership \in Memberships
    /\ SubscriptionOf \in [Lines -> Subscriptions]
    /\ \A line \in Lines : OldQuantity[line] = 0  \* a transfer order starts an agreement
    /\ Lines \cap Subscriptions = {}
    /\ TransferErrors \subseteq TransferErrorKinds

VARIABLES
    deployments,       \* Airtable: status of the agreement of each deployment
    customerDeployments, \* Adobe: the active deployments of the customer
    published,         \* subscriptions and bought lines in the MPT order
    seen               \* what the running pass read of Airtable and Adobe

vars == <<passVars, subscriptionVars, newOrders, lateVars, migrationVars,
          deployments, customerDeployments, published, seen>>

purchaseVars == <<subscriptionVars, newOrders, lateVars>>
deploymentVars == <<deployments, customerDeployments>>
jobVars == <<starting, checking>>

\* externalIds.vendor may also hold the identifier of a transfer.
TransferId(i) == MaxNewOrders + i
IsTransfer(id) == id > MaxNewOrders
TransferOf(id) == transfers[Membership][id - MaxNewOrders]

DeploymentStatus == {"absent", "pending", "created", "error"}

NothingSeen ==
    [record      |-> NoRecord,                                     \* transfer
     main        |-> [status |-> "absent", agreement |-> FALSE],  \* gc_main_agreement
     deployments |-> [d \in Deployments |-> "absent"],  \* existing_deployments
     listed      |-> {},                                \* customer_deployments
     items       |-> {},                                \* items still to publish
     previewed   |-> FALSE]                             \* preview_late_renewal_order

\* A pass that ends, in whatever way, forgets.
Leave(ending) == ending /\ seen' = NothingSeen
Forgets(step) == step /\ seen' = IF pc' = Idle THEN NothingSeen ELSE seen

\* Lines that hold what this order renewed or bought, and lines whose
\* subscription has expired and not been renewed.
ActiveLines == {line \in Lines : current[line] > 0}
ExpiredLines ==
    {line \in Lines : lapsed[line] > 0 /\ SubscriptionOf[line] \in expired[Membership]}

-----------------------------------------------------------------------------
(* Reading Airtable, and waiting for the deployments.                       *)

SetupTransferContext(next) ==
    /\ pc = "SetupTransferContext"
    /\ seen' = [NothingSeen EXCEPT
                  !.record = records[Membership],
                  !.main = main[Membership],
                  !.deployments = deployments]
    /\ Continue(next)
    /\ UNCHANGED <<purchaseVars, migrationVars, deploymentVars, published>>

Unready(listed) == {d \in listed : seen.deployments[d] # "created"}
Missing(listed) == {d \in listed : seen.deployments[d] = "absent"}

\* Mutant of Synchronized: a deployment without an agreement is no obstacle.
SynchronizedWhenKnown(listed) ==
    \/ \A d \in listed : seen.deployments[d] # "error"
    \/ Missing(listed) # {}

\* are_all_deployments_synchronized: the first deployment Adobe lists that is
\* not created decides, and a missing one lets the order go on, to be added.
Synchronized(listed) == Unready(listed) = {} \/ Missing(listed) # {}
Unsynchronized(listed) == Unready(listed) \ Missing(listed) # {}

ValidateGCMainAgreement(next) ==
    /\ pc = "ValidateGCMainAgreement"
    /\ \/ /\ seen.main.status = "absent"
          /\ Continue(next)
          /\ UNCHANGED <<main, seen>>
       \/ /\ seen.main.status = "error" /\ seen.main.agreement
          /\ Leave(Wait)
          /\ UNCHANGED main
       \/ /\ seen.main.status # "absent"
          /\ ~(seen.main.status = "error" /\ seen.main.agreement)
          /\ main' = [main EXCEPT ![Membership].agreement = TRUE]
          /\ \/ /\ Synchronized(customerDeployments)
                /\ Continue(next)
                /\ seen' = [seen EXCEPT !.listed = customerDeployments]
             \/ /\ Unsynchronized(customerDeployments)
                /\ Leave(Wait)
    /\ UNCHANGED <<records, purchaseVars, transferVars, jobVars, deploymentVars, published>>

\* _manage_order_with_deployment_id: left to the team.
ManageDeploymentItems ==
    /\ "LineInDeployment" \in TransferErrors
    /\ main' = [main EXCEPT ![Membership] = [status |-> "error", agreement |-> TRUE]]
    /\ Leave(Wait)

\* _check_agreement_deployments.  The main agreement is added, but the pass
\* still knows of none; after deployments are added the order waits.
CheckDeployments(step, next) ==
    /\ pc = step
    /\ IF Membership \notin GlobalCustomers
         THEN Continue(next) /\ UNCHANGED <<main, deployments, seen>>
         ELSE LET listed == IF seen.listed = {} THEN customerDeployments ELSE seen.listed
              IN  /\ main' = IF seen.main.status = "absent"
                               THEN [main EXCEPT ![Membership] =
                                       [status |-> "pending", agreement |-> TRUE]]
                               ELSE main
                  /\ \/ /\ Missing(listed) = {}
                        /\ Continue(next)
                        /\ seen' = [seen EXCEPT !.listed = listed]
                        /\ UNCHANGED deployments
                     \/ /\ Missing(listed) # {}
                        /\ deployments' = [d \in Deployments |->
                              IF d \in Missing(listed) THEN "pending" ELSE deployments[d]]
                        /\ Leave(Wait)
                     \/ /\ Missing(listed) # {}    \* or dies before they are saved
                        /\ UNCHANGED deployments
                        /\ Leave(Wait)
    /\ UNCHANGED <<records, purchaseVars, transferVars, jobVars, customerDeployments, published>>

\* sync_airtable_main_agreement
SyncMainAgreement(step, next) ==
    /\ pc = step
    /\ main' = IF main[Membership].status = "absent" THEN main
               ELSE [main EXCEPT ![Membership].status = "transferred"]
    /\ IF next = Idle THEN Leave(Wait) ELSE Continue(next) /\ UNCHANGED seen
    /\ UNCHANGED <<records, purchaseVars, transferVars, jobVars, deploymentVars, published>>

-----------------------------------------------------------------------------
(* A membership the jobs have transferred.                                  *)

\* Mutant of InProgress: a record that runs is not told from one that ended.
InProgressNever(record) == FALSE

InProgress(record) == record.status = "running"

\* Without a customer on the record Adobe is asked for a customer of no name,
\* and raises.  A vendor identifier is taken for that of a NEW order.
HandleMigratedTransfer(next) ==
    /\ pc = "HandleMigratedTransfer"
    /\ LET present == seen.record.status # "absent"
           known == present /\ seen.record.customerId
       IN  \/ /\ ~present
              /\ Continue(next)
              /\ UNCHANGED <<seen, main>>
           \/ /\ present /\ ~known
              /\ Leave(Wait)
              /\ UNCHANGED main
           \/ /\ known
              /\ \/ seen.record.status = "synchronized"
                 \/ "GovernmentMismatch" \in TransferErrors
              /\ Leave(switch_order_to_failed)
              /\ UNCHANGED main
           \/ /\ known /\ InProgress(seen.record)
              /\ Leave(switch_order_to_query)
              /\ UNCHANGED main
           \/ /\ known /\ ~InProgress(seen.record) /\ seen.record.status # "synchronized"
              /\ \/ /\ vendorId # 0
                    /\ Continue("SaveCustomerData")
                    /\ UNCHANGED <<seen, main>>
                 \/ /\ vendorId = 0
                    /\ Continue("CheckDeployments")
                    /\ UNCHANGED <<seen, main>>
                 \/ /\ vendorId = 0
                    /\ ManageDeploymentItems
    /\ UNCHANGED <<records, purchaseVars, transferVars, jobVars, deploymentVars, published>>

\* Mutant of Mismatched: a line that is not held at all is no difference.
MismatchedWhereHeld ==
    \/ ExpiredLines # {}
    \/ \E line \in ActiveLines : current[line] # NewQuantity[line]

\* has_order_line_updated: a line held in another quantity, or not at all, is
\* taken for one the client changed.  Without anything renewed or bought the
\* lines are those of the transferred subscriptions, as drafted.
Mismatched ==
    \/ ExpiredLines # {}
    \/ ActiveLines # {} /\ \E line \in Lines : current[line] # NewQuantity[line]

\* The end of _transfer_migrated and the start of _fulfill_transfer_migrated,
\* which saves the transfer as the Adobe order of the MPT order.
SelectFulfilment ==
    /\ pc = "SelectFulfilment"
    /\ LET active == ActiveSubscriptions(Membership) \cup ActiveLines
       IN  \/ /\ active = {} /\ seen.main.status = "absent"
              /\ Continue("SaveCustomerData")
              /\ UNCHANGED <<seen, main>>
           \/ /\ active # {} \/ seen.main.status # "absent"
              /\ Mismatched \/ "ItemsDiffer" \in TransferErrors
              /\ Leave(switch_order_to_failed)
              /\ UNCHANGED main
           \/ /\ ~Mismatched
              /\ active = {} /\ seen.main.status # "absent"
              /\ vendorId' = TransferId(seen.record.transferId)
              /\ \/ main' = [main EXCEPT ![Membership].status = "error"]
                 \/ UNCHANGED main   \* cut off before the row is saved
              /\ Leave(EndPass)
              /\ UNCHANGED <<status, dueDate, today>>
           \/ /\ ~Mismatched
              /\ active # {}
              /\ vendorId' = TransferId(seen.record.transferId)
              /\ seen' = [seen EXCEPT !.items = active]
              /\ Goto("AddSubscriptions")
              /\ UNCHANGED <<main, status, dueDate, today, ctx>>
    /\ UNCHANGED <<records, purchaseVars, transferVars, jobVars, deploymentVars, published>>

\* _sync_subscription_order for one item: outside a commitment auto-renewal is
\* switched on again, then the subscription is added to the order.  A refused
\* update is logged; a refused addition ends the pass.
AddSubscription(step, s) ==
    /\ pc = step /\ s \in seen.items
    /\ LET renewed == [renewing EXCEPT ![Membership] = @ \cup {s}]
       IN  \/ /\ s \in expired[Membership]
              /\ seen' = [seen EXCEPT !.items = @ \ {s}]
              /\ Continue(step)
              /\ UNCHANGED <<renewing, published>>
           \/ /\ s \in Lines
              /\ published' = published \cup {s}
              /\ seen' = [seen EXCEPT !.items = @ \ {s}]
              /\ Continue(step)
              /\ UNCHANGED renewing
           \/ /\ s \in ActiveSubscriptions(Membership)
              /\ \/ Membership \notin Committed /\ renewing' = renewed
                 \/ Membership \in Committed /\ UNCHANGED renewing
                 \/ "RenewalRefused" \in TransferErrors /\ UNCHANGED renewing
              /\ published' = published \cup {s}
              /\ seen' = [seen EXCEPT !.items = @ \ {s}]
              /\ Continue(step)
           \/ /\ s \in ActiveSubscriptions(Membership) /\ Membership \notin Committed
              /\ renewing' = renewed
              /\ Leave(Wait)
              /\ UNCHANGED published
    /\ UNCHANGED <<airtableVars, purchaseVars, transfers, expired, jobVars, deploymentVars>>

AddSubscriptions(step, next) ==
    \/ \E s \in seen.items : AddSubscription(step, s)
    \/ /\ pc = step /\ seen.items = {}
       /\ Continue(next)
       /\ UNCHANGED <<purchaseVars, migrationVars, deploymentVars, published, seen>>

\* switch_order_to_completed; the pass has things left to do.
Complete(step, next) ==
    /\ pc = step
    /\ status' = "Completed" /\ dueDate' = NoDate
    /\ Goto(next)
    /\ UNCHANGED <<vendorId, today, ctx, purchaseVars, migrationVars,
                   deploymentVars, published, seen>>

\* The record is taken as it was read when the pass began.
UpdateTransferStatus(step, next) ==
    /\ pc = step
    /\ records' = [records EXCEPT ![Membership].status = "synchronized"]
    /\ IF next = Idle THEN Leave(Wait) ELSE Continue(next) /\ UNCHANGED seen
    /\ UNCHANGED <<main, purchaseVars, transferVars, jobVars, deploymentVars, published>>

-----------------------------------------------------------------------------
(* _create_new_adobe_order: renewing and buying what has expired.           *)

\* Saves the customer, and an empty Adobe order identifier with it.
SaveCustomerData(next) ==
    /\ pc = "SaveCustomerData"
    /\ vendorId' = 0
    /\ Goto(next)
    /\ UNCHANGED <<status, dueDate, today, ctx, purchaseVars, migrationVars,
                   deploymentVars, published, seen>>

CheckManualRenewalSubscriptions(next) ==
    /\ \/ RestoreFromStored(next) /\ UNCHANGED seen
       \/ /\ ComputeFromAdobe(next, ExpiredLines)
          /\ seen' = IF pc' = Idle THEN NothingSeen
                     ELSE [seen EXCEPT !.previewed = lateInfo' # NoInfo]
    /\ UNCHANGED <<subscriptionVars, newOrders, migrationVars, deploymentVars, published>>

Renewing ==
    /\ Forgets(\/ /\ PreviewRenewalOrders("SubmitRenewalOrders", seen.previewed)
                  /\ UNCHANGED subscriptionVars
               \/ SubmitRenewalOrders("SubmitNewOrder"))
    /\ UNCHANGED <<newOrders, migrationVars, deploymentVars, published>>

\* The identifier of the transfer is no NEW order: fetching it raises.
FindTransfer ==
    /\ pc = "SubmitNewOrder" /\ IsTransfer(ctx.newOrderId) /\ RestLines # {}
    /\ Wait
    /\ UNCHANGED <<subscriptionVars, newOrders>>

Buying ==
    /\ Forgets(\/ GetRestPreview("PreviewRenewalOrders")
               \/ FindTransfer
               \/ /\ RestLines # {} => ~IsTransfer(ctx.newOrderId)
                  /\ SubmitRestOrder("CreateOrUpdateAssets"))
    /\ UNCHANGED <<lateVars, migrationVars, deploymentVars, published>>

\* adobe_new_order["lineItems"] raises when nothing was left to buy, but the
\* order has an identifier.
CreateOrUpdateAssets(next) ==
    /\ pc = "CreateOrUpdateAssets"
    /\ Forgets(IF ctx.newOrderId # 0 /\ ctx.newOrder = "none" THEN Wait ELSE Continue(next))
    /\ UNCHANGED <<purchaseVars, migrationVars, deploymentVars, published>>

CreateOrUpdateSubscriptions(next) ==
    /\ pc = "CreateOrUpdateSubscriptions"
    /\ published' = published \cup BoughtOrRenewed
    /\ Continue(next)
    /\ UNCHANGED <<purchaseVars, migrationVars, deploymentVars, seen>>

-----------------------------------------------------------------------------
(* A membership the order transfers itself.                                 *)

\* A vendor identifier is the transfer of an earlier pass.  Otherwise Adobe
\* previews the transfer, which it refuses for a membership already moved.
ValidateTransfer(next) ==
    /\ pc = "ValidateTransfer"
    /\ \/ ctx.newOrderId # 0 /\ Continue(next) /\ UNCHANGED seen
       \/ /\ ctx.newOrderId = 0 /\ Transferable(Membership)
          /\ Continue("SubmitTransferOrder")
          /\ UNCHANGED seen
       \/ /\ ctx.newOrderId = 0 /\ "MembershipUnknown" \in TransferErrors
          /\ Leave(switch_order_to_query)
       \/ /\ ctx.newOrderId = 0
          /\ \/ ~Transferable(Membership)
             \/ {"GovernmentMismatch", "ItemsDiffer"} \cap TransferErrors # {}
          /\ Leave(switch_order_to_failed)
    /\ UNCHANGED <<purchaseVars, migrationVars, deploymentVars, published>>

\* create_transfer: POST .../transfers.
SubmitTransferOrder ==
    /\ pc = "SubmitTransferOrder"
    /\ \/ /\ TryTransfer(Membership)
          /\ ctx' = [ctx EXCEPT !.newOrderId = TransferId(Len(transfers[Membership]) + 1)]
          /\ Goto("SaveTransferOrder")
          /\ UNCHANGED <<status, dueDate, vendorId, today, seen>>
       \/ /\ ~Transferable(Membership) \/ "TransferRejected" \in TransferErrors
          /\ Leave(switch_order_to_failed)
          /\ UNCHANGED transfers
    /\ UNCHANGED <<purchaseVars, airtableVars, renewing, expired, jobVars, deploymentVars, published>>

\* save_adobe_order_id
SaveTransferOrder(next) ==
    /\ pc = "SaveTransferOrder"
    /\ vendorId' = ctx.newOrderId
    /\ Goto(next)
    /\ UNCHANGED <<status, dueDate, today, ctx, purchaseVars, migrationVars,
                   deploymentVars, published, seen>>

CheckAdobeTransferOrder(next) ==
    /\ pc = "CheckAdobeTransferOrder"
    /\ \/ /\ TransferOf(ctx.newOrderId) = "OPEN"
          /\ IF today <= dueDate THEN Leave(Wait) ELSE Leave(switch_order_to_failed)
       \/ TransferOf(ctx.newOrderId) = "FAILED" /\ Leave(switch_order_to_failed)
       \/ TransferOf(ctx.newOrderId) = "COMPLETE" /\ Continue(next) /\ UNCHANGED seen
    /\ UNCHANGED <<purchaseVars, migrationVars, deploymentVars, published>>

ValidateDeploymentItems(next) ==
    /\ pc = "ValidateDeploymentItems"
    /\ \/ Continue(next) /\ UNCHANGED <<main, seen>>
       \/ ManageDeploymentItems
    /\ UNCHANGED <<records, purchaseVars, transferVars, jobVars, deploymentVars, published>>

\* The items of other deployments are left out; the rest is to be published.
ProcessTransferOrder(next) ==
    /\ pc = "ProcessTransferOrder"
    /\ vendorId' = ctx.newOrderId
    /\ seen' = [seen EXCEPT !.items = Subscriptions]
    /\ Goto(next)
    /\ UNCHANGED <<status, dueDate, today, ctx, purchaseVars, migrationVars,
                   deploymentVars, published>>

-----------------------------------------------------------------------------
(* Adobe, the global customer job and the team.                             *)

AdobeAddsDeployment ==
    /\ Membership \in GlobalCustomers
    /\ \E d \in Deployments \ customerDeployments :
          customerDeployments' = customerDeployments \cup {d}
    /\ UNCHANGED <<passVars, purchaseVars, migrationVars, deployments, published, seen>>

\* check_gc_agreement_deployments creates the agreement of a deployment, or
\* leaves an error the team repairs.
DeploymentSettled ==
    /\ \E d \in Deployments :
          \/ /\ deployments[d] = "pending"
             /\ \E s \in {"created", "error"} : deployments' = [deployments EXCEPT ![d] = s]
          \/ /\ deployments[d] = "error"
             /\ deployments' = [deployments EXCEPT ![d] = "created"]
    /\ UNCHANGED <<passVars, purchaseVars, migrationVars, customerDeployments, published, seen>>

Platform ==
    /\ \/ Dispatch /\ UNCHANGED seen
       \/ Leave(Abort)
       \/ Resume /\ UNCHANGED seen
       \/ NextDay /\ UNCHANGED seen
    /\ UNCHANGED <<purchaseVars, migrationVars, deploymentVars, published>>

Migrating ==
    /\ MigrationNext
    /\ UNCHANGED <<passVars, purchaseVars, deploymentVars, published, seen>>

Elsewhere ==
    \/ AdobeAddsDeployment \/ DeploymentSettled
    \/ /\ (AdobeSettlesNewOrder /\ UNCHANGED lateVars) \/ AdobeSettlesLateRenewal
       /\ UNCHANGED <<migrationVars, deploymentVars, published, seen>>

-----------------------------------------------------------------------------
(* The pipeline of fulfill_transfer_order, with the two paths of a migrated *)
(* transfer branching off at HandleMigratedTransfer.                        *)

Prepare ==
    \/ /\ SetupContext("SetupDueDate") \/ SetupDueDate("SetupTransferContext")
       /\ UNCHANGED <<purchaseVars, migrationVars, deploymentVars, published, seen>>
    \/ SetupTransferContext("ValidateGCMainAgreement")
    \/ ValidateGCMainAgreement("HandleMigratedTransfer")
    \/ HandleMigratedTransfer("ValidateTransfer")

\* Mutant of Migrated: the record is closed before the order is completed.
MigratedSynchronizedFirst ==
    \/ CheckDeployments("CheckDeployments", "SelectFulfilment")
    \/ SelectFulfilment
    \/ AddSubscriptions("AddSubscriptions", "Synchronize")
    \/ UpdateTransferStatus("Synchronize", "CompleteMigrated")
    \/ Complete("CompleteMigrated", "SyncMigrated")
    \/ SyncMainAgreement("SyncMigrated", Idle)

Migrated ==
    \/ CheckDeployments("CheckDeployments", "SelectFulfilment")
    \/ SelectFulfilment
    \/ AddSubscriptions("AddSubscriptions", "CompleteMigrated")
    \/ Complete("CompleteMigrated", "Synchronize")
    \/ UpdateTransferStatus("Synchronize", "SyncMigrated")
    \/ SyncMainAgreement("SyncMigrated", Idle)

BuyAnew ==
    \/ SaveCustomerData("CheckManualRenewalSubscriptions")
    \/ CheckManualRenewalSubscriptions("GetPreviewOrder")
    \/ Renewing
    \/ Buying
    \/ CreateOrUpdateAssets("CreateOrUpdateSubscriptions")
    \/ CreateOrUpdateSubscriptions("SyncGCMainAgreement")
    \/ SyncMainAgreement("SyncGCMainAgreement", "CompletePurchase")
    \/ Complete("CompletePurchase", "UpdateTransferStatus")
    \/ UpdateTransferStatus("UpdateTransferStatus", Idle)

Transfer ==
    \/ ValidateTransfer("CheckAdobeTransferOrder")
    \/ SubmitTransferOrder
    \/ SaveTransferOrder("CheckAdobeTransferOrder")
    \/ CheckAdobeTransferOrder("ValidateDeploymentItems")
    \/ ValidateDeploymentItems("ValidateAgreementDeployments")
    \/ CheckDeployments("ValidateAgreementDeployments", "ProcessTransferOrder")
    \/ ProcessTransferOrder("CreateTransferSubscriptions")
    \/ AddSubscriptions("CreateTransferSubscriptions", "CompleteTransferOrder")
    \/ Complete("CompleteTransferOrder", "SyncTransferred")
    \/ SyncMainAgreement("SyncTransferred", Idle)

Step == Prepare \/ Migrated \/ BuyAnew \/ Transfer

Init ==
    /\ PassInit /\ SubscriptionsInit /\ NewOrderInit /\ LateRenewalInit /\ MigrationInit
    /\ deployments = [d \in Deployments |-> "absent"]
    /\ customerDeployments = {}
    /\ published = {}
    /\ seen = NothingSeen

Next == Platform \/ Migrating \/ Elsewhere \/ Step

Spec == Init /\ [][Next]_vars
-----------------------------------------------------------------------------
(* Safety.                                                                  *)

\* The order of a global customer is completed only when every deployment
\* recorded by then has got its agreement, and, if it publishes the transfer,
\* every deployment the pass was shown (are_all_deployments_synchronized,
\* _check_agreement_deployments).
DeploymentsBeforeCompletion ==
    [][status # "Completed" /\ status' = "Completed" =>
         /\ \A d \in Deployments : deployments[d] \in {"absent", "created"}
         /\ pc # "CompletePurchase" => \A d \in seen.listed : deployments[d] = "created"]_vars

\* Items are bought anew only for a membership none of whose transferred
\* subscriptions is active any more, also by passes that find the identifier
\* of the transfer where that of a NEW order is expected (_transfer_migrated).
TransferredNotRebought ==
    newOrders # <<>> =>
        Transferred(Membership) /\ ActiveSubscriptions(Membership) = {}

Anew == newOrders # <<>> \/ lateRenewals # <<>>

\* A completed order has published every subscription that is still active of
\* a transfer Adobe has completed, and has delivered and published every line
\* whole if it renewed or bought anything anew, over however many passes
\* (SubmitRenewalOrders, SubmitNewOrder, _fulfill_transfer_migrated).
CompletedIsDelivered ==
    status = "Completed" =>
        /\ Transferred(Membership)
        /\ ActiveSubscriptions(Membership) \subseteq published
        /\ Anew => /\ Lines \subseteq published
                   /\ \A line \in Lines : current[line] = NewQuantity[line]

\* Of what a line asks for nothing is bought that was renewed, and nothing
\* renewed twice ("The line is removed from the normal upsize/new_lines
\* processing", CheckManualRenewalSubscriptions).
RenewedNotRebought ==
    \A line \in Lines :
        LET bought == [id \in DOMAIN newOrders |-> newOrders[id].payload.quantity[line]]
            renewed == [id \in DOMAIN lateRenewals |-> lateRenewals[id].quantity[line]]
        IN  SumFunction(bought) + SumFunction(renewed) <= NewQuantity[line]

\* A membership is closed in Airtable only after its order was completed: a
\* pass cut off in between must not leave an order that its own record fails
\* (UpdateTransferStatus and _fulfill_transfer_migrated).
SynchronizedIsDelivered ==
    records[Membership].status = "synchronized" => status = "Completed"

\* No job switches off the auto-renewal of a subscription an order has
\* published: an order leaves a membership alone while its migration runs
\* (_transfer_migrated).
PublishedKeepsRenewing ==
    [][\A s \in published \cap Subscriptions :
         s \in renewing[Membership] => s \in renewing'[Membership]]_vars

\* An order is not failed between the late renewal and the purchase of the
\* rest of the same line: "Any excess quantity (requested > current) is
\* re-added as a new line for a regular purchase order".
ExcessIsBought ==
    status = "Failed" /\ today <= DueDateDays =>
        \A id \in DOMAIN lateRenewals : lateRenewals[id].status = "COMPLETE" => newOrders # <<>>

=============================================================================
