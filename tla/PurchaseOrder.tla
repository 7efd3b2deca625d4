---------------------------- MODULE PurchaseOrder ----------------------------
(***************************************************************************)
(* Fulfilment of an MPT purchase order.  The agreement has no Adobe        *)
(* customer yet: the first pass that gets so far creates the account,      *)
(* saves its identifier on the order and then on the agreement, and every  *)
(* later step of that same pass runs inside the handler of errors of the   *)
(* account's creation.  Later passes find the identifier and go on.        *)
(*                                                                         *)
(* Adobe customers are numbered as Adobe creates them, 0 stands for none.  *)
(***************************************************************************)
EXTENDS NewOrderSteps

CONSTANTS
    InactiveLines,    \* lines whose new Adobe subscription is not ACTIVE
    MaxCustomers      \* bound on the accounts created

ASSUME PurchaseOrderAssumption ==
    /\ InactiveLines \subseteq Lines
    /\ MaxCustomers \in Nat \ {0}

VARIABLES
    customers,         \* the number of accounts Adobe created
    customerId,        \* fulfilment parameter customerId of the order
    agreementCustomer, \* externalIds.vendor of the agreement
    buyers,            \* the account each NEW order was placed for
    published,         \* lines with a subscription in the MPT order
    seen               \* what the running pass knows of the customer

customerVars == <<customers, customerId, agreementCustomer>>
purchaseVars == <<customerVars, buyers, published, seen>>
boughtVars == <<subscriptionVars, newOrders, buyers>>

\* account: adobe_customer_id; fresh: this pass created it; transfer: the pass
\* holds the reseller transfer it committed.
NothingSeen == [account |-> 0, fresh |-> FALSE, transfer |-> FALSE]

\* A pass that ends, in whatever way, forgets.
Forgets(step) == step /\ seen' = IF pc' = Idle THEN NothingSeen ELSE seen

-----------------------------------------------------------------------------
(* The customer.                                                            *)

\* SetupContext asks Adobe for the customer only once there is one.
SetupCustomer(next) ==
    /\ SetupContext(next)
    /\ customerId = 0 => pc' = next
    /\ seen' = IF pc' = next THEN [NothingSeen EXCEPT !.account = customerId]
               ELSE NothingSeen
    /\ UNCHANGED <<boughtVars, customerVars, published>>

Queried(step, next, refusal) ==
    /\ pc = step
    /\ \/ Continue(next)
       \/ refusal \in Refusals /\ switch_order_to_query

ValidateGovernmentLGA(next) ==
    Queried("ValidateGovernmentLGA", next, "AgencyTypeMissing")

ValidateEducationSubSegments(next) ==
    Queried("ValidateEducationSubSegments", next, "SubSegmentsMissing")

\* Fields the buyer can mend are queried, anything else fails the order.
HandleError ==
    /\ "AccountRefused" \in Refusals
    /\ switch_order_to_query \/ switch_order_to_failed

\* POST .../customers; an error may be answered for an account created.
PostCustomer ==
    /\ customers < MaxCustomers
    /\ customers' = customers + 1
    /\ \/ /\ seen' = [NothingSeen EXCEPT !.account = customers + 1, !.fresh = TRUE]
          /\ Continue("SaveCustomerId")
       \/ HandleError /\ seen' = NothingSeen

\* Mutant of CreateCustomer: the identifier on the order is not looked at.
CreateCustomerAgain(next) ==
    /\ pc = "CreateCustomer"
    /\ PostCustomer
    /\ UNCHANGED <<customerId, agreementCustomer, boughtVars, published>>

CreateCustomer(next) ==
    /\ pc = "CreateCustomer"
    /\ \/ /\ seen.account # 0
          /\ Continue(next)
          /\ UNCHANGED <<customers, seen>>
       \/ /\ seen.account = 0
          /\ \/ PostCustomer
             \/ /\ \/ HandleError
                   \/ "ContactMissing" \in Refusals /\ switch_order_to_query
                /\ seen' = NothingSeen
                /\ UNCHANGED customers
    /\ UNCHANGED <<customerId, agreementCustomer, boughtVars, published>>

\* save_data: first the order, then the agreement.
SaveCustomerId(next) ==
    /\ pc = "SaveCustomerId"
    /\ customerId' = seen.account
    /\ Continue(next)
    /\ UNCHANGED <<customers, agreementCustomer, boughtVars, published, seen>>

SaveAgreement(step, next) ==
    /\ pc = step
    /\ agreementCustomer' = seen.account
    /\ Continue(next)
    /\ UNCHANGED <<customers, customerId, boughtVars, published, seen>>

\* An AdobeError of a later step comes back to CreateCustomer in the pass that
\* created the account.  The only call such a pass gets to is the POST of the
\* NEW order, which may have placed it.
LaterError ==
    /\ seen.fresh /\ pc \in {"SubmitNewOrder", "SaveNewOrder"}
    /\ Forgets(HandleError)
    /\ UNCHANGED <<boughtVars, customerVars, published>>

-----------------------------------------------------------------------------
(* Buying, and publishing what was bought.                                  *)

Buying(step) ==
    /\ Forgets(step)
    /\ buyers' = IF Len(newOrders') > Len(newOrders)
                   THEN Append(buyers, seen.account) ELSE buyers
    /\ UNCHANGED <<customerVars, published>>

\* Looks up the item of every line: a pass that repriced the lines raises.
CreateOrUpdateAssets(next) ==
    /\ pc = "CreateOrUpdateAssets"
    /\ Forgets(IF ctx.newOrderId # 0 /\ ctx.linesRepriced THEN Wait ELSE Continue(next))
    /\ UNCHANGED <<boughtVars, customerVars, published>>

\* bought: the lines of adobe_new_order.  One that is not ACTIVE is skipped.
CreateOrUpdateSubscriptions(next, bought) ==
    /\ pc = "CreateOrUpdateSubscriptions"
    /\ LET toCreate == bought \ (published \cup InactiveLines) IN
       \/ /\ bought # {} /\ ctx.linesRepriced
          /\ Forgets(Wait)
          /\ UNCHANGED published
       \/ /\ ~(bought # {} /\ ctx.linesRepriced)
          /\ \/ \E line \in toCreate : published' = published \cup {line} /\ Continue(pc)
             \/ toCreate = {} /\ Continue(next) /\ UNCHANGED published
          /\ UNCHANGED seen
    /\ UNCHANGED <<boughtVars, customerVars>>

\* RefreshCustomer reads the customer again, for the coterm date.
RefreshCustomer(next) ==
    /\ pc = "RefreshCustomer"
    /\ Continue(next)
    /\ UNCHANGED purchaseVars
    /\ UNCHANGED boughtVars

Bought == IF ctx.newOrder = "none" THEN {} ELSE Ordered(newOrders[ctx.newOrderId])

-----------------------------------------------------------------------------
(* The pipeline of fulfill_purchase_order.                                  *)

Only(step) == Forgets(step) /\ UNCHANGED <<boughtVars, customerVars, published>>

PurchaseSteps ==
    \/ SetupCustomer("SetupDueDate")
    \/ Only(SetupDueDate("ValidateDuplicateLines"))
    \/ Only(ValidateDuplicateLines("ValidateGovernmentLGA"))
    \/ Only(ValidateGovernmentLGA("CreateCustomer"))
    \/ CreateCustomer("ValidateEducationSubSegments")
    \/ SaveCustomerId("SaveAgreement")
    \/ SaveAgreement("SaveAgreement", "ValidateEducationSubSegments")
    \/ Only(ValidateEducationSubSegments("Validate3YCCommitment"))
    \/ Only(Validate3YCCommitment("GetPreviewOrder"))
    \/ Buying(GetPreviewOrder("UpdatePrices"))
    \/ Buying(UpdatePrices("SubmitNewOrder"))
    \/ Buying(SubmitNewOrder("CreateOrUpdateAssets"))
    \/ CreateOrUpdateAssets("CreateOrUpdateSubscriptions")
    \/ CreateOrUpdateSubscriptions("RefreshCustomer", Bought)
    \/ RefreshCustomer("CompleteOrder")
    \/ Only(CompleteOrder)
    \/ LaterError

AdobeSettlesPurchase == AdobeSettlesNewOrder /\ UNCHANGED purchaseVars

PurchaseInit ==
    /\ SubscriptionsInit /\ NewOrderInit
    /\ buyers = <<>> /\ published = {} /\ seen = NothingSeen

Account == 0 .. MaxCustomers

PurchaseTypeOK ==
    /\ SubscriptionsTypeOK
    /\ newOrders \in Seq(NewOrder)
    /\ {customers, customerId, agreementCustomer} \subseteq Account
    /\ buyers \in Seq(Account) /\ Len(buyers) = Len(newOrders)
    /\ published \subseteq Lines
    /\ seen \in [account : Account, fresh : BOOLEAN, transfer : BOOLEAN]
=============================================================================
