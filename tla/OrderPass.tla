------------------------------ MODULE OrderPass ------------------------------
(***************************************************************************)
(* One Marketplace (MPT) order and the passes the extension makes over it. *)
(* While the order is Processing the platform hands it to fulfill_order    *)
(* again and again; a pass runs the steps of a pipeline in order, keeps    *)
(* its Context in memory only, and ends because the order was decided,     *)
(* because a step has to wait, or because something was raised.            *)
(*                                                                         *)
(* pc names the step the running pass is about to execute ("Idle": no pass *)
(* is running).  A step takes the name of the step that follows it in the  *)
(* pipeline as a parameter, so a pipeline is read off a Next relation.     *)
(***************************************************************************)
EXTENDS Naturals

CONSTANTS
    DueDateDays,   \* EXTENSION_CONFIG["DUE_DATE_DAYS"]
    LatestStart,   \* bound: the last day on which an order may still be opened
    CotermDay,     \* the customer's anniversary date
    Refusals       \* the refusals Adobe, the price list or the order can produce

RefusalKinds == {"CustomerLost", "CustomerUnavailable", "DuplicateItems",
                 "SkuUnavailable", "CommitmentRequested", "CommitmentRefused",
                 "PreviewRejected", "OrderRejected", "ReturnRejected",
                 "SubscriptionUnknown", "AgencyTypeMissing", "ContactMissing",
                 "AccountRefused", "SubSegmentsMissing", "ChangeRefused"}

ASSUME OrderPassAssumption ==
    /\ DueDateDays \in Nat
    /\ LatestStart \in Nat
    /\ CotermDay \in Nat
    /\ Refusals \subseteq RefusalKinds

VARIABLES
    status,        \* status of the MPT order
    dueDate,       \* fulfilment parameter dueDate (NoDate: not set)
    vendorId,      \* the Adobe order SubmitNewOrder saved (0: none): externalIds.vendor
                   \* of the order until it is completed
    today,         \* the calendar day
    pc,            \* next step of the running pass
    ctx            \* the in-memory Context of the running pass

passVars == <<status, dueDate, vendorId, today, pc, ctx>>

DueDay == 0 .. (LatestStart + DueDateDays)
Day == 0 .. (LatestStart + DueDateDays + 1)
NoDate == LatestStart + DueDateDays + 2
Idle == "Idle"

NoEntry == [x \in {} |-> {}]
NoPreview == [offer |-> "none"]

\* What a pass knows before its first step ran.
EmptyContext ==
    [newOrderId     |-> 0,          \* adobe_new_order_id
     newOrder       |-> "none",     \* status of adobe_new_order, once fetched
     preview        |-> NoPreview,  \* adobe_preview_order
     linesRepriced  |-> FALSE,      \* order["lines"] replaced by {id, price}
     returnOrders   |-> {},         \* what adobe_return_orders holds ...
     pendingReturns |-> {},         \* ... and which of it is not COMPLETE
     otherReturns   |-> FALSE,      \* adobe_return_orders has orders of other purchases
     returnable     |-> NoEntry,    \* adobe_returnable_orders
     done           |-> {},         \* lines the current step already handled
     updated        |-> {},         \* updated: lines with the quantity they had
     error          |-> "none"]     \* UpdateRenewalQuantities.error

-----------------------------------------------------------------------------
(* How a pass goes on, waits, and decides the order.                        *)

Goto(step) == pc' = step

\* The pass returns or raises: nothing but what was saved survives it.
EndPass ==
    /\ pc' = Idle
    /\ ctx' = EmptyContext

Wait == EndPass /\ UNCHANGED <<status, dueDate, vendorId, today>>

\* The order leaves Processing with its due date reset.
Decide(outcome) ==
    /\ status' = outcome
    /\ dueDate' = NoDate
    /\ EndPass
    /\ UNCHANGED <<vendorId, today>>

switch_order_to_failed == Decide("Failed")
switch_order_to_query == Decide("Querying")

Continue(next) == Goto(next) /\ UNCHANGED <<status, dueDate, vendorId, today, ctx>>

-----------------------------------------------------------------------------
(* The platform.                                                            *)

\* The platform dispatches a Processing order to fulfill_order.
Dispatch ==
    /\ status = "Processing"
    /\ pc = Idle
    /\ Goto("SetupContext")
    /\ UNCHANGED <<status, dueDate, vendorId, today, ctx>>

\* A step raises before its next effect: an Adobe transport fault, an error
\* of the platform's own API, an unhandled AdobeError, or the process dies.
Abort ==
    /\ pc # Idle
    /\ Wait

\* An agent answers the query and puts the order back to Processing.
Resume ==
    /\ status = "Querying"
    /\ today <= LatestStart
    /\ status' = "Processing"
    /\ UNCHANGED <<dueDate, vendorId, today, pc, ctx>>

\* A day passes.  Days after the due date all look alike to the code, and
\* the bound LatestStart stops the calendar before an order got one.
NextDay ==
    /\ today < (IF dueDate = NoDate THEN LatestStart ELSE dueDate + 1)
    /\ today' = today + 1
    /\ UNCHANGED <<status, dueDate, vendorId, pc, ctx>>

-----------------------------------------------------------------------------
(* Steps every pipeline starts or ends with.                                *)

\* Mutant of SetupContext: the identifier saved on the order is not read.
SetupContextForgetful(next) ==
    pc = "SetupContext" /\ Continue(next)

SetupContext(next) ==
    /\ pc = "SetupContext"
    /\ \/ /\ ctx' = [EmptyContext EXCEPT !.newOrderId = vendorId]
          /\ Goto(next)
          /\ UNCHANGED <<status, dueDate, vendorId, today>>
       \/ "CustomerLost" \in Refusals /\ switch_order_to_failed
       \/ "CustomerUnavailable" \in Refusals /\ Wait

\* Mutants of SetupDueDate: the due date is set anew in every pass; an order
\* past its due date waits.
SetupDueDateAnew(next) ==
    /\ pc = "SetupDueDate"
    /\ dueDate' = today + DueDateDays
    /\ Goto(next)
    /\ UNCHANGED <<status, vendorId, today, ctx>>

SetupDueDateWaiting(next) ==
    /\ pc = "SetupDueDate"
    /\ LET due == IF dueDate = NoDate THEN today + DueDateDays ELSE dueDate
       IN  IF today > due THEN Wait
           ELSE dueDate' = due /\ Goto(next) /\ UNCHANGED <<status, vendorId, today, ctx>>

SetupDueDate(next) ==
    /\ pc = "SetupDueDate"
    /\ LET due == IF dueDate = NoDate THEN today + DueDateDays ELSE dueDate
       IN  IF today > due
             THEN switch_order_to_failed
             ELSE /\ dueDate' = due
                  /\ Goto(next)
                  /\ UNCHANGED <<status, vendorId, today, ctx>>

\* The items are compared with those of the agreement, fetched in each pass.
ValidateDuplicateLines(next) ==
    /\ pc = "ValidateDuplicateLines"
    /\ \/ Continue(next)
       \/ "DuplicateItems" \in Refusals /\ switch_order_to_failed

\* ORDER_CREATION_WINDOW_HOURS is one day.
ValidateRenewalWindow(next) ==
    /\ pc = "ValidateRenewalWindow"
    /\ IF today <= CotermDay /\ CotermDay <= today + 1
         THEN switch_order_to_failed
         ELSE Continue(next)

\* Mutant of ValidateSkuAvailability: no return after the order was failed.
ValidateSkuAvailabilityGoingOn(next) ==
    /\ pc = "ValidateSkuAvailability"
    /\ \/ Continue(next)
       \/ /\ "SkuUnavailable" \in Refusals
          /\ status' = "Failed" /\ dueDate' = NoDate /\ Goto(next)
          /\ UNCHANGED <<vendorId, today, ctx>>

ValidateSkuAvailability(next) ==
    /\ pc = "ValidateSkuAvailability"
    /\ \/ Continue(next)
       \/ "SkuUnavailable" \in Refusals /\ switch_order_to_failed

\* Skipped as soon as a return order of this order exists.
Validate3YCCommitment(next) ==
    /\ pc = "Validate3YCCommitment"
    /\ \/ Continue(next)
       \/ /\ ctx.returnOrders = {} /\ ~ctx.otherReturns
          /\ \/ "CommitmentRequested" \in Refusals /\ switch_order_to_query
             \/ "CommitmentRefused" \in Refusals /\ switch_order_to_failed

\* The same call replaces externalIds.vendor, which nothing reads from then
\* on, by the list adobeOrderIds of the orders saved for this MPT order, if
\* it has one: vendorId stays the order SubmitNewOrder saved, and ChangeOrder
\* keeps the list and says what a completed order shows (ExternalId).
CompleteOrder ==
    /\ pc = "CompleteOrder"
    /\ Decide("Completed")

-----------------------------------------------------------------------------
PassInit ==
    /\ status = "Processing"
    /\ dueDate = NoDate
    /\ vendorId = 0
    /\ today = 0
    /\ pc = Idle
    /\ ctx = EmptyContext

PassTypeOK ==
    /\ status \in {"Processing", "Completed", "Failed", "Querying"}
    /\ dueDate \in DueDay \cup {NoDate}
    /\ today \in Day
=============================================================================
