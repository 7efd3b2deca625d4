--------------------------- MODULE TerminationOrder ---------------------------
(***************************************************************************)
(* Fulfilment of an MPT termination order: every line is given back whole, *)
(* by returning all the purchases Adobe still takes back, and only if they *)
(* add up to exactly what the line holds.  A line without an active        *)
(* subscription is passed over; the auto-renewal flags are not touched.    *)
(***************************************************************************)
EXTENDS ReturnSteps

Active(line) == current[line] > 0

\* Mutant of ReturnableInFull: fewer licences than the line holds will do.
ReturnableInPart(line) == Quantity(ReturnableOrders(line)) <= Downsize(line)

\* _has_valid_returnable_quantity
ReturnableInFull(line) == Quantity(ReturnableOrders(line)) = Downsize(line)

\* validate_subscription_and_returnable_orders, for every line.
GetTerminationReturns(next) ==
    /\ pc = "GetReturnableOrders"
    /\ IF \E line \in DownsizeLines : Active(line) /\ ~ReturnableInFull(line)
         THEN switch_order_to_failed
         ELSE /\ ctx' = [ctx EXCEPT !.returnable = [line \in DownsizeLines |->
                            IF Active(line) THEN ReturnableOrders(line) ELSE {}]]
              /\ Goto(next)
              /\ UNCHANGED <<status, dueDate, vendorId, today>>
    /\ UNCHANGED <<subscriptionVars, returns>>

-----------------------------------------------------------------------------
(* The pipeline of fulfill_termination_order.                               *)

Unreturned(step) == step /\ UNCHANGED <<subscriptionVars, returns>>

TerminationSteps ==
    \/ Unreturned(SetupContext("SetupDueDate"))
    \/ Unreturned(SetupDueDate("ValidateRenewalWindow"))
    \/ Unreturned(ValidateRenewalWindow("GetReturnOrders"))
    \/ GetReturnOrders("GetReturnableOrders", FALSE)
    \/ GetTerminationReturns("Validate3YCCommitment")
    \/ Unreturned(Validate3YCCommitment("SubmitReturnOrders"))
    \/ SubmitReturnOrders("CompleteOrder")
    \/ Unreturned(CompleteOrder)
=============================================================================
