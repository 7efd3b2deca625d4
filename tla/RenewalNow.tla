------------------------------ MODULE RenewalNow ------------------------------
(***************************************************************************)
(* Early renewal: the renewing subscriptions of the plan are renewed at    *)
(* once with an Adobe RENEWAL order, earlier renewals of the lapsing ones  *)
(* are given back, and the preferences are brought in line.  The RENEWAL   *)
(* and RETURN orders of earlier passes are found by external reference, so *)
(* nothing has to be saved on the MPT order in between.                    *)
(***************************************************************************)
EXTENDS RenewalPlan

CONSTANTS
    Sku,               \* partial SKU of each subscription
    CommittedQuantity, \* external: the quantity Adobe renews of each
    ShownLate,         \* external: those whose renewedQuantity Adobe may show
                       \* only some time after the RENEWAL order is COMPLETE
    RenewedBefore,     \* subscriptions with a COMPLETE RENEWAL order of another
                       \* MPT order
    MaxRenewals        \* bound on the RENEWAL orders placed

ASSUME RenewalNowAssumption ==
    /\ CommittedQuantity \in [Known -> Nat \ {0}]
    /\ ShownLate \subseteq Known
    /\ RenewedBefore \subseteq Known
    /\ MaxRenewals \in Nat

VARIABLES
    renewals,      \* RENEWAL orders with this order's reference, oldest first
    takenBack      \* the RETURN order of this order for a subscription's renewal

nowVars == <<renewals, takenBack>>

RenewalStatus == {"OPEN", "COMPLETE", "FAILED"}
RenewalOrder == [status : RenewalStatus, entries : SUBSET Known]

\* _is_already_renewed: renewed by an earlier order, no change requested.
AlreadyRenewed(id) == payload.quantity[id] = 0 /\ plan.snapshot[id].renewed # 0
ToRenew == {id \in payload.renewing : ~AlreadyRenewed(id)}

\* Mutant of ExistingRenewals: as in the returns, COMPLETE orders only.
ExistingRenewalsComplete ==
    SelectSeq(renewals, LAMBDA order : order.status = "COMPLETE")

\* get_existing_renewal_order: whatever their status; the first one counts.
ExistingRenewals == renewals

Show(ids) == subscription' =
    [id \in DOMAIN subscription |->
        IF id \in ids THEN [subscription[id] EXCEPT !.renewed = CommittedQuantity[id]]
        ELSE subscription[id]]

\* Adobe's side of a processed RENEWAL order, whose quantities show at once or
\* later, and of a processed RETURN.
Renew(ids) == \E late \in SUBSET (ids \cap ShownLate) : Show(ids \ late)

Unrenew(id) == subscription' = [subscription EXCEPT ![id].renewed = 0]

-----------------------------------------------------------------------------
(* PreviewRenewalNowOrder and SubmitRenewalNowOrder.                        *)

PreviewRenewalNowOrder(next) ==
    /\ pc = "PreviewRenewalNowOrder"
    /\ \/ /\ plan' = [plan EXCEPT !.preview = (ToRenew # {} /\ ExistingRenewals = <<>>)]
          /\ Goto(next)
          /\ UNCHANGED <<status, dueDate, vendorId, today, ctx, payload, subscription, scheduled>>
       \/ /\ ToRenew # {} /\ ExistingRenewals = <<>>
          /\ "PreviewRejected" \in Refusals
          /\ FailRenewal
    /\ UNCHANGED nowVars

PlaceRenewalOrder ==
    /\ pc = "SubmitRenewalNowOrder"
    /\ ToRenew # {} /\ plan.preview /\ ExistingRenewals = <<>>
    /\ \/ \E answer \in {"OPEN", "COMPLETE"} :
            /\ Len(renewals) < MaxRenewals
            /\ renewals' = Append(renewals, [status |-> answer, entries |-> ToRenew])
            /\ IF answer = "COMPLETE" THEN Renew(ToRenew) ELSE UNCHANGED subscription
            /\ plan' = [plan EXCEPT !.renewal = answer]
            /\ Goto("RenewalOrderPlaced")
            /\ UNCHANGED <<status, dueDate, vendorId, today, ctx, payload, scheduled>>
       \/ "OrderRejected" \in Refusals /\ FailRenewal /\ UNCHANGED renewals
    /\ UNCHANGED takenBack

FollowRenewal(next, orderStatus) ==
    CASE orderStatus = "OPEN" -> WaitRenewal
      [] orderStatus = "COMPLETE" -> Continue(next) /\ UNCHANGED planVars
      [] OTHER -> FailRenewal

\* Mutant of FindRenewalOrder: an OPEN order counts as done.
FindRenewalOrderOpen(next) ==
    /\ pc = "SubmitRenewalNowOrder"
    /\ ToRenew # {} /\ ExistingRenewals # <<>>
    /\ Continue(next) /\ UNCHANGED <<planVars, nowVars>>

FindRenewalOrder(next) ==
    /\ pc = "SubmitRenewalNowOrder"
    /\ ToRenew # {} /\ ExistingRenewals # <<>>
    /\ FollowRenewal(next, ExistingRenewals[1].status)
    /\ UNCHANGED nowVars

SubmitRenewalNowOrder(next) ==
    \/ /\ pc = "SubmitRenewalNowOrder"
       /\ ToRenew = {}
       /\ Continue(next) /\ UNCHANGED <<planVars, nowVars>>
    \/ PlaceRenewalOrder
    \/ FindRenewalOrder(next)
    \/ pc = "RenewalOrderPlaced" /\ FollowRenewal(next, plan.renewal) /\ UNCHANGED nowVars

-----------------------------------------------------------------------------
(* ReturnPreviousRenewalOrders.                                             *)

LapsingRenewed == {id \in Lapsing : plan.snapshot[id].renewed # 0}

ListReturns(next) ==
    /\ pc = "ReturnPreviousRenewalOrders"
    /\ IF LapsingRenewed = {} THEN Goto(next) /\ UNCHANGED plan
       ELSE /\ plan' = [plan EXCEPT !.found =
                   [id \in {other \in Known : takenBack[other] # "none"} |-> takenBack[id]]]
            /\ Goto("ReturnEach")
    /\ UNCHANGED <<status, dueDate, vendorId, today, ctx, payload, subscription,
                   scheduled, nowVars>>

\* A listed RETURN order with the SKU of the subscription counts as its own.
OwnReturns(id) == {other \in DOMAIN plan.found : Sku[other] = Sku[id]}

Handled(id, answer) ==
    plan' = [plan EXCEPT !.done = @ \cup {id},
                         !.pending = IF answer = "OPEN" THEN @ \cup {id} ELSE @]

ReuseReturn(id) ==
    /\ \E other \in OwnReturns(id) : Handled(id, plan.found[other])
    /\ UNCHANGED <<passVars, payload, subscription, scheduled, takenBack>>

PlaceReturn(id) ==
    /\ OwnReturns(id) = {}
    /\ IF id \notin RenewedBefore THEN FailRenewal /\ UNCHANGED takenBack
       ELSE \/ \E answer \in {"OPEN", "COMPLETE"} :
                 /\ takenBack' = [takenBack EXCEPT ![id] = answer]
                 /\ Handled(id, answer)
                 /\ IF answer = "COMPLETE" THEN Unrenew(id) ELSE UNCHANGED subscription
                 /\ UNCHANGED <<passVars, payload, scheduled>>
            \/ "ReturnRejected" \in Refusals /\ FailRenewal /\ UNCHANGED takenBack

\* Mutant of AwaitReturns: pending returns are not waited for.
AwaitReturnsNot(next) ==
    /\ LapsingRenewed = plan.done
    /\ Goto(next) /\ plan' = [plan EXCEPT !.done = {}]
    /\ UNCHANGED <<status, dueDate, vendorId, today, ctx, payload, subscription, scheduled>>

AwaitReturns(next) ==
    /\ LapsingRenewed = plan.done
    /\ IF plan.pending # {} THEN WaitRenewal
       ELSE /\ Goto(next) /\ plan' = [plan EXCEPT !.done = {}]
            /\ UNCHANGED <<status, dueDate, vendorId, today, ctx, payload, subscription,
                           scheduled>>

ReturnPreviousRenewalOrders(next) ==
    \/ ListReturns(next)
    \/ /\ pc = "ReturnEach"
       /\ \/ \E id \in LapsingRenewed \ plan.done : ReuseReturn(id) \/ PlaceReturn(id)
          \/ AwaitReturns(next) /\ UNCHANGED takenBack
       /\ UNCHANGED renewals

-----------------------------------------------------------------------------
(* NormalizeRenewedSubscriptions and DisableLapsingSubscriptions: one update *)
(* at a time; the first that fails fails the order, and nothing is undone.   *)

\* wanted: what each of the ids is to become.
UpdateEach(wanted, next) ==
    \/ \E id \in DOMAIN wanted \ plan.done, answer \in {"Done"} \cup UpdateErrors :
         /\ Patch(answer, wanted[id])
         /\ IF answer = "Done"
              THEN plan' = [plan EXCEPT !.done = @ \cup {id}] /\ UNCHANGED passVars
              ELSE plan' = NoPlan /\ switch_order_to_failed
         /\ UNCHANGED <<payload, scheduled>>
    \/ /\ DOMAIN wanted \subseteq plan.done
       /\ Goto(next) /\ plan' = [plan EXCEPT !.done = {}]
       /\ UNCHANGED <<status, dueDate, vendorId, today, ctx, payload, subscription, scheduled>>

\* Enabled, with the quantity Adobe shows as renewed, not the one planned; as
\* long as Adobe shows none, the subscription is skipped.
Normalised(id) ==
    IF subscription[id].renewed = 0 THEN subscription
    ELSE Wanted(id, TRUE, subscription[id].renewed, subscription[id].codes)
Disabled(id) == Wanted(id, FALSE, subscription[id].quantity, subscription[id].codes)

\* Mutant of NormalizeRenewedSubscriptions: the planned quantity is written.
AsPlanned(id) == Wanted(id, TRUE, payload.quantity[id], subscription[id].codes)
NormalizeAsPlanned(next) ==
    /\ pc = "NormalizeRenewedSubscriptions"
    /\ UpdateEach([id \in ToRenew |-> AsPlanned(id)], next)
    /\ UNCHANGED nowVars

NormalizeRenewedSubscriptions(next) ==
    /\ pc = "NormalizeRenewedSubscriptions"
    /\ UpdateEach([id \in ToRenew |-> Normalised(id)], next)
    /\ UNCHANGED nowVars

DisableLapsingSubscriptions(next) ==
    /\ pc = "DisableLapsingSubscriptions"
    /\ UpdateEach([id \in {lapsing \in Lapsing : plan.snapshot[lapsing].enabled} |->
                     Disabled(id)], next)
    /\ UNCHANGED nowVars

Now ==
    \/ PreviewRenewalNowOrder("SubmitRenewalNowOrder")
    \/ SubmitRenewalNowOrder("ReturnPreviousRenewalOrders")
    \/ ReturnPreviousRenewalOrders("NormalizeRenewedSubscriptions")
    \/ NormalizeRenewedSubscriptions("DisableLapsingSubscriptions")
    \/ DisableLapsingSubscriptions("CompleteOrder")

-----------------------------------------------------------------------------
(* Adobe.                                                                   *)

AdobeSettlesRenewal ==
    /\ \E i \in DOMAIN renewals :
         /\ renewals[i].status = "OPEN"
         /\ \/ /\ renewals' = [renewals EXCEPT ![i].status = "COMPLETE"]
               /\ Renew(renewals[i].entries)
            \/ /\ renewals' = [renewals EXCEPT ![i].status = "FAILED"]
               /\ UNCHANGED subscription
    /\ UNCHANGED <<passVars, payload, scheduled, plan, takenBack>>

\* The renewed quantity of a COMPLETE order shows in the end.
AdobeShowsRenewed ==
    /\ \E i \in DOMAIN renewals :
         /\ renewals[i].status = "COMPLETE"
         /\ \E id \in renewals[i].entries \cap ShownLate :
               subscription[id].renewed # CommittedQuantity[id] /\ Show({id})
    /\ UNCHANGED <<passVars, payload, scheduled, plan, nowVars>>

AdobeSettlesReturn ==
    /\ \E id \in Known :
         /\ takenBack[id] = "OPEN"
         /\ \/ takenBack' = [takenBack EXCEPT ![id] = "COMPLETE"] /\ Unrenew(id)
            \/ takenBack' = [takenBack EXCEPT ![id] = "none"] /\ UNCHANGED subscription
    /\ UNCHANGED <<passVars, payload, scheduled, plan, renewals>>

RenewalNowInit ==
    /\ renewals = <<>>
    /\ takenBack = [id \in Known |-> "none"]

RenewalNowTypeOK ==
    /\ renewals \in Seq(RenewalOrder)
    /\ takenBack \in [Known -> {"none", "OPEN", "COMPLETE"}]
=============================================================================
