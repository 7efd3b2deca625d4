----------------------------- MODULE RenewalOrder -----------------------------
(***************************************************************************)
(* Fulfilment of a renewal: a change order that carries a renewal payload  *)
(* goes through fulfill_renewal_order or, with renewalPath "now", through  *)
(* fulfill_renewal_now_order.  Both start alike and both re-read Adobe at  *)
(* the start of every pass.                                                *)
(***************************************************************************)
EXTENDS AnniversaryRenewal, RenewalNow

CONSTANT Minimum   \* the 3YC minimum of the quantities that will renew

ASSUME RenewalOrderAssumption == Minimum \in Nat

vars == <<passVars, planVars, published, nowVars>>

-----------------------------------------------------------------------------
Platform == Dispatch \/ Abort \/ Resume \/ NextDay

FirstStep == IF payload.path = "now" THEN "PreviewRenewalNowOrder"
             ELSE "CreateNetNewSubscriptions"

Prepare ==
    \/ SetupContext("SetupDueDate")
    \/ SetupDueDate("ValidateDuplicateLines")
    \/ ValidateDuplicateLines("ValidateRenewalWindow")
    \/ ValidateRenewalWindow("SetupRenewalPlan")
    \/ CompleteOrder

Adobe == AdobeSettlesRenewal \/ AdobeShowsRenewed \/ AdobeSettlesReturn

Init == PassInit /\ RenewalPlanInit /\ published = {} /\ RenewalNowInit

Next ==
    \/ OnPlan(Platform) /\ UNCHANGED <<published, nowVars>>
    \/ OnPlan(Prepare) /\ UNCHANGED <<published, nowVars>>
    \/ SetupRenewalPlan(FirstStep) /\ UNCHANGED <<published, nowVars>>
    \/ Anniversary /\ UNCHANGED nowVars
    \/ Now /\ UNCHANGED published
    \/ Adobe /\ UNCHANGED published

Spec == Init /\ [][Next]_vars

-----------------------------------------------------------------------------
\* Every variable of a renewal holds a value of its kind (Context,
\* SetupRenewalPlan, the RENEWAL and RETURN orders).
TypeOK ==
    /\ PassTypeOK
    /\ RenewalPlanTypeOK
    /\ published \subseteq Products
    /\ RenewalNowTypeOK

-----------------------------------------------------------------------------
(* At the anniversary.                                                      *)

WillRenew == {id \in Known \cup Products : subscription[id].enabled}

\* The quantities that will renew never add up to less than the minimum, in
\* no order of updates, reversals and passes cut off: "the running renewing
\* aggregate never dips below the 3YC committed minimum" (UpdateRenewalSubscriptions).
NeverDips ==
    payload.path = "anniversary" =>
        SumFunctionOnSet([id \in WillRenew |-> subscription[id].quantity], WillRenew) >= Minimum

\* An order failed by a reversal leaves every subscription as the pass that
\* failed it found it, and none this pass scheduled will activate
\* (_reverse_applied_operations, disable_net_new_subscriptions).
ReversedToSnapshot ==
    [][status = "Processing" /\ status' = "Failed" /\ pc = "DisableNetNew" =>
         /\ \A id \in payload.entries : subscription[id] = plan.snapshot[id]
         /\ \A item \in payload.netNew :
               subscription[item].enabled =>
                 item \in DOMAIN plan.snapshot /\ plan.snapshot[item].enabled]_vars

\* However often a pass is cut off and repeated, a product added by the plan
\* gets one scheduled subscription (_find_scheduled_subscription).
ScheduledOnce == \A item \in Products : scheduled[item] <= 1

\* A completed plan is in place at Adobe, whole: renewing subscriptions with
\* their quantity, the others off, added products scheduled, and published
\* where the order has a line for them (UpdateRenewalSubscriptions,
\* CreateNetNewSubscriptions, CreateNetNewMptSubscriptions).
PlanInPlace ==
    status = "Completed" /\ payload.path = "anniversary" =>
      /\ \A id \in payload.renewing \cup payload.netNew :
            subscription[id].enabled /\ subscription[id].quantity = payload.quantity[id]
      /\ \A id \in Lapsing : ~subscription[id].enabled
      /\ \A item \in payload.netNew :
            scheduled[item] > 0 /\ (item \in OrderedProducts => item \in published)

-----------------------------------------------------------------------------
(* Now.                                                                     *)

\* An order renews early at most once, although nothing is saved on it
\* between the POST and the next pass (get_existing_renewal_order).
RenewedOnce == Len(renewals) <= 1

\* Nothing is taken away before what is renewed has been committed: "the
\* additive operation always precedes the subtractive one"
\* (ReturnPreviousRenewalOrders, DisableLapsingSubscriptions).
AdditiveFirst ==
    [][payload.path = "now" /\ renewals # <<>> /\ renewals[1].status # "COMPLETE" =>
         \A id \in Lapsing :
            /\ takenBack[id] = "none" => takenBack'[id] = "none"
            /\ subscription[id].enabled => subscription'[id].enabled]_vars

InLine(id) == subscription[id].enabled /\ subscription[id].quantity = CommittedQuantity[id]

\* The quantity that will renew is the one before the order, or one that Adobe
\* has shown as renewed.
KeptOrShown(id) ==
    subscription[id].quantity \in
        {FirstPreference[id].quantity, FirstPreference[id].renewed, CommittedQuantity[id]}

\* A completed early renewal is consistent: what was renewed will renew with
\* the quantity Adobe committed, or, when Adobe did not show that in time,
\* with one it did show and never with the planned one; what lapses is off,
\* and its earlier renewal is given back (NormalizeRenewedSubscriptions,
\* DisableLapsingSubscriptions, ReturnPreviousRenewalOrders).
NowDelivered ==
    status = "Completed" /\ payload.path = "now" =>
      /\ \A id \in UNION {renewals[i].entries : i \in DOMAIN renewals} :
            InLine(id) \/ (id \in ShownLate /\ KeptOrShown(id))
      /\ \A id \in Lapsing : ~subscription[id].enabled /\ subscription[id].renewed = 0
=============================================================================
