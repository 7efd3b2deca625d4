------------------------------ MODULE RenewalPlan ------------------------------
(***************************************************************************)
(* The renewal payload of a change order, the auto-renewal preferences it  *)
(* is about, and the step both renewal pipelines resolve it with.  Adobe   *)
(* keeps for every subscription whether it renews at the anniversary, with *)
(* which quantity and discount codes, and, once it was renewed early, the  *)
(* renewed quantity.  A product the customer does not hold yet gets a      *)
(* scheduled subscription, which activates at the anniversary.             *)
(***************************************************************************)
EXTENDS OrderPass, FiniteSets, FiniteSetsExt, Functions, Sequences

CONSTANTS
    Known,         \* the subscriptions Adobe has of the customer
    Products,      \* products a plan may add (netNewItems)
    FirstPreference, \* the preference of each subscription before the order
    FirstScheduled,  \* products with a scheduled subscription before the order
    Payloads,      \* the renewal payloads an order may carry
    UpdateErrors,  \* how an update of a preference may fail: Adobe refuses it
                   \* ("Rejected"), or carries it out and the GET with which
                   \* update_subscription reads it back fails ("Unread")
    ReversalErrors \* the same, for the updates of a reversal

VARIABLES
    payload,       \* the renewalPayload parameter of the order
    subscription,  \* Adobe's view of each subscription, existing or scheduled
    scheduled,     \* how many scheduled subscriptions a product has
    plan           \* the renewal part of the Context of the running pass

planVars == <<payload, subscription, scheduled, plan>>

\* renewed: renewedQuantity, 0 for None.
Preference == [enabled : BOOLEAN, quantity : Nat, codes : SUBSET {"code"}, renewed : Nat]

\* A plan names subscriptions, the renewing ones with a quantity, and products.
Payload ==
    [path : {"anniversary", "now"}, entries : SUBSET Known, renewing : SUBSET Known,
     netNew : SUBSET Products, quantity : [Known \cup Products -> Nat],
     codes : [Known -> SUBSET {"code"}]]

ASSUME RenewalPlanAssumption ==
    /\ IsFiniteSet(Known) /\ IsFiniteSet(Products)
    /\ Known \cap Products = {}
    /\ FirstPreference \in [Known \cup Products -> Preference]
    /\ FirstScheduled \subseteq Products
    /\ \A item \in Products \ FirstScheduled : ~FirstPreference[item].enabled
    /\ Payloads \subseteq Payload
    /\ \A entry \in Payloads : entry.renewing \subseteq entry.entries
    /\ UpdateErrors \subseteq {"Rejected", "Unread"}
    /\ ReversalErrors \subseteq {"Rejected", "Unread"}

NoPlan ==
    [snapshot |-> NoEntry,   \* what SetupRenewalPlan saw of each subscription
     netNew   |-> {},        \* renewal_net_new_subscriptions
     changed  |-> {},        \* renewal_created_net_new_subscriptions
     applied  |-> <<>>,      \* UpdateRenewalSubscriptions: operations applied
     done     |-> {},        \* entries the current step already handled
     preview  |-> FALSE,     \* preview_renewal_order
     renewal  |-> "none",    \* status of the RENEWAL order, as answered
     found    |-> NoEntry,   \* RETURN orders listed before the step returned any
     pending  |-> {}]        \* RETURN orders used that are not COMPLETE

Lapsing == payload.entries \ payload.renewing

-----------------------------------------------------------------------------
(* The pass and its memory of the plan end together.                        *)

StopPlan == plan' = NoPlan /\ UNCHANGED <<payload, subscription, scheduled>>
FailRenewal == switch_order_to_failed /\ StopPlan
WaitRenewal == Wait /\ StopPlan
OnPlan(step) == step /\ UNCHANGED <<payload, subscription, scheduled>>
              /\ plan' = IF pc' = Idle THEN NoPlan ELSE plan

-----------------------------------------------------------------------------
(* update_subscription: PATCH of the preference, then GET.                   *)

Wanted(id, enabled, quantity, codes) ==
    [subscription EXCEPT ![id].enabled = enabled, ![id].quantity = quantity,
                         ![id].codes = codes]

Patch(answer, wanted) ==
    subscription' = IF answer = "Rejected" THEN subscription ELSE wanted

\* Mutant of SetupRenewalPlan: scheduled subscriptions are not looked for.
SetupRenewalPlanUnlisted(next) ==
    /\ pc = "SetupRenewalPlan"
    /\ plan' = [NoPlan EXCEPT !.snapshot = [id \in payload.entries |-> subscription[id]]]
    /\ Goto(next)
    /\ UNCHANGED <<status, dueDate, vendorId, today, ctx, payload, subscription, scheduled>>

\* One list of the customer's subscriptions serves the whole pass.
SetupRenewalPlan(next) ==
    /\ pc = "SetupRenewalPlan"
    /\ \/ /\ LET listed == payload.entries \cup {p \in payload.netNew : scheduled[p] > 0}
             IN  plan' = [NoPlan EXCEPT !.snapshot = [id \in listed |-> subscription[id]]]
          /\ Goto(next)
          /\ UNCHANGED <<status, dueDate, vendorId, today, ctx, payload, subscription, scheduled>>
       \/ "SubscriptionUnknown" \in Refusals /\ FailRenewal

-----------------------------------------------------------------------------
RenewalPlanInit ==
    /\ payload \in Payloads
    /\ subscription = FirstPreference
    /\ scheduled = [p \in Products |-> IF p \in FirstScheduled THEN 1 ELSE 0]
    /\ plan = NoPlan

RenewalPlanTypeOK ==
    /\ payload \in Payloads
    /\ subscription \in [Known \cup Products -> Preference]
    /\ scheduled \in [Products -> Nat]
    /\ plan.netNew \subseteq Products /\ plan.changed \subseteq Products
    /\ plan.applied \in Seq(Known)
=============================================================================
