-------------------------- MODULE AnniversaryRenewal --------------------------
(***************************************************************************)
(* Renewal at the anniversary: the plan is written to Adobe as deferred    *)
(* preferences.  What adds to the quantity that will renew comes before    *)
(* what takes away from it; when an update fails, the operations of the    *)
(* pass are reversed and the order is failed.                              *)
(***************************************************************************)
EXTENDS RenewalPlan

CONSTANTS
    MaxScheduled,   \* bound on the scheduled subscriptions of a product
    OrderedProducts \* added products with a line of their own in the MPT order

ASSUME AnniversaryRenewalAssumption ==
    MaxScheduled \in Nat /\ OrderedProducts \subseteq Products

VARIABLE published      \* added products with a subscription in the MPT order

Resolved(item) == plan' = [plan EXCEPT !.netNew = @ \cup {item}]

\* An item this run created or changed; an error starts the reversal.
Changed(item) == [plan EXCEPT !.netNew = @ \cup {item}, !.changed = @ \cup {item}]

-----------------------------------------------------------------------------
(* CreateNetNewSubscriptions.                                               *)

ScheduledAsPlanned(item) ==
    /\ item \in DOMAIN plan.snapshot
    /\ plan.snapshot[item].enabled
    /\ plan.snapshot[item].quantity = payload.quantity[item]

ReuseScheduled(item) ==
    /\ ScheduledAsPlanned(item)
    /\ Resolved(item)
    /\ UNCHANGED <<pc, subscription, scheduled>>

RestoreScheduled(item) ==
    /\ item \in DOMAIN plan.snapshot /\ ~ScheduledAsPlanned(item)
    /\ \E answer \in {"Done"} \cup UpdateErrors :
         /\ Patch(answer, Wanted(item, TRUE, payload.quantity[item], subscription[item].codes))
         /\ IF answer = "Done" THEN plan' = Changed(item) /\ UNCHANGED pc
            ELSE Goto("DisableNetNew") /\ UNCHANGED plan
    /\ UNCHANGED scheduled

ScheduleNew(item) ==
    /\ item \notin DOMAIN plan.snapshot
    /\ \/ /\ scheduled[item] < MaxScheduled
          /\ scheduled' = [scheduled EXCEPT ![item] = @ + 1]
          /\ subscription' = Wanted(item, TRUE, payload.quantity[item], {})
          /\ plan' = Changed(item)
          /\ UNCHANGED pc
       \/ /\ "Rejected" \in UpdateErrors
          /\ Goto("DisableNetNew")
          /\ UNCHANGED <<subscription, scheduled, plan>>

CreateNetNewSubscriptions(next) ==
    /\ pc = "CreateNetNewSubscriptions"
    /\ \/ \E item \in payload.netNew \ plan.netNew :
             ReuseScheduled(item) \/ RestoreScheduled(item) \/ ScheduleNew(item)
       \/ /\ payload.netNew = plan.netNew
          /\ Goto(next)
          /\ UNCHANGED <<subscription, scheduled, plan>>
    /\ UNCHANGED <<status, dueDate, vendorId, today, ctx, payload>>

\* disable_net_new_subscriptions, best effort, then the order is failed.
DisableNetNew ==
    /\ pc = "DisableNetNew"
    /\ \/ /\ \E item \in plan.changed, answer \in {"Done"} \cup ReversalErrors :
               /\ Patch(answer, Wanted(item, FALSE, subscription[item].quantity,
                                       subscription[item].codes))
               /\ plan' = [plan EXCEPT !.changed = @ \ {item}]
          /\ UNCHANGED <<passVars, payload, scheduled>>
       \/ plan.changed = {} /\ FailRenewal

-----------------------------------------------------------------------------
(* UpdateRenewalSubscriptions.                                              *)

\* Mutant of Kind: what renews already counts as in place.
KindEnabledInPlace(id) ==
    LET seen == plan.snapshot[id]
    IN  IF seen.enabled THEN IF id \in payload.renewing THEN "none" ELSE "disable"
        ELSE IF id \in payload.renewing THEN "enable" ELSE "none"

\* _classify_plan: how the plan changes a subscription, if at all.
Kind(id) ==
    LET seen == plan.snapshot[id]
    IN  IF id \notin payload.renewing THEN IF seen.enabled THEN "disable" ELSE "none"
        ELSE IF seen.enabled /\ seen.quantity = payload.quantity[id]
                /\ seen.codes = payload.codes[id] THEN "none"
        ELSE IF ~seen.enabled THEN "enable"
        ELSE IF payload.quantity[id] >= seen.quantity THEN "increase" ELSE "decrease"

\* Mutant of Rank: what takes away comes first.
RankSubtractiveFirst ==
    [none |-> 0, disable |-> 1, decrease |-> 2, increase |-> 3, enable |-> 4]

\* operation_kinds: additive before subtractive.
Rank == [none |-> 0, enable |-> 1, increase |-> 2, decrease |-> 3, disable |-> 4]

Operations == {id \in payload.entries : Kind(id) # "none"} \ Range(plan.applied)

\* What an operation writes: a plan without codes leaves those there are.
Applied(id) ==
    IF id \in payload.renewing
      THEN Wanted(id, TRUE, payload.quantity[id],
                  IF payload.codes[id] = {} THEN subscription[id].codes ELSE payload.codes[id])
      ELSE Wanted(id, FALSE, subscription[id].quantity, subscription[id].codes)

ApplyOperation(id) ==
    /\ \A other \in Operations : Rank[Kind(id)] <= Rank[Kind(other)]
    /\ \E answer \in {"Done"} \cup UpdateErrors :
         /\ Patch(answer, Applied(id))
         /\ IF answer = "Done"
              THEN plan' = [plan EXCEPT !.applied = Append(@, id)] /\ UNCHANGED pc
              ELSE Goto("ReverseOperations") /\ UNCHANGED plan

UpdateRenewalSubscriptions(next) ==
    /\ pc = "UpdateRenewalSubscriptions"
    /\ \/ \E id \in Operations : ApplyOperation(id)
       \/ Operations = {} /\ Goto(next) /\ UNCHANGED <<subscription, plan>>
    /\ UNCHANGED <<status, dueDate, vendorId, today, ctx, payload, scheduled>>

\* Mutant of ReverseOperations: only the last operation is reversed.
ReverseLastOperation ==
    /\ pc = "ReverseOperations"
    /\ Goto("DisableNetNew")
    /\ LET last == plan.applied[Len(plan.applied)]
       IN  subscription' = IF plan.applied = <<>> THEN subscription
                           ELSE [subscription EXCEPT ![last] = plan.snapshot[last]]
    /\ UNCHANGED <<status, dueDate, vendorId, today, ctx, payload, scheduled, plan>>

\* _reverse_applied_operations: the last one first, best effort.
ReverseOperations ==
    /\ pc = "ReverseOperations"
    /\ \/ /\ plan.applied # <<>>
          /\ LET last == plan.applied[Len(plan.applied)]
                 seen == plan.snapshot[last]
             IN  \E answer \in {"Done"} \cup ReversalErrors :
                   Patch(answer, Wanted(last, seen.enabled, seen.quantity, seen.codes))
          /\ plan' = [plan EXCEPT !.applied = SubSeq(@, 1, Len(@) - 1)]
          /\ UNCHANGED pc
       \/ /\ plan.applied = <<>>
          /\ Goto("DisableNetNew")
          /\ UNCHANGED <<subscription, plan>>
    /\ UNCHANGED <<status, dueDate, vendorId, today, ctx, payload, scheduled>>

-----------------------------------------------------------------------------
\* CreateNetNewMptSubscriptions, for the items this pass resolved.  One without
\* an order line is skipped, and so is one whose line has a subscription.
ToPublish == (plan.netNew \cap OrderedProducts) \ published

CreateNetNewMptSubscriptions(next) ==
    /\ pc = "CreateNetNewMptSubscriptions"
    /\ \/ /\ \E item \in ToPublish : published' = published \cup {item}
          /\ UNCHANGED pc
       \/ ToPublish = {} /\ Goto(next) /\ UNCHANGED published
    /\ UNCHANGED <<status, dueDate, vendorId, today, ctx, planVars>>

Anniversary ==
    \/ /\ \/ CreateNetNewSubscriptions("UpdateRenewalSubscriptions")
          \/ DisableNetNew
          \/ UpdateRenewalSubscriptions("CreateNetNewMptSubscriptions")
          \/ ReverseOperations
       /\ UNCHANGED published
    \/ CreateNetNewMptSubscriptions("CompleteOrder")
=============================================================================
