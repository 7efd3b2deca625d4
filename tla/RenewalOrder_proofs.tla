-------------------------- MODULE RenewalOrder_proofs --------------------------
(***************************************************************************)
(* What holds of a renewal for any plan, any customer and any failures of  *)
(* a pass: its types; at the anniversary, that a completed plan is in      *)
(* place, that a product is scheduled once, that a failed plan is          *)
(* reversed and that what renews never dips below the minimum; now, that   *)
(* one RENEWAL order is placed, that it comes before what it takes away,   *)
(* and that a completed early renewal is delivered.  All of it rests on    *)
(* Inv, the types of the pass and of its memory of the plan, and on what   *)
(* each step does, told once per step in the Effects lemmas.               *)
(***************************************************************************)
EXTENDS RenewalOrder, SumLemmas, SequenceTheorems

-----------------------------------------------------------------------------
(* The pass.                                                                *)

\* A pass runs only over a Processing order, and a due date is passed by one
\* day at most.
PassInv ==
    /\ PassTypeOK
    /\ pc # Idle => status = "Processing"
    /\ status = "Processing" /\ dueDate = NoDate => today <= LatestStart
    /\ dueDate # NoDate => today <= dueDate + 1

LEMMA PassKept ==
    ASSUME PassInv, UNCHANGED <<status, dueDate, today>>, pc' # Idle => pc # Idle
    PROVE  PassInv'
  BY DEF PassInv, PassTypeOK

LEMMA PassEnds ==
    ASSUME PassInv, pc # Idle,
           Wait \/ \E outcome \in {"Completed", "Failed", "Querying"} : Decide(outcome)
    PROVE  PassInv'
  BY DEF PassInv, PassTypeOK, Wait, Decide, EndPass, NoDate

LEMMA PlatformPass ==
    ASSUME PassInv, Platform
    PROVE  PassInv'
  <1> USE OrderPassAssumption DEF PassInv, PassTypeOK, NoDate, DueDay, Day
  <1>1. CASE Dispatch
    BY <1>1 DEF Dispatch, Goto
  <1>2. CASE Abort
    BY <1>2 DEF Abort, Wait, EndPass
  <1>3. CASE Resume
    BY <1>3 DEF Resume
  <1>4. CASE NextDay
    BY <1>4 DEF NextDay
  <1>5. QED
    BY <1>1, <1>2, <1>3, <1>4 DEF Platform

LEMMA PreparePass ==
    ASSUME PassInv, Prepare
    PROVE  PassInv'
  <1> pc # Idle
    BY DEF Prepare, SetupContext, SetupDueDate, ValidateDuplicateLines, ValidateRenewalWindow,
           CompleteOrder, Idle
  <1> USE DEF switch_order_to_failed, Continue, Goto
  <1>1. CASE SetupContext("SetupDueDate")
    BY <1>1, PassKept, PassEnds DEF SetupContext
  <1>2. CASE SetupDueDate("ValidateDuplicateLines")
    <2>1. CASE Decide("Failed")
      BY <2>1, PassEnds
    <2>2. CASE ~Decide("Failed")
      BY <1>2, <2>2, OrderPassAssumption DEF SetupDueDate, PassInv, PassTypeOK, NoDate, DueDay, Day
    <2>3. QED
      BY <2>1, <2>2
  <1>3. CASE ValidateDuplicateLines("ValidateRenewalWindow")
    BY <1>3, PassKept, PassEnds DEF ValidateDuplicateLines
  <1>4. CASE ValidateRenewalWindow("SetupRenewalPlan")
    BY <1>4, PassKept, PassEnds DEF ValidateRenewalWindow
  <1>5. CASE CompleteOrder
    BY <1>5, PassEnds DEF CompleteOrder
  <1>6. QED
    BY <1>1, <1>2, <1>3, <1>4, <1>5 DEF Prepare

-----------------------------------------------------------------------------
(* The plan of a pass.                                                      *)

PlanFields == {"snapshot", "netNew", "changed", "applied", "done", "preview",
               "renewal", "found", "pending"}

\* What SetupRenewalPlan makes of the Context, and every step keeps.
PlanRecord(p) == p = [field \in PlanFields |-> p[field]]

\* q is p but for some fields.
PlanBut(q, p, fields) ==
    PlanRecord(q) /\ \A field \in PlanFields \ fields : q[field] = p[field]

LEMMA NoPlanRecord == PlanRecord(NoPlan)
  BY DEF PlanRecord, NoPlan, PlanFields

-----------------------------------------------------------------------------
(* The preferences.                                                         *)

Subscriptions == Known \cup Products

SubscriptionsTyped == subscription \in [Subscriptions -> Preference]

\* A preference as update_subscription leaves it.
Updated(preference, enabled, quantity, codes) ==
    [enabled |-> enabled, quantity |-> quantity, codes |-> codes,
     renewed |-> preference.renewed]

\* wanted is subscription with the preference of one id updated.
UpdatedAt(wanted, id, enabled, quantity, codes) ==
    /\ wanted \in [Subscriptions -> Preference]
    /\ wanted[id] = Updated(subscription[id], enabled, quantity, codes)
    /\ \A other \in Subscriptions \ {id} : wanted[other] = subscription[other]

LEMMA WantedUpdates ==
    ASSUME SubscriptionsTyped, NEW id \in Subscriptions, NEW enabled \in BOOLEAN,
           NEW quantity \in Nat, NEW codes \in SUBSET {"code"}
    PROVE  UpdatedAt(Wanted(id, enabled, quantity, codes), id, enabled, quantity, codes)
  <1> DEFINE wanted == Wanted(id, enabled, quantity, codes)
             new == Updated(subscription[id], enabled, quantity, codes)
  <1>1. subscription[id] \in Preference
    BY DEF SubscriptionsTyped
  <1>2. new \in Preference
    BY <1>1 DEF Updated, Preference
  <1>3. wanted = [subscription EXCEPT ![id] = new]
    <2> DEFINE seen == subscription[id]
               first == [subscription EXCEPT ![id] = [seen EXCEPT !.enabled = enabled]]
               second == [first EXCEPT ![id] = [first[id] EXCEPT !.quantity = quantity]]
    <2>1. first[id] = [seen EXCEPT !.enabled = enabled]
      BY DEF SubscriptionsTyped
    <2>2. second[id] = [first[id] EXCEPT !.quantity = quantity]
      BY DEF SubscriptionsTyped
    <2>3. wanted = [second EXCEPT ![id] = [second[id] EXCEPT !.codes = codes]]
      BY DEF Wanted
    <2>4. first[id] = [enabled |-> enabled, quantity |-> seen.quantity,
                       codes |-> seen.codes, renewed |-> seen.renewed]
      <3> HIDE DEF first
      <3>1. QED
        BY <1>1, <2>1 DEF Preference
    <2>5. second[id] = [enabled |-> enabled, quantity |-> quantity,
                        codes |-> seen.codes, renewed |-> seen.renewed]
      <3> HIDE DEF first, second
      <3>1. QED
        BY <2>2, <2>4
    <2>6. [second[id] EXCEPT !.codes = codes] = new
      <3> HIDE DEF second
      <3>1. QED
        BY <2>5 DEF Updated
    <2>7. wanted = [second EXCEPT ![id] = new]
      BY <2>3, <2>6
    <2>8. QED
      BY <2>7 DEF SubscriptionsTyped
  <1>4. QED
    BY <1>2, <1>3 DEF UpdatedAt, SubscriptionsTyped

\* Adobe's own changes of the renewed quantity keep the rest.
OnlyRenewed ==
    /\ subscription' \in [Subscriptions -> Preference]
    /\ \A id \in Subscriptions :
          subscription'[id] = [subscription[id] EXCEPT !.renewed = subscription'[id].renewed]

\* The committed quantity of the ids shows, that of some only later.
ShownOf(ids) ==
    \A id \in Subscriptions :
        \/ id \in ids /\ subscription'[id].renewed = CommittedQuantity[id]
        \/ /\ id \in ids => id \in ShownLate
           /\ subscription'[id].renewed = subscription[id].renewed

LEMMA RenewUpdates ==
    ASSUME SubscriptionsTyped, NEW ids \in SUBSET Known, Renew(ids)
    PROVE  OnlyRenewed /\ ShownOf(ids)
  <1>1. \A id \in Subscriptions : subscription[id] \in Preference
    BY DEF SubscriptionsTyped
  <1>2. \A id \in ids : CommittedQuantity[id] \in Nat
    BY RenewalNowAssumption
  <1>3. PICK late \in SUBSET (ids \cap ShownLate) : Show(ids \ late)
    BY DEF Renew
  <1>4. subscription' = [id \in Subscriptions |->
            IF id \in ids \ late
              THEN [subscription[id] EXCEPT !.renewed = CommittedQuantity[id]]
              ELSE subscription[id]]
    BY <1>3 DEF Show, SubscriptionsTyped
  <1>5. \A id \in Subscriptions : subscription'[id] =
            IF id \in ids \ late
              THEN [subscription[id] EXCEPT !.renewed = CommittedQuantity[id]]
              ELSE subscription[id]
    BY <1>4
  <1>6. OnlyRenewed
    BY <1>1, <1>2, <1>4 DEF OnlyRenewed, Preference
  <1>7. ShownOf(ids)
    BY <1>1, <1>2, <1>5 DEF ShownOf, Preference
  <1>8. QED
    BY <1>6, <1>7

LEMMA ShowRenews == ASSUME NEW ids, Show(ids) PROVE Renew(ids)
  <1>1. ids \ {} = ids
    OBVIOUS
  <1>2. QED
    BY <1>1 DEF Renew

LEMMA UnrenewUpdates ==
    ASSUME SubscriptionsTyped, NEW id \in Known, Unrenew(id)
    PROVE  /\ OnlyRenewed
           /\ \A other \in Subscriptions : subscription'[other].renewed =
                 IF other = id THEN 0 ELSE subscription[other].renewed
  <1>1. \A other \in Subscriptions : subscription[other] \in Preference
    BY DEF SubscriptionsTyped
  <1>2. subscription' = [subscription EXCEPT ![id] = [subscription[id] EXCEPT !.renewed = 0]]
    BY DEF Unrenew
  <1>3. id \in Subscriptions
    BY DEF Subscriptions
  <1>4. QED
    BY <1>1, <1>2, <1>3 DEF OnlyRenewed, Preference, SubscriptionsTyped

-----------------------------------------------------------------------------
(* TypeOK, and what a pass remembers of the plan.                           *)

AnniversarySteps == {"CreateNetNewSubscriptions", "DisableNetNew",
                     "UpdateRenewalSubscriptions", "ReverseOperations",
                     "CreateNetNewMptSubscriptions"}

NowSteps == {"PreviewRenewalNowOrder", "SubmitRenewalNowOrder", "RenewalOrderPlaced",
             "ReturnPreviousRenewalOrders", "ReturnEach", "NormalizeRenewedSubscriptions",
             "DisableLapsingSubscriptions"}

\* What is remembered is of the plan's subscriptions and products.
PlanTyped ==
    /\ PlanRecord(plan)
    /\ plan.netNew \subseteq payload.netNew /\ plan.changed \subseteq plan.netNew
    /\ plan.applied \in Seq(payload.entries)
    /\ DOMAIN plan.snapshot \subseteq Subscriptions
    /\ \A id \in DOMAIN plan.snapshot : plan.snapshot[id] \in Preference

\* A pass keeps to the pipeline of its plan, and has seen every entry.
OnPath ==
    /\ pc \in AnniversarySteps => payload.path # "now"
    /\ pc \in NowSteps => payload.path = "now"
    /\ pc \in AnniversarySteps \cup NowSteps => payload.entries \subseteq DOMAIN plan.snapshot

PlanInv ==
    /\ payload \in Payloads
    /\ SubscriptionsTyped
    /\ scheduled \in [Products -> Nat]
    /\ PlanTyped
    /\ OnPath
    /\ published \subseteq Products
    /\ RenewalNowTypeOK

LEMMA PayloadFacts ==
    ASSUME payload \in Payloads
    PROVE  /\ payload.entries \subseteq Known /\ payload.renewing \subseteq payload.entries
           /\ payload.netNew \subseteq Products
           /\ \A id \in Subscriptions : payload.quantity[id] \in Nat
           /\ \A id \in Known : payload.codes[id] \in SUBSET {"code"}
           /\ Lapsing = payload.entries \ payload.renewing
  BY RenewalPlanAssumption DEF Payload, Subscriptions, Lapsing

LEMMA NoPlanTyped ==
    ASSUME PlanInv, plan' = NoPlan, UNCHANGED payload
    PROVE  PlanTyped'
  BY NoPlanRecord DEF PlanInv, PlanTyped, NoPlan, NoEntry

\* A pass that forgets the plan and ends, before the plan or at its end.
LEMMA Forgotten ==
    ASSUME PlanInv, plan' = NoPlan, UNCHANGED <<payload, subscription, scheduled>>,
           pc' \notin AnniversarySteps \cup NowSteps,
           UNCHANGED published, UNCHANGED nowVars
    PROVE  PlanInv'
  <1>1. PlanTyped'
    BY NoPlanTyped
  <1>2. QED
    BY <1>1 DEF PlanInv, OnPath, SubscriptionsTyped, RenewalNowTypeOK, nowVars

\* Steps that keep the plan and its subscriptions.
LEMMA Retained ==
    ASSUME PlanInv, UNCHANGED <<plan, payload, subscription, scheduled>>,
           UNCHANGED published, UNCHANGED nowVars,
           \/ pc' \notin AnniversarySteps \cup NowSteps
           \/ pc \in AnniversarySteps /\ pc' \in AnniversarySteps
           \/ pc \in NowSteps /\ pc' \in NowSteps
           \/ pc' = pc
    PROVE  PlanInv'
  <1>1. PlanTyped'
    BY DEF PlanInv, PlanTyped
  <1>2. OnPath'
    BY DEF PlanInv, OnPath, AnniversarySteps, NowSteps
  <1>3. QED
    BY <1>1, <1>2 DEF PlanInv, SubscriptionsTyped, RenewalNowTypeOK, nowVars

LEMMA PlatformPlan ==
    ASSUME PlanInv, OnPlan(Platform), UNCHANGED <<published, nowVars>>
    PROVE  PlanInv'
  <1>1. CASE pc' = Idle
    BY <1>1, Forgotten DEF OnPlan, Idle, AnniversarySteps, NowSteps
  <1>2. CASE pc' # Idle
    BY <1>2, Retained
       DEF OnPlan, Platform, Dispatch, Abort, Wait, EndPass, Resume, NextDay, Goto, Idle,
           AnniversarySteps, NowSteps
  <1>3. QED
    BY <1>1, <1>2

LEMMA PreparePlan ==
    ASSUME PlanInv, OnPlan(Prepare), UNCHANGED <<published, nowVars>>
    PROVE  PlanInv'
  <1>1. pc' \notin AnniversarySteps \cup NowSteps
    BY DEF OnPlan, Prepare, SetupContext, SetupDueDate, ValidateDuplicateLines,
           ValidateRenewalWindow, CompleteOrder, switch_order_to_failed, Decide, Wait, EndPass,
           Continue, Goto, Idle, AnniversarySteps, NowSteps
  <1>2. QED
    BY <1>1, Forgotten, Retained DEF OnPlan

LEMMA SetupPlan ==
    ASSUME PlanInv, SetupRenewalPlan(FirstStep), UNCHANGED <<published, nowVars>>
    PROVE  PlanInv'
  <1>1. CASE FailRenewal
    BY <1>1, Forgotten
       DEF FailRenewal, StopPlan, switch_order_to_failed, Decide, EndPass, Idle,
           AnniversarySteps, NowSteps
  <1>2. CASE ~FailRenewal
    <2> DEFINE listed == payload.entries \cup {p \in payload.netNew : scheduled[p] > 0}
               snapshot == [id \in listed |-> subscription[id]]
    <2>1. plan' = [NoPlan EXCEPT !.snapshot = snapshot] /\ Goto(FirstStep)
          /\ UNCHANGED <<payload, subscription, scheduled>>
      BY <1>2 DEF SetupRenewalPlan
    <2>2. listed \subseteq Subscriptions
      BY PayloadFacts DEF PlanInv, Subscriptions
    <2>3. \A id \in listed : snapshot[id] \in Preference
      BY <2>2 DEF PlanInv, SubscriptionsTyped
    <2>4. PlanBut(plan', NoPlan, {"snapshot"}) /\ plan'.snapshot = snapshot
      <3> HIDE DEF snapshot
      <3>1. QED
        BY <2>1, NoPlanRecord DEF PlanRecord, PlanBut, PlanFields
    <2>5. plan'.netNew = {} /\ plan'.changed = {} /\ plan'.applied = <<>>
      <3> HIDE DEF snapshot
      <3>1. QED
        BY <2>4 DEF PlanBut, PlanFields, NoPlan
    <2>6. PlanTyped'
      <3>1. DOMAIN snapshot = listed
        OBVIOUS
      <3> HIDE DEF snapshot
      <3>2. plan'.applied \in Seq(payload.entries)
        BY <2>5, EmptySeq
      <3>3. PlanRecord(plan')
        BY <2>4 DEF PlanBut
      <3>4. DOMAIN plan'.snapshot \subseteq Subscriptions
        BY <2>2, <2>4, <3>1
      <3>5. \A id \in DOMAIN plan'.snapshot : plan'.snapshot[id] \in Preference
        BY <2>3, <2>4, <3>1
      <3>6. QED
        BY <2>1, <2>5, <3>2, <3>3, <3>4, <3>5 DEF PlanTyped
    <2>7. OnPath'
      <3>1. payload.entries \subseteq DOMAIN snapshot
        OBVIOUS
      <3> HIDE DEF snapshot
      <3>2. QED
        BY <2>1, <2>4, <3>1 DEF OnPath, Goto, FirstStep, AnniversarySteps, NowSteps
    <2>8. QED
      BY <2>1, <2>6, <2>7 DEF PlanInv, SubscriptionsTyped, RenewalNowTypeOK, nowVars
  <1>3. QED
    BY <1>1, <1>2

-----------------------------------------------------------------------------
(* What the steps of the anniversary do.                                    *)

\* update_subscription made subscription' of subscription.
Written(id, enabled, quantity, codes) == UpdatedAt(subscription', id, enabled, quantity, codes)

LEMMA PatchUpdates ==
    ASSUME SubscriptionsTyped, NEW id \in Subscriptions, NEW enabled \in BOOLEAN,
           NEW quantity \in Nat, NEW codes \in SUBSET {"code"}, NEW answer,
           Patch(answer, Wanted(id, enabled, quantity, codes))
    PROVE  \/ answer = "Rejected" /\ UNCHANGED subscription
           \/ answer # "Rejected" /\ Written(id, enabled, quantity, codes)
  BY WantedUpdates DEF Patch, Written

\* The order is failed and the pass over.
Failing ==
    /\ pc' = Idle /\ status' = "Failed" /\ dueDate' = NoDate /\ plan' = NoPlan
    /\ UNCHANGED <<today, payload, subscription, scheduled>>

\* The pass goes on, in the same plan.
Ongoing == UNCHANGED <<status, dueDate, today, payload>>

ItemReused(item) ==
    /\ ScheduledAsPlanned(item)
    /\ PlanBut(plan', plan, {"netNew"}) /\ plan'.netNew = plan.netNew \cup {item}
    /\ UNCHANGED <<pc, subscription, scheduled>>

ItemScheduled(item) ==
    /\ ~ScheduledAsPlanned(item)
    /\ \E codes \in SUBSET {"code"} : Written(item, TRUE, payload.quantity[item], codes)
    /\ PlanBut(plan', plan, {"netNew", "changed"})
    /\ plan'.netNew = plan.netNew \cup {item} /\ plan'.changed = plan.changed \cup {item}
    /\ IF item \in DOMAIN plan.snapshot THEN UNCHANGED scheduled
       ELSE scheduled' = [scheduled EXCEPT ![item] = @ + 1]
    /\ UNCHANGED pc

ItemRefused(item) ==
    /\ pc' = "DisableNetNew"
    /\ \/ UNCHANGED subscription
       \/ /\ "Unread" \in UpdateErrors /\ item \in DOMAIN plan.snapshot
          /\ \E codes \in SUBSET {"code"} : Written(item, TRUE, payload.quantity[item], codes)
    /\ UNCHANGED <<scheduled, plan>>

LEMMA CreateEffects ==
    ASSUME PlanInv, CreateNetNewSubscriptions("UpdateRenewalSubscriptions")
    PROVE  /\ Ongoing
           /\ \/ /\ pc' = "UpdateRenewalSubscriptions" /\ plan.netNew = payload.netNew
                 /\ UNCHANGED <<subscription, scheduled, plan>>
              \/ \E item \in payload.netNew \ plan.netNew :
                    ItemReused(item) \/ ItemScheduled(item) \/ ItemRefused(item)
  <1>1. Ongoing
    BY DEF CreateNetNewSubscriptions, Ongoing
  <1>2. PlanRecord(plan) /\ SubscriptionsTyped
    BY DEF PlanInv, PlanTyped
  <1>3. ASSUME NEW item \in payload.netNew \ plan.netNew
        PROVE  /\ item \in Subscriptions /\ payload.quantity[item] \in Nat
               /\ subscription[item].codes \in SUBSET {"code"}
               /\ Resolved(item) => /\ PlanBut(plan', plan, {"netNew"})
                                    /\ plan'.netNew = plan.netNew \cup {item}
               /\ plan' = Changed(item) =>
                     /\ PlanBut(plan', plan, {"netNew", "changed"})
                     /\ plan'.netNew = plan.netNew \cup {item}
                     /\ plan'.changed = plan.changed \cup {item}
    <2>1. item \in Subscriptions /\ payload.quantity[item] \in Nat
      BY PayloadFacts DEF PlanInv, Subscriptions
    <2>2. subscription[item].codes \in SUBSET {"code"}
      BY <1>2, <2>1 DEF SubscriptionsTyped, Preference
    <2> DEFINE more == plan.netNew \cup {item}
               changed == plan.changed \cup {item}
    <2>3. Resolved(item) => plan' = [plan EXCEPT !.netNew = more]
      BY DEF Resolved
    <2>4. plan' = Changed(item) => plan' = [plan EXCEPT !.netNew = more, !.changed = changed]
      BY Zenon DEF Changed
    <2> HIDE DEF more, changed
    <2>5. Resolved(item) => PlanBut(plan', plan, {"netNew"}) /\ plan'.netNew = more
      BY <1>2, <2>3 DEF PlanRecord, PlanBut, PlanFields
    <2>6. plan' = Changed(item) => /\ PlanBut(plan', plan, {"netNew", "changed"})
                                   /\ plan'.netNew = more /\ plan'.changed = changed
      BY <1>2, <2>4 DEF PlanRecord, PlanBut, PlanFields
    <2>7. QED
      BY <2>1, <2>2, <2>5, <2>6 DEF more, changed
  <1>4. ASSUME NEW item \in payload.netNew \ plan.netNew, ReuseScheduled(item)
        PROVE  ItemReused(item)
    BY <1>3, <1>4 DEF ReuseScheduled, ItemReused
  <1>5. ASSUME NEW item \in payload.netNew \ plan.netNew, RestoreScheduled(item)
        PROVE  ItemScheduled(item) \/ ItemRefused(item)
    <2> DEFINE codes == subscription[item].codes
    <2>1. PICK answer \in {"Done"} \cup UpdateErrors :
             /\ Patch(answer, Wanted(item, TRUE, payload.quantity[item], codes))
             /\ IF answer = "Done" THEN plan' = Changed(item) /\ UNCHANGED pc
                ELSE Goto("DisableNetNew") /\ UNCHANGED plan
      BY <1>5 DEF RestoreScheduled
    <2>2. \/ answer = "Rejected" /\ UNCHANGED subscription
          \/ answer # "Rejected" /\ Written(item, TRUE, payload.quantity[item], codes)
      BY <1>2, <1>3, <2>1, PatchUpdates
    <2>3. answer \in {"Done", "Rejected"} \/ (answer = "Unread" /\ "Unread" \in UpdateErrors)
      BY <2>1, RenewalPlanAssumption
    <2> HIDE DEF codes
    <2>4. QED
      BY <1>3, <1>5, <2>1, <2>2, <2>3
         DEF RestoreScheduled, ItemScheduled, ItemRefused, Goto, codes
  <1>6. ASSUME NEW item \in payload.netNew \ plan.netNew, ScheduleNew(item)
        PROVE  ItemScheduled(item) \/ ItemRefused(item)
    <2>1. CASE Goto("DisableNetNew") /\ UNCHANGED <<subscription, scheduled, plan>>
      BY <2>1 DEF ItemRefused, Goto
    <2>2. CASE /\ scheduled' = [scheduled EXCEPT ![item] = @ + 1] /\ UNCHANGED pc
               /\ subscription' = Wanted(item, TRUE, payload.quantity[item], {})
               /\ plan' = Changed(item)
      <3>1. {} \in SUBSET {"code"}
        OBVIOUS
      <3>2. Written(item, TRUE, payload.quantity[item], {})
        BY <1>2, <1>3, <2>2, <3>1, WantedUpdates DEF Written
      <3>3. item \notin DOMAIN plan.snapshot /\ ~ScheduledAsPlanned(item)
        BY <1>6 DEF ScheduleNew, ScheduledAsPlanned
      <3>4. QED
        BY <1>3, <2>2, <3>1, <3>2, <3>3 DEF ItemScheduled
    <2>3. QED
      BY <1>6, <2>1, <2>2 DEF ScheduleNew
  <1>7. QED
    BY <1>1, <1>4, <1>5, <1>6 DEF CreateNetNewSubscriptions, Goto

LEMMA DisableEffects ==
    ASSUME PlanInv, DisableNetNew
    PROVE  \/ plan.changed = {} /\ Failing
           \/ /\ Ongoing /\ UNCHANGED <<pc, scheduled>>
              /\ \E item \in plan.changed :
                    /\ PlanBut(plan', plan, {"changed"})
                    /\ plan'.changed = plan.changed \ {item}
                    /\ \/ ReversalErrors # {} /\ UNCHANGED subscription
                       \/ \E quantity \in Nat, codes \in SUBSET {"code"} :
                             Written(item, FALSE, quantity, codes)
  <1>1. PlanRecord(plan) /\ SubscriptionsTyped
    BY DEF PlanInv, PlanTyped
  <1>2. CASE plan.changed = {} /\ FailRenewal
    BY <1>2 DEF FailRenewal, StopPlan, switch_order_to_failed, Decide, EndPass, Failing
  <1>3. ASSUME NEW item \in plan.changed, NEW answer \in {"Done"} \cup ReversalErrors,
               Patch(answer, Wanted(item, FALSE, subscription[item].quantity,
                                    subscription[item].codes)),
               plan' = [plan EXCEPT !.changed = @ \ {item}],
               UNCHANGED <<passVars, payload, scheduled>>
        PROVE  /\ Ongoing /\ UNCHANGED <<pc, scheduled>>
               /\ PlanBut(plan', plan, {"changed"})
               /\ plan'.changed = plan.changed \ {item}
               /\ \/ ReversalErrors # {} /\ UNCHANGED subscription
                  \/ \E quantity \in Nat, codes \in SUBSET {"code"} :
                        Written(item, FALSE, quantity, codes)
    <2>1. item \in Subscriptions
      BY PayloadFacts DEF PlanInv, PlanTyped, Subscriptions
    <2>2. subscription[item].quantity \in Nat /\ subscription[item].codes \in SUBSET {"code"}
      BY <1>1, <2>1 DEF SubscriptionsTyped, Preference
    <2>3. \/ answer = "Rejected" /\ UNCHANGED subscription
          \/ Written(item, FALSE, subscription[item].quantity, subscription[item].codes)
      BY <1>1, <1>3, <2>1, <2>2, PatchUpdates
    <2> DEFINE less == plan.changed \ {item}
    <2>4. plan' = [plan EXCEPT !.changed = less]
      BY <1>3
    <2>5. PlanBut(plan', plan, {"changed"}) /\ plan'.changed = less
      <3> HIDE DEF less
      <3>1. QED
        BY <1>1, <2>4 DEF PlanRecord, PlanBut, PlanFields
    <2>6. QED
      BY <1>3, <2>2, <2>3, <2>5 DEF Ongoing, passVars
  <1>4. QED
    BY <1>2, <1>3 DEF DisableNetNew

\* An entry as the plan wants it.
EntryWritten(id) ==
    \E quantity \in Nat, codes \in SUBSET {"code"} :
       /\ id \in payload.renewing => quantity = payload.quantity[id]
       /\ Written(id, id \in payload.renewing, quantity, codes)

LEMMA UpdateEffects ==
    ASSUME PlanInv, UpdateRenewalSubscriptions("CreateNetNewMptSubscriptions")
    PROVE  /\ Ongoing /\ UNCHANGED scheduled
           /\ \/ /\ pc' = "CreateNetNewMptSubscriptions" /\ Operations = {}
                 /\ UNCHANGED <<subscription, plan>>
              \/ \E id \in Operations :
                    /\ \A other \in Operations : Rank[Kind(id)] <= Rank[Kind(other)]
                    /\ \/ /\ UNCHANGED pc /\ EntryWritten(id)
                          /\ PlanBut(plan', plan, {"applied"})
                          /\ plan'.applied = Append(plan.applied, id)
                       \/ /\ pc' = "ReverseOperations" /\ UNCHANGED plan
                          /\ \/ UNCHANGED subscription
                             \/ "Unread" \in UpdateErrors /\ EntryWritten(id)
  <1>1. PlanRecord(plan) /\ SubscriptionsTyped
    BY DEF PlanInv, PlanTyped
  <1>2. ASSUME NEW id \in Operations, ApplyOperation(id)
        PROVE  \/ /\ UNCHANGED pc /\ EntryWritten(id)
                  /\ PlanBut(plan', plan, {"applied"})
                  /\ plan'.applied = Append(plan.applied, id)
               \/ /\ pc' = "ReverseOperations" /\ UNCHANGED plan
                  /\ \/ UNCHANGED subscription
                     \/ "Unread" \in UpdateErrors /\ EntryWritten(id)
    <2>1. PICK answer \in {"Done"} \cup UpdateErrors :
             /\ Patch(answer, Applied(id))
             /\ IF answer = "Done"
                  THEN plan' = [plan EXCEPT !.applied = Append(@, id)] /\ UNCHANGED pc
                  ELSE Goto("ReverseOperations") /\ UNCHANGED plan
      BY <1>2 DEF ApplyOperation
    <2>2. id \in payload.entries /\ id \in Known /\ id \in Subscriptions
      BY PayloadFacts DEF Operations, PlanInv, Subscriptions
    <2>3. /\ subscription[id].quantity \in Nat /\ subscription[id].codes \in SUBSET {"code"}
          /\ payload.quantity[id] \in Nat /\ payload.codes[id] \in SUBSET {"code"}
      BY <1>1, <2>2, PayloadFacts DEF PlanInv, SubscriptionsTyped, Preference
    <2>4. \/ answer = "Rejected" /\ UNCHANGED subscription
          \/ answer # "Rejected" /\ EntryWritten(id)
      <3>1. CASE id \in payload.renewing
        <4> DEFINE codes == IF payload.codes[id] = {} THEN subscription[id].codes
                            ELSE payload.codes[id]
        <4>1. codes \in SUBSET {"code"}
          BY <2>3
        <4>2. Patch(answer, Wanted(id, TRUE, payload.quantity[id], codes))
          BY <2>1, <3>1 DEF Applied
        <4> HIDE DEF codes
        <4>3. QED
          BY <1>1, <2>2, <2>3, <3>1, <4>1, <4>2, PatchUpdates DEF EntryWritten
      <3>2. CASE id \notin payload.renewing
        <4> DEFINE quantity == subscription[id].quantity
                   codes == subscription[id].codes
        <4>1. Patch(answer, Wanted(id, FALSE, quantity, codes))
          BY <2>1, <3>2 DEF Applied
        <4>2. quantity \in Nat /\ codes \in SUBSET {"code"}
          BY <2>3
        <4> HIDE DEF quantity, codes
        <4>3. \/ answer = "Rejected" /\ UNCHANGED subscription
              \/ answer # "Rejected" /\ Written(id, FALSE, quantity, codes)
          BY <1>1, <2>2, <4>1, <4>2, PatchUpdates
        <4>4. (id \in payload.renewing) = FALSE
          BY <3>2
        <4>5. Written(id, FALSE, quantity, codes) => EntryWritten(id)
          BY <3>2, <4>2, <4>4 DEF EntryWritten
        <4>6. QED
          BY <4>3, <4>5
      <3>3. QED
        BY <3>1, <3>2
    <2>5. answer = "Done" => /\ PlanBut(plan', plan, {"applied"})
                             /\ plan'.applied = Append(plan.applied, id)
      <3> DEFINE more == Append(plan.applied, id)
      <3>1. answer = "Done" => plan' = [plan EXCEPT !.applied = more]
        BY <2>1
      <3> HIDE DEF more
      <3>2. answer = "Done" => PlanBut(plan', plan, {"applied"}) /\ plan'.applied = more
        BY <1>1, <3>1 DEF PlanRecord, PlanBut, PlanFields
      <3>3. QED
        BY <3>2 DEF more
    <2>6. answer \in {"Done", "Rejected"} \/ (answer = "Unread" /\ "Unread" \in UpdateErrors)
      BY <2>1, RenewalPlanAssumption
    <2>7. QED
      BY <2>1, <2>4, <2>5, <2>6 DEF Goto
  <1>3. QED
    BY <1>2 DEF UpdateRenewalSubscriptions, ApplyOperation, Ongoing, Goto

LEMMA ReverseEffects ==
    ASSUME PlanInv, OnPath, pc = "ReverseOperations", ReverseOperations
    PROVE  /\ Ongoing /\ UNCHANGED scheduled
           /\ \/ pc' = "DisableNetNew" /\ plan.applied = <<>> /\ UNCHANGED <<subscription, plan>>
              \/ LET last == plan.applied[Len(plan.applied)]
                     seen == plan.snapshot[last]
                 IN  /\ plan.applied # <<>> /\ UNCHANGED pc
                     /\ PlanBut(plan', plan, {"applied"})
                     /\ plan'.applied = SubSeq(plan.applied, 1, Len(plan.applied) - 1)
                     /\ \/ ReversalErrors # {} /\ UNCHANGED subscription
                        \/ Written(last, seen.enabled, seen.quantity, seen.codes)
  <1>1. PlanRecord(plan) /\ SubscriptionsTyped
    BY DEF PlanInv, PlanTyped
  <1>2. CASE plan.applied # <<>>
    <2> DEFINE last == plan.applied[Len(plan.applied)]
               seen == plan.snapshot[last]
               less == SubSeq(plan.applied, 1, Len(plan.applied) - 1)
    <2>1. plan' = [plan EXCEPT !.applied = less] /\ UNCHANGED pc
      BY <1>2 DEF ReverseOperations
    <2>2. PICK answer \in {"Done"} \cup ReversalErrors :
             Patch(answer, Wanted(last, seen.enabled, seen.quantity, seen.codes))
      BY <1>2 DEF ReverseOperations
    <2>3. last \in payload.entries
      BY <1>2 DEF PlanInv, PlanTyped
    <2>4. last \in Subscriptions /\ seen \in Preference
      BY <2>3, PayloadFacts DEF PlanInv, PlanTyped, OnPath, AnniversarySteps, Subscriptions
    <2> HIDE DEF last, seen, less
    <2>5. PlanBut(plan', plan, {"applied"}) /\ plan'.applied = less
      BY <1>1, <2>1 DEF PlanRecord, PlanBut, PlanFields
    <2>6. \/ answer = "Rejected" /\ UNCHANGED subscription
          \/ Written(last, seen.enabled, seen.quantity, seen.codes)
      BY <1>1, <2>2, <2>4, PatchUpdates DEF Preference
    <2>7. QED
      BY <1>2, <2>1, <2>2, <2>5, <2>6 DEF ReverseOperations, Ongoing, last, seen, less
  <1>3. CASE plan.applied = <<>>
    BY <1>3 DEF ReverseOperations, Ongoing, Goto
  <1>4. QED
    BY <1>2, <1>3

-----------------------------------------------------------------------------
(* The anniversary keeps the types.                                         *)

LEMMA PlanTypedBut ==
    ASSUME PlanInv, UNCHANGED payload,
           PlanBut(plan', plan, {"netNew", "changed", "applied"}),
           plan'.netNew \subseteq payload.netNew, plan'.changed \subseteq plan'.netNew,
           plan'.applied \in Seq(payload.entries)
    PROVE  PlanTyped' /\ plan'.snapshot = plan.snapshot
  <1>1. plan'.snapshot = plan.snapshot /\ PlanRecord(plan')
    BY DEF PlanBut, PlanFields
  <1>2. QED
    BY <1>1 DEF PlanInv, PlanTyped

\* A step inside the pipeline that keeps the snapshot.
LEMMA StepTyped ==
    ASSUME PlanInv, UNCHANGED payload, SubscriptionsTyped', scheduled' \in [Products -> Nat],
           PlanTyped', plan'.snapshot = plan.snapshot,
           pc \in AnniversarySteps, pc' \in AnniversarySteps,
           UNCHANGED nowVars, UNCHANGED published
    PROVE  PlanInv'
  <1>1. OnPath'
    BY DEF PlanInv, OnPath, AnniversarySteps, NowSteps
  <1>2. QED
    BY <1>1 DEF PlanInv, RenewalNowTypeOK, nowVars

LEMMA WrittenTyped ==
    ASSUME NEW id, NEW enabled, NEW quantity, NEW codes, Written(id, enabled, quantity, codes)
    PROVE  SubscriptionsTyped'
  BY DEF Written, UpdatedAt, SubscriptionsTyped

LEMMA CreateTyped ==
    ASSUME PlanInv, CreateNetNewSubscriptions("UpdateRenewalSubscriptions"),
           UNCHANGED nowVars, UNCHANGED published
    PROVE  PlanInv'
  <1>1. Ongoing /\ pc = "CreateNetNewSubscriptions"
    BY CreateEffects DEF CreateNetNewSubscriptions
  <1>2. payload.netNew \subseteq Products
    BY PayloadFacts DEF PlanInv
  <1>3. ASSUME NEW item \in payload.netNew \ plan.netNew, ItemReused(item) \/ ItemScheduled(item)
        PROVE  PlanInv'
    <2>1. PlanBut(plan', plan, {"netNew", "changed", "applied"})
      BY <1>3 DEF ItemReused, ItemScheduled, PlanBut, PlanFields
    <2>2. plan'.netNew = plan.netNew \cup {item} /\ plan'.changed \subseteq plan.changed \cup {item}
      BY <1>3 DEF ItemReused, ItemScheduled, PlanBut, PlanFields
    <2>3. plan'.applied = plan.applied
      BY <1>3 DEF ItemReused, ItemScheduled, PlanBut, PlanFields
    <2>4. PlanTyped' /\ plan'.snapshot = plan.snapshot
      BY <1>1, <2>1, <2>2, <2>3, PlanTypedBut DEF PlanInv, PlanTyped, Ongoing
    <2>5. SubscriptionsTyped'
      BY <1>3, WrittenTyped DEF ItemReused, ItemScheduled, PlanInv, SubscriptionsTyped
    <2>6. scheduled' \in [Products -> Nat]
      <3>1. scheduled \in [Products -> Nat] /\ item \in Products
        BY <1>2 DEF PlanInv
      <3>2. scheduled' \in {scheduled, [scheduled EXCEPT ![item] = @ + 1]}
        BY <1>3 DEF ItemReused, ItemScheduled
      <3>3. QED
        BY <3>1, <3>2
    <2>7. pc' = pc
      BY <1>3 DEF ItemReused, ItemScheduled
    <2>8. QED
      BY <1>1, <2>4, <2>5, <2>6, <2>7, StepTyped DEF Ongoing, AnniversarySteps
  <1>4. ASSUME pc' \in {"UpdateRenewalSubscriptions", "DisableNetNew"},
               UNCHANGED <<scheduled, plan>>, SubscriptionsTyped'
        PROVE  PlanInv'
    <2>1. PlanTyped'
      BY <1>1, <1>4 DEF PlanInv, PlanTyped, Ongoing
    <2>2. QED
      BY <1>1, <1>4, <2>1, StepTyped DEF PlanInv, Ongoing, AnniversarySteps
  <1>5. ASSUME NEW item \in payload.netNew \ plan.netNew, ItemRefused(item)
        PROVE  PlanInv'
    <2>1. SubscriptionsTyped'
      BY <1>5, WrittenTyped DEF ItemRefused, PlanInv, SubscriptionsTyped
    <2>2. QED
      BY <1>4, <1>5, <2>1 DEF ItemRefused
  <1>6. QED
    BY <1>3, <1>4, <1>5, CreateEffects DEF PlanInv, SubscriptionsTyped

LEMMA DisableTyped ==
    ASSUME PlanInv, DisableNetNew, UNCHANGED nowVars, UNCHANGED published
    PROVE  PlanInv'
  <1>1. CASE Failing
    BY <1>1, Forgotten DEF Failing, Idle, AnniversarySteps, NowSteps
  <1>2. ASSUME NEW item \in plan.changed, Ongoing, UNCHANGED <<pc, scheduled>>,
               PlanBut(plan', plan, {"changed"}), plan'.changed = plan.changed \ {item},
               SubscriptionsTyped'
        PROVE  PlanInv'
    <2>1. /\ PlanBut(plan', plan, {"netNew", "changed", "applied"})
          /\ plan'.netNew = plan.netNew /\ plan'.applied = plan.applied
      BY <1>2 DEF PlanBut, PlanFields
    <2>2. PlanTyped' /\ plan'.snapshot = plan.snapshot
      BY <1>2, <2>1, PlanTypedBut DEF PlanInv, PlanTyped, Ongoing
    <2>3. pc = "DisableNetNew"
      BY DEF DisableNetNew
    <2>4. QED
      BY <1>2, <2>2, <2>3, StepTyped DEF PlanInv, Ongoing, AnniversarySteps
  <1>3. QED
    BY <1>1, <1>2, DisableEffects, WrittenTyped DEF PlanInv, SubscriptionsTyped

LEMMA UpdateTyped ==
    ASSUME PlanInv, UpdateRenewalSubscriptions("CreateNetNewMptSubscriptions"),
           UNCHANGED nowVars, UNCHANGED published
    PROVE  PlanInv'
  <1>1. Ongoing /\ UNCHANGED scheduled /\ pc = "UpdateRenewalSubscriptions"
    BY UpdateEffects DEF UpdateRenewalSubscriptions
  <1>2. ASSUME pc' \in AnniversarySteps, UNCHANGED plan, SubscriptionsTyped'
        PROVE  PlanInv'
    <2>1. PlanTyped'
      BY <1>1, <1>2 DEF PlanInv, PlanTyped, Ongoing
    <2>2. QED
      BY <1>1, <1>2, <2>1, StepTyped DEF PlanInv, Ongoing, AnniversarySteps
  <1>3. ASSUME NEW id \in Operations, UNCHANGED pc, SubscriptionsTyped',
               PlanBut(plan', plan, {"applied"}), plan'.applied = Append(plan.applied, id)
        PROVE  PlanInv'
    <2>1. /\ PlanBut(plan', plan, {"netNew", "changed", "applied"})
          /\ plan'.netNew = plan.netNew /\ plan'.changed = plan.changed
      BY <1>3 DEF PlanBut, PlanFields
    <2>2. plan'.applied \in Seq(payload.entries)
      <3>1. id \in payload.entries /\ plan.applied \in Seq(payload.entries)
        BY DEF Operations, PlanInv, PlanTyped
      <3> DEFINE entries == payload.entries
      <3> HIDE DEF entries
      <3>2. Append(plan.applied, id) \in Seq(entries)
        BY <3>1, AppendProperties DEF entries
      <3>3. QED
        BY <1>3, <3>2 DEF entries
    <2>3. PlanTyped' /\ plan'.snapshot = plan.snapshot
      BY <1>1, <2>1, <2>2, PlanTypedBut DEF PlanInv, PlanTyped, Ongoing
    <2>4. QED
      BY <1>1, <1>3, <2>3, StepTyped DEF PlanInv, Ongoing, AnniversarySteps
  <1>4. ASSUME NEW id, EntryWritten(id)
        PROVE  SubscriptionsTyped'
    BY <1>4, WrittenTyped DEF EntryWritten
  <1>5. UNCHANGED subscription => SubscriptionsTyped'
    BY DEF PlanInv, SubscriptionsTyped
  <1>6. QED
    BY <1>2, <1>3, <1>4, <1>5, UpdateEffects DEF AnniversarySteps

\* A sequence without its last element.
LEMMA AllButLast ==
    ASSUME NEW S, NEW s \in Seq(S), s # <<>>
    PROVE  /\ Len(s) \in Nat \ {0} /\ s[Len(s)] \in S
           /\ SubSeq(s, 1, Len(s) - 1) \in Seq(S)
           /\ Len(SubSeq(s, 1, Len(s) - 1)) = Len(s) - 1
           /\ \A i \in 1 .. Len(s) - 1 : SubSeq(s, 1, Len(s) - 1)[i] = s[i]
  <1> DEFINE n == Len(s) - 1
  <1>1. Len(s) \in Nat \ {0}
    BY EmptySeq
  <1>2. n \in Nat /\ \A i \in 1 .. n : s[i] \in S
    BY <1>1, ElementOfSeq
  <1>3. s[Len(s)] \in S
    BY <1>1, ElementOfSeq
  <1>4. /\ SubSeq(s, 1, n) \in Seq(S)
        /\ Len(SubSeq(s, 1, n)) = IF 1 <= n THEN n - 1 + 1 ELSE 0
        /\ \A i \in 1 .. n - 1 + 1 : SubSeq(s, 1, n)[i] = s[1 + i - 1]
    <2> HIDE DEF n
    <2>1. QED
      BY <1>2, SubSeqProperties
  <1>5. Len(SubSeq(s, 1, n)) = n
    <2> HIDE DEF n
    <2>1. QED
      BY <1>2, <1>4
  <1>6. ASSUME NEW i \in 1 .. n
        PROVE  SubSeq(s, 1, n)[i] = s[i]
    <2> HIDE DEF n
    <2>1. i \in 1 .. n - 1 + 1 /\ 1 + i - 1 = i
      BY <1>2
    <2>2. SubSeq(s, 1, n)[i] = s[1 + i - 1]
      BY <1>4, <2>1
    <2>3. QED
      BY <2>1, <2>2
  <1>7. QED
    BY <1>1, <1>3, <1>4, <1>5, <1>6

LEMMA ReverseTyped ==
    ASSUME PlanInv, ReverseOperations, UNCHANGED nowVars, UNCHANGED published
    PROVE  PlanInv'
  <1>1. pc = "ReverseOperations" /\ OnPath
    BY DEF ReverseOperations, PlanInv
  <1>2. CASE pc' = "DisableNetNew" /\ UNCHANGED <<subscription, plan>>
    <2>1. PlanTyped' /\ SubscriptionsTyped'
      BY <1>1, <1>2, ReverseEffects DEF PlanInv, PlanTyped, SubscriptionsTyped, Ongoing
    <2>2. QED
      BY <1>1, <1>2, <2>1, ReverseEffects, StepTyped DEF PlanInv, Ongoing, AnniversarySteps
  <1>3. CASE ~(pc' = "DisableNetNew" /\ UNCHANGED <<subscription, plan>>)
    <2> DEFINE last == plan.applied[Len(plan.applied)]
               seen == plan.snapshot[last]
               less == SubSeq(plan.applied, 1, Len(plan.applied) - 1)
    <2>1. /\ Ongoing /\ UNCHANGED scheduled /\ plan.applied # <<>> /\ UNCHANGED pc
          /\ PlanBut(plan', plan, {"applied"}) /\ plan'.applied = less
          /\ UNCHANGED subscription \/ Written(last, seen.enabled, seen.quantity, seen.codes)
      BY <1>1, <1>3, ReverseEffects
    <2>2. less \in Seq(payload.entries)
      <3>1. plan.applied \in Seq(payload.entries)
        BY DEF PlanInv, PlanTyped
      <3>2. QED
        BY <2>1, <3>1, AllButLast
    <2>3. SubscriptionsTyped'
      <3> HIDE DEF last, seen
      <3>1. QED
        BY <2>1, WrittenTyped DEF PlanInv, SubscriptionsTyped
    <2> HIDE DEF last, seen, less
    <2>4. /\ PlanBut(plan', plan, {"netNew", "changed", "applied"})
          /\ plan'.netNew = plan.netNew /\ plan'.changed = plan.changed
      BY <2>1 DEF PlanBut, PlanFields
    <2>5. PlanTyped' /\ plan'.snapshot = plan.snapshot
      BY <2>1, <2>2, <2>4, PlanTypedBut DEF PlanInv, PlanTyped, Ongoing
    <2>6. QED
      BY <1>1, <2>1, <2>3, <2>5, StepTyped DEF PlanInv, Ongoing, AnniversarySteps
  <1>4. QED
    BY <1>2, <1>3

LEMMA PublishTyped ==
    ASSUME PlanInv, CreateNetNewMptSubscriptions("CompleteOrder"), UNCHANGED nowVars
    PROVE  PlanInv'
  <1>1. /\ pc = "CreateNetNewMptSubscriptions" /\ UNCHANGED planVars
        /\ pc' \in {pc, "CompleteOrder"}
    BY DEF CreateNetNewMptSubscriptions, Goto
  <1>2. published' \subseteq Products
    <2>1. plan.netNew \subseteq Products
      BY PayloadFacts DEF PlanInv, PlanTyped
    <2>2. QED
      BY <2>1 DEF CreateNetNewMptSubscriptions, ToPublish, PlanInv
  <1>3. PlanTyped'
    BY <1>1 DEF PlanInv, PlanTyped, planVars
  <1>4. OnPath'
    BY <1>1 DEF PlanInv, OnPath, planVars, AnniversarySteps, NowSteps
  <1>5. QED
    BY <1>1, <1>2, <1>3, <1>4 DEF PlanInv, planVars, SubscriptionsTyped, RenewalNowTypeOK, nowVars

-----------------------------------------------------------------------------
(* What the steps of an early renewal do.                                   *)

\* The pass is over and has forgotten the plan; the order may have been failed.
Ending ==
    /\ pc' = Idle /\ plan' = NoPlan
    /\ Wait \/ Decide("Failed")
    /\ UNCHANGED <<payload, scheduled>>

\* The pass goes on with other fields of the plan.
Remembering(fields) == Ongoing /\ UNCHANGED scheduled /\ PlanBut(plan', plan, fields)

NowPlanTyped == PlanRecord(plan) /\ SubscriptionsTyped

LEMMA FailEnds == ASSUME FailRenewal \/ WaitRenewal PROVE Ending /\ UNCHANGED subscription
  BY DEF FailRenewal, WaitRenewal, StopPlan, switch_order_to_failed, Decide, Wait, EndPass, Ending

LEMMA PreviewEffects ==
    ASSUME NowPlanTyped, PreviewRenewalNowOrder("SubmitRenewalNowOrder")
    PROVE  /\ UNCHANGED nowVars /\ UNCHANGED subscription
           /\ pc = "PreviewRenewalNowOrder"
           /\ \/ Ending
              \/ Remembering({"preview"}) /\ pc' = "SubmitRenewalNowOrder"
  <1> DEFINE preview == (ToRenew # {} /\ ExistingRenewals = <<>>)
  <1>1. CASE FailRenewal
    BY <1>1, FailEnds DEF PreviewRenewalNowOrder
  <1>2. CASE ~FailRenewal
    <2>1. /\ plan' = [plan EXCEPT !.preview = preview] /\ Ongoing /\ UNCHANGED scheduled
          /\ pc' = "SubmitRenewalNowOrder" /\ UNCHANGED nowVars /\ UNCHANGED subscription
          /\ pc = "PreviewRenewalNowOrder"
      BY <1>2 DEF PreviewRenewalNowOrder, Goto, Ongoing
    <2> HIDE DEF preview
    <2>2. PlanBut(plan', plan, {"preview"})
      BY <2>1 DEF NowPlanTyped, PlanRecord, PlanBut, PlanFields
    <2>3. QED
      BY <2>1, <2>2 DEF Remembering
  <1>3. QED
    BY <1>1, <1>2

\* The order is followed up: nothing changes but the pass.
FollowedUp(next, orderStatus) ==
    \/ Ending /\ UNCHANGED subscription
    \/ /\ orderStatus = "COMPLETE" /\ pc' = next
       /\ Ongoing /\ UNCHANGED <<subscription, scheduled, plan>>

LEMMA FollowEffects ==
    ASSUME NEW next, NEW orderStatus, FollowRenewal(next, orderStatus)
    PROVE  FollowedUp(next, orderStatus)
  BY FailEnds DEF FollowRenewal, FollowedUp, Continue, Goto, Ongoing, planVars

RenewalPlaced(answer) ==
    /\ pc = "SubmitRenewalNowOrder" /\ pc' = "RenewalOrderPlaced"
    /\ ToRenew # {} /\ renewals = <<>>
    /\ renewals' = <<[status |-> answer, entries |-> ToRenew]>>
    /\ IF answer = "COMPLETE" THEN Renew(ToRenew) ELSE UNCHANGED subscription
    /\ Remembering({"renewal"}) /\ plan'.renewal = answer

LEMMA SubmitEffects ==
    ASSUME NowPlanTyped, SubmitRenewalNowOrder("ReturnPreviousRenewalOrders")
    PROVE  /\ UNCHANGED takenBack
           /\ \/ \E answer \in {"OPEN", "COMPLETE"} : RenewalPlaced(answer)
              \/ Ending /\ UNCHANGED <<renewals, subscription>>
              \/ /\ pc' = "ReturnPreviousRenewalOrders"
                 /\ Ongoing /\ UNCHANGED <<subscription, scheduled, plan, renewals>>
                 /\ \/ pc = "SubmitRenewalNowOrder" /\ ToRenew = {}
                    \/ /\ pc = "SubmitRenewalNowOrder"
                       /\ renewals # <<>> /\ renewals[1].status = "COMPLETE"
                    \/ pc = "RenewalOrderPlaced" /\ plan.renewal = "COMPLETE"
  <1>1. CASE PlaceRenewalOrder
    <2>1. CASE FailRenewal /\ UNCHANGED renewals
      BY <1>1, <2>1, FailEnds DEF PlaceRenewalOrder
    <2>2. CASE ~(FailRenewal /\ UNCHANGED renewals)
      <3>1. PICK answer \in {"OPEN", "COMPLETE"} :
              /\ renewals' = Append(renewals, [status |-> answer, entries |-> ToRenew])
              /\ IF answer = "COMPLETE" THEN Renew(ToRenew) ELSE UNCHANGED subscription
              /\ plan' = [plan EXCEPT !.renewal = answer]
              /\ Goto("RenewalOrderPlaced")
              /\ UNCHANGED <<status, dueDate, vendorId, today, ctx, payload, scheduled>>
        BY <1>1, <2>2 DEF PlaceRenewalOrder
      <3>2. /\ pc = "SubmitRenewalNowOrder" /\ ToRenew # {} /\ renewals = <<>>
            /\ UNCHANGED takenBack
        BY <1>1 DEF PlaceRenewalOrder, ExistingRenewals
      <3>3. renewals' = <<[status |-> answer, entries |-> ToRenew]>>
        BY <3>1, <3>2
      <3>4. PlanBut(plan', plan, {"renewal"}) /\ plan'.renewal = answer
        BY <3>1 DEF NowPlanTyped, PlanRecord, PlanBut, PlanFields
      <3>5. RenewalPlaced(answer)
        BY <3>1, <3>2, <3>3, <3>4 DEF RenewalPlaced, Remembering, Ongoing, Goto
      <3>6. QED
        BY <3>2, <3>5
    <2>3. QED
      BY <2>1, <2>2
  <1>2. CASE FindRenewalOrder("ReturnPreviousRenewalOrders")
    <2>1. FollowedUp("ReturnPreviousRenewalOrders", renewals[1].status)
      BY <1>2, FollowEffects DEF FindRenewalOrder, ExistingRenewals
    <2>2. /\ pc = "SubmitRenewalNowOrder" /\ renewals # <<>>
          /\ UNCHANGED takenBack /\ UNCHANGED renewals
      BY <1>2 DEF FindRenewalOrder, ExistingRenewals, nowVars
    <2>3. QED
      BY <2>1, <2>2 DEF FollowedUp
  <1>3. CASE /\ pc = "SubmitRenewalNowOrder" /\ ToRenew = {}
             /\ Continue("ReturnPreviousRenewalOrders") /\ UNCHANGED <<planVars, nowVars>>
    BY <1>3 DEF Continue, Goto, Ongoing, planVars, nowVars
  <1>4. CASE /\ pc = "RenewalOrderPlaced"
             /\ FollowRenewal("ReturnPreviousRenewalOrders", plan.renewal) /\ UNCHANGED nowVars
    <2>1. FollowedUp("ReturnPreviousRenewalOrders", plan.renewal)
      BY <1>4, FollowEffects
    <2>2. QED
      BY <1>4, <2>1 DEF FollowedUp, nowVars
  <1>5. QED
    BY <1>1, <1>2, <1>3, <1>4 DEF SubmitRenewalNowOrder

HandledBy(id, answer) ==
    /\ Remembering({"done", "pending"})
    /\ plan'.done = plan.done \cup {id}
    /\ plan'.pending = IF answer = "OPEN" THEN plan.pending \cup {id} ELSE plan.pending
    /\ UNCHANGED <<pc, renewals>>

LEMMA HandledEffects ==
    ASSUME NowPlanTyped, NEW id, NEW answer, Handled(id, answer),
           UNCHANGED <<passVars, payload, scheduled, renewals>>
    PROVE  HandledBy(id, answer)
  <1> DEFINE done == plan.done \cup {id}
             pending == IF answer = "OPEN" THEN plan.pending \cup {id} ELSE plan.pending
  <1>1. plan' = [plan EXCEPT !.done = done, !.pending = pending]
    BY DEF Handled
  <1>2. PlanBut(plan', plan, {"done", "pending"}) /\ plan'.done = done /\ plan'.pending = pending
    <2> HIDE DEF done, pending
    <2>1. QED
      BY <1>1 DEF NowPlanTyped, PlanRecord, PlanBut, PlanFields
  <1>3. QED
    BY <1>2 DEF HandledBy, Remembering, Ongoing, passVars

ReturnReused(id) ==
    /\ \E other \in OwnReturns(id) : HandledBy(id, plan.found[other])
    /\ UNCHANGED <<subscription, takenBack>>

ReturnPlaced(id, answer) ==
    /\ OwnReturns(id) = {}
    /\ takenBack' = [takenBack EXCEPT ![id] = answer]
    /\ HandledBy(id, answer)
    /\ IF answer = "COMPLETE" THEN Unrenew(id) ELSE UNCHANGED subscription

ReturnsListed ==
    /\ pc = "ReturnPreviousRenewalOrders" /\ UNCHANGED <<subscription, nowVars>>
    /\ \/ /\ LapsingRenewed = {} /\ pc' = "NormalizeRenewedSubscriptions"
          /\ Remembering({}) /\ UNCHANGED plan
       \/ /\ pc' = "ReturnEach" /\ Remembering({"found"})
          /\ plan'.found = [id \in {other \in Known : takenBack[other] # "none"} |-> takenBack[id]]

ReturnsDone ==
    /\ pc = "ReturnEach" /\ pc' = "NormalizeRenewedSubscriptions"
    /\ LapsingRenewed = plan.done /\ plan.pending = {}
    /\ Remembering({"done"}) /\ plan'.done = {}
    /\ UNCHANGED <<subscription, nowVars>>

LEMMA ReturnEffects ==
    ASSUME NowPlanTyped, ReturnPreviousRenewalOrders("NormalizeRenewedSubscriptions")
    PROVE  \/ ReturnsListed
           \/ /\ pc = "ReturnEach"
              /\ \E id \in LapsingRenewed \ plan.done :
                    \/ ReturnReused(id)
                    \/ \E answer \in {"OPEN", "COMPLETE"} : ReturnPlaced(id, answer)
           \/ ReturnsDone
           \/ Ending /\ UNCHANGED <<subscription, nowVars>>
  <1>1. CASE ListReturns("NormalizeRenewedSubscriptions")
    <2>1. CASE LapsingRenewed = {}
      <3>1. PlanBut(plan', plan, {})
        BY <1>1, <2>1 DEF ListReturns, NowPlanTyped, PlanBut
      <3>2. QED
        BY <1>1, <2>1, <3>1 DEF ListReturns, ReturnsListed, Remembering, Ongoing, Goto
    <2>2. CASE LapsingRenewed # {}
      <3> DEFINE found == [id \in {other \in Known : takenBack[other] # "none"} |-> takenBack[id]]
      <3>1. plan' = [plan EXCEPT !.found = found] /\ pc' = "ReturnEach"
        BY <1>1, <2>2 DEF ListReturns, Goto
      <3>2. PlanBut(plan', plan, {"found"}) /\ plan'.found = found
        <4> HIDE DEF found
        <4>1. QED
          BY <3>1 DEF NowPlanTyped, PlanRecord, PlanBut, PlanFields
      <3>3. QED
        BY <1>1, <3>1, <3>2 DEF ListReturns, ReturnsListed, Remembering, Ongoing
    <2>3. QED
      BY <2>1, <2>2
  <1>2. CASE pc = "ReturnEach"
    <2>1. CASE FailRenewal \/ WaitRenewal
      BY <1>2, <2>1, FailEnds
         DEF ReturnPreviousRenewalOrders, ListReturns, ReuseReturn, PlaceReturn, AwaitReturns,
             nowVars, FailRenewal, WaitRenewal, StopPlan, passVars, switch_order_to_failed,
             Wait, Decide, EndPass, Idle
    <2>2. CASE ~FailRenewal /\ ~WaitRenewal
      <3>1. ASSUME NEW id \in LapsingRenewed \ plan.done, ReuseReturn(id), UNCHANGED renewals
            PROVE  ReturnReused(id)
        BY <3>1, HandledEffects DEF ReuseReturn, ReturnReused
      <3>2. ASSUME NEW id \in LapsingRenewed \ plan.done, PlaceReturn(id), UNCHANGED renewals
            PROVE  \E answer \in {"OPEN", "COMPLETE"} : ReturnPlaced(id, answer)
        BY <2>2, <3>2, HandledEffects DEF PlaceReturn, ReturnPlaced
      <3>3. ASSUME AwaitReturns("NormalizeRenewedSubscriptions"), UNCHANGED nowVars
            PROVE  ReturnsDone
        <4>1. /\ LapsingRenewed = plan.done /\ plan.pending = {}
              /\ pc' = "NormalizeRenewedSubscriptions" /\ plan' = [plan EXCEPT !.done = {}]
              /\ Ongoing /\ UNCHANGED <<subscription, scheduled>>
          BY <2>2, <3>3 DEF AwaitReturns, Goto, Ongoing
        <4>2. PlanBut(plan', plan, {"done"}) /\ plan'.done = {}
          BY <4>1 DEF NowPlanTyped, PlanRecord, PlanBut, PlanFields
        <4>3. QED
          BY <1>2, <3>3, <4>1, <4>2 DEF ReturnsDone, Remembering
      <3>4. QED
        BY <1>2, <3>1, <3>2, <3>3 DEF ReturnPreviousRenewalOrders, ListReturns, nowVars
    <2>3. QED
      BY <2>1, <2>2
  <1>3. QED
    BY <1>1, <1>2 DEF ReturnPreviousRenewalOrders

\* One update of UpdateEach: what it writes of an id.
UpdateDone(ids, next) ==
    /\ ids \subseteq plan.done /\ pc' = next
    /\ Remembering({"done"}) /\ plan'.done = {} /\ UNCHANGED subscription

OneUpdated(id) == UNCHANGED pc /\ Remembering({"done"}) /\ plan'.done = plan.done \cup {id}

LEMMA EachEffects ==
    ASSUME NowPlanTyped, NEW wanted, NEW next, UpdateEach(wanted, next)
    PROVE  \/ UpdateDone(DOMAIN wanted, next)
           \/ \E id \in DOMAIN wanted \ plan.done :
                 \/ Patch("Done", wanted[id]) /\ OneUpdated(id)
                 \/ \E answer \in UpdateErrors : Patch(answer, wanted[id]) /\ Ending
  <1>1. CASE /\ DOMAIN wanted \subseteq plan.done
             /\ Goto(next) /\ plan' = [plan EXCEPT !.done = {}]
             /\ UNCHANGED <<status, dueDate, vendorId, today, ctx, payload, subscription, scheduled>>
    <2>1. PlanBut(plan', plan, {"done"}) /\ plan'.done = {}
      BY <1>1 DEF NowPlanTyped, PlanRecord, PlanBut, PlanFields
    <2>2. QED
      BY <1>1, <2>1 DEF UpdateDone, Remembering, Ongoing, Goto
  <1>2. ASSUME NEW id \in DOMAIN wanted \ plan.done, NEW answer \in {"Done"} \cup UpdateErrors,
               /\ Patch(answer, wanted[id])
               /\ IF answer = "Done"
                    THEN plan' = [plan EXCEPT !.done = @ \cup {id}] /\ UNCHANGED passVars
                    ELSE plan' = NoPlan /\ switch_order_to_failed
               /\ UNCHANGED <<payload, scheduled>>
        PROVE  \/ Patch("Done", wanted[id]) /\ OneUpdated(id)
               \/ \E error \in UpdateErrors : Patch(error, wanted[id]) /\ Ending
    <2>1. CASE answer = "Done"
      <3> DEFINE done == plan.done \cup {id}
      <3>1. plan' = [plan EXCEPT !.done = done]
        BY <1>2, <2>1
      <3>2. PlanBut(plan', plan, {"done"}) /\ plan'.done = done
        <4> HIDE DEF done
        <4>1. QED
          BY <3>1 DEF NowPlanTyped, PlanRecord, PlanBut, PlanFields
      <3>3. QED
        BY <1>2, <2>1, <3>2 DEF OneUpdated, Remembering, Ongoing, passVars
    <2>2. CASE answer # "Done"
      <3>1. Ending
        BY <1>2, <2>2 DEF Ending, switch_order_to_failed, Decide, EndPass
      <3>2. QED
        BY <1>2, <2>2, <3>1
    <2>3. QED
      BY <2>1, <2>2
  <1>3. QED
    BY <1>1, <1>2 DEF UpdateEach

NormalisedAs(id) ==
    IF subscription[id].renewed = 0 THEN UNCHANGED subscription
    ELSE \E codes \in SUBSET {"code"} : Written(id, TRUE, subscription[id].renewed, codes)

LEMMA NormalizeEffects ==
    ASSUME PlanInv, NormalizeRenewedSubscriptions("DisableLapsingSubscriptions")
    PROVE  /\ pc = "NormalizeRenewedSubscriptions" /\ UNCHANGED nowVars
           /\ \/ UpdateDone(ToRenew, "DisableLapsingSubscriptions")
              \/ \E id \in ToRenew \ plan.done : NormalisedAs(id) /\ OneUpdated(id)
              \/ Ending /\ \/ UNCHANGED subscription
                           \/ \E id \in ToRenew : NormalisedAs(id)
  <1> DEFINE wanted == [id \in ToRenew |-> Normalised(id)]
  <1>1. /\ pc = "NormalizeRenewedSubscriptions" /\ UNCHANGED nowVars
        /\ UpdateEach(wanted, "DisableLapsingSubscriptions")
    BY DEF NormalizeRenewedSubscriptions
  <1>2. NowPlanTyped /\ SubscriptionsTyped
    BY DEF NowPlanTyped, PlanInv, PlanTyped
  <1>3. ASSUME NEW id \in ToRenew, NEW answer, Patch(answer, wanted[id])
        PROVE  /\ UNCHANGED subscription \/ NormalisedAs(id)
               /\ answer = "Done" => NormalisedAs(id)
    <2>1. id \in Subscriptions
      BY PayloadFacts DEF PlanInv, ToRenew, Subscriptions
    <2>2. subscription[id].renewed \in Nat /\ subscription[id].codes \in SUBSET {"code"}
      BY <1>2, <2>1 DEF SubscriptionsTyped, Preference
    <2>3. CASE subscription[id].renewed = 0
      BY <1>3, <2>3 DEF Patch, Normalised, NormalisedAs
    <2>4. CASE subscription[id].renewed # 0
      <3>1. Patch(answer, Wanted(id, TRUE, subscription[id].renewed, subscription[id].codes))
        BY <1>3, <2>4 DEF Normalised
      <3>2. QED
        BY <1>2, <2>1, <2>2, <2>4, <3>1, PatchUpdates DEF NormalisedAs
    <2>5. QED
      BY <2>3, <2>4
  <1>4. DOMAIN wanted = ToRenew
    OBVIOUS
  <1> HIDE DEF wanted
  <1>5. \/ UpdateDone(ToRenew, "DisableLapsingSubscriptions")
        \/ \E id \in ToRenew \ plan.done :
              \/ Patch("Done", wanted[id]) /\ OneUpdated(id)
              \/ \E answer \in UpdateErrors : Patch(answer, wanted[id]) /\ Ending
    BY <1>1, <1>2, <1>4, EachEffects
  <1>6. QED
    BY <1>1, <1>3, <1>5

LapsingEnabled == {id \in Lapsing : plan.snapshot[id].enabled}

DisabledAs(id) ==
    \E codes \in SUBSET {"code"} : Written(id, FALSE, subscription[id].quantity, codes)

LEMMA LapsingEffects ==
    ASSUME PlanInv, DisableLapsingSubscriptions("CompleteOrder")
    PROVE  /\ pc = "DisableLapsingSubscriptions" /\ UNCHANGED nowVars
           /\ \/ UpdateDone(LapsingEnabled, "CompleteOrder")
              \/ \E id \in LapsingEnabled \ plan.done : DisabledAs(id) /\ OneUpdated(id)
              \/ Ending /\ \/ UNCHANGED subscription
                           \/ \E id \in LapsingEnabled : DisabledAs(id)
  <1> DEFINE wanted == [id \in LapsingEnabled |-> Disabled(id)]
  <1>1. /\ pc = "DisableLapsingSubscriptions" /\ UNCHANGED nowVars
        /\ UpdateEach(wanted, "CompleteOrder")
    BY DEF DisableLapsingSubscriptions, LapsingEnabled
  <1>2. NowPlanTyped /\ SubscriptionsTyped
    BY DEF NowPlanTyped, PlanInv, PlanTyped
  <1>3. ASSUME NEW id \in LapsingEnabled, NEW answer, Patch(answer, wanted[id])
        PROVE  /\ UNCHANGED subscription \/ DisabledAs(id)
               /\ answer = "Done" => DisabledAs(id)
    <2>1. id \in Subscriptions
      BY PayloadFacts DEF PlanInv, LapsingEnabled, Subscriptions
    <2>2. subscription[id].quantity \in Nat /\ subscription[id].codes \in SUBSET {"code"}
      BY <1>2, <2>1 DEF SubscriptionsTyped, Preference
    <2>3. Patch(answer, Wanted(id, FALSE, subscription[id].quantity, subscription[id].codes))
      BY <1>3 DEF Disabled
    <2>4. QED
      BY <1>2, <2>1, <2>2, <2>3, PatchUpdates DEF DisabledAs
  <1>4. DOMAIN wanted = LapsingEnabled
    OBVIOUS
  <1> HIDE DEF wanted
  <1>5. \/ UpdateDone(LapsingEnabled, "CompleteOrder")
        \/ \E id \in LapsingEnabled \ plan.done :
              \/ Patch("Done", wanted[id]) /\ OneUpdated(id)
              \/ \E answer \in UpdateErrors : Patch(answer, wanted[id]) /\ Ending
    BY <1>1, <1>2, <1>4, EachEffects
  <1>6. QED
    BY <1>1, <1>3, <1>5

-----------------------------------------------------------------------------
(* Early renewals keep the types.                                           *)

NowFields == {"preview", "renewal", "found", "done", "pending"}

LEMMA RememberTyped ==
    ASSUME PlanInv, NEW fields \in SUBSET NowFields, Remembering(fields), UNCHANGED published,
           pc \in NowSteps, pc' \in NowSteps \cup {"CompleteOrder"},
           SubscriptionsTyped', RenewalNowTypeOK'
    PROVE  PlanInv'
  <1>1. PlanRecord(plan') /\ UNCHANGED <<payload, scheduled>>
    BY DEF Remembering, PlanBut, Ongoing
  <1>2. /\ plan'.netNew = plan.netNew /\ plan'.changed = plan.changed
        /\ plan'.applied = plan.applied /\ plan'.snapshot = plan.snapshot
    BY DEF Remembering, PlanBut, PlanFields, NowFields
  <1>3. PlanTyped'
    BY <1>1, <1>2 DEF PlanInv, PlanTyped
  <1>4. OnPath'
    BY <1>1, <1>2 DEF PlanInv, OnPath, AnniversarySteps, NowSteps
  <1>5. QED
    BY <1>1, <1>3, <1>4 DEF PlanInv

LEMMA EndTyped ==
    ASSUME PlanInv, Ending, UNCHANGED published, SubscriptionsTyped', RenewalNowTypeOK'
    PROVE  PlanInv'
  <1>1. PlanTyped'
    BY NoPlanTyped DEF Ending
  <1>2. OnPath'
    BY DEF Ending, OnPath, Idle, AnniversarySteps, NowSteps
  <1>3. QED
    BY <1>1, <1>2 DEF PlanInv, Ending

LEMMA RenewTyped ==
    ASSUME SubscriptionsTyped, OnlyRenewed
    PROVE  SubscriptionsTyped'
  BY DEF SubscriptionsTyped, OnlyRenewed

LEMMA PreviewTyped ==
    ASSUME PlanInv, PreviewRenewalNowOrder("SubmitRenewalNowOrder"), UNCHANGED published
    PROVE  PlanInv'
  <1>1. NowPlanTyped
    BY DEF NowPlanTyped, PlanInv, PlanTyped
  <1>2. SubscriptionsTyped' /\ RenewalNowTypeOK'
    BY <1>1, PreviewEffects DEF PlanInv, SubscriptionsTyped, RenewalNowTypeOK, nowVars
  <1>3. QED
    BY <1>1, <1>2, PreviewEffects, EndTyped, RememberTyped DEF NowFields, NowSteps

LEMMA SubmitTyped ==
    ASSUME PlanInv, SubmitRenewalNowOrder("ReturnPreviousRenewalOrders"), UNCHANGED published
    PROVE  PlanInv'
  <1>1. NowPlanTyped /\ SubscriptionsTyped /\ RenewalNowTypeOK
    BY DEF NowPlanTyped, PlanInv, PlanTyped
  <1>2. UNCHANGED takenBack
    BY <1>1, SubmitEffects
  <1>3. ASSUME NEW answer \in {"OPEN", "COMPLETE"}, RenewalPlaced(answer)
        PROVE  PlanInv'
    <2>1. ToRenew \subseteq Known
      BY PayloadFacts DEF ToRenew, PlanInv
    <2>2. [status |-> answer, entries |-> ToRenew] \in RenewalOrder
      BY <2>1 DEF RenewalOrder, RenewalStatus
    <2>3. RenewalNowTypeOK'
      BY <1>1, <1>2, <1>3, <2>2 DEF RenewalPlaced, RenewalNowTypeOK
    <2>4. SubscriptionsTyped'
      <3>1. CASE Renew(ToRenew)
        BY <1>1, <2>1, <3>1, RenewUpdates, RenewTyped
      <3>2. CASE UNCHANGED subscription
        BY <1>1, <3>2 DEF SubscriptionsTyped
      <3>3. QED
        BY <1>3, <3>1, <3>2 DEF RenewalPlaced
    <2>5. QED
      BY <1>3, <2>3, <2>4, RememberTyped DEF RenewalPlaced, NowFields, NowSteps
  <1>4. CASE Ending /\ UNCHANGED <<renewals, subscription>>
    BY <1>1, <1>2, <1>4, EndTyped DEF SubscriptionsTyped, RenewalNowTypeOK
  <1>5. ASSUME pc \in NowSteps, pc' = "ReturnPreviousRenewalOrders", Ongoing,
               UNCHANGED <<subscription, scheduled, plan, renewals>>
        PROVE  PlanInv'
    BY <1>2, <1>5, Retained DEF Ongoing, nowVars, NowSteps
  <1>6. QED
    BY <1>1, <1>3, <1>4, <1>5, SubmitEffects DEF NowSteps

LEMMA ReturnTyped ==
    ASSUME PlanInv, ReturnPreviousRenewalOrders("NormalizeRenewedSubscriptions"),
           UNCHANGED published
    PROVE  PlanInv'
  <1>1. NowPlanTyped /\ SubscriptionsTyped /\ RenewalNowTypeOK
    BY DEF NowPlanTyped, PlanInv, PlanTyped
  <1>2. ASSUME UNCHANGED <<subscription, nowVars>>
        PROVE  SubscriptionsTyped' /\ RenewalNowTypeOK'
    BY <1>1, <1>2 DEF SubscriptionsTyped, RenewalNowTypeOK, nowVars
  <1>3. CASE ReturnsListed
    BY <1>2, <1>3, RememberTyped DEF ReturnsListed, NowFields, NowSteps
  <1>4. CASE ReturnsDone
    BY <1>2, <1>4, RememberTyped DEF ReturnsDone, NowFields, NowSteps
  <1>5. CASE Ending /\ UNCHANGED <<subscription, nowVars>>
    BY <1>2, <1>5, EndTyped
  <1>6. ASSUME pc = "ReturnEach", NEW id \in LapsingRenewed, ReturnReused(id)
        PROVE  PlanInv'
    <2>1. UNCHANGED <<subscription, nowVars>> /\ UNCHANGED pc
      BY <1>6 DEF ReturnReused, HandledBy, nowVars
    <2>2. Remembering({"done", "pending"})
      BY <1>6 DEF ReturnReused, HandledBy
    <2>3. QED
      BY <1>2, <1>6, <2>1, <2>2, RememberTyped DEF NowFields, NowSteps
  <1>7. ASSUME pc = "ReturnEach", NEW id \in LapsingRenewed, NEW answer \in {"OPEN", "COMPLETE"},
               ReturnPlaced(id, answer)
        PROVE  PlanInv'
    <2>1. id \in Known
      BY PayloadFacts DEF LapsingRenewed, PlanInv
    <2>2. SubscriptionsTyped'
      <3>1. CASE Unrenew(id)
        BY <1>1, <2>1, <3>1, UnrenewUpdates, RenewTyped
      <3>2. CASE UNCHANGED subscription
        BY <1>1, <3>2 DEF SubscriptionsTyped
      <3>3. QED
        BY <1>7, <3>1, <3>2 DEF ReturnPlaced
    <2>3. RenewalNowTypeOK'
      BY <1>1, <1>7, <2>1 DEF ReturnPlaced, HandledBy, RenewalNowTypeOK
    <2>4. QED
      BY <1>7, <2>2, <2>3, RememberTyped DEF ReturnPlaced, HandledBy, NowFields, NowSteps
  <1>8. QED
    BY <1>1, <1>3, <1>4, <1>5, <1>6, <1>7, ReturnEffects

\* The updates of preferences at the end of a pass.
LEMMA EachTyped ==
    ASSUME PlanInv, UNCHANGED <<nowVars, published>>,
           pc \in NowSteps, NEW ids, NEW next \in NowSteps \cup {"CompleteOrder"},
           \/ UpdateDone(ids, next)
           \/ SubscriptionsTyped' /\ \E id : OneUpdated(id)
           \/ SubscriptionsTyped' /\ Ending
    PROVE  PlanInv'
  <1>1. RenewalNowTypeOK' /\ UNCHANGED published
    BY DEF PlanInv, RenewalNowTypeOK, nowVars
  <1>2. CASE UpdateDone(ids, next)
    <2>1. SubscriptionsTyped'
      BY <1>2 DEF UpdateDone, PlanInv, SubscriptionsTyped
    <2>2. QED
      BY <1>1, <1>2, <2>1, RememberTyped DEF UpdateDone, NowFields
  <1>3. ASSUME SubscriptionsTyped', NEW id, OneUpdated(id)
        PROVE  PlanInv'
    BY <1>1, <1>3, RememberTyped DEF OneUpdated, NowFields
  <1>4. CASE SubscriptionsTyped' /\ Ending
    BY <1>1, <1>4, EndTyped
  <1>5. QED
    BY <1>2, <1>3, <1>4

LEMMA NowTyped ==
    ASSUME PlanInv, Now, UNCHANGED published
    PROVE  PlanInv'
  <1>1. SubscriptionsTyped
    BY DEF PlanInv
  <1>2. UNCHANGED subscription => SubscriptionsTyped'
    BY <1>1 DEF SubscriptionsTyped
  <1>3. CASE NormalizeRenewedSubscriptions("DisableLapsingSubscriptions")
    <2>1. \A id : NormalisedAs(id) => SubscriptionsTyped'
      <3>1. \A id, quantity, codes : Written(id, TRUE, quantity, codes) => SubscriptionsTyped'
        BY WrittenTyped
      <3>2. QED
        BY <1>2, <3>1 DEF NormalisedAs
    <2>2. QED
      BY <1>2, <1>3, <2>1, NormalizeEffects, EachTyped DEF NowSteps
  <1>4. CASE DisableLapsingSubscriptions("CompleteOrder")
    <2>1. \A id : DisabledAs(id) => SubscriptionsTyped'
      BY WrittenTyped DEF DisabledAs
    <2>2. QED
      BY <1>2, <1>4, <2>1, LapsingEffects, EachTyped DEF NowSteps
  <1>5. QED
    BY <1>3, <1>4, PreviewTyped, SubmitTyped, ReturnTyped DEF Now

LEMMA AdobeTyped ==
    ASSUME PlanInv, Adobe, UNCHANGED published
    PROVE  PlanInv'
  <1>1. SubscriptionsTyped /\ RenewalNowTypeOK
    BY DEF PlanInv
  <1>2. UNCHANGED <<passVars, payload, scheduled, plan>>
    BY DEF Adobe, AdobeSettlesRenewal, AdobeShowsRenewed, AdobeSettlesReturn
  <1>3. SubscriptionsTyped' /\ RenewalNowTypeOK'
    <2>1. UNCHANGED subscription => SubscriptionsTyped'
      BY <1>1 DEF SubscriptionsTyped
    <2>2. CASE AdobeSettlesRenewal
      <3>1. PICK i \in DOMAIN renewals, answer \in {"COMPLETE", "FAILED"} :
              /\ renewals' = [renewals EXCEPT ![i].status = answer]
              /\ Renew(renewals[i].entries) \/ UNCHANGED subscription
        BY <2>2 DEF AdobeSettlesRenewal
      <3>2. renewals[i] \in RenewalOrder
        BY <1>1 DEF RenewalNowTypeOK
      <3>3. [renewals[i] EXCEPT !.status = answer] \in RenewalOrder
        BY <3>2 DEF RenewalOrder, RenewalStatus
      <3>4. renewals' = [renewals EXCEPT ![i] = [renewals[i] EXCEPT !.status = answer]]
        BY <3>1
      <3>5. renewals' \in Seq(RenewalOrder)
        <4> HIDE DEF RenewalOrder
        <4>1. QED
          BY <1>1, <3>3, <3>4 DEF RenewalNowTypeOK
      <3>6. renewals[i].entries \in SUBSET Known
        BY <3>2 DEF RenewalOrder
      <3>7. QED
        BY <1>1, <2>1, <2>2, <3>1, <3>5, <3>6, RenewUpdates, RenewTyped
           DEF AdobeSettlesRenewal, RenewalNowTypeOK
    <2>3. CASE AdobeSettlesReturn
      <3>1. PICK id \in Known, answer \in {"COMPLETE", "none"} :
              /\ takenBack' = [takenBack EXCEPT ![id] = answer]
              /\ Unrenew(id) \/ UNCHANGED subscription
        BY <2>3 DEF AdobeSettlesReturn
      <3>2. QED
        BY <1>1, <2>1, <2>3, <3>1, UnrenewUpdates, RenewTyped
           DEF AdobeSettlesReturn, RenewalNowTypeOK
    <2>4. CASE AdobeShowsRenewed
      <3>1. PICK i \in DOMAIN renewals, id \in ShownLate : Show({id})
        BY <2>4 DEF AdobeShowsRenewed
      <3>2. {id} \in SUBSET Known
        BY RenewalNowAssumption
      <3>3. SubscriptionsTyped'
        BY <1>1, <3>1, <3>2, ShowRenews, RenewUpdates, RenewTyped
      <3>4. QED
        BY <1>1, <2>4, <3>3 DEF AdobeShowsRenewed, RenewalNowTypeOK, nowVars
    <2>5. QED
      BY <2>2, <2>3, <2>4 DEF Adobe
  <1>4. PlanTyped' /\ OnPath'
    BY <1>2 DEF PlanInv, PlanTyped, OnPath, passVars
  <1>5. QED
    BY <1>2, <1>3, <1>4 DEF PlanInv

-----------------------------------------------------------------------------
(* Types.                                                                   *)

LEMMA AnniversaryTyped ==
    ASSUME PlanInv, Anniversary, UNCHANGED nowVars
    PROVE  PlanInv'
  BY CreateTyped, DisableTyped, UpdateTyped, ReverseTyped, PublishTyped DEF Anniversary

\* A step of the pipelines keeps the pass, or ends it.
LEMMA StepPass ==
    ASSUME PassInv, pc # Idle, Ongoing \/ Failing \/ Ending
    PROVE  PassInv'
  <1>1. CASE Ongoing
    BY <1>1, PassKept DEF Ongoing
  <1>2. CASE Failing
    BY <1>2 DEF Failing, PassInv, PassTypeOK, NoDate
  <1>3. CASE Ending
    BY <1>3, PassEnds DEF Ending
  <1>4. QED
    BY <1>1, <1>2, <1>3

LEMMA AnniversaryPass ==
    ASSUME PassInv, PlanInv, Anniversary
    PROVE  PassInv'
  <1>1. pc # Idle
    BY DEF Anniversary, CreateNetNewSubscriptions, DisableNetNew, UpdateRenewalSubscriptions,
           ReverseOperations, CreateNetNewMptSubscriptions, Idle
  <1>2. CASE ReverseOperations
    BY <1>1, <1>2, StepPass DEF ReverseOperations, Ongoing
  <1>3. CASE CreateNetNewMptSubscriptions("CompleteOrder")
    BY <1>1, <1>3, StepPass DEF CreateNetNewMptSubscriptions, Ongoing, planVars
  <1>4. QED
    BY <1>1, <1>2, <1>3, StepPass, CreateEffects, DisableEffects, UpdateEffects
       DEF Anniversary, ReverseOperations, CreateNetNewMptSubscriptions, Ongoing, planVars

LEMMA NowPass ==
    ASSUME PassInv, PlanInv, Now
    PROVE  PassInv'
  <1>1. pc # Idle
    BY DEF Now, PreviewRenewalNowOrder, SubmitRenewalNowOrder, PlaceRenewalOrder, FindRenewalOrder,
           ReturnPreviousRenewalOrders, ListReturns, NormalizeRenewedSubscriptions,
           DisableLapsingSubscriptions, Idle
  <1>2. NowPlanTyped
    BY DEF NowPlanTyped, PlanInv, PlanTyped
  <1>3. CASE PreviewRenewalNowOrder("SubmitRenewalNowOrder")
    BY <1>1, <1>2, <1>3, PreviewEffects, StepPass DEF Remembering
  <1>4. CASE SubmitRenewalNowOrder("ReturnPreviousRenewalOrders")
    BY <1>1, <1>2, <1>4, SubmitEffects, StepPass DEF RenewalPlaced, Remembering
  <1>5. CASE ReturnPreviousRenewalOrders("NormalizeRenewedSubscriptions")
    BY <1>1, <1>2, <1>5, ReturnEffects, StepPass
       DEF ReturnsListed, ReturnReused, ReturnPlaced, HandledBy, ReturnsDone, Remembering
  <1>6. CASE NormalizeRenewedSubscriptions("DisableLapsingSubscriptions")
    BY <1>1, <1>6, NormalizeEffects, StepPass DEF UpdateDone, OneUpdated, Remembering
  <1>7. CASE DisableLapsingSubscriptions("CompleteOrder")
    BY <1>1, <1>7, LapsingEffects, StepPass DEF UpdateDone, OneUpdated, Remembering
  <1>8. QED
    BY <1>3, <1>4, <1>5, <1>6, <1>7 DEF Now

LEMMA SetupPass ==
    ASSUME PassInv, SetupRenewalPlan(FirstStep)
    PROVE  PassInv'
  <1>1. pc # Idle
    BY DEF SetupRenewalPlan, Idle
  <1>2. CASE FailRenewal
    BY <1>1, <1>2, PassEnds DEF FailRenewal, switch_order_to_failed
  <1>3. CASE ~FailRenewal
    BY <1>1, <1>3, PassKept DEF SetupRenewalPlan
  <1>4. QED
    BY <1>2, <1>3

\* The types of all variables, and what a pass remembers of the plan.
Inv == PassInv /\ PlanInv

LEMMA InvInit == Init => Inv
  <1> SUFFICES ASSUME Init PROVE Inv
    OBVIOUS
  <1>1. PassInv
    BY OrderPassAssumption DEF Init, PassInit, PassInv, PassTypeOK, Idle, NoDate, DueDay, Day
  <1>2. PlanTyped
    BY NoPlanRecord, EmptySeq DEF Init, RenewalPlanInit, PlanTyped, NoPlan, NoEntry
  <1>3. OnPath
    BY DEF Init, PassInit, OnPath, Idle, AnniversarySteps, NowSteps
  <1>4. scheduled \in [Products -> Nat]
    BY DEF Init, RenewalPlanInit
  <1>5. RenewalNowTypeOK
    BY EmptySeq DEF Init, RenewalNowInit, RenewalNowTypeOK
  <1>6. QED
    BY <1>1, <1>2, <1>3, <1>4, <1>5, RenewalPlanAssumption
       DEF Inv, PlanInv, Init, RenewalPlanInit, SubscriptionsTyped, Subscriptions

LEMMA InvStep == Inv /\ [Next]_vars => Inv'
  <1> SUFFICES ASSUME PassInv, PlanInv, [Next]_vars
               PROVE  PassInv' /\ PlanInv'
    BY DEF Inv
  <1>1. CASE UNCHANGED vars
    <2>1. UNCHANGED <<passVars, planVars, published, nowVars>>
      BY <1>1 DEF vars
    <2>2. PassInv'
      BY <2>1, PassKept DEF passVars
    <2>3. PlanInv'
      BY <2>1, Retained DEF passVars, planVars
    <2>4. QED
      BY <2>2, <2>3
  <1>2. CASE OnPlan(Platform) /\ UNCHANGED <<published, nowVars>>
    BY <1>2, PlatformPass, PlatformPlan DEF OnPlan
  <1>3. CASE OnPlan(Prepare) /\ UNCHANGED <<published, nowVars>>
    BY <1>3, PreparePass, PreparePlan DEF OnPlan
  <1>4. CASE SetupRenewalPlan(FirstStep) /\ UNCHANGED <<published, nowVars>>
    BY <1>4, SetupPass, SetupPlan
  <1>5. CASE Anniversary /\ UNCHANGED nowVars
    BY <1>5, AnniversaryPass, AnniversaryTyped
  <1>6. CASE Now /\ UNCHANGED published
    BY <1>6, NowPass, NowTyped
  <1>7. CASE Adobe /\ UNCHANGED published
    <2>1. UNCHANGED passVars
      BY <1>7 DEF Adobe, AdobeSettlesRenewal, AdobeShowsRenewed, AdobeSettlesReturn
    <2>2. PassInv'
      BY <2>1, PassKept DEF passVars
    <2>3. QED
      BY <1>7, <2>2, AdobeTyped
  <1>8. QED
    BY <1>1, <1>2, <1>3, <1>4, <1>5, <1>6, <1>7 DEF Next

LEMMA InvAlways == Spec => []Inv
  BY InvInit, InvStep, PTL DEF Spec

\* Whatever the plan, the customer and the failures, every variable of a
\* renewal keeps its kind, through both pipelines of renewal.py and renewal_now.py.
THEOREM RenewalTypes == Spec => []TypeOK
  <1>1. Inv => TypeOK
    <2> SUFFICES ASSUME Inv PROVE TypeOK
      OBVIOUS
    <2>1. payload.netNew \subseteq Products /\ payload.entries \subseteq Known
      BY PayloadFacts DEF Inv, PlanInv
    <2>2. plan.applied \in Seq(Known)
      BY <2>1, SeqMonotonic, ElementOfSeq DEF Inv, PlanInv, PlanTyped
    <2>3. QED
      BY <2>1, <2>2 DEF Inv, PassInv, PlanInv, PlanTyped, SubscriptionsTyped, Subscriptions,
         TypeOK, RenewalPlanTypeOK
  <1>2. QED
    BY <1>1, InvAlways, PTL

-----------------------------------------------------------------------------
(* A plan in place.                                                         *)

\* Nothing is renewed early or taken back at the anniversary.
Untouched ==
    payload.path # "now" => renewals = <<>> /\ \A id \in Known : takenBack[id] = "none"

EntryInPlace(id) ==
    IF id \in payload.renewing
      THEN subscription[id].enabled /\ subscription[id].quantity = payload.quantity[id]
      ELSE ~subscription[id].enabled

ItemInPlace(item) ==
    /\ subscription[item].enabled /\ subscription[item].quantity = payload.quantity[item]
    /\ scheduled[item] > 0

\* What a pass resolved is in place, and what it has not is as it saw it.
ItemsResolved ==
    /\ pc = "CreateNetNewSubscriptions" =>
         /\ \A item \in plan.netNew : ItemInPlace(item)
         /\ \A item \in payload.netNew \ plan.netNew : item \in DOMAIN plan.snapshot =>
               subscription[item] = plan.snapshot[item] /\ scheduled[item] > 0
    /\ pc \in {"UpdateRenewalSubscriptions", "ReverseOperations",
               "CreateNetNewMptSubscriptions"} =>
         plan.netNew = payload.netNew /\ \A item \in payload.netNew : ItemInPlace(item)

EntriesSeen ==
    /\ pc = "CreateNetNewSubscriptions" =>
         plan.applied = <<>> /\ \A id \in payload.entries : subscription[id] = plan.snapshot[id]
    /\ pc = "UpdateRenewalSubscriptions" => \A id \in payload.entries :
         IF id \in Range(plan.applied) THEN EntryInPlace(id)
         ELSE subscription[id] = plan.snapshot[id]
    /\ pc = "CreateNetNewMptSubscriptions" => \A id \in payload.entries : EntryInPlace(id)

\* From the last step on the whole plan is in place.
Finished ==
    payload.path # "now" /\ (pc = "CompleteOrder" \/ status = "Completed") =>
       /\ \A id \in payload.entries : EntryInPlace(id)
       /\ \A item \in payload.netNew : 
             /\ ItemInPlace(item)
             /\ item \in OrderedProducts => item \in published

AnniversaryInv == Untouched /\ ItemsResolved /\ EntriesSeen /\ Finished

\* Early renewals are none of its business.
LEMMA OnlyAnniversary ==
    ASSUME payload.path = "now", UNCHANGED payload, PlanInv'
    PROVE  AnniversaryInv'
  <1>1. pc' \notin AnniversarySteps
    BY DEF PlanInv, OnPath
  <1>2. QED
    BY <1>1 DEF AnniversarySteps, AnniversaryInv, Untouched, ItemsResolved, EntriesSeen, Finished

\* Steps outside the pipeline that neither begin nor complete it.
LEMMA OutsidePipeline ==
    ASSUME AnniversaryInv, UNCHANGED <<payload, subscription, scheduled, published, nowVars>>,
           pc' \notin AnniversarySteps,
           pc' = "CompleteOrder" \/ status' = "Completed" =>
              pc = "CompleteOrder" \/ status = "Completed"
    PROVE  AnniversaryInv'
  <1>1. ItemsResolved' /\ EntriesSeen'
    BY DEF AnniversarySteps, ItemsResolved, EntriesSeen
  <1>2. QED
    BY <1>1 DEF AnniversaryInv, Untouched, Finished, EntryInPlace, ItemInPlace, nowVars

LEMMA SameStep ==
    ASSUME AnniversaryInv, UNCHANGED <<payload, subscription, scheduled, published, nowVars>>,
           UNCHANGED <<pc, plan>>, status' = "Completed" => status = "Completed"
    PROVE  AnniversaryInv'
  BY DEF AnniversaryInv, Untouched, ItemsResolved, EntriesSeen, Finished, EntryInPlace,
         ItemInPlace, nowVars

LEMMA PlatformInPlace ==
    ASSUME Inv, AnniversaryInv, OnPlan(Platform), UNCHANGED <<published, nowVars>>
    PROVE  AnniversaryInv'
  <1>1. UNCHANGED <<payload, subscription, scheduled, published, nowVars>>
    BY DEF OnPlan
  <1>2. status' = "Completed" => status = "Completed"
    BY DEF OnPlan, Platform, Dispatch, Abort, Wait, Resume, NextDay
  <1>3. CASE pc' = Idle
    BY <1>1, <1>2, <1>3, OutsidePipeline DEF Idle, AnniversarySteps
  <1>4. CASE pc' # Idle /\ pc' = pc
    BY <1>1, <1>2, <1>4, SameStep DEF OnPlan
  <1>5. CASE pc' # Idle /\ pc' # pc
    <2>1. pc' = "SetupContext"
      BY <1>5 DEF OnPlan, Platform, Dispatch, Goto, Abort, Wait, EndPass, Resume, NextDay
    <2>2. QED
      BY <1>1, <1>2, <2>1, OutsidePipeline DEF AnniversarySteps
  <1>6. QED
    BY <1>3, <1>4, <1>5

LEMMA PrepareInPlace ==
    ASSUME Inv, AnniversaryInv, OnPlan(Prepare), UNCHANGED <<published, nowVars>>
    PROVE  AnniversaryInv'
  <1>1. UNCHANGED <<payload, subscription, scheduled, published, nowVars>>
    BY DEF OnPlan
  <1>2. /\ pc' \notin AnniversarySteps /\ pc' # "CompleteOrder"
        /\ status' = "Completed" => pc = "CompleteOrder" \/ status = "Completed"
    BY DEF OnPlan, Prepare, SetupContext, SetupDueDate, ValidateDuplicateLines,
           ValidateRenewalWindow, CompleteOrder, switch_order_to_failed, Decide, Wait, EndPass,
           Continue, Goto, Idle, AnniversarySteps
  <1>3. QED
    BY <1>1, <1>2, OutsidePipeline

LEMMA SetupEffects ==
    ASSUME PlanInv, SetupRenewalPlan(FirstStep)
    PROVE  \/ Failing
           \/ /\ Ongoing /\ UNCHANGED <<subscription, scheduled>> /\ pc' = FirstStep
              /\ PlanBut(plan', NoPlan, {"snapshot"})
              /\ DOMAIN plan'.snapshot =
                    payload.entries \cup {p \in payload.netNew : scheduled[p] > 0}
              /\ \A id \in DOMAIN plan'.snapshot : plan'.snapshot[id] = subscription[id]
  <1> DEFINE listed == payload.entries \cup {p \in payload.netNew : scheduled[p] > 0}
             snapshot == [id \in listed |-> subscription[id]]
  <1>1. CASE FailRenewal
    BY <1>1 DEF FailRenewal, StopPlan, switch_order_to_failed, Decide, EndPass, Failing
  <1>2. CASE ~FailRenewal
    <2>1. /\ plan' = [NoPlan EXCEPT !.snapshot = snapshot] /\ pc' = FirstStep
          /\ Ongoing /\ UNCHANGED <<subscription, scheduled>>
      BY <1>2 DEF SetupRenewalPlan, Ongoing, Goto
    <2>2. DOMAIN snapshot = listed /\ \A id \in listed : snapshot[id] = subscription[id]
      OBVIOUS
    <2>3. PlanBut(plan', NoPlan, {"snapshot"}) /\ plan'.snapshot = snapshot
      <3> HIDE DEF snapshot
      <3>1. QED
        BY <2>1, NoPlanRecord DEF PlanRecord, PlanBut, PlanFields
    <2> HIDE DEF snapshot
    <2>4. QED
      BY <2>1, <2>2, <2>3
  <1>3. QED
    BY <1>1, <1>2

LEMMA FailInPlace ==
    ASSUME AnniversaryInv, Failing, UNCHANGED <<published, nowVars>>
    PROVE  AnniversaryInv'
  BY OutsidePipeline DEF Failing, Idle, AnniversarySteps

LEMMA SetupInPlace ==
    ASSUME Inv, AnniversaryInv, SetupRenewalPlan(FirstStep), UNCHANGED <<published, nowVars>>
    PROVE  AnniversaryInv'
  <1>1. PlanInv /\ PlanInv' /\ UNCHANGED payload
    BY SetupPlan, SetupEffects DEF Inv, Failing, Ongoing
  <1>2. CASE payload.path = "now"
    BY <1>1, <1>2, OnlyAnniversary
  <1>3. CASE Failing
    BY <1>3, FailInPlace
  <1>4. CASE payload.path # "now" /\ ~Failing
    <2>1. /\ Ongoing /\ UNCHANGED <<subscription, scheduled>>
          /\ pc' = "CreateNetNewSubscriptions"
          /\ PlanBut(plan', NoPlan, {"snapshot"})
          /\ DOMAIN plan'.snapshot =
                payload.entries \cup {p \in payload.netNew : scheduled[p] > 0}
          /\ \A id \in DOMAIN plan'.snapshot : plan'.snapshot[id] = subscription[id]
      BY <1>1, <1>4, SetupEffects DEF FirstStep
    <2>2. plan'.netNew = {} /\ plan'.applied = <<>>
      BY <2>1 DEF PlanBut, PlanFields, NoPlan
    <2>3. ItemsResolved'
      <3>1. payload.netNew \cap payload.entries = {}
        BY <1>1, PayloadFacts, RenewalPlanAssumption DEF PlanInv
      <3>2. QED
        BY <1>1, <2>1, <2>2, <3>1 DEF ItemsResolved
    <2>4. EntriesSeen'
      BY <1>1, <2>1, <2>2 DEF EntriesSeen
    <2>5. status' # "Completed"
      <3>1. pc # Idle
        BY DEF SetupRenewalPlan, Idle
      <3>2. QED
        BY <2>1, <3>1 DEF Inv, PassInv, Ongoing
    <2>6. QED
      BY <1>1, <2>1, <2>3, <2>4, <2>5 DEF AnniversaryInv, Untouched, Finished, nowVars
  <1>5. QED
    BY <1>2, <1>3, <1>4

\* What an update leaves alone, and what it makes of its own id.
LEMMA WrittenAt ==
    ASSUME NEW id, NEW enabled, NEW quantity, NEW codes, Written(id, enabled, quantity, codes)
    PROVE  /\ \A other \in Subscriptions : other # id => subscription'[other] = subscription[other]
           /\ subscription'[id].enabled = enabled /\ subscription'[id].quantity = quantity
           /\ subscription'[id].codes = codes
           /\ subscription'[id].renewed = subscription[id].renewed
  BY DEF Written, UpdatedAt, Updated

\* Entries, products and the rest do not overlap.
LEMMA PlanParts ==
    ASSUME PlanInv
    PROVE  /\ payload.netNew \cap payload.entries = {}
           /\ payload.netNew \subseteq Subscriptions /\ payload.entries \subseteq Subscriptions
           /\ payload.netNew \subseteq Products /\ payload.entries \subseteq Known
           /\ payload.renewing \subseteq payload.entries
           /\ plan.changed \subseteq payload.netNew /\ plan.netNew \subseteq payload.netNew
  BY PayloadFacts, RenewalPlanAssumption DEF PlanInv, PlanTyped, Subscriptions

\* A step of the anniversary pipeline.
AnniversaryStep ==
    /\ Inv /\ Inv' /\ AnniversaryInv /\ payload.path # "now"
    /\ pc \in AnniversarySteps /\ status = "Processing"
    /\ UNCHANGED nowVars

LEMMA StepContext ==
    ASSUME Inv, Inv', AnniversaryInv, pc \in AnniversarySteps, UNCHANGED nowVars
    PROVE  AnniversaryStep
  <1>1. pc # Idle
    BY DEF AnniversarySteps, Idle
  <1>2. QED
    BY <1>1 DEF AnniversaryStep, Inv, PassInv, PlanInv, OnPath

LEMMA ItemInPlaceKept ==
    ASSUME NEW item, UNCHANGED payload, subscription'[item] = subscription[item],
           scheduled'[item] >= scheduled[item], scheduled'[item] \in Nat, scheduled[item] \in Nat,
           ItemInPlace(item)
    PROVE  ItemInPlace(item)'
  BY DEF ItemInPlace

LEMMA CreateInPlace ==
    ASSUME AnniversaryStep, CreateNetNewSubscriptions("UpdateRenewalSubscriptions"),
           UNCHANGED published
    PROVE  AnniversaryInv'
  <1> PlanInv /\ PlanInv'
    BY DEF AnniversaryStep, Inv
  <1>1. /\ Ongoing /\ pc = "CreateNetNewSubscriptions" /\ pc' \in AnniversarySteps
        /\ status' # "Completed"
    <2>1. Ongoing /\ pc = "CreateNetNewSubscriptions"
      BY CreateEffects DEF CreateNetNewSubscriptions
    <2>2. pc' \in AnniversarySteps
      BY <2>1, CreateEffects DEF ItemReused, ItemScheduled, ItemRefused, AnniversarySteps
    <2>3. QED
      BY <2>1, <2>2 DEF AnniversaryStep, Ongoing
  <1>2. Untouched' /\ Finished'
    BY <1>1 DEF AnniversaryStep, AnniversaryInv, Untouched, Finished, Ongoing, nowVars,
       AnniversarySteps
  <1>3. /\ \A item \in plan.netNew : ItemInPlace(item)
        /\ \A item \in payload.netNew \ plan.netNew : item \in DOMAIN plan.snapshot =>
              subscription[item] = plan.snapshot[item] /\ scheduled[item] > 0
        /\ plan.applied = <<>>
        /\ \A id \in payload.entries : subscription[id] = plan.snapshot[id]
    BY <1>1 DEF AnniversaryStep, AnniversaryInv, ItemsResolved, EntriesSeen
  <1>4. CASE /\ pc' = "UpdateRenewalSubscriptions" /\ plan.netNew = payload.netNew
             /\ UNCHANGED <<subscription, scheduled, plan>>
    <2>1. ItemsResolved' /\ EntriesSeen'
      BY <1>1, <1>3, <1>4 DEF ItemsResolved, EntriesSeen, ItemInPlace, Ongoing, Range
    <2>2. QED
      BY <1>2, <2>1 DEF AnniversaryInv
  <1>5. ASSUME NEW item \in payload.netNew, ItemRefused(item)
        PROVE  AnniversaryInv'
    <2>1. ItemsResolved' /\ EntriesSeen'
      BY <1>5 DEF ItemRefused, ItemsResolved, EntriesSeen
    <2>2. QED
      BY <1>2, <2>1 DEF AnniversaryInv
  <1>6. ASSUME NEW item \in payload.netNew \ plan.netNew, ItemReused(item) \/ ItemScheduled(item)
        PROVE  AnniversaryInv'
    <2>1. /\ plan'.netNew = plan.netNew \cup {item} /\ plan'.applied = plan.applied
          /\ plan'.snapshot = plan.snapshot /\ UNCHANGED pc /\ UNCHANGED payload
      BY <1>1, <1>6 DEF ItemReused, ItemScheduled, PlanBut, PlanFields, Ongoing
    <2>2. \A other \in Subscriptions : other # item => subscription'[other] = subscription[other]
      BY <1>6, WrittenAt DEF ItemReused, ItemScheduled
    <2>3. item \in Products /\ scheduled \in [Products -> Nat]
      BY PlanParts DEF PlanInv
    <2>4. /\ scheduled' \in [Products -> Nat]
          /\ \A other \in Products : scheduled'[other] >= scheduled[other]
      <3>1. scheduled' \in {scheduled, [scheduled EXCEPT ![item] = @ + 1]}
        BY <1>6 DEF ItemReused, ItemScheduled
      <3>2. QED
        BY <2>3, <3>1
    <2>5. ItemInPlace(item)'
      <3>1. subscription'[item].enabled /\ subscription'[item].quantity = payload.quantity[item]
        <4>1. CASE ItemReused(item)
          BY <1>3, <4>1 DEF ItemReused, ScheduledAsPlanned
        <4>2. CASE ItemScheduled(item)
          <5>1. PICK codes \in SUBSET {"code"} : Written(item, TRUE, payload.quantity[item], codes)
            BY <4>2 DEF ItemScheduled
          <5>2. subscription'[item].enabled = TRUE /\ subscription'[item].quantity = payload.quantity[item]
            BY <5>1 DEF Written, UpdatedAt, Updated
          <5>3. QED
            BY <5>2, Zenon
        <4>3. QED
          BY <1>6, <4>1, <4>2
      <3>2. scheduled'[item] > 0
        <4>1. CASE item \in DOMAIN plan.snapshot
          BY <1>3, <1>6, <4>1 DEF ItemReused, ItemScheduled
        <4>2. CASE item \notin DOMAIN plan.snapshot
          <5>1. scheduled' = [scheduled EXCEPT ![item] = @ + 1]
            BY <1>6, <4>2 DEF ItemReused, ItemScheduled, ScheduledAsPlanned
          <5>2. QED
            BY <2>3, <5>1
        <4>3. QED
          BY <4>1, <4>2
      <3>3. QED
        BY <2>1, <3>1, <3>2 DEF ItemInPlace
    <2>6. ASSUME NEW other \in payload.netNew, other # item
          PROVE  /\ subscription'[other] = subscription[other]
                 /\ scheduled'[other] >= scheduled[other]
                 /\ scheduled'[other] \in Nat /\ scheduled[other] \in Nat
      BY <2>2, <2>3, <2>4, <2>6, PlanParts
    <2>7. ItemsResolved'
      <3>1. \A other \in plan'.netNew : ItemInPlace(other)'
        <4>1. ASSUME NEW other \in plan.netNew, other # item PROVE ItemInPlace(other)'
          BY <1>3, <2>1, <2>6, <4>1, PlanParts, ItemInPlaceKept
        <4>2. QED
          BY <2>1, <2>5, <4>1
      <3>2. \A other \in payload.netNew \ plan'.netNew : other \in DOMAIN plan.snapshot =>
              subscription'[other] = plan.snapshot[other] /\ scheduled'[other] > 0
        BY <1>3, <2>1, <2>6
      <3>3. QED
        BY <1>1, <2>1, <3>1, <3>2 DEF ItemsResolved
    <2>8. EntriesSeen'
      <3>1. \A id \in payload.entries : subscription'[id] = subscription[id]
        BY <2>2, PlanParts
      <3>2. QED
        BY <1>1, <1>3, <2>1, <3>1 DEF EntriesSeen
    <2>9. QED
      BY <1>2, <2>7, <2>8 DEF AnniversaryInv
  <1>7. QED
    BY <1>4, <1>5, <1>6, CreateEffects

LEMMA DisableInPlace ==
    ASSUME AnniversaryStep, DisableNetNew, UNCHANGED published
    PROVE  AnniversaryInv'
  <1> PlanInv /\ PlanInv'
    BY DEF AnniversaryStep, Inv
  <1>1. CASE Failing
    BY <1>1, FailInPlace DEF AnniversaryStep
  <1>2. CASE Ongoing /\ UNCHANGED pc
    <2>1. pc = "DisableNetNew"
      BY DEF DisableNetNew
    <2>2. QED
      BY <1>2, <2>1 DEF AnniversaryStep, AnniversaryInv, Untouched, ItemsResolved, EntriesSeen,
         Finished, Ongoing, nowVars
  <1>3. QED
    BY <1>1, <1>2, DisableEffects

\* Updates of entries leave the products alone.
LEMMA ItemsKept ==
    ASSUME PlanInv, PlanInv', UNCHANGED <<payload, scheduled>>, plan'.netNew = plan.netNew,
           \A id \in Subscriptions \ payload.entries : subscription'[id] = subscription[id],
           pc \in {"UpdateRenewalSubscriptions", "ReverseOperations"}, pc' \in AnniversarySteps,
           pc' # "CreateNetNewSubscriptions", ItemsResolved
    PROVE  ItemsResolved'
  <1>1. plan.netNew = payload.netNew /\ \A item \in payload.netNew : ItemInPlace(item)
    BY DEF ItemsResolved
  <1>2. \A item \in payload.netNew : subscription'[item] = subscription[item]
    BY PlanParts
  <1>3. QED
    BY <1>1, <1>2 DEF ItemsResolved, ItemInPlace

\* A subscription the plan does not change is as planned.
LEMMA NoneInPlace ==
    ASSUME NEW id \in payload.entries, subscription[id] = plan.snapshot[id], Kind(id) = "none"
    PROVE  EntryInPlace(id)
  BY DEF Kind, EntryInPlace

LEMMA EntryWrittenAt ==
    ASSUME NEW id, EntryWritten(id), UNCHANGED payload
    PROVE  /\ EntryInPlace(id)'
           /\ subscription'[id].renewed = subscription[id].renewed
           /\ \A other \in Subscriptions : other # id => subscription'[other] = subscription[other]
  <1>1. PICK quantity \in Nat, codes \in SUBSET {"code"} :
           /\ id \in payload.renewing => quantity = payload.quantity[id]
           /\ UpdatedAt(subscription', id, id \in payload.renewing, quantity, codes)
    BY DEF EntryWritten, Written
  <1>2. subscription'[id] = Updated(subscription[id], id \in payload.renewing, quantity, codes)
    BY <1>1 DEF UpdatedAt
  <1>3. EntryInPlace(id)'
    <2>1. /\ subscription'[id].enabled = (id \in payload.renewing)
          /\ subscription'[id].quantity = quantity
      BY <1>2 DEF Updated
    <2>2. subscription'[id].enabled <=> id \in payload.renewing
      BY <2>1, Zenon
    <2>3. QED
      BY <1>1, <2>1, <2>2 DEF EntryInPlace
  <1>4. QED
    BY <1>1, <1>2, <1>3 DEF UpdatedAt, Updated

\* Range of a sequence that grows.
LEMMA AppendedRange ==
    ASSUME NEW S, NEW s \in Seq(S), NEW x \in S
    PROVE  Range(Append(s, x)) = Range(s) \cup {x}
  <1>1. /\ Len(Append(s, x)) = Len(s) + 1 /\ Append(s, x) \in Seq(S)
        /\ \A i \in 1 .. Len(s) : Append(s, x)[i] = s[i]
        /\ Append(s, x)[Len(s) + 1] = x
    BY AppendProperties
  <1>2. DOMAIN s = 1 .. Len(s) /\ DOMAIN Append(s, x) = 1 .. Len(s) + 1 /\ Len(s) \in Nat
    BY <1>1, LenProperties
  <1>3. 1 .. Len(s) + 1 = (1 .. Len(s)) \cup {Len(s) + 1}
    BY <1>2
  <1>4. QED
    BY <1>1, <1>2, <1>3 DEF Range

LEMMA UpdateInPlace ==
    ASSUME AnniversaryStep, UpdateRenewalSubscriptions("CreateNetNewMptSubscriptions"),
           UNCHANGED published
    PROVE  AnniversaryInv'
  <1> PlanInv /\ PlanInv'
    BY DEF AnniversaryStep, Inv
  <1>1. /\ Ongoing /\ UNCHANGED scheduled /\ pc = "UpdateRenewalSubscriptions"
        /\ pc' \in AnniversarySteps \ {"CreateNetNewSubscriptions"} /\ status' # "Completed"
    BY UpdateEffects DEF UpdateRenewalSubscriptions, AnniversarySteps, AnniversaryStep, Ongoing
  <1>2. Untouched' /\ Finished'
    BY <1>1 DEF AnniversaryStep, AnniversaryInv, Untouched, Finished, Ongoing, nowVars,
       AnniversarySteps
  <1>3. \A id \in payload.entries : IF id \in Range(plan.applied) THEN EntryInPlace(id)
                                    ELSE subscription[id] = plan.snapshot[id]
    BY <1>1 DEF AnniversaryStep, AnniversaryInv, EntriesSeen
  <1>4. CASE /\ pc' = "CreateNetNewMptSubscriptions" /\ Operations = {}
             /\ UNCHANGED <<subscription, plan>>
    <2>1. ASSUME NEW id \in payload.entries PROVE EntryInPlace(id)
      <3>1. id \in Range(plan.applied) \/ Kind(id) = "none"
        BY <1>4 DEF Operations
      <3>2. QED
        BY <1>3, <3>1, NoneInPlace
    <2>2. EntriesSeen'
      BY <1>1, <1>4, <2>1 DEF EntriesSeen, EntryInPlace, Ongoing
    <2>3. ItemsResolved'
      BY <1>1, <1>4, ItemsKept DEF AnniversaryStep, AnniversaryInv, Ongoing
    <2>4. QED
      BY <1>2, <2>2, <2>3 DEF AnniversaryInv
  <1>5. ASSUME pc' = "ReverseOperations", UNCHANGED plan,
               \/ UNCHANGED subscription
               \/ \E id \in Operations : EntryWritten(id)
        PROVE  AnniversaryInv'
    <2>1. \A id \in Subscriptions \ payload.entries : subscription'[id] = subscription[id]
      BY <1>1, <1>5, EntryWrittenAt DEF Operations, Ongoing
    <2>2. ItemsResolved'
      BY <1>1, <1>5, <2>1, ItemsKept DEF AnniversaryStep, AnniversaryInv, Ongoing
    <2>3. EntriesSeen'
      BY <1>5 DEF EntriesSeen
    <2>4. QED
      BY <1>2, <2>2, <2>3 DEF AnniversaryInv
  <1>6. ASSUME NEW id \in Operations, UNCHANGED pc, EntryWritten(id),
               PlanBut(plan', plan, {"applied"}), plan'.applied = Append(plan.applied, id)
        PROVE  AnniversaryInv'
    <2>1. /\ id \in payload.entries /\ plan'.netNew = plan.netNew /\ plan'.snapshot = plan.snapshot
          /\ UNCHANGED payload
      BY <1>1, <1>6 DEF Operations, PlanBut, PlanFields, Ongoing
    <2>2. \A other \in Subscriptions : other # id => subscription'[other] = subscription[other]
      BY <1>6, <2>1, EntryWrittenAt
    <2>3. ItemsResolved'
      BY <1>1, <2>1, <2>2, ItemsKept DEF AnniversaryStep, AnniversaryInv
    <2>4. Range(plan'.applied) = Range(plan.applied) \cup {id}
      <3>1. plan.applied \in Seq(payload.entries)
        BY DEF PlanInv, PlanTyped
      <3>2. QED
        BY <1>6, <2>1, <3>1, AppendedRange
    <2>5. ASSUME NEW other \in payload.entries
          PROVE  IF other \in Range(plan'.applied) THEN EntryInPlace(other)'
                 ELSE subscription'[other] = plan'.snapshot[other]
      <3>1. CASE other = id
        BY <1>6, <2>1, <2>4, <3>1, EntryWrittenAt
      <3>2. CASE other # id
        <4>1. subscription'[other] = subscription[other]
          BY <2>2, <3>2, PlanParts
        <4>2. EntryInPlace(other) => EntryInPlace(other)'
          BY <2>1, <4>1 DEF EntryInPlace
        <4>3. QED
          BY <1>3, <2>1, <2>4, <3>2, <4>1, <4>2
      <3>3. QED
        BY <3>1, <3>2
    <2>6. EntriesSeen'
      BY <1>1, <1>6, <2>1, <2>5 DEF EntriesSeen
    <2>7. QED
      BY <1>2, <2>3, <2>6 DEF AnniversaryInv
  <1>7. QED
    BY <1>4, <1>5, <1>6, UpdateEffects

LEMMA ReverseInPlace ==
    ASSUME AnniversaryStep, ReverseOperations, UNCHANGED published
    PROVE  AnniversaryInv'
  <1> PlanInv /\ PlanInv' /\ OnPath /\ pc = "ReverseOperations"
    BY DEF AnniversaryStep, Inv, PlanInv, ReverseOperations
  <1>1. /\ Ongoing /\ UNCHANGED scheduled /\ pc' \in {"ReverseOperations", "DisableNetNew"}
        /\ status' # "Completed" /\ plan'.netNew = plan.netNew
    BY ReverseEffects DEF AnniversaryStep, Ongoing, PlanBut, PlanFields
  <1>2. Untouched' /\ Finished' /\ EntriesSeen'
    BY <1>1 DEF AnniversaryStep, AnniversaryInv, Untouched, Finished, EntriesSeen, Ongoing, nowVars
  <1>3. \A id \in Subscriptions \ payload.entries : subscription'[id] = subscription[id]
    <2>1. plan.applied # <<>> => plan.applied[Len(plan.applied)] \in payload.entries
      BY AllButLast DEF PlanInv, PlanTyped
    <2>2. QED
      BY <2>1, ReverseEffects, WrittenAt
  <1>4. ItemsResolved'
    BY <1>1, <1>3, ItemsKept DEF AnniversaryStep, AnniversaryInv, Ongoing, AnniversarySteps
  <1>5. QED
    BY <1>2, <1>4 DEF AnniversaryInv

LEMMA PublishInPlace ==
    ASSUME AnniversaryStep, CreateNetNewMptSubscriptions("CompleteOrder")
    PROVE  AnniversaryInv'
  <1>1. /\ pc = "CreateNetNewMptSubscriptions" /\ pc' \in {pc, "CompleteOrder"}
        /\ UNCHANGED planVars /\ status' = "Processing"
        /\ pc' = "CompleteOrder" => plan.netNew \cap OrderedProducts \subseteq published'
    BY DEF AnniversaryStep, CreateNetNewMptSubscriptions, ToPublish, Goto
  <1>2. /\ plan.netNew = payload.netNew /\ \A item \in payload.netNew : ItemInPlace(item)
        /\ \A id \in payload.entries : EntryInPlace(id)
    BY <1>1 DEF AnniversaryStep, AnniversaryInv, ItemsResolved, EntriesSeen
  <1>3. /\ \A item \in payload.netNew : ItemInPlace(item)'
        /\ \A id \in payload.entries : EntryInPlace(id)'
    BY <1>1, <1>2 DEF planVars, ItemInPlace, EntryInPlace
  <1>4. ItemsResolved' /\ EntriesSeen' /\ Finished'
    BY <1>1, <1>2, <1>3 DEF planVars, ItemsResolved, EntriesSeen, Finished
  <1>5. QED
    BY <1>1, <1>4 DEF AnniversaryStep, AnniversaryInv, Untouched, planVars, nowVars

\* The pipeline of a step, read off its path.
LEMMA NowIsNow ==
    ASSUME PlanInv, Now
    PROVE  pc \in NowSteps /\ payload.path = "now" /\ UNCHANGED <<payload, scheduled>>
  <1>1. pc \in NowSteps
    BY DEF Now, PreviewRenewalNowOrder, SubmitRenewalNowOrder, PlaceRenewalOrder, FindRenewalOrder,
           ReturnPreviousRenewalOrders, ListReturns, NormalizeRenewedSubscriptions,
           DisableLapsingSubscriptions, NowSteps
  <1>2. UNCHANGED <<payload, scheduled>>
    BY DEF Now, PreviewRenewalNowOrder, SubmitRenewalNowOrder, PlaceRenewalOrder, FindRenewalOrder,
           FollowRenewal, FailRenewal, WaitRenewal, StopPlan, planVars,
           ReturnPreviousRenewalOrders, ListReturns, ReuseReturn, PlaceReturn, AwaitReturns,
           NormalizeRenewedSubscriptions, DisableLapsingSubscriptions, UpdateEach
  <1>3. QED
    BY <1>1, <1>2 DEF PlanInv, OnPath

LEMMA AnniversaryIsAnniversary ==
    ASSUME Inv, Anniversary
    PROVE  pc \in AnniversarySteps
  BY DEF Anniversary, CreateNetNewSubscriptions, DisableNetNew, UpdateRenewalSubscriptions,
         ReverseOperations, CreateNetNewMptSubscriptions, AnniversarySteps

\* Adobe has nothing to settle at the anniversary.
LEMMA AdobeIsNow ==
    ASSUME PlanInv, Untouched, Adobe
    PROVE  payload.path = "now"
  BY DEF PlanInv, Untouched, Adobe, AdobeSettlesRenewal, AdobeShowsRenewed, AdobeSettlesReturn

LEMMA AnniversaryInvStep == Inv /\ AnniversaryInv /\ [Next]_vars => AnniversaryInv'
  <1> SUFFICES ASSUME Inv, AnniversaryInv, [Next]_vars
               PROVE  AnniversaryInv'
    OBVIOUS
  <1> Inv' /\ PlanInv /\ PlanInv'
    BY InvStep DEF Inv
  <1>1. CASE UNCHANGED vars
    BY <1>1, SameStep DEF vars, passVars, planVars
  <1>2. CASE OnPlan(Platform) /\ UNCHANGED <<published, nowVars>>
    BY <1>2, PlatformInPlace
  <1>3. CASE OnPlan(Prepare) /\ UNCHANGED <<published, nowVars>>
    BY <1>3, PrepareInPlace
  <1>4. CASE SetupRenewalPlan(FirstStep) /\ UNCHANGED <<published, nowVars>>
    BY <1>4, SetupInPlace
  <1>5. CASE Anniversary /\ UNCHANGED nowVars
    <2>1. AnniversaryStep
      BY <1>5, AnniversaryIsAnniversary, StepContext
    <2>2. QED
      BY <1>5, <2>1, CreateInPlace, DisableInPlace, UpdateInPlace, ReverseInPlace, PublishInPlace
         DEF Anniversary
  <1>6. CASE Now /\ UNCHANGED published
    BY <1>6, NowIsNow, OnlyAnniversary
  <1>7. CASE Adobe /\ UNCHANGED published
    <2>1. payload.path = "now" /\ UNCHANGED payload
      BY <1>7, AdobeIsNow
         DEF AnniversaryInv, Adobe, AdobeSettlesRenewal, AdobeShowsRenewed, AdobeSettlesReturn
    <2>2. QED
      BY <2>1, OnlyAnniversary
  <1>8. QED
    BY <1>1, <1>2, <1>3, <1>4, <1>5, <1>6, <1>7 DEF Next

LEMMA AnniversaryInvInit == Init => AnniversaryInv
  BY DEF Init, PassInit, RenewalNowInit, Idle, AnniversaryInv, Untouched, ItemsResolved,
         EntriesSeen, Finished

LEMMA AnniversaryInvAlways == Spec => []AnniversaryInv
  BY InvAlways, AnniversaryInvInit, AnniversaryInvStep, PTL DEF Spec

\* However often a pass of renewal.py is cut off, refused or repeated, an order
\* completed at the anniversary has its plan in place at Adobe, whole.
THEOREM PlanIsInPlace == Spec => []PlanInPlace
  <1>1. Inv /\ AnniversaryInv => PlanInPlace
    <2> SUFFICES ASSUME Inv, AnniversaryInv, status = "Completed", payload.path = "anniversary"
                 PROVE  PlanInPlace
      BY DEF PlanInPlace
    <2>1. /\ \A id \in payload.entries : EntryInPlace(id)
          /\ \A item \in payload.netNew :
                ItemInPlace(item) /\ (item \in OrderedProducts => item \in published)
      BY DEF AnniversaryInv, Finished
    <2>2. payload.renewing \subseteq payload.entries
      BY PlanParts DEF Inv
    <2>3. QED
      BY <2>1, <2>2 DEF PlanInPlace, EntryInPlace, ItemInPlace, Lapsing
  <1>2. QED
    BY <1>1, InvAlways, AnniversaryInvAlways, PTL

-----------------------------------------------------------------------------
(* One scheduled subscription.                                              *)

\* Inside CreateNetNewSubscriptions, a product of the plan that has a scheduled
\* subscription was listed at the start of the pass, or resolved by it.
AllListed ==
    \A item \in payload.netNew :
       scheduled[item] > 0 => item \in DOMAIN plan.snapshot \cup plan.netNew

\* ScheduledOnce alone is not inductive: ScheduleNew relies on AllListed.
ScheduledInv ==
    /\ ScheduledOnce
    /\ pc = "CreateNetNewSubscriptions" => AllListed

\* Scheduling a product that was not listed, once.
LEMMA CreateScheduled ==
    ASSUME Inv, ScheduledInv, CreateNetNewSubscriptions("UpdateRenewalSubscriptions")
    PROVE  ScheduledInv'
  <1> PlanInv
    BY DEF Inv
  <1>1. AllListed /\ payload' = payload /\ payload.netNew \subseteq Products
    BY PlanParts DEF ScheduledInv, CreateNetNewSubscriptions
  <1>2. CASE UNCHANGED scheduled /\ pc' # "CreateNetNewSubscriptions"
    BY <1>2 DEF ScheduledInv, ScheduledOnce
  <1>3. ASSUME NEW item \in payload.netNew \ plan.netNew, ItemReused(item) \/ ItemScheduled(item)
        PROVE  ScheduledInv'
    <2>1. plan'.netNew = plan.netNew \cup {item} /\ plan'.snapshot = plan.snapshot
      BY <1>3 DEF ItemReused, ItemScheduled, PlanBut, PlanFields
    <2>2. CASE UNCHANGED scheduled
      BY <1>1, <2>1, <2>2 DEF ScheduledInv, ScheduledOnce, AllListed
    <2>3. CASE ~UNCHANGED scheduled
      <3>1. item \notin DOMAIN plan.snapshot /\ scheduled' = [scheduled EXCEPT ![item] = @ + 1]
        BY <1>3, <2>3 DEF ItemReused, ItemScheduled
      <3>2. scheduled[item] = 0 /\ item \in Products /\ scheduled \in [Products -> Nat]
        BY <1>1, <1>3, <3>1 DEF PlanInv, AllListed
      <3>3. ScheduledOnce'
        BY <3>1, <3>2 DEF ScheduledInv, ScheduledOnce
      <3>4. \A other \in payload.netNew :
              scheduled'[other] > 0 => scheduled[other] > 0 \/ other = item
        BY <1>1, <3>1, <3>2
      <3>5. AllListed'
        BY <1>1, <2>1, <3>4 DEF AllListed
      <3>6. QED
        BY <3>3, <3>5 DEF ScheduledInv
    <2>4. QED
      BY <2>2, <2>3
  <1>4. QED
    BY <1>2, <1>3, CreateEffects DEF ItemRefused

\* SetupRenewalPlan lists every scheduled subscription of the plan's products.
LEMMA SetupListed ==
    ASSUME Inv, ScheduledInv, SetupRenewalPlan(FirstStep)
    PROVE  ScheduledInv'
  <1>1. CASE Failing
    BY <1>1 DEF Failing, Idle, ScheduledInv, ScheduledOnce
  <1>2. CASE ~Failing
    BY <1>2, SetupEffects DEF Inv, Ongoing, ScheduledInv, ScheduledOnce, AllListed
  <1>3. QED
    BY <1>1, <1>2

\* The steps that schedule nothing and stay out of CreateNetNewSubscriptions.
LEMMA Unscheduled ==
    ASSUME ScheduledInv, UNCHANGED <<payload, scheduled>>,
           pc' # "CreateNetNewSubscriptions" \/ UNCHANGED <<pc, plan>>
    PROVE  ScheduledInv'
  BY DEF ScheduledInv, ScheduledOnce, AllListed

LEMMA ScheduledStep == Inv /\ ScheduledInv /\ [Next]_vars => ScheduledInv'
  <1> SUFFICES ASSUME Inv, ScheduledInv, [Next]_vars
               PROVE  ScheduledInv'
    OBVIOUS
  <1> Inv' /\ PlanInv /\ PlanInv'
    BY InvStep DEF Inv
  <1>1. CASE UNCHANGED vars
    BY <1>1, Unscheduled DEF vars, passVars, planVars
  <1>2. CASE OnPlan(Platform)
    BY <1>2, Unscheduled DEF OnPlan, Platform, Dispatch, Abort, Resume, NextDay, Goto, Wait,
       EndPass, Idle
  <1>3. CASE OnPlan(Prepare)
    BY <1>3, Unscheduled DEF OnPlan, Prepare, SetupContext, SetupDueDate, ValidateDuplicateLines,
       ValidateRenewalWindow, CompleteOrder, Continue, Goto, Wait, EndPass, Idle,
       switch_order_to_failed, Decide
  <1>4. CASE SetupRenewalPlan(FirstStep)
    BY <1>4, SetupListed
  <1>5. CASE Anniversary
    <2>1. CASE CreateNetNewSubscriptions("UpdateRenewalSubscriptions")
      BY <2>1, CreateScheduled
    <2>2. CASE ~CreateNetNewSubscriptions("UpdateRenewalSubscriptions")
      BY <1>5, <2>2, Unscheduled
         DEF Anniversary, DisableNetNew, FailRenewal, StopPlan, switch_order_to_failed, Decide,
             EndPass, Idle, passVars, UpdateRenewalSubscriptions, ApplyOperation,
             ReverseOperations, CreateNetNewMptSubscriptions, planVars, Goto
    <2>3. QED
      BY <2>1, <2>2
  <1>6. CASE Now
    <2>1. pc' # "CreateNetNewSubscriptions" /\ UNCHANGED <<payload, scheduled>>
      BY <1>6, NowIsNow DEF PlanInv, OnPath, AnniversarySteps
    <2>2. QED
      BY <2>1, Unscheduled
  <1>7. CASE Adobe
    BY <1>7, Unscheduled
       DEF Adobe, AdobeSettlesRenewal, AdobeShowsRenewed, AdobeSettlesReturn, passVars
  <1>8. QED
    BY <1>1, <1>2, <1>3, <1>4, <1>5, <1>6, <1>7 DEF Next

LEMMA ScheduledAlways == Spec => []ScheduledInv
  <1>1. Init => ScheduledInv
    BY DEF Init, PassInit, Idle, RenewalPlanInit, ScheduledInv, ScheduledOnce
  <1>2. QED
    BY <1>1, ScheduledStep, InvAlways, PTL DEF Spec

\* However often a pass of renewal.py dies and is repeated, a product added by
\* the plan has at most one scheduled subscription to activate.
THEOREM ScheduledAtMostOnce == Spec => []ScheduledOnce
  <1>1. ScheduledInv => ScheduledOnce
    BY DEF ScheduledInv
  <1>2. QED
    BY <1>1, ScheduledAlways, PTL


-----------------------------------------------------------------------------
(* A failed plan is taken back.                                             *)

\* An update of a preference is refused or carried out, and those of a
\* reversal succeed: "Unread" answers and failing reversals leave the
\* preferences as nobody planned them.
UpdatesAreRefused == UpdateErrors \subseteq {"Rejected"} /\ ReversalErrors = {}

Reversible == {"CreateNetNewSubscriptions", "UpdateRenewalSubscriptions",
               "ReverseOperations", "DisableNetNew"}

\* A product without a scheduled subscription renews nothing.
OnlyScheduledRenew ==
    payload.path # "now" =>
       \A item \in payload.netNew : scheduled[item] = 0 => ~subscription[item].enabled

\* Until the plan is applied whole, what a pass did not change, or has
\* reversed, is as it saw it.
AsSeen ==
    /\ pc \in Reversible =>
         /\ \A id \in payload.entries : subscription[id].renewed = plan.snapshot[id].renewed
         /\ \A item \in payload.netNew \ plan.changed :
               subscription[item].enabled =>
                  item \in DOMAIN plan.snapshot /\ plan.snapshot[item].enabled
    /\ pc = "ReverseOperations" => \A id \in payload.entries \ Range(plan.applied) :
         subscription[id] = plan.snapshot[id]
    /\ pc = "DisableNetNew" => \A id \in payload.entries : subscription[id] = plan.snapshot[id]

ReversalInv == OnlyScheduledRenew /\ AsSeen

LEMMA OnlyNow ==
    ASSUME payload.path = "now", UNCHANGED payload, PlanInv'
    PROVE  ReversalInv'
  <1>1. pc' \notin AnniversarySteps
    BY DEF PlanInv, OnPath
  <1>2. QED
    BY <1>1 DEF AnniversarySteps, Reversible, ReversalInv, OnlyScheduledRenew, AsSeen

LEMMA OutsideReversal ==
    ASSUME ReversalInv, UNCHANGED <<payload, subscription, scheduled>>,
           pc' \notin Reversible \/ UNCHANGED <<pc, plan>>
    PROVE  ReversalInv'
  BY DEF ReversalInv, OnlyScheduledRenew, AsSeen, Reversible

LEMMA SetupReversal ==
    ASSUME Inv, ReversalInv, SetupRenewalPlan(FirstStep), UNCHANGED <<published, nowVars>>
    PROVE  ReversalInv'
  <1> PlanInv /\ PlanInv'
    BY SetupPlan DEF Inv
  <1>1. CASE payload.path = "now"
    BY <1>1, OnlyNow, SetupEffects DEF Failing, Ongoing
  <1>2. CASE Failing
    BY <1>2, OutsideReversal DEF Failing, Idle, Reversible
  <1>3. CASE payload.path # "now" /\ ~Failing
    <2>1. /\ Ongoing /\ UNCHANGED <<subscription, scheduled>>
          /\ pc' = "CreateNetNewSubscriptions"
          /\ PlanBut(plan', NoPlan, {"snapshot"})
          /\ DOMAIN plan'.snapshot =
                payload.entries \cup {p \in payload.netNew : scheduled[p] > 0}
          /\ \A id \in DOMAIN plan'.snapshot : plan'.snapshot[id] = subscription[id]
      BY <1>3, SetupEffects DEF FirstStep
    <2>2. \A item \in payload.netNew : scheduled[item] \in Nat
      BY PlanParts DEF PlanInv
    <2>3. AsSeen'
      BY <1>3, <2>1, <2>2 DEF ReversalInv, OnlyScheduledRenew, AsSeen, Ongoing
    <2>4. OnlyScheduledRenew'
      BY <2>1 DEF ReversalInv, OnlyScheduledRenew, Ongoing
    <2>5. QED
      BY <2>3, <2>4 DEF ReversalInv
  <1>4. QED
    BY <1>1, <1>2, <1>3

LEMMA CreateReversal ==
    ASSUME UpdatesAreRefused, AnniversaryStep, ScheduledInv, ReversalInv,
           CreateNetNewSubscriptions("UpdateRenewalSubscriptions")
    PROVE  ReversalInv'
  <1> PlanInv /\ PlanInv'
    BY DEF AnniversaryStep, Inv
  <1>1. Ongoing /\ pc = "CreateNetNewSubscriptions" /\ AllListed
    BY CreateEffects DEF CreateNetNewSubscriptions, ScheduledInv
  <1>2. /\ \A id \in payload.entries : subscription[id] = plan.snapshot[id]
        /\ \A id \in payload.entries : subscription[id].renewed = plan.snapshot[id].renewed
        /\ \A item \in payload.netNew \ plan.changed :
              subscription[item].enabled =>
                 item \in DOMAIN plan.snapshot /\ plan.snapshot[item].enabled
        /\ \A item \in payload.netNew : scheduled[item] = 0 => ~subscription[item].enabled
    BY <1>1 DEF AnniversaryStep, AnniversaryInv, EntriesSeen, ReversalInv, AsSeen,
       OnlyScheduledRenew, Reversible
  <1>3. CASE /\ pc' \in {"UpdateRenewalSubscriptions", "DisableNetNew"}
             /\ UNCHANGED <<subscription, scheduled, plan>>
    BY <1>1, <1>2, <1>3 DEF ReversalInv, AsSeen, OnlyScheduledRenew, Ongoing
  <1>4. ASSUME NEW item, ItemRefused(item)
        PROVE  pc' = "DisableNetNew" /\ UNCHANGED <<subscription, scheduled, plan>>
    BY <1>4 DEF ItemRefused, UpdatesAreRefused
  <1>5. ASSUME NEW item \in payload.netNew \ plan.netNew, ItemReused(item) \/ ItemScheduled(item)
        PROVE  ReversalInv'
    <2>1. /\ UNCHANGED pc /\ UNCHANGED payload /\ plan'.snapshot = plan.snapshot
          /\ plan.changed \subseteq plan'.changed
      BY <1>1, <1>5 DEF ItemReused, ItemScheduled, PlanBut, PlanFields, Ongoing
    <2>2. \A other \in Subscriptions : other # item => subscription'[other] = subscription[other]
      BY <1>5, WrittenAt DEF ItemReused, ItemScheduled
    <2>3. item \in plan'.changed \/ subscription'[item] = subscription[item]
      BY <1>5 DEF ItemReused, ItemScheduled
    <2>4. scheduled'[item] # 0 /\ \A other \in payload.netNew : scheduled'[other] = 0 => scheduled[other] = 0
      <3>1. /\ item \in Products /\ scheduled \in [Products -> Nat]
            /\ payload.netNew \subseteq Products
        BY PlanParts DEF PlanInv
      <3>2. scheduled' \in {scheduled, [scheduled EXCEPT ![item] = @ + 1]}
        BY <1>5 DEF ItemReused, ItemScheduled
      <3>3. \/ item \in DOMAIN plan.snapshot
            \/ scheduled' = [scheduled EXCEPT ![item] = @ + 1]
        BY <1>5 DEF ItemReused, ItemScheduled, ScheduledAsPlanned
      <3>4. item \in DOMAIN plan.snapshot => scheduled[item] > 0
        BY <1>1 DEF AnniversaryStep, AnniversaryInv, ItemsResolved
      <3>5. QED
        BY <3>1, <3>2, <3>3, <3>4
    <2>5. AsSeen'
      BY <1>1, <1>2, <2>1, <2>2, <2>3, PlanParts DEF AsSeen
    <2>6. OnlyScheduledRenew'
      BY <1>2, <2>1, <2>2, <2>4, PlanParts DEF OnlyScheduledRenew
    <2>7. QED
      BY <2>5, <2>6 DEF ReversalInv
  <1>6. QED
    BY <1>3, <1>4, <1>5, CreateEffects

LEMMA UpdateReversal ==
    ASSUME UpdatesAreRefused, AnniversaryStep, ReversalInv,
           UpdateRenewalSubscriptions("CreateNetNewMptSubscriptions")
    PROVE  ReversalInv'
  <1> PlanInv /\ PlanInv'
    BY DEF AnniversaryStep, Inv
  <1>1. Ongoing /\ UNCHANGED scheduled /\ pc = "UpdateRenewalSubscriptions"
    BY UpdateEffects DEF UpdateRenewalSubscriptions
  <1>2. \A id \in payload.entries : IF id \in Range(plan.applied) THEN EntryInPlace(id)
                                    ELSE subscription[id] = plan.snapshot[id]
    BY <1>1 DEF AnniversaryStep, AnniversaryInv, EntriesSeen
  <1>3. CASE /\ pc' \in {"CreateNetNewMptSubscriptions", "ReverseOperations"}
             /\ UNCHANGED <<subscription, plan>>
    BY <1>1, <1>2, <1>3 DEF ReversalInv, AsSeen, OnlyScheduledRenew, Reversible, Ongoing
  <1>4. ASSUME NEW id \in Operations, UNCHANGED pc, EntryWritten(id),
               PlanBut(plan', plan, {"applied"})
        PROVE  ReversalInv'
    <2>1. /\ id \in payload.entries /\ plan'.changed = plan.changed
          /\ plan'.snapshot = plan.snapshot /\ UNCHANGED payload
      BY <1>1, <1>4 DEF Operations, PlanBut, PlanFields, Ongoing
    <2>2. /\ subscription'[id].renewed = subscription[id].renewed
          /\ \A other \in Subscriptions : other # id => subscription'[other] = subscription[other]
      BY <1>4, <2>1, EntryWrittenAt
    <2>3. /\ \A other \in payload.entries : subscription'[other].renewed = subscription[other].renewed
          /\ \A item \in payload.netNew : subscription'[item] = subscription[item]
      BY <2>1, <2>2, PlanParts
    <2>4. AsSeen'
      BY <1>1, <1>4, <2>1, <2>3 DEF ReversalInv, AsSeen, Reversible
    <2>5. OnlyScheduledRenew'
      BY <1>1, <2>1, <2>3 DEF ReversalInv, OnlyScheduledRenew
    <2>6. QED
      BY <2>4, <2>5 DEF ReversalInv
  <1>5. QED
    BY <1>3, <1>4, UpdateEffects DEF UpdatesAreRefused

LEMMA CutRange ==
    ASSUME NEW S, NEW s \in Seq(S), s # <<>>
    PROVE  Range(s) \subseteq Range(SubSeq(s, 1, Len(s) - 1)) \cup {s[Len(s)]}
  <1> DEFINE less == SubSeq(s, 1, Len(s) - 1)
  <1>1. /\ Len(s) \in Nat \ {0} /\ less \in Seq(S) /\ Len(less) = Len(s) - 1
        /\ \A i \in 1 .. Len(s) - 1 : less[i] = s[i]
    BY AllButLast
  <1>2. DOMAIN s = 1 .. Len(s) /\ DOMAIN less = 1 .. Len(s) - 1
    BY <1>1, LenProperties
  <1>3. \A i \in 1 .. Len(s) : i = Len(s) \/ i \in 1 .. Len(s) - 1
    BY <1>1
  <1> HIDE DEF less
  <1>4. QED
    BY <1>1, <1>2, <1>3 DEF Range, less

LEMMA ReverseReversal ==
    ASSUME UpdatesAreRefused, AnniversaryStep, ReversalInv, ReverseOperations
    PROVE  ReversalInv'
  <1> PlanInv /\ PlanInv' /\ OnPath /\ pc = "ReverseOperations"
    BY DEF AnniversaryStep, Inv, PlanInv, ReverseOperations
  <1>1. Ongoing /\ UNCHANGED scheduled
    BY ReverseEffects
  <1>2. /\ \A id \in payload.entries : subscription[id].renewed = plan.snapshot[id].renewed
        /\ \A item \in payload.netNew \ plan.changed :
              subscription[item].enabled =>
                 item \in DOMAIN plan.snapshot /\ plan.snapshot[item].enabled
        /\ \A id \in payload.entries \ Range(plan.applied) : subscription[id] = plan.snapshot[id]
    BY DEF ReversalInv, AsSeen, Reversible
  <1>3. CASE pc' = "DisableNetNew" /\ plan.applied = <<>> /\ UNCHANGED <<subscription, plan>>
    <2>1. Range(plan.applied) = {}
      BY <1>3 DEF Range
    <2>2. QED
      BY <1>1, <1>2, <1>3, <2>1 DEF ReversalInv, AsSeen, OnlyScheduledRenew, Ongoing
  <1>4. CASE ~(pc' = "DisableNetNew" /\ plan.applied = <<>> /\ UNCHANGED <<subscription, plan>>)
    <2> DEFINE last == plan.applied[Len(plan.applied)]
               seen == plan.snapshot[last]
               less == SubSeq(plan.applied, 1, Len(plan.applied) - 1)
    <2>1. /\ plan.applied # <<>> /\ UNCHANGED pc /\ PlanBut(plan', plan, {"applied"})
          /\ plan'.applied = less
          /\ Written(last, seen.enabled, seen.quantity, seen.codes)
      BY <1>4, ReverseEffects DEF UpdatesAreRefused
    <2>2. last \in payload.entries /\ Range(plan.applied) \subseteq Range(less) \cup {last}
      BY <2>1, AllButLast, CutRange DEF PlanInv, PlanTyped
    <2>3. seen \in Preference
      BY <2>2 DEF PlanInv, PlanTyped, OnPath, AnniversarySteps
    <2>4. subscription[last].renewed = seen.renewed
      BY <1>2, <2>2
    <2>5. subscription'[last] = Updated(subscription[last], seen.enabled, seen.quantity, seen.codes)
      BY <2>1 DEF Written, UpdatedAt
    <2>6. subscription'[last] = seen
      <3> HIDE DEF last, seen
      <3>1. QED
        BY <2>3, <2>4, <2>5 DEF Updated, Preference
    <2>7. \A other \in Subscriptions : other # last => subscription'[other] = subscription[other]
      BY <2>1 DEF Written, UpdatedAt
    <2>8. plan'.changed = plan.changed /\ plan'.snapshot = plan.snapshot /\ UNCHANGED payload
      BY <1>1, <2>1 DEF PlanBut, PlanFields, Ongoing
    <2>9. seen = plan.snapshot[last]
      OBVIOUS
    <2> HIDE DEF last, seen, less
    <2>10. \A id \in payload.entries \ Range(less) : subscription'[id] = plan.snapshot[id]
      BY <1>2, <2>2, <2>6, <2>7, <2>9, PlanParts
    <2>11. \A id \in payload.entries : subscription'[id].renewed = plan.snapshot[id].renewed
      BY <1>2, <2>6, <2>7, <2>9, PlanParts
    <2>12. \A item \in payload.netNew : subscription'[item] = subscription[item]
      BY <2>2, <2>7, PlanParts
    <2>13. AsSeen'
      BY <1>2, <2>1, <2>8, <2>10, <2>11, <2>12 DEF AsSeen, Reversible
    <2>14. OnlyScheduledRenew'
      BY <1>1, <2>8, <2>12 DEF ReversalInv, OnlyScheduledRenew
    <2>15. QED
      BY <2>13, <2>14 DEF ReversalInv
  <1>5. QED
    BY <1>3, <1>4

LEMMA DisableReversal ==
    ASSUME UpdatesAreRefused, AnniversaryStep, ReversalInv, DisableNetNew
    PROVE  ReversalInv'
  <1> PlanInv /\ PlanInv' /\ pc = "DisableNetNew"
    BY DEF AnniversaryStep, Inv, DisableNetNew
  <1>1. CASE Failing
    BY <1>1, OutsideReversal DEF Failing, Idle, Reversible
  <1>2. ASSUME NEW item \in plan.changed, Ongoing, UNCHANGED <<pc, scheduled>>,
               PlanBut(plan', plan, {"changed"}), plan'.changed = plan.changed \ {item},
               NEW quantity \in Nat, NEW codes \in SUBSET {"code"},
               Written(item, FALSE, quantity, codes)
        PROVE  ReversalInv'
    <2>1. /\ item \in payload.netNew /\ plan'.snapshot = plan.snapshot /\ UNCHANGED payload
      BY <1>2, PlanParts DEF PlanBut, PlanFields, Ongoing
    <2>2. \A other \in Subscriptions : other # item => subscription'[other] = subscription[other]
      BY <1>2 DEF Written, UpdatedAt
    <2>3. ~subscription'[item].enabled
      <3>1. subscription'[item].enabled = FALSE
        BY <1>2 DEF Written, UpdatedAt, Updated
      <3>2. QED
        BY <3>1, Zenon
    <2>4. \A id \in payload.entries : subscription'[id] = subscription[id]
      BY <2>1, <2>2, PlanParts
    <2>5. AsSeen'
      BY <1>2, <2>1, <2>2, <2>3, <2>4, PlanParts DEF ReversalInv, AsSeen, Reversible
    <2>6. OnlyScheduledRenew'
      BY <1>2, <2>1, <2>2, <2>3, PlanParts DEF ReversalInv, OnlyScheduledRenew
    <2>7. QED
      BY <2>5, <2>6 DEF ReversalInv
  <1>3. QED
    BY <1>1, <1>2, DisableEffects DEF UpdatesAreRefused

LEMMA ReversalStep ==
    ASSUME UpdatesAreRefused, Inv, AnniversaryInv, ScheduledInv, ReversalInv, [Next]_vars
    PROVE  ReversalInv'
  <1> Inv' /\ PlanInv /\ PlanInv'
    BY InvStep DEF Inv
  <1>1. CASE UNCHANGED vars
    BY <1>1, OutsideReversal DEF vars, passVars, planVars
  <1>2. CASE OnPlan(Platform)
    BY <1>2, OutsideReversal DEF OnPlan, Platform, Dispatch, Abort, Resume, NextDay, Goto, Wait,
       EndPass, Idle, Reversible
  <1>3. CASE OnPlan(Prepare)
    BY <1>3, OutsideReversal DEF OnPlan, Prepare, SetupContext, SetupDueDate,
       ValidateDuplicateLines, ValidateRenewalWindow, CompleteOrder, Continue, Goto, Wait,
       EndPass, Idle, switch_order_to_failed, Decide, Reversible
  <1>4. CASE SetupRenewalPlan(FirstStep) /\ UNCHANGED <<published, nowVars>>
    BY <1>4, SetupReversal
  <1>5. CASE Anniversary /\ UNCHANGED nowVars
    <2>1. AnniversaryStep
      BY <1>5, AnniversaryIsAnniversary, StepContext
    <2>2. CASE CreateNetNewMptSubscriptions("CompleteOrder")
      BY <2>2, OutsideReversal DEF CreateNetNewMptSubscriptions, planVars, Goto, Reversible
    <2>3. QED
      BY <1>5, <2>1, <2>2, CreateReversal, UpdateReversal, ReverseReversal, DisableReversal
         DEF Anniversary
  <1>6. CASE Now
    BY <1>6, NowIsNow, OnlyNow
  <1>7. CASE Adobe
    <2>1. payload.path = "now" /\ UNCHANGED payload
      BY <1>7, AdobeIsNow
         DEF AnniversaryInv, Adobe, AdobeSettlesRenewal, AdobeShowsRenewed, AdobeSettlesReturn
    <2>2. QED
      BY <2>1, OnlyNow
  <1>8. QED
    BY <1>1, <1>2, <1>3, <1>4, <1>5, <1>6, <1>7 DEF Next

LEMMA ReversalAlways ==
    ASSUME UpdatesAreRefused
    PROVE  Spec => []ReversalInv
  <1>1. Init => ReversalInv
    BY RenewalPlanAssumption, PayloadFacts
       DEF Init, PassInit, RenewalPlanInit, Idle, ReversalInv, OnlyScheduledRenew, AsSeen,
           Reversible
  <1>2. Inv /\ AnniversaryInv /\ ScheduledInv /\ ReversalInv /\ [Next]_vars => ReversalInv'
    BY ReversalStep
  <1>3. QED
    BY <1>1, <1>2, InvAlways, AnniversaryInvAlways, ScheduledAlways, PTL DEF Spec

\* An order that _reverse_applied_operations and disable_net_new_subscriptions
\* failed has every subscription as the pass found it, whatever had been
\* applied, and none that the pass scheduled will activate: as long as
\* updates are refused or done, and those of the reversal succeed.
THEOREM FailedPlanIsReversed ==
    ASSUME UpdatesAreRefused
    PROVE  Spec => ReversedToSnapshot
  <1> DEFINE Reversed ==
        status = "Processing" /\ status' = "Failed" /\ pc = "DisableNetNew" =>
          /\ \A id \in payload.entries : subscription[id] = plan.snapshot[id]
          /\ \A item \in payload.netNew :
                subscription[item].enabled =>
                  item \in DOMAIN plan.snapshot /\ plan.snapshot[item].enabled
  <1>1. Inv /\ ReversalInv /\ [Next]_vars => Reversed
    <2> SUFFICES ASSUME Inv, ReversalInv, [Next]_vars, status = "Processing",
                        status' = "Failed", pc = "DisableNetNew"
                 PROVE  plan.changed = {}
      BY DEF ReversalInv, AsSeen, Reversible
    <2>1. PlanInv /\ ~Now
      BY NowIsNow DEF Inv, NowSteps
    <2>2. DisableNetNew
      BY <2>1 DEF Next, vars, passVars, OnPlan, Platform, Dispatch, Abort, Wait, Resume, NextDay,
         Prepare, SetupContext, SetupDueDate, ValidateDuplicateLines, ValidateRenewalWindow,
         CompleteOrder, Continue, SetupRenewalPlan, Adobe, AdobeSettlesRenewal,
         AdobeShowsRenewed, AdobeSettlesReturn,
         Anniversary, CreateNetNewSubscriptions, UpdateRenewalSubscriptions, ReverseOperations,
         CreateNetNewMptSubscriptions
    <2>3. QED
      BY <2>1, <2>2, DisableEffects DEF Ongoing
  <1>2. Inv /\ ReversalInv /\ [Next]_vars => [Reversed]_vars
    BY <1>1
  <1> HIDE DEF Reversed
  <1>3. Spec => [][Reversed]_vars
    BY <1>2, InvAlways, ReversalAlways, PTL DEF Spec
  <1>4. QED
    BY <1>3 DEF ReversedToSnapshot, Reversed

-----------------------------------------------------------------------------
(* The quantity that will renew.                                            *)

Renews(preference) == IF preference.enabled THEN preference.quantity ELSE 0

Total(weight) == SumFunctionOnSet(weight, Subscriptions)

\* What renews, what would renew if this pass were reversed, and what is to
\* renew by a plan.
Weight == [id \in Subscriptions |-> Renews(subscription[id])]

FirstWeight == [id \in Subscriptions |-> Renews(FirstPreference[id])]

Base == [id \in Subscriptions |->
    IF id \in payload.entries \cup payload.netNew
      THEN IF id \in DOMAIN plan.snapshot THEN Renews(plan.snapshot[id]) ELSE 0
      ELSE Renews(FirstPreference[id])]

Planned(entry) == [id \in Subscriptions |->
    IF id \in entry.renewing \cup entry.netNew THEN entry.quantity[id]
    ELSE IF id \in entry.entries THEN 0
    ELSE Renews(FirstPreference[id])]

\* The minimum is met before the order and by every plan, and a product that
\* is scheduled before the order is scheduled with the quantity of the plan.
PlansKeepMinimum ==
    /\ Total(FirstWeight) >= Minimum
    /\ \A entry \in Payloads : entry.path # "now" =>
          /\ Total(Planned(entry)) >= Minimum
          /\ \A item \in entry.netNew :
                FirstPreference[item].enabled => FirstPreference[item].quantity = entry.quantity[item]

Additive(id) == Kind(id) \in {"enable", "increase"}

\* The operations of a pass: each once, additive ones before subtractive ones.
AppliedInOrder ==
    /\ \A id \in Range(plan.applied) : EntryInPlace(id)
    /\ \A id \in payload.entries \ Range(plan.applied) : subscription[id] = plan.snapshot[id]
    /\ \A i, j \in DOMAIN plan.applied : plan.applied[i] = plan.applied[j] => i = j
    /\ \A i, j \in DOMAIN plan.applied :
          i <= j /\ Additive(plan.applied[j]) => Additive(plan.applied[i])
    /\ \/ \A id \in Range(plan.applied) : Additive(id)
       \/ \A id \in payload.entries : Additive(id) => id \in Range(plan.applied)

\* A product that renewed when the pass saw it is left as it was.
ItemsHold ==
    \A item \in payload.netNew : item \in DOMAIN plan.snapshot /\ plan.snapshot[item].enabled =>
       /\ item \notin plan.changed
       /\ subscription[item].enabled
       /\ plan.snapshot[item].quantity = payload.quantity[item]

OthersUntouched ==
    \A id \in Subscriptions \ (payload.entries \cup payload.netNew) :
       subscription[id] = FirstPreference[id]

ItemsAsPlanned ==
    \A item \in payload.netNew :
       subscription[item].enabled => subscription[item].quantity = payload.quantity[item]

\* What the sum of what renews follows from.
Balanced ==
    payload.path # "now" =>
      /\ OthersUntouched
      /\ ItemsAsPlanned
      /\ pc \in Reversible => ItemsHold /\ Total(Base) >= Minimum
      /\ pc \in {"UpdateRenewalSubscriptions", "ReverseOperations"} => AppliedInOrder

DipInv == Balanced /\ (payload.path # "now" => Total(Weight) >= Minimum)

LEMMA FiniteSubscriptions == IsFiniteSet(Subscriptions)
  BY RenewalPlanAssumption, FS_Union DEF Subscriptions

LEMMA RenewsNat == ASSUME NEW preference \in Preference PROVE Renews(preference) \in Nat
  BY DEF Renews, Preference

\* The weights of a plan are quantities.
LEMMA Weights ==
    ASSUME PlanInv
    PROVE  \A id \in Subscriptions :
              /\ Weight[id] \in Nat /\ Base[id] \in Nat /\ Planned(payload)[id] \in Nat
              /\ FirstWeight[id] \in Nat
  <1> SUFFICES ASSUME NEW id \in Subscriptions
               PROVE  /\ Weight[id] \in Nat /\ Base[id] \in Nat /\ Planned(payload)[id] \in Nat
                      /\ FirstWeight[id] \in Nat
    OBVIOUS
  <1>1. subscription[id] \in Preference /\ FirstPreference[id] \in Preference
    BY RenewalPlanAssumption DEF PlanInv, SubscriptionsTyped, Subscriptions
  <1>2. id \in DOMAIN plan.snapshot => plan.snapshot[id] \in Preference
    BY DEF PlanInv, PlanTyped
  <1>3. payload.quantity[id] \in Nat
    BY PayloadFacts DEF PlanInv
  <1>4. QED
    BY <1>1, <1>2, <1>3, RenewsNat DEF Weight, Base, Planned, FirstWeight

\* More than a base that meets the minimum meets it.
LEMMA Above ==
    ASSUME NEW lower, NEW upper,
           \A id \in Subscriptions : lower[id] \in Int /\ upper[id] \in Int /\ lower[id] <= upper[id],
           Total(lower) >= Minimum
    PROVE  Total(upper) >= Minimum
  <1>1. Total(lower) <= Total(upper) /\ Total(lower) \in Int /\ Total(upper) \in Int
    BY FiniteSubscriptions, SumMonotone, SumIsInt DEF Total
  <1>2. QED
    BY <1>1, RenewalOrderAssumption

\* What an entry in place renews, and what its kind says of what it renewed.
LEMMA PlacedRenews ==
    ASSUME NEW id \in payload.entries, EntryInPlace(id), payload.renewing \subseteq payload.entries
    PROVE  Renews(subscription[id]) = IF id \in payload.renewing THEN payload.quantity[id] ELSE 0
  BY DEF EntryInPlace, Renews

LEMMA KindSays ==
    ASSUME NEW id \in payload.entries, plan.snapshot[id] \in Preference,
           payload.quantity[id] \in Nat
    PROVE  LET seen == Renews(plan.snapshot[id])
               wanted == IF id \in payload.renewing THEN payload.quantity[id] ELSE 0
           IN  IF Additive(id) THEN seen <= wanted ELSE seen >= wanted
  BY DEF Additive, Kind, Renews, Preference

\* In every state of a pass that can still be reversed enough renews.
LEMMA ReversibleMeets ==
    ASSUME PlansKeepMinimum, Inv, AnniversaryInv, ReversalInv, Balanced,
           payload.path # "now", pc \in Reversible
    PROVE  Total(Weight) >= Minimum
  <1> PlanInv
    BY DEF Inv
  <1> DEFINE W == Weight
             B == Base
             P == Planned(payload)
  <1>1. /\ OthersUntouched /\ ItemsAsPlanned /\ ItemsHold /\ Total(B) >= Minimum
        /\ pc \in {"UpdateRenewalSubscriptions", "ReverseOperations"} => AppliedInOrder
    BY DEF Balanced
  <1>2. Total(P) >= Minimum
    BY DEF PlanInv, PlansKeepMinimum
  <1>3. \A id \in Subscriptions : W[id] \in Nat /\ B[id] \in Nat /\ P[id] \in Nat
    BY Weights
  <1>4. ASSUME NEW id \in Subscriptions \ (payload.entries \cup payload.netNew)
        PROVE  W[id] = B[id] /\ W[id] = P[id]
    BY <1>1, <1>4, PlanParts DEF OthersUntouched, Weight, Base, Planned
  <1>5. payload.entries \subseteq DOMAIN plan.snapshot
    BY DEF PlanInv, OnPath, Reversible, AnniversarySteps
  <1>6. ASSUME NEW id \in payload.entries
        PROVE  /\ W[id] = Renews(subscription[id]) /\ B[id] = Renews(plan.snapshot[id])
               /\ P[id] = IF id \in payload.renewing THEN payload.quantity[id] ELSE 0
    BY <1>5, <1>6, PlanParts DEF Weight, Base, Planned
  <1>7. ASSUME NEW item \in payload.netNew
        PROVE  B[item] <= W[item]
    <2>1. /\ item \in Subscriptions /\ item \notin payload.entries /\ W[item] = Renews(subscription[item])
          /\ B[item] = IF item \in DOMAIN plan.snapshot THEN Renews(plan.snapshot[item]) ELSE 0
      BY <1>7, PlanParts DEF Weight, Base
    <2>2. CASE item \in DOMAIN plan.snapshot /\ plan.snapshot[item].enabled
      <3>1. Renews(subscription[item]) = payload.quantity[item]
        BY <1>1, <2>2 DEF ItemsHold, ItemsAsPlanned, Renews
      <3>2. Renews(plan.snapshot[item]) = payload.quantity[item]
        BY <1>1, <2>2 DEF ItemsHold, Renews
      <3>3. W[item] = B[item] /\ W[item] \in Nat
        BY <1>3, <2>1, <2>2, <3>1, <3>2
      <3> HIDE DEF W, B
      <3>4. QED
        BY <3>3
    <2>3. CASE ~(item \in DOMAIN plan.snapshot /\ plan.snapshot[item].enabled)
      <3>1. B[item] = 0
        BY <2>1, <2>3 DEF Renews
      <3>2. W[item] \in Nat
        BY <1>3, <2>1
      <3> HIDE DEF W, B
      <3>3. QED
        BY <3>1, <3>2
    <2>4. QED
      BY <2>2, <2>3
  <1>8. CASE \A id \in payload.entries : B[id] <= W[id]
    <2>1. \A id \in Subscriptions : B[id] \in Int /\ W[id] \in Int /\ B[id] <= W[id]
      <3> HIDE DEF W, B, P
      <3>1. QED
        BY <1>3, <1>4, <1>7, <1>8
    <2>2. QED
      BY <1>1, <2>1, Above
  <1>9. CASE pc \in {"CreateNetNewSubscriptions", "DisableNetNew"}
    <2>1. \A id \in payload.entries : subscription[id] = plan.snapshot[id]
      BY <1>9 DEF AnniversaryInv, EntriesSeen, ReversalInv, AsSeen
    <2>2. \A id \in payload.entries : B[id] = W[id] /\ W[id] \in Nat
      BY <1>3, <1>6, <2>1, PlanParts
    <2>3. \A id \in payload.entries : B[id] <= W[id]
      <3> HIDE DEF W, B
      <3>1. QED
        BY <2>2
    <2>4. QED
      BY <1>8, <2>3
  <1>10. CASE pc \in {"UpdateRenewalSubscriptions", "ReverseOperations"}
    <2>1. AppliedInOrder
      BY <1>1, <1>10
    <2>2. ASSUME NEW id \in payload.entries
          PROVE  /\ W[id] \in Nat /\ B[id] \in Nat /\ P[id] \in Nat
                 /\ IF id \in Range(plan.applied) THEN W[id] = P[id] ELSE W[id] = B[id]
                 /\ IF Additive(id) THEN B[id] <= P[id] ELSE B[id] >= P[id]
      <3>1. id \in Subscriptions /\ plan.snapshot[id] \in Preference /\ payload.quantity[id] \in Nat
        BY <1>5, PlanParts, PayloadFacts DEF PlanInv, PlanTyped
      <3>2. IF id \in Range(plan.applied) THEN W[id] = P[id] ELSE W[id] = B[id]
        BY <1>6, <2>1, PlacedRenews, PlanParts DEF AppliedInOrder
      <3>3. IF Additive(id) THEN B[id] <= P[id] ELSE B[id] >= P[id]
        BY <1>6, <3>1, KindSays
      <3>4. QED
        BY <1>3, <3>1, <3>2, <3>3
    <2>3. CASE \A id \in Range(plan.applied) : Additive(id)
      <3>1. \A id \in payload.entries : B[id] <= W[id]
        <4> HIDE DEF W, B, P
        <4>1. QED
          BY <2>2, <2>3
      <3>2. QED
        BY <1>8, <3>1
    <2>4. CASE \A id \in payload.entries : Additive(id) => id \in Range(plan.applied)
      <3>1. \A item \in payload.netNew : P[item] = payload.quantity[item]
        BY PlanParts DEF Planned
      <3>2. \A item \in payload.netNew : P[item] <= W[item]
        <4>1. \A item \in payload.netNew : W[item] = P[item]
          BY <1>10, <3>1, PlanParts
             DEF AnniversaryInv, ItemsResolved, ItemInPlace, Weight, Renews
        <4>2. \A item \in payload.netNew : W[item] \in Nat
          BY <1>3, PlanParts
        <4> HIDE DEF W, P
        <4>3. QED
          BY <4>1, <4>2
      <3>3. \A id \in Subscriptions : P[id] \in Int /\ W[id] \in Int /\ P[id] <= W[id]
        <4> HIDE DEF W, B, P
        <4>1. QED
          BY <1>3, <1>4, <2>2, <2>4, <3>2
      <3>4. QED
        BY <1>2, <3>3, Above
    <2>5. QED
      BY <2>1, <2>3, <2>4 DEF AppliedInOrder
  <1>11. QED
    BY <1>9, <1>10 DEF Reversible

LEMMA OutsideBalanced ==
    ASSUME Balanced, UNCHANGED <<payload, subscription>>,
           pc' \notin Reversible \/ UNCHANGED <<pc, plan>>
    PROVE  Balanced'
  <1>1. OthersUntouched' = OthersUntouched /\ ItemsAsPlanned' = ItemsAsPlanned
    BY DEF OthersUntouched, ItemsAsPlanned
  <1>2. CASE pc' \notin Reversible
    BY <1>1, <1>2 DEF Balanced, Reversible
  <1>3. CASE UNCHANGED <<pc, plan>>
    <2>1. ItemsHold' = ItemsHold /\ Base' = Base /\ AppliedInOrder' = AppliedInOrder
      BY <1>3 DEF ItemsHold, Base, AppliedInOrder, EntryInPlace, Additive, Kind
    <2>2. QED
      BY <1>1, <1>3, <2>1 DEF Balanced
  <1>4. QED
    BY <1>2, <1>3

LEMMA NowBalanced ==
    ASSUME payload.path = "now", UNCHANGED payload
    PROVE  Balanced'
  BY DEF Balanced

\* What is reversed to stays the same while a pass goes on.
LEMMA BaseKept ==
    ASSUME UNCHANGED payload, plan'.snapshot = plan.snapshot
    PROVE  Base' = Base
  BY DEF Base

LEMMA SetupBalanced ==
    ASSUME Inv, ReversalInv, DipInv, SetupRenewalPlan(FirstStep)
    PROVE  Balanced'
  <1> PlanInv
    BY DEF Inv
  <1>1. CASE payload.path = "now"
    BY <1>1, NowBalanced, SetupEffects DEF Failing, Ongoing
  <1>2. CASE Failing
    BY <1>2, OutsideBalanced DEF Failing, Idle, Reversible, DipInv
  <1>3. CASE payload.path # "now" /\ ~Failing
    <2>1. /\ Ongoing /\ UNCHANGED <<subscription, scheduled>>
          /\ pc' = "CreateNetNewSubscriptions"
          /\ PlanBut(plan', NoPlan, {"snapshot"})
          /\ DOMAIN plan'.snapshot =
                payload.entries \cup {p \in payload.netNew : scheduled[p] > 0}
          /\ \A id \in DOMAIN plan'.snapshot : plan'.snapshot[id] = subscription[id]
      BY <1>3, SetupEffects DEF FirstStep
    <2>2. OthersUntouched /\ ItemsAsPlanned /\ Total(Weight) >= Minimum
      BY <1>3 DEF DipInv, Balanced
    <2>3. UNCHANGED payload /\ plan'.changed = {}
      BY <2>1 DEF Ongoing, PlanBut, PlanFields, NoPlan
    <2>4. OthersUntouched' /\ ItemsAsPlanned'
      BY <2>1, <2>2, <2>3 DEF OthersUntouched, ItemsAsPlanned
    <2>5. ItemsHold'
      BY <2>1, <2>2, <2>3 DEF ItemsHold, ItemsAsPlanned
    <2>6. Base' = Weight
      <3>1. ASSUME NEW id \in Subscriptions
            PROVE  Base'[id] = Weight[id]
        <4>1. CASE id \in payload.entries \cup payload.netNew /\ id \in DOMAIN plan'.snapshot
          BY <2>1, <2>3, <3>1, <4>1 DEF Base, Weight
        <4>2. CASE id \in payload.entries \cup payload.netNew /\ id \notin DOMAIN plan'.snapshot
          <5>1. id \in payload.netNew /\ scheduled[id] = 0
            BY <2>1, <4>2, PlanParts DEF PlanInv
          <5>2. ~subscription[id].enabled
            BY <1>3, <5>1 DEF ReversalInv, OnlyScheduledRenew
          <5>3. QED
            BY <2>3, <3>1, <4>2, <5>2 DEF Base, Weight, Renews
        <4>3. CASE id \notin payload.entries \cup payload.netNew
          BY <2>2, <2>3, <3>1, <4>3 DEF Base, Weight, OthersUntouched
        <4>4. QED
          BY <4>1, <4>2, <4>3
      <3>2. QED
        BY <3>1 DEF Base, Weight
    <2>7. Total(Base)' >= Minimum
      BY <2>2, <2>6 DEF Total
    <2>8. QED
      BY <2>1, <2>4, <2>5, <2>7 DEF Balanced
  <1>4. QED
    BY <1>1, <1>2, <1>3

\* A step of a pass that can still be reversed, on one of its products.
LEMMA ItemBalanced ==
    ASSUME PlanInv, Balanced, payload.path # "now", pc \in Reversible, pc' \in Reversible,
           pc' \notin {"UpdateRenewalSubscriptions", "ReverseOperations"},
           UNCHANGED payload, plan'.snapshot = plan.snapshot,
           NEW item \in payload.netNew,
           \A other \in Subscriptions : other # item => subscription'[other] = subscription[other],
           subscription'[item].enabled => subscription'[item].quantity = payload.quantity[item],
           \A other \in payload.netNew : other # item =>
              (other \in plan'.changed => other \in plan.changed),
           item \in DOMAIN plan.snapshot /\ plan.snapshot[item].enabled =>
              item \notin plan'.changed /\ subscription'[item].enabled
    PROVE  Balanced'
  <1>1. OthersUntouched /\ ItemsAsPlanned /\ ItemsHold /\ Total(Base) >= Minimum
    BY DEF Balanced
  <1>2. OthersUntouched'
    BY <1>1, PlanParts DEF OthersUntouched
  <1>3. ItemsAsPlanned'
    BY <1>1, PlanParts DEF ItemsAsPlanned
  <1>4. ItemsHold'
    BY <1>1, PlanParts DEF ItemsHold
  <1>5. Total(Base)' >= Minimum
    BY <1>1, BaseKept DEF Total
  <1>6. QED
    BY <1>2, <1>3, <1>4, <1>5 DEF Balanced

LEMMA CreateBalanced ==
    ASSUME UpdatesAreRefused, AnniversaryStep, Balanced,
           CreateNetNewSubscriptions("UpdateRenewalSubscriptions")
    PROVE  Balanced'
  <1> PlanInv /\ payload.path # "now"
    BY DEF AnniversaryStep, Inv
  <1>1. Ongoing /\ pc = "CreateNetNewSubscriptions" /\ UNCHANGED payload
    BY CreateEffects DEF CreateNetNewSubscriptions, Ongoing
  <1>2. OthersUntouched /\ ItemsAsPlanned /\ ItemsHold /\ Total(Base) >= Minimum
    BY <1>1 DEF Balanced, Reversible
  <1>3. CASE /\ pc' \in {"UpdateRenewalSubscriptions", "DisableNetNew"}
             /\ UNCHANGED <<subscription, scheduled, plan>>
    <2>1. OthersUntouched' /\ ItemsAsPlanned' /\ ItemsHold' /\ Total(Base)' >= Minimum
      BY <1>1, <1>2, <1>3, BaseKept DEF OthersUntouched, ItemsAsPlanned, ItemsHold, Total
    <2>2. /\ plan'.applied = <<>>
          /\ \A id \in payload.entries : subscription[id] = plan.snapshot[id]
      BY <1>1, <1>3 DEF AnniversaryStep, AnniversaryInv, EntriesSeen
    <2>3. AppliedInOrder'
      <3>1. Range(plan'.applied) = {} /\ DOMAIN plan'.applied = {}
        BY <2>2 DEF Range
      <3>2. QED
        BY <1>1, <1>3, <2>2, <3>1 DEF AppliedInOrder
    <2>4. QED
      BY <2>1, <2>3 DEF Balanced
  <1>4. ASSUME NEW item, ItemRefused(item)
        PROVE  pc' = "DisableNetNew" /\ UNCHANGED <<subscription, scheduled, plan>>
    BY <1>4 DEF ItemRefused, UpdatesAreRefused
  <1>5. ASSUME NEW item \in payload.netNew \ plan.netNew, ItemReused(item) \/ ItemScheduled(item)
        PROVE  Balanced'
    <2>1. UNCHANGED pc /\ plan'.snapshot = plan.snapshot
      BY <1>5 DEF ItemReused, ItemScheduled, PlanBut, PlanFields
    <2>2. \A other \in Subscriptions : other # item => subscription'[other] = subscription[other]
      BY <1>5, WrittenAt DEF ItemReused, ItemScheduled
    <2>3. \A other \in payload.netNew : other # item =>
             (other \in plan'.changed => other \in plan.changed)
      BY <1>5 DEF ItemReused, ItemScheduled, PlanBut, PlanFields
    <2>4. subscription'[item].enabled => subscription'[item].quantity = payload.quantity[item]
      BY <1>2, <1>5, WrittenAt DEF ItemReused, ItemScheduled, ItemsAsPlanned
    <2>5. item \in DOMAIN plan.snapshot /\ plan.snapshot[item].enabled =>
             item \notin plan'.changed /\ subscription'[item].enabled
      <3>1. ItemScheduled(item) =>
              ~(item \in DOMAIN plan.snapshot /\ plan.snapshot[item].enabled)
        BY <1>2 DEF ItemScheduled, ItemsHold, ScheduledAsPlanned
      <3>2. CASE ItemReused(item)
        BY <1>2, <3>2 DEF ItemReused, ItemsHold, PlanBut, PlanFields
      <3>3. QED
        BY <1>5, <3>1, <3>2
    <2>6. QED
      BY <1>1, <2>1, <2>2, <2>3, <2>4, <2>5, ItemBalanced DEF Reversible
  <1>6. QED
    BY <1>3, <1>4, <1>5, CreateEffects

LEMMA DisableBalanced ==
    ASSUME UpdatesAreRefused, AnniversaryStep, Balanced, DisableNetNew
    PROVE  Balanced'
  <1> PlanInv /\ payload.path # "now" /\ pc = "DisableNetNew"
    BY DEF AnniversaryStep, Inv, DisableNetNew
  <1>1. CASE Failing
    BY <1>1, OutsideBalanced DEF Failing, Idle, Reversible
  <1>2. ASSUME NEW item \in plan.changed, Ongoing, UNCHANGED <<pc, scheduled>>,
               PlanBut(plan', plan, {"changed"}), plan'.changed = plan.changed \ {item},
               NEW quantity \in Nat, NEW codes \in SUBSET {"code"},
               Written(item, FALSE, quantity, codes)
        PROVE  Balanced'
    <2>1. /\ item \in payload.netNew /\ plan'.snapshot = plan.snapshot /\ UNCHANGED payload
          /\ \A other \in payload.netNew : other # item =>
                (other \in plan'.changed => other \in plan.changed)
      BY <1>2, PlanParts DEF PlanBut, PlanFields, Ongoing
    <2>2. \A other \in Subscriptions : other # item => subscription'[other] = subscription[other]
      BY <1>2 DEF Written, UpdatedAt
    <2>3. ~subscription'[item].enabled
      <3>1. subscription'[item].enabled = FALSE
        BY <1>2 DEF Written, UpdatedAt, Updated
      <3>2. QED
        BY <3>1, Zenon
    <2>4. ~(item \in DOMAIN plan.snapshot /\ plan.snapshot[item].enabled)
      BY <1>2, <2>1 DEF Balanced, Reversible, ItemsHold
    <2>5. QED
      BY <1>2, <2>1, <2>2, <2>3, <2>4, ItemBalanced DEF Reversible
  <1>3. QED
    BY <1>1, <1>2, DisableEffects DEF UpdatesAreRefused

\* Entries and products of the plan but the one written are left alone.
LEMMA EntryBalanced ==
    ASSUME PlanInv, Balanced, payload.path # "now", pc \in Reversible,
           UNCHANGED payload, plan'.snapshot = plan.snapshot, plan'.changed = plan.changed,
           NEW id \in payload.entries,
           \A other \in Subscriptions : other # id => subscription'[other] = subscription[other],
           AppliedInOrder'
    PROVE  Balanced'
  <1>1. OthersUntouched /\ ItemsAsPlanned /\ ItemsHold /\ Total(Base) >= Minimum
    BY DEF Balanced
  <1>2. OthersUntouched'
    BY <1>1, PlanParts DEF OthersUntouched
  <1>3. \A item \in payload.netNew : subscription'[item] = subscription[item]
    BY PlanParts
  <1>4. ItemsAsPlanned'
    BY <1>1, <1>3 DEF ItemsAsPlanned
  <1>5. ItemsHold'
    BY <1>1, <1>3 DEF ItemsHold
  <1>6. Total(Base)' >= Minimum
    BY <1>1, BaseKept DEF Total
  <1>7. QED
    BY <1>2, <1>4, <1>5, <1>6 DEF Balanced

LEMMA EntryElsewhere ==
    ASSUME UNCHANGED payload, NEW id, subscription'[id] = subscription[id]
    PROVE  EntryInPlace(id)' = EntryInPlace(id)
  BY DEF EntryInPlace

\* What an operation is depends on what the pass saw.
LEMMA KindKept ==
    ASSUME UNCHANGED payload, plan'.snapshot = plan.snapshot
    PROVE  \A id : Additive(id)' = Additive(id)
  BY DEF Additive, Kind

LEMMA RankAdditive ==
    ASSUME NEW id, NEW other, Kind(id) # "none", Kind(other) # "none",
           Rank[Kind(id)] <= Rank[Kind(other)], Additive(other)
    PROVE  Additive(id)
  <1>1. Kind(id) \in {"enable", "increase", "decrease", "disable"}
    BY DEF Kind
  <1>2. Rank[Kind(other)] <= 2
    BY DEF Rank, Additive
  <1>3. QED
    BY <1>1, <1>2 DEF Rank, Additive

LEMMA UpdateBalanced ==
    ASSUME UpdatesAreRefused, AnniversaryStep, Balanced,
           UpdateRenewalSubscriptions("CreateNetNewMptSubscriptions")
    PROVE  Balanced'
  <1> PlanInv /\ payload.path # "now"
    BY DEF AnniversaryStep, Inv
  <1>1. /\ Ongoing /\ UNCHANGED scheduled /\ pc = "UpdateRenewalSubscriptions"
        /\ UNCHANGED payload
    BY UpdateEffects DEF UpdateRenewalSubscriptions, Ongoing
  <1>2. AppliedInOrder /\ OthersUntouched /\ ItemsAsPlanned /\ ItemsHold /\ Total(Base) >= Minimum
    BY <1>1 DEF Balanced, Reversible
  <1>3. CASE pc' = "CreateNetNewMptSubscriptions" /\ UNCHANGED <<subscription, plan>>
    BY <1>1, <1>3, OutsideBalanced DEF Reversible
  <1>4. CASE pc' = "ReverseOperations" /\ UNCHANGED <<subscription, plan>>
    <2>1. /\ OthersUntouched' = OthersUntouched /\ ItemsAsPlanned' = ItemsAsPlanned
          /\ ItemsHold' = ItemsHold /\ Base' = Base /\ AppliedInOrder' = AppliedInOrder
      BY <1>1, <1>4 DEF OthersUntouched, ItemsAsPlanned, ItemsHold, Base, AppliedInOrder,
         EntryInPlace, Additive, Kind
    <2>2. QED
      BY <1>2, <2>1 DEF Balanced
  <1>5. ASSUME NEW id \in Operations, UNCHANGED pc, EntryWritten(id),
               \A other \in Operations : Rank[Kind(id)] <= Rank[Kind(other)],
               PlanBut(plan', plan, {"applied"}), plan'.applied = Append(plan.applied, id)
        PROVE  Balanced'
    <2>1. /\ id \in payload.entries /\ id \notin Range(plan.applied) /\ Kind(id) # "none"
          /\ plan'.changed = plan.changed /\ plan'.snapshot = plan.snapshot
      BY <1>5 DEF Operations, PlanBut, PlanFields
    <2>2. /\ EntryInPlace(id)'
          /\ \A other \in Subscriptions : other # id => subscription'[other] = subscription[other]
      BY <1>1, <1>5, EntryWrittenAt
    <2>3. /\ plan.applied \in Seq(payload.entries)
          /\ Range(plan'.applied) = Range(plan.applied) \cup {id}
      BY <1>5, <2>1, AppendedRange DEF PlanInv, PlanTyped
    <2>4. \A other \in payload.entries : other # id =>
             subscription'[other] = subscription[other] /\ EntryInPlace(other)' = EntryInPlace(other)
      BY <1>1, <2>2, PlanParts, EntryElsewhere
    <2> DEFINE n == Len(plan.applied)
    <2>5. /\ DOMAIN plan.applied = 1 .. n /\ n \in Nat
          /\ DOMAIN plan'.applied = 1 .. n + 1
          /\ \A i \in 1 .. n : plan'.applied[i] = plan.applied[i]
          /\ plan'.applied[n + 1] = id
          /\ \A i \in 1 .. n : plan.applied[i] \in payload.entries /\ plan.applied[i] \in Range(plan.applied)
      <3> DEFINE s == plan.applied
                 more == Append(s, id)
      <3>1. /\ Len(more) = n + 1 /\ more \in Seq(payload.entries)
            /\ \A i \in 1 .. n : more[i] = plan.applied[i]
            /\ more[n + 1] = id
        <4>1. s \in Seq(payload.entries) /\ n = Len(s)
          BY <2>3
        <4> HIDE DEF s, n
        <4>2. /\ Len(more) = n + 1 /\ more \in Seq(payload.entries)
              /\ \A i \in 1 .. n : more[i] = s[i]
              /\ more[n + 1] = id
          BY <2>1, <4>1, AppendProperties
        <4>3. QED
          BY <4>2 DEF s
      <3>4. plan'.applied = more
        BY <1>5
      <3> HIDE DEF more
      <3>2. DOMAIN plan.applied = 1 .. n /\ n \in Nat /\ DOMAIN plan'.applied = 1 .. n + 1
        BY <2>3, <3>1, <3>4, LenProperties
      <3>3. \A i \in 1 .. n : plan.applied[i] \in payload.entries /\ plan.applied[i] \in Range(plan.applied)
        BY <2>3, <3>2, ElementOfSeq DEF Range
      <3>5. QED
        BY <3>1, <3>2, <3>3, <3>4
    <2> HIDE DEF n
    <2>6. \A i \in 1 .. n + 1 : i \in 1 .. n \/ i = n + 1
      BY <2>5
    <2>7. \A other : Additive(other)' = Additive(other)
      BY <1>1, <2>1, KindKept
    <2>8. ~Additive(id) => \A other \in payload.entries : Additive(other) => other \in Range(plan.applied)
      <3> SUFFICES ASSUME ~Additive(id), NEW other \in payload.entries, Additive(other),
                          other \notin Range(plan.applied)
                   PROVE  FALSE
        OBVIOUS
      <3>1. Kind(other) # "none"
        BY DEF Additive
      <3>2. other \in Operations
        BY <3>1 DEF Operations
      <3>3. QED
        BY <1>5, <2>1, <3>1, <3>2, RankAdditive
    <2>9. \A other \in Range(plan.applied) : EntryInPlace(other)
      BY <1>2 DEF AppliedInOrder
    <2>10. Range(plan.applied) \subseteq payload.entries
      BY <2>3, <2>5 DEF Range
    <2>11. /\ \A other \in Range(plan'.applied) : EntryInPlace(other)'
           /\ \A other \in payload.entries \ Range(plan'.applied) :
                 subscription'[other] = plan'.snapshot[other]
      <3>1. \A other \in Range(plan'.applied) : EntryInPlace(other)'
        BY <2>2, <2>3, <2>4, <2>9, <2>10
      <3>2. \A other \in payload.entries \ Range(plan'.applied) :
               subscription'[other] = plan'.snapshot[other]
        BY <1>2, <2>1, <2>3, <2>4 DEF AppliedInOrder
      <3>3. QED
        BY <3>1, <3>2
    <2>12. \A i, j \in DOMAIN plan'.applied : plan'.applied[i] = plan'.applied[j] => i = j
      <3>1. \A i, j \in 1 .. n : plan.applied[i] = plan.applied[j] => i = j
        BY <1>2, <2>5 DEF AppliedInOrder
      <3>2. \A i \in 1 .. n : plan.applied[i] # id
        BY <2>1, <2>5
      <3>3. QED
        BY <2>5, <2>6, <3>1, <3>2
    <2>13. \/ \A other \in Range(plan.applied) : Additive(other)
           \/ \A other \in payload.entries : Additive(other) => other \in Range(plan.applied)
      BY <1>2 DEF AppliedInOrder
    <2>14. \A i, j \in DOMAIN plan'.applied :
              i <= j /\ Additive(plan'.applied[j]) => Additive(plan'.applied[i])
      <3>1. \A i, j \in 1 .. n : i <= j /\ Additive(plan.applied[j]) => Additive(plan.applied[i])
        BY <1>2, <2>5 DEF AppliedInOrder
      <3>2. Additive(id) => \A i \in 1 .. n : Additive(plan.applied[i])
        BY <2>1, <2>5, <2>13
      <3> HIDE DEF Additive
      <3>3. QED
        BY <2>5, <2>6, <3>1, <3>2
    <2>15. \/ \A other \in Range(plan'.applied) : Additive(other)
           \/ \A other \in payload.entries : Additive(other) => other \in Range(plan'.applied)
      BY <2>3, <2>8, <2>13
    <2>16. AppliedInOrder'
      BY <1>1, <2>7, <2>11, <2>12, <2>14, <2>15 DEF AppliedInOrder
    <2>17. QED
      BY <1>1, <2>1, <2>2, <2>16, EntryBalanced DEF Reversible
  <1>6. QED
    BY <1>3, <1>4, <1>5, UpdateEffects DEF UpdatesAreRefused

LEMMA ReverseBalanced ==
    ASSUME UpdatesAreRefused, AnniversaryStep, ReversalInv, ReversalInv', Balanced,
           ReverseOperations
    PROVE  Balanced'
  <1> PlanInv /\ OnPath /\ payload.path # "now" /\ pc = "ReverseOperations"
    BY DEF AnniversaryStep, Inv, PlanInv, ReverseOperations
  <1>1. Ongoing /\ UNCHANGED scheduled /\ UNCHANGED payload
    BY ReverseEffects DEF Ongoing
  <1>2. AppliedInOrder /\ OthersUntouched /\ ItemsAsPlanned /\ ItemsHold /\ Total(Base) >= Minimum
    BY DEF Balanced, Reversible
  <1>3. CASE pc' = "DisableNetNew" /\ plan.applied = <<>> /\ UNCHANGED <<subscription, plan>>
    <2>1. /\ OthersUntouched' = OthersUntouched /\ ItemsAsPlanned' = ItemsAsPlanned
          /\ ItemsHold' = ItemsHold /\ Base' = Base
      BY <1>1, <1>3 DEF OthersUntouched, ItemsAsPlanned, ItemsHold, Base
    <2>2. QED
      BY <1>2, <1>3, <2>1 DEF Balanced
  <1>4. CASE ~(pc' = "DisableNetNew" /\ plan.applied = <<>> /\ UNCHANGED <<subscription, plan>>)
    <2> DEFINE last == plan.applied[Len(plan.applied)]
               seen == plan.snapshot[last]
               less == SubSeq(plan.applied, 1, Len(plan.applied) - 1)
               n == Len(plan.applied)
    <2>1. /\ plan.applied # <<>> /\ UNCHANGED pc /\ PlanBut(plan', plan, {"applied"})
          /\ plan'.applied = less
          /\ Written(last, seen.enabled, seen.quantity, seen.codes)
      BY <1>4, ReverseEffects DEF UpdatesAreRefused
    <2>2. /\ n \in Nat \ {0} /\ last \in payload.entries /\ Len(less) = n - 1
          /\ less \in Seq(payload.entries)
          /\ \A i \in 1 .. n - 1 : less[i] = plan.applied[i]
      BY <2>1, AllButLast DEF PlanInv, PlanTyped
    <2>3. DOMAIN plan.applied = 1 .. n /\ DOMAIN less = 1 .. n - 1
      BY <2>2, LenProperties DEF PlanInv, PlanTyped
    <2>4. last = plan.applied[n] /\ plan'.changed = plan.changed /\ plan'.snapshot = plan.snapshot
      BY <2>1 DEF PlanBut, PlanFields
    <2>5. \A other \in Subscriptions : other # last => subscription'[other] = subscription[other]
      BY <2>1 DEF Written, UpdatedAt
    <2> HIDE DEF last, seen, less, n
    <2>6. \A i \in 1 .. n - 1 : i \in 1 .. n /\ i # n
      BY <2>2
    <2>7. n \in 1 .. n /\ \A i \in 1 .. n : i \in 1 .. n - 1 \/ i = n
      BY <2>2
    <2>8. Range(less) \subseteq Range(plan.applied) /\ last \notin Range(less)
      BY <1>2, <2>2, <2>3, <2>4, <2>6, <2>7 DEF AppliedInOrder, Range
    <2>9. Range(plan.applied) = Range(less) \cup {last}
      BY <2>2, <2>3, <2>4, <2>6, <2>7 DEF Range
    <2>10. Range(less) \subseteq payload.entries
      BY <2>2, <2>3, ElementOfSeq DEF Range
    <2>11. \A other : Additive(other)' = Additive(other)
      BY <1>1, <2>4, KindKept
    <2>12. \A id \in Range(less) : EntryInPlace(id)'
      <3>1. \A id \in Range(less) : EntryInPlace(id) /\ subscription'[id] = subscription[id]
        BY <1>2, <2>5, <2>8, <2>10, PlanParts DEF AppliedInOrder
      <3>2. QED
        BY <1>1, <3>1, EntryElsewhere
    <2>13. \A id \in payload.entries \ Range(less) : subscription'[id] = plan'.snapshot[id]
      BY <1>1, <2>1 DEF ReversalInv, AsSeen
    <2>14. \A i, j \in DOMAIN less : less[i] = less[j] => i = j
      BY <1>2, <2>2, <2>3, <2>6 DEF AppliedInOrder
    <2>15. \A i, j \in DOMAIN less : i <= j /\ Additive(less[j]) => Additive(less[i])
      <3>1. \A i, j \in DOMAIN plan.applied :
               i <= j /\ Additive(plan.applied[j]) => Additive(plan.applied[i])
        BY <1>2 DEF AppliedInOrder
      <3> HIDE DEF Additive
      <3>2. QED
        BY <2>2, <2>3, <2>6, <3>1
    <2>16. Additive(last) => \A id \in Range(plan.applied) : Additive(id)
      <3>1. \A i, j \in DOMAIN plan.applied :
               i <= j /\ Additive(plan.applied[j]) => Additive(plan.applied[i])
        BY <1>2 DEF AppliedInOrder
      <3>2. \A i \in 1 .. n : i <= n
        BY <2>2
      <3> HIDE DEF Additive
      <3>3. QED
        BY <2>3, <2>4, <2>7, <3>1, <3>2 DEF Range
    <2>17. \/ \A id \in Range(less) : Additive(id)
           \/ \A id \in payload.entries : Additive(id) => id \in Range(less)
      <3>1. \/ \A id \in Range(plan.applied) : Additive(id)
            \/ \A id \in payload.entries : Additive(id) => id \in Range(plan.applied)
        BY <1>2 DEF AppliedInOrder
      <3>2. QED
        BY <2>8, <2>9, <2>16, <3>1
    <2>18. AppliedInOrder'
      BY <1>1, <2>1, <2>11, <2>12, <2>13, <2>14, <2>15, <2>17 DEF AppliedInOrder
    <2>19. QED
      BY <1>1, <2>2, <2>4, <2>5, <2>18, EntryBalanced DEF Reversible
  <1>5. QED
    BY <1>3, <1>4

LEMMA BalancedStep ==
    ASSUME UpdatesAreRefused, Inv, AnniversaryInv, ScheduledInv, ReversalInv, DipInv, [Next]_vars
    PROVE  Balanced'
  <1> Inv' /\ PlanInv /\ PlanInv' /\ Balanced /\ ReversalInv'
    BY InvStep, ReversalStep DEF Inv, DipInv
  <1>1. CASE UNCHANGED vars
    BY <1>1, OutsideBalanced DEF vars, passVars, planVars
  <1>2. CASE OnPlan(Platform)
    BY <1>2, OutsideBalanced DEF OnPlan, Platform, Dispatch, Abort, Resume, NextDay, Goto, Wait,
       EndPass, Idle, Reversible
  <1>3. CASE OnPlan(Prepare)
    BY <1>3, OutsideBalanced DEF OnPlan, Prepare, SetupContext, SetupDueDate,
       ValidateDuplicateLines, ValidateRenewalWindow, CompleteOrder, Continue, Goto, Wait,
       EndPass, Idle, switch_order_to_failed, Decide, Reversible
  <1>4. CASE SetupRenewalPlan(FirstStep)
    BY <1>4, SetupBalanced
  <1>5. CASE Anniversary /\ UNCHANGED nowVars
    <2>1. AnniversaryStep
      BY <1>5, AnniversaryIsAnniversary, StepContext
    <2>2. CASE CreateNetNewMptSubscriptions("CompleteOrder")
      BY <2>2, OutsideBalanced DEF CreateNetNewMptSubscriptions, planVars, Goto, Reversible
    <2>3. QED
      BY <1>5, <2>1, <2>2, CreateBalanced, UpdateBalanced, ReverseBalanced, DisableBalanced
         DEF Anniversary
  <1>6. CASE Now
    BY <1>6, NowIsNow, NowBalanced
  <1>7. CASE Adobe
    <2>1. payload.path = "now" /\ UNCHANGED payload
      BY <1>7, AdobeIsNow
         DEF AnniversaryInv, Adobe, AdobeSettlesRenewal, AdobeShowsRenewed, AdobeSettlesReturn
    <2>2. QED
      BY <2>1, NowBalanced
  <1>8. QED
    BY <1>1, <1>2, <1>3, <1>4, <1>5, <1>6, <1>7 DEF Next

\* Where a pass cannot be reversed any more, nothing is written.
LEMMA WrittenOnlyReversible ==
    ASSUME UpdatesAreRefused, Inv, AnniversaryInv, [Next]_vars, payload.path # "now",
           pc' \notin Reversible
    PROVE  UNCHANGED subscription
  <1> PlanInv
    BY DEF Inv
  <1>1. ~Now /\ ~Adobe
    BY NowIsNow, AdobeIsNow DEF AnniversaryInv
  <1>2. CASE Anniversary
    <2>1. CASE CreateNetNewSubscriptions("UpdateRenewalSubscriptions")
      BY <2>1, CreateEffects
         DEF ItemReused, ItemScheduled, ItemRefused, CreateNetNewSubscriptions, Reversible
    <2>2. CASE DisableNetNew
      BY <2>2, DisableEffects DEF Failing, DisableNetNew, Reversible
    <2>3. CASE UpdateRenewalSubscriptions("CreateNetNewMptSubscriptions")
      BY <2>3, UpdateEffects DEF UpdateRenewalSubscriptions, Reversible
    <2>4. CASE ReverseOperations
      BY <2>4, ReverseEffects DEF PlanInv, ReverseOperations, Reversible
    <2>5. CASE CreateNetNewMptSubscriptions("CompleteOrder")
      BY <2>5 DEF CreateNetNewMptSubscriptions, planVars
    <2>6. QED
      BY <1>2, <2>1, <2>2, <2>3, <2>4, <2>5 DEF Anniversary
  <1>3. CASE SetupRenewalPlan(FirstStep)
    BY <1>3, SetupEffects DEF Failing
  <1>4. QED
    BY <1>1, <1>2, <1>3 DEF Next, OnPlan, vars, planVars

LEMMA ReversibleMeetsNext ==
    ASSUME PlansKeepMinimum
    PROVE  (Inv /\ AnniversaryInv /\ ReversalInv /\ Balanced /\ payload.path # "now"
              /\ pc \in Reversible => Total(Weight) >= Minimum)'
  <1>1. Inv /\ AnniversaryInv /\ ReversalInv /\ Balanced /\ payload.path # "now"
          /\ pc \in Reversible => Total(Weight) >= Minimum
    BY ReversibleMeets
  <1>2. QED
    BY <1>1, PTL

LEMMA DipStep ==
    ASSUME UpdatesAreRefused, PlansKeepMinimum, Inv, AnniversaryInv, ScheduledInv, ReversalInv,
           DipInv, [Next]_vars
    PROVE  DipInv'
  <1>1. Balanced' /\ Inv' /\ AnniversaryInv' /\ ReversalInv'
    BY BalancedStep, InvStep, AnniversaryInvStep, ReversalStep
  <1>2. UNCHANGED payload
    BY NowIsNow, SetupEffects DEF Next, Inv, OnPlan, vars, planVars, Failing, Ongoing, Anniversary,
       CreateNetNewSubscriptions, UpdateRenewalSubscriptions, ReverseOperations, DisableNetNew,
       FailRenewal, StopPlan, CreateNetNewMptSubscriptions, Adobe, AdobeSettlesRenewal,
       AdobeShowsRenewed, AdobeSettlesReturn
  <1>3. CASE payload.path # "now" /\ pc' \in Reversible
    <2>1. Total(Weight)' >= Minimum
      BY <1>1, <1>2, <1>3, ReversibleMeetsNext
    <2>2. QED
      BY <1>1, <2>1 DEF DipInv
  <1>4. CASE payload.path # "now" /\ pc' \notin Reversible
    <2>1. UNCHANGED subscription
      BY <1>4, WrittenOnlyReversible
    <2>2. Weight' = Weight
      BY <2>1 DEF Weight
    <2>3. Total(Weight)' >= Minimum
      BY <1>4, <2>2 DEF DipInv, Total
    <2>4. QED
      BY <1>1, <2>3 DEF DipInv
  <1>5. CASE payload.path = "now"
    BY <1>1, <1>2, <1>5 DEF DipInv
  <1>6. QED
    BY <1>3, <1>4, <1>5

LEMMA DipInit ==
    ASSUME PlansKeepMinimum, Init
    PROVE  DipInv
  <1>1. /\ subscription = FirstPreference /\ payload \in Payloads /\ pc \notin Reversible
        /\ payload.netNew \subseteq Products
    BY PayloadFacts DEF Init, PassInit, RenewalPlanInit, Idle, Reversible
  <1>2. Weight = FirstWeight
    BY <1>1 DEF Weight, FirstWeight
  <1>3. OthersUntouched
    BY <1>1 DEF OthersUntouched
  <1>4. payload.path # "now" => ItemsAsPlanned
    BY <1>1 DEF ItemsAsPlanned, PlansKeepMinimum
  <1>5. QED
    BY <1>1, <1>2, <1>3, <1>4 DEF PlansKeepMinimum, DipInv, Balanced, Reversible

LEMMA DipAlways ==
    ASSUME UpdatesAreRefused, PlansKeepMinimum
    PROVE  Spec => []DipInv
  <1>1. Init => DipInv
    BY DipInit
  <1>2. Inv /\ AnniversaryInv /\ ScheduledInv /\ ReversalInv /\ DipInv /\ [Next]_vars => DipInv'
    BY DipStep
  <1>3. QED
    BY <1>1, <1>2, InvAlways, AnniversaryInvAlways, ScheduledAlways, ReversalAlways, PTL DEF Spec

\* While a plan is written to Adobe, in whatever order operations, reversals
\* and cut-off passes come, what will renew never adds up to less than the
\* minimum: "the running renewing aggregate never dips below the 3YC committed
\* minimum" (UpdateRenewalSubscriptions), given that it is met before the
\* order and by the plan, and that updates are refused or done.
THEOREM RenewalNeverDips ==
    ASSUME UpdatesAreRefused, PlansKeepMinimum
    PROVE  Spec => []NeverDips
  <1>1. PlanInv /\ DipInv => NeverDips
    <2> SUFFICES ASSUME PlanInv, DipInv, payload.path = "anniversary"
                 PROVE  SumFunctionOnSet([id \in WillRenew |-> subscription[id].quantity], WillRenew)
                           >= Minimum
      BY DEF NeverDips
    <2> DEFINE quantity == [id \in WillRenew |-> subscription[id].quantity]
               Off == Subscriptions \ WillRenew
    <2>1. Total(Weight) >= Minimum
      BY DEF DipInv
    <2>2. WillRenew \subseteq Subscriptions /\ IsFiniteSet(WillRenew) /\ IsFiniteSet(Off)
      BY FiniteSubscriptions, FS_Subset DEF WillRenew, Subscriptions
    <2>3. \A id \in WillRenew : quantity[id] = Weight[id]
      BY <2>2 DEF WillRenew, Weight, Renews
    <2>4. \A id \in Off : Weight[id] = 0
      BY DEF WillRenew, Weight, Renews, Subscriptions
    <2>5. \A id \in Subscriptions : Weight[id] \in Int
      BY Weights
    <2>6. WillRenew \cup Off = Subscriptions /\ WillRenew \cap Off = {}
      BY <2>2
    <2> HIDE DEF quantity, Off, WillRenew
    <2>7. SumFunctionOnSet(Weight, WillRenew) = SumFunctionOnSet(quantity, WillRenew)
      BY <2>2, <2>3, SumEqual
    <2>8. SumFunctionOnSet(Weight, Off) = 0
      BY <2>2, <2>4, SumZero
    <2>9. Total(Weight) = SumFunctionOnSet(Weight, WillRenew) + SumFunctionOnSet(Weight, Off)
      <3>1. \A id \in WillRenew \cup Off : Weight[id] \in Int
        BY <2>5, <2>6
      <3>2. SumFunctionOnSet(Weight, WillRenew \cup Off)
              = SumFunctionOnSet(Weight, WillRenew) + SumFunctionOnSet(Weight, Off)
        BY <2>2, <2>6, <3>1, SumUnion
      <3>3. QED
        BY <2>6, <3>2 DEF Total
    <2>10. SumFunctionOnSet(Weight, WillRenew) \in Int
      <3>1. \A id \in WillRenew : Weight[id] \in Int
        BY <2>2, <2>5
      <3>2. QED
        BY <2>2, <3>1, SumIsInt
    <2>11. SumFunctionOnSet(quantity, WillRenew) >= Minimum
      BY <2>1, <2>7, <2>8, <2>9, <2>10
    <2>12. QED
      BY <2>11 DEF quantity
  <1>2. Inv => PlanInv
    BY DEF Inv
  <1>3. QED
    BY <1>1, <1>2, InvAlways, DipAlways, PTL

-----------------------------------------------------------------------------
(* What is renewed early comes before what is taken away.                   *)

Committed == renewals # <<>> /\ renewals[1].status = "COMPLETE"

\* The subscriptions of this order's RENEWAL order.
RenewedIds == IF renewals = <<>> THEN {} ELSE renewals[1].entries

\* Nothing of a renewal is under way: there is none, or it is COMPLETE.
Settled == renewals = <<>> \/ renewals[1].status = "COMPLETE"

\* What holds of the RENEWAL and RETURN orders whatever becomes of a pass.
OrdersInv ==
    /\ Len(renewals) <= 1
    /\ \A id \in Known : takenBack[id] # "none" => id \in Lapsing
    /\ renewals # <<>> => RenewedIds # {}
    /\ \A id \in RenewedIds :
          /\ id \in payload.renewing
          /\ ~(payload.quantity[id] = 0 /\ FirstPreference[id].renewed # 0)
    /\ ~Committed => \A id \in payload.renewing :
          subscription[id].renewed = FirstPreference[id].renewed

AfterRenewal == {"ReturnPreviousRenewalOrders", "ReturnEach", "NormalizeRenewedSubscriptions",
                 "DisableLapsingSubscriptions", "CompleteOrder"}

\* What a pass knows of the RENEWAL order at each of its steps.
RenewalSeen ==
    /\ pc \in NowSteps /\ ~Committed => \A id \in payload.renewing :
          plan.snapshot[id].renewed = FirstPreference[id].renewed
    /\ pc = "RenewalOrderPlaced" => renewals # <<>> /\ (plan.renewal = "COMPLETE" => Committed)
    /\ pc \in AfterRenewal \/ status = "Completed" => Settled

AdditiveInv == payload.path = "now" => OrdersInv /\ RenewalSeen

\* Updates of a preference keep what was renewed of it.
RenewedKept == \A id \in Subscriptions : subscription'[id].renewed = subscription[id].renewed

LEMMA WrittenKeepsRenewed ==
    ASSUME NEW id, NEW enabled, NEW quantity, NEW codes, Written(id, enabled, quantity, codes)
    PROVE  RenewedKept
  BY WrittenAt DEF RenewedKept

LEMMA OrdersKept ==
    ASSUME PlanInv, OrdersInv, UNCHANGED <<payload, nowVars>>, RenewedKept
    PROVE  OrdersInv'
  <1>1. Lapsing' = Lapsing /\ RenewedIds' = RenewedIds /\ Committed' = Committed
    BY DEF Lapsing, RenewedIds, Committed, nowVars
  <1>2. payload.renewing \subseteq Subscriptions
    BY PlanParts
  <1>3. QED
    BY <1>1, <1>2 DEF OrdersInv, RenewedKept, nowVars

\* A pass that ends knows nothing.
LEMMA EndsUnseen ==
    ASSUME Inv, RenewalSeen, UNCHANGED <<payload, renewals>>,
           pc' \notin NowSteps \cup AfterRenewal,
           status' = "Completed" => status = "Completed" \/ pc = "CompleteOrder"
    PROVE  RenewalSeen'
  BY DEF RenewalSeen, NowSteps, AfterRenewal, Settled

\* A pass that goes on with the same snapshot and orders.
LEMMA GoesOnSeen ==
    ASSUME RenewalSeen, UNCHANGED <<payload, renewals, status>>, pc \in NowSteps,
           plan'.snapshot = plan.snapshot, pc' # "RenewalOrderPlaced",
           pc' \in AfterRenewal => pc \in AfterRenewal \/ Settled
    PROVE  RenewalSeen'
  BY DEF RenewalSeen, Settled, Committed

LEMMA EndingSeen ==
    ASSUME Inv, RenewalSeen, Ending, UNCHANGED renewals, pc \in NowSteps
    PROVE  RenewalSeen'
  <1>1. pc # Idle
    BY DEF NowSteps, Idle
  <1>2. status' # "Completed" /\ pc' = Idle
    BY <1>1 DEF Inv, PassInv, Ending, Wait, Decide
  <1>3. QED
    BY <1>2, EndsUnseen DEF Ending, Idle, NowSteps, AfterRenewal

LEMMA SnapshotRemembered ==
    ASSUME NEW fields \in SUBSET NowFields, Remembering(fields)
    PROVE  /\ plan'.snapshot = plan.snapshot /\ UNCHANGED <<payload, status, scheduled>>
           /\ "renewal" \notin fields => plan'.renewal = plan.renewal
           /\ "found" \notin fields => plan'.found = plan.found
           /\ "done" \notin fields => plan'.done = plan.done
           /\ "pending" \notin fields => plan'.pending = plan.pending
  BY DEF Remembering, Ongoing, PlanBut, PlanFields, NowFields

\* A step of early renewal.
NowStep ==
    /\ Inv /\ Inv' /\ payload.path = "now" /\ pc \in NowSteps /\ status = "Processing"
    /\ UNCHANGED payload

LEMMA NowContext ==
    ASSUME Inv, Now, UNCHANGED published
    PROVE  NowStep
  <1>1. PlanInv /\ pc # Idle
    BY NowIsNow DEF Inv, NowSteps, Idle
  <1>2. Inv'
    BY NowPass, NowTyped DEF Inv
  <1>3. QED
    BY <1>1, <1>2, NowIsNow DEF NowStep, Inv, PassInv

LEMMA SubmitAdditive ==
    ASSUME NowStep, OrdersInv, RenewalSeen,
           SubmitRenewalNowOrder("ReturnPreviousRenewalOrders")
    PROVE  OrdersInv' /\ RenewalSeen'
  <1>1. PlanInv /\ NowPlanTyped /\ UNCHANGED takenBack
    BY SubmitEffects DEF NowStep, Inv, PlanInv, PlanTyped, NowPlanTyped
  <1>2. ASSUME NEW answer \in {"OPEN", "COMPLETE"}, RenewalPlaced(answer)
        PROVE  OrdersInv' /\ RenewalSeen'
    <2>1. /\ renewals = <<>> /\ ToRenew # {}
          /\ renewals' = <<[status |-> answer, entries |-> ToRenew]>>
          /\ pc' = "RenewalOrderPlaced" /\ plan'.renewal = answer
      BY <1>2 DEF RenewalPlaced
    <2>2. /\ renewals' # <<>> /\ Len(renewals') = 1 /\ renewals'[1].entries = ToRenew
          /\ renewals'[1].status = answer
      BY <2>1
    <2>3. plan'.snapshot = plan.snapshot /\ UNCHANGED <<payload, status>>
      BY <1>2, SnapshotRemembered DEF RenewalPlaced, NowFields
    <2>4. ~Committed /\ pc \in NowSteps
      BY <2>1 DEF Committed, NowStep
    <2>5. \A id \in payload.renewing :
             /\ subscription[id].renewed = FirstPreference[id].renewed
             /\ plan.snapshot[id].renewed = FirstPreference[id].renewed
      BY <2>4 DEF OrdersInv, RenewalSeen
    <2>6. \A id \in ToRenew :
             /\ id \in payload.renewing
             /\ ~(payload.quantity[id] = 0 /\ FirstPreference[id].renewed # 0)
      BY <2>5 DEF ToRenew, AlreadyRenewed
    <2>7. Committed' <=> answer = "COMPLETE"
      BY <2>2 DEF Committed
    <2>8. answer # "COMPLETE" => UNCHANGED subscription
      BY <1>2 DEF RenewalPlaced
    <2>9. OrdersInv'
      <3>1. RenewedIds' = ToRenew /\ Lapsing' = Lapsing
        BY <2>2, <2>3 DEF RenewedIds, Lapsing
      <3>2. QED
        BY <1>1, <2>1, <2>2, <2>3, <2>5, <2>6, <2>7, <2>8, <3>1 DEF OrdersInv
    <2>10. RenewalSeen'
      <3>1. status' # "Completed"
        BY <2>3 DEF NowStep
      <3>2. QED
        BY <2>1, <2>2, <2>3, <2>5, <2>7, <3>1 DEF RenewalSeen, AfterRenewal, NowSteps
    <2>11. QED
      BY <2>9, <2>10
  <1>3. ASSUME UNCHANGED <<subscription, renewals>>
        PROVE  OrdersInv'
    BY <1>1, <1>3, OrdersKept DEF NowStep, RenewedKept, nowVars
  <1>4. CASE Ending /\ UNCHANGED <<renewals, subscription>>
    BY <1>3, <1>4, EndingSeen DEF NowStep
  <1>5. ASSUME pc' = "ReturnPreviousRenewalOrders",
               Ongoing, UNCHANGED <<subscription, scheduled, plan, renewals>>,
               \/ pc = "SubmitRenewalNowOrder" /\ ToRenew = {}
               \/ /\ pc = "SubmitRenewalNowOrder"
                  /\ renewals # <<>> /\ renewals[1].status = "COMPLETE"
               \/ pc = "RenewalOrderPlaced" /\ plan.renewal = "COMPLETE"
        PROVE  OrdersInv' /\ RenewalSeen'
    <2>1. Settled
      <3>1. CASE ToRenew = {} /\ renewals # <<>> /\ ~Committed
        <4>1. PICK id \in RenewedIds : TRUE
          BY <3>1 DEF OrdersInv
        <4>2. id \in payload.renewing /\ ~(payload.quantity[id] = 0 /\ FirstPreference[id].renewed # 0)
          BY <4>1 DEF OrdersInv
        <4>3. id \in ToRenew
          BY <3>1, <4>2 DEF RenewalSeen, NowStep, ToRenew, AlreadyRenewed
        <4>4. QED
          BY <3>1, <4>3
      <3>2. QED
        BY <1>5, <3>1 DEF Settled, Committed, RenewalSeen
    <2>2. RenewalSeen'
      BY <1>5, <2>1, GoesOnSeen DEF NowStep, Ongoing
    <2>3. QED
      BY <1>3, <1>5, <2>2
  <1>6. QED
    BY <1>1, <1>2, <1>3, <1>4, <1>5, SubmitEffects

\* Taking back leaves what is to renew alone.
LEMMA UnrenewKeeps ==
    ASSUME PlanInv, OrdersInv, UNCHANGED <<payload, renewals>>, NEW id \in Lapsing,
           NEW answer \in {"none", "OPEN", "COMPLETE"},
           takenBack' = [takenBack EXCEPT ![id] = answer],
           Unrenew(id) \/ UNCHANGED subscription
    PROVE  OrdersInv'
  <1>1. id \in Known /\ id \notin payload.renewing /\ SubscriptionsTyped
    BY PayloadFacts DEF PlanInv
  <1>2. \A other \in payload.renewing : subscription'[other].renewed = subscription[other].renewed
    BY <1>1, UnrenewUpdates, PlanParts
  <1>3. \A other \in Known : takenBack'[other] # "none" => other = id \/ takenBack[other] # "none"
    BY <1>1 DEF PlanInv, RenewalNowTypeOK
  <1>4. Lapsing' = Lapsing /\ RenewedIds' = RenewedIds /\ Committed' = Committed
    BY DEF Lapsing, RenewedIds, Committed
  <1>5. QED
    BY <1>2, <1>3, <1>4 DEF OrdersInv

LEMMA ReturnAdditive ==
    ASSUME NowStep, OrdersInv, RenewalSeen,
           ReturnPreviousRenewalOrders("NormalizeRenewedSubscriptions")
    PROVE  OrdersInv' /\ RenewalSeen'
  <1>1. PlanInv /\ NowPlanTyped /\ UNCHANGED payload
    BY DEF NowStep, Inv, PlanInv, PlanTyped, NowPlanTyped
  <1>2. pc \in {"ReturnPreviousRenewalOrders", "ReturnEach"}
    BY DEF ReturnPreviousRenewalOrders, ListReturns
  <1>3. ASSUME UNCHANGED <<subscription, nowVars>>
        PROVE  OrdersInv'
    BY <1>1, <1>3, OrdersKept DEF RenewedKept
  <1>4. ASSUME NEW fields \in SUBSET NowFields, Remembering(fields), UNCHANGED renewals,
               pc' \in AfterRenewal
        PROVE  RenewalSeen'
    BY <1>2, <1>4, SnapshotRemembered, GoesOnSeen DEF NowStep, AfterRenewal
  <1>5. CASE ReturnsListed
    <2>1. RenewalSeen'
      BY <1>4, <1>5 DEF ReturnsListed, nowVars, NowFields, AfterRenewal
    <2>2. QED
      BY <1>3, <1>5, <2>1 DEF ReturnsListed
  <1>6. CASE ReturnsDone
    <2>1. RenewalSeen'
      BY <1>4, <1>6 DEF ReturnsDone, nowVars, NowFields, AfterRenewal
    <2>2. QED
      BY <1>3, <1>6, <2>1 DEF ReturnsDone
  <1>7. ASSUME NEW id, NEW answer, HandledBy(id, answer)
        PROVE  RenewalSeen'
    BY <1>2, <1>4, <1>7 DEF HandledBy, NowFields, AfterRenewal
  <1>8. ASSUME NEW id \in LapsingRenewed, ReturnReused(id)
        PROVE  OrdersInv' /\ RenewalSeen'
    <2>1. UNCHANGED renewals
      BY <1>8 DEF ReturnReused, HandledBy
    <2>2. QED
      BY <1>3, <1>7, <1>8, <2>1 DEF ReturnReused, nowVars
  <1>9. ASSUME NEW id \in LapsingRenewed, NEW answer \in {"OPEN", "COMPLETE"},
               ReturnPlaced(id, answer)
        PROVE  OrdersInv' /\ RenewalSeen'
    <2>1. UNCHANGED renewals /\ id \in Lapsing
      BY <1>9 DEF ReturnPlaced, HandledBy, LapsingRenewed
    <2>2. OrdersInv'
      BY <1>1, <1>9, <2>1, UnrenewKeeps DEF ReturnPlaced
    <2>3. QED
      BY <1>7, <1>9, <2>2 DEF ReturnPlaced
  <1>10. CASE Ending /\ UNCHANGED <<subscription, nowVars>>
    BY <1>3, <1>10, EndingSeen DEF NowStep, nowVars
  <1>11. QED
    BY <1>1, <1>5, <1>6, <1>8, <1>9, <1>10, ReturnEffects

\* A step that neither places nor settles orders, and updates at most one preference.
LEMMA EndAdditive ==
    ASSUME NowStep, OrdersInv, RenewalSeen, UNCHANGED nowVars, RenewedKept, Ending
    PROVE  OrdersInv' /\ RenewalSeen'
  <1>1. OrdersInv'
    BY OrdersKept DEF NowStep, Inv
  <1>2. RenewalSeen'
    BY EndingSeen DEF NowStep, nowVars
  <1>3. QED
    BY <1>1, <1>2

LEMMA UpdateAdditive ==
    ASSUME NowStep, OrdersInv, RenewalSeen, UNCHANGED nowVars, RenewedKept,
           NEW fields \in SUBSET NowFields, Remembering(fields),
           pc' # "RenewalOrderPlaced", pc' \in AfterRenewal => pc \in AfterRenewal
    PROVE  OrdersInv' /\ RenewalSeen'
  <1>1. OrdersInv'
    BY OrdersKept DEF NowStep, Inv
  <1>2. RenewalSeen'
    BY SnapshotRemembered, GoesOnSeen DEF NowStep, nowVars
  <1>3. QED
    BY <1>1, <1>2

LEMMA NowAdditive ==
    ASSUME NowStep, OrdersInv, RenewalSeen, Now
    PROVE  OrdersInv' /\ RenewalSeen'
  <1>1. PlanInv /\ NowPlanTyped
    BY DEF NowStep, Inv, PlanInv, PlanTyped, NowPlanTyped
  <1>2. UNCHANGED subscription => RenewedKept
    BY DEF RenewedKept
  <1>3. CASE PreviewRenewalNowOrder("SubmitRenewalNowOrder")
    <2>1. UNCHANGED nowVars /\ RenewedKept
      BY <1>1, <1>2, <1>3, PreviewEffects
    <2>2. \/ Ending
          \/ Remembering({"preview"}) /\ pc' = "SubmitRenewalNowOrder"
      BY <1>1, <1>3, PreviewEffects
    <2>3. {"preview"} \in SUBSET NowFields
      BY DEF NowFields
    <2>4. CASE Ending
      BY <2>1, <2>4, EndAdditive
    <2>5. CASE Remembering({"preview"}) /\ pc' = "SubmitRenewalNowOrder"
      <3>1. pc' # "RenewalOrderPlaced" /\ pc' \notin AfterRenewal
        BY <2>5 DEF AfterRenewal
      <3>2. QED
        BY <2>1, <2>3, <2>5, <3>1, UpdateAdditive
    <2>6. QED
      BY <2>2, <2>4, <2>5
  <1>4. ASSUME UNCHANGED nowVars, RenewedKept, Remembering({"done"}),
               pc \in {"NormalizeRenewedSubscriptions", "DisableLapsingSubscriptions"},
               pc' \in AfterRenewal
        PROVE  OrdersInv' /\ RenewalSeen'
    <2>1. {"done"} \in SUBSET NowFields
      BY DEF NowFields
    <2>2. pc \in AfterRenewal /\ pc' # "RenewalOrderPlaced"
      BY <1>4 DEF AfterRenewal
    <2>3. QED
      BY <1>4, <2>1, <2>2, UpdateAdditive
  <1>5. CASE NormalizeRenewedSubscriptions("DisableLapsingSubscriptions")
    <2>1. \A id : NormalisedAs(id) => RenewedKept
      <3>1. \A id, quantity, codes : Written(id, TRUE, quantity, codes) => RenewedKept
        BY WrittenKeepsRenewed
      <3>2. QED
        BY <1>2, <3>1 DEF NormalisedAs
    <2>2. UNCHANGED nowVars /\ RenewedKept
      BY <1>1, <1>2, <1>5, <2>1, NormalizeEffects DEF UpdateDone
    <2>3. \/ Ending
          \/ Remembering({"done"}) /\ pc' \in AfterRenewal
      BY <1>1, <1>5, NormalizeEffects DEF UpdateDone, OneUpdated, AfterRenewal
    <2>4. pc = "NormalizeRenewedSubscriptions"
      BY <1>5 DEF NormalizeRenewedSubscriptions
    <2>5. QED
      BY <1>4, <2>2, <2>3, <2>4, EndAdditive
  <1>6. CASE DisableLapsingSubscriptions("CompleteOrder")
    <2>1. \A id : DisabledAs(id) => RenewedKept
      BY WrittenKeepsRenewed DEF DisabledAs
    <2>2. UNCHANGED nowVars /\ RenewedKept
      BY <1>1, <1>2, <1>6, <2>1, LapsingEffects DEF UpdateDone
    <2>3. \/ Ending
          \/ Remembering({"done"}) /\ pc' \in AfterRenewal
      BY <1>1, <1>6, LapsingEffects DEF UpdateDone, OneUpdated, AfterRenewal
    <2>4. pc = "DisableLapsingSubscriptions"
      BY <1>6 DEF DisableLapsingSubscriptions
    <2>5. QED
      BY <1>4, <2>2, <2>3, <2>4, EndAdditive
  <1>7. QED
    BY <1>3, <1>5, <1>6, SubmitAdditive, ReturnAdditive DEF Now

\* What Adobe settles: at most the one RENEWAL order, once.
SettledAs(answer) ==
    /\ Len(renewals) = 1 /\ renewals[1].status = "OPEN"
    /\ Len(renewals') = 1 /\ renewals' # <<>>
    /\ renewals'[1].status = answer /\ renewals'[1].entries = renewals[1].entries
    /\ UNCHANGED takenBack
    /\ IF answer = "COMPLETE" THEN Renew(renewals[1].entries) ELSE UNCHANGED subscription

ReturnSettled(id, answer) ==
    /\ takenBack[id] = "OPEN" /\ takenBack' = [takenBack EXCEPT ![id] = answer]
    /\ UNCHANGED renewals
    /\ IF answer = "COMPLETE" THEN Unrenew(id) ELSE UNCHANGED subscription

\* A quantity it renewed shows later.
RenewedShown(id) ==
    /\ Committed /\ id \in RenewedIds \cap ShownLate
    /\ UNCHANGED nowVars
    /\ Renew({id})

LEMMA AdobeEffects ==
    ASSUME PlanInv, Len(renewals) <= 1, Adobe
    PROVE  /\ UNCHANGED <<passVars, payload, scheduled, plan>>
           /\ \/ \E id \in Known : RenewedShown(id)
              \/ \E answer \in {"COMPLETE", "FAILED"} : SettledAs(answer)
              \/ \E id \in Known, answer \in {"COMPLETE", "none"} : ReturnSettled(id, answer)
  <1>1. UNCHANGED <<passVars, payload, scheduled, plan>>
    BY DEF Adobe, AdobeSettlesRenewal, AdobeShowsRenewed, AdobeSettlesReturn
  <1>2. ASSUME NEW i \in DOMAIN renewals, NEW answer \in {"COMPLETE", "FAILED"},
               renewals[i].status = "OPEN",
               renewals' = [renewals EXCEPT ![i].status = answer],
               UNCHANGED takenBack,
               IF answer = "COMPLETE" THEN Renew(renewals[i].entries) ELSE UNCHANGED subscription
        PROVE  SettledAs(answer)
    <2>1. renewals \in Seq(RenewalOrder) /\ renewals[i] \in RenewalOrder
      BY DEF PlanInv, RenewalNowTypeOK
    <2>2. i = 1 /\ Len(renewals) = 1
      <3>1. DOMAIN renewals = 1 .. Len(renewals) /\ Len(renewals) \in Nat
        BY <2>1, LenProperties
      <3>2. QED
        BY <3>1
    <2> DEFINE settled == [renewals[1] EXCEPT !.status = answer]
    <2>3. settled.status = answer /\ settled.entries = renewals[1].entries
      BY <2>1, <2>2 DEF RenewalOrder
    <2>4. renewals' = [renewals EXCEPT ![1] = settled]
      BY <1>2, <2>2
    <2> HIDE DEF settled
    <2>5. Len(renewals') = 1 /\ renewals' # <<>> /\ renewals'[1] = settled
      <3>1. settled \in RenewalOrder
        BY <2>1, <2>2 DEF RenewalOrder, RenewalStatus, settled
      <3> DEFINE s == renewals
                 t == renewals'
      <3>2. s \in Seq(RenewalOrder) /\ t = [s EXCEPT ![1] = settled] /\ Len(s) = 1
        BY <2>1, <2>2, <2>4
      <3>3. Len(t) = 1 /\ t # <<>> /\ t[1] = settled
        <4> HIDE DEF s, t, RenewalOrder
        <4>1. DOMAIN s = 1 .. 1
          BY <3>2, LenProperties
        <4>2. t \in Seq(RenewalOrder) /\ Len(t) = 1
          BY <3>1, <3>2, <4>1, ExceptSeq
        <4>3. t[1] = settled
          BY <3>2, <4>1
        <4>4. QED
          BY <4>2, <4>3, EmptySeq
      <3>4. QED
        BY <3>3
    <2>6. QED
      BY <1>2, <2>2, <2>3, <2>5 DEF SettledAs
  <1>3. CASE AdobeSettlesRenewal
    BY <1>1, <1>2, <1>3 DEF AdobeSettlesRenewal
  <1>4. CASE AdobeSettlesReturn
    BY <1>1, <1>4 DEF AdobeSettlesReturn, ReturnSettled
  <1>5. CASE AdobeShowsRenewed
    <2>1. PICK i \in DOMAIN renewals :
            /\ renewals[i].status = "COMPLETE"
            /\ \E id \in renewals[i].entries \cap ShownLate : Show({id})
      BY <1>5 DEF AdobeShowsRenewed
    <2>2. renewals \in Seq(RenewalOrder)
      BY DEF PlanInv, RenewalNowTypeOK
    <2>3. DOMAIN renewals = 1 .. Len(renewals) /\ Len(renewals) \in Nat
      BY <2>2, LenProperties
    <2>4. i = 1 /\ renewals # <<>>
      BY <2>1, <2>3
    <2>5. Committed /\ RenewedIds = renewals[i].entries
      BY <2>1, <2>4 DEF Committed, RenewedIds
    <2>6. PICK id \in RenewedIds \cap ShownLate : Renew({id})
      BY <2>1, <2>5, ShowRenews
    <2>7. id \in Known /\ UNCHANGED nowVars
      BY <1>5, <2>6, RenewalNowAssumption DEF AdobeShowsRenewed
    <2>8. QED
      BY <1>1, <2>5, <2>6, <2>7 DEF RenewedShown
  <1>6. QED
    BY <1>3, <1>4, <1>5 DEF Adobe

LEMMA AdobeAdditive ==
    ASSUME PlanInv, OrdersInv, RenewalSeen, Adobe
    PROVE  OrdersInv' /\ RenewalSeen'
  <1>1. UNCHANGED <<status, pc, payload, plan>> /\ Len(renewals) <= 1
    BY AdobeEffects DEF OrdersInv, passVars
  <1>2. ASSUME NEW answer \in {"COMPLETE", "FAILED"}, SettledAs(answer)
        PROVE  OrdersInv' /\ RenewalSeen'
    <2>1. /\ renewals # <<>> /\ ~Committed /\ ~Settled
          /\ RenewedIds' = RenewedIds /\ Lapsing' = Lapsing /\ UNCHANGED takenBack
          /\ Committed' => answer = "COMPLETE"
          /\ answer # "COMPLETE" => UNCHANGED subscription
      BY <1>1, <1>2 DEF SettledAs, Committed, Settled, RenewedIds, Lapsing
    <2>2. Committed' <=> answer = "COMPLETE"
      BY <1>2 DEF SettledAs, Committed
    <2>3. OrdersInv'
      BY <1>1, <1>2, <2>1, <2>2 DEF OrdersInv, SettledAs
    <2>4. RenewalSeen'
      BY <1>1, <1>2, <2>1, <2>2 DEF RenewalSeen, SettledAs
    <2>5. QED
      BY <2>3, <2>4
  <1>3. ASSUME NEW id \in Known, NEW answer \in {"COMPLETE", "none"}, ReturnSettled(id, answer)
        PROVE  OrdersInv' /\ RenewalSeen'
    <2>1. UNCHANGED renewals /\ id \in Lapsing
      BY <1>3 DEF ReturnSettled, OrdersInv
    <2>2. OrdersInv'
      BY <1>1, <1>3, <2>1, UnrenewKeeps DEF ReturnSettled
    <2>3. RenewalSeen'
      BY <1>1, <2>1 DEF RenewalSeen, Settled, Committed
    <2>4. QED
      BY <2>2, <2>3
  <1>4. ASSUME NEW id \in Known, RenewedShown(id)
        PROVE  OrdersInv' /\ RenewalSeen'
    <2>1. Committed' /\ Committed /\ RenewedIds' = RenewedIds /\ Lapsing' = Lapsing
      BY <1>1, <1>4 DEF RenewedShown, Committed, RenewedIds, Lapsing, nowVars
    <2>2. OrdersInv'
      BY <1>1, <1>4, <2>1 DEF RenewedShown, OrdersInv, nowVars
    <2>3. RenewalSeen'
      BY <1>1, <1>4, <2>1 DEF RenewedShown, RenewalSeen, Settled, nowVars
    <2>4. QED
      BY <2>2, <2>3
  <1>5. QED
    BY <1>1, <1>2, <1>3, <1>4, AdobeEffects

\* What a step outside early renewal and Adobe does to an order that renews now.
LEMMA OutsideNow ==
    ASSUME Inv, [Next]_vars, payload'.path = "now",
           ~(Now /\ UNCHANGED published), ~(Adobe /\ UNCHANGED published)
    PROVE  /\ UNCHANGED <<payload, subscription, nowVars>>
           /\ \/ UNCHANGED <<pc, plan>> /\ (status' = "Completed" <=> status = "Completed")
              \/ /\ pc' \notin NowSteps \cup AfterRenewal
                 /\ status' = "Completed" => status = "Completed" \/ pc = "CompleteOrder"
              \/ /\ UNCHANGED status /\ pc' = "PreviewRenewalNowOrder"
                 /\ plan'.done = {} /\ plan'.pending = {}
                 /\ payload.entries \subseteq DOMAIN plan'.snapshot
                 /\ \A id \in DOMAIN plan'.snapshot : plan'.snapshot[id] = subscription[id]
  <1> PlanInv
    BY DEF Inv
  <1>1. CASE UNCHANGED vars
    BY <1>1 DEF vars, passVars, planVars
  <1>2. CASE OnPlan(Platform) /\ UNCHANGED <<published, nowVars>>
    BY <1>2 DEF OnPlan, Platform, Dispatch, Abort, Resume, NextDay, Goto, Wait,
       EndPass, Idle, NowSteps, AfterRenewal
  <1>3. CASE OnPlan(Prepare) /\ UNCHANGED <<published, nowVars>>
    <2>1. /\ pc' \notin NowSteps \cup AfterRenewal
          /\ status' = "Completed" => status = "Completed" \/ pc = "CompleteOrder"
      BY <1>3 DEF OnPlan, Prepare, SetupContext, SetupDueDate, ValidateDuplicateLines,
         ValidateRenewalWindow, CompleteOrder, switch_order_to_failed, Decide, Wait, EndPass,
         Continue, Goto, Idle, NowSteps, AfterRenewal
    <2>2. QED
      BY <1>3, <2>1 DEF OnPlan
  <1>4. CASE SetupRenewalPlan(FirstStep) /\ UNCHANGED <<published, nowVars>>
    <2>1. UNCHANGED <<payload, subscription>>
      BY <1>4, SetupEffects DEF Failing, Ongoing
    <2>2. CASE Failing
      BY <1>4, <2>1, <2>2 DEF Failing, Idle, NowSteps, AfterRenewal
    <2>3. CASE ~Failing
      <3>1. /\ UNCHANGED status /\ pc' = "PreviewRenewalNowOrder"
            /\ payload.entries \subseteq DOMAIN plan'.snapshot
            /\ \A id \in DOMAIN plan'.snapshot : plan'.snapshot[id] = subscription[id]
            /\ PlanBut(plan', NoPlan, {"snapshot"})
        BY <1>4, <2>1, <2>3, SetupEffects DEF FirstStep, Ongoing
      <3>2. plan'.done = {} /\ plan'.pending = {}
        BY <3>1 DEF PlanBut, PlanFields, NoPlan
      <3>3. QED
        BY <1>4, <2>1, <3>1, <3>2
    <2>4. QED
      BY <2>2, <2>3
  <1>5. CASE Anniversary /\ UNCHANGED nowVars
    <2>1. UNCHANGED payload
      BY <1>5, CreateEffects, DisableEffects, UpdateEffects
         DEF Anniversary, Ongoing, Failing, ReverseOperations, CreateNetNewMptSubscriptions, planVars
    <2>2. QED
      BY <1>5, <2>1, AnniversaryIsAnniversary DEF PlanInv, OnPath
  <1>6. QED
    BY <1>1, <1>2, <1>3, <1>4, <1>5 DEF Next

LEMMA AdditiveStep == Inv /\ AdditiveInv /\ [Next]_vars => AdditiveInv'
  <1> SUFFICES ASSUME Inv, AdditiveInv, [Next]_vars, payload'.path = "now"
               PROVE  OrdersInv' /\ RenewalSeen'
    BY DEF AdditiveInv
  <1>1. PlanInv /\ (payload.path = "now" => OrdersInv /\ RenewalSeen)
    BY DEF Inv, AdditiveInv
  <1>2. CASE Now /\ UNCHANGED published
    BY <1>1, <1>2, NowContext, NowAdditive DEF NowStep
  <1>3. CASE Adobe /\ UNCHANGED published
    BY <1>1, <1>3, AdobeAdditive
       DEF Adobe, AdobeSettlesRenewal, AdobeShowsRenewed, AdobeSettlesReturn
  <1>4. CASE ~(Now /\ UNCHANGED published) /\ ~(Adobe /\ UNCHANGED published)
    <2>1. UNCHANGED <<payload, subscription, nowVars>> /\ OrdersInv /\ RenewalSeen
      BY <1>1, <1>4, OutsideNow
    <2>2. OrdersInv'
      BY <1>1, <2>1, OrdersKept DEF RenewedKept
    <2>3. CASE UNCHANGED <<pc, plan>> /\ (status' = "Completed" <=> status = "Completed")
      BY <2>1, <2>2, <2>3 DEF RenewalSeen, Settled, Committed, nowVars
    <2>4. CASE /\ pc' \notin NowSteps \cup AfterRenewal
               /\ status' = "Completed" => status = "Completed" \/ pc = "CompleteOrder"
      BY <2>1, <2>2, <2>4, EndsUnseen DEF nowVars
    <2>5. CASE /\ UNCHANGED status /\ pc' = "PreviewRenewalNowOrder"
               /\ payload.entries \subseteq DOMAIN plan'.snapshot
               /\ \A id \in DOMAIN plan'.snapshot : plan'.snapshot[id] = subscription[id]
      BY <1>1, <2>1, <2>2, <2>5, PlanParts
         DEF RenewalSeen, OrdersInv, Committed, Settled, AfterRenewal, nowVars
    <2>6. QED
      BY <1>4, <2>2, <2>3, <2>4, <2>5, OutsideNow
  <1>5. QED
    BY <1>2, <1>3, <1>4

LEMMA AdditiveAlways == Spec => []AdditiveInv
  <1>1. Init => AdditiveInv
    <2> SUFFICES ASSUME Init PROVE OrdersInv /\ RenewalSeen
      BY DEF AdditiveInv
    <2>1. renewals = <<>> /\ Len(renewals) = 0 /\ \A id \in Known : takenBack[id] = "none"
      BY DEF Init, RenewalNowInit
    <2>2. QED
      BY <2>1 DEF Init, PassInit, RenewalPlanInit, Idle, OrdersInv, RenewalSeen, RenewedIds,
         Settled, NowSteps, AfterRenewal
  <1>2. QED
    BY <1>1, InvAlways, AdditiveStep, PTL DEF Spec

LEMMA RenewedStaysEnabled ==
    ASSUME SubscriptionsTyped, OnlyRenewed, NEW id \in Subscriptions
    PROVE  /\ subscription'[id].enabled <=> subscription[id].enabled
           /\ subscription'[id].quantity = subscription[id].quantity
  <1> DEFINE renewed == subscription'[id].renewed
  <1>1. subscription[id] \in Preference /\ subscription'[id] = [subscription[id] EXCEPT !.renewed = renewed]
    BY DEF SubscriptionsTyped, OnlyRenewed
  <1> HIDE DEF renewed
  <1>2. QED
    BY <1>1 DEF Preference

\* However often a pass of renewal_now.py dies and is repeated, at most one
\* RENEWAL order carries the reference of the MPT order: the customer is not
\* invoiced twice.
THEOREM RenewalIsPlacedOnce == Spec => []RenewedOnce
  <1>1. AnniversaryInv /\ AdditiveInv => RenewedOnce
    <2> SUFFICES ASSUME AnniversaryInv, AdditiveInv PROVE RenewedOnce
      OBVIOUS
    <2>1. payload.path # "now" => Len(renewals) = 0
      BY DEF AnniversaryInv, Untouched
    <2>2. QED
      BY <2>1 DEF AdditiveInv, OrdersInv, RenewedOnce
  <1>2. QED
    BY <1>1, AnniversaryInvAlways, AdditiveAlways, PTL

\* Until the RENEWAL order of an early renewal is COMPLETE no step of any pass
\* gives back an earlier renewal or switches a renewal off: "the additive
\* operation always precedes the subtractive one".
THEOREM AdditionPrecedes == Spec => AdditiveFirst
  <1> DEFINE First ==
        payload.path = "now" /\ renewals # <<>> /\ renewals[1].status # "COMPLETE" =>
          \A id \in Lapsing :
             /\ takenBack[id] = "none" => takenBack'[id] = "none"
             /\ subscription[id].enabled => subscription'[id].enabled
  <1>1. Inv /\ AdditiveInv /\ [Next]_vars => First
    <2> SUFFICES ASSUME Inv, AdditiveInv, [Next]_vars, payload.path = "now",
                        renewals # <<>>, renewals[1].status # "COMPLETE"
                 PROVE  \A id \in Lapsing :
                           /\ takenBack[id] = "none" => takenBack'[id] = "none"
                           /\ subscription[id].enabled => subscription'[id].enabled
      OBVIOUS
    <2>1. PlanInv /\ pc \notin AfterRenewal /\ OrdersInv /\ ~Settled
      BY DEF Inv, AdditiveInv, RenewalSeen, Settled
    <2>2. \A id \in Lapsing : id \in Subscriptions /\ id \in Known
      BY <2>1, PayloadFacts DEF PlanInv, Subscriptions
    <2>3. CASE Adobe
      <3>1. CASE \E answer \in {"COMPLETE", "FAILED"} : SettledAs(answer)
        <4>1. UNCHANGED subscription \/ OnlyRenewed
          <5>1. Len(renewals) = 1 => renewals[1] \in RenewalOrder
            BY <2>1 DEF PlanInv, RenewalNowTypeOK
          <5>2. Len(renewals) = 1 => renewals[1].entries \in SUBSET Known
            BY <5>1 DEF RenewalOrder
          <5>3. QED
            BY <2>1, <3>1, <5>2, RenewUpdates DEF SettledAs, PlanInv
        <4>2. QED
          BY <2>1, <2>2, <3>1, <4>1, RenewedStaysEnabled DEF SettledAs, PlanInv
      <3>2. ASSUME NEW id \in Known, NEW answer \in {"COMPLETE", "none"}, ReturnSettled(id, answer)
            PROVE  \A other \in Lapsing :
                      /\ takenBack[other] = "none" => takenBack'[other] = "none"
                      /\ subscription[other].enabled => subscription'[other].enabled
        <4>1. UNCHANGED subscription \/ OnlyRenewed
          BY <2>1, <3>2, UnrenewUpdates DEF ReturnSettled, PlanInv
        <4>2. \A other \in Known : takenBack[other] = "none" => takenBack'[other] = "none"
          BY <2>1, <3>2 DEF ReturnSettled, PlanInv, RenewalNowTypeOK
        <4>3. QED
          BY <2>1, <2>2, <4>1, <4>2, RenewedStaysEnabled DEF PlanInv
      <3>3. ~\E id \in Known : RenewedShown(id)
        BY <2>1 DEF RenewedShown, Committed, Settled
      <3>4. QED
        BY <2>1, <2>3, <3>1, <3>2, <3>3, AdobeEffects DEF OrdersInv
    <2>4. CASE Now
      <3>1. NowPlanTyped
        BY <2>1 DEF NowPlanTyped, PlanInv, PlanTyped
      <3>2. UNCHANGED <<subscription, takenBack>>
        <4>1. CASE PreviewRenewalNowOrder("SubmitRenewalNowOrder")
          BY <3>1, <4>1, PreviewEffects DEF nowVars
        <4>2. CASE SubmitRenewalNowOrder("ReturnPreviousRenewalOrders")
          BY <3>1, <4>2, SubmitEffects DEF RenewalPlaced
        <4>3. QED
          BY <2>1, <2>4, <4>1, <4>2
             DEF Now, ReturnPreviousRenewalOrders, ListReturns, NormalizeRenewedSubscriptions,
                 DisableLapsingSubscriptions, AfterRenewal
      <3>3. QED
        BY <3>2
    <2>5. CASE ~Now /\ ~Adobe
      <3>1. ~Anniversary
        BY <2>1, AnniversaryIsAnniversary DEF PlanInv, OnPath
      <3>2. UNCHANGED <<subscription, takenBack>>
        BY <2>1, <2>5, <3>1, SetupEffects DEF Next, OnPlan, Failing, vars, planVars, nowVars
      <3>3. QED
        BY <3>2
    <2>6. QED
      BY <2>3, <2>4, <2>5
  <1>2. Inv /\ AdditiveInv /\ [Next]_vars => [First]_vars
    BY <1>1
  <1> HIDE DEF First
  <1>3. Spec => [][First]_vars
    BY <1>2, InvAlways, AdditiveAlways, PTL DEF Spec
  <1>4. QED
    BY <1>3 DEF AdditiveFirst, First

-----------------------------------------------------------------------------
(* What is given back.                                                      *)

\* A RETURN order is told by its SKU: each subscription has one of its own.
UniqueSkus == \A id, other \in Known : Sku[id] = Sku[other] => id = other

BeforeReturns == {"PreviewRenewalNowOrder", "SubmitRenewalNowOrder", "RenewalOrderPlaced",
                  "ReturnPreviousRenewalOrders"}

AfterReturns == {"NormalizeRenewedSubscriptions", "DisableLapsingSubscriptions", "CompleteOrder"}

\* What was renewed, where that shows at once, and what was given back, by
\* COMPLETE orders.
RenewedInv ==
    /\ Committed => \A id \in RenewedIds \ ShownLate :
          subscription[id].renewed = CommittedQuantity[id]
    /\ \A id \in Known : takenBack[id] = "COMPLETE" => subscription[id].renewed = 0

\* What ReturnEach has handled is given back or waited for.
ReturnsHandled ==
    /\ plan.done \subseteq Lapsing
    /\ \A id \in plan.done \ plan.pending : subscription[id].renewed = 0
    /\ \A id \in DOMAIN plan.found :
          /\ id \in Lapsing /\ plan.found[id] \in {"OPEN", "COMPLETE"}
          /\ plan.found[id] = "COMPLETE" => subscription[id].renewed = 0

ReturnsSeen ==
    /\ pc \in NowSteps => \A id \in Lapsing :
          plan.snapshot[id].renewed = 0 => subscription[id].renewed = 0
    /\ pc \in BeforeReturns => plan.done = {} /\ plan.pending = {}
    /\ pc = "ReturnEach" => ReturnsHandled
    /\ pc \in AfterReturns \/ status = "Completed" =>
          \A id \in Lapsing : subscription[id].renewed = 0

\* Nothing that lapses is renewed.
StaysBack == \A id \in Lapsing : subscription[id].renewed = 0 => subscription'[id].renewed = 0

LEMMA KeptStaysBack ==
    ASSUME PlanInv, RenewedKept
    PROVE  StaysBack
  BY PlanParts, PayloadFacts DEF StaysBack, RenewedKept, PlanInv

LEMMA RenewedInvKept ==
    ASSUME PlanInv, OrdersInv, RenewedInv, UNCHANGED <<payload, nowVars>>, RenewedKept
    PROVE  RenewedInv'
  <1>1. RenewedIds' = RenewedIds /\ Committed' = Committed /\ RenewedIds \subseteq Subscriptions
    BY PlanParts DEF RenewedIds, Committed, OrdersInv, nowVars
  <1>2. QED
    BY <1>1 DEF RenewedInv, RenewedKept, nowVars, Subscriptions

LEMMA SeenStaysBack ==
    ASSUME ReturnsSeen, UNCHANGED <<pc, payload, plan, status>>, StaysBack
    PROVE  ReturnsSeen'
  <1>1. Lapsing' = Lapsing
    BY DEF Lapsing
  <1>2. ReturnsHandled => ReturnsHandled'
    BY <1>1 DEF ReturnsHandled, StaysBack
  <1>3. QED
    BY <1>1, <1>2 DEF ReturnsSeen, StaysBack

LEMMA EndsReturns ==
    ASSUME ReturnsSeen, UNCHANGED payload, StaysBack,
           pc' \notin NowSteps \cup AfterReturns,
           status' = "Completed" => status = "Completed" \/ pc = "CompleteOrder"
    PROVE  ReturnsSeen'
  BY DEF ReturnsSeen, Lapsing, StaysBack, NowSteps, BeforeReturns, AfterReturns

LEMMA EndingReturns ==
    ASSUME NowStep, ReturnsSeen, Ending, StaysBack
    PROVE  ReturnsSeen'
  <1>1. pc # Idle /\ status = "Processing"
    BY DEF NowStep, NowSteps, Idle
  <1>2. status' # "Completed" /\ pc' = Idle
    BY <1>1 DEF Ending, Wait, Decide
  <1>3. QED
    BY <1>2, EndsReturns DEF NowStep, Idle, NowSteps, AfterReturns

LEMMA LapsingSeen ==
    ASSUME NowStep, ReturnsSeen, StaysBack, plan'.snapshot = plan.snapshot
    PROVE  \A id \in Lapsing' : plan'.snapshot[id].renewed = 0 => subscription'[id].renewed = 0
  BY DEF NowStep, ReturnsSeen, StaysBack, Lapsing

LEMMA SubmitReturns ==
    ASSUME NowStep, OrdersInv, RenewalSeen, RenewedInv, ReturnsSeen,
           SubmitRenewalNowOrder("ReturnPreviousRenewalOrders")
    PROVE  RenewedInv' /\ ReturnsSeen'
  <1>1. PlanInv /\ NowPlanTyped /\ SubscriptionsTyped /\ UNCHANGED <<payload, takenBack>>
    BY SubmitEffects DEF NowStep, Inv, PlanInv, PlanTyped, NowPlanTyped
  <1>2. UNCHANGED subscription => RenewedKept /\ StaysBack
    BY <1>1, KeptStaysBack DEF RenewedKept
  <1>3. pc \in BeforeReturns /\ status # "Completed"
    BY DEF SubmitRenewalNowOrder, PlaceRenewalOrder, FindRenewalOrder, BeforeReturns, NowStep
  <1>4. ASSUME NEW answer \in {"OPEN", "COMPLETE"}, RenewalPlaced(answer)
        PROVE  RenewedInv' /\ ReturnsSeen'
    <2>1. /\ renewals' = <<[status |-> answer, entries |-> ToRenew]>>
          /\ pc' = "RenewalOrderPlaced"
          /\ IF answer = "COMPLETE" THEN Renew(ToRenew) ELSE UNCHANGED subscription
      BY <1>4 DEF RenewalPlaced
    <2>2. /\ renewals' # <<>> /\ renewals'[1].entries = ToRenew /\ renewals'[1].status = answer
      BY <2>1
    <2>3. RenewedIds' = ToRenew /\ (Committed' <=> answer = "COMPLETE")
      BY <2>2 DEF RenewedIds, Committed
    <2>4. ToRenew \in SUBSET Known /\ ToRenew \cap Lapsing = {} /\ Lapsing \subseteq Known
          /\ Known \subseteq Subscriptions
      BY <1>1, PayloadFacts, PlanParts DEF ToRenew, PlanInv, Subscriptions
    <2>5. /\ plan'.snapshot = plan.snapshot /\ UNCHANGED <<payload, status>>
          /\ plan'.done = plan.done /\ plan'.pending = plan.pending
      BY <1>4, SnapshotRemembered DEF RenewalPlaced, NowFields
    <2>6. answer = "COMPLETE" => ShownOf(ToRenew)
      BY <1>1, <2>1, <2>4, RenewUpdates
    <2>7. \A id \in Lapsing : subscription'[id].renewed = subscription[id].renewed
      BY <2>1, <2>4, <2>6 DEF ShownOf
    <2>8. RenewedInv'
      BY <1>1, <2>3, <2>4, <2>6, <2>7 DEF RenewedInv, OrdersInv, ShownOf
    <2>9. StaysBack
      BY <2>7 DEF StaysBack
    <2>10. ReturnsSeen'
      <3>1. plan'.done = {} /\ plan'.pending = {}
        BY <1>3, <2>5 DEF ReturnsSeen
      <3>2. pc' \notin AfterReturns /\ pc' # "ReturnEach" /\ status' # "Completed"
        BY <1>3, <2>1, <2>5 DEF AfterReturns
      <3>3. QED
        BY <2>5, <2>9, <3>1, <3>2, LapsingSeen DEF ReturnsSeen
    <2>11. QED
      BY <2>8, <2>10
  <1>5. ASSUME UNCHANGED <<subscription, renewals>>
        PROVE  RenewedInv'
    BY <1>1, <1>2, <1>5, RenewedInvKept DEF nowVars
  <1>6. CASE Ending /\ UNCHANGED <<renewals, subscription>>
    BY <1>2, <1>5, <1>6, EndingReturns
  <1>7. ASSUME pc' = "ReturnPreviousRenewalOrders",
               Ongoing, UNCHANGED <<subscription, scheduled, plan, renewals>>
        PROVE  RenewedInv' /\ ReturnsSeen'
    <2>1. pc' \notin AfterReturns /\ pc' # "ReturnEach" /\ status' # "Completed"
      BY <1>3, <1>7 DEF AfterReturns, Ongoing
    <2>2. plan'.done = {} /\ plan'.pending = {}
      BY <1>3, <1>7 DEF ReturnsSeen
    <2>3. ReturnsSeen'
      BY <1>2, <1>7, <2>1, <2>2, LapsingSeen DEF ReturnsSeen
    <2>4. QED
      BY <1>5, <1>7, <2>3
  <1>8. QED
    BY <1>1, <1>4, <1>6, <1>7, SubmitEffects

\* A RETURN order of a lapsing subscription, placed or settled.
LEMMA UnrenewReturns ==
    ASSUME PlanInv, OrdersInv, RenewedInv, UNCHANGED <<payload, renewals>>, NEW id \in Lapsing,
           NEW answer \in {"none", "OPEN", "COMPLETE"},
           takenBack' = [takenBack EXCEPT ![id] = answer],
           IF answer = "COMPLETE" THEN Unrenew(id) ELSE UNCHANGED subscription
    PROVE  RenewedInv' /\ StaysBack /\ (answer = "COMPLETE" => subscription'[id].renewed = 0)
  <1>1. id \in Known /\ id \notin payload.renewing /\ SubscriptionsTyped
        /\ Known \subseteq Subscriptions /\ Lapsing \subseteq Known
    BY PayloadFacts DEF PlanInv, Subscriptions
  <1>2. \A other \in Subscriptions : subscription'[other].renewed =
           IF answer = "COMPLETE" /\ other = id THEN 0 ELSE subscription[other].renewed
    BY <1>1, UnrenewUpdates
  <1>3. \A other \in Known : takenBack'[other] = IF other = id THEN answer ELSE takenBack[other]
    BY <1>1 DEF PlanInv, RenewalNowTypeOK
  <1>4. RenewedIds' = RenewedIds /\ Committed' = Committed /\ id \notin RenewedIds
        /\ RenewedIds \subseteq Subscriptions
    BY <1>1, PlanParts DEF RenewedIds, Committed, OrdersInv
  <1>5. RenewedInv'
    BY <1>1, <1>2, <1>3, <1>4 DEF RenewedInv
  <1>6. StaysBack
    BY <1>1, <1>2 DEF StaysBack
  <1>7. QED
    BY <1>1, <1>2, <1>5, <1>6

\* One more subscription is handled.
LEMMA HandledReturns ==
    ASSUME NowStep, ReturnsSeen, pc = "ReturnEach", StaysBack, NEW id \in LapsingRenewed,
           NEW answer, HandledBy(id, answer),
           answer # "OPEN" => subscription'[id].renewed = 0
    PROVE  ReturnsSeen'
  <1>1. ReturnsHandled
    BY DEF ReturnsSeen
  <1>2. /\ plan'.snapshot = plan.snapshot /\ UNCHANGED <<payload, status, pc>>
        /\ plan'.found = plan.found /\ plan'.done = plan.done \cup {id}
        /\ plan'.pending = IF answer = "OPEN" THEN plan.pending \cup {id} ELSE plan.pending
    BY SnapshotRemembered DEF HandledBy, NowFields
  <1>3. Lapsing' = Lapsing /\ id \in Lapsing
    BY <1>2 DEF Lapsing, LapsingRenewed
  <1>4. ReturnsHandled'
    <2>1. \A other \in Lapsing : subscription[other].renewed = 0 => subscription'[other].renewed = 0
      BY DEF StaysBack
    <2>2. \A other \in plan'.done \ plan'.pending : subscription'[other].renewed = 0
      BY <1>1, <1>2, <1>3, <2>1 DEF ReturnsHandled
    <2>3. \A other \in DOMAIN plan'.found :
             plan'.found[other] = "COMPLETE" => subscription'[other].renewed = 0
      BY <1>1, <1>2, <2>1 DEF ReturnsHandled
    <2>4. QED
      BY <1>1, <1>2, <1>3, <2>2, <2>3 DEF ReturnsHandled
  <1>5. QED
    BY <1>2, <1>4, LapsingSeen DEF ReturnsSeen, BeforeReturns, AfterReturns, NowStep

LEMMA ReturnReturns ==
    ASSUME UniqueSkus, NowStep, OrdersInv, RenewedInv, ReturnsSeen,
           ReturnPreviousRenewalOrders("NormalizeRenewedSubscriptions")
    PROVE  RenewedInv' /\ ReturnsSeen'
  <1>1. PlanInv /\ NowPlanTyped /\ UNCHANGED payload /\ status # "Completed"
    BY DEF NowStep, Inv, PlanInv, PlanTyped, NowPlanTyped
  <1>2. UNCHANGED subscription => RenewedKept /\ StaysBack
    BY <1>1, KeptStaysBack DEF RenewedKept
  <1>3. Lapsing' = Lapsing /\ Lapsing \subseteq Known
    BY <1>1, PayloadFacts DEF Lapsing, PlanInv
  <1>4. ASSUME UNCHANGED <<subscription, nowVars>>
        PROVE  RenewedInv'
    BY <1>1, <1>2, <1>4, RenewedInvKept
  <1>5. CASE ReturnsListed
    <2>1. pc \in BeforeReturns /\ UNCHANGED subscription /\ pc \in NowSteps
      BY <1>5 DEF ReturnsListed, BeforeReturns, NowSteps
    <2>2. CASE LapsingRenewed = {} /\ pc' = "NormalizeRenewedSubscriptions" /\ UNCHANGED plan
      <3>1. \A id \in Lapsing : plan.snapshot[id].renewed = 0
        BY <2>2 DEF LapsingRenewed
      <3>2. \A id \in Lapsing : subscription[id].renewed = 0
        BY <2>1, <3>1 DEF ReturnsSeen
      <3>3. ReturnsSeen'
        BY <1>3, <2>1, <2>2, <3>2 DEF ReturnsSeen, BeforeReturns
      <3>4. QED
        BY <1>4, <1>5, <3>3 DEF ReturnsListed
    <2>3. CASE ~(LapsingRenewed = {} /\ pc' = "NormalizeRenewedSubscriptions" /\ UNCHANGED plan)
      <3>1. /\ pc' = "ReturnEach" /\ Remembering({"found"})
            /\ plan'.found = [id \in {other \in Known : takenBack[other] # "none"} |-> takenBack[id]]
        BY <1>5, <2>3 DEF ReturnsListed
      <3>2. /\ plan'.snapshot = plan.snapshot /\ UNCHANGED status
            /\ plan'.done = plan.done /\ plan'.pending = plan.pending
        BY <3>1, SnapshotRemembered DEF NowFields
      <3>3. plan'.done = {}
        BY <2>1, <3>2 DEF ReturnsSeen
      <3>4. \A id \in DOMAIN plan'.found :
               /\ id \in Lapsing /\ plan'.found[id] \in {"OPEN", "COMPLETE"}
               /\ plan'.found[id] = "COMPLETE" => subscription[id].renewed = 0
        BY <1>1, <3>1 DEF OrdersInv, RenewedInv, PlanInv, RenewalNowTypeOK
      <3>5. ReturnsHandled'
        BY <1>3, <2>1, <3>3, <3>4 DEF ReturnsHandled
      <3>6. ReturnsSeen'
        BY <1>1, <1>2, <2>1, <3>1, <3>2, <3>5, LapsingSeen
           DEF ReturnsSeen, BeforeReturns, AfterReturns
      <3>7. QED
        BY <1>4, <1>5, <3>6 DEF ReturnsListed
    <2>4. QED
      BY <2>2, <2>3
  <1>6. CASE ReturnsDone
    <2>1. /\ pc = "ReturnEach" /\ LapsingRenewed = plan.done /\ plan.pending = {}
          /\ UNCHANGED <<subscription, nowVars>> /\ Remembering({"done"})
          /\ pc' = "NormalizeRenewedSubscriptions"
      BY <1>6 DEF ReturnsDone
    <2>2. \A id \in Lapsing : subscription[id].renewed = 0
      BY <2>1 DEF ReturnsSeen, ReturnsHandled, LapsingRenewed, NowSteps
    <2>3. plan'.snapshot = plan.snapshot
      BY <2>1, SnapshotRemembered DEF NowFields
    <2>4. ReturnsSeen'
      BY <1>3, <2>1, <2>2 DEF ReturnsSeen, BeforeReturns
    <2>5. QED
      BY <1>4, <2>1, <2>4
  <1>7. ASSUME pc = "ReturnEach", NEW id \in LapsingRenewed, ReturnReused(id)
        PROVE  RenewedInv' /\ ReturnsSeen'
    <2>1. PICK other \in OwnReturns(id) : HandledBy(id, plan.found[other])
      BY <1>7 DEF ReturnReused
    <2>2. UNCHANGED <<subscription, nowVars>>
      BY <1>7 DEF ReturnReused, HandledBy, nowVars
    <2>3. ReturnsHandled /\ id \in Lapsing
      BY <1>7 DEF ReturnsSeen, LapsingRenewed
    <2>4. other = id
      BY <1>3, <2>1, <2>3 DEF OwnReturns, UniqueSkus, ReturnsHandled
    <2>5. plan.found[id] # "OPEN" => subscription'[id].renewed = 0
      BY <2>1, <2>2, <2>3, <2>4 DEF ReturnsHandled, OwnReturns
    <2>6. ReturnsSeen'
      BY <1>2, <1>7, <2>1, <2>2, <2>4, <2>5, HandledReturns
    <2>7. QED
      BY <1>4, <2>2, <2>6
  <1>8. ASSUME pc = "ReturnEach", NEW id \in LapsingRenewed, NEW answer \in {"OPEN", "COMPLETE"},
               ReturnPlaced(id, answer)
        PROVE  RenewedInv' /\ ReturnsSeen'
    <2>1. UNCHANGED renewals /\ id \in Lapsing
      BY <1>8 DEF ReturnPlaced, HandledBy, LapsingRenewed
    <2>2. RenewedInv' /\ StaysBack /\ (answer = "COMPLETE" => subscription'[id].renewed = 0)
      BY <1>1, <1>8, <2>1, UnrenewReturns DEF ReturnPlaced
    <2>3. ReturnsSeen'
      BY <1>8, <2>2, HandledReturns DEF ReturnPlaced
    <2>4. QED
      BY <2>2, <2>3
  <1>9. CASE Ending /\ UNCHANGED <<subscription, nowVars>>
    BY <1>2, <1>4, <1>9, EndingReturns
  <1>10. QED
    BY <1>1, <1>5, <1>6, <1>7, <1>8, <1>9, ReturnEffects

LEMMA OtherReturns ==
    ASSUME NowStep, OrdersInv, RenewedInv, ReturnsSeen, UNCHANGED nowVars, RenewedKept,
           \/ Ending
           \/ /\ UNCHANGED status /\ plan'.snapshot = plan.snapshot
              /\ \/ /\ pc \in BeforeReturns /\ pc' \in BeforeReturns
                    /\ plan'.done = plan.done /\ plan'.pending = plan.pending
                 \/ pc \in AfterReturns /\ pc' \in AfterReturns
    PROVE  RenewedInv' /\ ReturnsSeen'
  <1>1. PlanInv /\ UNCHANGED payload
    BY DEF NowStep, Inv
  <1>2. RenewedInv' /\ StaysBack
    BY <1>1, RenewedInvKept, KeptStaysBack
  <1>3. CASE Ending
    BY <1>2, <1>3, EndingReturns
  <1>4. CASE /\ UNCHANGED status /\ plan'.snapshot = plan.snapshot
             /\ pc \in BeforeReturns /\ pc' \in BeforeReturns
             /\ plan'.done = plan.done /\ plan'.pending = plan.pending
    BY <1>2, <1>4, LapsingSeen DEF ReturnsSeen, BeforeReturns, AfterReturns, NowStep
  <1>5. CASE /\ UNCHANGED status /\ plan'.snapshot = plan.snapshot
             /\ pc \in AfterReturns /\ pc' \in AfterReturns
    <2>1. Lapsing' = Lapsing /\ \A id \in Lapsing : subscription'[id].renewed = 0
      BY <1>1, <1>2, <1>5 DEF Lapsing, StaysBack, ReturnsSeen
    <2>2. QED
      BY <1>2, <1>5, <2>1 DEF ReturnsSeen, BeforeReturns, AfterReturns
  <1>6. QED
    BY <1>3, <1>4, <1>5

BackInv == payload.path = "now" => RenewedInv /\ ReturnsSeen

\* The other steps of an early renewal.
LEMMA NowReturns ==
    ASSUME UniqueSkus, NowStep, OrdersInv, RenewalSeen, RenewedInv, ReturnsSeen, Now
    PROVE  RenewedInv' /\ ReturnsSeen'
  <1>1. PlanInv /\ NowPlanTyped
    BY DEF NowStep, Inv, PlanInv, PlanTyped, NowPlanTyped
  <1>2. UNCHANGED subscription => RenewedKept
    BY DEF RenewedKept
  <1>3. ASSUME NEW fields \in SUBSET NowFields, Remembering(fields)
        PROVE  /\ UNCHANGED status /\ plan'.snapshot = plan.snapshot
               /\ "done" \notin fields => plan'.done = plan.done
               /\ "pending" \notin fields => plan'.pending = plan.pending
    BY <1>3, SnapshotRemembered
  <1>4. {"done"} \in SUBSET NowFields /\ {"preview"} \in SUBSET NowFields
    BY DEF NowFields
  <1>5. CASE PreviewRenewalNowOrder("SubmitRenewalNowOrder")
    <2>1. /\ UNCHANGED nowVars /\ RenewedKept /\ pc \in BeforeReturns
          /\ \/ Ending
             \/ Remembering({"preview"}) /\ pc' = "SubmitRenewalNowOrder"
      BY <1>1, <1>2, <1>5, PreviewEffects DEF BeforeReturns
    <2>2. CASE Ending
      BY <2>1, <2>2, OtherReturns
    <2>3. CASE Remembering({"preview"}) /\ pc' = "SubmitRenewalNowOrder"
      <3>1. /\ UNCHANGED status /\ plan'.snapshot = plan.snapshot
            /\ plan'.done = plan.done /\ plan'.pending = plan.pending
        BY <1>3, <1>4, <2>3
      <3>2. pc' \in BeforeReturns
        BY <2>3 DEF BeforeReturns
      <3>3. QED
        BY <2>1, <3>1, <3>2, OtherReturns
    <2>4. QED
      BY <2>1, <2>2, <2>3
  <1>6. ASSUME UNCHANGED nowVars, RenewedKept, Remembering({"done"}),
               pc \in AfterReturns, pc' \in AfterReturns
        PROVE  RenewedInv' /\ ReturnsSeen'
    <2>1. UNCHANGED status /\ plan'.snapshot = plan.snapshot
      BY <1>3, <1>4, <1>6
    <2>2. QED
      BY <1>6, <2>1, OtherReturns
  <1>7. CASE NormalizeRenewedSubscriptions("DisableLapsingSubscriptions")
    <2>1. \A id : NormalisedAs(id) => RenewedKept
      <3>1. \A id, quantity, codes : Written(id, TRUE, quantity, codes) => RenewedKept
        BY WrittenKeepsRenewed
      <3>2. QED
        BY <1>2, <3>1 DEF NormalisedAs
    <2>2. UNCHANGED nowVars /\ RenewedKept /\ pc \in AfterReturns
      BY <1>1, <1>2, <1>7, <2>1, NormalizeEffects DEF UpdateDone, AfterReturns
    <2>3. Ending \/ (Remembering({"done"}) /\ pc' \in AfterReturns)
      BY <1>1, <1>7, NormalizeEffects DEF UpdateDone, OneUpdated, AfterReturns
    <2>4. QED
      BY <1>6, <2>2, <2>3, OtherReturns
  <1>8. CASE DisableLapsingSubscriptions("CompleteOrder")
    <2>1. \A id : DisabledAs(id) => RenewedKept
      BY WrittenKeepsRenewed DEF DisabledAs
    <2>2. UNCHANGED nowVars /\ RenewedKept /\ pc \in AfterReturns
      BY <1>1, <1>2, <1>8, <2>1, LapsingEffects DEF UpdateDone, AfterReturns
    <2>3. Ending \/ (Remembering({"done"}) /\ pc' \in AfterReturns)
      BY <1>1, <1>8, LapsingEffects DEF UpdateDone, OneUpdated, AfterReturns
    <2>4. QED
      BY <1>6, <2>2, <2>3, OtherReturns
  <1>9. QED
    BY <1>5, <1>7, <1>8, SubmitReturns, ReturnReturns DEF Now

\* Adobe settles orders.
LEMMA AdobeReturns ==
    ASSUME PlanInv, OrdersInv, RenewedInv, ReturnsSeen, Adobe
    PROVE  RenewedInv' /\ ReturnsSeen'
  <1>1. UNCHANGED <<status, pc, payload, plan>> /\ Len(renewals) <= 1 /\ SubscriptionsTyped
    BY AdobeEffects DEF OrdersInv, passVars, PlanInv
  <1>2. UNCHANGED subscription => RenewedKept /\ StaysBack
    BY KeptStaysBack DEF RenewedKept
  <1>3. ASSUME NEW answer \in {"COMPLETE", "FAILED"}, SettledAs(answer)
        PROVE  RenewedInv' /\ ReturnsSeen'
    <2>1. /\ renewals # <<>> /\ RenewedIds = renewals[1].entries /\ RenewedIds' = RenewedIds
          /\ (Committed' <=> answer = "COMPLETE") /\ UNCHANGED takenBack
      BY <1>3 DEF SettledAs, Committed, RenewedIds
    <2>2. /\ RenewedIds \in SUBSET Known /\ RenewedIds \cap Lapsing = {}
          /\ Lapsing \subseteq Known /\ Known \subseteq Subscriptions
      BY PayloadFacts, PlanParts DEF OrdersInv, PlanInv, Subscriptions
    <2>3. answer = "COMPLETE" => ShownOf(RenewedIds)
      BY <1>1, <1>3, <2>1, <2>2, RenewUpdates DEF SettledAs
    <2>4. answer # "COMPLETE" => UNCHANGED subscription
      BY <1>3 DEF SettledAs
    <2>5. \A id \in Lapsing : subscription'[id].renewed = subscription[id].renewed
      BY <2>2, <2>3, <2>4 DEF ShownOf
    <2>6. RenewedInv'
      BY <2>1, <2>2, <2>3, <2>4, <2>5 DEF RenewedInv, OrdersInv, ShownOf
    <2>7. ReturnsSeen'
      BY <1>1, <2>5, SeenStaysBack DEF StaysBack
    <2>8. QED
      BY <2>6, <2>7
  <1>4. ASSUME NEW id \in Known, NEW answer \in {"COMPLETE", "none"}, ReturnSettled(id, answer)
        PROVE  RenewedInv' /\ ReturnsSeen'
    <2>1. UNCHANGED renewals /\ id \in Lapsing
      BY <1>4 DEF ReturnSettled, OrdersInv
    <2>2. RenewedInv' /\ StaysBack
      BY <1>1, <1>4, <2>1, UnrenewReturns DEF ReturnSettled
    <2>3. QED
      BY <1>1, <2>2, SeenStaysBack
  <1>5. ASSUME NEW id \in Known, RenewedShown(id)
        PROVE  RenewedInv' /\ ReturnsSeen'
    <2>1. /\ RenewedIds' = RenewedIds /\ Committed /\ UNCHANGED takenBack /\ id \in ShownLate
          /\ ShownOf({id})
      BY <1>1, <1>5, RenewUpdates DEF RenewedShown, Committed, RenewedIds, nowVars
    <2>2. /\ RenewedIds \in SUBSET Known /\ id \notin Lapsing
          /\ Lapsing \subseteq Known /\ Known \subseteq Subscriptions
      BY <1>5, PayloadFacts, PlanParts DEF RenewedShown, OrdersInv, PlanInv, Subscriptions
    <2>3. \A other \in Subscriptions :
             other # id => subscription'[other].renewed = subscription[other].renewed
      BY <2>1 DEF ShownOf
    <2>4. RenewedInv'
      BY <2>1, <2>2, <2>3 DEF RenewedInv, OrdersInv
    <2>5. StaysBack
      BY <2>2, <2>3 DEF StaysBack
    <2>6. QED
      BY <1>1, <2>4, <2>5, SeenStaysBack
  <1>6. QED
    BY <1>1, <1>3, <1>4, <1>5, AdobeEffects

LEMMA BackStep ==
    ASSUME UniqueSkus
    PROVE  Inv /\ AdditiveInv /\ BackInv /\ [Next]_vars => BackInv'
  <1> SUFFICES ASSUME Inv, AdditiveInv, BackInv, [Next]_vars, payload'.path = "now"
               PROVE  RenewedInv' /\ ReturnsSeen'
    BY DEF BackInv
  <1>1. PlanInv /\ (payload.path = "now" => OrdersInv /\ RenewalSeen /\ RenewedInv /\ ReturnsSeen)
    BY DEF Inv, AdditiveInv, BackInv
  <1>2. CASE Now /\ UNCHANGED published
    BY <1>1, <1>2, NowContext, NowReturns DEF NowStep
  <1>3. CASE Adobe /\ UNCHANGED published
    BY <1>1, <1>3, AdobeReturns
       DEF Adobe, AdobeSettlesRenewal, AdobeShowsRenewed, AdobeSettlesReturn
  <1>4. CASE ~(Now /\ UNCHANGED published) /\ ~(Adobe /\ UNCHANGED published)
    <2>1. /\ UNCHANGED <<payload, subscription, nowVars>>
          /\ RenewedKept /\ OrdersInv /\ RenewedInv /\ ReturnsSeen
      BY <1>1, <1>4, OutsideNow DEF RenewedKept
    <2>2. RenewedInv' /\ StaysBack
      BY <1>1, <2>1, RenewedInvKept, KeptStaysBack
    <2>3. Lapsing' = Lapsing
      BY <2>1 DEF Lapsing
    <2>4. CASE UNCHANGED <<pc, plan>> /\ (status' = "Completed" <=> status = "Completed")
      <3>1. ReturnsHandled => ReturnsHandled'
        BY <2>1, <2>3, <2>4 DEF ReturnsHandled
      <3>2. QED
        BY <2>1, <2>2, <2>3, <2>4, <3>1 DEF ReturnsSeen
    <2>5. CASE /\ pc' \notin NowSteps \cup AfterRenewal
               /\ status' = "Completed" => status = "Completed" \/ pc = "CompleteOrder"
      BY <2>1, <2>2, <2>5, EndsReturns DEF AfterRenewal, AfterReturns
    <2>6. CASE /\ UNCHANGED status /\ pc' = "PreviewRenewalNowOrder"
               /\ plan'.done = {} /\ plan'.pending = {}
               /\ payload.entries \subseteq DOMAIN plan'.snapshot
               /\ \A id \in DOMAIN plan'.snapshot : plan'.snapshot[id] = subscription[id]
      <3>1. \A id \in Lapsing' : plan'.snapshot[id].renewed = subscription'[id].renewed
        BY <2>1, <2>3, <2>6 DEF Lapsing
      <3>2. pc' \notin AfterReturns /\ pc' # "ReturnEach"
        BY <2>6 DEF AfterReturns
      <3>3. QED
        BY <2>1, <2>2, <2>3, <2>6, <3>1, <3>2 DEF ReturnsSeen
    <2>7. QED
      BY <1>4, <2>4, <2>5, <2>6, OutsideNow
  <1>5. QED
    BY <1>2, <1>3, <1>4

LEMMA BackAlways ==
    ASSUME UniqueSkus
    PROVE  Spec => []BackInv
  <1>1. Init => BackInv
    <2> SUFFICES ASSUME Init PROVE RenewedInv /\ ReturnsSeen
      BY DEF BackInv
    <2>1. renewals = <<>> /\ \A id \in Known : takenBack[id] = "none"
      BY DEF Init, RenewalNowInit
    <2>2. QED
      BY <2>1 DEF Init, PassInit, RenewalPlanInit, Idle, RenewedInv, ReturnsSeen, Committed,
         NowSteps, BeforeReturns, AfterReturns
  <1>2. Inv /\ AdditiveInv /\ BackInv /\ [Next]_vars => BackInv'
    BY BackStep
  <1>3. QED
    BY <1>1, <1>2, InvAlways, AdditiveAlways, PTL DEF Spec

-----------------------------------------------------------------------------
(* What is left in line.                                                    *)

\* What an order asks to renew it asks with a quantity, unless it was renewed
\* before: _is_already_renewed would take its own renewal for an earlier one.
QuantityRequested ==
    \A entry \in Payloads : entry.path = "now" =>
        \A id \in entry.renewing : entry.quantity[id] = 0 => FirstPreference[id].renewed # 0

\* Those of the order whose renewed quantity shows at once.
ShownIds == RenewedIds \ ShownLate

\* What the updates have brought in line.
LineSeen ==
    /\ pc \in NowSteps => \A id \in Lapsing :
          ~plan.snapshot[id].enabled => ~subscription[id].enabled
    /\ pc = "NormalizeRenewedSubscriptions" => \A id \in plan.done \cap ShownIds : InLine(id)
    /\ pc \in {"DisableLapsingSubscriptions", "CompleteOrder"} \/ status = "Completed" =>
          \A id \in ShownIds : InLine(id)
    /\ pc = "DisableLapsingSubscriptions" =>
          \A id \in plan.done \cap Lapsing : ~subscription[id].enabled
    /\ pc = "CompleteOrder" \/ status = "Completed" =>
          \A id \in Lapsing : ~subscription[id].enabled

LineInv == payload.path = "now" => LineSeen

\* Renewals and their returns leave the preferences alone.
PreferenceKept ==
    \A id \in Subscriptions :
        /\ subscription'[id].enabled <=> subscription[id].enabled
        /\ subscription'[id].quantity = subscription[id].quantity

\* What was renewed is normalised, in whichever pass.
LEMMA RenewedAreNormalised ==
    ASSUME PlanInv, OrdersInv, RenewedInv, Settled, payload.path = "now", QuantityRequested
    PROVE  /\ ShownIds \subseteq ToRenew
           /\ \A id \in ShownIds : subscription[id].renewed = CommittedQuantity[id]
  <1> SUFFICES ASSUME NEW id \in ShownIds
               PROVE  id \in ToRenew /\ subscription[id].renewed = CommittedQuantity[id]
    OBVIOUS
  <1>1. payload \in Payloads /\ id \in payload.renewing /\ id \in Known
    BY PlanParts DEF PlanInv, OrdersInv, ShownIds
  <1>2. payload.quantity[id] # 0
    BY <1>1 DEF OrdersInv, ShownIds, QuantityRequested
  <1>3. Committed
    BY DEF Settled, ShownIds, RenewedIds, Committed
  <1>4. subscription[id].renewed = CommittedQuantity[id] /\ CommittedQuantity[id] # 0
    BY <1>1, <1>3, RenewalNowAssumption DEF RenewedInv, ShownIds
  <1>5. QED
    BY <1>1, <1>2, <1>4 DEF ToRenew, AlreadyRenewed

LEMMA EndingLine ==
    ASSUME NowStep, Ending
    PROVE  LineSeen'
  <1>1. pc # Idle /\ status = "Processing"
    BY DEF NowStep, NowSteps, Idle
  <1>2. status' # "Completed" /\ pc' = Idle
    BY <1>1 DEF Ending, Wait, Decide
  <1>3. QED
    BY <1>2 DEF LineSeen, NowSteps, Idle

\* A step before the updates, which leaves the preferences alone.
LEMMA BeforeLine ==
    ASSUME NowStep, LineSeen, PreferenceKept, UNCHANGED status, plan'.snapshot = plan.snapshot,
           pc' \notin {"DisableLapsingSubscriptions", "CompleteOrder"},
           pc' = "NormalizeRenewedSubscriptions" => plan'.done = {}
    PROVE  LineSeen'
  <1>1. Lapsing' = Lapsing /\ Lapsing \subseteq Subscriptions
    BY PlanParts, PayloadFacts DEF NowStep, Lapsing, Inv, PlanInv
  <1>2. status' # "Completed" /\ pc \in NowSteps
    BY DEF NowStep
  <1>3. QED
    BY <1>1, <1>2 DEF LineSeen, PreferenceKept

LEMMA SubmitLine ==
    ASSUME NowStep, LineSeen, SubmitRenewalNowOrder("ReturnPreviousRenewalOrders")
    PROVE  LineSeen'
  <1>1. PlanInv /\ NowPlanTyped /\ SubscriptionsTyped
    BY DEF NowStep, Inv, PlanInv, PlanTyped, NowPlanTyped
  <1>2. ASSUME NEW answer \in {"OPEN", "COMPLETE"}, RenewalPlaced(answer)
        PROVE  LineSeen'
    <2>1. ToRenew \in SUBSET Known
      BY <1>1, PlanParts DEF ToRenew
    <2>2. PreferenceKept
      BY <1>1, <1>2, <2>1, RenewUpdates, RenewedStaysEnabled DEF RenewalPlaced, PreferenceKept
    <2>3. plan'.snapshot = plan.snapshot /\ UNCHANGED status /\ pc' = "RenewalOrderPlaced"
      BY <1>2, SnapshotRemembered DEF RenewalPlaced, NowFields
    <2>4. QED
      BY <2>2, <2>3, BeforeLine
  <1>3. ASSUME pc' = "ReturnPreviousRenewalOrders", Ongoing, UNCHANGED <<subscription, plan>>
        PROVE  LineSeen'
    BY <1>3, BeforeLine DEF PreferenceKept, Ongoing
  <1>4. QED
    BY <1>1, <1>2, <1>3, EndingLine, SubmitEffects

LEMMA ReturnLine ==
    ASSUME NowStep, ReturnsSeen, LineSeen,
           ReturnPreviousRenewalOrders("NormalizeRenewedSubscriptions")
    PROVE  LineSeen'
  <1>1. PlanInv /\ NowPlanTyped /\ SubscriptionsTyped
    BY DEF NowStep, Inv, PlanInv, PlanTyped, NowPlanTyped
  <1>2. UNCHANGED subscription => PreferenceKept
    BY DEF PreferenceKept
  <1>3. ASSUME NEW fields \in SUBSET NowFields, Remembering(fields), PreferenceKept,
               pc' \notin {"DisableLapsingSubscriptions", "CompleteOrder"},
               pc' = "NormalizeRenewedSubscriptions" => plan'.done = {}
        PROVE  LineSeen'
    BY <1>3, SnapshotRemembered, BeforeLine
  <1>4. ASSUME NEW id, NEW answer, HandledBy(id, answer), pc = "ReturnEach", PreferenceKept
        PROVE  LineSeen'
    BY <1>3, <1>4 DEF HandledBy, NowFields
  <1>5. CASE ReturnsListed
    <2>1. plan.done = {}
      BY <1>5 DEF ReturnsListed, ReturnsSeen, BeforeReturns
    <2>2. QED
      BY <1>2, <1>3, <1>5, <2>1 DEF ReturnsListed, NowFields
  <1>6. CASE ReturnsDone
    BY <1>2, <1>3, <1>6 DEF ReturnsDone, NowFields
  <1>7. ASSUME NEW id \in LapsingRenewed, ReturnReused(id), pc = "ReturnEach"
        PROVE  LineSeen'
    BY <1>2, <1>4, <1>7 DEF ReturnReused
  <1>8. ASSUME NEW id \in LapsingRenewed, NEW answer, ReturnPlaced(id, answer), pc = "ReturnEach"
        PROVE  LineSeen'
    <2>1. id \in Known
      BY <1>1, PayloadFacts DEF LapsingRenewed, PlanInv
    <2>2. PreferenceKept
      BY <1>1, <1>8, <2>1, UnrenewUpdates, RenewedStaysEnabled DEF ReturnPlaced, PreferenceKept
    <2>3. QED
      BY <1>4, <1>8, <2>2 DEF ReturnPlaced
  <1>9. QED
    BY <1>1, <1>5, <1>6, <1>7, <1>8, EndingLine, ReturnEffects

LEMMA NormalizeLine ==
    ASSUME NowStep, OrdersInv, RenewalSeen, RenewedInv, LineSeen, QuantityRequested,
           NormalizeRenewedSubscriptions("DisableLapsingSubscriptions")
    PROVE  LineSeen'
  <1>1. /\ PlanInv /\ UNCHANGED <<payload, nowVars>> /\ pc = "NormalizeRenewedSubscriptions"
        /\ status # "Completed"
    BY NormalizeEffects DEF NowStep, Inv
  <1>2. ShownIds' = ShownIds /\ Lapsing' = Lapsing
    BY <1>1 DEF ShownIds, RenewedIds, Lapsing, nowVars
  <1>3. /\ ShownIds \subseteq ToRenew
        /\ \A id \in ShownIds : subscription[id].renewed = CommittedQuantity[id]
    BY <1>1, RenewedAreNormalised DEF NowStep, RenewalSeen, AfterRenewal
  <1>4. CASE UpdateDone(ToRenew, "DisableLapsingSubscriptions")
    <2>1. /\ ToRenew \subseteq plan.done /\ plan'.done = {} /\ UNCHANGED <<subscription, status>>
          /\ plan'.snapshot = plan.snapshot /\ pc' = "DisableLapsingSubscriptions"
      BY <1>4, SnapshotRemembered DEF UpdateDone, NowFields
    <2>2. \A id \in ShownIds : InLine(id)
      BY <1>1, <1>3, <2>1 DEF LineSeen
    <2>3. QED
      BY <1>1, <1>2, <2>1, <2>2 DEF LineSeen, InLine, NowStep
  <1>5. ASSUME NEW id \in ToRenew, OneUpdated(id), subscription[id].renewed = 0,
               UNCHANGED subscription
        PROVE  LineSeen'
    <2>1. /\ plan'.done = plan.done \cup {id} /\ plan'.snapshot = plan.snapshot
          /\ UNCHANGED <<pc, status>>
      BY <1>5, SnapshotRemembered DEF OneUpdated, NowFields
    <2>2. id \notin ShownIds
      <3>1. id \in Known
        BY <1>1, <1>5, PlanParts DEF ToRenew
      <3>2. QED
        BY <1>3, <1>5, <3>1, RenewalNowAssumption
    <2>3. QED
      BY <1>1, <1>2, <1>5, <2>1, <2>2 DEF LineSeen, InLine, NowSteps
  <1>6. ASSUME NEW id \in ToRenew, NormalisedAs(id), OneUpdated(id),
               subscription[id].renewed # 0
        PROVE  LineSeen'
    <2>1. PICK codes \in SUBSET {"code"} : Written(id, TRUE, subscription[id].renewed, codes)
      BY <1>6 DEF NormalisedAs
    <2>2. /\ \A other \in Subscriptions : other # id => subscription'[other] = subscription[other]
          /\ subscription'[id].enabled = TRUE
          /\ subscription'[id].quantity = subscription[id].renewed
      <3> DEFINE renewed == subscription[id].renewed
      <3>1. Written(id, TRUE, renewed, codes)
        BY <2>1
      <3> HIDE DEF renewed
      <3>2. /\ \A other \in Subscriptions : other # id => subscription'[other] = subscription[other]
            /\ subscription'[id].enabled = TRUE /\ subscription'[id].quantity = renewed
        BY <3>1, WrittenAt
      <3>3. QED
        BY <3>2 DEF renewed
    <2>3. subscription'[id].enabled
      BY <2>2, Zenon
    <2>4. /\ plan'.done = plan.done \cup {id} /\ plan'.snapshot = plan.snapshot
          /\ UNCHANGED <<pc, status>>
      BY <1>6, SnapshotRemembered DEF OneUpdated, NowFields
    <2>5. /\ id \notin Lapsing /\ Lapsing \subseteq Subscriptions
          /\ ShownIds \subseteq Subscriptions
      BY <1>1, PlanParts, PayloadFacts DEF ToRenew, PlanInv, OrdersInv, ShownIds
    <2>6. \A other \in plan'.done \cap ShownIds : InLine(other)'
      <3>1. id \in ShownIds => InLine(id)'
        BY <1>3, <2>2, <2>3 DEF InLine
      <3>2. \A other \in plan.done \cap ShownIds : InLine(other)
        BY <1>1 DEF LineSeen
      <3>3. QED
        BY <2>2, <2>4, <2>5, <3>1, <3>2 DEF InLine
    <2>7. \A other \in Lapsing : ~plan'.snapshot[other].enabled => ~subscription'[other].enabled
      BY <1>1, <2>2, <2>4, <2>5 DEF LineSeen, NowSteps
    <2>8. QED
      BY <1>1, <1>2, <2>4, <2>6, <2>7 DEF LineSeen, InLine
  <1>7. QED
    BY <1>1, <1>4, <1>5, <1>6, EndingLine, NormalizeEffects DEF NormalisedAs

LEMMA LapsingLine ==
    ASSUME NowStep, OrdersInv, LineSeen, DisableLapsingSubscriptions("CompleteOrder")
    PROVE  LineSeen'
  <1>1. /\ PlanInv /\ UNCHANGED <<payload, nowVars>> /\ pc = "DisableLapsingSubscriptions"
        /\ status # "Completed"
    BY LapsingEffects DEF NowStep, Inv
  <1>2. ShownIds' = ShownIds /\ Lapsing' = Lapsing
    BY <1>1 DEF ShownIds, RenewedIds, Lapsing, nowVars
  <1>3. /\ ShownIds \cap Lapsing = {} /\ Lapsing \subseteq Subscriptions
        /\ ShownIds \subseteq Subscriptions
    BY <1>1, PlanParts, PayloadFacts DEF PlanInv, OrdersInv, ShownIds
  <1>4. CASE UpdateDone(LapsingEnabled, "CompleteOrder")
    <2>1. /\ LapsingEnabled \subseteq plan.done /\ UNCHANGED <<subscription, status>>
          /\ pc' = "CompleteOrder"
      BY <1>4, SnapshotRemembered DEF UpdateDone, NowFields
    <2>2. \A id \in Lapsing : ~subscription[id].enabled
      BY <1>1, <2>1 DEF LineSeen, LapsingEnabled, NowSteps
    <2>3. QED
      BY <1>1, <1>2, <2>1, <2>2 DEF LineSeen, InLine, NowSteps
  <1>5. ASSUME NEW id \in LapsingEnabled, DisabledAs(id), OneUpdated(id)
        PROVE  LineSeen'
    <2>1. PICK codes \in SUBSET {"code"} :
            Written(id, FALSE, subscription[id].quantity, codes)
      BY <1>5 DEF DisabledAs
    <2>2. /\ \A other \in Subscriptions : other # id => subscription'[other] = subscription[other]
          /\ subscription'[id].enabled = FALSE
      <3> DEFINE quantity == subscription[id].quantity
      <3>1. Written(id, FALSE, quantity, codes)
        BY <2>1
      <3> HIDE DEF quantity
      <3>2. QED
        BY <3>1, WrittenAt
    <2>3. ~subscription'[id].enabled
      BY <2>2, Zenon
    <2>4. /\ plan'.done = plan.done \cup {id} /\ plan'.snapshot = plan.snapshot
          /\ UNCHANGED <<pc, status>>
      BY <1>5, SnapshotRemembered DEF OneUpdated, NowFields
    <2>5. \A other \in ShownIds : InLine(other)'
      BY <1>1, <1>3, <2>2 DEF LineSeen, InLine, LapsingEnabled
    <2>6. /\ \A other \in plan'.done \cap Lapsing : ~subscription'[other].enabled
          /\ \A other \in Lapsing : ~plan'.snapshot[other].enabled => ~subscription'[other].enabled
      BY <1>1, <1>3, <2>2, <2>3, <2>4 DEF LineSeen, NowSteps
    <2>7. QED
      BY <1>1, <1>2, <2>4, <2>5, <2>6 DEF LineSeen, InLine
  <1>6. QED
    BY <1>1, <1>4, <1>5, EndingLine, LapsingEffects

LEMMA NowLine ==
    ASSUME NowStep, OrdersInv, RenewalSeen, RenewedInv, ReturnsSeen, LineSeen,
           QuantityRequested, Now
    PROVE  LineSeen'
  <1>1. CASE PreviewRenewalNowOrder("SubmitRenewalNowOrder")
    <2>1. NowPlanTyped
      BY DEF NowStep, Inv, PlanInv, PlanTyped, NowPlanTyped
    <2>2. /\ PreferenceKept
          /\ Ending \/ (Remembering({"preview"}) /\ pc' = "SubmitRenewalNowOrder")
      BY <1>1, <2>1, PreviewEffects DEF PreferenceKept
    <2>3. CASE Remembering({"preview"}) /\ pc' = "SubmitRenewalNowOrder"
      BY <2>2, <2>3, SnapshotRemembered, BeforeLine DEF NowFields
    <2>4. QED
      BY <2>2, <2>3, EndingLine
  <1>2. QED
    BY <1>1, SubmitLine, ReturnLine, NormalizeLine, LapsingLine DEF Now

LEMMA AdobeLine ==
    ASSUME PlanInv, OrdersInv, LineSeen, Adobe
    PROVE  LineSeen'
  <1>1. UNCHANGED <<status, pc, payload, plan>> /\ Len(renewals) <= 1 /\ SubscriptionsTyped
    BY AdobeEffects DEF OrdersInv, passVars, PlanInv
  <1>2. Lapsing' = Lapsing /\ Lapsing \subseteq Subscriptions /\ RenewedIds \subseteq Subscriptions
    BY <1>1, PlanParts, PayloadFacts DEF Lapsing, PlanInv, OrdersInv
  <1>3. PreferenceKept /\ RenewedIds' = RenewedIds
    <2>1. ASSUME NEW answer \in {"COMPLETE", "FAILED"}, SettledAs(answer)
          PROVE  PreferenceKept /\ RenewedIds' = RenewedIds
      <3>1. RenewedIds = renewals[1].entries /\ RenewedIds' = RenewedIds
        BY <2>1 DEF SettledAs, RenewedIds
      <3>2. renewals[1].entries \in SUBSET Known
        BY <3>1, PlanParts DEF OrdersInv
      <3>3. QED
        BY <1>1, <2>1, <3>1, <3>2, RenewUpdates, RenewedStaysEnabled DEF SettledAs, PreferenceKept
    <2>2. ASSUME NEW id \in Known, NEW answer \in {"COMPLETE", "none"}, ReturnSettled(id, answer)
          PROVE  PreferenceKept /\ RenewedIds' = RenewedIds
      BY <1>1, <2>2, UnrenewUpdates, RenewedStaysEnabled
         DEF ReturnSettled, PreferenceKept, RenewedIds
    <2>3. ASSUME NEW id \in Known, RenewedShown(id)
          PROVE  PreferenceKept /\ RenewedIds' = RenewedIds
      BY <1>1, <2>3, RenewUpdates, RenewedStaysEnabled
         DEF RenewedShown, PreferenceKept, RenewedIds, nowVars
    <2>4. QED
      BY <1>1, <2>1, <2>2, <2>3, AdobeEffects
  <1>4. \A id \in Subscriptions : InLine(id)' <=> InLine(id)
    BY <1>3 DEF InLine, PreferenceKept
  <1>5. QED
    BY <1>1, <1>2, <1>3, <1>4 DEF LineSeen, ShownIds, PreferenceKept

LEMMA LineStep ==
    ASSUME QuantityRequested
    PROVE  Inv /\ AdditiveInv /\ BackInv /\ LineInv /\ [Next]_vars => LineInv'
  <1> SUFFICES ASSUME Inv, AdditiveInv, BackInv, LineInv, [Next]_vars, payload'.path = "now"
               PROVE  LineSeen'
    BY DEF LineInv
  <1>1. /\ PlanInv
        /\ payload.path = "now" => /\ OrdersInv /\ RenewalSeen /\ RenewedInv /\ ReturnsSeen
                                   /\ LineSeen
    BY DEF Inv, AdditiveInv, BackInv, LineInv
  <1>2. CASE Now /\ UNCHANGED published
    BY <1>1, <1>2, NowContext, NowLine DEF NowStep
  <1>3. CASE Adobe /\ UNCHANGED published
    BY <1>1, <1>3, AdobeLine
       DEF Adobe, AdobeSettlesRenewal, AdobeShowsRenewed, AdobeSettlesReturn
  <1>4. CASE ~(Now /\ UNCHANGED published) /\ ~(Adobe /\ UNCHANGED published)
    <2>1. UNCHANGED <<payload, subscription, nowVars>> /\ LineSeen
      BY <1>1, <1>4, OutsideNow
    <2>2. Lapsing' = Lapsing /\ ShownIds' = ShownIds
      BY <2>1 DEF Lapsing, ShownIds, RenewedIds, nowVars
    <2>3. CASE UNCHANGED <<pc, plan>> /\ (status' = "Completed" <=> status = "Completed")
      BY <2>1, <2>2, <2>3 DEF LineSeen, InLine
    <2>4. CASE /\ pc' \notin NowSteps \cup AfterRenewal
               /\ status' = "Completed" => status = "Completed" \/ pc = "CompleteOrder"
      BY <2>1, <2>2, <2>4 DEF LineSeen, InLine, NowSteps, AfterRenewal
    <2>5. CASE /\ UNCHANGED status /\ pc' = "PreviewRenewalNowOrder"
               /\ payload.entries \subseteq DOMAIN plan'.snapshot
               /\ \A id \in DOMAIN plan'.snapshot : plan'.snapshot[id] = subscription[id]
      <3>1. \A id \in Lapsing : plan'.snapshot[id] = subscription[id]
        BY <2>5 DEF Lapsing
      <3>2. QED
        BY <2>1, <2>2, <2>5, <3>1 DEF LineSeen, InLine
    <2>6. QED
      BY <1>4, <2>3, <2>4, <2>5, OutsideNow
  <1>5. QED
    BY <1>2, <1>3, <1>4

-----------------------------------------------------------------------------
(* What was never shown is never written.                                   *)

\* Of the subscriptions of an early renewal Adobe shows nothing but what was
\* renewed before and what it committed, and what will renew is one of these.
QuantityShown ==
    \A id \in Known :
        /\ subscription[id].renewed \in {0, FirstPreference[id].renewed, CommittedQuantity[id]}
        /\ KeptOrShown(id)

QuantityInv == payload.path = "now" => QuantityShown

\* Adobe's changes of the renewed quantity.
LEMMA QuantityKept ==
    ASSUME SubscriptionsTyped, QuantityShown, OnlyRenewed,
           \A id \in Known : subscription'[id].renewed \in
              {0, subscription[id].renewed, CommittedQuantity[id]}
    PROVE  QuantityShown'
  <1>1. \A id \in Known : subscription'[id].quantity = subscription[id].quantity
    BY RenewedStaysEnabled DEF Subscriptions
  <1>2. QED
    BY <1>1 DEF QuantityShown, KeptOrShown

LEMMA RenewQuantity ==
    ASSUME SubscriptionsTyped, QuantityShown, NEW ids \in SUBSET Known, Renew(ids)
    PROVE  QuantityShown'
  <1>1. OnlyRenewed /\ ShownOf(ids)
    BY RenewUpdates
  <1>2. QED
    BY <1>1, QuantityKept DEF ShownOf, Subscriptions

LEMMA UnrenewQuantity ==
    ASSUME SubscriptionsTyped, QuantityShown, NEW id \in Known, Unrenew(id)
    PROVE  QuantityShown'
  <1>1. /\ OnlyRenewed
        /\ \A other \in Subscriptions : subscription'[other].renewed =
              IF other = id THEN 0 ELSE subscription[other].renewed
    BY UnrenewUpdates
  <1>2. QED
    BY <1>1, QuantityKept DEF Subscriptions

\* An update that writes the quantity there is, or the one renewed.
LEMMA WrittenQuantity ==
    ASSUME QuantityShown, NEW id \in Known, NEW enabled, NEW quantity, NEW codes,
           Written(id, enabled, quantity, codes),
           \/ quantity = subscription[id].quantity
           \/ quantity = subscription[id].renewed /\ quantity # 0
    PROVE  QuantityShown'
  <1>1. /\ subscription'[id].quantity = quantity
        /\ subscription'[id].renewed = subscription[id].renewed
        /\ \A other \in Known \ {id} : subscription'[other] = subscription[other]
    BY WrittenAt DEF Subscriptions
  <1>2. KeptOrShown(id)'
    BY <1>1 DEF QuantityShown, KeptOrShown
  <1>3. ASSUME NEW other \in Known
        PROVE  /\ subscription'[other].renewed \in
                    {0, FirstPreference[other].renewed, CommittedQuantity[other]}
               /\ KeptOrShown(other)'
    BY <1>1, <1>2, <1>3 DEF QuantityShown, KeptOrShown
  <1>4. QED
    BY <1>3 DEF QuantityShown

LEMMA NowQuantity ==
    ASSUME NowStep, QuantityShown, Now
    PROVE  QuantityShown'
  <1>1. PlanInv /\ NowPlanTyped /\ SubscriptionsTyped
    BY DEF NowStep, Inv, PlanInv, PlanTyped, NowPlanTyped
  <1>2. UNCHANGED subscription => QuantityShown'
    BY DEF QuantityShown, KeptOrShown
  <1>3. ToRenew \subseteq Known /\ LapsingRenewed \subseteq Known /\ LapsingEnabled \subseteq Known
    BY <1>1, PayloadFacts DEF ToRenew, LapsingRenewed, LapsingEnabled, PlanInv
  <1>4. CASE PreviewRenewalNowOrder("SubmitRenewalNowOrder")
    BY <1>1, <1>2, <1>4, PreviewEffects
  <1>5. CASE SubmitRenewalNowOrder("ReturnPreviousRenewalOrders")
    BY <1>1, <1>2, <1>3, <1>5, SubmitEffects, RenewQuantity DEF RenewalPlaced
  <1>6. CASE ReturnPreviousRenewalOrders("NormalizeRenewedSubscriptions")
    BY <1>1, <1>2, <1>3, <1>6, ReturnEffects, UnrenewQuantity
       DEF ReturnsListed, ReturnsDone, ReturnReused, ReturnPlaced
  <1>7. ASSUME NEW id \in ToRenew, NormalisedAs(id)
        PROVE  QuantityShown'
    <2>1. CASE subscription[id].renewed = 0
      BY <1>2, <1>7, <2>1 DEF NormalisedAs
    <2>2. CASE subscription[id].renewed # 0
      <3> DEFINE quantity == subscription[id].renewed
      <3>1. PICK codes \in SUBSET {"code"} : Written(id, TRUE, quantity, codes)
        BY <1>7, <2>2 DEF NormalisedAs
      <3>2. id \in Known /\ quantity = subscription[id].renewed /\ quantity # 0
        BY <1>3, <2>2
      <3> HIDE DEF quantity
      <3>3. QED
        BY <3>1, <3>2, WrittenQuantity
    <2>3. QED
      BY <2>1, <2>2
  <1>8. CASE NormalizeRenewedSubscriptions("DisableLapsingSubscriptions")
    BY <1>1, <1>2, <1>7, <1>8, NormalizeEffects DEF UpdateDone
  <1>9. ASSUME NEW id \in LapsingEnabled, DisabledAs(id)
        PROVE  QuantityShown'
    <2> DEFINE quantity == subscription[id].quantity
    <2>1. PICK codes \in SUBSET {"code"} : Written(id, FALSE, quantity, codes)
      BY <1>9 DEF DisabledAs
    <2>2. id \in Known /\ quantity = subscription[id].quantity
      BY <1>3
    <2> HIDE DEF quantity
    <2>3. QED
      BY <2>1, <2>2, WrittenQuantity
  <1>10. CASE DisableLapsingSubscriptions("CompleteOrder")
    BY <1>1, <1>2, <1>9, <1>10, LapsingEffects DEF UpdateDone
  <1>11. QED
    BY <1>4, <1>5, <1>6, <1>8, <1>10 DEF Now

LEMMA AdobeQuantity ==
    ASSUME PlanInv, OrdersInv, QuantityShown, Adobe
    PROVE  QuantityShown'
  <1>1. SubscriptionsTyped /\ Len(renewals) <= 1
    BY DEF PlanInv, OrdersInv
  <1>2. UNCHANGED subscription => QuantityShown'
    BY DEF QuantityShown, KeptOrShown
  <1>3. ASSUME NEW answer \in {"COMPLETE", "FAILED"}, SettledAs(answer)
        PROVE  QuantityShown'
    <2>1. renewals[1].entries \in SUBSET Known
      BY <1>3, PlanParts DEF SettledAs, OrdersInv, RenewedIds
    <2>2. QED
      BY <1>1, <1>2, <1>3, <2>1, RenewQuantity DEF SettledAs
  <1>4. ASSUME NEW id \in Known, NEW answer \in {"COMPLETE", "none"}, ReturnSettled(id, answer)
        PROVE  QuantityShown'
    BY <1>1, <1>2, <1>4, UnrenewQuantity DEF ReturnSettled
  <1>5. ASSUME NEW id \in Known, RenewedShown(id)
        PROVE  QuantityShown'
    BY <1>1, <1>5, RenewQuantity DEF RenewedShown
  <1>6. QED
    BY <1>1, <1>3, <1>4, <1>5, AdobeEffects

LEMMA QuantityAlways == Spec => []QuantityInv
  <1>1. Init => QuantityInv
    BY DEF Init, RenewalPlanInit, QuantityInv, QuantityShown, KeptOrShown
  <1>2. Inv /\ AdditiveInv /\ QuantityInv /\ [Next]_vars => QuantityInv'
    <2> SUFFICES ASSUME Inv, AdditiveInv, QuantityInv, [Next]_vars, payload'.path = "now"
                 PROVE  QuantityShown'
      BY DEF QuantityInv
    <2>1. PlanInv /\ (payload.path = "now" => OrdersInv /\ QuantityShown)
      BY DEF Inv, AdditiveInv, QuantityInv
    <2>2. CASE Now /\ UNCHANGED published
      BY <2>1, <2>2, NowContext, NowQuantity DEF NowStep
    <2>3. CASE Adobe /\ UNCHANGED published
      BY <2>1, <2>3, AdobeQuantity
         DEF Adobe, AdobeSettlesRenewal, AdobeShowsRenewed, AdobeSettlesReturn
    <2>4. CASE ~(Now /\ UNCHANGED published) /\ ~(Adobe /\ UNCHANGED published)
      <3>1. UNCHANGED <<payload, subscription>>
        BY <2>4, OutsideNow
      <3>2. QED
        BY <2>1, <3>1 DEF QuantityShown, KeptOrShown
    <2>5. QED
      BY <2>2, <2>3, <2>4
  <1>3. QED
    BY <1>1, <1>2, InvAlways, AdditiveAlways, PTL DEF Spec

\* A completed early renewal is consistent, however its passes were cut off
\* and whatever Adobe settled or showed in between: what was renewed will renew
\* with the committed quantity, or, when Adobe showed that too late, with what
\* it did show; what lapses is off and its earlier renewal given back.  The
\* subscriptions have SKUs of their own, by which a RETURN order is found
\* again, and what is to renew comes with a quantity.
THEOREM NowIsDelivered ==
    ASSUME UniqueSkus, QuantityRequested
    PROVE  Spec => []NowDelivered
  <1>1. Init => LineInv
    BY DEF Init, PassInit, RenewalPlanInit, Idle, LineInv, LineSeen, NowSteps
  <1>2. Inv /\ AdditiveInv /\ BackInv /\ LineInv /\ [Next]_vars => LineInv'
    BY LineStep
  <1>3. Inv /\ AdditiveInv /\ BackInv /\ LineInv /\ QuantityInv => NowDelivered
    <2> SUFFICES ASSUME Inv, AdditiveInv, BackInv, LineInv, QuantityInv,
                        status = "Completed", payload.path = "now"
                 PROVE  /\ \A id \in UNION {renewals[i].entries : i \in DOMAIN renewals} :
                              InLine(id) \/ (id \in ShownLate /\ KeptOrShown(id))
                        /\ \A id \in Lapsing : ~subscription[id].enabled /\ subscription[id].renewed = 0
      BY DEF NowDelivered
    <2>1. OrdersInv /\ ReturnsSeen /\ LineSeen /\ QuantityShown
      BY DEF AdditiveInv, BackInv, LineInv, QuantityInv
    <2>2. \A id \in RenewedIds : InLine(id) \/ (id \in ShownLate /\ KeptOrShown(id))
      <3>1. \A id \in RenewedIds \ ShownLate : InLine(id)
        BY <2>1 DEF LineSeen, ShownIds
      <3>2. \A id \in RenewedIds \cap ShownLate : KeptOrShown(id)
        BY <2>1, RenewalNowAssumption DEF QuantityShown
      <3>3. QED
        BY <3>1, <3>2
    <2>3. \A i \in DOMAIN renewals : renewals[i].entries \subseteq RenewedIds
      <3>1. renewals \in Seq(RenewalOrder) /\ Len(renewals) <= 1
        BY <2>1 DEF Inv, PlanInv, RenewalNowTypeOK, OrdersInv
      <3>2. DOMAIN renewals = 1 .. Len(renewals) /\ Len(renewals) \in Nat
        BY <3>1, LenProperties
      <3>3. \A i \in DOMAIN renewals : i = 1 /\ renewals # <<>>
        BY <3>1, <3>2, EmptySeq
      <3>4. QED
        BY <3>3 DEF RenewedIds
    <2>4. QED
      BY <2>1, <2>2, <2>3 DEF LineSeen, ReturnsSeen
  <1>4. Spec => []BackInv
    BY BackAlways
  <1>5. QED
    BY <1>1, <1>2, <1>3, <1>4, InvAlways, AdditiveAlways, QuantityAlways, PTL DEF Spec
=============================================================================
