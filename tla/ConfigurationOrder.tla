-------------------------- MODULE ConfigurationOrder --------------------------
(***************************************************************************)
(* Fulfilment of an MPT configuration order: the auto-renewal flag of each *)
(* subscription of the order is set as the order says.  An update that     *)
(* fails ends the loop, the ones before it are undone as far as Adobe lets *)
(* them, and the order is failed.                                          *)
(***************************************************************************)
EXTENDS OrderPass

CONSTANTS
    Configured,        \* the subscriptions of the order
    Desired,           \* autoRenew of each
    FirstEnabled       \* autoRenewal.enabled of each at first

ASSUME ConfigurationAssumption ==
    /\ Desired \in [Configured -> BOOLEAN]
    /\ FirstEnabled \in [Configured -> BOOLEAN]

VARIABLE enabled       \* autoRenewal.enabled of each subscription

Switch(s, flag) == enabled' = [enabled EXCEPT ![s] = flag]
Handled(s) == ctx' = [ctx EXCEPT !.done = @ \cup {s}]

-----------------------------------------------------------------------------
\* Mutant of UpdateAutoRenewal: an update that failed is passed over.
UpdateAutoRenewalAnyhow(s) ==
    /\ pc = "SubscriptionUpdateAutoRenewal"
    /\ s \in Configured \ ctx.done
    /\ Handled(s)
    /\ Switch(s, Desired[s]) \/ UNCHANGED enabled
    /\ UNCHANGED <<status, dueDate, vendorId, today, pc>>

\* _process_subscription.  A failed update may have been applied, when only
\* reading the subscription back failed.
UpdateAutoRenewal(s) ==
    /\ pc = "SubscriptionUpdateAutoRenewal"
    /\ s \in Configured \ ctx.done
    /\ \/ /\ enabled[s] = Desired[s]
          /\ Handled(s)
          /\ UNCHANGED <<enabled, pc>>
       \/ /\ enabled[s] # Desired[s]
          /\ Switch(s, Desired[s])
          /\ ctx' = [ctx EXCEPT !.done = @ \cup {s}, !.updated = @ \cup {s}]
          /\ UNCHANGED pc
       \/ /\ "SubscriptionUnknown" \in Refusals
          /\ Switch(s, Desired[s]) \/ UNCHANGED enabled
          /\ Goto("RollbackUpdatedSubscriptions")
          /\ UNCHANGED ctx
    /\ UNCHANGED <<status, dueDate, vendorId, today>>

SubscriptionUpdateAutoRenewal(next) ==
    \/ \E s \in Configured : UpdateAutoRenewal(s)
    \/ /\ pc = "SubscriptionUpdateAutoRenewal"
       /\ Configured \subseteq ctx.done
       /\ ctx' = [ctx EXCEPT !.done = {}, !.updated = {}]
       /\ Goto(next)
       /\ UNCHANGED <<status, dueDate, vendorId, today, enabled>>

\* rollback_updated_subscriptions: a call that fails is passed over.
RollbackUpdatedSubscription(s) ==
    /\ pc = "RollbackUpdatedSubscriptions"
    /\ s \in ctx.updated
    /\ Switch(s, ~Desired[s]) \/ UNCHANGED enabled
    /\ ctx' = [ctx EXCEPT !.updated = @ \ {s}]
    /\ UNCHANGED <<status, dueDate, vendorId, today, pc>>

HandleSubscriptionError ==
    \/ \E s \in Configured : RollbackUpdatedSubscription(s)
    \/ /\ pc = "RollbackUpdatedSubscriptions"
       /\ ctx.updated = {}
       /\ switch_order_to_failed
       /\ UNCHANGED enabled

-----------------------------------------------------------------------------
(* The pipeline of fulfill_configuration_order.                             *)

ConfigurationSteps ==
    \/ /\ \/ SetupContext("SetupDueDate")
          \/ SetupDueDate("ValidateRenewalWindow")
          \/ ValidateRenewalWindow("SubscriptionUpdateAutoRenewal")
          \/ CompleteOrder
       /\ UNCHANGED enabled
    \/ SubscriptionUpdateAutoRenewal("CompleteOrder")
    \/ HandleSubscriptionError

ConfigurationInit == enabled = FirstEnabled

ConfigurationTypeOK == enabled \in [Configured -> BOOLEAN]
=============================================================================
