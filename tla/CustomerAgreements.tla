-------------------------- MODULE CustomerAgreements --------------------------
(***************************************************************************)
(* A customer at Adobe and the copies the Marketplace (MPT) keeps of it:   *)
(* the main agreement, and one agreement for each deployment of a global   *)
(* customer.  An agreement holds a copy of the subscriptions of its        *)
(* deployment and of the customer's three-year commitment.                 *)
(***************************************************************************)
EXTENDS Naturals, Sequences

CONSTANTS
    Main,           \* stands for "no deployment": the main agreement
    Deployments,    \* active deployments; none unless globalSalesEnabled
    Subscriptions,
    DeploymentOf,   \* deploymentId of a subscription, or Main
    Quantities,     \* renewal quantities
    Commitments,    \* values of the 3YC benefit (NoCommitment among them)
    NoCommitment,
    MaxChanges,     \* bound on the changes made at Adobe and by orders
    MaxAgreements   \* bound on the agreements created

ASSUME CustomerAssumption ==
    /\ Main \notin Deployments
    /\ DeploymentOf \in [Subscriptions -> Deployments \cup {Main}]
    /\ Quantities # {}
    /\ NoCommitment \in Commitments
    /\ MaxChanges \in Nat
    /\ MaxAgreements \in Nat \ {0}

VARIABLES
    adobe,        \* Adobe: the subscriptions of the customer
    customer,     \* Adobe: is the customer lost (INVALID_CUSTOMER)? its commitment
    agreements,   \* MPT: the agreements, the main one first
    changes       \* changes made so far

customerVars == <<adobe, customer, agreements, changes>>

AdobeSubscription ==
    [status : {"absent", "PENDING", "ACTIVE", "INACTIVE"},
     renewing : BOOLEAN, quantity : Quantities]

Copy == [status : {"absent", "Active", "Updating", "Terminated"},
         renewing : BOOLEAN, quantity : Quantities]

Agreement == [deployment : Deployments \cup {Main}, status : {"Active", "Terminated"},
              commitment : Commitments, subscriptions : [Subscriptions -> Copy]]

Blank == [status |-> "absent", renewing |-> FALSE,
          quantity |-> CHOOSE quantity \in Quantities : TRUE]
NothingListed == [s \in Subscriptions |-> Blank]

NewAgreement(deployment) ==
    [deployment |-> deployment, status |-> "Active", commitment |-> NoCommitment,
     subscriptions |-> NothingListed]

Agreements == DOMAIN agreements
Published(i) == {s \in Subscriptions : agreements[i].subscriptions[s].status # "absent"}
Kept(i) == {s \in Published(i) : agreements[i].subscriptions[s].status # "Terminated"}
In(i) == {s \in Subscriptions : DeploymentOf[s] = agreements[i].deployment}

-----------------------------------------------------------------------------
(* What the extension writes.                                               *)

\* create_agreement_subscription, with what Adobe said of the subscription
Publish(i, s, listed) ==
    agreements' = [agreements EXCEPT ![i].subscriptions[s] =
        [status |-> "Active", renewing |-> listed.renewing, quantity |-> listed.quantity]]

UpdateCopy(i, s, listed) ==
    agreements' = [agreements EXCEPT ![i].subscriptions[s].renewing = listed.renewing,
                                     ![i].subscriptions[s].quantity = listed.quantity]

\* terminate_subscription: "Agreement itself is terminated automatically after
\* all subscriptions are terminated."
TerminateCopy(i, s) ==
    agreements' = [agreements EXCEPT
        ![i].subscriptions[s].status = "Terminated",
        ![i].status = IF Kept(i) \ {s} = {} THEN "Terminated" ELSE @]

SetRenewing(s, on) == adobe' = [adobe EXCEPT ![s].renewing = on]

-----------------------------------------------------------------------------
(* Adobe, and orders that work on subscriptions.                            *)

Change == changes < MaxChanges /\ changes' = changes + 1

AdobeAdds(s) ==
    /\ adobe[s].status = "absent"
    /\ \E status \in {"PENDING", "ACTIVE"}, on \in BOOLEAN, quantity \in Quantities :
          adobe' = [adobe EXCEPT ![s] =
              [status |-> status, renewing |-> on, quantity |-> quantity]]
    /\ UNCHANGED <<customer, agreements>>

AdobeUpdates(s) ==
    /\ adobe[s].status = "ACTIVE"
    /\ \E on \in BOOLEAN, quantity \in Quantities :
          adobe' = [adobe EXCEPT ![s].renewing = on, ![s].quantity = quantity]
    /\ UNCHANGED <<customer, agreements>>

AdobeMovesOn(s) ==
    /\ \/ adobe[s].status = "PENDING" /\ adobe' = [adobe EXCEPT ![s].status = "ACTIVE"]
       \/ adobe[s].status = "ACTIVE" /\ adobe' = [adobe EXCEPT ![s].status = "INACTIVE"]
    /\ UNCHANGED <<customer, agreements>>

AdobeCommits ==
    /\ \E commitment \in Commitments :
          customer' = [customer EXCEPT !.commitment = commitment]
    /\ UNCHANGED <<adobe, agreements>>

AdobeLosesCustomer ==
    /\ customer' = [customer EXCEPT !.lost = TRUE]
    /\ UNCHANGED <<adobe, agreements>>

OrderStarts(i, s) ==
    /\ agreements[i].subscriptions[s].status = "Active"
    /\ agreements' = [agreements EXCEPT ![i].subscriptions[s].status = "Updating"]
    /\ UNCHANGED <<adobe, customer>>

OrderEnds(i, s) ==
    /\ agreements[i].subscriptions[s].status = "Updating"
    /\ agreements' = [agreements EXCEPT ![i].subscriptions[s].status = "Active"]
    /\ UNCHANGED <<adobe, customer, changes>>

Elsewhere ==
    \/ /\ Change
       /\ \/ \E s \in Subscriptions : AdobeAdds(s) \/ AdobeUpdates(s) \/ AdobeMovesOn(s)
          \/ AdobeCommits
          \/ AdobeLosesCustomer
          \/ \E i \in Agreements, s \in Subscriptions : OrderStarts(i, s)
    \/ \E i \in Agreements, s \in Subscriptions : OrderEnds(i, s)

Bought == [Blank EXCEPT !.status = "ACTIVE", !.renewing = TRUE]

\* A customer that has what the main agreement asked for.
CustomerInit ==
    /\ adobe = [s \in Subscriptions |-> IF DeploymentOf[s] = Main THEN Bought ELSE Blank]
    /\ customer = [lost |-> FALSE, commitment |-> NoCommitment]
    /\ agreements = <<NewAgreement(Main)>>
    /\ changes = 0

CustomerTypeOK ==
    /\ adobe \in [Subscriptions -> AdobeSubscription]
    /\ customer \in [lost : BOOLEAN, commitment : Commitments]
    /\ agreements \in Seq(Agreement)
    /\ changes \in 0 .. MaxChanges
=============================================================================
