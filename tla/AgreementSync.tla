---------------------------- MODULE AgreementSync ----------------------------
(***************************************************************************)
(* The synchronisation CronJobs: sync_agreement brings the copies an       *)
(* agreement holds in line with what Adobe says, and the sync of the main  *)
(* agreement of a global customer goes on to the deployments: it records   *)
(* the missing ones, switches the renewal of orphans off and syncs the     *)
(* deployment agreements.  All of it works on three snapshots taken one    *)
(* after the other, while orders and check_gc_agreement_deployments run.   *)
(***************************************************************************)
EXTENDS GlobalCustomer

CONSTANTS
    ForeignCurrency,    \* subscriptions in another currency than the price list
    HasTransfer         \* is there a transfer of the customer in Airtable?

ASSUME SyncAssumption == ForeignCurrency \subseteq Subscriptions /\ HasTransfer \in BOOLEAN

VARIABLE sync   \* the running sync_agreement

vars == <<customerVars, deploymentVars, sync>>

Idle ==
    [step |-> "idle", agreement |-> 1, at |-> 1, processing |-> FALSE,
     seen |-> <<>>, was |-> NoCommitment, commitment |-> NoCommitment,
     listed |-> NothingListed, todo |-> {}, deployments |-> {}]

During(step) == sync.step = step
Now(step) == sync' = [sync EXCEPT !.step = step]
NowWith(step, todo) == sync' = [sync EXCEPT !.step = step, !.todo = todo]
Done(s) == sync' = [sync EXCEPT !.todo = @ \ {s}]
End == sync' = Idle

Seen == sync.seen[sync.at]
Snapshot(some) == [i \in some |-> Kept(i)]
IsMain == agreements[sync.agreement].deployment = Main

\* The agreement is selected by a date of its own or of its subscriptions, or
\* by an order that completes.
StartSync(i) ==
    /\ During("idle")
    /\ i \in Agreements /\ agreements[i].status = "Active"
    /\ sync' = [Idle EXCEPT !.step = "customer", !.agreement = i, !.at = i,
          !.seen = Snapshot({i}), !.was = agreements[i].commitment,
          !.processing = \E s \in Kept(i) : agreements[i].subscriptions[s].status = "Updating"]
    /\ UNCHANGED <<customerVars, deploymentVars>>

get_customer_or_process_lost_customer ==
    /\ During("customer")
    /\ IF customer.lost
         THEN NowWith("lose", Seen)
         ELSE sync' = [sync EXCEPT !.step = "subscriptions", !.commitment = customer.commitment]
    /\ UNCHANGED <<customerVars, deploymentVars>>

\* Mutant of IsSyncPossible: a customer without ACTIVE subscriptions is skipped.
IsSyncPossibleWhenActive(listed) ==
    ~sync.processing /\ \E s \in Subscriptions : listed[s].status = "ACTIVE"

IsSyncPossible(listed) ==
    ~sync.processing /\ \E s \in Subscriptions : listed[s].status # "absent"

Missing(listed) ==
    {s \in In(sync.agreement) \ Seen : listed[s].status = "ACTIVE"}

GetSubscriptions ==
    /\ During("subscriptions")
    /\ IF IsSyncPossible(adobe)
         THEN sync' = [sync EXCEPT !.step = "add", !.listed = adobe, !.todo = Missing(adobe)]
         ELSE End
    /\ UNCHANGED <<customerVars, deploymentVars>>

\* _add_missing_subscriptions_and_assets, _manage_wrong_currency_subscription
AddMissing ==
    /\ During("add")
    /\ \E s \in sync.todo :
          /\ IF s \in ForeignCurrency
               THEN SetRenewing(s, FALSE) /\ UNCHANGED agreements
               ELSE Publish(sync.at, s, sync.listed[s]) /\ UNCHANGED adobe
          /\ Done(s)
    /\ UNCHANGED <<customer, changes, deploymentVars>>

AllAdded ==
    /\ During("add") /\ sync.todo = {}
    /\ NowWith("match", Seen)
    /\ UNCHANGED <<customerVars, deploymentVars>>

\* Mutant of Gone: what is not in the list of Adobe's subscriptions is gone.
GoneWhenUnlisted == {s \in sync.todo : sync.listed[s].status \in {"INACTIVE", "absent"}}

\* _get_subscriptions_for_update: copies to terminate, copies to update.
Gone == {s \in sync.todo : sync.listed[s].status = "INACTIVE"}
ForUpdate == {s \in sync.todo : sync.listed[s].status \in {"ACTIVE", "PENDING"}}

TerminateGone ==
    /\ During("match")
    /\ \E s \in Gone : TerminateCopy(sync.at, s) /\ Done(s)
    /\ UNCHANGED <<adobe, customer, changes, deploymentVars>>

AllMatched ==
    /\ During("match") /\ Gone = {}
    /\ NowWith("update", ForUpdate)
    /\ UNCHANGED <<customerVars, deploymentVars>>

\* SubscriptionSyncer.sync: an error ends the loop, and nothing else.
UpdateSubscription ==
    /\ During("update")
    /\ \E s \in sync.todo :
          \/ UpdateCopy(sync.at, s, sync.listed[s]) /\ Done(s) /\ UNCHANGED changes
          \/ Change /\ NowWith("update", {}) /\ UNCHANGED agreements
    /\ UNCHANGED <<adobe, customer, deploymentVars>>

SetCommitment(i, commitment) ==
    agreements' = [agreements EXCEPT ![i].commitment = commitment]

\* _update_agreement_bussiness_parameters
UpdateAgreement ==
    /\ During("update") /\ sync.todo = {}
    /\ SetCommitment(sync.at, sync.commitment)
    /\ IF sync.at # sync.agreement THEN Now("copy")
       ELSE IF IsMain /\ Deployments # {} THEN Now("records") ELSE End
    /\ UNCHANGED <<adobe, customer, changes, deploymentVars>>

\* _check_update_airtable_missing_deployments
RecordMissingDeployments ==
    /\ During("records")
    /\ records' = [d \in Deployments |->
          IF HasTransfer /\ records[d].status = "absent"
            THEN [NoRecord EXCEPT !.status = "pending", !.licensee = TRUE]
            ELSE records[d]]
    /\ Now("list")
    /\ UNCHANGED <<customerVars, job>>

DeploymentAgreements == {i \in Agreements : agreements[i].deployment \in Deployments}

\* _process_orphaned_deployment_subscriptions: of a deployment, and in none of
\* the agreements of the deployments.
Orphans ==
    {s \in Subscriptions : /\ DeploymentOf[s] \in Deployments
                           /\ sync.listed[s].status = "ACTIVE" /\ sync.listed[s].renewing}
        \ UNION {Published(i) : i \in DeploymentAgreements}

\* Mutant of ListDeploymentAgreements: goes on with the copies of the agreement
\* the sync started from.
ListDeploymentAgreementsOnly ==
    /\ During("list")
    /\ sync' = [sync EXCEPT !.step = "orphans", !.todo = Orphans,
          !.deployments = {i \in DeploymentAgreements : agreements[i].status = "Active"}]
    /\ UNCHANGED <<customerVars, deploymentVars>>

ListDeploymentAgreements ==
    /\ During("list")
    /\ LET active == {i \in DeploymentAgreements : agreements[i].status = "Active"}
       IN  sync' = [sync EXCEPT !.step = "orphans", !.seen = Snapshot(active),
                                !.todo = Orphans, !.deployments = active]
    /\ UNCHANGED <<customerVars, deploymentVars>>

DisableOrphan ==
    /\ During("orphans")
    /\ \E s \in sync.todo :
          /\ \/ SetRenewing(s, FALSE) /\ UNCHANGED changes
             \/ Change /\ UNCHANGED adobe
          /\ Done(s)
    /\ UNCHANGED <<customer, agreements, deploymentVars>>

\* _sync_deployment_agreements
NextDeployment ==
    /\ During("orphans") /\ sync.todo = {}
    /\ IF sync.deployments = {} THEN End
       ELSE \E i \in sync.deployments :
              sync' = [sync EXCEPT !.step = "match", !.at = i, !.todo = sync.seen[i],
                                   !.deployments = @ \ {i}]
    /\ UNCHANGED <<customerVars, deploymentVars>>

\* _sync_gc_3yc_agreements copies what the main agreement said at the start.
CopyCommitment ==
    /\ During("copy")
    /\ SetCommitment(sync.at, sync.was)
    /\ Now("orphans")
    /\ UNCHANGED <<adobe, customer, changes, deploymentVars>>

\* _process_lost_customer: an error leaves one subscription as it is.
LoseSubscription ==
    /\ During("lose")
    /\ \E s \in sync.todo :
          /\ \/ TerminateCopy(sync.at, s) /\ UNCHANGED changes
             \/ Change /\ UNCHANGED agreements
          /\ Done(s)
    /\ UNCHANGED <<adobe, customer, deploymentVars>>

\* Adobe may not list the deployments of a customer it does not know.
LostDeployments ==
    /\ During("lose") /\ sync.todo = {} /\ sync.at = sync.agreement
    /\ \/ End
       \/ sync' = [sync EXCEPT !.step = "lost", !.seen = Snapshot(DeploymentAgreements),
                               !.deployments = DeploymentAgreements]
    /\ UNCHANGED <<customerVars, deploymentVars>>

LoseNextDeployment ==
    /\ During("lost")
    /\ IF sync.deployments = {} THEN End
       ELSE \E i \in sync.deployments :
              sync' = [sync EXCEPT !.step = "lose deployment", !.at = i,
                          !.todo = sync.seen[i], !.deployments = @ \ {i}]
    /\ UNCHANGED <<customerVars, deploymentVars>>

LoseDeploymentSubscription ==
    /\ During("lose deployment")
    /\ \/ \E s \in sync.todo :
             /\ \/ TerminateCopy(sync.at, s) /\ UNCHANGED changes
                \/ Change /\ UNCHANGED agreements
             /\ Done(s)
       \/ sync.todo = {} /\ Now("lost") /\ UNCHANGED <<agreements, changes>>
    /\ UNCHANGED <<adobe, customer, deploymentVars>>

\* Any call may raise: sync() reports it, and the job goes on elsewhere.
SyncFails ==
    /\ sync # Idle
    /\ Change /\ End
    /\ UNCHANGED <<adobe, customer, agreements, deploymentVars>>

SyncStep ==
    \/ get_customer_or_process_lost_customer \/ GetSubscriptions
    \/ AddMissing \/ AllAdded \/ TerminateGone \/ AllMatched
    \/ UpdateSubscription \/ UpdateAgreement
    \/ RecordMissingDeployments \/ ListDeploymentAgreements
    \/ DisableOrphan \/ NextDeployment \/ CopyCommitment
    \/ LoseSubscription \/ LostDeployments \/ LoseNextDeployment
    \/ LoseDeploymentSubscription

OrdersEnd == \E i \in Agreements, s \in Subscriptions : OrderEnds(i, s)

Init == CustomerInit /\ DeploymentInit /\ sync = Idle

Next ==
    \/ \E i \in Agreements : StartSync(i)
    \/ SyncStep \/ SyncFails
    \/ DeploymentJob /\ UNCHANGED sync
    \/ Elsewhere /\ UNCHANGED <<deploymentVars, sync>>

Spec == Init /\ [][Next]_vars

\* sync_agreements_by_renewal_date comes every month to an Active agreement that
\* has a subscription (the query by coterm date matches one day, once), one
\* sync goes on as long as no call fails, and orders end.
FairSpec ==
    /\ Spec
    /\ WF_vars(SyncStep)
    /\ WF_vars(OrdersEnd /\ UNCHANGED <<deploymentVars, sync>>)
    /\ \A i \in 1 .. MaxAgreements : SF_vars(i \in Agreements /\ Published(i) # {} /\ StartSync(i))

-----------------------------------------------------------------------------
SyncSteps ==
    {"idle", "customer", "subscriptions", "add", "match", "update", "records", "list",
     "orphans", "copy", "lose", "lost", "lose deployment"}

\* The type of the customer, of the deployments and of a running sync.
SyncTypeOK ==
    /\ CustomerTypeOK /\ DeploymentTypeOK
    /\ sync.step \in SyncSteps
    /\ sync.agreement \in Agreements /\ sync.at \in Agreements
    /\ During("match") \/ During("lose") => sync.at \in DOMAIN sync.seen
    /\ sync.deployments \subseteq DOMAIN sync.seen
    /\ sync.todo \subseteq Subscriptions
    /\ sync.listed \in [Subscriptions -> AdobeSubscription]

\* A copy is terminated only when the customer is lost or the subscription is
\* no longer active at Adobe, however old the lists are the sync works on
\* (_get_subscriptions_for_update, _process_lost_customer).
TerminatedIsGone ==
    \A i \in Agreements, s \in Subscriptions :
        agreements[i].subscriptions[s].status = "Terminated" =>
            customer.lost \/ adobe[s].status = "INACTIVE"

\* A record turns created only when all the deployment's active subscriptions
\* the job listed are in the very agreement the record names, whatever jobs
\* that died before it left behind (process_agreement_deployment).
CreatedIsPublished ==
    [][\A d \in Deployments :
          records[d].status # "created" /\ records'[d].status = "created" =>
              \A s \in Subscriptions :
                  DeploymentOf[s] = d /\ job.listed[s].status = "ACTIVE" =>
                      s \in Published(records'[d].agreement)]_vars

UpToDate(i) ==
    IF customer.lost THEN Kept(i) = {}
    ELSE /\ Kept(i) # {} => agreements[i].commitment = customer.commitment
         /\ \A s \in In(i) \ ForeignCurrency : adobe[s].status = "ACTIVE" => s \in Kept(i)
         /\ \A s \in Kept(i) :
               /\ adobe[s].status # "INACTIVE"
               /\ agreements[i].subscriptions[s].renewing = adobe[s].renewing
               /\ agreements[i].subscriptions[s].quantity = adobe[s].quantity

\* Once nothing changes at Adobe and no call fails any more, every Active
\* agreement with subscriptions says for good what Adobe says: all of them,
\* their terms, the commitment, and nothing of a lost customer (sync_agreement).
Converges ==
    <>[](\A i \in Agreements :
            agreements[i].status = "Active" /\ Published(i) # {} => UpToDate(i))
=============================================================================
