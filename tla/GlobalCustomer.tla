---------------------------- MODULE GlobalCustomer ----------------------------
(***************************************************************************)
(* The deployments of a global customer.  Airtable holds a record of each; *)
(* the CronJob check_gc_agreement_deployments creates the agreement of a   *)
(* pending one and publishes the deployment's subscriptions in it.  The    *)
(* record keeps what was found or created on the way, so that a later run  *)
(* goes on from there; an error is left to the team.                       *)
(***************************************************************************)
EXTENDS CustomerAgreements

\* Columns looked up one after another, each saved when found or created:
\* the authorization, the price list and the listing.
CONSTANT Columns
ASSUME ColumnsAssumption == Columns \in Nat

VARIABLES
    records,    \* Airtable, Agreement Deployments
    job         \* the running process_agreement_deployment

deploymentVars == <<records, job>>

Record ==
    [status : {"absent", "pending", "created", "error"},
     licensee : BOOLEAN,                \* is licensee_id set?
     resolved : 0 .. Columns,
     agreement : 0 .. MaxAgreements]    \* agreement_id (0: not saved)

NoRecord == [status |-> "absent", licensee |-> FALSE, resolved |-> 0, agreement |-> 0]
NoJob == [on |-> {}, step |-> "resolve", agreement |-> 0, listed |-> NothingListed, todo |-> {}]

At(d, step) == job.on = {d} /\ job.step = step
To(step) == job' = [job EXCEPT !.step = step]

SaveRecord(d, record) == records' = [records EXCEPT ![d] = record]

\* A record without a licensee is passed over.
CheckDeployment(d) ==
    /\ job.on = {}
    /\ records[d].status = "pending" /\ records[d].licensee
    /\ job' = [NoJob EXCEPT !.on = {d}, !.agreement = records[d].agreement]
    /\ UNCHANGED <<customerVars, records>>

\* get_authorization, get_price_list_id, get_listing.  A listing is looked up
\* before it is created, so one created and not saved is found again.
ResolveColumn(d) ==
    /\ At(d, "resolve")
    /\ IF records[d].resolved < Columns
         THEN SaveRecord(d, [records[d] EXCEPT !.resolved = @ + 1]) /\ UNCHANGED job
         ELSE To(IF job.agreement = 0 THEN "create" ELSE "list") /\ UNCHANGED records
    /\ UNCHANGED customerVars

\* create_agreement, which is not looked up before.
CreateAgreement(d) ==
    /\ At(d, "create")
    /\ Len(agreements) < MaxAgreements
    /\ agreements' = Append(agreements, NewAgreement(d))
    /\ job' = [job EXCEPT !.step = "save", !.agreement = Len(agreements) + 1]
    /\ UNCHANGED <<adobe, customer, changes, records>>

SaveAgreement(d) ==
    /\ At(d, "save")
    /\ SaveRecord(d, [records[d] EXCEPT !.agreement = job.agreement])
    /\ To("list")
    /\ UNCHANGED customerVars

\* get_adobe_subscriptions_by_deployment: without any the record stays pending.
ListSubscriptions(d) ==
    /\ At(d, "list")
    /\ LET found == {s \in Subscriptions : DeploymentOf[s] = d /\ adobe[s].status # "absent"}
       IN  job' = IF found = {} THEN NoJob
                  ELSE [job EXCEPT !.step = "subscribe",
                          !.listed = [s \in Subscriptions |-> IF s \in found THEN adobe[s] ELSE Blank],
                          !.todo = {s \in found : adobe[s].status = "ACTIVE"}]
    /\ UNCHANGED <<customerVars, records>>

\* Mutant of Existing: looked up in all the agreements of the customer.
ExistingAnywhere(i) == UNION {Published(j) : j \in Agreements}

\* get_agreement_subscription_by_external_id
Existing(i) == Published(i)

SkipExisting(d, s) ==
    /\ At(d, "subscribe") /\ s \in job.todo \cap Existing(job.agreement)
    /\ job' = [job EXCEPT !.todo = @ \ {s}]
    /\ UNCHANGED <<customerVars, records>>

\* enable_subscription_auto_renewal, which answers with the subscription.
EnableAutoRenewal(d, s) ==
    /\ At(d, "subscribe") /\ s \in job.todo \ Existing(job.agreement)
    /\ ~job.listed[s].renewing
    /\ SetRenewing(s, TRUE)
    /\ job' = [job EXCEPT !.listed[s] = adobe'[s]]
    /\ UNCHANGED <<customer, agreements, changes, records>>

\* create_gc_agreement_subscription
CreateSubscription(d, s) ==
    /\ At(d, "subscribe") /\ s \in job.todo \ Existing(job.agreement)
    /\ job.listed[s].renewing
    /\ Publish(job.agreement, s, job.listed[s])
    /\ job' = [job EXCEPT !.todo = @ \ {s}]
    /\ UNCHANGED <<adobe, customer, changes, records>>

DeploymentCreated(d) ==
    /\ At(d, "subscribe") /\ job.todo = {}
    /\ SaveRecord(d, [records[d] EXCEPT !.status = "created"])
    /\ job' = NoJob
    /\ UNCHANGED customerVars

\* A lookup finds nothing or too much, or a call raises: the record keeps what
\* the job knows and waits for the team.
JobFails ==
    /\ \E d \in job.on : SaveRecord(d,
          [records[d] EXCEPT !.status = "error", !.agreement = job.agreement])
    /\ job' = NoJob
    /\ UNCHANGED customerVars

JobDies ==
    /\ job.on # {}
    /\ job' = NoJob
    /\ UNCHANGED <<customerVars, records>>

-----------------------------------------------------------------------------
(* Transfer orders (see TransferOrder) and the team.                        *)

AddRecord(d) ==
    /\ records[d].status = "absent"
    /\ SaveRecord(d, [NoRecord EXCEPT !.status = "pending"])
    /\ UNCHANGED <<customerVars, job>>

TeamRepairs(d) ==
    /\ \/ records[d].status = "pending" /\ ~records[d].licensee
       \/ records[d].status = "error"
    /\ SaveRecord(d, [records[d] EXCEPT !.status = "pending", !.licensee = TRUE])
    /\ UNCHANGED <<customerVars, job>>

DeploymentInit ==
    /\ records = [d \in Deployments |-> NoRecord]
    /\ job = NoJob

DeploymentJob ==
    \/ \E d \in Deployments :
          \/ CheckDeployment(d) \/ ResolveColumn(d)
          \/ CreateAgreement(d) \/ SaveAgreement(d) \/ ListSubscriptions(d)
          \/ \E s \in Subscriptions :
                SkipExisting(d, s) \/ EnableAutoRenewal(d, s) \/ CreateSubscription(d, s)
          \/ DeploymentCreated(d)
    \/ JobFails \/ JobDies
    \/ \E d \in Deployments : AddRecord(d) \/ TeamRepairs(d)

DeploymentTypeOK ==
    /\ records \in [Deployments -> Record]
    /\ job \in [on : SUBSET Deployments, agreement : 0 .. MaxAgreements,
                step : {"resolve", "create", "save", "list", "subscribe"},
                listed : [Subscriptions -> AdobeSubscription], todo : SUBSET Subscriptions]
=============================================================================
