------------------------------ MODULE Migration ------------------------------
(***************************************************************************)
(* Mass migration of VIP memberships to VIP Marketplace.  The team adds a  *)
(* record per membership to the Airtable table Transfers.  Two CronJobs    *)
(* work on the table, each never twice at a time but one beside the other: *)
(* process_transfers asks Adobe to transfer the memberships whose record   *)
(* is init or rescheduled, check_running_transfers follows those running.  *)
(* A job reads its records once, when it starts, and may die anywhere.     *)
(***************************************************************************)
EXTENDS Naturals, Sequences

CONSTANTS
    Memberships,      \* VIP memberships, each with a record at most
    Subscriptions,    \* the subscriptions a transfer brings to a customer
    Committed,        \* memberships whose customer is 3YC COMMITTED
    GlobalCustomers,  \* memberships whose customer has globalSalesEnabled
    MaxRetries,       \* MIGRATION_RUNNING_MAX_RETRIES
    MaxReschedules,   \* MIGRATION_RESCHEDULE_MAX_RETRIES
    MaxTransfers,     \* bound on the transfers tried for a membership
    MigrationErrors   \* the errors the calls of the jobs may meet

MigrationErrorKinds ==
    {"PreviewRecoverable", "PreviewRefused", "TransferRefused", "TransferUnavailable",
     "AuthorizationUnknown", "CustomerUnavailable", "MainAgreementUnsaved",
     "UpdateRefused", "TransferFails"}

ASSUME MigrationAssumption ==
    /\ Committed \subseteq Memberships
    /\ GlobalCustomers \subseteq Memberships
    /\ MaxRetries \in Nat \ {0}
    /\ MaxReschedules \in Nat \ {0}
    /\ MaxTransfers \in Nat
    /\ MigrationErrors \subseteq MigrationErrorKinds

VARIABLES
    records,    \* Airtable, Transfers
    main,       \* Airtable, the global customer main agreement of a membership
    transfers,  \* Adobe: the transfers tried for a membership, by status
    renewing,   \* Adobe: the customer's subscriptions with auto-renewal on
    expired,    \* Adobe: the customer's subscriptions that are not ACTIVE
    starting,   \* the running process_transfers
    checking    \* the running check_running_transfers

airtableVars == <<records, main>>
transferVars == <<transfers, renewing, expired>>
migrationVars == <<airtableVars, transferVars, starting, checking>>

RecordStatus == {"absent", "init", "rescheduled", "running", "completed",
                 "failed", "synchronized"}

Record ==
    [status      : RecordStatus,
     transferId  : 0 .. MaxTransfers,  \* transfer_id (0: not saved)
     customerId  : BOOLEAN,            \* is customer_id saved?
     retries     : 0 .. MaxRetries,
     reschedules : 0 .. MaxReschedules]

NoRecord == [status |-> "absent", transferId |-> 0, customerId |-> FALSE,
             retries |-> 0, reschedules |-> 0]

MainAgreement == [status : {"absent", "pending", "transferred", "error"},
                  agreement : BOOLEAN]    \* is main_agreement_id saved?

\* What a job still has to do, and the step it is at with its current record.
NoJob == [todo |-> {}, current |-> {}, step |-> "next", transfer |-> 0]
Busy(job) == job # NoJob
Pick(job, m, step) == [NoJob EXCEPT !.todo = job.todo \ {m}, !.current = {m}, !.step = step]
At(job, m, step) == job.current = {m} /\ job.step = step
Release(job) == [NoJob EXCEPT !.todo = job.todo]
Pass(job, m) == [job EXCEPT !.todo = @ \ {m}]

TransferStatus == {"OPEN", "COMPLETE", "FAILED"}

\* A membership is transferred once, or being so; a refused transfer can be
\* tried again.
Transferable(m) == \A i \in DOMAIN transfers[m] : transfers[m][i] = "FAILED"
Transferred(m) == \E i \in DOMAIN transfers[m] : transfers[m][i] = "COMPLETE"
TryTransfer(m) ==
    /\ Transferable(m) /\ Len(transfers[m]) < MaxTransfers
    /\ transfers' = [transfers EXCEPT ![m] = Append(@, "OPEN")]
ActiveSubscriptions(m) == Subscriptions \ expired[m]

-----------------------------------------------------------------------------
(* What the jobs save in a record.                                          *)

SaveRecord(m, record) == records' = [records EXCEPT ![m] = record]

FailRecord(m, record) == SaveRecord(m, [record EXCEPT !.status = "failed"])

\* Mutants of check_retries: it counts and never gives up; once too often.
check_retriesForEver(m, record) ==
    SaveRecord(m, [record EXCEPT !.retries =
        IF record.retries + 1 < MaxRetries THEN @ + 1 ELSE @])

check_retriesOnceMore(m, record) ==
    LET counted == [record EXCEPT !.retries = @ + 1]
    IN  IF record.retries < MaxRetries
          THEN SaveRecord(m, counted)
          ELSE FailRecord(m, counted)

check_retries(m, record) ==
    LET counted == [record EXCEPT !.retries = @ + 1]
    IN  IF counted.retries < MaxRetries
          THEN SaveRecord(m, counted)
          ELSE FailRecord(m, counted)

check_reschedules(m, record) ==
    LET counted == [record EXCEPT !.reschedules = @ + 1, !.status = "rescheduled"]
    IN  IF counted.reschedules < MaxReschedules
          THEN SaveRecord(m, counted)
          ELSE FailRecord(m, counted)

-----------------------------------------------------------------------------
(* process_transfers                                                        *)

\* get_transfers_to_process
ToProcess == {m \in Memberships : records[m].status \in {"init", "rescheduled"}}

ProcessTransfers ==
    /\ ~Busy(starting)
    /\ ToProcess # {}
    /\ starting' = [NoJob EXCEPT !.todo = ToProcess]
    /\ UNCHANGED <<airtableVars, transferVars, checking>>

\* preview_transfer: a membership already transferred is passed over without
\* a trace, any other refusal is saved.
PreviewTransfer(m) ==
    /\ starting.step = "next" /\ m \in starting.todo
    /\ \/ /\ Transferable(m)
          /\ starting' = Pick(starting, m, "create")
          /\ UNCHANGED records
       \/ /\ ~Transferable(m)
          /\ starting' = Pass(starting, m)
          /\ UNCHANGED records
       \/ /\ \/ "PreviewRecoverable" \in MigrationErrors /\ check_reschedules(m, records[m])
             \/ "PreviewRefused" \in MigrationErrors /\ FailRecord(m, records[m])
          /\ starting' = Pass(starting, m)
    /\ UNCHANGED <<main, transferVars, checking>>

\* create_transfer: POST .../transfers.
CreateTransfer(m) ==
    /\ At(starting, m, "create")
    /\ \/ /\ TryTransfer(m)
          /\ starting' = [starting EXCEPT !.step = "save",
                                       !.transfer = Len(transfers[m]) + 1]
          /\ UNCHANGED records
       \/ /\ ~Transferable(m) \/ "TransferRefused" \in MigrationErrors
          /\ FailRecord(m, records[m])
          /\ starting' = Release(starting)
          /\ UNCHANGED transfers
    /\ UNCHANGED <<main, renewing, expired, checking>>

SaveTransfer(m) ==
    /\ At(starting, m, "save")
    /\ SaveRecord(m, [records[m] EXCEPT !.status = "running",
                                         !.transferId = starting.transfer])
    /\ starting' = Release(starting)
    /\ UNCHANGED <<main, transferVars, checking>>

\* The process dies, or an error nobody handles ends the job.
ProcessDies ==
    /\ Busy(starting)
    /\ starting' = NoJob
    /\ UNCHANGED <<airtableVars, transferVars, checking>>

-----------------------------------------------------------------------------
(* check_running_transfers                                                  *)

\* get_transfers_to_check
ToCheck == {m \in Memberships : records[m].status = "running"}

CheckRunningTransfers ==
    /\ ~Busy(checking)
    /\ ToCheck # {}
    /\ checking' = [NoJob EXCEPT !.todo = ToCheck]
    /\ UNCHANGED <<airtableVars, transferVars, starting>>

\* An error is counted and so is a transfer still OPEN; one that ended
\* otherwise than COMPLETE, or an unknown authorization, fails the record.
GetTransfer(m) ==
    /\ checking.step = "next" /\ m \in checking.todo
    /\ LET transfer == transfers[m][records[m].transferId] IN
       \/ /\ transfer = "COMPLETE"
          /\ checking' = Pick(checking, m, "customer")
          /\ UNCHANGED records
       \/ /\ transfer = "OPEN" \/ "TransferUnavailable" \in MigrationErrors
          /\ check_retries(m, records[m])
          /\ checking' = Pass(checking, m)
       \/ /\ transfer = "FAILED" \/ "AuthorizationUnknown" \in MigrationErrors
          /\ FailRecord(m, records[m])
          /\ checking' = Pass(checking, m)
    /\ UNCHANGED <<main, transferVars, starting>>

\* Only a save of the record keeps what the job learnt about the customer.
Known(m) == [records[m] EXCEPT !.customerId = TRUE]

GetCustomer(m) ==
    /\ At(checking, m, "customer")
    /\ \/ /\ checking' = [checking EXCEPT !.step =
                IF m \in GlobalCustomers THEN "main"
                ELSE IF m \in Committed THEN "complete" ELSE "renewal"]
          /\ UNCHANGED records
       \/ /\ "CustomerUnavailable" \in MigrationErrors
          /\ check_retries(m, Known(m))
          /\ checking' = Release(checking)
    /\ UNCHANGED <<main, transferVars, starting>>

\* get_gc_main_agreement, and create_gc_main_agreement where there is none; an
\* error of Airtable is reported and swallowed.
CreateMainAgreement(m) ==
    /\ At(checking, m, "main")
    /\ \/ main' = IF main[m].status # "absent" THEN main
                  ELSE [main EXCEPT ![m].status = "pending"]
       \/ "MainAgreementUnsaved" \in MigrationErrors /\ UNCHANGED main
    /\ checking' = [checking EXCEPT !.step =
            IF m \in Committed THEN "complete" ELSE "renewal"]
    /\ UNCHANGED <<records, transferVars, starting>>

\* Mutant of SwitchRenewalOff: the next record is not taken up after an error.
SwitchRenewalOffGoingOn(m) ==
    /\ At(checking, m, "renewal")
    /\ \/ \E s \in renewing[m] \cap ActiveSubscriptions(m) :
             /\ renewing' = [renewing EXCEPT ![m] = @ \ {s}]
             /\ UNCHANGED <<records, checking>>
       \/ /\ \/ renewing[m] \cap ActiveSubscriptions(m) = {} /\ UNCHANGED records
             \/ "UpdateRefused" \in MigrationErrors /\ check_retries(m, Known(m))
          /\ checking' = [checking EXCEPT !.step = "complete"]
          /\ UNCHANGED renewing
    /\ UNCHANGED <<main, transfers, expired, starting>>

\* _update_subscriptions, one call at a time.
SwitchRenewalOff(m) ==
    /\ At(checking, m, "renewal")
    /\ \/ \E s \in renewing[m] \cap ActiveSubscriptions(m) :
             /\ renewing' = [renewing EXCEPT ![m] = @ \ {s}]
             /\ UNCHANGED <<records, checking>>
       \/ /\ renewing[m] \cap ActiveSubscriptions(m) = {}
          /\ checking' = [checking EXCEPT !.step = "complete"]
          /\ UNCHANGED <<records, renewing>>
       \/ /\ "UpdateRefused" \in MigrationErrors
          /\ check_retries(m, Known(m))
          /\ checking' = Release(checking)
          /\ UNCHANGED renewing
    /\ UNCHANGED <<main, transfers, expired, starting>>

\* The old contract is terminated in Navision, whatever it answers.
CompleteMigration(m) ==
    /\ At(checking, m, "complete")
    /\ SaveRecord(m, [Known(m) EXCEPT !.status = "completed"])
    /\ checking' = Release(checking)
    /\ UNCHANGED <<main, transferVars, starting>>

CheckDies ==
    /\ Busy(checking)
    /\ checking' = NoJob
    /\ UNCHANGED <<airtableVars, transferVars, starting>>

-----------------------------------------------------------------------------
(* The team and Adobe.                                                      *)

AddRecord(m) ==
    /\ records[m].status = "absent"
    /\ SaveRecord(m, [records[m] EXCEPT !.status = "init"])
    /\ UNCHANGED <<main, transferVars, starting, checking>>

\* The transferred subscriptions renew automatically.
AdobeSettlesTransfer(m) ==
    /\ \E i \in DOMAIN transfers[m] :
          /\ transfers[m][i] = "OPEN"
          /\ \/ /\ transfers' = [transfers EXCEPT ![m][i] = "COMPLETE"]
                /\ renewing' = [renewing EXCEPT ![m] = Subscriptions]
             \/ /\ "TransferFails" \in MigrationErrors
                /\ transfers' = [transfers EXCEPT ![m][i] = "FAILED"]
                /\ UNCHANGED renewing
    /\ UNCHANGED <<airtableVars, expired, starting, checking>>

AdobeExpires(m) ==
    /\ Transferred(m)
    /\ \E s \in ActiveSubscriptions(m) : expired' = [expired EXCEPT ![m] = @ \cup {s}]
    /\ UNCHANGED <<airtableVars, transfers, renewing, starting, checking>>

-----------------------------------------------------------------------------
MigrationInit ==
    /\ records = [m \in Memberships |-> NoRecord]
    /\ main = [m \in Memberships |-> [status |-> "absent", agreement |-> FALSE]]
    /\ transfers = [m \in Memberships |-> <<>>]
    /\ renewing = [m \in Memberships |-> {}]
    /\ expired = [m \in Memberships |-> {}]
    /\ starting = NoJob
    /\ checking = NoJob

StartingStep(m) == PreviewTransfer(m) \/ CreateTransfer(m) \/ SaveTransfer(m)

CheckingStep(m) ==
    \/ GetTransfer(m) \/ GetCustomer(m) \/ CreateMainAgreement(m)
    \/ SwitchRenewalOff(m) \/ CompleteMigration(m)

Jobs ==
    \/ ProcessTransfers \/ ProcessDies
    \/ CheckRunningTransfers \/ CheckDies
    \/ \E m \in Memberships : StartingStep(m) \/ CheckingStep(m)

Surroundings ==
    \E m \in Memberships : AddRecord(m) \/ AdobeSettlesTransfer(m) \/ AdobeExpires(m)

MigrationNext == Jobs \/ Surroundings

MigrationSpec == MigrationInit /\ [][MigrationNext]_migrationVars

JobType(steps) ==
    [todo : SUBSET Memberships, current : SUBSET Memberships, step : steps,
     transfer : 0 .. MaxTransfers]

\* Every record and job holds values of their kind, and neither count runs
\* past its limit (models.Transfer, check_retries, check_reschedules).
MigrationTypeOK ==
    /\ records \in [Memberships -> Record]
    /\ main \in [Memberships -> MainAgreement]
    /\ transfers \in [Memberships -> Seq(TransferStatus)]
    /\ renewing \in [Memberships -> SUBSET Subscriptions]
    /\ expired \in [Memberships -> SUBSET Subscriptions]
    /\ starting \in JobType({"next", "create", "save"})
    /\ checking \in JobType({"next", "customer", "main", "renewal", "complete"})
-----------------------------------------------------------------------------
(* Safety and liveness of the jobs.                                         *)

\* Outside a commitment a migration is completed only when no active
\* subscription of the customer renews, whatever was refused and retried
\* before (check_running_transfers_for_product).
RenewalOffWhenMigrated ==
    [][\A m \in Memberships \ Committed :
         records[m].status # "completed" /\ records'[m].status = "completed" =>
           renewing[m] \cap ActiveSubscriptions(m) = {}]_migrationVars

\* The CronJob is started again and again, the calls it makes do not fail for
\* ever, and Adobe settles what is open.
MigrationFairness ==
    /\ WF_migrationVars(CheckRunningTransfers)
    /\ WF_migrationVars(\E m \in Memberships : AdobeSettlesTransfer(m))
    /\ SF_migrationVars(\E m \in Memberships : GetTransfer(m))
    /\ SF_migrationVars(\E m \in Memberships : GetCustomer(m))
    /\ SF_migrationVars(\E m \in Memberships : CreateMainAgreement(m))
    /\ SF_migrationVars(\E m \in Memberships : SwitchRenewalOff(m))
    /\ SF_migrationVars(\E m \in Memberships : CompleteMigration(m))

MigrationFairSpec == MigrationSpec /\ MigrationFairness

\* A migration that runs comes to an end, however the runs of the job are cut
\* off: retries are counted over all of them, and the last one fails the
\* record (check_retries).
MigrationSettles ==
    \A m \in Memberships :
        records[m].status = "running" ~> records[m].status \in {"completed", "failed"}
=============================================================================
