--------------------------- MODULE Migration_proofs ---------------------------
(***************************************************************************)
(* What holds of the migration for any number of memberships, retries and  *)
(* errors: the counts stay within their limits, and outside a commitment a *)
(* migration is completed only with auto-renewal off.  The last section is *)
(* what an order beside the jobs may rely on: a record with a customer     *)
(* names the transfer Adobe has completed, and is not started again.       *)
(***************************************************************************)
EXTENDS Migration, TLAPS

-----------------------------------------------------------------------------
(* The inductive invariant.                                                 *)

\* A record still to be worked on has retries and reschedules left.
Counted ==
    \A m \in Memberships : records[m].status \notin {"failed", "synchronized"} =>
        /\ records[m].retries < MaxRetries
        /\ records[m].reschedules < MaxReschedules

\* What a job still has to do has not been taken from it.
Working ==
    /\ \A m \in starting.todo \cup starting.current :
          records[m].status \in {"init", "rescheduled"}
    /\ \A m \in checking.todo \cup checking.current : records[m].status = "running"
    /\ starting.todo \cap starting.current = {}
    /\ checking.todo \cap checking.current = {}
    /\ starting.step = "next" => starting.current = {}
    /\ checking.step = "next" => checking.current = {}

\* A running record names a transfer that exists, and so does the job that is
\* about to save one.
Recorded ==
    /\ \A m \in Memberships : records[m].status = "running" =>
          records[m].transferId \in DOMAIN transfers[m]
    /\ starting.step = "save" =>
          \A m \in starting.current : starting.transfer \in DOMAIN transfers[m]

\* At most one transfer of a membership has not been refused.
OneTransfer ==
    \A m \in Memberships : \A i, j \in DOMAIN transfers[m] :
        transfers[m][i] # "FAILED" /\ transfers[m][j] # "FAILED" => i = j

\* The job works on the customer of a membership Adobe has transferred.
Followed ==
    checking.step # "next" => \A m \in checking.current : Transferred(m)

\* It completes a record when nothing is left to switch off.
Off ==
    checking.step = "complete" =>
        \A m \in checking.current \ Committed :
            renewing[m] \cap ActiveSubscriptions(m) = {}

MigrationInv ==
    /\ MigrationTypeOK
    /\ Counted /\ Working /\ Recorded
    /\ OneTransfer /\ Followed /\ Off

-----------------------------------------------------------------------------
(* What the counting saves.                                                 *)

\* A record that is counted stays as it is, or fails.
SavedAs(record, saved) ==
    /\ saved \in Record
    /\ saved.transferId = record.transferId
    /\ saved.status # "failed" =>
          saved.retries < MaxRetries /\ saved.reschedules < MaxReschedules

LEMMA RetriesSave ==
    ASSUME NEW m \in Memberships, NEW record \in Record,
           record.retries < MaxRetries, record.reschedules < MaxReschedules,
           check_retries(m, record)
    PROVE  \E saved \in Record : /\ SaveRecord(m, saved) /\ SavedAs(record, saved)
                                 /\ saved.customerId = record.customerId
                                 /\ saved.status \in {record.status, "failed"}
  <1> DEFINE counted == [record EXCEPT !.retries = @ + 1]
  <1>1. counted \in Record /\ counted.transferId = record.transferId
        /\ counted.status = record.status /\ counted.retries = record.retries + 1
        /\ counted.reschedules = record.reschedules /\ counted.customerId = record.customerId
    BY MigrationAssumption DEF Record
  <1>2. CASE counted.retries < MaxRetries
    BY <1>1, <1>2 DEF check_retries, SavedAs
  <1>3. CASE ~(counted.retries < MaxRetries)
    <2>1. SaveRecord(m, [counted EXCEPT !.status = "failed"])
      BY <1>1, <1>3 DEF check_retries, FailRecord
    <2>2. [counted EXCEPT !.status = "failed"] \in Record
      BY <1>1 DEF Record, RecordStatus
    <2>3. [counted EXCEPT !.status = "failed"].status = "failed"
          /\ [counted EXCEPT !.status = "failed"].transferId = record.transferId
          /\ [counted EXCEPT !.status = "failed"].customerId = record.customerId
      BY <1>1 DEF Record
    <2>4. QED
      BY <2>1, <2>2, <2>3 DEF SavedAs
  <1>4. QED
    BY <1>2, <1>3

LEMMA ReschedulesSave ==
    ASSUME NEW m \in Memberships, NEW record \in Record,
           record.retries < MaxRetries, record.reschedules < MaxReschedules,
           check_reschedules(m, record)
    PROVE  \E saved \in Record : /\ SaveRecord(m, saved) /\ SavedAs(record, saved)
                                 /\ saved.customerId = record.customerId
                                 /\ saved.status \in {"rescheduled", "failed"}
  <1> DEFINE counted == [record EXCEPT !.reschedules = @ + 1, !.status = "rescheduled"]
  <1>1. counted \in Record /\ counted.transferId = record.transferId
        /\ counted.status = "rescheduled" /\ counted.retries = record.retries
        /\ counted.reschedules = record.reschedules + 1
        /\ counted.customerId = record.customerId
    <2> DEFINE more == [record EXCEPT !.reschedules = @ + 1]
    <2>1. more \in Record /\ more.transferId = record.transferId
          /\ more.retries = record.retries /\ more.reschedules = record.reschedules + 1
          /\ more.customerId = record.customerId
      BY MigrationAssumption DEF Record
    <2>2. counted = [more EXCEPT !.status = "rescheduled"]
      BY DEF Record
    <2> HIDE DEF more, counted
    <2>3. QED
      BY <2>1, <2>2 DEF Record, RecordStatus
  <1>2. CASE counted.reschedules < MaxReschedules
    BY <1>1, <1>2 DEF check_reschedules, SavedAs
  <1>3. CASE ~(counted.reschedules < MaxReschedules)
    <2>1. SaveRecord(m, [counted EXCEPT !.status = "failed"])
      BY <1>1, <1>3 DEF check_reschedules, FailRecord
    <2>2. [counted EXCEPT !.status = "failed"] \in Record
      BY <1>1 DEF Record, RecordStatus
    <2>3. [counted EXCEPT !.status = "failed"].status = "failed"
          /\ [counted EXCEPT !.status = "failed"].transferId = record.transferId
          /\ [counted EXCEPT !.status = "failed"].customerId = record.customerId
      BY <1>1 DEF Record
    <2>4. QED
      BY <2>1, <2>2, <2>3 DEF SavedAs
  <1>4. QED
    BY <1>2, <1>3

LEMMA FailSave ==
    ASSUME NEW m \in Memberships, NEW record \in Record, FailRecord(m, record)
    PROVE  \E saved \in Record : /\ SaveRecord(m, saved) /\ SavedAs(record, saved)
                                 /\ saved.customerId = record.customerId
                                 /\ saved.status = "failed"
  <1>1. [record EXCEPT !.status = "failed"] \in Record
        /\ [record EXCEPT !.status = "failed"].status = "failed"
        /\ [record EXCEPT !.status = "failed"].transferId = record.transferId
        /\ [record EXCEPT !.status = "failed"].customerId = record.customerId
    BY DEF Record, RecordStatus
  <1>2. QED
    BY <1>1 DEF FailRecord, SavedAs

-----------------------------------------------------------------------------
(* Every action keeps the invariant.                                        *)

LEMMA MigrationInitInv == MigrationInit => MigrationInv
  BY MigrationAssumption
  DEF MigrationInit, MigrationInv, MigrationTypeOK, Counted, Working, Recorded,
      OneTransfer, Followed, Off, Record, RecordStatus, NoRecord, MainAgreement,
      JobType, NoJob

LEMMA PickIs ==
    ASSUME NEW job, NEW m, NEW step
    PROVE  Pick(job, m, step) = [todo |-> job.todo \ {m}, current |-> {m},
                                 step |-> step, transfer |-> 0]
  <1> DEFINE a == [NoJob EXCEPT !.todo = job.todo \ {m}]
             b == [a EXCEPT !.current = {m}]
  <1>1. a = [todo |-> job.todo \ {m}, current |-> {}, step |-> "next", transfer |-> 0]
    BY DEF NoJob
  <1>2. b = [todo |-> job.todo \ {m}, current |-> {m}, step |-> "next", transfer |-> 0]
    <2> HIDE DEF a
    <2> QED BY <1>1
  <1>3. Pick(job, m, step) = [b EXCEPT !.step = step]
    BY Zenon DEF Pick
  <1> HIDE DEF b
  <1>4. QED
    BY <1>2, <1>3

\* A job that saves a record it holds, and lets it go.
LEMMA StartingSaves ==
    ASSUME MigrationInv, NEW m \in Memberships, NEW saved \in Record,
           m \in starting.todo \cup starting.current,
           SaveRecord(m, saved), SavedAs(records[m], saved),
           saved.status \in {"init", "rescheduled", "failed"},
           starting' \in JobType({"next", "create", "save"}),
           starting'.step = "next" /\ starting'.current = {},
           starting'.todo \subseteq starting.todo \ {m},
           UNCHANGED <<main, transferVars, checking>>
    PROVE  MigrationInv'
  <1> USE DEF MigrationInv
  <1>1. MigrationTypeOK'
    BY DEF MigrationTypeOK, SaveRecord, transferVars
  <1>2. Counted'
    BY DEF MigrationTypeOK, Counted, SaveRecord, SavedAs
  <1>3. Working'
    BY DEF MigrationTypeOK, Working, SaveRecord, JobType
  <1>4. Recorded'
    BY DEF MigrationTypeOK, Recorded, SaveRecord, transferVars
  <1>5. OneTransfer' /\ Followed' /\ Off'
    BY DEF OneTransfer, Followed, Off, Transferred, ActiveSubscriptions, transferVars
  <1>6. QED
    BY <1>1, <1>2, <1>3, <1>4, <1>5

LEMMA CheckingSaves ==
    ASSUME MigrationInv, NEW m \in Memberships, NEW saved \in Record,
           m \in checking.todo \cup checking.current,
           SaveRecord(m, saved), SavedAs(records[m], saved),
           saved.status \in {"running", "completed", "failed"},
           checking' \in JobType({"next", "customer", "main", "renewal", "complete"}),
           checking'.step = "next" /\ checking'.current = {},
           checking'.todo \subseteq checking.todo \ {m},
           UNCHANGED <<main, transferVars, starting>>
    PROVE  MigrationInv'
  <1> USE DEF MigrationInv
  <1>1. MigrationTypeOK'
    BY DEF MigrationTypeOK, SaveRecord, transferVars
  <1>2. Counted'
    BY DEF MigrationTypeOK, Counted, SaveRecord, SavedAs
  <1>3. Working'
    BY DEF MigrationTypeOK, Working, SaveRecord, JobType
  <1>4. Recorded'
    BY DEF MigrationTypeOK, Recorded, SaveRecord, transferVars, Working, SavedAs
  <1>5. OneTransfer' /\ Followed' /\ Off'
    BY DEF OneTransfer, Followed, Off, Transferred, ActiveSubscriptions, transferVars
  <1>6. QED
    BY <1>1, <1>2, <1>3, <1>4, <1>5

\* A job that goes on within the records it holds, or takes up others.
LEMMA StartingMoves ==
    ASSUME MigrationInv,
           starting' \in JobType({"next", "create", "save"}),
           \A m \in starting'.todo \cup starting'.current :
              records[m].status \in {"init", "rescheduled"},
           starting'.todo \cap starting'.current = {},
           starting'.step = "next" => starting'.current = {},
           starting'.step # "save",
           UNCHANGED <<airtableVars, transferVars, checking>>
    PROVE  MigrationInv'
  BY DEF MigrationInv, MigrationTypeOK, Counted, Working, Recorded, OneTransfer, Followed,
     Off, Transferred, ActiveSubscriptions, airtableVars, transferVars

LEMMA CheckingMoves ==
    ASSUME MigrationInv,
           checking' \in JobType({"next", "customer", "main", "renewal", "complete"}),
           \A m \in checking'.todo \cup checking'.current : records[m].status = "running",
           checking'.todo \cap checking'.current = {},
           checking'.step = "next" => checking'.current = {},
           checking'.step # "next" => \A m \in checking'.current : Transferred(m),
           checking'.step = "complete" => \A m \in checking'.current \ Committed :
              renewing[m] \cap ActiveSubscriptions(m) = {},
           main' \in [Memberships -> MainAgreement],
           UNCHANGED <<records, transferVars, starting>>
    PROVE  MigrationInv'
  BY DEF MigrationInv, MigrationTypeOK, Counted, Working, Recorded, OneTransfer, Followed,
     Off, Transferred, ActiveSubscriptions, transferVars

LEMMA ProcessTransfersInv ==
    ASSUME MigrationInv, ProcessTransfers
    PROVE  MigrationInv'
  <1>1. /\ starting' \in JobType({"next", "create", "save"})
        /\ starting'.todo = ToProcess /\ starting'.current = {} /\ starting'.step = "next"
    BY MigrationAssumption DEF ProcessTransfers, NoJob, JobType, ToProcess
  <1>2. QED
    BY <1>1, StartingMoves DEF ProcessTransfers, ToProcess

LEMMA CheckRunningInv ==
    ASSUME MigrationInv, CheckRunningTransfers
    PROVE  MigrationInv'
  <1>1. /\ checking' \in JobType({"next", "customer", "main", "renewal", "complete"})
        /\ checking'.todo = ToCheck /\ checking'.current = {} /\ checking'.step = "next"
    BY MigrationAssumption DEF CheckRunningTransfers, NoJob, JobType, ToCheck
  <1>2. QED
    BY <1>1, CheckingMoves DEF CheckRunningTransfers, ToCheck, MigrationInv, MigrationTypeOK,
       airtableVars

LEMMA DiesInv ==
    ASSUME MigrationInv, ProcessDies \/ CheckDies
    PROVE  MigrationInv'
  <1>1. \A steps : "next" \in steps => NoJob \in JobType(steps)
    BY MigrationAssumption DEF NoJob, JobType
  <1>2. NoJob.todo = {} /\ NoJob.current = {} /\ NoJob.step = "next"
    BY DEF NoJob
  <1>3. CASE ProcessDies
    BY <1>1, <1>2, <1>3, StartingMoves DEF ProcessDies
  <1>4. CASE CheckDies
    BY <1>1, <1>2, <1>4, CheckingMoves DEF CheckDies, MigrationInv, MigrationTypeOK, airtableVars
  <1>5. QED
    BY <1>3, <1>4

LEMMA PreviewTransferInv ==
    ASSUME MigrationInv, NEW m \in Memberships, PreviewTransfer(m)
    PROVE  MigrationInv'
  <1>1. /\ records[m] \in Record /\ records[m].status \in {"init", "rescheduled"}
        /\ records[m].retries < MaxRetries /\ records[m].reschedules < MaxReschedules
        /\ starting.current = {} /\ m \in starting.todo
    BY DEF PreviewTransfer, MigrationInv, MigrationTypeOK, Working, Counted
  <1>2. CASE starting' = Pick(starting, m, "create") /\ UNCHANGED records
    <2>1. /\ starting' \in JobType({"next", "create", "save"})
          /\ starting'.todo = starting.todo \ {m} /\ starting'.current = {m}
          /\ starting'.step = "create"
      BY <1>2, PickIs, MigrationAssumption DEF JobType, MigrationInv, MigrationTypeOK
    <2>2. QED
      BY <1>1, <1>2, <2>1, StartingMoves DEF PreviewTransfer, MigrationInv, Working, airtableVars
  <1>3. CASE starting' = Pass(starting, m)
    <2>1. /\ starting' \in JobType({"next", "create", "save"})
          /\ starting'.todo = starting.todo \ {m} /\ starting'.current = {}
          /\ starting'.step = "next"
      BY <1>1, <1>3 DEF PreviewTransfer, Pass, JobType, MigrationInv, MigrationTypeOK
    <2>2. CASE UNCHANGED records
      BY <1>1, <2>1, <2>2, StartingMoves
      DEF PreviewTransfer, MigrationInv, Working, airtableVars
    <2>3. CASE check_reschedules(m, records[m]) \/ FailRecord(m, records[m])
      <3>1. PICK saved \in Record : /\ SaveRecord(m, saved) /\ SavedAs(records[m], saved)
                                    /\ saved.status \in {"rescheduled", "failed"}
        BY <1>1, <2>3, ReschedulesSave, FailSave
      <3>2. QED
        BY <1>1, <2>1, <3>1, StartingSaves DEF PreviewTransfer
    <2>4. QED
      BY <2>2, <2>3 DEF PreviewTransfer
  <1>4. QED
    BY <1>2, <1>3 DEF PreviewTransfer

\* A transfer that is tried is a new one, and the others were refused.
LEMMA TriesOne ==
    ASSUME MigrationInv, NEW m \in Memberships, TryTransfer(m)
    PROVE  /\ transfers' \in [Memberships -> Seq(TransferStatus)]
           /\ \A n \in Memberships : DOMAIN transfers[n] \subseteq DOMAIN transfers'[n]
           /\ \A n \in Memberships : Transferred(n) => Transferred(n)'
           /\ Len(transfers[m]) + 1 \in DOMAIN transfers'[m]
           /\ Len(transfers[m]) + 1 \in 0 .. MaxTransfers
           /\ OneTransfer'
  <1>1. transfers \in [Memberships -> Seq(TransferStatus)] /\ transfers[m] \in Seq(TransferStatus)
    BY DEF MigrationInv, MigrationTypeOK
  <1>2. "OPEN" \in TransferStatus
    BY DEF TransferStatus
  <1>3. /\ transfers' = [transfers EXCEPT ![m] = Append(transfers[m], "OPEN")]
        /\ Transferable(m) /\ Len(transfers[m]) < MaxTransfers
    BY DEF TryTransfer
  <1>4. Append(transfers[m], "OPEN") \in Seq(TransferStatus)
    BY <1>1, <1>2
  <1>5. transfers'[m] = Append(transfers[m], "OPEN")
    BY <1>1, <1>3
  <1>6. \A n \in Memberships \ {m} : transfers'[n] = transfers[n]
    BY <1>1, <1>3
  <1>7. /\ DOMAIN transfers'[m] = 1 .. Len(transfers[m]) + 1
        /\ DOMAIN transfers[m] = 1 .. Len(transfers[m])
        /\ \A i \in DOMAIN transfers[m] : transfers'[m][i] = transfers[m][i]
    BY <1>1, <1>2, <1>5
  <1>8. Len(transfers[m]) \in Nat
    BY <1>1
  <1>9. OneTransfer'
    <2> SUFFICES ASSUME NEW n \in Memberships,
                        NEW i \in DOMAIN transfers'[n], NEW j \in DOMAIN transfers'[n],
                        transfers'[n][i] # "FAILED", transfers'[n][j] # "FAILED"
                 PROVE  i = j
      BY DEF OneTransfer
    <2>1. CASE n = m
      <3>1. \A k \in DOMAIN transfers[m] : transfers'[m][k] = "FAILED"
        BY <1>3, <1>7 DEF Transferable
      <3>2. QED
        BY <2>1, <3>1, <1>7, <1>8
    <2>2. CASE n # m
      BY <2>2, <1>6 DEF MigrationInv, OneTransfer
    <2>3. QED
      BY <2>1, <2>2
  <1>10. \A n \in Memberships : DOMAIN transfers[n] \subseteq DOMAIN transfers'[n]
    BY <1>6, <1>7, <1>8
  <1>11. \A n \in Memberships : Transferred(n) => Transferred(n)'
    BY <1>6, <1>7, <1>10 DEF Transferred
  <1>12. transfers' \in [Memberships -> Seq(TransferStatus)]
    BY <1>1, <1>3, <1>4
  <1>13. QED
    BY <1>3, <1>7, <1>8, <1>9, <1>10, <1>11, <1>12, MigrationAssumption

LEMMA CreateTransferInv ==
    ASSUME MigrationInv, NEW m \in Memberships, CreateTransfer(m)
    PROVE  MigrationInv'
  <1>1. /\ records[m] \in Record /\ records[m].status \in {"init", "rescheduled"}
        /\ starting.current = {m} /\ m \notin starting.todo
        /\ starting.todo \subseteq Memberships
    BY DEF CreateTransfer, At, MigrationInv, MigrationTypeOK, Working, JobType
  <1>2. CASE TryTransfer(m) /\ UNCHANGED records
             /\ starting' = [starting EXCEPT !.step = "save", !.transfer = Len(transfers[m]) + 1]
    <2>1. UNCHANGED <<records, main, renewing, expired, checking>>
      BY <1>2 DEF CreateTransfer
    <2>2. /\ starting' \in JobType({"next", "create", "save"})
          /\ starting'.todo = starting.todo /\ starting'.current = {m}
          /\ starting'.step = "save" /\ starting'.transfer = Len(transfers[m]) + 1
      <3> DEFINE n == [starting EXCEPT !.step = "save"]
      <3>1. /\ n \in JobType({"next", "create", "save"}) /\ n.step = "save"
            /\ n.todo = starting.todo /\ n.current = {m}
        BY <1>1 DEF JobType, MigrationInv, MigrationTypeOK
      <3>2. starting' = [n EXCEPT !.transfer = Len(transfers[m]) + 1]
        BY <1>2, Zenon
      <3> HIDE DEF n
      <3>3. QED
        BY <1>2, <3>1, <3>2, TriesOne DEF JobType
    <2>3. MigrationTypeOK'
      BY <1>2, <2>1, <2>2, TriesOne DEF MigrationInv, MigrationTypeOK
    <2>4. Counted' /\ Working'
      BY <1>1, <2>1, <2>2 DEF MigrationInv, Counted, Working
    <2>5. Recorded'
      BY <1>2, <2>1, <2>2, TriesOne DEF MigrationInv, Recorded
    <2>6. Followed' /\ Off'
      BY <1>2, <2>1, TriesOne
      DEF MigrationInv, MigrationTypeOK, JobType, Followed, Off, ActiveSubscriptions
    <2>7. QED
      BY <1>2, <2>3, <2>4, <2>5, <2>6, TriesOne DEF MigrationInv
  <1>3. CASE FailRecord(m, records[m]) /\ starting' = Release(starting) /\ UNCHANGED transfers
    <2>1. PICK saved \in Record : /\ SaveRecord(m, saved) /\ SavedAs(records[m], saved)
                                  /\ saved.status = "failed"
      BY <1>1, <1>3, FailSave
    <2>2. /\ starting' \in JobType({"next", "create", "save"})
          /\ starting'.todo = starting.todo /\ starting'.current = {}
          /\ starting'.step = "next"
      BY <1>1, <1>3, MigrationAssumption DEF Release, NoJob, JobType
    <2>3. QED
      BY <1>1, <1>3, <2>1, <2>2, StartingSaves DEF CreateTransfer, transferVars
  <1>4. QED
    BY <1>2, <1>3 DEF CreateTransfer

LEMMA SaveTransferInv ==
    ASSUME MigrationInv, NEW m \in Memberships, SaveTransfer(m)
    PROVE  MigrationInv'
  <1> DEFINE saved == [records[m] EXCEPT !.status = "running", !.transferId = starting.transfer]
  <1>1. /\ records[m] \in Record /\ records[m].status \in {"init", "rescheduled"}
        /\ starting.current = {m} /\ m \notin starting.todo /\ starting.todo \subseteq Memberships
        /\ starting.transfer \in DOMAIN transfers[m] /\ starting.transfer \in 0 .. MaxTransfers
    BY DEF SaveTransfer, At, MigrationInv, MigrationTypeOK, Working, JobType, Recorded
  <1>2. /\ saved \in Record /\ saved.status = "running" /\ saved.transferId = starting.transfer
        /\ saved.retries = records[m].retries /\ saved.reschedules = records[m].reschedules
    <2> DEFINE n == [records[m] EXCEPT !.status = "running"]
    <2>1. /\ n \in Record /\ n.status = "running" /\ n.retries = records[m].retries
          /\ n.reschedules = records[m].reschedules
      BY <1>1 DEF Record, RecordStatus
    <2>2. saved = [n EXCEPT !.transferId = starting.transfer]
      BY Zenon
    <2> HIDE DEF n, saved
    <2>3. QED
      BY <1>1, <2>1, <2>2 DEF Record
  <1>3. records' = [records EXCEPT ![m] = saved]
    BY DEF SaveTransfer, SaveRecord
  <1>4. /\ starting' \in JobType({"next", "create", "save"})
        /\ starting'.todo = starting.todo /\ starting'.current = {}
        /\ starting'.step = "next"
    BY <1>1, MigrationAssumption DEF SaveTransfer, Release, NoJob, JobType
  <1>5. UNCHANGED <<main, transfers, renewing, expired, checking>>
    BY DEF SaveTransfer, transferVars
  <1> HIDE DEF saved
  <1>6. MigrationTypeOK'
    BY <1>2, <1>3, <1>4, <1>5 DEF MigrationInv, MigrationTypeOK
  <1>7. Counted' /\ Recorded'
    BY <1>1, <1>2, <1>3, <1>4, <1>5 DEF MigrationInv, MigrationTypeOK, Counted, Recorded
  <1>8. Working'
    BY <1>1, <1>2, <1>3, <1>4, <1>5 DEF MigrationInv, MigrationTypeOK, Working
  <1>9. OneTransfer' /\ Followed' /\ Off'
    BY <1>5 DEF MigrationInv, OneTransfer, Followed, Off, Transferred, ActiveSubscriptions
  <1>10. QED
    BY <1>6, <1>7, <1>8, <1>9 DEF MigrationInv

\* What Release leaves of a job.
LEMMA ReleaseIs ==
    ASSUME NEW job, NEW steps, "next" \in steps, job \in JobType(steps)
    PROVE  /\ Release(job) \in JobType(steps) /\ Release(job).todo = job.todo
           /\ Release(job).current = {} /\ Release(job).step = "next"
  BY MigrationAssumption DEF Release, NoJob, JobType

CheckingSteps == {"next", "customer", "main", "renewal", "complete"}

LEMMA GetTransferInv ==
    ASSUME MigrationInv, NEW m \in Memberships, GetTransfer(m)
    PROVE  MigrationInv'
  <1>1. /\ records[m] \in Record /\ records[m].status = "running"
        /\ records[m].retries < MaxRetries /\ records[m].reschedules < MaxReschedules
        /\ records[m].transferId \in DOMAIN transfers[m]
        /\ checking.current = {} /\ m \in checking.todo
        /\ checking \in JobType(CheckingSteps)
    BY DEF GetTransfer, MigrationInv, MigrationTypeOK, Working, Counted, Recorded, CheckingSteps
  <1>2. CASE /\ transfers[m][records[m].transferId] = "COMPLETE"
             /\ checking' = Pick(checking, m, "customer") /\ UNCHANGED records
    <2>1. Transferred(m)
      BY <1>1, <1>2 DEF Transferred
    <2>2. /\ checking' \in JobType(CheckingSteps)
          /\ checking'.todo = checking.todo \ {m} /\ checking'.current = {m}
          /\ checking'.step = "customer"
      BY <1>1, <1>2, PickIs, MigrationAssumption DEF JobType, CheckingSteps
    <2>3. QED
      BY <1>1, <1>2, <2>1, <2>2, CheckingMoves
      DEF GetTransfer, MigrationInv, MigrationTypeOK, Working, CheckingSteps
  <1>3. CASE /\ check_retries(m, records[m]) \/ FailRecord(m, records[m])
             /\ checking' = Pass(checking, m)
    <2>1. /\ checking' \in JobType(CheckingSteps)
          /\ checking'.todo = checking.todo \ {m} /\ checking'.current = {}
          /\ checking'.step = "next"
      BY <1>1, <1>3 DEF GetTransfer, Pass, JobType
    <2>2. PICK saved \in Record : /\ SaveRecord(m, saved) /\ SavedAs(records[m], saved)
                                  /\ saved.status \in {"running", "failed"}
      BY <1>1, <1>3, RetriesSave, FailSave
    <2>3. QED
      BY <1>1, <2>1, <2>2, CheckingSaves DEF GetTransfer, CheckingSteps
  <1>4. QED
    BY <1>2, <1>3 DEF GetTransfer

\* The record a job works on, and what is known of it.
LEMMA CheckingAt ==
    ASSUME MigrationInv, NEW m \in Memberships, NEW step \in CheckingSteps \ {"next"},
           At(checking, m, step)
    PROVE  /\ records[m] \in Record /\ records[m].status = "running"
           /\ records[m].retries < MaxRetries /\ records[m].reschedules < MaxReschedules
           /\ records[m].transferId \in DOMAIN transfers[m]
           /\ checking \in JobType(CheckingSteps) /\ checking.step = step
           /\ checking.current = {m} /\ m \notin checking.todo
           /\ \A n \in checking.todo : n \in Memberships /\ records[n].status = "running"
           /\ Transferred(m)
           /\ Known(m) \in Record /\ Known(m).status = "running"
           /\ Known(m).transferId = records[m].transferId
           /\ Known(m).retries = records[m].retries
           /\ Known(m).reschedules = records[m].reschedules
  <1>1. records[m] \in Record /\ checking \in JobType(CheckingSteps)
    BY DEF MigrationInv, MigrationTypeOK, CheckingSteps
  <1>2. checking.step = step /\ checking.current = {m}
    BY DEF At
  <1>3. records[m].status = "running"
    BY <1>2 DEF MigrationInv, Working
  <1>4. /\ Known(m) \in Record /\ Known(m).status = records[m].status
        /\ Known(m).transferId = records[m].transferId
        /\ Known(m).retries = records[m].retries
        /\ Known(m).reschedules = records[m].reschedules
    BY <1>1 DEF Known, Record
  <1>5. QED
    BY <1>1, <1>2, <1>3, <1>4
    DEF MigrationInv, Working, Counted, Recorded, Followed, JobType

\* The job goes on to the next step with the record it has.
LEMMA CheckingGoesOn ==
    ASSUME MigrationInv, NEW m \in Memberships, NEW step \in CheckingSteps \ {"next"},
           At(checking, m, step), NEW next \in CheckingSteps \ {"next"},
           checking' = [checking EXCEPT !.step = next],
           next = "complete" => m \in Committed \/ renewing[m] \cap ActiveSubscriptions(m) = {},
           main' \in [Memberships -> MainAgreement],
           UNCHANGED <<records, transferVars, starting>>
    PROVE  MigrationInv'
  <1>1. /\ checking' \in JobType(CheckingSteps)
        /\ checking'.todo = checking.todo /\ checking'.current = {m}
        /\ checking'.step = next
    BY CheckingAt DEF JobType
  <1>2. QED
    BY <1>1, CheckingAt, CheckingMoves DEF CheckingSteps

\* A refused call is counted, with what the job learnt about the customer.
LEMMA CheckingRetries ==
    ASSUME MigrationInv, NEW m \in Memberships, NEW step \in CheckingSteps \ {"next"},
           At(checking, m, step), check_retries(m, Known(m)), checking' = Release(checking),
           UNCHANGED <<main, transferVars, starting>>
    PROVE  MigrationInv'
  <1>1. PICK saved \in Record : /\ SaveRecord(m, saved) /\ SavedAs(Known(m), saved)
                                /\ saved.status \in {"running", "failed"}
    BY CheckingAt, RetriesSave
  <1>2. SavedAs(records[m], saved)
    BY <1>1, CheckingAt DEF SavedAs
  <1>3. /\ checking' \in JobType(CheckingSteps) /\ checking'.todo = checking.todo
        /\ checking'.current = {} /\ checking'.step = "next"
    BY CheckingAt, ReleaseIs DEF CheckingSteps
  <1>4. QED
    BY <1>1, <1>2, <1>3, CheckingAt, CheckingSaves DEF CheckingSteps

LEMMA GetCustomerInv ==
    ASSUME MigrationInv, NEW m \in Memberships, GetCustomer(m)
    PROVE  MigrationInv'
  <1>1. At(checking, m, "customer") /\ "customer" \in CheckingSteps \ {"next"}
    BY DEF GetCustomer, CheckingSteps
  <1>2. CASE check_retries(m, Known(m)) /\ checking' = Release(checking)
    BY <1>1, <1>2, CheckingRetries DEF GetCustomer
  <1>3. CASE UNCHANGED records /\ checking' = [checking EXCEPT !.step =
                IF m \in GlobalCustomers THEN "main"
                ELSE IF m \in Committed THEN "complete" ELSE "renewal"]
    <2> DEFINE next == IF m \in GlobalCustomers THEN "main"
                       ELSE IF m \in Committed THEN "complete" ELSE "renewal"
    <2>1. next \in CheckingSteps \ {"next"} /\ (next = "complete" => m \in Committed)
      BY DEF CheckingSteps
    <2> HIDE DEF next
    <2>3. checking' = [checking EXCEPT !.step = next]
      BY <1>3 DEF next
    <2>2. QED
      BY <1>1, <1>3, <2>1, <2>3, CheckingGoesOn DEF GetCustomer, MigrationInv, MigrationTypeOK
  <1>4. QED
    BY <1>2, <1>3 DEF GetCustomer

LEMMA CreateMainAgreementInv ==
    ASSUME MigrationInv, NEW m \in Memberships, CreateMainAgreement(m)
    PROVE  MigrationInv'
  <1>1. At(checking, m, "main") /\ "main" \in CheckingSteps \ {"next"}
    BY DEF CreateMainAgreement, CheckingSteps
  <1>2. main' \in [Memberships -> MainAgreement]
    BY DEF CreateMainAgreement, MigrationInv, MigrationTypeOK, MainAgreement
  <1> DEFINE next == IF m \in Committed THEN "complete" ELSE "renewal"
  <1>3. next \in CheckingSteps \ {"next"} /\ (next = "complete" => m \in Committed)
    BY DEF CheckingSteps
  <1> HIDE DEF next
  <1>5. checking' = [checking EXCEPT !.step = next]
    BY DEF CreateMainAgreement, next
  <1>4. QED
    BY <1>1, <1>2, <1>3, <1>5, CheckingGoesOn DEF CreateMainAgreement

LEMMA SwitchRenewalOffInv ==
    ASSUME MigrationInv, NEW m \in Memberships, SwitchRenewalOff(m)
    PROVE  MigrationInv'
  <1>1. At(checking, m, "renewal") /\ {"renewal", "complete"} \subseteq CheckingSteps \ {"next"}
    BY DEF SwitchRenewalOff, CheckingSteps
  <1>2. CASE check_retries(m, Known(m)) /\ checking' = Release(checking) /\ UNCHANGED renewing
    BY <1>1, <1>2, CheckingRetries DEF SwitchRenewalOff, transferVars
  <1>3. CASE /\ renewing[m] \cap ActiveSubscriptions(m) = {}
             /\ checking' = [checking EXCEPT !.step = "complete"]
             /\ UNCHANGED <<records, renewing>>
    BY <1>1, <1>3, CheckingGoesOn
    DEF SwitchRenewalOff, transferVars, MigrationInv, MigrationTypeOK
  <1>4. ASSUME NEW s \in renewing[m], renewing' = [renewing EXCEPT ![m] = @ \ {s}],
               UNCHANGED <<records, checking>>
        PROVE  MigrationInv'
    <2>1. UNCHANGED <<records, main, transfers, expired, starting, checking>>
      BY <1>4 DEF SwitchRenewalOff
    <2>2. /\ renewing' \in [Memberships -> SUBSET Subscriptions]
          /\ \A n \in Memberships : renewing'[n] \subseteq renewing[n]
      BY <1>4 DEF MigrationInv, MigrationTypeOK
    <2>3. Off'
      BY <2>1, <2>2
      DEF Off, ActiveSubscriptions, MigrationInv, MigrationTypeOK, JobType
    <2>4. MigrationTypeOK'
      BY <2>1, <2>2 DEF MigrationInv, MigrationTypeOK
    <2>5. Counted' /\ Working' /\ Recorded' /\ OneTransfer' /\ Followed'
      BY <2>1 DEF MigrationInv, Counted, Working, Recorded, OneTransfer, Followed, Transferred
    <2>6. QED
      BY <2>3, <2>4, <2>5 DEF MigrationInv
  <1>5. \/ \E s \in renewing[m] : /\ renewing' = [renewing EXCEPT ![m] = @ \ {s}]
                                  /\ UNCHANGED <<records, checking>>
        \/ /\ renewing[m] \cap ActiveSubscriptions(m) = {}
           /\ checking' = [checking EXCEPT !.step = "complete"]
           /\ UNCHANGED <<records, renewing>>
        \/ check_retries(m, Known(m)) /\ checking' = Release(checking) /\ UNCHANGED renewing
    BY Zenon DEF SwitchRenewalOff
  <1>6. QED
    BY <1>2, <1>3, <1>4, <1>5, Zenon

LEMMA CompleteMigrationInv ==
    ASSUME MigrationInv, NEW m \in Memberships, CompleteMigration(m)
    PROVE  MigrationInv'
  <1>1. At(checking, m, "complete") /\ "complete" \in CheckingSteps \ {"next"}
    BY DEF CompleteMigration, CheckingSteps
  <1> DEFINE saved == [Known(m) EXCEPT !.status = "completed"]
  <1>2. /\ saved \in Record /\ saved.status = "completed"
        /\ saved.transferId = records[m].transferId
        /\ saved.retries = records[m].retries /\ saved.reschedules = records[m].reschedules
    BY <1>1, CheckingAt DEF Record, RecordStatus
  <1>3. SaveRecord(m, saved)
    BY DEF CompleteMigration
  <1>4. SavedAs(records[m], saved)
    BY <1>1, <1>2, CheckingAt DEF SavedAs
  <1>5. /\ checking' \in JobType(CheckingSteps) /\ checking'.todo = checking.todo
        /\ checking'.current = {} /\ checking'.step = "next"
    BY <1>1, CheckingAt, ReleaseIs DEF CheckingSteps, CompleteMigration
  <1> HIDE DEF saved
  <1>6. QED
    BY <1>1, <1>2, <1>3, <1>4, <1>5, CheckingAt, CheckingSaves DEF CheckingSteps, CompleteMigration

LEMMA SurroundingsInv ==
    ASSUME MigrationInv, NEW m \in Memberships,
           AddRecord(m) \/ AdobeSettlesTransfer(m) \/ AdobeExpires(m)
    PROVE  MigrationInv'
  <1>1. CASE AddRecord(m)
    <2>1. records[m] \in Record /\ records[m].status = "absent"
      BY <1>1 DEF AddRecord, MigrationInv, MigrationTypeOK
    <2>2. /\ [records[m] EXCEPT !.status = "init"] \in Record
          /\ [records[m] EXCEPT !.status = "init"].status = "init"
          /\ [records[m] EXCEPT !.status = "init"].retries = records[m].retries
          /\ [records[m] EXCEPT !.status = "init"].reschedules = records[m].reschedules
      BY <2>1 DEF Record, RecordStatus
    <2>3. /\ records' = [records EXCEPT ![m] = [records[m] EXCEPT !.status = "init"]]
          /\ UNCHANGED <<main, transfers, renewing, expired, starting, checking>>
      BY <1>1 DEF AddRecord, SaveRecord, transferVars
    <2> DEFINE saved == [records[m] EXCEPT !.status = "init"]
    <2>5. saved \in Record /\ saved.status = "init" /\ records' = [records EXCEPT ![m] = saved]
          /\ saved.retries = records[m].retries /\ saved.reschedules = records[m].reschedules
      BY <2>2, <2>3
    <2> HIDE DEF saved
    <2>6. MigrationTypeOK' /\ Counted'
      BY <2>1, <2>3, <2>5 DEF MigrationInv, MigrationTypeOK, Counted
    <2>7. Working' /\ Recorded'
      <3>1. m \notin starting.todo \cup starting.current /\ m \notin checking.todo \cup checking.current
        BY <2>1 DEF MigrationInv, Working
      <3>2. starting.current \subseteq Memberships
        BY DEF MigrationInv, MigrationTypeOK, JobType
      <3>3. /\ records'[m].status = "init"
            /\ \A n \in Memberships \ {m} : records'[n] = records[n]
        BY <2>5 DEF MigrationInv, MigrationTypeOK
      <3>6. \A n \in starting.todo \cup starting.current \cup checking.todo \cup checking.current :
               n \in Memberships \ {m}
        BY <3>1 DEF MigrationInv, MigrationTypeOK, JobType
      <3>4. Working'
        BY <2>3, <3>3, <3>6 DEF MigrationInv, Working
      <3>5. Recorded'
        BY <2>3, <3>2, <3>3 DEF MigrationInv, Recorded
      <3>7. QED
        BY <3>4, <3>5
    <2>8. OneTransfer' /\ Followed' /\ Off'
      BY <2>3 DEF MigrationInv, OneTransfer, Followed, Off, Transferred, ActiveSubscriptions
    <2>4. QED
      BY <2>6, <2>7, <2>8 DEF MigrationInv
  <1>2. CASE AdobeExpires(m)
    <2>1. /\ expired' \in [Memberships -> SUBSET Subscriptions]
          /\ \A n \in Memberships : expired[n] \subseteq expired'[n]
          /\ UNCHANGED <<records, main, transfers, renewing, starting, checking>>
      BY <1>2 DEF AdobeExpires, ActiveSubscriptions, MigrationInv, MigrationTypeOK, airtableVars
    <2>2. Off'
      BY <2>1 DEF Off, ActiveSubscriptions, MigrationInv, MigrationTypeOK, JobType
    <2>3. QED
      BY <2>1, <2>2 DEF MigrationInv, MigrationTypeOK, Counted, Working, Recorded,
         OneTransfer, Followed, Transferred
  <1>3. CASE AdobeSettlesTransfer(m)
    <2>1. PICK i \in DOMAIN transfers[m], answer \in {"COMPLETE", "FAILED"} :
             /\ transfers[m][i] = "OPEN"
             /\ transfers' = [transfers EXCEPT ![m][i] = answer]
             /\ renewing' = [renewing EXCEPT ![m] = Subscriptions] \/ UNCHANGED renewing
      BY <1>3 DEF AdobeSettlesTransfer
    <2>2. UNCHANGED <<records, main, expired, starting, checking>>
      BY <1>3 DEF AdobeSettlesTransfer, airtableVars
    <2>3. transfers[m] \in Seq(TransferStatus) /\ answer \in TransferStatus
      BY DEF MigrationInv, MigrationTypeOK, TransferStatus
    <2>4. /\ transfers'[m] = [transfers[m] EXCEPT ![i] = answer]
          /\ \A n \in Memberships \ {m} : transfers'[n] = transfers[n]
          /\ transfers' \in [Memberships -> Seq(TransferStatus)]
      BY <2>1, <2>3 DEF MigrationInv, MigrationTypeOK
    <2>5. /\ DOMAIN transfers'[m] = DOMAIN transfers[m]
          /\ \A j \in DOMAIN transfers[m] : j # i => transfers'[m][j] = transfers[m][j]
          /\ transfers'[m][i] = answer
      BY <2>3, <2>4
    <2>6. ~Transferred(m)
      BY <2>1 DEF Transferred, MigrationInv, OneTransfer
    <2>7. OneTransfer'
      BY <2>1, <2>4, <2>5 DEF MigrationInv, OneTransfer
    <2>8. \A n \in Memberships : Transferred(n) => Transferred(n)'
      BY <2>4, <2>6 DEF Transferred
    <2>9. /\ renewing' \in [Memberships -> SUBSET Subscriptions]
          /\ \A n \in Memberships \ {m} : renewing'[n] = renewing[n]
      BY <2>1 DEF MigrationInv, MigrationTypeOK
    <2>10. checking.current \subseteq Memberships
      BY DEF MigrationInv, MigrationTypeOK, JobType
    <2>11. Followed' /\ Off'
      BY <2>2, <2>6, <2>8, <2>9, <2>10 DEF MigrationInv, Followed, Off, ActiveSubscriptions
    <2>12. Recorded'
      <3>1. \A n \in Memberships : DOMAIN transfers'[n] = DOMAIN transfers[n]
        BY <2>4, <2>5
      <3>2. starting.current \subseteq Memberships
        BY DEF MigrationInv, MigrationTypeOK, JobType
      <3>3. QED
        BY <2>2, <3>1, <3>2 DEF MigrationInv, Recorded
    <2>13. MigrationTypeOK' /\ Counted' /\ Working'
      BY <2>2, <2>4, <2>9 DEF MigrationInv, MigrationTypeOK, Counted, Working
    <2>14. QED
      BY <2>7, <2>11, <2>12, <2>13 DEF MigrationInv
  <1>4. QED
    BY <1>1, <1>2, <1>3

-----------------------------------------------------------------------------
(* The theorems.                                                            *)

LEMMA MigrationNextInv == MigrationInv /\ [MigrationNext]_migrationVars => MigrationInv'
  <1> SUFFICES ASSUME MigrationInv, [MigrationNext]_migrationVars
               PROVE  MigrationInv'
    OBVIOUS
  <1>1. CASE UNCHANGED migrationVars
    BY <1>1 DEF migrationVars, airtableVars, transferVars, MigrationInv, MigrationTypeOK,
       Counted, Working, Recorded, OneTransfer, Followed, Off, Transferred, ActiveSubscriptions
  <1>2. CASE Jobs
    BY <1>2, ProcessTransfersInv, CheckRunningInv, DiesInv, PreviewTransferInv,
       CreateTransferInv, SaveTransferInv, GetTransferInv, GetCustomerInv,
       CreateMainAgreementInv, SwitchRenewalOffInv, CompleteMigrationInv
    DEF Jobs, StartingStep, CheckingStep
  <1>3. CASE Surroundings
    BY <1>3, SurroundingsInv DEF Surroundings
  <1>4. QED
    BY <1>1, <1>2, <1>3 DEF MigrationNext

LEMMA MigrationInvHolds == MigrationSpec => []MigrationInv
  BY MigrationInitInv, MigrationNextInv, PTL DEF MigrationSpec

\* Whatever is refused and however often the jobs die: records, jobs and
\* transfers hold values of their kind, and no record is retried or put off
\* more often than it may be (check_retries, check_reschedules).
THEOREM MigrationTypeCorrect == MigrationSpec => []MigrationTypeOK
  <1>1. MigrationInv => MigrationTypeOK
    BY DEF MigrationInv
  <1>2. QED
    BY <1>1, MigrationInvHolds, PTL

\* Outside a commitment a record becomes completed only where no active
\* subscription renews, whatever was refused and retried, and however the
\* customer changed since: no step of Adobe or of the other job between the
\* last switch and the save can break it (check_running_transfers_for_product).
THEOREM RenewalOffCorrect == MigrationSpec => RenewalOffWhenMigrated
  <1>1. ASSUME MigrationInv, [MigrationNext]_migrationVars,
               NEW m \in Memberships \ Committed,
               records[m].status # "completed", records'[m].status = "completed"
        PROVE  renewing[m] \cap ActiveSubscriptions(m) = {}
    <2>1. records' # records
      BY <1>1
    <2>2. ASSUME NEW n \in Memberships, NEW saved \in Record,
                 SaveRecord(n, saved), saved.status # "completed"
          PROVE  FALSE
      BY <1>1, <2>2 DEF SaveRecord, MigrationInv, MigrationTypeOK
    <2>3. CASE \E n \in Memberships : CompleteMigration(n)
      <3>1. PICK n \in Memberships : CompleteMigration(n)
        BY <2>3
      <3>2. n = m
        BY <1>1, <3>1 DEF CompleteMigration, SaveRecord, MigrationInv, MigrationTypeOK
      <3>3. QED
        BY <1>1, <3>1, <3>2 DEF CompleteMigration, At, MigrationInv, Off
    <2>4. CASE \E n \in Memberships : StartingStep(n)
      <3>1. PICK n \in Memberships : StartingStep(n)
        BY <2>4
      <3>2. CASE PreviewTransfer(n)
        <4>1. /\ records[n] \in Record
              /\ records[n].retries < MaxRetries /\ records[n].reschedules < MaxReschedules
          BY <1>1, <3>2 DEF PreviewTransfer, MigrationInv, MigrationTypeOK, Working, Counted
        <4>2. check_reschedules(n, records[n]) \/ FailRecord(n, records[n])
          BY <2>1, <3>2 DEF PreviewTransfer
        <4>3. QED
          BY <2>2, <4>1, <4>2, ReschedulesSave, FailSave
      <3>3. CASE CreateTransfer(n)
        <4>1. records[n] \in Record /\ FailRecord(n, records[n])
          BY <1>1, <2>1, <3>3 DEF CreateTransfer, MigrationInv, MigrationTypeOK
        <4>2. QED
          BY <2>2, <4>1, FailSave
      <3>4. CASE SaveTransfer(n)
        BY <1>1, <3>4 DEF SaveTransfer, SaveRecord, MigrationInv, MigrationTypeOK, Record
      <3>5. QED
        BY <3>1, <3>2, <3>3, <3>4 DEF StartingStep
    <2>5. CASE \E n \in Memberships : GetTransfer(n)
      <3>1. PICK n \in Memberships : GetTransfer(n)
        BY <2>5
      <3>2. /\ records[n] \in Record /\ records[n].status = "running"
            /\ records[n].retries < MaxRetries /\ records[n].reschedules < MaxReschedules
        BY <1>1, <3>1 DEF GetTransfer, MigrationInv, MigrationTypeOK, Working, Counted
      <3>3. check_retries(n, records[n]) \/ FailRecord(n, records[n])
        BY <2>1, <3>1 DEF GetTransfer
      <3>4. QED
        BY <2>2, <3>2, <3>3, RetriesSave, FailSave
    <2>6. CASE \E n \in Memberships : GetCustomer(n) \/ SwitchRenewalOff(n)
      <3>1. PICK n \in Memberships : GetCustomer(n) \/ SwitchRenewalOff(n)
        BY <2>6
      <3>2. check_retries(n, Known(n))
        BY <2>1, <3>1 DEF GetCustomer, SwitchRenewalOff
      <3>3. PICK step \in CheckingSteps \ {"next"} : At(checking, n, step)
        BY <3>1 DEF GetCustomer, SwitchRenewalOff, CheckingSteps
      <3>4. PICK saved \in Record : /\ SaveRecord(n, saved)
                                    /\ saved.status \in {"running", "failed"}
        BY <1>1, <3>2, <3>3, CheckingAt, RetriesSave
      <3>5. QED
        BY <2>2, <3>4
    <2>7. CASE \E n \in Memberships : AddRecord(n)
      BY <1>1, <2>7 DEF AddRecord, SaveRecord, MigrationInv, MigrationTypeOK, Record
    <2>8. CASE \/ ProcessTransfers \/ ProcessDies \/ CheckRunningTransfers \/ CheckDies
               \/ \E n \in Memberships :
                     CreateMainAgreement(n) \/ AdobeSettlesTransfer(n) \/ AdobeExpires(n)
      BY <2>1, <2>8 DEF ProcessTransfers, ProcessDies, CheckRunningTransfers, CheckDies,
         CreateMainAgreement, AdobeSettlesTransfer, AdobeExpires, airtableVars
    <2>9. CASE UNCHANGED migrationVars
      BY <2>1, <2>9 DEF migrationVars, airtableVars
    <2>10. QED
      BY <1>1, <2>3, <2>4, <2>5, <2>6, <2>7, <2>8, <2>9
      DEF MigrationNext, Jobs, Surroundings, CheckingStep
  <1>2. MigrationInv /\ [MigrationNext]_migrationVars =>
          [\A m \in Memberships \ Committed :
             records[m].status # "completed" /\ records'[m].status = "completed" =>
               renewing[m] \cap ActiveSubscriptions(m) = {}]_migrationVars
    BY <1>1
  <1>3. QED
    BY <1>2, MigrationInvHolds, PTL DEF MigrationSpec, RenewalOffWhenMigrated

-----------------------------------------------------------------------------
(* What the jobs know of the memberships.                                   *)

Ended == {"completed", "failed", "synchronized"}

\* A record with a customer names the transfer Adobe has completed, and is not
\* started again.
CustomersKnown ==
    \A m \in Memberships : records[m].customerId =>
        /\ records[m].status \in Ended \cup {"running"}
        /\ records[m].transferId \in DOMAIN transfers[m]
        /\ transfers[m][records[m].transferId] = "COMPLETE"

\* The job works on the customer of the transfer its record names.
Checked ==
    checking.step # "next" => \A m \in checking.current :
        transfers[m][records[m].transferId] = "COMPLETE"

\* A record names a transfer that was tried, or none.
TransfersNamed ==
    \A m \in Memberships :
        records[m].transferId = 0 \/ records[m].transferId \in DOMAIN transfers[m]

JobsInv == MigrationInv /\ CustomersKnown /\ Checked /\ TransfersNamed

\* Transfers are added, and a completed one stays so.
TransfersGrow ==
    \A m \in Memberships : \A i \in DOMAIN transfers[m] :
        /\ i \in DOMAIN transfers'[m]
        /\ transfers[m][i] = "COMPLETE" => transfers'[m][i] = "COMPLETE"

\* A record not yet running only ever gets the transfer its job has tried, a
\* running one only the customer of its transfer, an ended one nothing.
RecordMoves(m) ==
    \/ records'[m] = records[m]
    \/ /\ records[m].status \in {"absent", "init", "rescheduled"}
       /\ records'[m].customerId = records[m].customerId
       /\ \/ records'[m].transferId = records[m].transferId
          \/ /\ starting.step = "save" /\ m \in starting.current
             /\ records'[m].transferId = starting.transfer
    \/ /\ records[m].status = "running"
       /\ records'[m].status \in {"running", "completed", "failed"}
       /\ records'[m].transferId = records[m].transferId
       /\ records[m].customerId => records'[m].customerId
       /\ records'[m].customerId =>
             records[m].customerId \/ transfers[m][records[m].transferId] = "COMPLETE"

\* The job that starts transfers saves none but the one it has just tried.
StartsNew ==
    starting'.step = "save" =>
        \/ starting' = starting
        \/ \E m \in Memberships :
              starting'.current = {m} /\ starting'.transfer \notin DOMAIN transfers[m]

\* The job that follows them takes up completed ones only.
ChecksCompleted ==
    \/ checking'.step = "next"
    \/ checking.step # "next" /\ checking'.current = checking.current
    \/ \A m \in checking'.current :
          /\ m \in Memberships
          /\ records[m].status = "running"
          /\ transfers[m][records[m].transferId] = "COMPLETE"

Jobwise == TransfersGrow /\ (\A m \in Memberships : RecordMoves(m)) /\ StartsNew /\ ChecksCompleted

LEMMA JobwiseKeeps ==
  ASSUME JobsInv, Jobwise
  PROVE  CustomersKnown' /\ Checked' /\ TransfersNamed'
  <1>1. CustomersKnown'
    <2> SUFFICES ASSUME NEW m \in Memberships, records'[m].customerId
                 PROVE  /\ records'[m].status \in Ended \cup {"running"}
                        /\ records'[m].transferId \in DOMAIN transfers'[m]
                        /\ transfers'[m][records'[m].transferId] = "COMPLETE"
      BY DEF CustomersKnown
    <2>1. CASE records'[m] = records[m]
      BY <2>1 DEF JobsInv, CustomersKnown, Jobwise, TransfersGrow
    <2>2. CASE records'[m] # records[m]
      <3>1. \/ records[m].status \in {"absent", "init", "rescheduled"} /\ records[m].customerId
            \/ /\ records[m].status = "running"
               /\ records'[m].status \in {"running", "completed", "failed"}
               /\ records'[m].transferId = records[m].transferId
               /\ records[m].customerId \/ transfers[m][records[m].transferId] = "COMPLETE"
        BY <2>2 DEF Jobwise, RecordMoves
      <3>2. records[m].status = "running" => records[m].transferId \in DOMAIN transfers[m]
        BY DEF JobsInv, MigrationInv, Recorded
      <3>3. records[m].customerId => /\ records[m].status \in Ended \cup {"running"}
                                     /\ transfers[m][records[m].transferId] = "COMPLETE"
        BY DEF JobsInv, CustomersKnown
      <3>4. QED
        BY <3>1, <3>2, <3>3 DEF Jobwise, TransfersGrow, Ended
    <2>3. QED
      BY <2>1, <2>2
  <1>2. Checked'
    <2> SUFFICES ASSUME checking'.step # "next", NEW m \in checking'.current
                 PROVE  transfers'[m][records'[m].transferId] = "COMPLETE"
      BY DEF Checked
    <2>1. /\ m \in Memberships /\ records[m].status = "running"
          /\ transfers[m][records[m].transferId] = "COMPLETE"
      BY DEF Jobwise, ChecksCompleted, JobsInv, Checked, MigrationInv, Working, MigrationTypeOK,
             JobType
    <2>2. records[m].transferId \in DOMAIN transfers[m]
      BY <2>1 DEF JobsInv, MigrationInv, Recorded
    <2>3. records'[m].transferId = records[m].transferId
      BY <2>1 DEF Jobwise, RecordMoves
    <2>4. QED
      BY <2>1, <2>2, <2>3 DEF Jobwise, TransfersGrow
  <1>3. TransfersNamed'
    <2> SUFFICES ASSUME NEW m \in Memberships, records'[m].transferId # 0
                 PROVE  records'[m].transferId \in DOMAIN transfers'[m]
      BY DEF TransfersNamed
    <2>1. \/ records'[m].transferId = records[m].transferId
          \/ /\ starting.step = "save" /\ m \in starting.current
             /\ records'[m].transferId = starting.transfer
      BY DEF Jobwise, RecordMoves
    <2>2. records'[m].transferId \in DOMAIN transfers[m]
      BY <2>1 DEF JobsInv, TransfersNamed, MigrationInv, Recorded
    <2>3. QED
      BY <2>2 DEF Jobwise, TransfersGrow
  <1>4. QED
    BY <1>1, <1>2, <1>3

\* A job that saves a record it may save.
LEMMA SavingMoves ==
  ASSUME MigrationInv, NEW m \in Memberships, NEW saved \in Record, SaveRecord(m, saved),
         \/ /\ records[m].status \in {"absent", "init", "rescheduled"}
            /\ saved.customerId = records[m].customerId
            /\ \/ saved.transferId = records[m].transferId
               \/ /\ starting.step = "save" /\ m \in starting.current
                  /\ saved.transferId = starting.transfer
         \/ /\ records[m].status = "running"
            /\ saved.status \in {"running", "completed", "failed"}
            /\ saved.transferId = records[m].transferId
            /\ records[m].customerId => saved.customerId
            /\ saved.customerId =>
                  records[m].customerId \/ transfers[m][records[m].transferId] = "COMPLETE"
  PROVE  \A n \in Memberships : RecordMoves(n)
  <1>1. records'[m] = saved /\ \A n \in Memberships \ {m} : records'[n] = records[n]
    BY DEF SaveRecord, MigrationInv, MigrationTypeOK
  <1>2. RecordMoves(m)
    BY <1>1 DEF RecordMoves
  <1>3. QED
    BY <1>1, <1>2 DEF RecordMoves

LEMMA StayingMoves == UNCHANGED records => \A m \in Memberships : RecordMoves(m)
  BY DEF RecordMoves

LEMMA TriesGrow ==
  ASSUME transfers \in [Memberships -> Seq(TransferStatus)],
         UNCHANGED transfers \/ \E m \in Memberships : TryTransfer(m)
  PROVE  TransfersGrow
  <1>1. CASE UNCHANGED transfers
    BY <1>1 DEF TransfersGrow
  <1>2. ASSUME NEW m \in Memberships, TryTransfer(m)
        PROVE  TransfersGrow
    <2>1. transfers' = [transfers EXCEPT ![m] = Append(@, "OPEN")]
      BY <1>2 DEF TryTransfer
    <2>2. "OPEN" \in TransferStatus
      BY DEF TransferStatus
    <2>3. ASSUME NEW n \in Memberships, NEW i \in DOMAIN transfers[n]
          PROVE  i \in DOMAIN transfers'[n] /\ transfers'[n][i] = transfers[n][i]
      BY <2>1, <2>2
    <2>4. QED
      BY <2>3 DEF TransfersGrow
  <1>3. QED
    BY <1>1, <1>2

\* The transfer a job tries is a new one.
LEMMA NextIsNew ==
  ASSUME transfers \in [Memberships -> Seq(TransferStatus)], NEW m \in Memberships
  PROVE  Len(transfers[m]) + 1 \notin DOMAIN transfers[m]
  <1>1. transfers[m] \in Seq(TransferStatus)
    OBVIOUS
  <1>2. QED
    BY <1>1

LEMMA StartingJobwise ==
  ASSUME JobsInv, NEW m \in Memberships, StartingStep(m)
  PROVE  Jobwise
  <1>1. records[m] \in Record /\ transfers \in [Memberships -> Seq(TransferStatus)]
    BY DEF JobsInv, MigrationInv, MigrationTypeOK
  <1>2. UNCHANGED checking
    BY DEF StartingStep, PreviewTransfer, CreateTransfer, SaveTransfer
  <1>3. ChecksCompleted
    BY <1>2 DEF ChecksCompleted
  <1>4. TransfersGrow
    <2>1. UNCHANGED transfers \/ TryTransfer(m)
      BY DEF StartingStep, PreviewTransfer, CreateTransfer, SaveTransfer, transferVars
    <2>2. QED
      BY <2>1, <1>1, TriesGrow
  <1>5. CASE PreviewTransfer(m)
    <2>1. /\ records[m].status \in {"init", "rescheduled"}
          /\ records[m].retries < MaxRetries /\ records[m].reschedules < MaxReschedules
      BY <1>5 DEF PreviewTransfer, JobsInv, MigrationInv, Working, Counted
    <2>2. \A n \in Memberships : RecordMoves(n)
      <3>1. CASE UNCHANGED records
        BY <3>1, StayingMoves
      <3>2. CASE check_reschedules(m, records[m]) \/ FailRecord(m, records[m])
        <4>1. PICK saved \in Record : /\ SaveRecord(m, saved) /\ SavedAs(records[m], saved)
                                      /\ saved.customerId = records[m].customerId
          BY <1>1, <2>1, <3>2, ReschedulesSave, FailSave
        <4>2. QED
          BY <2>1, <4>1, SavingMoves DEF SavedAs, JobsInv
      <3>3. QED
        BY <1>5, <3>1, <3>2 DEF PreviewTransfer
    <2>3. StartsNew
      <3>1. Pick(starting, m, "create").step = "create"
        BY PickIs
      <3>2. Pass(starting, m).step # "save"
        BY <1>5 DEF PreviewTransfer, Pass, JobsInv, MigrationInv, MigrationTypeOK, JobType
      <3>3. QED
        BY <1>5, <3>1, <3>2 DEF PreviewTransfer, StartsNew
    <2>4. QED
      BY <1>3, <1>4, <2>2, <2>3 DEF Jobwise
  <1>6. CASE CreateTransfer(m)
    <2>1. /\ records[m].status \in {"init", "rescheduled"} /\ starting.current = {m}
          /\ records[m].retries < MaxRetries /\ records[m].reschedules < MaxReschedules
          /\ starting \in JobType({"next", "create", "save"})
      BY <1>6 DEF CreateTransfer, At, JobsInv, MigrationInv, MigrationTypeOK, Working, Counted
    <2>2. \A n \in Memberships : RecordMoves(n)
      <3>1. CASE UNCHANGED records
        BY <3>1, StayingMoves
      <3>2. CASE FailRecord(m, records[m])
        <4>1. PICK saved \in Record : /\ SaveRecord(m, saved) /\ SavedAs(records[m], saved)
                                      /\ saved.customerId = records[m].customerId
          BY <1>1, <2>1, <3>2, FailSave
        <4>2. QED
          BY <2>1, <4>1, SavingMoves DEF SavedAs, JobsInv
      <3>3. QED
        BY <1>6, <3>1, <3>2 DEF CreateTransfer
    <2>3. StartsNew
      <3>1. CASE starting' = Release(starting)
        BY <2>1, <3>1, ReleaseIs DEF StartsNew
      <3>2. CASE starting' = [starting EXCEPT !.step = "save",
                                              !.transfer = Len(transfers[m]) + 1]
        <4> DEFINE n == [starting EXCEPT !.step = "save"]
        <4>1. n \in JobType({"next", "create", "save"}) /\ n.current = {m}
          BY <2>1 DEF JobType
        <4>2. starting' = [n EXCEPT !.transfer = Len(transfers[m]) + 1]
          BY <3>2, Zenon
        <4> HIDE DEF n
        <4>3. starting'.current = {m} /\ starting'.transfer = Len(transfers[m]) + 1
          BY <4>1, <4>2 DEF JobType
        <4>4. QED
          BY <4>3, <1>1, NextIsNew DEF StartsNew
      <3>3. QED
        BY <1>6, <3>1, <3>2 DEF CreateTransfer
    <2>4. QED
      BY <1>3, <1>4, <2>2, <2>3 DEF Jobwise
  <1>7. CASE SaveTransfer(m)
    <2> DEFINE saved == [records[m] EXCEPT !.status = "running",
                                           !.transferId = starting.transfer]
    <2>1. /\ records[m].status \in {"init", "rescheduled"} /\ m \in starting.current
          /\ starting.step = "save" /\ starting \in JobType({"next", "create", "save"})
          /\ starting.transfer \in 0 .. MaxTransfers
      BY <1>7 DEF SaveTransfer, At, JobsInv, MigrationInv, MigrationTypeOK, Working, JobType
    <2>2. /\ saved \in Record /\ saved.transferId = starting.transfer
          /\ saved.customerId = records[m].customerId
      <3> DEFINE n == [records[m] EXCEPT !.status = "running"]
      <3>1. n \in Record /\ n.customerId = records[m].customerId
        BY <1>1 DEF Record, RecordStatus
      <3>2. saved = [n EXCEPT !.transferId = starting.transfer]
        BY Zenon
      <3> HIDE DEF n, saved
      <3>3. QED
        BY <2>1, <3>1, <3>2 DEF Record
    <2>3. SaveRecord(m, saved)
      BY <1>7 DEF SaveTransfer
    <2> HIDE DEF saved
    <2>4. \A n \in Memberships : RecordMoves(n)
      BY <2>1, <2>2, <2>3, SavingMoves DEF JobsInv
    <2>5. StartsNew
      BY <1>7, <2>1, ReleaseIs DEF SaveTransfer, StartsNew
    <2>6. QED
      BY <1>3, <1>4, <2>4, <2>5 DEF Jobwise
  <1>8. QED
    BY <1>5, <1>6, <1>7 DEF StartingStep

LEMMA CheckingJobwise ==
  ASSUME JobsInv, NEW m \in Memberships, CheckingStep(m)
  PROVE  Jobwise
  <1>1. /\ MigrationInv /\ records[m] \in Record
        /\ checking \in JobType(CheckingSteps)
    BY DEF JobsInv, MigrationInv, MigrationTypeOK, CheckingSteps
  <1>2. UNCHANGED <<starting, transfers>>
    BY DEF CheckingStep, GetTransfer, GetCustomer, CreateMainAgreement, SwitchRenewalOff,
           CompleteMigration, transferVars
  <1>3. StartsNew /\ TransfersGrow
    BY <1>2 DEF StartsNew, TransfersGrow
  <1>4. CASE GetTransfer(m)
    <2>1. /\ records[m].status = "running"
          /\ records[m].retries < MaxRetries /\ records[m].reschedules < MaxReschedules
          /\ checking.step = "next"
      BY <1>1, <1>4 DEF GetTransfer, MigrationInv, Working, Counted
    <2>2. \A n \in Memberships : RecordMoves(n)
      <3>1. CASE UNCHANGED records
        BY <3>1, StayingMoves
      <3>2. CASE check_retries(m, records[m]) \/ FailRecord(m, records[m])
        <4>1. PICK saved \in Record : /\ SaveRecord(m, saved) /\ SavedAs(records[m], saved)
                                      /\ saved.customerId = records[m].customerId
                                      /\ saved.status \in {"running", "failed"}
          BY <1>1, <2>1, <3>2, RetriesSave, FailSave
        <4>2. QED
          BY <1>1, <2>1, <4>1, SavingMoves DEF SavedAs
      <3>3. QED
        BY <1>4, <3>1, <3>2 DEF GetTransfer
    <2>3. ChecksCompleted
      <3>1. CASE checking' = Pass(checking, m)
        BY <1>1, <2>1, <3>1 DEF Pass, JobType, ChecksCompleted
      <3>2. CASE /\ checking' = Pick(checking, m, "customer")
                 /\ transfers[m][records[m].transferId] = "COMPLETE"
        BY <2>1, <3>2, PickIs DEF ChecksCompleted
      <3>3. QED
        BY <1>4, <3>1, <3>2 DEF GetTransfer
    <2>4. QED
      BY <1>3, <2>2, <2>3 DEF Jobwise
  <1>5. ASSUME NEW step \in CheckingSteps \ {"next"}, At(checking, m, step)
        PROVE  /\ transfers[m][records[m].transferId] = "COMPLETE"
               /\ Known(m).customerId
    <2>1. checking.step # "next" /\ m \in checking.current
      BY <1>5 DEF At
    <2>2. Known(m).customerId
      BY <1>1 DEF Known, Record
    <2>3. QED
      BY <2>1, <2>2 DEF JobsInv, Checked
  <1>6. ASSUME NEW step \in CheckingSteps \ {"next"}, At(checking, m, step),
               \/ UNCHANGED records
               \/ check_retries(m, Known(m))
               \/ SaveRecord(m, [Known(m) EXCEPT !.status = "completed"])
        PROVE  \A n \in Memberships : RecordMoves(n)
    <2>1. CASE UNCHANGED records
      BY <2>1, StayingMoves
    <2>2. CASE check_retries(m, Known(m))
      <3>1. PICK saved \in Record : /\ SaveRecord(m, saved) /\ SavedAs(Known(m), saved)
                                    /\ saved.customerId = Known(m).customerId
                                    /\ saved.status \in {"running", "failed"}
        BY <1>1, <1>6, <2>2, CheckingAt, RetriesSave
      <3>2. QED
        BY <1>1, <1>5, <1>6, <3>1, CheckingAt, SavingMoves DEF SavedAs
    <2>3. CASE SaveRecord(m, [Known(m) EXCEPT !.status = "completed"])
      <3> DEFINE saved == [Known(m) EXCEPT !.status = "completed"]
      <3>1. /\ saved \in Record /\ saved.status = "completed"
            /\ saved.transferId = records[m].transferId
            /\ saved.customerId = Known(m).customerId
        BY <1>1, <1>6, CheckingAt DEF Record, RecordStatus
      <3>2. SaveRecord(m, saved)
        BY <2>3
      <3> HIDE DEF saved
      <3>3. QED
        BY <1>1, <1>5, <1>6, <3>1, <3>2, CheckingAt, SavingMoves
    <2>4. QED
      BY <1>6, <2>1, <2>2, <2>3
  <1>7. ASSUME NEW step \in CheckingSteps \ {"next"}, At(checking, m, step),
               \/ UNCHANGED checking
               \/ checking' = Release(checking)
               \/ \E next : checking' = [checking EXCEPT !.step = next]
        PROVE  ChecksCompleted
    <2>1. checking.step # "next"
      BY <1>7 DEF At
    <2>2. Release(checking).step = "next"
      BY <1>1, ReleaseIs DEF CheckingSteps
    <2>3. \A next : [checking EXCEPT !.step = next].current = checking.current
      BY <1>1 DEF JobType
    <2>4. QED
      BY <1>7, <2>1, <2>2, <2>3 DEF ChecksCompleted
  <1>8. /\ "customer" \in CheckingSteps \ {"next"} /\ "main" \in CheckingSteps \ {"next"}
        /\ "renewal" \in CheckingSteps \ {"next"} /\ "complete" \in CheckingSteps \ {"next"}
    BY DEF CheckingSteps
  <1>9. CASE GetCustomer(m)
    BY <1>3, <1>6, <1>7, <1>8, <1>9 DEF GetCustomer, Jobwise
  <1>10. CASE CreateMainAgreement(m)
    BY <1>3, <1>6, <1>7, <1>8, <1>10 DEF CreateMainAgreement, Jobwise
  <1>11. CASE SwitchRenewalOff(m)
    BY <1>3, <1>6, <1>7, <1>8, <1>11 DEF SwitchRenewalOff, Jobwise
  <1>12. CASE CompleteMigration(m)
    BY <1>3, <1>6, <1>7, <1>8, <1>12 DEF CompleteMigration, Jobwise
  <1>13. QED
    BY <1>4, <1>9, <1>10, <1>11, <1>12 DEF CheckingStep

LEMMA SurroundingsJobwise ==
  ASSUME JobsInv, NEW m \in Memberships,
         AddRecord(m) \/ AdobeSettlesTransfer(m) \/ AdobeExpires(m)
  PROVE  Jobwise
  <1>1. UNCHANGED <<starting, checking>>
    BY DEF AddRecord, AdobeSettlesTransfer, AdobeExpires
  <1>2. StartsNew /\ ChecksCompleted
    BY <1>1 DEF StartsNew, ChecksCompleted
  <1>3. CASE AddRecord(m)
    <2> DEFINE saved == [records[m] EXCEPT !.status = "init"]
    <2>1. records[m] \in Record
      BY DEF JobsInv, MigrationInv, MigrationTypeOK
    <2>2. /\ saved \in Record /\ saved.transferId = records[m].transferId
          /\ saved.customerId = records[m].customerId
      BY <2>1 DEF Record, RecordStatus
    <2>3. SaveRecord(m, saved) /\ records[m].status = "absent" /\ UNCHANGED transfers
      BY <1>3 DEF AddRecord, transferVars
    <2> HIDE DEF saved
    <2>4. \A n \in Memberships : RecordMoves(n)
      BY <2>2, <2>3, SavingMoves DEF JobsInv
    <2>5. QED
      BY <1>2, <2>3, <2>4 DEF Jobwise, TransfersGrow
  <1>4. CASE AdobeExpires(m)
    BY <1>2, <1>4, StayingMoves DEF AdobeExpires, airtableVars, Jobwise, TransfersGrow
  <1>5. CASE AdobeSettlesTransfer(m)
    <2>1. transfers \in [Memberships -> Seq(TransferStatus)]
      BY DEF JobsInv, MigrationInv, MigrationTypeOK
    <2>2. PICK i \in DOMAIN transfers[m], s \in {"COMPLETE", "FAILED"} :
            /\ transfers[m][i] = "OPEN"
            /\ transfers' = [transfers EXCEPT ![m][i] = s]
      BY <1>5 DEF AdobeSettlesTransfer
    <2>3. ASSUME NEW n \in Memberships, NEW j \in DOMAIN transfers[n]
          PROVE  /\ j \in DOMAIN transfers'[n]
                 /\ transfers[n][j] = "COMPLETE" => transfers'[n][j] = "COMPLETE"
      BY <2>1, <2>2, <2>3
    <2>4. UNCHANGED records
      BY <1>5 DEF AdobeSettlesTransfer, airtableVars
    <2>5. QED
      BY <1>2, <2>3, <2>4, StayingMoves DEF Jobwise, TransfersGrow
  <1>6. QED
    BY <1>3, <1>4, <1>5

LEMMA MigrationJobwise ==
  ASSUME JobsInv, MigrationNext
  PROVE  Jobwise
  <1>1. ASSUME ProcessTransfers \/ ProcessDies \/ CheckRunningTransfers \/ CheckDies
        PROVE  Jobwise
    <2>1. UNCHANGED <<records, transfers>>
      BY <1>1 DEF ProcessTransfers, ProcessDies, CheckRunningTransfers, CheckDies, airtableVars,
         transferVars
    <2>2. NoJob.step = "next" /\ [NoJob EXCEPT !.todo = ToProcess].step = "next"
          /\ [NoJob EXCEPT !.todo = ToCheck].step = "next"
      BY DEF NoJob
    <2>3. /\ UNCHANGED starting \/ starting'.step = "next"
          /\ UNCHANGED checking \/ checking'.step = "next"
      BY <1>1, <2>2 DEF ProcessTransfers, ProcessDies, CheckRunningTransfers, CheckDies
    <2>4. QED
      BY <2>1, <2>3, StayingMoves DEF Jobwise, TransfersGrow, StartsNew, ChecksCompleted
  <1>2. QED
    BY <1>1, StartingJobwise, CheckingJobwise, SurroundingsJobwise
       DEF MigrationNext, Jobs, Surroundings

LEMMA JobsKept ==
  ASSUME JobsInv, MigrationNext
  PROVE  JobsInv' /\ Jobwise
  <1>1. MigrationInv'
    BY MigrationNextInv DEF JobsInv
  <1>2. QED
    BY <1>1, MigrationJobwise, JobwiseKeeps DEF JobsInv
=============================================================================
