------------------------- MODULE TransferOrder_proofs -------------------------
(***************************************************************************)
(* What holds of a transfer order beside the migration jobs, for any       *)
(* number of memberships, lines and deployments and every error.           *)
(*                                                                         *)
(* Inv: a membership is closed only after its order was completed, and     *)
(* nothing is bought anew while a transferred subscription is active.      *)
(* PathInv, with JobsInv of the jobs: what a pass has read still holds as  *)
(* far as it goes by it, so an order is completed only when its            *)
(* deployments are ready, and no job works on a membership that an order   *)
(* has published.  TradeInv, when Adobe recognises an order it has seen:   *)
(* there is one order of each kind at most, and what they bring adds up    *)
(* to the lines.                                                           *)
(***************************************************************************)
EXTENDS TransferOrder, Migration_proofs, SumLemmas

-----------------------------------------------------------------------------
(* Inductive invariants.                                                    *)

\* Where a pass is once it has completed the order.
Closing == {"Synchronize", "SyncMigrated", "UpdateTransferStatus", "SyncTransferred"}

RecordsOK ==
    /\ DOMAIN records = Memberships
    /\ \A m \in Memberships : "status" \in DOMAIN records[m]

\* Only a pass that has completed the order gets to close the record.
ClosingInv ==
    /\ RecordsOK
    /\ SynchronizedIsDelivered
    /\ pc \in Closing => status = "Completed"
    /\ status = "Completed" => pc \in Closing \cup {Idle}

\* Before the paths of a migrated transfer branch off, and on the path that
\* buys anew.
Early == {"SetupDueDate", "SetupTransferContext", "ValidateGCMainAgreement",
          "HandleMigratedTransfer"}
BuyingAnew == {"SaveCustomerData", "CheckManualRenewalSubscriptions", "GetPreviewOrder",
               "PreviewRenewalOrders", "SubmitRenewalOrders", "SubmitNewOrder",
               "SaveNewOrder"}

\* What Adobe holds: only a transferred membership has expired subscriptions.
AdobeOK ==
    /\ transfers \in [Memberships -> Seq(TransferStatus)]
    /\ DOMAIN expired = Memberships
    /\ \A m \in Memberships : expired[m] # {} => Transferred(m)

\* A pass that may still buy has found all of the transferred subscriptions
\* expired, unless it takes an identifier for that of a NEW order.
RebuyInv ==
    /\ AdobeOK
    /\ TransferredNotRebought
    /\ pc \in Early => ctx.newOrderId = vendorId
    /\ pc \in BuyingAnew /\ ctx.newOrderId = 0 => ActiveSubscriptions(Membership) = {}

Inv == ClosingInv /\ RebuyInv

-----------------------------------------------------------------------------
(* What every step of the order does that does not close the record.        *)

\* It ends or goes on undecided, or completes the order and starts closing.
Open ==
    /\ UNCHANGED records
    /\ pc \notin Closing \cup {Idle}
    /\ \/ pc' \in Closing /\ status' = "Completed"
       \/ pc' \notin Closing /\ status' \in {status, "Failed", "Querying"}

\* It neither buys, nor starts to buy anew, nor forgets what SetupContext read.
Calm ==
    /\ UNCHANGED <<transfers, expired>>
    /\ newOrders = <<>> => newOrders' = <<>>
    /\ pc' \in Early => ctx'.newOrderId = vendorId'
    /\ pc' \in BuyingAnew /\ ctx'.newOrderId = 0 => pc \in BuyingAnew /\ ctx.newOrderId = 0

LEMMA OpenKept == ClosingInv /\ Open => ClosingInv'
  BY DEF ClosingInv, Open, RecordsOK, SynchronizedIsDelivered, Closing, Idle

LEMMA CalmKept == RebuyInv /\ Calm => RebuyInv'
  BY DEF RebuyInv, Calm, AdobeOK, TransferredNotRebought, Transferred, ActiveSubscriptions

LEMMA Kept == Inv /\ Open /\ Calm => Inv'
  BY OpenKept, CalmKept DEF Inv

-----------------------------------------------------------------------------
(* The migration jobs.                                                      *)

LEMMA MigratingKeepsRecords ==
  ASSUME RecordsOK, MigrationNext
  PROVE  /\ RecordsOK'
         /\ \A m \in Memberships :
               records'[m].status = "synchronized" => records[m].status = "synchronized"
  <1> USE DEF RecordsOK
  <1>1. CASE UNCHANGED records
    BY <1>1
  <1>2. ASSUME NEW m \in Memberships, NEW record,
               "status" \in DOMAIN record,
               record.status = "synchronized" => records[m].status = "synchronized",
               SaveRecord(m, record)
        PROVE  /\ RecordsOK'
               /\ \A n \in Memberships :
                     records'[n].status = "synchronized" => records[n].status = "synchronized"
    BY <1>2 DEF SaveRecord
  <1> DEFINE Saves(m) == \E record :
         /\ "status" \in DOMAIN record
         /\ record.status = "synchronized" => records[m].status = "synchronized"
         /\ SaveRecord(m, record)
  <1>3. ASSUME NEW m \in Memberships, NEW record, "status" \in DOMAIN record,
               record.status = records[m].status
        PROVE  /\ FailRecord(m, record) => Saves(m)
               /\ check_retries(m, record) => Saves(m)
               /\ check_reschedules(m, record) => Saves(m)
    BY <1>3 DEF FailRecord, check_retries, check_reschedules
  <1>4. ASSUME NEW m \in Memberships
        PROVE  "status" \in DOMAIN Known(m) /\ Known(m).status = records[m].status
    BY <1>4 DEF Known
  <1>5. ASSUME NEW m \in Memberships, StartingStep(m)
        PROVE  UNCHANGED records \/ Saves(m)
    <2>1. CASE PreviewTransfer(m)
      BY <2>1, <1>3 DEF PreviewTransfer
    <2>2. CASE CreateTransfer(m)
      BY <2>2, <1>3 DEF CreateTransfer
    <2>3. CASE SaveTransfer(m)
      BY <2>3 DEF SaveTransfer
    <2>4. QED
      BY <1>5, <2>1, <2>2, <2>3 DEF StartingStep
  <1>6. ASSUME NEW m \in Memberships, CheckingStep(m)
        PROVE  UNCHANGED records \/ Saves(m)
    <2>1. CASE GetTransfer(m)
      BY <2>1, <1>3 DEF GetTransfer
    <2>2. CASE GetCustomer(m)
      BY <2>2, <1>3, <1>4 DEF GetCustomer
    <2>3. CASE CreateMainAgreement(m)
      BY <2>3 DEF CreateMainAgreement
    <2>4. CASE SwitchRenewalOff(m)
      BY <2>4, <1>3, <1>4 DEF SwitchRenewalOff
    <2>5. CASE CompleteMigration(m)
      BY <2>5, <1>4 DEF CompleteMigration
    <2>6. QED
      BY <1>6, <2>1, <2>2, <2>3, <2>4, <2>5 DEF CheckingStep
  <1>7. CASE Surroundings
    <2>1. ASSUME NEW m \in Memberships, AddRecord(m)
          PROVE  Saves(m)
      BY <2>1 DEF AddRecord
    <2>2. QED
      BY <1>1, <1>2, <1>7, <2>1
         DEF Surroundings, AdobeSettlesTransfer, AdobeExpires, airtableVars
  <1>8. CASE Jobs
    BY <1>1, <1>2, <1>5, <1>6, <1>8
       DEF Jobs, ProcessTransfers, ProcessDies, CheckRunningTransfers, CheckDies, airtableVars
  <1>9. QED
    BY <1>7, <1>8 DEF MigrationNext

\* A transfer more, or one that ends, untransfers nothing.
LEMMA TriesKeep ==
  ASSUME transfers \in [Memberships -> Seq(TransferStatus)],
         NEW m \in Memberships, TryTransfer(m)
  PROVE  /\ transfers' \in [Memberships -> Seq(TransferStatus)]
         /\ \A n \in Memberships : Transferred(n) => Transferred(n)'
  <1>1. transfers' = [transfers EXCEPT ![m] = Append(@, "OPEN")]
    BY DEF TryTransfer
  <1>2. "OPEN" \in TransferStatus
    BY DEF TransferStatus
  <1>3. transfers' \in [Memberships -> Seq(TransferStatus)]
    BY <1>1, <1>2
  <1>4. ASSUME NEW n \in Memberships, NEW i \in DOMAIN transfers[n]
        PROVE  i \in DOMAIN transfers'[n] /\ transfers'[n][i] = transfers[n][i]
    BY <1>1, <1>2
  <1>5. QED
    BY <1>3, <1>4 DEF Transferred

LEMMA SettlesKeep ==
  ASSUME transfers \in [Memberships -> Seq(TransferStatus)],
         NEW m \in Memberships, AdobeSettlesTransfer(m)
  PROVE  /\ transfers' \in [Memberships -> Seq(TransferStatus)]
         /\ \A n \in Memberships : Transferred(n) => Transferred(n)'
  <1>1. PICK i \in DOMAIN transfers[m], s \in {"COMPLETE", "FAILED"} :
          /\ transfers[m][i] = "OPEN"
          /\ transfers' = [transfers EXCEPT ![m][i] = s]
    BY DEF AdobeSettlesTransfer
  <1>2. s \in TransferStatus
    BY DEF TransferStatus
  <1>3. transfers' \in [Memberships -> Seq(TransferStatus)]
    BY <1>1, <1>2
  <1>4. ASSUME NEW n \in Memberships, NEW j \in DOMAIN transfers[n],
               transfers[n][j] = "COMPLETE"
        PROVE  j \in DOMAIN transfers'[n] /\ transfers'[n][j] = "COMPLETE"
    BY <1>1, <1>2, <1>4
  <1>5. QED
    BY <1>3, <1>4 DEF Transferred

\* What is expired stays so.
LEMMA MigratingKeepsAdobe ==
  ASSUME AdobeOK, MigrationNext
  PROVE  /\ AdobeOK'
         /\ \A m \in Memberships : Transferred(m) => Transferred(m)'
         /\ \A m \in Memberships : expired[m] \subseteq expired'[m]
  <1>1. CASE UNCHANGED <<transfers, expired>>
    BY <1>1 DEF AdobeOK, Transferred
  <1>2. ASSUME NEW m \in Memberships, TryTransfer(m), UNCHANGED expired
        PROVE  /\ AdobeOK'
               /\ \A n \in Memberships : Transferred(n) => Transferred(n)'
    BY <1>2, TriesKeep DEF AdobeOK
  <1>3. ASSUME NEW m \in Memberships, AdobeSettlesTransfer(m)
        PROVE  /\ AdobeOK' /\ UNCHANGED expired
               /\ \A n \in Memberships : Transferred(n) => Transferred(n)'
    <2>1. UNCHANGED expired
      BY <1>3 DEF AdobeSettlesTransfer
    <2>2. QED
      BY <1>3, <2>1, SettlesKeep DEF AdobeOK
  <1>4. ASSUME NEW m \in Memberships, AdobeExpires(m)
        PROVE  /\ AdobeOK'
               /\ \A n \in Memberships : Transferred(n) => Transferred(n)'
               /\ \A n \in Memberships : expired[n] \subseteq expired'[n]
    <2>1. UNCHANGED transfers /\ Transferred(m)
      BY <1>4 DEF AdobeExpires
    <2>2. PICK s : expired' = [expired EXCEPT ![m] = @ \cup {s}]
      BY <1>4 DEF AdobeExpires
    <2>3. \A n \in Memberships : Transferred(n) <=> Transferred(n)'
      BY <2>1 DEF Transferred
    <2>4. QED
      BY <2>1, <2>2, <2>3 DEF AdobeOK
  <1>5. CASE Surroundings
    BY <1>1, <1>3, <1>4, <1>5 DEF Surroundings, AddRecord, transferVars
  <1>6. ASSUME NEW m \in Memberships, StartingStep(m)
        PROVE  UNCHANGED <<transfers, expired>> \/ (TryTransfer(m) /\ UNCHANGED expired)
    BY <1>6 DEF StartingStep, PreviewTransfer, CreateTransfer, SaveTransfer, transferVars
  <1>7. ASSUME NEW m \in Memberships, CheckingStep(m)
        PROVE  UNCHANGED <<transfers, expired>>
    BY <1>7 DEF CheckingStep, GetTransfer, GetCustomer, CreateMainAgreement,
       SwitchRenewalOff, CompleteMigration, transferVars
  <1>8. CASE Jobs
    BY <1>1, <1>2, <1>6, <1>7, <1>8
       DEF Jobs, ProcessTransfers, ProcessDies, CheckRunningTransfers, CheckDies, transferVars
  <1>9. QED
    BY <1>5, <1>8 DEF MigrationNext

LEMMA MigratingKept == Inv /\ Migrating => Inv'
  <1> SUFFICES ASSUME Inv, Migrating
               PROVE  Inv'
    OBVIOUS
  <1>1. MigrationNext /\ UNCHANGED <<status, pc, ctx, vendorId, newOrders>>
    BY DEF Migrating, passVars, purchaseVars
  <1>2. Membership \in Memberships
    BY TransferOrderAssumption
  <1>3. ClosingInv'
    BY <1>1, <1>2, MigratingKeepsRecords DEF Inv, ClosingInv, SynchronizedIsDelivered
  <1>4. RebuyInv'
    BY <1>1, <1>2, MigratingKeepsAdobe
       DEF Inv, RebuyInv, TransferredNotRebought, ActiveSubscriptions
  <1>5. QED
    BY <1>3, <1>4 DEF Inv

-----------------------------------------------------------------------------
(* The steps of the order.                                                  *)

LEMMA PrepareKept == Inv /\ Prepare => Inv'
  <1> SUFFICES ASSUME Inv, Prepare
               PROVE  Inv'
    OBVIOUS
  <1> USE DEF Closing, Early, BuyingAnew, Idle, Continue, Goto, Wait, EndPass,
              Decide, switch_order_to_failed, switch_order_to_query, Leave,
              passVars, purchaseVars, migrationVars, transferVars, airtableVars
  <1>1. CASE SetupContext("SetupDueDate") /\ UNCHANGED <<purchaseVars, migrationVars>>
    <2>1. Open
      BY <1>1 DEF Open, SetupContext
    <2>2. Calm
      BY <1>1 DEF Calm, SetupContext, EmptyContext
    <2>3. QED
      BY <2>1, <2>2, Kept
  <1>2. CASE SetupDueDate("SetupTransferContext") /\ UNCHANGED <<purchaseVars, migrationVars>>
    <2>1. Open
      BY <1>2 DEF Open, SetupDueDate
    <2>2. Calm
      BY <1>2 DEF Calm, SetupDueDate, Inv, RebuyInv
    <2>3. QED
      BY <2>1, <2>2, Kept
  <1>3. CASE SetupTransferContext("ValidateGCMainAgreement")
    <2>1. Open
      BY <1>3 DEF Open, SetupTransferContext
    <2>2. Calm
      BY <1>3 DEF Calm, SetupTransferContext, Inv, RebuyInv
    <2>3. QED
      BY <2>1, <2>2, Kept
  <1>4. CASE ValidateGCMainAgreement("HandleMigratedTransfer")
    <2>1. Open
      BY <1>4 DEF Open, ValidateGCMainAgreement
    <2>2. Calm
      BY <1>4 DEF Calm, ValidateGCMainAgreement, Inv, RebuyInv
    <2>3. QED
      BY <2>1, <2>2, Kept
  <1>5. CASE HandleMigratedTransfer("ValidateTransfer")
    <2>1. Open
      BY <1>5 DEF Open, HandleMigratedTransfer, ManageDeploymentItems
    <2>2. Calm
      BY <1>5 DEF Calm, HandleMigratedTransfer, ManageDeploymentItems, Inv, RebuyInv
    <2>3. QED
      BY <2>1, <2>2, Kept
  <1>6. QED
    BY <1>1, <1>2, <1>3, <1>4, <1>5 DEF Prepare

\* Closing the record changes nothing else that counts.
LEMMA CloseKept ==
  ASSUME Inv, pc \in Closing, pc' \in Closing \cup {Idle}, status' = status,
         DOMAIN records' = DOMAIN records,
         \A m \in Memberships : "status" \in DOMAIN records'[m],
         UNCHANGED <<transfers, expired, newOrders>>
  PROVE  Inv'
  <1>1. ClosingInv'
    BY DEF Inv, ClosingInv, RecordsOK, SynchronizedIsDelivered
  <1>2. pc' \notin Early \cup BuyingAnew
    BY DEF Closing, Early, BuyingAnew, Idle
  <1>3. RebuyInv'
    BY <1>2 DEF Inv, RebuyInv, AdobeOK, TransferredNotRebought, Transferred, ActiveSubscriptions
  <1>4. QED
    BY <1>1, <1>3 DEF Inv

LEMMA ClosingKept ==
  ASSUME Inv,
         \/ \E next \in {"SyncMigrated", Idle} :
              UpdateTransferStatus("Synchronize", next)
              \/ UpdateTransferStatus("UpdateTransferStatus", next)
         \/ SyncMainAgreement("SyncMigrated", Idle)
         \/ SyncMainAgreement("SyncTransferred", Idle)
  PROVE  Inv'
  <1>1. pc \in Closing /\ pc' \in Closing \cup {Idle} /\ status' = status
    BY DEF UpdateTransferStatus, SyncMainAgreement, Closing, Leave, Wait, EndPass, Continue,
           Goto, Idle
  <1>2. UNCHANGED <<transfers, expired, newOrders>>
    BY DEF UpdateTransferStatus, SyncMainAgreement, purchaseVars, transferVars
  <1>3. DOMAIN records' = DOMAIN records
        /\ \A m \in Memberships : "status" \in DOMAIN records'[m]
    BY DEF UpdateTransferStatus, SyncMainAgreement, Inv, ClosingInv, RecordsOK
  <1>4. QED
    BY <1>1, <1>2, <1>3, CloseKept

\* Steps both ways of publishing share.
LEMMA CheckDeploymentsKept ==
  ASSUME Inv,
         CheckDeployments("CheckDeployments", "SelectFulfilment")
         \/ CheckDeployments("ValidateAgreementDeployments", "ProcessTransferOrder")
  PROVE  Inv'
  <1> USE DEF CheckDeployments, Closing, Early, BuyingAnew, Idle, Continue, Goto, Wait,
              EndPass, Leave, passVars, purchaseVars, transferVars
  <1>1. Open
    BY DEF Open
  <1>2. Calm
    BY DEF Calm
  <1>3. QED
    BY <1>1, <1>2, Kept

LEMMA AddSubscriptionsKept ==
  ASSUME Inv,
         AddSubscriptions("AddSubscriptions", "CompleteMigrated")
         \/ AddSubscriptions("CreateTransferSubscriptions", "CompleteTransferOrder")
  PROVE  Inv'
  <1> USE DEF AddSubscriptions, AddSubscription, Closing, Early, BuyingAnew, Idle, Continue,
              Goto, Wait, EndPass, Leave, purchaseVars, transferVars, airtableVars,
              migrationVars
  <1>1. Open
    BY DEF Open
  <1>2. Calm
    BY DEF Calm
  <1>3. QED
    BY <1>1, <1>2, Kept

LEMMA CompleteKept ==
  ASSUME Inv,
         Complete("CompleteMigrated", "Synchronize")
         \/ Complete("CompletePurchase", "UpdateTransferStatus")
         \/ Complete("CompleteTransferOrder", "SyncTransferred")
  PROVE  Inv'
  <1> USE DEF Complete, Closing, Early, BuyingAnew, Idle, Goto, purchaseVars, migrationVars,
              transferVars, airtableVars
  <1>1. Open
    BY DEF Open
  <1>2. Calm
    BY DEF Calm
  <1>3. QED
    BY <1>1, <1>2, Kept

\* Only here does a pass start to buy anew without an identifier.
LEMMA SelectFulfilmentKept == Inv /\ SelectFulfilment => Inv'
  <1> SUFFICES ASSUME Inv, SelectFulfilment
               PROVE  Inv'
    OBVIOUS
  <1> USE DEF SelectFulfilment, Continue, Goto, Wait, EndPass, Leave, Decide,
              switch_order_to_failed, purchaseVars, transferVars
  <1>1. Open
    BY DEF Open, Closing, Idle
  <1>2. CASE ActiveSubscriptions(Membership) # {}
    <2>1. Calm
      BY <1>2 DEF Calm, Early, BuyingAnew, Idle
    <2>2. QED
      BY <1>1, <2>1, Kept
  <1>3. CASE ActiveSubscriptions(Membership) = {}
    <2>1. UNCHANGED <<transfers, expired, newOrders>> /\ pc' \notin Early
      BY DEF Early, Idle
    <2>2. RebuyInv'
      BY <1>3, <2>1 DEF Inv, RebuyInv, AdobeOK, TransferredNotRebought, Transferred,
         ActiveSubscriptions
    <2>3. QED
      BY <1>1, <2>2, OpenKept DEF Inv
  <1>4. QED
    BY <1>2, <1>3

LEMMA MigratedKept == Inv /\ Migrated => Inv'
  BY CheckDeploymentsKept, SelectFulfilmentKept, AddSubscriptionsKept, CompleteKept, ClosingKept
     DEF Migrated

\* A late renewal changes neither the transfer nor the NEW orders.
LEMMA RenewingKept ==
  ASSUME Inv, CheckManualRenewalSubscriptions("GetPreviewOrder") \/ Renewing
  PROVE  Inv'
  <1> USE DEF Closing, Early, BuyingAnew, Idle, Continue, Goto, Wait, EndPass, Decide,
              switch_order_to_failed, Forgets, passVars, lateVars, migrationVars,
              transferVars, airtableVars
  <1>1. CASE CheckManualRenewalSubscriptions("GetPreviewOrder")
    <2> USE <1>1 DEF CheckManualRenewalSubscriptions, RestoreFromStored, ComputeFromAdobe
    <2>1. Open
      BY DEF Open
    <2>2. Calm
      BY DEF Calm
    <2>3. QED
      BY <2>1, <2>2, Kept
  <1>2. CASE Renewing
    <2> USE <1>2 DEF Renewing, PreviewRenewalOrders, SubmitRenewalOrders, FindRenewalOrder,
                     PlaceRenewalOrder, FollowRenewalOrder
    <2>1. Open
      BY DEF Open
    <2>2. Calm
      BY DEF Calm
    <2>3. QED
      BY <2>1, <2>2, Kept
  <1>3. QED
    BY <1>1, <1>2

\* POST .../orders: the customer of the membership has nothing active.
LEMMA PlaceKept ==
  ASSUME Inv, PlaceNewOrder, UNCHANGED <<records, transfers, expired>>
  PROVE  Inv'
  <1>1. ActiveSubscriptions(Membership) = {}
    BY DEF PlaceNewOrder, Inv, RebuyInv, BuyingAnew
  <1>2. PICK line : line \in Lines
    BY DEF PlaceNewOrder, PurchaseLines, NewLines, UpsizeLines, DownsizeLines
  <1>3. Subscriptions # {}
    BY <1>2, TransferOrderAssumption
  <1>4. Transferred(Membership)
    BY <1>1, <1>3, TransferOrderAssumption DEF ActiveSubscriptions, Inv, RebuyInv, AdobeOK
  <1>5. pc' = "SaveNewOrder" /\ status' = status /\ pc = "SubmitNewOrder"
    BY DEF PlaceNewOrder, Goto
  <1>6. ClosingInv'
    BY <1>5, OpenKept DEF Inv, Open, Closing, Idle
  <1>7. RebuyInv'
    BY <1>1, <1>4, <1>5 DEF Inv, RebuyInv, AdobeOK, TransferredNotRebought, Transferred,
       ActiveSubscriptions, Early
  <1>8. QED
    BY <1>6, <1>7 DEF Inv

LEMMA BuyingKept == Inv /\ Buying => Inv'
  <1> SUFFICES ASSUME Inv, Buying
               PROVE  Inv'
    OBVIOUS
  <1> USE DEF Closing, Early, BuyingAnew, Idle, Continue, Goto, Wait, EndPass, Decide,
              switch_order_to_failed, Forgets
  <1>1. UNCHANGED <<records, transfers, expired>>
    BY DEF Buying, migrationVars, airtableVars, transferVars
  <1>2. CASE GetRestPreview("PreviewRenewalOrders")
    <2>1. Open
      BY <1>1, <1>2 DEF Open, GetRestPreview
    <2>2. Calm
      BY <1>1, <1>2 DEF Calm, GetRestPreview
    <2>3. QED
      BY <2>1, <2>2, Kept
  <1>3. CASE FindTransfer
    <2>1. Open
      BY <1>1, <1>3 DEF Open, FindTransfer
    <2>2. Calm
      BY <1>1, <1>3 DEF Calm, FindTransfer
    <2>3. QED
      BY <2>1, <2>2, Kept
  <1>4. CASE SubmitRestOrder("CreateOrUpdateAssets")
    <2>1. CASE PlaceNewOrder
      BY <1>1, <2>1, PlaceKept
    <2>2. CASE ~PlaceNewOrder
      <3> USE <1>1, <1>4, <2>2 DEF SubmitRestOrder, SubmitNewOrder, SkipNewOrder,
                                   SaveNewOrder, FetchNewOrder, FollowOrder
      <3>1. Open
        BY DEF Open
      <3>2. Calm
        BY DEF Calm
      <3>3. QED
        BY <3>1, <3>2, Kept
    <2>3. QED
      BY <2>1, <2>2
  <1>5. QED
    BY <1>2, <1>3, <1>4 DEF Buying

LEMMA PublishAnewKept ==
  ASSUME Inv,
         \/ CreateOrUpdateAssets("CreateOrUpdateSubscriptions")
         \/ CreateOrUpdateSubscriptions("SyncGCMainAgreement")
         \/ SyncMainAgreement("SyncGCMainAgreement", "CompletePurchase")
  PROVE  Inv'
  <1> USE DEF CreateOrUpdateAssets, CreateOrUpdateSubscriptions, SyncMainAgreement, Closing,
              Early, BuyingAnew, Idle, Continue, Goto, Wait, EndPass, Leave, Forgets,
              purchaseVars, migrationVars, transferVars, airtableVars
  <1>1. Open
    BY DEF Open
  <1>2. Calm
    BY DEF Calm
  <1>3. QED
    BY <1>1, <1>2, Kept

LEMMA SaveCustomerKept ==
  ASSUME Inv, SaveCustomerData("CheckManualRenewalSubscriptions")
  PROVE  Inv'
  <1> USE DEF SaveCustomerData, Goto, Closing, Early, BuyingAnew, Idle, purchaseVars,
              migrationVars, transferVars, airtableVars
  <1>1. Open
    BY DEF Open
  <1>2. Calm
    BY DEF Calm
  <1>3. QED
    BY <1>1, <1>2, Kept

LEMMA BuyAnewKept == Inv /\ BuyAnew => Inv'
  BY SaveCustomerKept, RenewingKept, BuyingKept, PublishAnewKept, CompleteKept, ClosingKept
     DEF BuyAnew

LEMMA OwnTransferKept ==
  ASSUME Inv,
         \/ ValidateTransfer("CheckAdobeTransferOrder")
         \/ SaveTransferOrder("CheckAdobeTransferOrder")
         \/ CheckAdobeTransferOrder("ValidateDeploymentItems")
         \/ ValidateDeploymentItems("ValidateAgreementDeployments")
         \/ ProcessTransferOrder("CreateTransferSubscriptions")
  PROVE  Inv'
  <1> USE DEF ValidateTransfer, SaveTransferOrder, CheckAdobeTransferOrder,
              ValidateDeploymentItems, ManageDeploymentItems, ProcessTransferOrder, Closing,
              Early, BuyingAnew, Idle, Continue, Goto, Wait, EndPass, Leave, Decide,
              switch_order_to_failed, switch_order_to_query, purchaseVars, migrationVars,
              transferVars, airtableVars
  <1>1. Open
    BY DEF Open
  <1>2. Calm
    BY DEF Calm
  <1>3. QED
    BY <1>1, <1>2, Kept

LEMMA SubmitTransferKept == Inv /\ SubmitTransferOrder => Inv'
  <1> SUFFICES ASSUME Inv, SubmitTransferOrder
               PROVE  Inv'
    OBVIOUS
  <1>1. Open
    BY DEF SubmitTransferOrder, Open, Closing, Idle, Goto, Leave, Decide, EndPass,
           switch_order_to_failed, airtableVars
  <1>2. ClosingInv'
    BY <1>1, OpenKept DEF Inv
  <1>3. UNCHANGED <<expired, newOrders>> /\ pc' \notin Early \cup BuyingAnew
    BY DEF SubmitTransferOrder, Goto, Leave, Decide, EndPass, switch_order_to_failed,
           purchaseVars, Early, BuyingAnew, Idle
  <1>4. /\ transfers' \in [Memberships -> Seq(TransferStatus)]
        /\ \A n \in Memberships : Transferred(n) => Transferred(n)'
    <2>1. CASE TryTransfer(Membership)
      BY <2>1, TriesKeep, TransferOrderAssumption DEF Inv, RebuyInv, AdobeOK
    <2>2. CASE UNCHANGED transfers
      BY <2>2 DEF Inv, RebuyInv, AdobeOK, Transferred
    <2>3. QED
      BY <2>1, <2>2 DEF SubmitTransferOrder
  <1>5. RebuyInv'
    BY <1>3, <1>4, TransferOrderAssumption
       DEF Inv, RebuyInv, AdobeOK, TransferredNotRebought, ActiveSubscriptions
  <1>6. QED
    BY <1>2, <1>5 DEF Inv

LEMMA TransferKept == Inv /\ Transfer => Inv'
  BY OwnTransferKept, SubmitTransferKept, CheckDeploymentsKept, AddSubscriptionsKept,
     CompleteKept, ClosingKept
     DEF Transfer

-----------------------------------------------------------------------------
(* Everything else, and the theorems.                                       *)

LEMMA PlatformKept == Inv /\ Platform => Inv'
  <1> SUFFICES ASSUME Inv, Platform
               PROVE  Inv'
    OBVIOUS
  <1>1. UNCHANGED <<records, transfers, expired, newOrders>>
    BY DEF Platform, purchaseVars, migrationVars, airtableVars, transferVars
  <1>2. \/ status = "Processing" /\ pc' = "SetupContext" /\ status' = status
        \/ pc' = Idle /\ status' = status
        \/ status = "Querying" /\ status' = "Processing" /\ UNCHANGED <<pc, ctx, vendorId>>
        \/ UNCHANGED <<status, pc, ctx, vendorId>>
    BY DEF Platform, Dispatch, Goto, Leave, Abort, Wait, EndPass, Resume, NextDay
  <1>3. ClosingInv'
    BY <1>1, <1>2 DEF Inv, ClosingInv, RecordsOK, SynchronizedIsDelivered, Closing, Idle
  <1>4. RebuyInv'
    BY <1>1, <1>2 DEF Inv, RebuyInv, AdobeOK, TransferredNotRebought, Transferred,
       ActiveSubscriptions, Early, BuyingAnew, Idle
  <1>5. QED
    BY <1>3, <1>4 DEF Inv

LEMMA ElsewhereKept == Inv /\ Elsewhere => Inv'
  <1> SUFFICES ASSUME Inv, Elsewhere
               PROVE  Inv'
    OBVIOUS
  <1>1. UNCHANGED <<passVars, migrationVars>> /\ (newOrders = <<>> => newOrders' = <<>>)
    BY DEF Elsewhere, AdobeAddsDeployment, DeploymentSettled, AdobeSettlesNewOrder,
           AdobeSettlesLateRenewal, purchaseVars, passVars, migrationVars
  <1>2. QED
    BY <1>1 DEF passVars, migrationVars, airtableVars, transferVars, Inv, ClosingInv,
       RecordsOK, SynchronizedIsDelivered, RebuyInv, AdobeOK, TransferredNotRebought,
       Transferred, ActiveSubscriptions

LEMMA InitInv == Init => Inv
  <1> SUFFICES ASSUME Init
               PROVE  Inv
    OBVIOUS
  <1>1. ClosingInv
    BY TransferOrderAssumption
       DEF Init, PassInit, MigrationInit, NoRecord, ClosingInv, RecordsOK,
           SynchronizedIsDelivered, Closing, Idle
  <1>2. RebuyInv
    BY DEF Init, PassInit, MigrationInit, NewOrderInit, RebuyInv, AdobeOK,
           TransferredNotRebought, Early, BuyingAnew, Idle
  <1>3. QED
    BY <1>1, <1>2 DEF Inv

LEMMA InvKept == Inv /\ [Next]_vars => Inv'
  <1> SUFFICES ASSUME Inv, [Next]_vars
               PROVE  Inv'
    OBVIOUS
  <1>1. CASE UNCHANGED vars
    BY <1>1 DEF vars, passVars, purchaseVars, migrationVars, airtableVars, transferVars, Inv,
       ClosingInv, RecordsOK, SynchronizedIsDelivered, RebuyInv, AdobeOK,
       TransferredNotRebought, Transferred, ActiveSubscriptions
  <1>2. CASE Next
    BY <1>2, PlatformKept, MigratingKept, ElsewhereKept, PrepareKept, MigratedKept,
       BuyAnewKept, TransferKept
       DEF Next, Step
  <1>3. QED
    BY <1>1, <1>2

LEMMA InvHolds == Spec => []Inv
  BY InitInv, InvKept, PTL DEF Spec

\* A membership is closed in Airtable only after its order was completed,
\* wherever passes and jobs are cut off.
THEOREM SynchronizedIsDeliveredCorrect == Spec => []SynchronizedIsDelivered
  <1>1. Inv => SynchronizedIsDelivered
    BY DEF Inv, ClosingInv
  <1>2. QED
    BY <1>1, InvHolds, PTL

\* Nothing is bought anew for a membership while one of its transferred
\* subscriptions is active, nor before Adobe has transferred it.
THEOREM TransferredNotReboughtCorrect == Spec => []TransferredNotRebought
  <1>1. Inv => TransferredNotRebought
    BY DEF Inv, RebuyInv
  <1>2. QED
    BY <1>1, InvHolds, PTL

-----------------------------------------------------------------------------
(* The membership of the order.                                             *)

\* Its record has the customer, and no job works on it any more.
Final == records[Membership].customerId /\ records[Membership].status \in Ended

\* A transfer its record neither names nor is about to name: the order's own.
Own(i) ==
    /\ i \in DOMAIN transfers[Membership]
    /\ i # records[Membership].transferId
    /\ ~(starting.step = "save" /\ Membership \in starting.current /\ starting.transfer = i)
Completed(i) == transfers[Membership][i] = "COMPLETE"
OwnTransfer(id) == \E i : Own(i) /\ id = TransferId(i)
OwnCompleted(id) == \E i : Own(i) /\ Completed(i) /\ id = TransferId(i)
OwnDone == \E i : Own(i) /\ Completed(i)

\* No job switches off the renewal of its subscriptions any more.
LeftAlone == records[Membership].status \in Ended \/ OwnDone

Steady ==
    /\ records[Membership].customerId => records'[Membership].customerId
    /\ records[Membership].status \in Ended => records'[Membership].status \in Ended
    /\ \A i : Own(i) => Own(i)'
    /\ \A i : Own(i) /\ Completed(i) => Completed(i)'
    /\ Transferred(Membership) => Transferred(Membership)'

LEMMA SteadyAside == UNCHANGED <<records, transfers, starting>> => Steady
  BY DEF Steady, Own, Completed, Transferred

LEMMA SteadyJobs ==
  ASSUME JobsInv, Jobwise
  PROVE  Steady
  <1>1. Membership \in Memberships
    BY TransferOrderAssumption
  <1>2. RecordMoves(Membership) /\ TransfersGrow /\ StartsNew
    BY <1>1 DEF Jobwise
  <1>3. /\ records[Membership].customerId => records'[Membership].customerId
        /\ records[Membership].status \in Ended => records'[Membership].status \in Ended
    BY <1>2 DEF RecordMoves, Ended
  <1>4. ASSUME NEW i, Own(i)
        PROVE  Own(i)'
    <2>1. i \in DOMAIN transfers'[Membership]
      BY <1>1, <1>2, <1>4 DEF Own, TransfersGrow
    <2>2. i # records'[Membership].transferId
      BY <1>2, <1>4 DEF Own, RecordMoves
    <2>3. ~(starting'.step = "save" /\ Membership \in starting'.current /\ starting'.transfer = i)
      BY <1>2, <1>4 DEF Own, StartsNew
    <2>4. QED
      BY <2>1, <2>2, <2>3 DEF Own
  <1>5. ASSUME NEW i, Own(i), Completed(i)
        PROVE  Completed(i)'
    BY <1>1, <1>2, <1>5 DEF Own, Completed, TransfersGrow
  <1>6. Transferred(Membership) => Transferred(Membership)'
    BY <1>1, <1>2 DEF Transferred, TransfersGrow
  <1>7. QED
    BY <1>3, <1>4, <1>5, <1>6 DEF Steady

\* The order's own completed transfer rules out another one.
LEMMA OwnExcludes ==
  ASSUME JobsInv, OwnDone
  PROVE  /\ ~records[Membership].customerId
         /\ ~(checking.step # "next" /\ Membership \in checking.current)
  <1>1. PICK i : Own(i) /\ Completed(i)
    BY DEF OwnDone
  <1>2. Membership \in Memberships
    BY TransferOrderAssumption
  <1> DEFINE named == records[Membership].transferId
  <1>3. ~(named \in DOMAIN transfers[Membership] /\ transfers[Membership][named] = "COMPLETE")
    BY <1>1, <1>2 DEF Own, Completed, JobsInv, MigrationInv, OneTransfer
  <1>4. ~records[Membership].customerId
    BY <1>2, <1>3 DEF JobsInv, CustomersKnown
  <1>5. ASSUME checking.step # "next", Membership \in checking.current
        PROVE  FALSE
    <2>1. records[Membership].status = "running"
      BY <1>5 DEF JobsInv, MigrationInv, Working
    <2>2. named \in DOMAIN transfers[Membership]
      BY <1>2, <2>1 DEF JobsInv, MigrationInv, Recorded
    <2>3. transfers[Membership][named] = "COMPLETE"
      BY <1>5 DEF JobsInv, Checked
    <2>4. QED
      BY <1>3, <2>2, <2>3
  <1>6. QED
    BY <1>4, <1>5

LEMMA NobodySwitchesOff ==
  ASSUME JobsInv, LeftAlone
  PROVE  ~(checking.step # "next" /\ Membership \in checking.current)
  <1>1. CASE records[Membership].status \in Ended
    BY <1>1 DEF JobsInv, MigrationInv, Working, Ended
  <1>2. CASE OwnDone
    BY <1>2, OwnExcludes
  <1>3. QED
    BY <1>1, <1>2 DEF LeftAlone

-----------------------------------------------------------------------------
(* What the order does to what the jobs rely on.                            *)

LEMMA JobsAside ==
  ASSUME JobsInv, UNCHANGED <<records, transferVars, starting, checking>>,
         main' \in [Memberships -> MainAgreement]
  PROVE  JobsInv'
  BY DEF JobsInv, MigrationInv, MigrationTypeOK, Counted, Working, Recorded, OneTransfer,
     Followed, Off, Transferred, ActiveSubscriptions, transferVars, CustomersKnown, Checked,
     TransfersNamed

LEMMA JobsRenewed ==
  ASSUME JobsInv, LeftAlone, NEW s \in Subscriptions,
         renewing' = [renewing EXCEPT ![Membership] = @ \cup {s}],
         UNCHANGED <<airtableVars, transfers, expired, starting, checking>>
  PROVE  JobsInv'
  <1>1. ~(checking.step # "next" /\ Membership \in checking.current)
    BY NobodySwitchesOff
  <1>2. Off'
    BY <1>1 DEF JobsInv, MigrationInv, MigrationTypeOK, Off, ActiveSubscriptions, JobType
  <1>3. MigrationTypeOK'
    BY DEF JobsInv, MigrationInv, MigrationTypeOK, airtableVars
  <1>4. QED
    BY <1>2, <1>3 DEF JobsInv, MigrationInv, Counted, Working, Recorded, OneTransfer, Followed,
       Transferred, airtableVars, CustomersKnown, Checked, TransfersNamed

LEMMA JobsClosed ==
  ASSUME JobsInv, Final,
         records' = [records EXCEPT ![Membership].status = "synchronized"],
         UNCHANGED <<main, transferVars, starting, checking>>
  PROVE  JobsInv' /\ Steady
  <1>1. Membership \in Memberships /\ records[Membership] \in Record
    BY TransferOrderAssumption DEF JobsInv, MigrationInv, MigrationTypeOK
  <1> DEFINE saved == [records[Membership] EXCEPT !.status = "synchronized"]
  <1>2. /\ saved \in Record /\ saved.status = "synchronized"
        /\ saved.transferId = records[Membership].transferId
        /\ saved.customerId = records[Membership].customerId
    BY <1>1 DEF Record, RecordStatus
  <1> HIDE DEF saved
  <1>3. /\ records'[Membership] = saved /\ DOMAIN records' = Memberships
        /\ \A m \in Memberships \ {Membership} : records'[m] = records[m]
        /\ records' \in [Memberships -> Record]
    BY <1>1, <1>2 DEF saved, JobsInv, MigrationInv, MigrationTypeOK
  <1>4. /\ Membership \notin starting.todo \cup starting.current
        /\ Membership \notin checking.todo \cup checking.current
    BY DEF Final, Ended, JobsInv, MigrationInv, Working
  <1>5. /\ starting.todo \cup starting.current \subseteq Memberships
        /\ checking.todo \cup checking.current \subseteq Memberships
    BY DEF JobsInv, MigrationInv, MigrationTypeOK, JobType
  <1>6. MigrationTypeOK'
    BY <1>3 DEF JobsInv, MigrationInv, MigrationTypeOK, transferVars
  <1>7. Counted' /\ Working'
    BY <1>2, <1>3, <1>4, <1>5 DEF JobsInv, MigrationInv, Counted, Working
  <1>8. Recorded' /\ OneTransfer' /\ Followed' /\ Off'
    BY <1>2, <1>3, <1>4, <1>5 DEF JobsInv, MigrationInv, Recorded, OneTransfer, Followed, Off,
       Transferred, ActiveSubscriptions, transferVars
  <1>9. CustomersKnown' /\ Checked' /\ TransfersNamed'
    BY <1>2, <1>3, <1>4, <1>5 DEF JobsInv, CustomersKnown, Checked, TransfersNamed, transferVars,
       Ended
  <1>10. Steady
    BY <1>2, <1>3 DEF Steady, Own, Completed, Transferred, transferVars, Ended
  <1>11. QED
    BY <1>6, <1>7, <1>8, <1>9, <1>10 DEF JobsInv, MigrationInv

LEMMA JobsTried ==
  ASSUME JobsInv, TryTransfer(Membership),
         UNCHANGED <<airtableVars, renewing, expired, starting, checking>>
  PROVE  /\ JobsInv' /\ Steady
         /\ \E i : i = Len(transfers[Membership]) + 1 /\ Own(i)'
  <1>1. Membership \in Memberships
    BY TransferOrderAssumption
  <1>2. MigrationInv /\ transfers \in [Memberships -> Seq(TransferStatus)]
    BY DEF JobsInv, MigrationInv, MigrationTypeOK
  <1>3. TransfersGrow
    BY <1>1, <1>2, TriesGrow
  <1>0. PICK new : new = Len(transfers[Membership]) + 1
    OBVIOUS
  <1>4. new \notin DOMAIN transfers[Membership] /\ new # 0
    <2>1. transfers[Membership] \in Seq(TransferStatus)
      BY <1>1, <1>2
    <2>2. QED
      BY <1>0, <2>1
  <1>5. new \in DOMAIN transfers'[Membership]
    BY <1>0, <1>1, <1>2, TriesOne
  <1>6. MigrationInv'
    <2>1. MigrationTypeOK' /\ OneTransfer'
      BY <1>1, <1>2, TriesOne DEF MigrationInv, MigrationTypeOK, airtableVars
    <2>2. Counted' /\ Working'
      BY <1>2 DEF MigrationInv, Counted, Working, airtableVars
    <2>3. Recorded'
      BY <1>2, <1>3 DEF MigrationInv, MigrationTypeOK, JobType, Recorded, TransfersGrow,
         airtableVars
    <2>4. Followed' /\ Off'
      BY <1>1, <1>2, TriesOne DEF MigrationInv, MigrationTypeOK, JobType, Followed, Off,
         ActiveSubscriptions
    <2>5. QED
      BY <2>1, <2>2, <2>3, <2>4 DEF MigrationInv
  <1>7. CustomersKnown' /\ TransfersNamed'
    BY <1>3 DEF JobsInv, CustomersKnown, TransfersNamed, TransfersGrow, airtableVars
  <1>8. Checked'
    <2> SUFFICES ASSUME checking.step # "next", NEW m \in checking.current
                 PROVE  transfers'[m][records[m].transferId] = "COMPLETE"
      BY DEF Checked, airtableVars
    <2>1. m \in Memberships /\ records[m].transferId \in DOMAIN transfers[m]
      BY DEF JobsInv, MigrationInv, Working, MigrationTypeOK, JobType, Recorded
    <2>2. QED
      BY <1>3, <2>1 DEF JobsInv, Checked, TransfersGrow
  <1>9. Steady
    BY <1>1, <1>3 DEF Steady, Own, Completed, Transferred, TransfersGrow, airtableVars
  <1>10. Own(new)'
    <2>1. new # records[Membership].transferId
      BY <1>1, <1>4 DEF JobsInv, TransfersNamed
    <2>2. starting.step = "save" /\ Membership \in starting.current => starting.transfer # new
      BY <1>4 DEF JobsInv, MigrationInv, Recorded
    <2>3. QED
      BY <1>5, <2>1, <2>2 DEF Own, airtableVars
  <1>11. QED
    BY <1>0, <1>6, <1>7, <1>8, <1>9, <1>10 DEF JobsInv

-----------------------------------------------------------------------------
(* What a pass knows on its way.                                            *)

\* Where a pass is on the paths of a migrated transfer, on that of its own
\* transfer once it is completed, and before and after the deployments were
\* checked.
MigratedPath == {"CheckDeployments", "SelectFulfilment", "AddSubscriptions",
                 "CompleteMigrated", "Synchronize", "SyncMigrated"}
BuyPath == {"SaveCustomerData", "CheckManualRenewalSubscriptions", "GetPreviewOrder",
            "PreviewRenewalOrders", "SubmitRenewalOrders", "SubmitNewOrder", "SaveNewOrder",
            "CreateOrUpdateAssets", "CreateOrUpdateSubscriptions", "SyncGCMainAgreement",
            "CompletePurchase", "UpdateTransferStatus"}
TransferredPath == {"ValidateDeploymentItems", "ValidateAgreementDeployments",
                    "ProcessTransferOrder", "CreateTransferSubscriptions",
                    "CompleteTransferOrder", "SyncTransferred"}
BeforeCheck == {"HandleMigratedTransfer", "CheckDeployments", "ValidateTransfer",
                "SubmitTransferOrder", "SaveTransferOrder", "CheckAdobeTransferOrder",
                "ValidateDeploymentItems", "ValidateAgreementDeployments"}
Publishing == {"SelectFulfilment", "AddSubscriptions", "CompleteMigrated"}
BuyingOn == BuyPath \ {"UpdateTransferStatus"}
OwnPublishing == {"ProcessTransferOrder", "CreateTransferSubscriptions",
                  "CompleteTransferOrder"}
Unread == {Idle, "SetupContext", "SetupDueDate", "SetupTransferContext"}

SeenType ==
    [record      : Record,
     main        : MainAgreement,
     deployments : [Deployments -> DeploymentStatus],
     listed      : SUBSET Deployments,
     items       : SUBSET (Subscriptions \cup Lines),
     previewed   : BOOLEAN]

TypedInv ==
    /\ seen \in SeenType
    /\ {"newOrderId", "newOrder", "preview"} \subseteq DOMAIN ctx
    /\ deployments \in [Deployments -> DeploymentStatus]
    /\ customerDeployments \subseteq Deployments

\* What the pass has read still holds as far as it goes by it.
SeenInv ==
    /\ seen.record.customerId =>
          /\ records[Membership].customerId
          /\ seen.record.status \in Ended \cup {"running"}
          /\ seen.record.status # "running" => Final
    /\ seen.main.status # "absent" => main[Membership].status # "absent"
    /\ seen.listed \subseteq customerDeployments
    /\ pc \notin Unread => \A d \in Deployments :
          /\ seen.deployments[d] = "absent" <=> deployments[d] = "absent"
          /\ seen.deployments[d] = "created" => deployments[d] = "created"

\* An identifier on the order is that of an own transfer, unless the jobs have
\* transferred the membership.
VendorInv ==
    /\ vendorId # 0 => records[Membership].customerId \/ OwnTransfer(vendorId)
    /\ /\ pc \in {"ValidateGCMainAgreement", "HandleMigratedTransfer"}
       /\ seen.record.status = "absent" /\ vendorId # 0
       => OwnTransfer(vendorId)

RouteInv ==
    /\ pc \in Early => ctx.newOrderId = vendorId
    /\ pc \in MigratedPath \cup BuyPath => Final
    /\ pc = "CheckDeployments" => vendorId = 0
    /\ pc = "ValidateTransfer" =>
          /\ ctx.newOrderId = vendorId
          /\ vendorId # 0 => OwnTransfer(ctx.newOrderId)
    /\ pc \in {"SaveTransferOrder", "CheckAdobeTransferOrder"} => OwnTransfer(ctx.newOrderId)
    /\ pc \in TransferredPath => OwnCompleted(ctx.newOrderId)

\* Nothing is published while a job may still work on the membership.
PublishInv == published # {} => LeftAlone

Recordeds == {d \in Deployments : deployments[d] # "absent"}
Unsettled == {d \in Deployments : deployments[d] \notin {"absent", "created"}}

\* The table of deployments follows Adobe and the main agreement; while one is
\* unsettled, the order has not been given an identifier.
DeploymentsInv ==
    /\ Membership \notin GlobalCustomers => customerDeployments = {}
    /\ Recordeds \subseteq customerDeployments
    /\ Recordeds # {} => main[Membership].status # "absent" /\ Transferred(Membership)
    /\ Unsettled # {} => vendorId = 0 \/ OwnDone

\* What the pass was shown is all that is recorded, and it is synchronized.
WaitInv ==
    /\ pc = "ValidateGCMainAgreement" =>
          /\ seen.listed = {}
          /\ seen.main.status = "absent" => Recordeds = {}
    /\ pc \in BeforeCheck => Recordeds \subseteq seen.listed /\ Synchronized(seen.listed)
    /\ pc = "SaveTransferOrder" => Recordeds = {}

ReadyInv ==
    /\ pc \in Publishing \cup BuyingOn \cup OwnPublishing => Unsettled = {}
    /\ pc \in Publishing \cup OwnPublishing => \A d \in seen.listed : deployments[d] = "created"

PathInv ==
    /\ TypedInv /\ SeenInv /\ VendorInv /\ RouteInv
    /\ PublishInv /\ DeploymentsInv /\ WaitInv /\ ReadyInv

MainStays == main[Membership].status # "absent" => main'[Membership].status # "absent"

-----------------------------------------------------------------------------
(* The shapes of its steps.                                                 *)

LEMMA NothingSeenTyped == NothingSeen \in SeenType
  BY MigrationAssumption
  DEF NothingSeen, SeenType, NoRecord, Record, RecordStatus, MainAgreement, DeploymentStatus

LEMMA EmptyContextTyped == {"newOrderId", "newOrder", "preview"} \subseteq DOMAIN EmptyContext
  BY DEF EmptyContext

\* What holds of the membership and its own transfers goes on to hold.
LEMMA SteadyMeans ==
  ASSUME Steady
  PROVE  /\ Final => Final'
         /\ LeftAlone => LeftAlone'
         /\ OwnDone => OwnDone'
         /\ \A id : OwnTransfer(id) => \E i : Own(i)' /\ id = TransferId(i)
         /\ \A id : OwnCompleted(id) => \E i : Own(i)' /\ Completed(i)' /\ id = TransferId(i)
  BY DEF Steady, Final, LeftAlone, OwnDone, OwnTransfer, OwnCompleted

\* A pass that ends.
LEMMA EndsKept ==
  ASSUME PathInv, Steady, MainStays, pc' = Idle, seen' = NothingSeen, ctx' = EmptyContext,
         UNCHANGED <<deployments, customerDeployments, published>>,
         vendorId' = vendorId \/ (Final /\ Unsettled = {})
  PROVE  PathInv'
  <1> USE DEF PathInv
  <1>1. TypedInv'
    BY NothingSeenTyped, EmptyContextTyped DEF TypedInv
  <1>2. SeenInv'
    BY DEF SeenInv, NothingSeen, NoRecord, Unread
  <1>3. VendorInv'
    <2>1. vendorId' # 0 => records'[Membership].customerId \/ OwnTransfer(vendorId)'
      <3>1. CASE vendorId' = vendorId
        BY <3>1, SteadyMeans DEF VendorInv, Steady, OwnTransfer, TransferId
      <3>2. CASE Final
        BY <3>2 DEF Final, Steady
      <3>3. QED
        BY <3>1, <3>2
    <2>2. QED
      BY <2>1 DEF VendorInv, Idle
  <1>4. RouteInv' /\ WaitInv' /\ ReadyInv'
    BY DEF RouteInv, WaitInv, ReadyInv, Idle, Early, MigratedPath, BuyPath, TransferredPath,
       BeforeCheck, Publishing, BuyingOn, OwnPublishing
  <1>5. PublishInv'
    BY SteadyMeans DEF PublishInv
  <1>6. DeploymentsInv'
    <2>1. Recordeds' = Recordeds /\ Unsettled' = Unsettled
      BY DEF Recordeds, Unsettled
    <2>2. QED
      BY <2>1, SteadyMeans DEF DeploymentsInv, MainStays, Steady
  <1>7. QED
    BY <1>1, <1>2, <1>3, <1>4, <1>5, <1>6

\* What the pass has read, but for what it has still to do with it.
SeenStays ==
    /\ seen' \in SeenType
    /\ seen'.record = seen.record /\ seen'.main = seen.main
    /\ seen'.deployments = seen.deployments /\ seen'.listed = seen.listed

\* A pass on the paths of a migrated transfer goes on.
LEMMA MigratedGoesOn ==
  ASSUME PathInv, Steady, MainStays, SeenStays,
         {"newOrderId", "newOrder", "preview"} \subseteq DOMAIN ctx',
         UNCHANGED <<deployments, customerDeployments>>,
         \/ pc \in Publishing /\ pc' \in Publishing \cup {"Synchronize", "SaveCustomerData"}
         \/ pc \in BuyingOn /\ pc' \in BuyPath
         \/ pc = "Synchronize" /\ pc' = "SyncMigrated" /\ UNCHANGED vendorId
  PROVE  PathInv'
  <1> USE DEF PathInv
  <1>1. Final /\ Final'
    BY SteadyMeans DEF RouteInv, Publishing, BuyingOn, MigratedPath
  <1>2. TypedInv'
    BY DEF TypedInv, SeenStays
  <1>3. pc \notin Unread
    BY DEF Unread, Publishing, BuyingOn, BuyPath, Idle
  <1>4. SeenInv'
    BY <1>1, <1>3 DEF SeenInv, SeenStays, MainStays, Steady
  <1>5. VendorInv' /\ RouteInv'
    BY <1>1 DEF VendorInv, RouteInv, Final, Publishing, BuyingOn, BuyPath, MigratedPath, Early,
       TransferredPath
  <1>6. PublishInv'
    BY <1>1 DEF PublishInv, LeftAlone, Final
  <1>7. Recordeds' = Recordeds /\ Unsettled' = Unsettled
    BY DEF Recordeds, Unsettled
  <1>8. DeploymentsInv'
    BY <1>7, SteadyMeans DEF DeploymentsInv, MainStays, Steady, ReadyInv
  <1>9. WaitInv' /\ ReadyInv'
    BY <1>7 DEF WaitInv, ReadyInv, SeenStays, BeforeCheck, Publishing, BuyingOn, BuyPath,
       OwnPublishing
  <1>10. QED
    BY <1>2, <1>4, <1>5, <1>6, <1>8, <1>9

\* A pass over the completed transfer of the order goes on.
LEMMA TransferredGoesOn ==
  ASSUME PathInv, Steady, MainStays, SeenStays,
         UNCHANGED <<ctx, deployments, customerDeployments>>,
         \/ /\ pc = "ValidateDeploymentItems" /\ pc' = "ValidateAgreementDeployments"
            /\ UNCHANGED <<vendorId, seen>>
         \/ /\ pc \in OwnPublishing /\ pc' \in OwnPublishing \cup {"SyncTransferred"}
            /\ vendorId' \in {vendorId, ctx.newOrderId}
  PROVE  PathInv'
  <1> USE DEF PathInv
  <1>1. OwnCompleted(ctx.newOrderId) /\ OwnCompleted(ctx.newOrderId)' /\ OwnDone /\ OwnDone'
    BY SteadyMeans
    DEF RouteInv, TransferredPath, OwnPublishing, OwnCompleted, OwnDone, TransferId
  <1>2. TypedInv'
    BY DEF TypedInv, SeenStays
  <1>3. pc \notin Unread
    BY DEF Unread, OwnPublishing, Idle
  <1>4. SeenInv'
    BY <1>3, SteadyMeans DEF SeenInv, SeenStays, MainStays, Steady
  <1>5. OwnTransfer(ctx.newOrderId)'
    BY <1>1 DEF OwnCompleted, OwnTransfer
  <1>6. VendorInv'
    <2>1. vendorId # 0 => records'[Membership].customerId
                          \/ \E i : Own(i)' /\ vendorId = TransferId(i)
      BY SteadyMeans DEF VendorInv, Steady
    <2>2. QED
      BY <1>5, <2>1 DEF VendorInv, OwnPublishing, OwnTransfer, TransferId
  <1>7. RouteInv'
    BY <1>1 DEF RouteInv, OwnPublishing, MigratedPath, BuyPath, Early, TransferredPath
  <1>8. PublishInv'
    BY <1>1 DEF PublishInv, LeftAlone
  <1>9. Recordeds' = Recordeds /\ Unsettled' = Unsettled
    BY DEF Recordeds, Unsettled
  <1>10. DeploymentsInv'
    BY <1>1, <1>9 DEF DeploymentsInv, MainStays, Steady
  <1>11. WaitInv' /\ ReadyInv'
    BY <1>9 DEF WaitInv, ReadyInv, SeenStays, BeforeCheck, Publishing, BuyingOn, BuyPath,
       OwnPublishing, Synchronized, Unready, Missing
  <1>12. QED
    BY <1>2, <1>4, <1>6, <1>7, <1>8, <1>10, <1>11

\* What goes on around the pass.
DeploymentsMove ==
    /\ deployments' \in [Deployments -> DeploymentStatus]
    /\ customerDeployments \subseteq customerDeployments'
    /\ customerDeployments' \subseteq Deployments
    /\ Membership \notin GlobalCustomers => customerDeployments' = customerDeployments
    /\ \A d \in Deployments :
          /\ deployments[d] = "absent" <=> deployments'[d] = "absent"
          /\ deployments[d] = "created" => deployments'[d] = "created"

LEMMA AroundKept ==
  ASSUME PathInv, Steady, MainStays, DeploymentsMove, UNCHANGED <<pc, ctx, vendorId, published, seen>>
  PROVE  PathInv'
  <1> USE DEF PathInv
  <1>1. TypedInv'
    BY DEF TypedInv, DeploymentsMove
  <1>2. SeenInv'
    BY SteadyMeans DEF SeenInv, MainStays, DeploymentsMove, Steady
  <1>3. VendorInv'
    <2>1. OwnTransfer(vendorId) => OwnTransfer(vendorId)'
      BY SteadyMeans DEF OwnTransfer, TransferId
    <2>2. QED
      BY <2>1 DEF VendorInv, Steady
  <1>4. RouteInv'
    <2>1. OwnTransfer(ctx.newOrderId) => OwnTransfer(ctx.newOrderId)'
      BY SteadyMeans DEF OwnTransfer, TransferId
    <2>2. OwnCompleted(ctx.newOrderId) => OwnCompleted(ctx.newOrderId)'
      BY SteadyMeans DEF OwnCompleted, TransferId
    <2>3. QED
      BY <2>1, <2>2, SteadyMeans DEF RouteInv
  <1>5. PublishInv'
    BY SteadyMeans DEF PublishInv
  <1>6. Recordeds' = Recordeds /\ Unsettled' \subseteq Unsettled
    BY DEF Recordeds, Unsettled, DeploymentsMove, TypedInv
  <1>7. DeploymentsInv'
    BY <1>6, SteadyMeans DEF DeploymentsInv, MainStays, Steady, DeploymentsMove
  <1>8. WaitInv'
    BY <1>6 DEF WaitInv, Synchronized, Unready, Missing
  <1>9. ReadyInv'
    BY <1>6 DEF ReadyInv, DeploymentsMove, TypedInv, SeenType
  <1>10. QED
    BY <1>1, <1>2, <1>3, <1>4, <1>5, <1>7, <1>8, <1>9

-----------------------------------------------------------------------------
(* Every step keeps both: the jobs, the platform and Adobe.                 *)

OnPath == JobsInv' /\ PathInv'

\* A step that leaves the jobs' variables alone, but perhaps the main agreement.
LEMMA Undisturbed ==
  ASSUME JobsInv, UNCHANGED migrationVars
  PROVE  JobsInv' /\ Steady /\ MainStays
  <1>1. main \in [Memberships -> MainAgreement]
    BY DEF JobsInv, MigrationInv, MigrationTypeOK
  <1>2. UNCHANGED <<records, main, transfers, renewing, expired, starting, checking>>
    BY DEF migrationVars, airtableVars, transferVars
  <1>3. QED
    BY <1>1, <1>2, JobsAside, SteadyAside DEF MainStays, transferVars

LEMMA MainKept ==
  ASSUME JobsInv, UNCHANGED <<records, transferVars, jobVars>>,
         \/ main' = main
         \/ main' = [main EXCEPT ![Membership].agreement = TRUE]
         \/ \E s \in {"pending", "transferred", "error"} :
               main' = [main EXCEPT ![Membership].status = s]
         \/ \E s \in {"pending", "error"} :
               main' = [main EXCEPT ![Membership] = [status |-> s, agreement |-> TRUE]]
  PROVE  JobsInv' /\ Steady /\ MainStays
  <1>1. Membership \in Memberships /\ main \in [Memberships -> MainAgreement]
    BY TransferOrderAssumption DEF JobsInv, MigrationInv, MigrationTypeOK
  <1> DEFINE found == main[Membership]
  <1>5. found \in MainAgreement
    BY <1>1
  <1> HIDE DEF found
  <1>6. \/ main' = main
        \/ \E saved \in MainAgreement :
              /\ main' = [main EXCEPT ![Membership] = saved]
              /\ found.status # "absent" => saved.status # "absent"
    <2>1. CASE main' = main
      BY <2>1
    <2>2. CASE main' = [main EXCEPT ![Membership].agreement = TRUE]
      <3> DEFINE saved == [found EXCEPT !.agreement = TRUE]
      <3>1. saved \in MainAgreement /\ saved.status = found.status
        BY <1>5 DEF MainAgreement
      <3>2. main' = [main EXCEPT ![Membership] = saved]
        BY <2>2 DEF found
      <3> HIDE DEF saved
      <3>3. QED
        BY <3>1, <3>2
    <2>3. ASSUME NEW s \in {"pending", "transferred", "error"},
                 main' = [main EXCEPT ![Membership].status = s]
          PROVE  \E saved \in MainAgreement :
                    main' = [main EXCEPT ![Membership] = saved] /\ saved.status # "absent"
      <3> DEFINE saved == [found EXCEPT !.status = s]
      <3>1. saved \in MainAgreement /\ saved.status # "absent"
        BY <1>5 DEF MainAgreement
      <3>2. main' = [main EXCEPT ![Membership] = saved]
        BY <2>3 DEF found
      <3> HIDE DEF saved
      <3>3. QED
        BY <3>1, <3>2
    <2>4. ASSUME NEW s \in {"pending", "error"},
                 main' = [main EXCEPT ![Membership] = [status |-> s, agreement |-> TRUE]]
          PROVE  \E saved \in MainAgreement :
                    main' = [main EXCEPT ![Membership] = saved] /\ saved.status # "absent"
      <3> DEFINE saved == [status |-> s, agreement |-> TRUE]
      <3>1. saved \in MainAgreement /\ saved.status # "absent"
        BY DEF MainAgreement
      <3>2. main' = [main EXCEPT ![Membership] = saved]
        BY <2>4
      <3> HIDE DEF saved
      <3>3. QED
        BY <3>1, <3>2
    <2>5. QED
      BY <2>1, <2>2, <2>3, <2>4
  <1>2. main' \in [Memberships -> MainAgreement] /\ MainStays
    BY <1>1, <1>6 DEF MainStays, found
  <1>3. UNCHANGED <<records, transfers, renewing, expired, starting, checking>>
    BY DEF transferVars, jobVars
  <1>4. QED
    BY <1>2, <1>3, JobsAside, SteadyAside DEF transferVars

\* A pass that has not yet read Airtable, or none.
LEMMA UnreadKept ==
  ASSUME PathInv, Steady, MainStays, pc \in Unread, pc' \in Unread,
         UNCHANGED <<deployments, customerDeployments, published, vendorId, seen>>,
         {"newOrderId", "newOrder", "preview"} \subseteq DOMAIN ctx',
         pc' \in Early => ctx'.newOrderId = vendorId'
  PROVE  PathInv'
  <1> USE DEF PathInv
  <1>1. TypedInv' /\ SeenInv'
    BY SteadyMeans DEF TypedInv, SeenInv, MainStays, Steady
  <1>2. VendorInv'
    <2>1. OwnTransfer(vendorId) => OwnTransfer(vendorId)'
      BY SteadyMeans DEF OwnTransfer, TransferId
    <2>2. QED
      BY <2>1 DEF VendorInv, Steady, Unread, Idle
  <1>3. RouteInv' /\ WaitInv' /\ ReadyInv'
    BY DEF RouteInv, WaitInv, ReadyInv, MigratedPath, BuyPath, TransferredPath, BeforeCheck,
       Publishing, BuyingOn, OwnPublishing, Unread, Idle
  <1>4. PublishInv'
    BY SteadyMeans DEF PublishInv
  <1>5. DeploymentsInv'
    <2>1. Recordeds' = Recordeds /\ Unsettled' = Unsettled
      BY DEF Recordeds, Unsettled
    <2>2. QED
      BY <2>1, SteadyMeans DEF DeploymentsInv, MainStays, Steady
  <1>6. QED
    BY <1>1, <1>2, <1>3, <1>4, <1>5

LEMMA PlatformOnPath ==
  ASSUME JobsInv, PathInv, Inv, Platform
  PROVE  OnPath
  <1>1. JobsInv' /\ Steady /\ MainStays
    BY Undisturbed DEF Platform
  <1>2. UNCHANGED <<deployments, customerDeployments, published, vendorId>>
    BY DEF Platform, deploymentVars, Dispatch, Leave, Abort, Wait, Resume, NextDay
  <1>3. CASE Leave(Abort)
    BY <1>1, <1>2, <1>3, EndsKept DEF Leave, Abort, Wait, EndPass, OnPath
  <1>4. CASE (Resume \/ NextDay) /\ UNCHANGED seen
    <2>1. DeploymentsMove
      BY <1>2 DEF DeploymentsMove, PathInv, TypedInv
    <2>2. UNCHANGED <<pc, ctx>>
      BY <1>4 DEF Resume, NextDay
    <2>3. QED
      BY <1>1, <1>2, <1>4, <2>1, <2>2, AroundKept DEF OnPath
  <1>5. CASE Dispatch /\ UNCHANGED seen
    <2>1. pc = Idle /\ pc' = "SetupContext" /\ UNCHANGED <<ctx, seen>>
      BY <1>5 DEF Dispatch, Goto
    <2>2. pc \in Unread /\ pc' \in Unread /\ pc' \notin Early
      BY <2>1 DEF Unread, Early
    <2>3. {"newOrderId", "newOrder", "preview"} \subseteq DOMAIN ctx'
      BY <2>1 DEF PathInv, TypedInv
    <2>4. QED
      BY <1>1, <1>2, <2>1, <2>2, <2>3, UnreadKept DEF OnPath
  <1>6. QED
    BY <1>3, <1>4, <1>5 DEF Platform

LEMMA MigratingOnPath ==
  ASSUME JobsInv, PathInv, Migrating
  PROVE  OnPath
  <1>1. JobsInv' /\ Steady
    BY JobsKept, SteadyJobs DEF Migrating
  <1>2. MainStays
    <2>1. UNCHANGED main \/ \E m \in Memberships : CreateMainAgreement(m)
      BY DEF Migrating, MigrationNext, Jobs, Surroundings, ProcessTransfers, ProcessDies,
         CheckRunningTransfers, CheckDies, StartingStep, PreviewTransfer, CreateTransfer,
         SaveTransfer, CheckingStep, GetTransfer, GetCustomer, SwitchRenewalOff,
         CompleteMigration, AddRecord, AdobeSettlesTransfer, AdobeExpires, airtableVars
    <2>2. Membership \in Memberships /\ main \in [Memberships -> MainAgreement]
      BY TransferOrderAssumption DEF JobsInv, MigrationInv, MigrationTypeOK
    <2>3. ASSUME NEW m \in Memberships, CreateMainAgreement(m)
          PROVE  MainStays
      BY <2>2, <2>3 DEF CreateMainAgreement, MainStays
    <2>4. QED
      BY <2>1, <2>3 DEF MainStays
  <1>3. DeploymentsMove /\ UNCHANGED <<pc, ctx, vendorId, published, seen>>
    BY DEF Migrating, passVars, deploymentVars, DeploymentsMove, PathInv, TypedInv
  <1>4. QED
    BY <1>1, <1>2, <1>3, AroundKept DEF OnPath

LEMMA ElsewhereOnPath ==
  ASSUME JobsInv, PathInv, Elsewhere
  PROVE  OnPath
  <1>1. UNCHANGED <<migrationVars, passVars, published, seen>>
    BY DEF Elsewhere, AdobeAddsDeployment, DeploymentSettled, AdobeSettlesNewOrder,
       AdobeSettlesLateRenewal, passVars
  <1>2. JobsInv' /\ Steady /\ MainStays
    BY <1>1, Undisturbed
  <1>3. DeploymentsMove
    <2>1. CASE UNCHANGED deploymentVars
      BY <2>1 DEF deploymentVars, DeploymentsMove, PathInv, TypedInv
    <2>2. CASE AdobeAddsDeployment
      BY <2>2 DEF AdobeAddsDeployment, DeploymentsMove, PathInv, TypedInv
    <2>3. CASE DeploymentSettled
      BY <2>3 DEF DeploymentSettled, DeploymentsMove, PathInv, TypedInv, DeploymentStatus
    <2>4. QED
      BY <2>1, <2>2, <2>3 DEF Elsewhere
  <1>4. UNCHANGED <<pc, ctx, vendorId>>
    BY <1>1 DEF passVars
  <1>5. QED
    BY <1>1, <1>2, <1>3, <1>4, AroundKept DEF OnPath

-----------------------------------------------------------------------------
(* Up to the branch into the two paths of a migrated transfer.              *)

\* A step that ends the pass, with nothing done that outlives it but to the
\* jobs' variables.
Ends ==
    /\ pc' = Idle /\ seen' = NothingSeen /\ ctx' = EmptyContext
    /\ UNCHANGED <<deployments, customerDeployments, published, vendorId>>

LEMMA EndsQuietly ==
  ASSUME JobsInv, PathInv, Ends, UNCHANGED migrationVars
  PROVE  OnPath
  BY Undisturbed, EndsKept DEF Ends, OnPath

LEMMA SetupOnPath ==
  ASSUME JobsInv, PathInv,
         SetupContext("SetupDueDate") \/ SetupDueDate("SetupTransferContext"),
         UNCHANGED <<purchaseVars, migrationVars, deploymentVars, published, seen>>
  PROVE  OnPath
  <1>1. JobsInv' /\ Steady /\ MainStays
    BY Undisturbed
  <1>2. pc \in Unread /\ pc' \in Unread /\ UNCHANGED vendorId
    BY DEF Unread, SetupContext, SetupDueDate, Goto, Wait, EndPass, Decide,
       switch_order_to_failed
  <1>3. /\ {"newOrderId", "newOrder", "preview"} \subseteq DOMAIN ctx'
        /\ pc' \in Early => ctx'.newOrderId = vendorId'
    <2>1. CASE SetupContext("SetupDueDate")
      BY <2>1 DEF SetupContext, Goto, Wait, EndPass, Decide, switch_order_to_failed, EmptyContext,
         Early, Idle
    <2>2. CASE SetupDueDate("SetupTransferContext")
      BY <2>2 DEF SetupDueDate, Goto, EndPass, Decide, switch_order_to_failed, EmptyContext,
         Early, Idle, PathInv, TypedInv, RouteInv
    <2>3. QED
      BY <2>1, <2>2
  <1>4. QED
    BY <1>1, <1>2, <1>3, UnreadKept DEF deploymentVars, OnPath

LEMMA SetupTransferOnPath ==
  ASSUME JobsInv, PathInv, SetupTransferContext("ValidateGCMainAgreement")
  PROVE  OnPath
  <1> USE DEF PathInv
  <1>1. JobsInv' /\ Steady /\ MainStays
    BY Undisturbed DEF SetupTransferContext
  <1>2. /\ pc = "SetupTransferContext" /\ pc' = "ValidateGCMainAgreement"
        /\ UNCHANGED <<ctx, vendorId, deployments, customerDeployments, published, records, main,
                       transfers, starting>>
    BY DEF SetupTransferContext, Continue, Goto, deploymentVars, migrationVars, airtableVars,
       transferVars
  <1>3. Membership \in Memberships /\ records[Membership] \in Record
        /\ main[Membership] \in MainAgreement /\ deployments \in [Deployments -> DeploymentStatus]
    BY TransferOrderAssumption DEF JobsInv, MigrationInv, MigrationTypeOK, TypedInv
  <1>4. /\ seen'.record = records[Membership] /\ seen'.main = main[Membership]
        /\ seen'.deployments = deployments /\ seen'.listed = {} /\ seen' \in SeenType
    BY <1>3 DEF SetupTransferContext, NothingSeen, SeenType
  <1>5. TypedInv'
    BY <1>2, <1>4 DEF TypedInv
  <1>6. records[Membership].customerId => records[Membership].status \in Ended \cup {"running"}
    BY <1>3 DEF JobsInv, CustomersKnown
  <1>7. SeenInv'
    BY <1>2, <1>4, <1>6 DEF SeenInv, Final, Unread
  <1>8. OwnTransfer(vendorId) => OwnTransfer(vendorId)'
    BY <1>1, <1>2, SteadyMeans DEF OwnTransfer, TransferId
  <1>9. VendorInv'
    BY <1>2, <1>4, <1>6, <1>8 DEF VendorInv, Ended
  <1>10. RouteInv' /\ ReadyInv'
    BY <1>2 DEF RouteInv, ReadyInv, Early, MigratedPath, BuyPath, TransferredPath, Publishing,
       BuyingOn, OwnPublishing
  <1>11. Recordeds' = Recordeds /\ Unsettled' = Unsettled
    BY <1>2 DEF Recordeds, Unsettled
  <1>12. DeploymentsInv' /\ PublishInv'
    BY <1>1, <1>2, <1>11, SteadyMeans DEF DeploymentsInv, PublishInv, MainStays, Steady
  <1>13. WaitInv'
    BY <1>2, <1>4, <1>11 DEF WaitInv, DeploymentsInv, BeforeCheck
  <1>14. QED
    BY <1>1, <1>5, <1>7, <1>9, <1>10, <1>12, <1>13 DEF OnPath

LEMMA MainAgreementOnPath ==
  ASSUME JobsInv, PathInv, ValidateGCMainAgreement("HandleMigratedTransfer")
  PROVE  OnPath
  <1> USE DEF PathInv
  <1>1. JobsInv' /\ Steady /\ MainStays
    <2>1. \/ main' = main
          \/ main' = [main EXCEPT ![Membership].agreement = TRUE]
      BY DEF ValidateGCMainAgreement
    <2>2. UNCHANGED <<records, transferVars, jobVars>>
      BY DEF ValidateGCMainAgreement
    <2>3. QED
      BY <2>1, <2>2, MainKept
  <1>2. UNCHANGED <<vendorId, deployments, customerDeployments, published, records,
                    transfers, starting>>
    BY DEF ValidateGCMainAgreement, Continue, Leave, Wait, deploymentVars, transferVars, jobVars
  <1>3. CASE Leave(Wait)
    BY <1>1, <1>2, <1>3, EndsKept DEF Leave, Wait, EndPass, OnPath
  <1>4. CASE Continue("HandleMigratedTransfer")
    <2>1. pc = "ValidateGCMainAgreement" /\ pc' = "HandleMigratedTransfer" /\ UNCHANGED ctx
      BY <1>4 DEF ValidateGCMainAgreement, Continue, Goto
    <2>2. /\ seen' \in SeenType /\ seen'.record = seen.record /\ seen'.main = seen.main
          /\ seen'.deployments = seen.deployments
          /\ \/ /\ seen.main.status = "absent" /\ seen'.listed = seen.listed
             \/ seen'.listed = customerDeployments /\ Synchronized(customerDeployments)
      <3>1. \/ seen.main.status = "absent" /\ seen' = seen
            \/ /\ seen' = [seen EXCEPT !.listed = customerDeployments]
               /\ Synchronized(customerDeployments)
        <4>1. pc' # Idle
          BY <2>1 DEF Idle
        <4>2. ~Leave(Wait)
          BY <4>1 DEF Leave, Wait, EndPass
        <4>3. QED
          BY <4>2 DEF ValidateGCMainAgreement
      <3>2. QED
        BY <3>1 DEF TypedInv, SeenType
    <2>3. TypedInv'
      BY <1>2, <2>1, <2>2 DEF TypedInv
    <2>4. SeenInv'
      BY <1>1, <1>2, <2>1, <2>2, SteadyMeans DEF SeenInv, MainStays, Steady, Unread, Idle, Final
    <2>5. VendorInv'
      <3>1. OwnTransfer(vendorId) => OwnTransfer(vendorId)'
        BY <1>1, <1>2, SteadyMeans DEF OwnTransfer, TransferId
      <3>2. QED
        BY <1>1, <1>2, <2>1, <2>2, <3>1 DEF VendorInv, Steady
    <2>6. RouteInv' /\ ReadyInv'
      BY <1>2, <2>1 DEF RouteInv, ReadyInv, Early, MigratedPath, BuyPath, TransferredPath,
         Publishing, BuyingOn, OwnPublishing
    <2>7. Recordeds' = Recordeds /\ Unsettled' = Unsettled
      BY <1>2 DEF Recordeds, Unsettled
    <2>8. DeploymentsInv' /\ PublishInv'
      BY <1>1, <1>2, <2>7, SteadyMeans DEF DeploymentsInv, PublishInv, MainStays, Steady
    <2>9. Recordeds \subseteq seen'.listed
      BY <2>1, <2>2 DEF WaitInv, DeploymentsInv
    <2>10. Synchronized(seen.listed) \/ Synchronized(customerDeployments)
      BY <2>1, <2>2 DEF WaitInv, Synchronized, Unready
    <2>11. Synchronized(seen.listed)'
      BY <2>1, <2>2 DEF WaitInv, Synchronized, Unready, Missing
    <2>12. WaitInv'
      BY <2>1, <2>7, <2>9, <2>11 DEF WaitInv
    <2>13. QED
      BY <1>1, <2>3, <2>4, <2>5, <2>6, <2>8, <2>12 DEF OnPath
  <1>5. QED
    BY <1>3, <1>4 DEF ValidateGCMainAgreement

\* A step that only goes on, before the deployments are checked.
LEMMA BeforeCheckGoesOn ==
  ASSUME JobsInv, PathInv, pc \in BeforeCheck, pc' \in BeforeCheck,
         UNCHANGED <<migrationVars, ctx, vendorId, deployments, customerDeployments, published,
                     seen>>,
         pc' = "CheckDeployments" => Final /\ vendorId = 0,
         pc' # "HandleMigratedTransfer" /\ pc' # "SaveTransferOrder",
         pc' = "ValidateTransfer" =>
             ctx.newOrderId = vendorId /\ (vendorId # 0 => OwnTransfer(ctx.newOrderId)),
         pc' = "CheckAdobeTransferOrder" => OwnTransfer(ctx.newOrderId),
         pc' \in TransferredPath => OwnCompleted(ctx.newOrderId)
  PROVE  OnPath
  <1> USE DEF PathInv
  <1>1. JobsInv' /\ Steady /\ MainStays
    BY Undisturbed
  <1>2. TypedInv'
    BY DEF TypedInv
  <1>3. SeenInv'
    BY <1>1, SteadyMeans DEF SeenInv, MainStays, Steady, BeforeCheck, Unread, Idle
  <1>4. OwnTransfer(vendorId) => OwnTransfer(vendorId)'
    BY <1>1, SteadyMeans DEF OwnTransfer, TransferId
  <1>5. VendorInv'
    BY <1>1, <1>4 DEF VendorInv, Steady, BeforeCheck
  <1>6. RouteInv'
    <2>1. OwnTransfer(ctx.newOrderId) => OwnTransfer(ctx.newOrderId)'
      BY <1>1, SteadyMeans DEF OwnTransfer, TransferId
    <2>2. OwnCompleted(ctx.newOrderId) => OwnCompleted(ctx.newOrderId)'
      BY <1>1, SteadyMeans DEF OwnCompleted, TransferId
    <2>3. pc' = "CheckDeployments" => Final'
      BY <1>1, SteadyMeans
    <2>4. /\ pc' \notin Early /\ pc' # "SaveTransferOrder"
          /\ pc' \in MigratedPath \cup BuyPath => pc' = "CheckDeployments"
      BY DEF Early, BeforeCheck, MigratedPath, BuyPath
    <2>5. QED
      BY <2>1, <2>2, <2>3, <2>4 DEF RouteInv
  <1>7. Recordeds' = Recordeds /\ Unsettled' = Unsettled
    BY DEF Recordeds, Unsettled
  <1>8. DeploymentsInv' /\ PublishInv'
    BY <1>1, <1>7, SteadyMeans DEF DeploymentsInv, PublishInv, MainStays, Steady
  <1>9. WaitInv' /\ ReadyInv'
    BY <1>7 DEF WaitInv, ReadyInv, BeforeCheck, Publishing, BuyingOn, BuyPath, OwnPublishing,
       Synchronized, Unready, Missing
  <1>10. QED
    BY <1>1, <1>2, <1>3, <1>5, <1>6, <1>8, <1>9 DEF OnPath

\* The order is left to the team.
LEMMA LeftToTeamOnPath ==
  ASSUME JobsInv, PathInv, ManageDeploymentItems,
         UNCHANGED <<records, purchaseVars, transferVars, jobVars, deploymentVars, published>>
  PROVE  OnPath
  <1>1. JobsInv' /\ Steady /\ MainStays
    BY MainKept DEF ManageDeploymentItems
  <1>2. QED
    BY <1>1, EndsKept DEF ManageDeploymentItems, Leave, Wait, EndPass, deploymentVars, OnPath

LEMMA HandleMigratedOnPath ==
  ASSUME JobsInv, PathInv, HandleMigratedTransfer("ValidateTransfer")
  PROVE  OnPath
  <1> DEFINE known == seen.record.status # "absent" /\ seen.record.customerId
             decided == known /\ ~InProgress(seen.record)
                        /\ seen.record.status # "synchronized"
  <1>1. /\ pc = "HandleMigratedTransfer" /\ pc \in BeforeCheck
        /\ UNCHANGED <<records, purchaseVars, transferVars, jobVars, deploymentVars, published>>
    BY DEF HandleMigratedTransfer, BeforeCheck
  <1>2. \/ /\ seen.record.status = "absent" /\ Continue("ValidateTransfer")
           /\ UNCHANGED <<seen, main>>
        \/ /\ Leave(Wait) \/ Leave(switch_order_to_failed) \/ Leave(switch_order_to_query)
           /\ UNCHANGED main
        \/ /\ decided /\ vendorId # 0 /\ Continue("SaveCustomerData")
           /\ UNCHANGED <<seen, main>>
        \/ /\ decided /\ vendorId = 0 /\ Continue("CheckDeployments")
           /\ UNCHANGED <<seen, main>>
        \/ ManageDeploymentItems
    BY DEF HandleMigratedTransfer
  <1>3. UNCHANGED main => UNCHANGED migrationVars
    BY <1>1 DEF migrationVars, airtableVars, jobVars
  <1>4. UNCHANGED <<deployments, customerDeployments, published>>
    BY <1>1 DEF deploymentVars
  <1>5. CASE seen.record.status = "absent" /\ Continue("ValidateTransfer")
             /\ UNCHANGED <<seen, main>>
    <2>1. pc' = "ValidateTransfer" /\ UNCHANGED <<ctx, vendorId>>
      BY <1>5 DEF Continue, Goto
    <2>2. ctx.newOrderId = vendorId /\ (vendorId # 0 => OwnTransfer(ctx.newOrderId))
      BY <1>1, <1>5 DEF PathInv, RouteInv, VendorInv, Early
    <2>3. pc' \in BeforeCheck /\ pc' \notin TransferredPath
      BY <2>1 DEF BeforeCheck, TransferredPath
    <2>4. QED
      BY <1>1, <1>3, <1>4, <1>5, <2>1, <2>2, <2>3, BeforeCheckGoesOn
  <1>6. CASE (Leave(Wait) \/ Leave(switch_order_to_failed) \/ Leave(switch_order_to_query))
             /\ UNCHANGED main
    BY <1>3, <1>4, <1>6, EndsQuietly
       DEF Ends, Leave, Wait, EndPass, Decide, switch_order_to_failed, switch_order_to_query
  <1>7. decided => Final
    BY DEF PathInv, SeenInv, InProgress
  <1>8. CASE decided /\ vendorId # 0 /\ Continue("SaveCustomerData") /\ UNCHANGED <<seen, main>>
    <2> USE DEF PathInv
    <2>1. pc' = "SaveCustomerData" /\ UNCHANGED <<ctx, vendorId>>
      BY <1>8 DEF Continue, Goto
    <2>2. JobsInv' /\ Steady /\ MainStays
      BY <1>3, <1>8, Undisturbed
    <2>3. Final /\ Final'
      BY <1>7, <1>8, <2>2, SteadyMeans
    <2>4. Unsettled = {}
      BY <1>8, <2>3, OwnExcludes DEF DeploymentsInv, Final
    <2>5. Recordeds' = Recordeds /\ Unsettled' = Unsettled
      BY <1>4 DEF Recordeds, Unsettled
    <2>6. TypedInv' /\ SeenInv'
      BY <1>1, <1>4, <1>8, <2>1, <2>2, <2>3 DEF TypedInv, SeenInv, MainStays, Unread, Idle, Final
    <2>7. VendorInv' /\ RouteInv'
      BY <2>1, <2>3 DEF VendorInv, RouteInv, Final, Early, TransferredPath
    <2>8. DeploymentsInv' /\ PublishInv'
      BY <1>4, <2>2, <2>4, <2>5, <2>3
         DEF DeploymentsInv, PublishInv, MainStays, Steady, LeftAlone, Final
    <2>9. WaitInv' /\ ReadyInv'
      BY <2>1, <2>4, <2>5 DEF WaitInv, ReadyInv, BeforeCheck, Publishing, OwnPublishing
    <2>10. QED
      BY <2>2, <2>6, <2>7, <2>8, <2>9 DEF OnPath
  <1>9. CASE decided /\ vendorId = 0 /\ Continue("CheckDeployments") /\ UNCHANGED <<seen, main>>
    <2>1. pc' = "CheckDeployments" /\ UNCHANGED <<ctx, vendorId>>
      BY <1>9 DEF Continue, Goto
    <2>2. pc' \in BeforeCheck /\ pc' \notin TransferredPath
      BY <2>1 DEF BeforeCheck, TransferredPath
    <2>3. QED
      BY <1>1, <1>3, <1>4, <1>7, <1>9, <2>1, <2>2, BeforeCheckGoesOn
  <1>10. CASE ManageDeploymentItems
    BY <1>1, <1>10, LeftToTeamOnPath
  <1>11. QED
    BY <1>2, <1>5, <1>6, <1>8, <1>9, <1>10, Zenon

LEMMA PrepareOnPath ==
  ASSUME JobsInv, PathInv, Prepare
  PROVE  OnPath
  BY SetupOnPath, SetupTransferOnPath, MainAgreementOnPath, HandleMigratedOnPath DEF Prepare

-----------------------------------------------------------------------------
(* The deployments.                                                         *)

\* Once they are checked, nothing the pass was shown or Airtable holds is
\* unsettled.
LEMMA DeploymentsChecked ==
  ASSUME PathInv, pc \in {"CheckDeployments", "ValidateAgreementDeployments"},
         NEW listed,
         \/ Membership \notin GlobalCustomers /\ listed = seen.listed
         \/ /\ Missing(listed) = {}
            /\ listed = IF seen.listed = {} THEN customerDeployments ELSE seen.listed
  PROVE  Unsettled = {} /\ \A d \in listed : d \in Deployments /\ deployments[d] = "created"
  <1> USE DEF PathInv
  <1>1. /\ Recordeds \subseteq seen.listed /\ Synchronized(seen.listed)
        /\ seen.listed \subseteq customerDeployments /\ customerDeployments \subseteq Deployments
    BY DEF WaitInv, BeforeCheck, SeenInv, TypedInv
  <1>2. \A d \in Deployments : /\ seen.deployments[d] = "absent" <=> deployments[d] = "absent"
                               /\ seen.deployments[d] = "created" => deployments[d] = "created"
    BY DEF SeenInv, Unread, Idle
  <1>3. CASE Membership \notin GlobalCustomers /\ listed = seen.listed
    BY <1>1, <1>3 DEF DeploymentsInv, Recordeds, Unsettled
  <1>4. CASE Missing(listed) = {} /\ listed = seen.listed
    <2>1. \A d \in listed : seen.deployments[d] = "created"
      BY <1>1, <1>4 DEF Synchronized, Unready
    <2>2. QED
      BY <1>1, <1>2, <1>4, <2>1 DEF Recordeds, Unsettled
  <1>5. CASE seen.listed = {} /\ Missing(listed) = {} /\ listed = customerDeployments
    <2>1. \A d \in Deployments : deployments[d] = "absent"
      BY <1>1, <1>5 DEF Recordeds
    <2>2. listed = {}
      BY <1>1, <1>2, <1>5, <2>1 DEF Missing
    <2>3. QED
      BY <2>1, <2>2 DEF Unsettled
  <1>6. QED
    BY <1>3, <1>4, <1>5

LEMMA CheckDeploymentsOnPath ==
  ASSUME JobsInv, PathInv, NEW step, NEW next,
         CheckDeployments(step, next),
         \/ step = "CheckDeployments" /\ next = "SelectFulfilment"
         \/ step = "ValidateAgreementDeployments" /\ next = "ProcessTransferOrder"
  PROVE  OnPath
  <1> USE DEF PathInv
  <1>1. /\ pc = step /\ UNCHANGED <<records, purchaseVars, transferVars, jobVars,
                                    customerDeployments, published>>
    BY DEF CheckDeployments
  <1>2. \/ main' = main
        \/ main' = [main EXCEPT ![Membership] = [status |-> "pending", agreement |-> TRUE]]
    BY DEF CheckDeployments
  <1>3. JobsInv' /\ Steady /\ MainStays
    BY <1>1, <1>2, MainKept
  <1>4. /\ \/ step = "CheckDeployments" /\ Final /\ Final' /\ vendorId = 0
           \/ /\ step = "ValidateAgreementDeployments"
              /\ OwnCompleted(ctx.newOrderId) /\ OwnDone
        /\ Transferred(Membership)
    <2>1. CASE step = "CheckDeployments"
      <3>1. Final /\ vendorId = 0
        BY <1>1, <2>1 DEF RouteInv, MigratedPath
      <3>2. Transferred(Membership)
        BY <3>1, TransferOrderAssumption DEF Final, JobsInv, CustomersKnown, Transferred
      <3>3. QED
        BY <1>3, <2>1, <3>1, <3>2, SteadyMeans
    <2>2. CASE step = "ValidateAgreementDeployments"
      BY <1>1, <2>2 DEF RouteInv, TransferredPath, OwnCompleted, OwnDone, Own, Completed,
         Transferred
    <2>3. QED
      BY <2>1, <2>2
  <1> DEFINE listed == IF seen.listed = {} THEN customerDeployments ELSE seen.listed
  <1>5. \/ /\ Continue(next) /\ UNCHANGED deployments
           /\ \/ Membership \notin GlobalCustomers /\ seen' = seen
              \/ Missing(listed) = {} /\ seen' = [seen EXCEPT !.listed = listed]
        \/ Leave(Wait) /\ UNCHANGED deployments
        \/ /\ Leave(Wait)
           /\ Membership \in GlobalCustomers
           /\ main' = IF seen.main.status = "absent"
                        THEN [main EXCEPT ![Membership] =
                                [status |-> "pending", agreement |-> TRUE]]
                        ELSE main
           /\ deployments' = [d \in Deployments |->
                 IF d \in Missing(listed) THEN "pending" ELSE deployments[d]]
    BY DEF CheckDeployments
  <1>6. ASSUME Continue(next), UNCHANGED deployments,
               \/ Membership \notin GlobalCustomers /\ seen' = seen
               \/ Missing(listed) = {} /\ seen' = [seen EXCEPT !.listed = listed]
        PROVE  OnPath
    <2>1. PICK shown : /\ \/ Membership \notin GlobalCustomers /\ shown = seen.listed
                          \/ Missing(shown) = {} /\ shown = listed
                       /\ shown \subseteq customerDeployments
                       /\ seen' \in SeenType /\ seen'.listed = shown
                       /\ seen'.record = seen.record /\ seen'.main = seen.main
                       /\ seen'.deployments = seen.deployments
      <3>1. CASE Membership \notin GlobalCustomers /\ seen' = seen
        BY <3>1 DEF TypedInv, SeenInv
      <3>2. CASE Missing(listed) = {} /\ seen' = [seen EXCEPT !.listed = listed]
        <4>1. listed \subseteq customerDeployments /\ listed \subseteq Deployments
          BY DEF TypedInv, SeenInv
        <4> HIDE DEF listed
        <4>2. QED
          BY <3>2, <4>1 DEF TypedInv, SeenType
      <3>3. QED
        BY <1>6, <3>1, <3>2
    <2>2. pc \in {"CheckDeployments", "ValidateAgreementDeployments"}
      BY <1>1
    <2>3. Unsettled = {} /\ \A d \in shown : d \in Deployments /\ deployments[d] = "created"
      BY <2>1, <2>2, DeploymentsChecked
    <2>4. pc' = next /\ UNCHANGED <<ctx, vendorId>>
      BY <1>6 DEF Continue, Goto
    <2>5. Recordeds' = Recordeds /\ Unsettled' = Unsettled
      BY <1>6 DEF Recordeds, Unsettled
    <2>6. TypedInv'
      BY <1>1, <1>6, <2>1, <2>4 DEF TypedInv
    <2>7. SeenInv'
      BY <1>1, <1>3, <1>6, <2>1, <2>2, SteadyMeans DEF SeenInv, MainStays, Steady, Unread, Idle,
         Final
    <2>8. VendorInv'
      <3>1. OwnTransfer(vendorId) => OwnTransfer(vendorId)'
        BY <1>3, <2>4, SteadyMeans DEF OwnTransfer, TransferId
      <3>2. QED
        BY <1>3, <2>4, <3>1 DEF VendorInv, Steady
    <2>9. RouteInv'
      <3>1. OwnCompleted(ctx.newOrderId) => OwnCompleted(ctx.newOrderId)'
        BY <1>3, <2>4, SteadyMeans DEF OwnCompleted, TransferId
      <3>2. QED
        BY <1>4, <2>4, <3>1 DEF RouteInv, Early, MigratedPath, BuyPath, TransferredPath
    <2>10. DeploymentsInv' /\ PublishInv'
      BY <1>1, <1>3, <2>3, <2>5, SteadyMeans DEF DeploymentsInv, PublishInv, MainStays, Steady
    <2>11. WaitInv'
      BY <2>4 DEF WaitInv, BeforeCheck
    <2>12. ReadyInv'
      BY <1>6, <2>1, <2>3, <2>5 DEF ReadyInv
    <2>13. QED
      BY <1>3, <2>6, <2>7, <2>8, <2>9, <2>10, <2>11, <2>12 DEF OnPath
  <1>7. CASE Leave(Wait) /\ UNCHANGED deployments
    BY <1>1, <1>3, <1>7, EndsKept DEF Leave, Wait, EndPass, OnPath
  <1>8. ASSUME Leave(Wait), Membership \in GlobalCustomers,
               main' = IF seen.main.status = "absent"
                         THEN [main EXCEPT ![Membership] =
                                 [status |-> "pending", agreement |-> TRUE]]
                         ELSE main,
               deployments' = [d \in Deployments |->
                  IF d \in Missing(listed) THEN "pending" ELSE deployments[d]]
        PROVE  OnPath
    <2>1. pc' = Idle /\ seen' = NothingSeen /\ ctx' = EmptyContext /\ vendorId' = vendorId
      BY <1>8 DEF Leave, Wait, EndPass
    <2>2. main'[Membership].status # "absent"
      <3>1. Membership \in Memberships /\ main \in [Memberships -> MainAgreement]
        BY TransferOrderAssumption DEF JobsInv, MigrationInv, MigrationTypeOK
      <3>2. QED
        BY <1>8, <3>1 DEF SeenInv
    <2>3. listed \subseteq customerDeployments
      BY DEF SeenInv
    <2> HIDE DEF listed
    <2>4. TypedInv'
      <3>1. deployments' \in [Deployments -> DeploymentStatus]
        BY <1>8 DEF TypedInv, DeploymentStatus
      <3>2. QED
        BY <1>1, <2>1, <3>1, NothingSeenTyped, EmptyContextTyped DEF TypedInv
    <2>5. SeenInv'
      BY <2>1 DEF SeenInv, NothingSeen, NoRecord, Unread
    <2>6. VendorInv'
      <3>1. OwnTransfer(vendorId) => OwnTransfer(vendorId)'
        BY <1>3, <2>1, SteadyMeans DEF OwnTransfer, TransferId
      <3>2. QED
        BY <1>3, <2>1, <3>1 DEF VendorInv, Steady, Idle
    <2>7. RouteInv' /\ WaitInv' /\ ReadyInv'
      BY <2>1 DEF RouteInv, WaitInv, ReadyInv, Idle, Early, MigratedPath, BuyPath,
         TransferredPath, BeforeCheck, Publishing, BuyingOn, OwnPublishing
    <2>8. PublishInv'
      BY <1>1, <1>3, SteadyMeans DEF PublishInv
    <2>9. Recordeds' \subseteq customerDeployments
      BY <1>8, <2>3 DEF Recordeds, Missing, DeploymentsInv
    <2>10. Transferred(Membership)' /\ (vendorId' = 0 \/ OwnDone')
      BY <1>3, <1>4, <2>1, SteadyMeans DEF Steady
    <2>11. DeploymentsInv'
      BY <1>1, <1>8, <2>2, <2>9, <2>10 DEF DeploymentsInv
    <2>12. QED
      BY <1>3, <2>4, <2>5, <2>6, <2>7, <2>8, <2>11 DEF OnPath
  <1>9. QED
    BY <1>5, <1>6, <1>7, <1>8

-----------------------------------------------------------------------------
(* The order transfers the membership itself.                               *)

LEMMA ValidateTransferOnPath ==
  ASSUME JobsInv, PathInv, ValidateTransfer("CheckAdobeTransferOrder")
  PROVE  OnPath
  <1>1. /\ pc = "ValidateTransfer" /\ UNCHANGED migrationVars
        /\ UNCHANGED <<deployments, customerDeployments, published>>
    BY DEF ValidateTransfer, deploymentVars
  <1>2. CASE Leave(switch_order_to_query) \/ Leave(switch_order_to_failed)
    BY <1>1, <1>2, EndsQuietly
       DEF Ends, Leave, EndPass, Decide, switch_order_to_failed, switch_order_to_query
  <1>3. CASE UNCHANGED seen /\ \/ ctx.newOrderId # 0 /\ Continue("CheckAdobeTransferOrder")
                               \/ Continue("SubmitTransferOrder")
    <2>1. ctx.newOrderId # 0 => OwnTransfer(ctx.newOrderId)
      BY <1>1 DEF PathInv, RouteInv
    <2>2. /\ \/ pc' = "SubmitTransferOrder"
             \/ pc' = "CheckAdobeTransferOrder" /\ OwnTransfer(ctx.newOrderId)
          /\ UNCHANGED <<ctx, vendorId>>
      BY <1>3, <2>1 DEF Continue, Goto
    <2>3. pc \in BeforeCheck /\ pc' \in BeforeCheck /\ pc' \notin TransferredPath
      BY <1>1, <2>2 DEF BeforeCheck, TransferredPath
    <2>4. QED
      BY <1>1, <1>3, <2>2, <2>3, BeforeCheckGoesOn
  <1>4. QED
    BY <1>2, <1>3 DEF ValidateTransfer

LEMMA SubmitTransferOnPath ==
  ASSUME JobsInv, PathInv, SubmitTransferOrder
  PROVE  OnPath
  <1>1. /\ pc = "SubmitTransferOrder"
        /\ UNCHANGED <<airtableVars, renewing, expired, jobVars>>
        /\ UNCHANGED <<deployments, customerDeployments, published>>
    BY DEF SubmitTransferOrder, deploymentVars
  <1>2. CASE Leave(switch_order_to_failed) /\ UNCHANGED transfers
    <2>1. UNCHANGED migrationVars
      BY <1>1, <1>2 DEF migrationVars, transferVars, jobVars
    <2>2. QED
      BY <1>1, <1>2, <2>1, EndsQuietly DEF Ends, Leave, EndPass, Decide, switch_order_to_failed
  <1>3. ASSUME TryTransfer(Membership),
               ctx' = [ctx EXCEPT !.newOrderId = TransferId(Len(transfers[Membership]) + 1)],
               Goto("SaveTransferOrder"), UNCHANGED <<vendorId, seen>>
        PROVE  OnPath
    <2> USE DEF PathInv
    <2>1. /\ JobsInv' /\ Steady
          /\ \E i : i = Len(transfers[Membership]) + 1 /\ Own(i)'
      BY <1>1, <1>3, JobsTried DEF jobVars
    <2>2. MainStays
      BY <1>1 DEF MainStays, airtableVars
    <2>3. Recordeds = {} /\ Unsettled = {} /\ Recordeds' = {} /\ Unsettled' = {}
      <3>1. ~Transferred(Membership)
        BY <1>3 DEF TryTransfer, Transferable, Transferred
      <3>2. QED
        BY <1>1, <3>1 DEF DeploymentsInv, Recordeds, Unsettled
    <2>4. pc' = "SaveTransferOrder"
      BY <1>3 DEF Goto
    <2>5. TypedInv'
      BY <1>1, <1>3 DEF TypedInv
    <2>6. SeenInv'
      BY <1>1, <1>3, <2>1, <2>2, <2>4, SteadyMeans
         DEF SeenInv, MainStays, Steady, Unread, Idle, Final
    <2>7. VendorInv'
      <3>1. OwnTransfer(vendorId) => OwnTransfer(vendorId)'
        BY <1>3, <2>1, SteadyMeans DEF OwnTransfer, TransferId
      <3>2. QED
        BY <1>3, <2>1, <2>4, <3>1 DEF VendorInv, Steady
    <2>8. OwnTransfer(ctx.newOrderId)'
      <3>1. ctx'.newOrderId = TransferId(Len(transfers[Membership]) + 1)
        BY <1>3 DEF TypedInv
      <3>2. QED
        BY <2>1, <3>1 DEF OwnTransfer, TransferId
    <2>9. RouteInv' /\ ReadyInv'
      BY <2>4, <2>8 DEF RouteInv, ReadyInv, Early, MigratedPath, BuyPath, TransferredPath,
         Publishing, BuyingOn, OwnPublishing
    <2>10. DeploymentsInv' /\ PublishInv'
      BY <1>1, <2>1, <2>3, SteadyMeans DEF DeploymentsInv, PublishInv
    <2>11. WaitInv'
      BY <1>1, <1>3, <2>3, <2>4 DEF WaitInv, BeforeCheck, Synchronized, Unready, Missing
    <2>12. QED
      BY <2>1, <2>5, <2>6, <2>7, <2>9, <2>10, <2>11 DEF OnPath
  <1>4. QED
    BY <1>2, <1>3 DEF SubmitTransferOrder

LEMMA SaveTransferOnPath ==
  ASSUME JobsInv, PathInv, SaveTransferOrder("CheckAdobeTransferOrder")
  PROVE  OnPath
  <1> USE DEF PathInv
  <1>1. /\ pc = "SaveTransferOrder" /\ pc' = "CheckAdobeTransferOrder"
        /\ vendorId' = ctx.newOrderId
        /\ UNCHANGED <<ctx, migrationVars, deployments, customerDeployments, published, seen>>
    BY DEF SaveTransferOrder, Goto, deploymentVars
  <1>2. JobsInv' /\ Steady /\ MainStays
    BY <1>1, Undisturbed
  <1>3. Recordeds = {} /\ Unsettled = {} /\ Recordeds' = {} /\ Unsettled' = {}
    BY <1>1 DEF WaitInv, Recordeds, Unsettled
  <1>4. OwnTransfer(ctx.newOrderId)'
    BY <1>1, <1>2, SteadyMeans DEF RouteInv, OwnTransfer, TransferId
  <1>5. TypedInv' /\ SeenInv'
    BY <1>1, <1>2, SteadyMeans DEF TypedInv, SeenInv, MainStays, Steady, Unread, Idle
  <1>6. VendorInv'
    BY <1>1, <1>4 DEF VendorInv, OwnTransfer
  <1>7. RouteInv' /\ ReadyInv'
    BY <1>1, <1>4 DEF RouteInv, ReadyInv, Early, MigratedPath, BuyPath, TransferredPath,
       Publishing, BuyingOn, OwnPublishing
  <1>8. DeploymentsInv' /\ PublishInv'
    BY <1>1, <1>2, <1>3, SteadyMeans DEF DeploymentsInv, PublishInv
  <1>9. WaitInv'
    BY <1>1, <1>3 DEF WaitInv, BeforeCheck, Synchronized, Unready, Missing
  <1>10. QED
    BY <1>2, <1>5, <1>6, <1>7, <1>8, <1>9 DEF OnPath

LEMMA CheckTransferOnPath ==
  ASSUME JobsInv, PathInv, CheckAdobeTransferOrder("ValidateDeploymentItems")
  PROVE  OnPath
  <1>1. /\ pc = "CheckAdobeTransferOrder" /\ UNCHANGED migrationVars
        /\ UNCHANGED <<deployments, customerDeployments, published>>
    BY DEF CheckAdobeTransferOrder, deploymentVars
  <1>2. CASE Leave(Wait) \/ Leave(switch_order_to_failed)
    BY <1>1, <1>2, EndsQuietly
       DEF Ends, Leave, Wait, EndPass, Decide, switch_order_to_failed
  <1>3. CASE /\ TransferOf(ctx.newOrderId) = "COMPLETE"
             /\ Continue("ValidateDeploymentItems") /\ UNCHANGED seen
    <2>1. PICK i : Own(i) /\ ctx.newOrderId = TransferId(i)
      BY <1>1 DEF PathInv, RouteInv, OwnTransfer
    <2>2. i \in Nat /\ MaxNewOrders \in Nat
      <3>1. transfers[Membership] \in Seq(TransferStatus)
        BY TransferOrderAssumption DEF JobsInv, MigrationInv, MigrationTypeOK
      <3>2. QED
        BY <2>1, <3>1, NewOrderAssumption DEF Own
    <2>3. Completed(i)
      BY <1>3, <2>1, <2>2 DEF TransferOf, TransferId, Completed
    <2>4. pc' = "ValidateDeploymentItems" /\ UNCHANGED <<ctx, vendorId>>
      BY <1>3 DEF Continue, Goto
    <2>5. OwnCompleted(ctx.newOrderId)
      BY <2>1, <2>3 DEF OwnCompleted
    <2>6. pc \in BeforeCheck /\ pc' \in BeforeCheck
      BY <1>1, <2>4 DEF BeforeCheck
    <2>7. QED
      BY <1>1, <1>3, <2>4, <2>5, <2>6, BeforeCheckGoesOn
  <1>4. QED
    BY <1>2, <1>3 DEF CheckAdobeTransferOrder

LEMMA ValidateItemsOnPath ==
  ASSUME JobsInv, PathInv, ValidateDeploymentItems("ValidateAgreementDeployments")
  PROVE  OnPath
  <1>1. /\ pc = "ValidateDeploymentItems"
        /\ UNCHANGED <<records, purchaseVars, transferVars, jobVars, deploymentVars, published>>
    BY DEF ValidateDeploymentItems
  <1>2. CASE Continue("ValidateAgreementDeployments") /\ UNCHANGED <<main, seen>>
    <2>1. UNCHANGED migrationVars
      BY <1>1, <1>2 DEF migrationVars, airtableVars, jobVars
    <2>2. JobsInv' /\ Steady /\ MainStays
      BY <2>1, Undisturbed
    <2>3. pc' = "ValidateAgreementDeployments" /\ UNCHANGED <<ctx, vendorId>>
      BY <1>2 DEF Continue, Goto
    <2>4. SeenStays
      BY <1>2 DEF SeenStays, PathInv, TypedInv
    <2>5. QED
      BY <1>1, <1>2, <2>2, <2>3, <2>4, TransferredGoesOn DEF deploymentVars, OnPath
  <1>3. CASE ManageDeploymentItems
    BY <1>1, <1>3, LeftToTeamOnPath
  <1>4. QED
    BY <1>2, <1>3 DEF ValidateDeploymentItems

LEMMA ProcessTransferOnPath ==
  ASSUME JobsInv, PathInv, ProcessTransferOrder("CreateTransferSubscriptions")
  PROVE  OnPath
  <1>1. JobsInv' /\ Steady /\ MainStays
    BY Undisturbed DEF ProcessTransferOrder
  <1>2. SeenStays
    BY DEF ProcessTransferOrder, SeenStays, PathInv, TypedInv, SeenType
  <1>3. /\ pc \in OwnPublishing /\ pc' \in OwnPublishing
        /\ vendorId' = ctx.newOrderId /\ UNCHANGED <<ctx, deployments, customerDeployments>>
    BY DEF ProcessTransferOrder, Goto, OwnPublishing, deploymentVars
  <1>4. QED
    BY <1>1, <1>2, <1>3, TransferredGoesOn DEF OnPath

-----------------------------------------------------------------------------
(* Publishing, and closing the record.                                      *)

\* A pass that publishes leaves the membership alone.
LEMMA AddSubscriptionsOnPath ==
  ASSUME JobsInv, PathInv, NEW step, NEW next, AddSubscriptions(step, next),
         \/ step = "AddSubscriptions" /\ next = "CompleteMigrated"
         \/ step = "CreateTransferSubscriptions" /\ next = "CompleteTransferOrder"
  PROVE  OnPath
  <1> USE DEF PathInv
  <1>1. /\ pc = step /\ UNCHANGED <<records, main, transfers, expired, starting, checking,
                                    deployments, customerDeployments, vendorId>>
        /\ ctx' = ctx \/ ctx' = EmptyContext
    BY DEF AddSubscriptions, AddSubscription, migrationVars, airtableVars, transferVars, jobVars,
       deploymentVars, Continue, Leave, Wait, EndPass
  <1>2. Steady /\ MainStays
    BY <1>1, SteadyAside DEF MainStays
  <1>3. LeftAlone
    BY <1>1, SteadyMeans DEF RouteInv, MigratedPath, TransferredPath, LeftAlone, Final, OwnDone,
       OwnCompleted
  <1>4. JobsInv'
    <2>1. CASE UNCHANGED renewing
      <3>1. main' \in [Memberships -> MainAgreement]
        BY <1>1 DEF JobsInv, MigrationInv, MigrationTypeOK
      <3>2. QED
        BY <1>1, <2>1, <3>1, JobsAside DEF transferVars
    <2>2. ASSUME NEW s \in Subscriptions,
                 renewing' = [renewing EXCEPT ![Membership] = @ \cup {s}]
          PROVE  JobsInv'
      BY <1>1, <1>3, <2>2, JobsRenewed DEF airtableVars
    <2>3. UNCHANGED renewing \/ \E s \in Subscriptions :
              renewing' = [renewing EXCEPT ![Membership] = @ \cup {s}]
      BY DEF AddSubscriptions, AddSubscription, ActiveSubscriptions, migrationVars, transferVars
    <2>4. QED
      BY <2>1, <2>2, <2>3
  <1>5. CASE Leave(Wait) /\ UNCHANGED published
    BY <1>1, <1>2, <1>4, <1>5, EndsKept DEF Leave, Wait, EndPass, OnPath
  <1>6. CASE (Continue(step) \/ Continue(next))
             /\ (UNCHANGED seen \/ \E s \in seen.items : seen' = [seen EXCEPT !.items = @ \ {s}])
    <2>1. SeenStays
      BY <1>6 DEF SeenStays, TypedInv, SeenType
    <2>2. pc' \in {step, next} /\ UNCHANGED <<ctx, vendorId>>
      BY <1>6 DEF Continue, Goto
    <2>3. {"newOrderId", "newOrder", "preview"} \subseteq DOMAIN ctx'
      BY <2>2 DEF TypedInv
    <2>4. CASE step = "AddSubscriptions"
      <3>1. pc \in Publishing /\ pc' \in Publishing
        BY <1>1, <2>2, <2>4 DEF Publishing
      <3>2. QED
        BY <1>1, <1>2, <1>4, <2>1, <2>3, <3>1, MigratedGoesOn DEF OnPath
    <2>5. CASE step = "CreateTransferSubscriptions"
      <3>1. pc \in OwnPublishing /\ pc' \in OwnPublishing
        BY <1>1, <2>2, <2>5 DEF OwnPublishing
      <3>2. QED
        BY <1>1, <1>2, <1>4, <2>1, <2>2, <3>1, TransferredGoesOn DEF OnPath
    <2>6. QED
      BY <2>4, <2>5
  <1>7. QED
    BY <1>5, <1>6 DEF AddSubscriptions, AddSubscription

LEMMA CompleteOnPath ==
  ASSUME JobsInv, PathInv,
         \/ Complete("CompleteMigrated", "Synchronize")
         \/ Complete("CompletePurchase", "UpdateTransferStatus")
         \/ Complete("CompleteTransferOrder", "SyncTransferred")
  PROVE  OnPath
  <1>1. JobsInv' /\ Steady /\ MainStays
    BY Undisturbed DEF Complete
  <1>2. SeenStays /\ UNCHANGED <<ctx, vendorId, deployments, customerDeployments>>
    BY DEF Complete, SeenStays, PathInv, TypedInv, deploymentVars
  <1>3. {"newOrderId", "newOrder", "preview"} \subseteq DOMAIN ctx'
    BY <1>2 DEF PathInv, TypedInv
  <1>4. \/ pc \in Publishing /\ pc' = "Synchronize"
        \/ pc \in BuyingOn /\ pc' \in BuyPath
        \/ pc \in OwnPublishing /\ pc' = "SyncTransferred"
    BY DEF Complete, Goto, Publishing, BuyingOn, BuyPath, OwnPublishing
  <1>5. QED
    BY <1>1, <1>2, <1>3, <1>4, MigratedGoesOn, TransferredGoesOn DEF OnPath

LEMMA CloseOnPath ==
  ASSUME JobsInv, PathInv,
         UpdateTransferStatus("Synchronize", "SyncMigrated")
         \/ UpdateTransferStatus("UpdateTransferStatus", Idle)
  PROVE  OnPath
  <1>1. Final
    BY DEF UpdateTransferStatus, PathInv, RouteInv, MigratedPath, BuyPath
  <1>2. JobsInv' /\ Steady /\ MainStays
    BY <1>1, JobsClosed DEF UpdateTransferStatus, MainStays, jobVars
  <1>3. UNCHANGED <<deployments, customerDeployments, published>>
    BY DEF UpdateTransferStatus, deploymentVars
  <1>4. CASE UpdateTransferStatus("Synchronize", "SyncMigrated")
    <2>1. /\ pc = "Synchronize" /\ pc' = "SyncMigrated" /\ UNCHANGED <<vendorId, ctx, seen>>
      BY <1>4 DEF UpdateTransferStatus, Continue, Goto, Idle
    <2>2. SeenStays /\ {"newOrderId", "newOrder", "preview"} \subseteq DOMAIN ctx'
      BY <2>1 DEF SeenStays, PathInv, TypedInv
    <2>3. QED
      BY <1>2, <1>3, <2>1, <2>2, MigratedGoesOn DEF OnPath
  <1>5. CASE UpdateTransferStatus("UpdateTransferStatus", Idle)
    BY <1>2, <1>3, <1>5, EndsKept DEF UpdateTransferStatus, Leave, Wait, EndPass, OnPath
  <1>6. QED
    BY <1>4, <1>5

LEMMA SyncMainOnPath ==
  ASSUME JobsInv, PathInv,
         \/ SyncMainAgreement("SyncMigrated", Idle)
         \/ SyncMainAgreement("SyncTransferred", Idle)
         \/ SyncMainAgreement("SyncGCMainAgreement", "CompletePurchase")
  PROVE  OnPath
  <1>1. JobsInv' /\ Steady /\ MainStays
    BY MainKept DEF SyncMainAgreement
  <1>2. UNCHANGED <<deployments, customerDeployments, published>>
    BY DEF SyncMainAgreement, deploymentVars
  <1>3. CASE SyncMainAgreement("SyncGCMainAgreement", "CompletePurchase")
    <2>1. /\ pc \in BuyingOn /\ pc' \in BuyPath /\ UNCHANGED <<vendorId, ctx, seen>>
      BY <1>3 DEF SyncMainAgreement, Continue, Goto, Idle, BuyingOn, BuyPath
    <2>2. SeenStays /\ {"newOrderId", "newOrder", "preview"} \subseteq DOMAIN ctx'
      BY <2>1 DEF SeenStays, PathInv, TypedInv
    <2>3. QED
      BY <1>1, <1>2, <2>1, <2>2, MigratedGoesOn DEF OnPath
  <1>4. CASE SyncMainAgreement("SyncMigrated", Idle) \/ SyncMainAgreement("SyncTransferred", Idle)
    BY <1>1, <1>2, <1>4, EndsKept DEF SyncMainAgreement, Leave, Wait, EndPass, OnPath
  <1>5. QED
    BY <1>3, <1>4

LEMMA TransferOnPath ==
  ASSUME JobsInv, PathInv, Transfer
  PROVE  OnPath
  BY ValidateTransferOnPath, SubmitTransferOnPath, SaveTransferOnPath, CheckTransferOnPath,
     ValidateItemsOnPath, CheckDeploymentsOnPath, ProcessTransferOnPath, AddSubscriptionsOnPath,
     CompleteOnPath, SyncMainOnPath
     DEF Transfer

-----------------------------------------------------------------------------
(* A migrated transfer.                                                     *)

LEMMA SelectOnPath ==
  ASSUME JobsInv, PathInv, SelectFulfilment
  PROVE  OnPath
  <1>1. /\ pc = "SelectFulfilment" /\ pc \in Publishing
        /\ UNCHANGED <<records, transferVars, jobVars, deployments, customerDeployments, published>>
    BY DEF SelectFulfilment, deploymentVars, Publishing
  <1>2. JobsInv' /\ Steady /\ MainStays
    BY <1>1, MainKept DEF SelectFulfilment
  <1>3. CASE Leave(EndPass) \/ Leave(switch_order_to_failed)
    <2>1. Final /\ Unsettled = {}
      BY <1>1 DEF PathInv, RouteInv, ReadyInv, MigratedPath, Publishing
    <2>2. QED
      BY <1>1, <1>2, <1>3, <2>1, EndsKept
         DEF Leave, EndPass, Decide, switch_order_to_failed, OnPath
  <1>4. CASE Continue("SaveCustomerData") /\ UNCHANGED seen
    <2>1. SeenStays /\ {"newOrderId", "newOrder", "preview"} \subseteq DOMAIN ctx'
      BY <1>4 DEF Continue, SeenStays, PathInv, TypedInv
    <2>2. QED
      BY <1>1, <1>2, <1>4, <2>1, MigratedGoesOn DEF Continue, Goto, OnPath
  <1>5. CASE /\ seen' = [seen EXCEPT !.items = ActiveSubscriptions(Membership) \cup ActiveLines]
             /\ Goto("AddSubscriptions") /\ UNCHANGED ctx
    <2>1. SeenStays /\ {"newOrderId", "newOrder", "preview"} \subseteq DOMAIN ctx'
      <3>1. ActiveSubscriptions(Membership) \cup ActiveLines \subseteq Subscriptions \cup Lines
        BY DEF ActiveSubscriptions, ActiveLines
      <3>2. QED
        BY <1>5, <3>1 DEF SeenStays, SeenType, PathInv, TypedInv
    <2>2. pc' \in Publishing
      BY <1>5 DEF Goto, Publishing
    <2>3. QED
      BY <1>1, <1>2, <2>1, <2>2, MigratedGoesOn DEF OnPath
  <1>6. QED
    BY <1>3, <1>4, <1>5 DEF SelectFulfilment

LEMMA MigratedOnPath ==
  ASSUME JobsInv, PathInv, Migrated
  PROVE  OnPath
  BY CheckDeploymentsOnPath, SelectOnPath, AddSubscriptionsOnPath, CompleteOnPath, CloseOnPath,
     SyncMainOnPath
     DEF Migrated

-----------------------------------------------------------------------------
(* Renewing and buying anew.                                                *)

\* A step of a pass that buys anew.
Buys ==
    /\ pc \in BuyingOn
    /\ UNCHANGED <<migrationVars, deployments, customerDeployments>>
    /\ \/ pc' = Idle /\ seen' = NothingSeen /\ ctx' = EmptyContext /\ UNCHANGED published
       \/ pc' \in BuyPath /\ SeenStays
          /\ {"newOrderId", "newOrder", "preview"} \subseteq DOMAIN ctx'

LEMMA BuysKept ==
  ASSUME JobsInv, PathInv, Buys
  PROVE  OnPath
  <1>1. JobsInv' /\ Steady /\ MainStays
    BY Undisturbed DEF Buys
  <1>2. Final /\ Unsettled = {}
    BY DEF Buys, PathInv, RouteInv, ReadyInv, BuyingOn
  <1>3. QED
    BY <1>1, <1>2, EndsKept, MigratedGoesOn DEF Buys, OnPath

LEMMA SeenAsIs == TypedInv /\ UNCHANGED seen => SeenStays
  BY DEF SeenStays, TypedInv

LEMMA CtxAsIs == TypedInv => {"newOrderId", "newOrder", "preview"} \subseteq DOMAIN ctx
  BY DEF TypedInv

LEMMA RenewingOnPath ==
  ASSUME JobsInv, PathInv, CheckManualRenewalSubscriptions("GetPreviewOrder") \/ Renewing
  PROVE  OnPath
  <1>1. CASE CheckManualRenewalSubscriptions("GetPreviewOrder")
    <2> USE <1>1 DEF CheckManualRenewalSubscriptions
    <2>1. /\ pc \in BuyingOn
          /\ UNCHANGED <<migrationVars, deployments, customerDeployments, published>>
      BY DEF RestoreFromStored, ComputeFromAdobe, BuyingOn, BuyPath, deploymentVars
    <2>2. \/ pc' = Idle /\ ctx' = EmptyContext
          \/ pc' = "GetPreviewOrder" /\ ctx' = ctx
      BY DEF RestoreFromStored, ComputeFromAdobe, Continue, Goto, Decide, EndPass,
         switch_order_to_failed
    <2>3. CASE pc' = Idle /\ ctx' = EmptyContext
      <3>1. seen' = NothingSeen
        BY <2>3 DEF RestoreFromStored, Continue, Goto, Idle
      <3>2. QED
        BY <2>1, <2>3, <3>1, BuysKept DEF Buys
    <2>4. CASE pc' = "GetPreviewOrder" /\ ctx' = ctx
      <3>1. SeenStays
        BY <2>4 DEF SeenStays, PathInv, TypedInv, SeenType, Idle
      <3>2. pc' \in BuyPath
        BY <2>4 DEF BuyPath
      <3>3. QED
        BY <2>1, <2>4, <3>1, <3>2, BuysKept, CtxAsIs DEF Buys, PathInv
    <2>5. QED
      BY <2>2, <2>3, <2>4
  <1>2. CASE Renewing
    <2> USE <1>2 DEF Renewing, Forgets
    <2>1. /\ pc \in BuyingOn
          /\ UNCHANGED <<migrationVars, deployments, customerDeployments, published>>
      BY DEF PreviewRenewalOrders, SubmitRenewalOrders, BuyingOn, BuyPath, deploymentVars
    <2>2. \/ pc' = Idle /\ ctx' = EmptyContext
          \/ pc' \in BuyPath /\ pc' # Idle /\ ctx' = ctx
      BY DEF PreviewRenewalOrders, SubmitRenewalOrders, FindRenewalOrder, PlaceRenewalOrder,
         FollowRenewalOrder, Continue, Goto, Wait, Decide, EndPass, switch_order_to_failed,
         BuyPath, Idle
    <2>3. seen' = IF pc' = Idle THEN NothingSeen ELSE seen
      OBVIOUS
    <2>4. QED
      BY <2>1, <2>2, <2>3, BuysKept, SeenAsIs, CtxAsIs DEF Buys, PathInv
  <1>3. QED
    BY <1>1, <1>2

LEMMA BuyingOnPath ==
  ASSUME JobsInv, PathInv, Buying
  PROVE  OnPath
  <1> USE DEF Buying, Forgets
  <1>1. /\ pc \in BuyingOn
        /\ UNCHANGED <<migrationVars, deployments, customerDeployments, published>>
    BY DEF GetRestPreview, FindTransfer, SubmitRestOrder, SubmitNewOrder, SkipNewOrder,
       PlaceNewOrder, SaveNewOrder, FetchNewOrder, BuyingOn, BuyPath, deploymentVars
  <1>2. \/ pc' = Idle /\ ctx' = EmptyContext
        \/ pc' \in BuyPath /\ pc' # Idle /\ DOMAIN ctx' = DOMAIN ctx
    <2> USE DEF Continue, Goto, Wait, Decide, EndPass, switch_order_to_failed, BuyPath, Idle
    <2>1. CASE GetRestPreview("PreviewRenewalOrders") \/ FindTransfer
      BY <2>1 DEF GetRestPreview, FindTransfer
    <2>2. CASE SubmitRestOrder("CreateOrUpdateAssets")
      BY <2>2 DEF SubmitRestOrder, SubmitNewOrder, SkipNewOrder, PlaceNewOrder, SaveNewOrder,
         FetchNewOrder, FollowOrder
    <2>3. QED
      BY <2>1, <2>2
  <1>3. seen' = IF pc' = Idle THEN NothingSeen ELSE seen
    OBVIOUS
  <1>4. QED
    BY <1>1, <1>2, <1>3, BuysKept, SeenAsIs, CtxAsIs DEF Buys, PathInv

LEMMA PublishAnewOnPath ==
  ASSUME JobsInv, PathInv,
         \/ SaveCustomerData("CheckManualRenewalSubscriptions")
         \/ CreateOrUpdateAssets("CreateOrUpdateSubscriptions")
         \/ CreateOrUpdateSubscriptions("SyncGCMainAgreement")
  PROVE  OnPath
  <1> USE DEF SaveCustomerData, CreateOrUpdateAssets, CreateOrUpdateSubscriptions, Forgets
  <1>1. /\ pc \in BuyingOn
        /\ UNCHANGED <<migrationVars, deployments, customerDeployments>>
    BY DEF BuyingOn, BuyPath, deploymentVars
  <1>2. \/ pc' = Idle /\ ctx' = EmptyContext /\ seen' = NothingSeen /\ UNCHANGED published
        \/ pc' \in BuyPath /\ ctx' = ctx /\ seen' = seen
    BY DEF Continue, Goto, Wait, EndPass, BuyPath, Idle
  <1>3. QED
    BY <1>1, <1>2, BuysKept, SeenAsIs, CtxAsIs DEF Buys, PathInv

LEMMA BuyAnewOnPath ==
  ASSUME JobsInv, PathInv, BuyAnew
  PROVE  OnPath
  BY PublishAnewOnPath, RenewingOnPath, BuyingOnPath, SyncMainOnPath, CompleteOnPath, CloseOnPath
     DEF BuyAnew

\* All of it, along every behaviour.
WholeInv == Inv /\ JobsInv /\ PathInv

LEMMA WholeInvInit == Init => WholeInv
  <1> SUFFICES ASSUME Init
               PROVE  WholeInv
    OBVIOUS
  <1>1. Inv
    BY InitInv
  <1>2. MigrationInv
    BY MigrationInitInv DEF Init
  <1>3. CustomersKnown /\ Checked /\ TransfersNamed
    BY DEF Init, MigrationInit, NoRecord, NoJob, CustomersKnown, Checked, TransfersNamed
  <1>4. Membership \in Memberships
    BY TransferOrderAssumption
  <1>5. TypedInv
    BY NothingSeenTyped, EmptyContextTyped DEF Init, PassInit, TypedInv, DeploymentStatus
  <1>6. SeenInv
    BY DEF Init, PassInit, NothingSeen, NoRecord, SeenInv, Unread
  <1>7. VendorInv /\ RouteInv /\ ReadyInv
    BY DEF Init, PassInit, VendorInv, RouteInv, ReadyInv, Early, MigratedPath, BuyPath,
       TransferredPath, Publishing, BuyingOn, OwnPublishing, Idle
  <1>8. PublishInv /\ DeploymentsInv /\ WaitInv
    BY DEF Init, PassInit, PublishInv, DeploymentsInv, WaitInv, Recordeds, Unsettled,
       BeforeCheck, Idle
  <1>9. QED
    BY <1>1, <1>2, <1>3, <1>5, <1>6, <1>7, <1>8 DEF WholeInv, JobsInv, PathInv

LEMMA WholeInvKept == WholeInv /\ [Next]_vars => WholeInv'
  <1> SUFFICES ASSUME WholeInv, [Next]_vars
               PROVE  WholeInv'
    OBVIOUS
  <1> USE DEF WholeInv
  <1>1. Inv'
    BY InvKept
  <1>2. CASE UNCHANGED vars
    <2>1. JobsInv' /\ Steady /\ MainStays
      BY <1>2, Undisturbed DEF vars
    <2>2. DeploymentsMove /\ UNCHANGED <<pc, ctx, vendorId, published, seen>>
      BY <1>2 DEF vars, passVars, DeploymentsMove, PathInv, TypedInv
    <2>3. QED
      BY <1>1, <2>1, <2>2, AroundKept
  <1>3. CASE Next
    <2>1. OnPath
      BY <1>3, PlatformOnPath, MigratingOnPath, ElsewhereOnPath, PrepareOnPath, MigratedOnPath,
         BuyAnewOnPath, TransferOnPath
         DEF Next, Step
    <2>2. QED
      BY <1>1, <2>1 DEF OnPath
  <1>4. QED
    BY <1>2, <1>3

LEMMA WholeInvHolds == Spec => []WholeInv
  BY WholeInvInit, WholeInvKept, PTL DEF Spec

LEMMA CompletesReady ==
  ASSUME WholeInv, [Next]_vars, status # "Completed", status' = "Completed"
  PROVE  pc \in {"CompleteMigrated", "CompletePurchase", "CompleteTransferOrder"}
  <1>1. CASE UNCHANGED vars
    BY <1>1 DEF vars, passVars
  <1>2. CASE Platform
    BY <1>2 DEF Platform, Dispatch, Leave, Abort, Wait, Resume, NextDay
  <1>3. CASE Migrating \/ Elsewhere
    BY <1>3 DEF Migrating, Elsewhere, AdobeAddsDeployment, DeploymentSettled,
       AdobeSettlesNewOrder, AdobeSettlesLateRenewal, passVars
  <1> USE DEF Continue, Goto, Wait, Leave, Decide, EndPass, switch_order_to_failed,
              switch_order_to_query
  <1>4. CASE Prepare
    BY <1>4 DEF Prepare, SetupContext, SetupDueDate, SetupTransferContext,
       ValidateGCMainAgreement, HandleMigratedTransfer, ManageDeploymentItems
  <1>5. CASE Migrated
    BY <1>5 DEF Migrated, CheckDeployments, SelectFulfilment, AddSubscriptions, AddSubscription,
       Complete, UpdateTransferStatus, SyncMainAgreement
  <1>6. CASE Transfer
    BY <1>6 DEF Transfer, ValidateTransfer, SubmitTransferOrder, SaveTransferOrder,
       CheckAdobeTransferOrder, ValidateDeploymentItems, ManageDeploymentItems,
       CheckDeployments, ProcessTransferOrder, AddSubscriptions, AddSubscription, Complete,
       SyncMainAgreement
  <1>7. CASE BuyAnew
    <2>1. CASE CheckManualRenewalSubscriptions("GetPreviewOrder")
      BY <2>1 DEF CheckManualRenewalSubscriptions, RestoreFromStored, ComputeFromAdobe
    <2>2. CASE Renewing
      BY <2>2 DEF Renewing, Forgets, PreviewRenewalOrders, SubmitRenewalOrders,
         FindRenewalOrder, PlaceRenewalOrder, FollowRenewalOrder
    <2>3. CASE Buying
      BY <2>3 DEF Buying, Forgets, GetRestPreview, FindTransfer, SubmitRestOrder, SubmitNewOrder,
         SkipNewOrder, PlaceNewOrder, SaveNewOrder, FetchNewOrder, FollowOrder
    <2>4. QED
      BY <1>7, <2>1, <2>2, <2>3 DEF BuyAnew, SaveCustomerData, CreateOrUpdateAssets,
         CreateOrUpdateSubscriptions, Forgets, Complete, UpdateTransferStatus,
         SyncMainAgreement
  <1>8. QED
    BY <1>1, <1>2, <1>3, <1>4, <1>5, <1>6, <1>7 DEF Next, Step

\* The order of a global customer is completed only when every deployment
\* Airtable records has got its agreement: nothing is left unsettled from the
\* check of the pass on, and the jobs add none
\* (are_all_deployments_synchronized, _check_agreement_deployments).
THEOREM DeploymentsBeforeCompletionCorrect == Spec => DeploymentsBeforeCompletion
  <1> DEFINE Ready == status # "Completed" /\ status' = "Completed" =>
         /\ \A d \in Deployments : deployments[d] \in {"absent", "created"}
         /\ pc # "CompletePurchase" => \A d \in seen.listed : deployments[d] = "created"
  <1>1. WholeInv /\ [Next]_vars => [Ready]_vars
    <2> SUFFICES ASSUME WholeInv, [Next]_vars, status # "Completed", status' = "Completed"
                 PROVE  Ready
      OBVIOUS
    <2>1. pc \in {"CompleteMigrated", "CompletePurchase", "CompleteTransferOrder"}
      BY CompletesReady
    <2>2. Unsettled = {}
      BY <2>1 DEF WholeInv, PathInv, ReadyInv, Publishing, BuyingOn, BuyPath, OwnPublishing
    <2>3. pc # "CompletePurchase" => \A d \in seen.listed : deployments[d] = "created"
      BY <2>1 DEF WholeInv, PathInv, ReadyInv, Publishing, OwnPublishing
    <2>4. QED
      BY <2>2, <2>3 DEF Unsettled
  <1>2. QED
    BY <1>1, WholeInvHolds, PTL DEF Spec, DeploymentsBeforeCompletion

\* No job switches off the auto-renewal of a subscription an order has
\* published: the order leaves the membership alone while its migration runs,
\* and its own transfer keeps the jobs from it (_transfer_migrated).
THEOREM PublishedKeepsRenewingCorrect == Spec => PublishedKeepsRenewing
  <1> DEFINE KeepsRenewing == \A s \in published \cap Subscriptions :
                           s \in renewing[Membership] => s \in renewing'[Membership]
  <1>1. WholeInv /\ [Next]_vars => [KeepsRenewing]_vars
    <2> SUFFICES ASSUME WholeInv, [Next]_vars, NEW s \in published \cap Subscriptions,
                        s \in renewing[Membership]
                 PROVE  s \in renewing'[Membership]
      OBVIOUS
    <2>1. Membership \in Memberships /\ renewing \in [Memberships -> SUBSET Subscriptions]
      BY TransferOrderAssumption DEF WholeInv, JobsInv, MigrationInv, MigrationTypeOK
    <2>2. ~(checking.step # "next" /\ Membership \in checking.current)
      BY NobodySwitchesOff DEF WholeInv, PathInv, PublishInv
    <2>3. CASE UNCHANGED renewing
      BY <2>3
    <2>4. ASSUME NEW m \in Memberships, SwitchRenewalOff(m)
          PROVE  s \in renewing'[Membership]
      <3>1. m # Membership
        BY <2>2, <2>4 DEF SwitchRenewalOff, At
      <3>2. QED
        BY <2>1, <2>4, <3>1 DEF SwitchRenewalOff
    <2>5. ASSUME NEW m \in Memberships, AdobeSettlesTransfer(m)
          PROVE  s \in renewing'[Membership]
      BY <2>1, <2>5 DEF AdobeSettlesTransfer
    <2>6. ASSUME NEW added,
                 renewing' = [renewing EXCEPT ![Membership] = @ \cup {added}]
          PROVE  s \in renewing'[Membership]
      BY <2>1, <2>6
    <2>7. CASE Migrating
      BY <2>3, <2>4, <2>5, <2>7 DEF Migrating, MigrationNext, Jobs, Surroundings,
         ProcessTransfers, ProcessDies, CheckRunningTransfers, CheckDies, StartingStep,
         PreviewTransfer, CreateTransfer, SaveTransfer, CheckingStep, GetTransfer, GetCustomer,
         CreateMainAgreement, CompleteMigration, AddRecord, AdobeExpires, transferVars
    <2>8. CASE AddSubscriptions("AddSubscriptions", "CompleteMigrated")
               \/ AddSubscriptions("CreateTransferSubscriptions", "CompleteTransferOrder")
      BY <2>3, <2>6, <2>8 DEF AddSubscriptions, AddSubscription, migrationVars, transferVars
    <2>9. CASE UNCHANGED vars \/ Platform \/ Elsewhere
      BY <2>3, <2>9 DEF vars, Platform, Elsewhere, AdobeAddsDeployment, DeploymentSettled,
         migrationVars, transferVars
    <2>10. CASE Prepare \/ BuyAnew
      BY <2>3, <2>10 DEF Prepare, BuyAnew, SetupTransferContext, ValidateGCMainAgreement,
         HandleMigratedTransfer, SaveCustomerData, CheckManualRenewalSubscriptions, Renewing,
         Buying, CreateOrUpdateAssets, CreateOrUpdateSubscriptions, SyncMainAgreement, Complete,
         UpdateTransferStatus, migrationVars, transferVars
    <2>11. CASE Migrated \/ Transfer
      BY <2>3, <2>8, <2>11 DEF Migrated, Transfer, CheckDeployments, SelectFulfilment, Complete,
         UpdateTransferStatus, SyncMainAgreement, ValidateTransfer, SubmitTransferOrder,
         SaveTransferOrder, CheckAdobeTransferOrder, ValidateDeploymentItems,
         ProcessTransferOrder, migrationVars, transferVars
    <2>12. QED
      BY <2>7, <2>9, <2>10, <2>11 DEF Next, Step
  <1>2. QED
    BY <1>1, WholeInvHolds, PTL DEF Spec, PublishedKeepsRenewing

-----------------------------------------------------------------------------
(* What is renewed and bought.                                              *)

\* What it takes for nothing to be bought twice: Adobe takes a NEW order it has
\* seen for that one, and a retry is priced with the same offer again.
OneOffer ==
    /\ DeduplicatesOrders
    /\ \A offer1, offer2 \in Offers : offer1 = offer2

\* What a line asks for beyond its late renewal.
Left(line) == NewQuantity[line] - RenewalQuantity(line)
LeftLines == {line \in Lines : Left(line) > 0}
Wanted(offer) == [quantity |-> [line \in Lines |-> Left(line)], offer |-> offer]

LateDone == lateRenewals # <<>> /\ lateRenewals[1].status = "COMPLETE"
NewDone == newOrders # <<>> /\ newOrders[1].status = "COMPLETE"
AllDone == (ManualRenewalLines # {} => LateDone) /\ (LeftLines # {} => NewDone)

\* Where a pass is once it has previewed what is left, and has all of it.
Previewing == {"PreviewRenewalOrders", "SubmitRenewalOrders", "SubmitNewOrder"}
Delivering == {"CreateOrUpdateAssets", "CreateOrUpdateSubscriptions", "SyncGCMainAgreement",
               "CompletePurchase"}
Bought == {"SaveNewOrder", "UpdateTransferStatus"} \cup Delivering

InfoType == lateInfo \in [Lines -> Nat] /\ \A line \in Lines : lateInfo[line] <= NewQuantity[line]

TradeType ==
    /\ lateInfo # NoInfo => InfoType
    /\ lapsed \in [Lines -> Nat]
    /\ newOrders \in Seq(NewOrder) /\ Len(newOrders) <= 1
    /\ lateRenewals \in Seq(LateRenewalOrder) /\ Len(lateRenewals) <= 1

\* There is one order of each kind at most, for what was split off and what is
\* left.
OrdersInv ==
    /\ \A id \in DOMAIN newOrders :
          /\ \E offer \in Offers : newOrders[id].payload = Wanted(offer)
          /\ newOrders[id].returned = "none" /\ newOrders[id].status # "CANCELLED"
    /\ \A id \in DOMAIN lateRenewals : lateRenewals[id].quantity = lateInfo
    /\ lateRenewals # <<>> => ManualRenewalLines # {}
    /\ newOrders # <<>> => LeftLines # {} /\ (lateInfo = NoInfo => \A line \in Lines : lapsed[line] = 0)
    /\ LateDone \/ ManualRenewalLines \subseteq ExpiredLines
    /\ Anew => records[Membership].customerId

AccountsInv ==
    \A line \in Lines :
        current[line] = (IF LateDone THEN RenewalQuantity(line) ELSE 0)
                        + (IF NewDone THEN Left(line) ELSE 0)

IdsInv ==
    /\ vendorId \in Nat /\ ctx.newOrderId \in Nat
    /\ vendorId \in 1 .. MaxNewOrders => vendorId \in DOMAIN newOrders
    /\ ctx.newOrderId \in 1 .. MaxNewOrders => ctx.newOrderId \in DOMAIN newOrders
    /\ ctx.newOrder # "none" => pc \in Bought /\ ctx.newOrderId \in DOMAIN newOrders
    /\ seen.record.customerId => seen.record.transferId \in Nat \ {0}
    /\ pc \in {"CheckDeployments", "SelectFulfilment"} => seen.record.customerId

PreviewInv ==
    /\ ctx.preview # NoPreview =>
          /\ pc \in Previewing \cup Bought
          /\ \E offer \in Offers : ctx.preview = Wanted(offer)
    /\ pc \in Previewing /\ ctx.newOrderId = 0 /\ LeftLines # {} => ctx.preview # NoPreview
    /\ pc \in Previewing \cup {"GetPreviewOrder"} /\ ctx.newOrderId = 0 /\ lateInfo = NoInfo =>
          \A line \in Lines : lapsed[line] = 0

DoneInv ==
    /\ pc \in {"SubmitNewOrder", "SaveNewOrder"} \cup Delivering =>
          ManualRenewalLines = {} \/ LateDone
    /\ pc = "SaveNewOrder" =>
          /\ ctx.newOrderId \in DOMAIN newOrders
          /\ ctx.newOrder # "none"
          /\ ctx.newOrder = "COMPLETE" => newOrders[ctx.newOrderId].status = "COMPLETE"
    /\ pc \in Delivering => (LeftLines # {} => NewDone /\ ctx.newOrder # "none")
    /\ pc = "CreateOrUpdateAssets" /\ ctx.newOrderId = 0 => ActiveSubscriptions(Membership) = {}
    /\ pc \in Delivering \ {"CreateOrUpdateAssets"} => ActiveSubscriptions(Membership) = {}
    /\ pc \in {"SyncGCMainAgreement", "CompletePurchase"} => Lines \subseteq published

\* What is published by and by: all that is active, and all that was ordered.
DeliverInv ==
    /\ pc \in {"AddSubscriptions", "CompleteMigrated", "CreateTransferSubscriptions",
               "CompleteTransferOrder"} =>
          ActiveSubscriptions(Membership) \subseteq published \cup seen.items
    /\ pc \in {"AddSubscriptions", "CompleteMigrated"} /\ Anew =>
          AllDone /\ Lines \subseteq published \cup seen.items
    /\ pc \in {"CompleteMigrated", "CompleteTransferOrder"} => seen.items = {}
    /\ status = "Completed" =>
          /\ Transferred(Membership)
          /\ ActiveSubscriptions(Membership) \subseteq published
          /\ Anew => AllDone /\ Lines \subseteq published

TradeInv ==
    /\ TradeType /\ OrdersInv /\ AccountsInv /\ IdsInv /\ PreviewInv /\ DoneInv /\ DeliverInv

-----------------------------------------------------------------------------
LEMMA LinesAsk ==
  /\ PurchaseLines = Lines
  /\ \A line \in Lines : /\ NewQuantity[line] \in Nat \ {0} /\ FirstCurrent[line] = 0
                         /\ PurchaseQuantity(line) = NewQuantity[line]
  <1>1. \A line \in Lines : /\ OldQuantity[line] = 0 /\ NewQuantity[line] \in Nat \ {0}
                            /\ FirstCurrent[line] = 0
    BY TransferOrderAssumption, AdobeSubscriptionsAssumption
  <1>2. NewLines = Lines
    BY <1>1 DEF NewLines, UpsizeLines, DownsizeLines
  <1>3. PurchaseLines = Lines
    BY <1>2 DEF PurchaseLines, UpsizeLines, DownsizeLines
  <1>4. \A line \in Lines : PurchaseQuantity(line) = NewQuantity[line]
    BY <1>2 DEF PurchaseQuantity
  <1>5. QED
    BY <1>1, <1>3, <1>4

LEMMA RenewalIs ==
  ASSUME TradeType, NEW line \in Lines
  PROVE  /\ RenewalQuantity(line) \in Nat /\ RenewalQuantity(line) <= NewQuantity[line]
         /\ Left(line) \in Nat
  BY LinesAsk DEF TradeType, InfoType, RenewalQuantity, Left

LEMMA RestIs ==
  ASSUME TradeType
  PROVE  /\ RestLines = LeftLines
         /\ \A offer : RestPreview(offer) = Wanted(offer)
  <1>1. \A line \in Lines : RestQuantity(line) = Left(line)
    BY LinesAsk, RenewalIs DEF RestQuantity, Left, ManualRenewalLines
  <1>2. RestLines = LeftLines
    BY <1>1, LinesAsk, RenewalIs DEF RestLines, LeftLines, ManualRenewalLines, Left
  <1>3. \A line \in Lines : (IF line \in RestLines THEN RestQuantity(line) ELSE 0) = Left(line)
    BY <1>1, <1>2, RenewalIs DEF LeftLines
  <1>4. QED
    BY <1>2, <1>3 DEF RestPreview, Wanted

\* Once all is done, every line is delivered, and only then.
LEMMA DoneIsDelivered ==
  ASSUME TradeType, AccountsInv
  PROVE  AllDone <=> \A line \in Lines : current[line] = NewQuantity[line]
  <1>1. \A line \in Lines : /\ RenewalQuantity(line) \in Nat /\ Left(line) \in Nat
                            /\ Left(line) = NewQuantity[line] - RenewalQuantity(line)
                            /\ NewQuantity[line] \in Nat \ {0}
    BY LinesAsk, RenewalIs DEF Left
  <1>2. ASSUME AllDone, NEW line \in Lines
        PROVE  current[line] = NewQuantity[line]
    <2>1. ~LateDone => RenewalQuantity(line) = 0
      BY <1>1, <1>2 DEF AllDone, ManualRenewalLines
    <2>2. ~NewDone => Left(line) = 0
      BY <1>1, <1>2 DEF AllDone, LeftLines
    <2>3. QED
      BY <1>1, <2>1, <2>2 DEF AccountsInv
  <1>3. ASSUME \A line \in Lines : current[line] = NewQuantity[line]
        PROVE  AllDone
    <2>1. ASSUME NEW line \in ManualRenewalLines
          PROVE  LateDone
      BY <1>1, <1>3, <2>1 DEF ManualRenewalLines, AccountsInv
    <2>2. ASSUME NEW line \in LeftLines
          PROVE  NewDone
      BY <1>1, <1>3, <2>2 DEF LeftLines, AccountsInv
    <2>3. QED
      BY <2>1, <2>2 DEF AllDone
  <1>4. QED
    BY <1>2, <1>3

-----------------------------------------------------------------------------
(* Steps that order nothing.                                                *)

\* Nothing is ordered or processed, and no transferred subscription returns.
Unordered ==
    /\ UNCHANGED purchaseVars
    /\ expired[Membership] \subseteq expired'[Membership]

LEMMA SameOrders ==
  ASSUME UNCHANGED purchaseVars
  PROVE  /\ UNCHANGED <<current, newOrders, lapsed, lateInfo, lateRenewals>>
         /\ ManualRenewalLines' = ManualRenewalLines
         /\ LeftLines' = LeftLines /\ LateDone' = LateDone /\ NewDone' = NewDone
         /\ AllDone' = AllDone /\ Anew' = Anew
         /\ \A line : RenewalQuantity(line)' = RenewalQuantity(line) /\ Left(line)' = Left(line)
         /\ \A offer : Wanted(offer)' = Wanted(offer)
  <1>1. UNCHANGED <<current, newOrders, lapsed, lateInfo, lateRenewals>>
    BY DEF purchaseVars, subscriptionVars, lateVars
  <1>2. \A line : RenewalQuantity(line)' = RenewalQuantity(line)
    BY <1>1 DEF RenewalQuantity
  <1>3. \A line : Left(line)' = Left(line)
    BY <1>2 DEF Left
  <1>4. ManualRenewalLines' = ManualRenewalLines /\ LeftLines' = LeftLines
    BY <1>2, <1>3 DEF ManualRenewalLines, LeftLines
  <1>5. \A offer : Wanted(offer)' = Wanted(offer)
    BY <1>3 DEF Wanted
  <1>6. LateDone' = LateDone /\ NewDone' = NewDone /\ Anew' = Anew
    BY <1>1 DEF LateDone, NewDone, Anew
  <1>7. AllDone' = AllDone
    BY <1>4, <1>6 DEF AllDone
  <1>8. QED
    BY <1>1, <1>2, <1>3, <1>4, <1>5, <1>6, <1>7

LEMMA UnorderedKept ==
  ASSUME TradeInv, Steady, Unordered
  PROVE  /\ TradeType' /\ OrdersInv' /\ AccountsInv'
         /\ ActiveSubscriptions(Membership)' \subseteq ActiveSubscriptions(Membership)
  <1> USE SameOrders DEF TradeInv, Unordered
  <1>1. TradeType'
    BY DEF TradeType, InfoType
  <1>2. ExpiredLines \subseteq ExpiredLines'
    BY DEF ExpiredLines
  <1>3. OrdersInv'
    BY <1>2 DEF OrdersInv, Steady
  <1>4. AccountsInv'
    BY DEF AccountsInv
  <1>5. QED
    BY <1>1, <1>3, <1>4 DEF ActiveSubscriptions

\* Around a pass.
LEMMA AroundTrade ==
  ASSUME TradeInv, Steady, Unordered, UNCHANGED <<pc, ctx, vendorId, seen, published>>,
         status' = "Completed" => status = "Completed"
  PROVE  TradeInv'
  <1> USE SameOrders DEF TradeInv
  <1>1. /\ TradeType' /\ OrdersInv' /\ AccountsInv'
        /\ ActiveSubscriptions(Membership)' \subseteq ActiveSubscriptions(Membership)
    BY UnorderedKept
  <1>2. IdsInv'
    BY DEF IdsInv, Unordered
  <1>3. PreviewInv'
    BY DEF PreviewInv, Unordered
  <1>4. DoneInv'
    BY <1>1 DEF DoneInv, Unordered
  <1>5. DeliverInv'
    BY <1>1 DEF DeliverInv, Unordered, Steady
  <1>6. QED
    BY <1>1, <1>2, <1>3, <1>4, <1>5

\* Where a pass owes nothing to what is ordered.
Owing == Previewing \cup {"GetPreviewOrder", "SaveNewOrder"} \cup Delivering \cup
         {"AddSubscriptions", "CompleteMigrated", "CreateTransferSubscriptions",
          "CompleteTransferOrder"}

LEMMA FreeKept ==
  ASSUME TradeInv, Steady, Unordered, pc' \notin Owing, IdsInv',
         ctx'.preview = NoPreview \/ (pc' \in Bought /\ ctx'.preview = ctx.preview),
         published \subseteq published',
         status' = "Completed" => status = "Completed"
  PROVE  TradeInv'
  <1> USE SameOrders DEF TradeInv
  <1>1. /\ TradeType' /\ OrdersInv' /\ AccountsInv'
        /\ ActiveSubscriptions(Membership)' \subseteq ActiveSubscriptions(Membership)
    BY UnorderedKept
  <1>2. PreviewInv'
    BY DEF PreviewInv, Unordered, Owing
  <1>3. DoneInv'
    BY DEF DoneInv, Unordered, Owing, Previewing, Delivering
  <1>4. DeliverInv'
    BY <1>1 DEF DeliverInv, Unordered, Steady, Owing
  <1>5. QED
    BY <1>1, <1>2, <1>3, <1>4

\* A pass that ends.
LEMMA EndsTrade ==
  ASSUME TradeInv, Steady, Unordered,
         pc' = Idle, seen' = NothingSeen, ctx' = EmptyContext,
         vendorId' = vendorId \/ (vendorId' \in Nat /\ vendorId' \notin 1 .. MaxNewOrders)
             \/ vendorId' \in DOMAIN newOrders,
         published \subseteq published',
         status' = "Completed" => status = "Completed"
  PROVE  TradeInv'
  <1>1. ctx'.preview = NoPreview /\ ctx'.newOrderId = 0 /\ ctx'.newOrder = "none"
    BY DEF EmptyContext
  <1>2. pc' \notin Owing
    BY DEF Owing, Previewing, Delivering, Idle
  <1>3. IdsInv'
    <2>1. ~seen'.record.customerId
      BY DEF NothingSeen, NoRecord
    <2>2. newOrders' = newOrders /\ DOMAIN newOrders \subseteq Nat
      BY SameOrders DEF Unordered, TradeInv, TradeType
    <2>3. QED
      BY <1>1, <2>1, <2>2 DEF TradeInv, IdsInv, Idle
  <1>4. QED
    BY <1>1, <1>2, <1>3, FreeKept

\* A step that only goes on where nothing is owed yet.
LEMMA GoesOnFree ==
  ASSUME TradeInv, Steady, Unordered, pc' \notin Owing \cup {"CheckDeployments", "SelectFulfilment"},
         pc \notin Previewing \cup Bought,
         UNCHANGED <<ctx, vendorId, published>>, status' = "Completed" => status = "Completed",
         seen'.record = seen.record
  PROVE  TradeInv'
  <1>1. ctx'.preview = NoPreview /\ ctx'.newOrder = "none"
    BY DEF TradeInv, PreviewInv, IdsInv
  <1>2. IdsInv'
    BY <1>1, SameOrders DEF TradeInv, IdsInv, Unordered
  <1>3. QED
    BY <1>1, <1>2, FreeKept

LEMMA NextIsSteady ==
  ASSUME WholeInv, Next
  PROVE  Steady
  <1> USE DEF WholeInv
  <1>1. CASE UNCHANGED <<records, transfers, starting>>
    BY <1>1, SteadyAside
  <1>2. CASE Migrating
    BY <1>2, JobsKept, SteadyJobs DEF Migrating
  <1>3. CASE SubmitTransferOrder /\ TryTransfer(Membership)
    BY <1>3, JobsTried DEF SubmitTransferOrder, jobVars
  <1>4. CASE UpdateTransferStatus("Synchronize", "SyncMigrated")
             \/ UpdateTransferStatus("UpdateTransferStatus", Idle)
    <2>1. Final
      BY <1>4 DEF UpdateTransferStatus, PathInv, RouteInv, MigratedPath, BuyPath
    <2>2. QED
      BY <1>4, <2>1, JobsClosed DEF UpdateTransferStatus, jobVars
  <1> USE DEF migrationVars, transferVars, airtableVars, jobVars
  <1>5. CASE Platform \/ Elsewhere
    BY <1>1, <1>5 DEF Platform, Elsewhere, AdobeAddsDeployment, DeploymentSettled
  <1>6. CASE Prepare \/ BuyAnew
    BY <1>1, <1>4, <1>6 DEF Prepare, BuyAnew, SetupTransferContext, ValidateGCMainAgreement,
       HandleMigratedTransfer, SaveCustomerData, CheckManualRenewalSubscriptions, Renewing,
       Buying, CreateOrUpdateAssets, CreateOrUpdateSubscriptions, SyncMainAgreement, Complete
  <1>7. CASE Migrated \/ Transfer
    BY <1>1, <1>3, <1>4, <1>7 DEF Migrated, Transfer, CheckDeployments, SelectFulfilment,
       Complete, AddSubscriptions, AddSubscription, SyncMainAgreement, ValidateTransfer,
       SubmitTransferOrder, SaveTransferOrder, CheckAdobeTransferOrder,
       ValidateDeploymentItems, ProcessTransferOrder
  <1>8. QED
    BY <1>2, <1>5, <1>6, <1>7 DEF Next, Step

LEMMA PlatformTrade ==
  ASSUME TradeInv, Steady, Platform
  PROVE  TradeInv'
  <1>1. Unordered /\ UNCHANGED <<published, vendorId>>
    BY DEF Platform, Unordered, migrationVars, transferVars, Dispatch, Leave, Abort, Wait, Resume,
       NextDay
  <1>2. CASE Leave(Abort)
    BY <1>1, <1>2, EndsTrade DEF Leave, Abort, Wait, EndPass
  <1>3. CASE (Resume \/ NextDay) /\ UNCHANGED seen
    <2>1. UNCHANGED <<pc, ctx>> /\ (status' = "Completed" => status = "Completed")
      BY <1>3 DEF Resume, NextDay
    <2>2. QED
      BY <1>1, <1>3, <2>1, AroundTrade
  <1>4. CASE Dispatch /\ UNCHANGED seen
    <2>1. pc' = "SetupContext" /\ pc = Idle /\ UNCHANGED <<ctx, status>>
      BY <1>4 DEF Dispatch, Goto
    <2>2. pc' \notin Owing \cup {"CheckDeployments", "SelectFulfilment"}
          /\ pc \notin Previewing \cup Bought
      BY <2>1 DEF Owing, Previewing, Bought, Delivering, Idle
    <2>3. QED
      BY <1>1, <1>4, <2>1, <2>2, GoesOnFree
  <1>5. QED
    BY <1>2, <1>3, <1>4 DEF Platform

LEMMA MigratingTrade ==
  ASSUME WholeInv, TradeInv, Steady, Migrating
  PROVE  TradeInv'
  <1>1. expired[Membership] \subseteq expired'[Membership]
    <2>1. UNCHANGED expired \/ \E m \in Memberships : AdobeExpires(m)
      BY DEF Migrating, MigrationNext, Jobs, Surroundings, ProcessTransfers, ProcessDies,
         CheckRunningTransfers, CheckDies, StartingStep, PreviewTransfer, CreateTransfer,
         SaveTransfer, CheckingStep, GetTransfer, GetCustomer, SwitchRenewalOff,
         CreateMainAgreement, CompleteMigration, AddRecord, AdobeSettlesTransfer, transferVars
    <2>2. expired \in [Memberships -> SUBSET Subscriptions] /\ Membership \in Memberships
      BY TransferOrderAssumption DEF WholeInv, JobsInv, MigrationInv, MigrationTypeOK
    <2>3. QED
      BY <2>1, <2>2 DEF AdobeExpires
  <1>2. QED
    BY <1>1, AroundTrade DEF Migrating, passVars, Unordered

LEMMA SetupTrade ==
  ASSUME TradeInv, Steady, PathInv,
         SetupContext("SetupDueDate") \/ SetupDueDate("SetupTransferContext"),
         UNCHANGED <<purchaseVars, migrationVars, deploymentVars, published, seen>>
  PROVE  TradeInv'
  <1>1. /\ Unordered /\ vendorId' = vendorId
        /\ status' = "Completed" => status = "Completed"
    BY DEF Unordered, migrationVars, transferVars, SetupContext, SetupDueDate, Wait, EndPass,
       Decide, switch_order_to_failed
  <1>2. /\ pc' \notin Owing \cup {"CheckDeployments", "SelectFulfilment"}
        /\ pc \notin Previewing \cup Bought
    BY DEF Owing, Previewing, Bought, Delivering, Idle, SetupContext, SetupDueDate, Goto, Wait,
       EndPass, Decide, switch_order_to_failed
  <1>3. /\ ctx'.preview = NoPreview /\ ctx'.newOrder = "none"
        /\ ctx'.newOrderId \in {0, vendorId, ctx.newOrderId}
    BY <1>2 DEF SetupContext, SetupDueDate, Goto, Wait, EndPass, Decide, switch_order_to_failed,
       EmptyContext, TradeInv, PreviewInv, IdsInv
  <1>4. IdsInv'
    BY <1>1, <1>2, <1>3, SameOrders DEF TradeInv, IdsInv, Unordered
  <1>5. QED
    BY <1>1, <1>2, <1>3, <1>4, FreeKept

LEMMA SetupTransferTrade ==
  ASSUME JobsInv, TradeInv, Steady, SetupTransferContext("ValidateGCMainAgreement")
  PROVE  TradeInv'
  <1>1. /\ Unordered /\ UNCHANGED <<vendorId, ctx, status, published>>
        /\ pc = "SetupTransferContext" /\ pc' = "ValidateGCMainAgreement"
    BY DEF SetupTransferContext, Unordered, migrationVars, transferVars, Continue, Goto
  <1>2. /\ pc' \notin Owing \cup {"CheckDeployments", "SelectFulfilment"}
        /\ pc \notin Previewing \cup Bought
    BY <1>1 DEF Owing, Previewing, Bought, Delivering
  <1>3. ctx.preview = NoPreview /\ ctx.newOrder = "none"
    BY <1>2 DEF TradeInv, PreviewInv, IdsInv
  <1>4. seen'.record = records[Membership]
    BY DEF SetupTransferContext, NothingSeen
  <1>5. records[Membership].customerId => records[Membership].transferId \in Nat \ {0}
    <2>1. Membership \in Memberships /\ transfers[Membership] \in Seq(TransferStatus)
      BY TransferOrderAssumption DEF JobsInv, MigrationInv, MigrationTypeOK
    <2>2. QED
      BY <2>1 DEF JobsInv, CustomersKnown
  <1>6. IdsInv'
    BY <1>1, <1>2, <1>3, <1>4, <1>5, SameOrders DEF TradeInv, IdsInv, Unordered
  <1>7. QED
    BY <1>1, <1>2, <1>3, <1>6, FreeKept

\* A step that goes on or ends without a word on what is ordered.
Quiet ==
    /\ Unordered
    /\ pc \notin Previewing \cup Bought
    /\ \/ pc' = Idle /\ seen' = NothingSeen /\ ctx' = EmptyContext
       \/ /\ pc' \notin Owing \cup {"CheckDeployments", "SelectFulfilment"}
          /\ ctx' = ctx /\ seen'.record = seen.record
    /\ UNCHANGED <<vendorId, published>>
    /\ status' = "Completed" => status = "Completed"

LEMMA QuietKept == TradeInv /\ Steady /\ Quiet => TradeInv'
  BY EndsTrade, GoesOnFree DEF Quiet

LEMMA MainAgreementTrade ==
  ASSUME TradeInv, Steady, PathInv, ValidateGCMainAgreement("HandleMigratedTransfer")
  PROVE  TradeInv'
  <1>1. /\ pc = "ValidateGCMainAgreement" /\ Unordered /\ UNCHANGED published
        /\ \/ Continue("HandleMigratedTransfer") /\ seen'.record = seen.record
           \/ Leave(Wait)
    BY DEF ValidateGCMainAgreement, Unordered, transferVars, PathInv, TypedInv, SeenType
  <1>2. Quiet
    BY <1>1 DEF Leave, Wait, EndPass, Continue, Goto, Quiet, Owing, Previewing, Bought,
       Delivering, Idle
  <1>3. QED
    BY <1>2, QuietKept

LEMMA HandleMigratedTrade ==
  ASSUME TradeInv, Steady, HandleMigratedTransfer("ValidateTransfer")
  PROVE  TradeInv'
  <1>1. pc = "HandleMigratedTransfer" /\ Unordered /\ UNCHANGED published
    BY DEF HandleMigratedTransfer, Unordered, transferVars
  <1>2. \/ Continue("ValidateTransfer") /\ UNCHANGED seen
        \/ Leave(Wait) \/ Leave(switch_order_to_failed) \/ Leave(switch_order_to_query)
        \/ Continue("SaveCustomerData") /\ UNCHANGED seen
        \/ Continue("CheckDeployments") /\ UNCHANGED seen /\ seen.record.customerId
    BY DEF HandleMigratedTransfer, ManageDeploymentItems
  <1>3. CASE Continue("CheckDeployments") /\ UNCHANGED seen /\ seen.record.customerId
    <2>1. pc' = "CheckDeployments" /\ UNCHANGED <<ctx, vendorId, status, seen>>
      BY <1>3 DEF Continue, Goto
    <2>2. ctx.preview = NoPreview /\ ctx.newOrder = "none"
      BY <1>1 DEF TradeInv, PreviewInv, IdsInv, Previewing, Bought, Delivering
    <2>3. IdsInv'
      BY <1>1, <1>3, <2>1, <2>2, SameOrders DEF TradeInv, IdsInv, Unordered
    <2>4. pc' \notin Owing
      BY <2>1 DEF Owing, Previewing, Delivering
    <2>5. QED
      BY <1>1, <2>1, <2>2, <2>3, <2>4, FreeKept
  <1>4. CASE ~(Continue("CheckDeployments") /\ UNCHANGED seen /\ seen.record.customerId)
    <2>1. Quiet
      BY <1>1, <1>2, <1>4 DEF Leave, Wait, Decide, EndPass, switch_order_to_failed,
         switch_order_to_query, Continue, Goto, Quiet, Owing, Previewing, Bought, Delivering, Idle
    <2>2. QED
      BY <2>1, QuietKept
  <1>5. QED
    BY <1>3, <1>4

LEMMA PrepareTrade ==
  ASSUME WholeInv, TradeInv, Steady, Prepare
  PROVE  TradeInv'
  BY SetupTrade, SetupTransferTrade, MainAgreementTrade, HandleMigratedTrade DEF WholeInv, Prepare

-----------------------------------------------------------------------------
(* The order transfers the membership itself, and the records.              *)

LEMMA CheckDeploymentsTrade ==
  ASSUME TradeInv, Steady, PathInv, NEW step, NEW next, CheckDeployments(step, next),
         \/ step = "CheckDeployments" /\ next = "SelectFulfilment"
         \/ step = "ValidateAgreementDeployments" /\ next = "ProcessTransferOrder"
  PROVE  TradeInv'
  <1>1. /\ pc = step /\ Unordered /\ UNCHANGED published
        /\ \/ Continue(next) /\ seen'.record = seen.record
           \/ Leave(Wait)
    BY DEF CheckDeployments, Unordered, transferVars, PathInv, TypedInv, SeenType
  <1>2. ctx.preview = NoPreview /\ ctx.newOrder = "none"
    BY <1>1 DEF TradeInv, PreviewInv, IdsInv, Previewing, Bought, Delivering
  <1>3. CASE Continue(next) /\ seen'.record = seen.record /\ next = "SelectFulfilment"
    <2>1. /\ pc = "CheckDeployments" /\ pc' = "SelectFulfilment"
          /\ UNCHANGED <<ctx, vendorId, status>>
      BY <1>1, <1>3 DEF Continue, Goto
    <2>2. IdsInv'
      BY <1>1, <1>2, <1>3, <2>1, SameOrders DEF TradeInv, IdsInv, Unordered
    <2>3. pc' \notin Owing
      BY <2>1 DEF Owing, Previewing, Delivering
    <2>4. QED
      BY <1>1, <1>2, <2>1, <2>2, <2>3, FreeKept
  <1>4. CASE ~(Continue(next) /\ seen'.record = seen.record /\ next = "SelectFulfilment")
    <2>1. Quiet
      BY <1>1, <1>4 DEF Leave, Wait, EndPass, Continue, Goto, Quiet, Owing, Previewing, Bought,
         Delivering, Idle
    <2>2. QED
      BY <2>1, QuietKept
  <1>5. QED
    BY <1>3, <1>4

LEMMA ValidateTransferTrade ==
  ASSUME TradeInv, Steady,
         \/ ValidateTransfer("CheckAdobeTransferOrder")
         \/ CheckAdobeTransferOrder("ValidateDeploymentItems")
         \/ ValidateDeploymentItems("ValidateAgreementDeployments")
  PROVE  TradeInv'
  <1>1. /\ pc \in {"ValidateTransfer", "CheckAdobeTransferOrder", "ValidateDeploymentItems"}
        /\ Unordered /\ UNCHANGED published
        /\ \/ \E next \in {"CheckAdobeTransferOrder", "SubmitTransferOrder",
                           "ValidateDeploymentItems", "ValidateAgreementDeployments"} :
                 Continue(next) /\ UNCHANGED seen
           \/ Leave(Wait) \/ Leave(switch_order_to_failed) \/ Leave(switch_order_to_query)
    BY DEF ValidateTransfer, CheckAdobeTransferOrder, ValidateDeploymentItems,
       ManageDeploymentItems, Unordered, migrationVars, transferVars
  <1>2. Quiet
    BY <1>1 DEF Leave, Wait, Decide, EndPass, switch_order_to_failed,
       switch_order_to_query, Continue, Goto, Quiet, Owing, Previewing, Bought, Delivering, Idle
  <1>3. QED
    BY <1>2, QuietKept

\* The transfer the order starts has an identifier beyond those of its orders.
LEMMA SubmitTransferTrade ==
  ASSUME WholeInv, TradeInv, Steady, SubmitTransferOrder
  PROVE  TradeInv'
  <1>1. pc = "SubmitTransferOrder" /\ Unordered /\ UNCHANGED published
    BY DEF SubmitTransferOrder, Unordered
  <1>2. CASE Leave(switch_order_to_failed)
    <2>1. Quiet
      BY <1>1, <1>2 DEF Leave, Decide, EndPass, switch_order_to_failed, Quiet, Owing,
         Previewing, Bought, Delivering, Idle
    <2>2. QED
      BY <2>1, QuietKept
  <1>3. CASE TryTransfer(Membership) /\ ~Leave(switch_order_to_failed)
    <2>1. /\ ctx' = [ctx EXCEPT !.newOrderId = TransferId(Len(transfers[Membership]) + 1)]
          /\ pc' = "SaveTransferOrder" /\ UNCHANGED <<status, vendorId, seen>>
      BY <1>3 DEF SubmitTransferOrder, Goto
    <2>2. Len(transfers[Membership]) \in Nat
      BY TransferOrderAssumption DEF WholeInv, JobsInv, MigrationInv, MigrationTypeOK
    <2>3. {"newOrderId", "newOrder", "preview"} \subseteq DOMAIN ctx
      BY DEF WholeInv, PathInv, TypedInv
    <2>4. /\ ctx'.newOrderId = TransferId(Len(transfers[Membership]) + 1)
          /\ ctx'.newOrder = ctx.newOrder /\ ctx'.preview = ctx.preview
      BY <2>1, <2>3
    <2>5. ctx'.newOrderId \in Nat /\ ctx'.newOrderId \notin 1 .. MaxNewOrders
      BY <2>2, <2>4, NewOrderAssumption DEF TransferId
    <2>6. ctx.preview = NoPreview /\ ctx.newOrder = "none"
      BY <1>1 DEF TradeInv, PreviewInv, IdsInv, Previewing, Bought, Delivering
    <2>7. IdsInv'
      BY <1>1, <2>1, <2>4, <2>5, <2>6, SameOrders DEF TradeInv, IdsInv, Unordered
    <2>8. pc' \notin Owing
      BY <2>1 DEF Owing, Previewing, Delivering
    <2>9. QED
      BY <1>1, <2>1, <2>4, <2>6, <2>7, <2>8, FreeKept
  <1>4. QED
    BY <1>2, <1>3 DEF SubmitTransferOrder

LEMMA SaveIdTrade ==
  ASSUME TradeInv, Steady,
         \/ SaveTransferOrder("CheckAdobeTransferOrder")
         \/ SaveCustomerData("CheckManualRenewalSubscriptions")
  PROVE  TradeInv'
  <1>1. /\ pc \in {"SaveTransferOrder", "SaveCustomerData"}
        /\ pc' \in {"CheckAdobeTransferOrder", "CheckManualRenewalSubscriptions"}
        /\ Unordered /\ UNCHANGED <<published, seen, ctx, status>>
        /\ vendorId' \in {0, ctx.newOrderId}
    BY DEF SaveTransferOrder, SaveCustomerData, Unordered, migrationVars, transferVars, Goto
  <1>2. ctx.preview = NoPreview /\ ctx.newOrder = "none"
    BY <1>1 DEF TradeInv, PreviewInv, IdsInv, Previewing, Bought, Delivering
  <1>3. IdsInv'
    BY <1>1, <1>2, SameOrders DEF TradeInv, IdsInv, Unordered
  <1>4. pc' \notin Owing
    BY <1>1 DEF Owing, Previewing, Delivering
  <1>5. QED
    BY <1>1, <1>2, <1>3, <1>4, FreeKept

LEMMA ClosingTrade ==
  ASSUME TradeInv, Steady,
         \/ UpdateTransferStatus("Synchronize", "SyncMigrated")
         \/ SyncMainAgreement("SyncMigrated", Idle)
         \/ SyncMainAgreement("SyncTransferred", Idle)
  PROVE  TradeInv'
  <1>1. /\ pc \in {"Synchronize", "SyncMigrated", "SyncTransferred"}
        /\ Unordered /\ UNCHANGED published
        /\ \/ Continue("SyncMigrated") /\ UNCHANGED seen
           \/ Leave(Wait)
    BY DEF UpdateTransferStatus, SyncMainAgreement, Unordered, transferVars, Idle
  <1>2. Quiet
    BY <1>1 DEF Leave, Wait, EndPass, Continue, Goto, Quiet, Owing, Previewing, Bought,
       Delivering, Idle
  <1>3. QED
    BY <1>2, QuietKept

\* The record of a membership that has been bought for is closed last.
LEMMA ClosePurchaseTrade ==
  ASSUME TradeInv, Steady, UpdateTransferStatus("UpdateTransferStatus", Idle)
  PROVE  TradeInv'
  <1>1. Unordered /\ UNCHANGED published /\ Leave(Wait)
    BY DEF UpdateTransferStatus, Unordered, transferVars
  <1>2. QED
    BY <1>1, EndsTrade DEF Leave, Wait, EndPass

-----------------------------------------------------------------------------
(* Publishing what is active, and completing the order.                     *)

\* A step that publishes what is active.
LEMMA PublishesKept ==
  ASSUME TradeInv, Steady, Unordered, pc \notin Previewing \cup Bought,
         pc' \in {"AddSubscriptions", "CompleteMigrated", "CreateTransferSubscriptions",
                  "CompleteTransferOrder"},
         UNCHANGED ctx, seen'.record = seen.record, vendorId' \in Nat,
         vendorId' \in {vendorId, ctx.newOrderId} \/ vendorId' \notin 1 .. MaxNewOrders,
         DeliverInv'
  PROVE  TradeInv'
  <1> USE SameOrders DEF TradeInv
  <1>1. /\ TradeType' /\ OrdersInv' /\ AccountsInv'
    BY UnorderedKept
  <1>2. ctx.preview = NoPreview /\ ctx.newOrder = "none"
    BY DEF PreviewInv, IdsInv
  <1>3. IdsInv'
    BY <1>2 DEF IdsInv, Unordered
  <1>4. PreviewInv' /\ DoneInv'
    BY <1>2 DEF PreviewInv, DoneInv, Previewing, Delivering
  <1>5. QED
    BY <1>1, <1>3, <1>4

\* The lines of a migrated order are as ordered: whatever it renewed or bought
\* anew is delivered.
LEMMA MatchedIsDone ==
  ASSUME Inv, TradeInv, ~Mismatched, Anew,
         ActiveSubscriptions(Membership) \cup ActiveLines # {}
  PROVE  AllDone /\ Lines \subseteq ActiveLines
  <1> USE DEF TradeInv
  <1>1. ManualRenewalLines = {} \/ LateDone
    BY DEF OrdersInv, Mismatched
  <1>2. CASE ActiveLines # {}
    <2>1. \A line \in Lines : current[line] = NewQuantity[line]
      BY <1>2 DEF Mismatched
    <2>2. \A line \in Lines : current[line] > 0
      BY <2>1, LinesAsk
    <2>3. QED
      BY <2>1, <2>2, DoneIsDelivered DEF ActiveLines
  <1>3. CASE ActiveLines = {}
    <2>1. newOrders = <<>>
      BY <1>3 DEF Inv, RebuyInv, TransferredNotRebought
    <2>2. PICK line : line \in ManualRenewalLines
      BY <2>1 DEF Anew, OrdersInv
    <2>3. LateDone /\ ~NewDone
      BY <1>1, <2>1, <2>2 DEF NewDone
    <2>4. line \in Lines /\ RenewalQuantity(line) > 0 /\ current[line] = RenewalQuantity(line) + 0
      BY <2>2, <2>3 DEF AccountsInv, ManualRenewalLines
    <2>5. current[line] > 0
      BY <2>4, RenewalIs
    <2>6. QED
      BY <1>3, <2>4, <2>5 DEF ActiveLines
  <1>4. QED
    BY <1>2, <1>3

LEMMA SelectTrade ==
  ASSUME WholeInv, TradeInv, Steady, SelectFulfilment
  PROVE  TradeInv'
  <1>1. /\ pc = "SelectFulfilment" /\ Unordered /\ UNCHANGED published
    BY DEF SelectFulfilment, Unordered, transferVars
  <1>2. /\ TransferId(seen.record.transferId) \in Nat
        /\ TransferId(seen.record.transferId) \notin 1 .. MaxNewOrders
    <2>1. seen.record.transferId \in Nat \ {0}
      BY <1>1 DEF TradeInv, IdsInv
    <2>2. QED
      BY <2>1, NewOrderAssumption DEF TransferId
  <1>3. \/ Continue("SaveCustomerData") /\ UNCHANGED seen
        \/ Leave(switch_order_to_failed)
        \/ Leave(EndPass) /\ UNCHANGED status /\ vendorId' = TransferId(seen.record.transferId)
        \/ /\ ~Mismatched
           /\ ActiveSubscriptions(Membership) \cup ActiveLines # {}
           /\ vendorId' = TransferId(seen.record.transferId)
           /\ seen' = [seen EXCEPT !.items = ActiveSubscriptions(Membership) \cup ActiveLines]
           /\ Goto("AddSubscriptions")
           /\ UNCHANGED <<status, ctx>>
    BY DEF SelectFulfilment
  <1>4. CASE Continue("SaveCustomerData") /\ UNCHANGED seen
    <2>1. Quiet
      BY <1>1, <1>4 DEF Continue, Goto, Quiet, Owing, Previewing, Bought, Delivering, Idle
    <2>2. QED
      BY <2>1, QuietKept
  <1>5. CASE Leave(switch_order_to_failed)
    <2>1. Quiet
      BY <1>1, <1>5 DEF Leave, Decide, EndPass, switch_order_to_failed, Quiet, Owing,
         Previewing, Bought, Delivering, Idle
    <2>2. QED
      BY <2>1, QuietKept
  <1>6. CASE Leave(EndPass) /\ UNCHANGED status /\ vendorId' = TransferId(seen.record.transferId)
    BY <1>1, <1>2, <1>6, EndsTrade DEF Leave, EndPass
  <1>7. CASE /\ ~Mismatched
             /\ ActiveSubscriptions(Membership) \cup ActiveLines # {}
             /\ vendorId' = TransferId(seen.record.transferId)
             /\ seen' = [seen EXCEPT !.items = ActiveSubscriptions(Membership) \cup ActiveLines]
             /\ Goto("AddSubscriptions")
             /\ UNCHANGED <<status, ctx>>
    <2>1. /\ seen'.items = ActiveSubscriptions(Membership) \cup ActiveLines
          /\ seen'.record = seen.record
      BY <1>7 DEF WholeInv, PathInv, TypedInv, SeenType
    <2>2. pc' = "AddSubscriptions" /\ pc \notin Previewing \cup Bought
      BY <1>1, <1>7 DEF Goto, Previewing, Bought, Delivering
    <2>3. ActiveSubscriptions(Membership)' \subseteq ActiveSubscriptions(Membership)
      BY <1>1, UnorderedKept
    <2>4. Anew => AllDone /\ Lines \subseteq ActiveLines
      BY <1>7, MatchedIsDone DEF WholeInv
    <2>5. DeliverInv'
      BY <1>1, <1>7, <2>1, <2>2, <2>3, <2>4, SameOrders
         DEF TradeInv, DeliverInv, Unordered, Steady
    <2>6. QED
      BY <1>1, <1>2, <1>7, <2>1, <2>2, <2>5, PublishesKept
  <1>8. QED
    BY <1>3, <1>4, <1>5, <1>6, <1>7

LEMMA ProcessTransferTrade ==
  ASSUME WholeInv, TradeInv, Steady, ProcessTransferOrder("CreateTransferSubscriptions")
  PROVE  TradeInv'
  <1>1. /\ pc = "ProcessTransferOrder" /\ pc' = "CreateTransferSubscriptions" /\ Unordered
        /\ UNCHANGED <<published, status, ctx>> /\ vendorId' = ctx.newOrderId
        /\ seen' = [seen EXCEPT !.items = Subscriptions]
    BY DEF ProcessTransferOrder, Unordered, migrationVars, transferVars, Goto
  <1>2. seen'.items = Subscriptions /\ seen'.record = seen.record
    BY <1>1 DEF WholeInv, PathInv, TypedInv, SeenType
  <1>3. pc \notin Previewing \cup Bought
    BY <1>1 DEF Previewing, Bought, Delivering
  <1>4. DeliverInv'
    BY <1>1, <1>2, SameOrders, UnorderedKept
       DEF TradeInv, DeliverInv, Unordered, Steady, ActiveSubscriptions
  <1>5. vendorId' \in Nat
    BY <1>1 DEF TradeInv, IdsInv
  <1>6. QED
    BY <1>1, <1>2, <1>3, <1>4, <1>5, PublishesKept

LEMMA AddSubscriptionsTrade ==
  ASSUME WholeInv, TradeInv, Steady, NEW step, NEW next, AddSubscriptions(step, next),
         \/ step = "AddSubscriptions" /\ next = "CompleteMigrated"
         \/ step = "CreateTransferSubscriptions" /\ next = "CompleteTransferOrder"
  PROVE  TradeInv'
  <1>1. pc = step /\ Unordered /\ pc \notin Previewing \cup Bought
    BY DEF AddSubscriptions, AddSubscription, Unordered, migrationVars, transferVars,
       Previewing, Bought, Delivering
  <1>2. ActiveSubscriptions(Membership)' \subseteq ActiveSubscriptions(Membership)
    BY <1>1, UnorderedKept
  <1>3. vendorId \in Nat
    BY DEF TradeInv, IdsInv
  <1>4. \/ Leave(Wait) /\ UNCHANGED published
        \/ seen.items = {} /\ Continue(next) /\ UNCHANGED <<published, seen>>
        \/ \E s \in seen.items :
              /\ Continue(step)
              /\ seen' = [seen EXCEPT !.items = @ \ {s}]
              /\ \/ s \in expired[Membership] /\ UNCHANGED published
                 \/ published' = published \cup {s}
    BY DEF AddSubscriptions, AddSubscription
  <1>5. CASE Leave(Wait) /\ UNCHANGED published
    BY <1>1, <1>5, EndsTrade DEF Leave, Wait, EndPass
  <1>6. CASE seen.items = {} /\ Continue(next) /\ UNCHANGED <<published, seen>>
    <2>1. DeliverInv'
      BY <1>1, <1>2, <1>6, SameOrders DEF TradeInv, DeliverInv, Unordered, Steady, Continue, Goto
    <2>2. QED
      BY <1>1, <1>3, <1>6, <2>1, PublishesKept DEF Continue, Goto
  <1>7. ASSUME NEW s \in seen.items, Continue(step), seen' = [seen EXCEPT !.items = @ \ {s}],
               \/ s \in expired[Membership] /\ UNCHANGED published
               \/ published' = published \cup {s}
        PROVE  TradeInv'
    <2>1. seen'.items = seen.items \ {s} /\ seen'.record = seen.record
      BY <1>7 DEF WholeInv, PathInv, TypedInv, SeenType
    <2>2. /\ ActiveSubscriptions(Membership) \cap {s} \subseteq published'
          /\ Lines \cap {s} \subseteq published'
      <3>1. expired \in [Memberships -> SUBSET Subscriptions]
        BY DEF WholeInv, JobsInv, MigrationInv, MigrationTypeOK
      <3>2. expired[Membership] \cap Lines = {}
        BY <3>1, TransferOrderAssumption
      <3>3. QED
        BY <1>7, <3>2 DEF ActiveSubscriptions
    <2>3. /\ published \subseteq published' /\ UNCHANGED <<status, vendorId, ctx>>
          /\ pc' = step
      BY <1>7 DEF Continue, Goto
    <2>4. DeliverInv'
      BY <1>1, <1>2, <2>1, <2>2, <2>3, SameOrders DEF TradeInv, DeliverInv, Unordered, Steady
    <2>5. QED
      BY <1>1, <1>3, <2>1, <2>3, <2>4, PublishesKept
  <1>8. QED
    BY <1>4, <1>5, <1>6, <1>7

LEMMA CompleteTrade ==
  ASSUME WholeInv, TradeInv, Steady,
         \/ Complete("CompleteMigrated", "Synchronize")
         \/ Complete("CompletePurchase", "UpdateTransferStatus")
         \/ Complete("CompleteTransferOrder", "SyncTransferred")
  PROVE  TradeInv'
  <1> USE DEF TradeInv
  <1>1. /\ pc \in {"CompleteMigrated", "CompletePurchase", "CompleteTransferOrder"}
        /\ pc' \in {"Synchronize", "UpdateTransferStatus", "SyncTransferred"}
        /\ pc' \in Bought => pc = "CompletePurchase"
        /\ pc' \notin Owing \cup {"CheckDeployments", "SelectFulfilment"}
        /\ Unordered /\ UNCHANGED <<ctx, vendorId, seen, published>>
    BY DEF Complete, Goto, Unordered, migrationVars, transferVars, Bought, Owing, Previewing,
       Delivering
  <1>2. /\ TradeType' /\ OrdersInv' /\ AccountsInv'
        /\ ActiveSubscriptions(Membership)' \subseteq ActiveSubscriptions(Membership)
    BY <1>1, UnorderedKept
  <1>3. IdsInv' /\ PreviewInv'
    <2>1. /\ pc \in Bought <=> pc = "CompletePurchase"
          /\ pc' \in Bought <=> pc = "CompletePurchase"
      BY <1>1 DEF Bought, Delivering, Complete, Goto
    <2>2. /\ pc \notin Previewing \cup {"CheckDeployments", "SelectFulfilment"}
          /\ pc' \notin Previewing \cup {"CheckDeployments", "SelectFulfilment", "GetPreviewOrder"}
      BY <1>1 DEF Owing, Previewing
    <2>3. IdsInv'
      BY <1>1, <2>1, <2>2, SameOrders DEF IdsInv, Unordered
    <2>4. PreviewInv'
      BY <1>1, <2>1, <2>2, SameOrders DEF PreviewInv, Unordered
    <2>5. QED
      BY <2>3, <2>4
  <1>4. DoneInv'
    BY <1>1 DEF DoneInv, Owing, Previewing, Delivering
  <1>5. Transferred(Membership) /\ (pc = "CompleteTransferOrder" => ~Anew)
    <2>1. CASE pc \in {"CompleteMigrated", "CompletePurchase"}
      <3>1. Final
        BY <2>1 DEF WholeInv, PathInv, RouteInv, MigratedPath, BuyPath
      <3>2. QED
        BY <2>1, <3>1, TransferOrderAssumption
           DEF Final, WholeInv, JobsInv, CustomersKnown, Transferred
    <2>2. CASE pc = "CompleteTransferOrder"
      <3>1. OwnDone
        BY <2>2 DEF WholeInv, PathInv, RouteInv, TransferredPath, OwnCompleted, OwnDone
      <3>2. ~records[Membership].customerId
        BY <3>1, OwnExcludes DEF WholeInv
      <3>3. QED
        BY <3>1, <3>2 DEF OwnDone, Own, Completed, Transferred, OrdersInv
    <2>3. QED
      BY <1>1, <2>1, <2>2
  <1>6. /\ ActiveSubscriptions(Membership) \subseteq published
        /\ Anew => AllDone /\ Lines \subseteq published
    <2>1. CASE pc = "CompletePurchase"
      BY <2>1 DEF DoneInv, AllDone, Delivering
    <2>2. CASE pc \in {"CompleteMigrated", "CompleteTransferOrder"}
      BY <1>5, <2>2 DEF DeliverInv
    <2>3. QED
      BY <1>1, <2>1, <2>2
  <1>7. DeliverInv'
    BY <1>1, <1>2, <1>5, <1>6, SameOrders DEF DeliverInv, Unordered, Steady, Owing
  <1>8. QED
    BY <1>2, <1>3, <1>4, <1>7

\* While a pass buys, the order is not completed, and nothing that is left of
\* it is delivered yet.
LEMMA BuyingIsOpen ==
  ASSUME Inv, pc \in BuyingOn
  PROVE  status # "Completed"
  BY DEF Inv, ClosingInv, BuyingOn, BuyPath, Closing, Idle

LEMMA NothingDelivered ==
  ASSUME pc' \in {Idle} \cup BuyingOn, status' # "Completed"
  PROVE  DeliverInv'
  BY DEF DeliverInv, BuyingOn, BuyPath, Idle

\* A pass that goes on buying without an order of its own.
LEMMA BuysOn ==
  ASSUME WholeInv, TradeInv, Steady, Unordered, pc \in BuyingOn, pc' \in BuyingOn,
         UNCHANGED status, IdsInv', PreviewInv', DoneInv'
  PROVE  TradeInv'
  <1>1. /\ TradeType' /\ OrdersInv' /\ AccountsInv'
    BY UnorderedKept
  <1>2. DeliverInv'
    BY BuyingIsOpen, NothingDelivered DEF WholeInv
  <1>3. QED
    BY <1>1, <1>2 DEF TradeInv

LEMMA BuysTyped ==
  ASSUME PathInv
  PROVE  {"newOrderId", "newOrder", "preview"} \subseteq DOMAIN ctx
  BY DEF PathInv, TypedInv

-----------------------------------------------------------------------------
(* Renewing.                                                                *)

LEMMA RestoreTrade ==
  ASSUME WholeInv, TradeInv, Steady, RestoreFromStored("GetPreviewOrder"),
         UNCHANGED <<subscriptionVars, newOrders, migrationVars, published, seen>>
  PROVE  TradeInv'
  <1>1. /\ pc = "CheckManualRenewalSubscriptions" /\ pc' = "GetPreviewOrder"
        /\ lateInfo # NoInfo /\ Unordered /\ UNCHANGED <<ctx, vendorId, status>>
    BY DEF RestoreFromStored, Continue, Goto, Unordered, purchaseVars, migrationVars, transferVars
  <1>2. ctx.preview = NoPreview /\ ctx.newOrder = "none"
    BY <1>1 DEF TradeInv, PreviewInv, IdsInv, Previewing, Bought, Delivering
  <1>3. IdsInv'
    BY <1>1, <1>2, SameOrders DEF TradeInv, IdsInv, Unordered
  <1>4. PreviewInv' /\ DoneInv'
    BY <1>1, <1>2, SameOrders DEF PreviewInv, DoneInv, Unordered, Previewing, Delivering
  <1>5. pc \in BuyingOn /\ pc' \in BuyingOn
    BY <1>1 DEF BuyingOn, BuyPath
  <1>6. QED
    BY <1>1, <1>3, <1>4, <1>5, BuysOn

\* What Adobe offers to renew is all that has lapsed, unless the order goes by
\* an identifier.
LEMMA OfferedLapsed ==
  ASSUME Inv, JobsInv, TradeInv, pc = "CheckManualRenewalSubscriptions", ctx.newOrderId = 0,
         {line \in PurchaseLines \cap ExpiredLines : lapsed[line] > 0} = {}
  PROVE  \A line \in Lines : lapsed[line] = 0
  <1>1. ActiveSubscriptions(Membership) = {}
    BY DEF Inv, RebuyInv, BuyingAnew
  <1>2. \A line \in Lines : SubscriptionOf[line] \in expired[Membership]
    BY <1>1, TransferOrderAssumption DEF ActiveSubscriptions
  <1>3. \A line \in Lines : line \in PurchaseLines /\ lapsed[line] \in Nat
    BY LinesAsk DEF TradeInv, TradeType
  <1>4. QED
    BY <1>2, <1>3 DEF ExpiredLines

LEMMA SplitTrade ==
  ASSUME WholeInv, TradeInv, Steady, ComputeFromAdobe("GetPreviewOrder", ExpiredLines),
         seen'.record = seen.record, Continue("GetPreviewOrder"), lateInfo' # lateInfo,
         UNCHANGED <<subscriptionVars, newOrders, migrationVars, published>>
  PROVE  TradeInv'
  <1> USE DEF TradeInv
  <1> DEFINE offered == {line \in PurchaseLines \cap ExpiredLines : lapsed[line] > 0}
             Renewable(line) == IF NewQuantity[line] < lapsed[line] THEN NewQuantity[line]
                                ELSE lapsed[line]
  <1>1. /\ pc = "CheckManualRenewalSubscriptions" /\ pc' = "GetPreviewOrder"
        /\ lateInfo = NoInfo /\ UNCHANGED <<ctx, vendorId, status, lapsed, lateRenewals>>
        /\ UNCHANGED <<current, newOrders, published>>
        /\ UNCHANGED <<records, transfers, expired>>
    BY DEF ComputeFromAdobe, Continue, Goto, migrationVars, airtableVars, transferVars,
       subscriptionVars
  <1>2. offered # {} /\ \E diverted \in SUBSET offered :
           lateInfo' = [line \in Lines |-> IF line \in offered \ diverted THEN Renewable(line) ELSE 0]
    BY DEF ComputeFromAdobe
  <1>3. PICK diverted \in SUBSET offered :
           lateInfo' = [line \in Lines |-> IF line \in offered \ diverted THEN Renewable(line) ELSE 0]
    BY <1>2
  <1>4. \A line \in Lines : /\ lapsed[line] \in Nat /\ NewQuantity[line] \in Nat
                            /\ Renewable(line) \in Nat /\ Renewable(line) <= NewQuantity[line]
    BY LinesAsk DEF TradeType
  <1>5. /\ lateInfo' \in [Lines -> Nat]
        /\ \A line \in Lines : /\ lateInfo'[line] <= NewQuantity[line]
                               /\ lateInfo'[line] > 0 => line \in offered
    <2>1. \A line \in Lines : NewQuantity[line] >= 0
      BY <1>4
    <2>2. QED
      BY <1>3, <1>4, <2>1
  <1> HIDE DEF Renewable
  <1>6. lateInfo' # NoInfo
    <2>1. DOMAIN NoInfo = {}
      BY DEF NoInfo
    <2>2. DOMAIN lateInfo' # {}
      BY <1>2, <1>5, LinesAsk
    <2>3. QED
      BY <2>1, <2>2
  <1>7. TradeType'
    BY <1>1, <1>5 DEF TradeType, InfoType
  <1>8. lateRenewals = <<>> /\ newOrders = <<>>
    <2>1. ManualRenewalLines = {}
      BY <1>1 DEF ManualRenewalLines, RenewalQuantity
    <2>2. ~(\A line \in Lines : lapsed[line] = 0)
      BY <1>2, <1>4, LinesAsk
    <2>3. QED
      BY <1>1, <2>1, <2>2 DEF OrdersInv
  <1>9. ~LateDone' /\ ~NewDone' /\ ~LateDone /\ ~NewDone /\ ~Anew'
    BY <1>1, <1>8 DEF LateDone, NewDone, Anew
  <1>10. OrdersInv'
    <2>1. ManualRenewalLines' \subseteq ExpiredLines
      BY <1>5, <1>6 DEF ManualRenewalLines, RenewalQuantity
    <2>2. ExpiredLines' = ExpiredLines
      BY <1>1 DEF ExpiredLines
    <2>3. DOMAIN newOrders' = {} /\ DOMAIN lateRenewals' = {}
      BY <1>1, <1>8
    <2>4. QED
      BY <1>1, <1>8, <1>9, <2>1, <2>2, <2>3 DEF OrdersInv
  <1>11. AccountsInv'
    BY <1>1, <1>9 DEF AccountsInv
  <1>12. ctx.preview = NoPreview /\ ctx.newOrder = "none"
    BY <1>1 DEF PreviewInv, IdsInv, Previewing, Bought, Delivering
  <1>13. IdsInv' /\ PreviewInv' /\ DoneInv'
    BY <1>1, <1>6, <1>12 DEF IdsInv, PreviewInv, DoneInv, Previewing, Delivering
  <1>14. DeliverInv'
    BY <1>1, BuyingIsOpen, NothingDelivered DEF WholeInv, BuyingOn, BuyPath
  <1>15. QED
    BY <1>7, <1>10, <1>11, <1>13, <1>14

LEMMA CheckManualTrade ==
  ASSUME WholeInv, TradeInv, Steady, CheckManualRenewalSubscriptions("GetPreviewOrder")
  PROVE  TradeInv'
  <1>1. CASE RestoreFromStored("GetPreviewOrder") /\ UNCHANGED seen
    BY <1>1, RestoreTrade DEF CheckManualRenewalSubscriptions
  <1>2. CASE ComputeFromAdobe("GetPreviewOrder", ExpiredLines) /\ ~UNCHANGED lateInfo
    <2>1. Continue("GetPreviewOrder") /\ pc' # Idle
      BY <1>2 DEF ComputeFromAdobe, Continue, Goto, Idle
    <2>2. seen'.record = seen.record
      BY <1>2, <2>1 DEF CheckManualRenewalSubscriptions, RestoreFromStored, ComputeFromAdobe,
         WholeInv, PathInv, TypedInv, SeenType
    <2>3. QED
      BY <1>2, <2>1, <2>2, SplitTrade DEF CheckManualRenewalSubscriptions
  <1>3. CASE ComputeFromAdobe("GetPreviewOrder", ExpiredLines) /\ UNCHANGED lateInfo
    <2>1. /\ pc = "CheckManualRenewalSubscriptions" /\ lateInfo = NoInfo
          /\ Unordered /\ UNCHANGED published
          /\ seen' = IF pc' = Idle THEN NothingSeen
                     ELSE [seen EXCEPT !.previewed = lateInfo' # NoInfo]
      BY <1>3 DEF CheckManualRenewalSubscriptions, RestoreFromStored, ComputeFromAdobe,
         Unordered, purchaseVars, lateVars, migrationVars, transferVars
    <2>2. CASE switch_order_to_failed
      <3>1. pc' = Idle /\ seen' = NothingSeen
        BY <2>1, <2>2 DEF switch_order_to_failed, Decide, EndPass
      <3>2. QED
        BY <2>1, <2>2, <3>1, EndsTrade DEF switch_order_to_failed, Decide, EndPass
    <2>3. CASE Continue("GetPreviewOrder")
      <3>1. pc' = "GetPreviewOrder" /\ pc' # Idle /\ UNCHANGED <<ctx, vendorId, status>>
        BY <2>3 DEF Continue, Goto, Idle
      <3>2. seen'.record = seen.record
        BY <2>1, <3>1 DEF WholeInv, PathInv, TypedInv, SeenType
      <3>3. ctx.newOrderId = 0 => \A line \in Lines : lapsed[line] = 0
        <4>1. CASE {line \in PurchaseLines \cap ExpiredLines : lapsed[line] > 0} = {}
          BY <2>1, <4>1, OfferedLapsed DEF WholeInv
        <4>2. CASE {line \in PurchaseLines \cap ExpiredLines : lapsed[line] > 0} # {}
          <5>1. DOMAIN lateInfo' = Lines
            BY <1>3, <4>2, <3>1 DEF ComputeFromAdobe, switch_order_to_failed, Decide, EndPass
          <5>2. Lines = {} /\ PurchaseLines = Lines
            BY <1>3, <2>1, <5>1, LinesAsk DEF NoInfo
          <5>3. QED
            BY <4>2, <5>2
        <4>3. QED
          BY <4>1, <4>2
      <3>4. ctx.preview = NoPreview /\ ctx.newOrder = "none"
        BY <2>1 DEF TradeInv, PreviewInv, IdsInv, Previewing, Bought, Delivering
      <3>5. IdsInv'
        BY <2>1, <3>1, <3>2, <3>4, SameOrders DEF TradeInv, IdsInv, Unordered
      <3>6. PreviewInv' /\ DoneInv'
        BY <2>1, <3>1, <3>3, <3>4, SameOrders DEF PreviewInv, DoneInv, Unordered, Previewing,
           Delivering
      <3>7. pc \in BuyingOn /\ pc' \in BuyingOn
        BY <2>1, <3>1 DEF BuyingOn, BuyPath
      <3>8. QED
        BY <2>1, <3>1, <3>5, <3>6, <3>7, BuysOn
    <2>4. QED
      BY <1>3, <2>2, <2>3 DEF ComputeFromAdobe
  <1>4. QED
    BY <1>1, <1>2, <1>3 DEF CheckManualRenewalSubscriptions

\* A step of buying that ends the pass without a word on what is ordered.
LEMMA BuyingEnds ==
  ASSUME TradeInv, Steady, Unordered, UNCHANGED published,
         Forgets(Wait) \/ Forgets(switch_order_to_failed)
  PROVE  TradeInv'
  <1>1. /\ pc' = Idle /\ seen' = NothingSeen /\ ctx' = EmptyContext /\ vendorId' = vendorId
        /\ status' = "Completed" => status = "Completed"
    BY DEF Forgets, Wait, switch_order_to_failed, Decide, EndPass
  <1>2. QED
    BY <1>1, EndsTrade

LEMMA PreviewRenewalTrade ==
  ASSUME WholeInv, TradeInv, Steady,
         Forgets(PreviewRenewalOrders("SubmitRenewalOrders", seen.previewed)),
         UNCHANGED <<subscriptionVars, newOrders, migrationVars, published>>
  PROVE  TradeInv'
  <1>1. /\ pc = "PreviewRenewalOrders" /\ Unordered
        /\ \/ Forgets(Continue("SubmitRenewalOrders")) \/ Forgets(switch_order_to_failed)
    BY DEF Forgets, PreviewRenewalOrders, Unordered, purchaseVars, migrationVars, transferVars
  <1>2. CASE Forgets(Continue("SubmitRenewalOrders"))
    <2>1. /\ pc' = "SubmitRenewalOrders" /\ UNCHANGED <<ctx, vendorId, status, seen>>
      BY <1>2 DEF Forgets, Continue, Goto, Idle
    <2>2. ctx.newOrder = "none"
      BY <1>1 DEF TradeInv, IdsInv, Bought, Delivering
    <2>3. IdsInv'
      BY <1>1, <2>1, <2>2, SameOrders DEF TradeInv, IdsInv, Unordered
    <2>4. PreviewInv' /\ DoneInv'
      BY <1>1, <2>1, SameOrders DEF TradeInv, PreviewInv, DoneInv, Unordered, Previewing, Delivering
    <2>5. pc \in BuyingOn /\ pc' \in BuyingOn
      BY <1>1, <2>1 DEF BuyingOn, BuyPath
    <2>6. QED
      BY <1>1, <2>1, <2>3, <2>4, <2>5, BuysOn
  <1>3. CASE Forgets(switch_order_to_failed)
    BY <1>1, <1>3, BuyingEnds
  <1>4. QED
    BY <1>1, <1>2, <1>3

-----------------------------------------------------------------------------
(* The RENEWAL order.                                                       *)

\* Adobe has done what is still owed of one kind: the accounts go with it.
LEMMA RenewsAccounts ==
  ASSUME TradeType, AccountsInv, ManualRenewalLines # {}, ~LateDone, LateDone',
         Renews(lateInfo), UNCHANGED <<lateInfo, newOrders>>
  PROVE  AccountsInv' /\ lapsed' \in [Lines -> Nat]
  <1>1. lateInfo # NoInfo /\ \A line \in Lines : lateInfo[line] = RenewalQuantity(line)
    BY DEF ManualRenewalLines, RenewalQuantity
  <1>2. /\ NewDone' = NewDone
        /\ \A line \in Lines : RenewalQuantity(line)' = RenewalQuantity(line)
        /\ \A line \in Lines : Left(line)' = Left(line)
    BY DEF NewDone, RenewalQuantity, Left
  <1>3. ASSUME NEW line \in Lines
        PROVE  current'[line] = (IF LateDone' THEN RenewalQuantity(line)' ELSE 0)
                                + (IF NewDone' THEN Left(line)' ELSE 0)
    <2>1. current'[line] = Moved(current, line, lateInfo[line])
      BY DEF Renews, Process
    <2>2. current[line] = IF NewDone THEN Left(line) ELSE 0
      BY RenewalIs DEF AccountsInv
    <2>3. /\ RenewalQuantity(line) \in Nat /\ Left(line) \in Nat
          /\ RenewalQuantity(line)' = RenewalQuantity(line) /\ Left(line)' = Left(line)
      BY <1>2, RenewalIs
    <2>4. current'[line] = current[line] + RenewalQuantity(line)
      BY <1>1, <2>1, <2>2, <2>3 DEF Moved
    <2>5. QED
      BY <1>2, <2>2, <2>3, <2>4
  <1>4. lapsed' \in [Lines -> Nat]
    BY DEF Renews, TradeType
  <1>5. QED
    BY <1>3, <1>4 DEF AccountsInv

LEMMA PlaceRenewalTrade ==
  ASSUME WholeInv, TradeInv, pc = "SubmitRenewalOrders", ManualRenewalLines # {},
         PlaceRenewalOrder("SubmitNewOrder"), lateRenewals' # lateRenewals,
         UNCHANGED <<newOrders, migrationVars, published>>,
         seen' = IF pc' = Idle THEN NothingSeen ELSE seen
  PROVE  TradeInv'
  <1> USE DEF TradeInv
  <1>1. PICK orderStatus \in {"OPEN", "COMPLETE"} :
           /\ lateRenewals' = <<[quantity |-> lateInfo, status |-> orderStatus]>>
           /\ IF orderStatus = "COMPLETE" THEN Renews(lateInfo)
              ELSE UNCHANGED <<subscriptionVars, lapsed>>
           /\ FollowRenewalOrder("SubmitNewOrder", orderStatus)
    BY DEF PlaceRenewalOrder
  <1>2. lateRenewals = <<>> /\ UNCHANGED lateInfo /\ lateInfo # NoInfo
        /\ lateInfo \in [Lines -> Nat]
    BY DEF PlaceRenewalOrder, ManualRenewalLines, RenewalQuantity, TradeType, InfoType
  <1>3. /\ ~LateDone
        /\ LateDone' <=> orderStatus = "COMPLETE"
    BY <1>1, <1>2 DEF LateDone
  <1>4. /\ lateRenewals' \in Seq(LateRenewalOrder) /\ Len(lateRenewals') = 1
        /\ DOMAIN lateRenewals' = {1} /\ lateRenewals'[1].quantity = lateInfo
    <2> DEFINE order == [quantity |-> lateInfo, status |-> orderStatus]
    <2>1. order \in LateRenewalOrder /\ order.quantity = lateInfo
      BY <1>2 DEF LateRenewalOrder
    <2> HIDE DEF order
    <2>2. lateRenewals' = <<order>>
      BY <1>1 DEF order
    <2>3. QED
      BY <2>1, <2>2
  <1>5. /\ \A line : RenewalQuantity(line)' = RenewalQuantity(line)
        /\ \A line : Left(line)' = Left(line)
        /\ ManualRenewalLines' = ManualRenewalLines /\ LeftLines' = LeftLines
        /\ NewDone' = NewDone /\ \A offer : Wanted(offer)' = Wanted(offer)
    <2>1. \A line : RenewalQuantity(line)' = RenewalQuantity(line)
      BY <1>2 DEF RenewalQuantity
    <2>2. \A line : Left(line)' = Left(line)
      BY <2>1 DEF Left
    <2>3. QED
      BY <2>1, <2>2 DEF ManualRenewalLines, LeftLines, NewDone, Wanted
  <1>6. AccountsInv' /\ lapsed' \in [Lines -> Nat]
    <2>1. CASE orderStatus = "COMPLETE"
      BY <1>1, <1>2, <1>3, <2>1, RenewsAccounts
    <2>2. CASE orderStatus = "OPEN"
      <3>1. UNCHANGED <<current, lapsed>>
        BY <1>1, <2>2 DEF subscriptionVars
      <3>2. QED
        BY <1>3, <1>5, <2>2, <3>1 DEF AccountsInv, TradeType
    <2>3. QED
      BY <2>1, <2>2
  <1>7. TradeType'
    BY <1>2, <1>4, <1>6 DEF TradeType, InfoType
  <1>8. Final
    BY DEF WholeInv, PathInv, RouteInv, BuyPath
  <1>9. OrdersInv'
    <2>1. LateDone' \/ ManualRenewalLines' \subseteq ExpiredLines'
      <3>1. CASE orderStatus = "OPEN"
        <4>1. ExpiredLines' = ExpiredLines
          BY <1>1, <3>1 DEF ExpiredLines, migrationVars, transferVars
        <4>2. QED
          BY <1>3, <1>5, <4>1 DEF OrdersInv
      <3>2. QED
        BY <1>3, <3>1
    <2>2. records'[Membership].customerId
      BY <1>8 DEF Final, migrationVars, airtableVars
    <2>3. QED
      BY <1>2, <1>4, <1>5, <2>1, <2>2 DEF OrdersInv
  <1>10. /\ UNCHANGED <<vendorId, today>> /\ (status' = "Completed" => status = "Completed")
         /\ \/ pc' = Idle /\ ctx' = EmptyContext /\ seen' = NothingSeen
            \/ pc' = "SubmitNewOrder" /\ ctx' = ctx /\ seen' = seen /\ LateDone'
    BY <1>1, <1>3 DEF FollowRenewalOrder, Wait, EndPass, Continue, Goto, Idle,
       switch_order_to_failed, Decide
  <1>11. ctx.newOrder = "none"
    BY DEF IdsInv, Bought, Delivering
  <1>12. IdsInv'
    BY <1>10, <1>11 DEF IdsInv, EmptyContext, NothingSeen, NoRecord, Idle
  <1>13. PreviewInv'
    BY <1>2, <1>5, <1>10 DEF PreviewInv, EmptyContext, Idle, Previewing
  <1>14. DoneInv'
    BY <1>10 DEF DoneInv, Idle, Delivering
  <1>15. DeliverInv'
    BY <1>10, BuyingIsOpen, NothingDelivered DEF WholeInv, BuyingOn, BuyPath
  <1>16. QED
    BY <1>6, <1>7, <1>9, <1>12, <1>13, <1>14, <1>15

LEMMA SubmitRenewalTrade ==
  ASSUME WholeInv, TradeInv, Steady, Forgets(SubmitRenewalOrders("SubmitNewOrder")),
         UNCHANGED <<newOrders, migrationVars, published>>
  PROVE  TradeInv'
  <1>1. pc = "SubmitRenewalOrders" /\ seen' = IF pc' = Idle THEN NothingSeen ELSE seen
    BY DEF Forgets, SubmitRenewalOrders
  <1>2. CASE ~UNCHANGED lateRenewals
    BY <1>1, <1>2, PlaceRenewalTrade
       DEF Forgets, SubmitRenewalOrders, FindRenewalOrder, lateVars
  <1>3. CASE UNCHANGED lateRenewals
    <2>1. /\ Unordered
          /\ \/ Forgets(Wait) \/ Forgets(switch_order_to_failed)
             \/ Forgets(Continue("SubmitNewOrder")) /\ (ManualRenewalLines = {} \/ LateDone)
      <3>1. CASE ManualRenewalLines = {} \/ FindRenewalOrder("SubmitNewOrder")
        BY <1>3, <3>1 DEF Forgets, SubmitRenewalOrders, FindRenewalOrder, FollowRenewalOrder,
           LateDone, Unordered, purchaseVars, migrationVars, transferVars
      <3>2. CASE ManualRenewalLines # {} /\ ~FindRenewalOrder("SubmitNewOrder")
        <4>1. PlaceRenewalOrder("SubmitNewOrder") /\ UNCHANGED <<lateInfo, lateRenewals>>
              /\ lateRenewals = <<>>
          BY <1>3, <3>2 DEF Forgets, SubmitRenewalOrders, PlaceRenewalOrder
        <4>2. lateRenewals' # <<[quantity |-> lateInfo, status |-> "OPEN"]>>
              /\ lateRenewals' # <<[quantity |-> lateInfo, status |-> "COMPLETE"]>>
          BY <4>1
        <4>3. switch_order_to_failed /\ UNCHANGED <<subscriptionVars, lapsed>>
          BY <4>1, <4>2 DEF PlaceRenewalOrder
        <4>4. QED
          BY <1>1, <4>1, <4>3 DEF Forgets, Unordered, purchaseVars, lateVars, migrationVars,
             transferVars
      <3>3. QED
        BY <3>1, <3>2
    <2>2. CASE Forgets(Wait) \/ Forgets(switch_order_to_failed)
      BY <2>1, <2>2, BuyingEnds
    <2>3. CASE Forgets(Continue("SubmitNewOrder")) /\ (ManualRenewalLines = {} \/ LateDone)
      <3>1. /\ pc' = "SubmitNewOrder" /\ UNCHANGED <<ctx, vendorId, status, seen>>
        BY <2>3 DEF Forgets, Continue, Goto, Idle
      <3>2. ctx.newOrder = "none"
        BY <1>1 DEF TradeInv, IdsInv, Bought, Delivering
      <3>3. IdsInv'
        BY <1>1, <2>1, <3>1, <3>2, SameOrders DEF TradeInv, IdsInv, Unordered
      <3>4. PreviewInv'
        BY <1>1, <2>1, <3>1, SameOrders DEF TradeInv, PreviewInv, Unordered, Previewing
      <3>5. DoneInv'
        BY <2>1, <2>3, <3>1, SameOrders DEF DoneInv, Unordered, Delivering
      <3>6. pc \in BuyingOn /\ pc' \in BuyingOn
        BY <1>1, <3>1 DEF BuyingOn, BuyPath
      <3>7. QED
        BY <2>1, <3>1, <3>3, <3>4, <3>5, <3>6, BuysOn
    <2>4. QED
      BY <2>1, <2>2, <2>3
  <1>4. QED
    BY <1>2, <1>3

LEMMA RenewingTrade ==
  ASSUME WholeInv, TradeInv, Steady, Renewing
  PROVE  TradeInv'
  <1>1. CASE Forgets(SubmitRenewalOrders("SubmitNewOrder"))
    BY <1>1, SubmitRenewalTrade DEF Renewing
  <1>2. CASE Forgets(PreviewRenewalOrders("SubmitRenewalOrders", seen.previewed))
             /\ UNCHANGED subscriptionVars
    BY <1>2, PreviewRenewalTrade DEF Renewing
  <1>3. QED
    BY <1>1, <1>2 DEF Renewing, Forgets

LEMMA WantedIsPreview ==
  ASSUME NEW offer
  PROVE  Wanted(offer) # NoPreview
  <1>1. "quantity" \in DOMAIN Wanted(offer)
    BY DEF Wanted
  <1>2. "quantity" \notin DOMAIN NoPreview
    BY DEF NoPreview
  <1>3. QED
    BY <1>1, <1>2

LEMMA RestPreviewTrade ==
  ASSUME WholeInv, TradeInv, Steady, Forgets(GetRestPreview("PreviewRenewalOrders")),
         UNCHANGED <<lateVars, migrationVars, published>>
  PROVE  TradeInv'
  <1> USE DEF TradeInv
  <1>1. /\ pc = "GetPreviewOrder" /\ Unordered
    BY DEF Forgets, GetRestPreview, Unordered, purchaseVars, migrationVars, transferVars
  <1>2. ctx.preview = NoPreview /\ ctx.newOrder = "none" /\ pc \in BuyingOn
    BY <1>1 DEF PreviewInv, IdsInv, Previewing, Bought, Delivering, BuyingOn, BuyPath
  <1>3. RestLines = LeftLines /\ \A offer : RestPreview(offer) = Wanted(offer)
    BY RestIs
  <1>4. \/ Forgets(switch_order_to_failed)
        \/ Forgets(Continue("PreviewRenewalOrders")) /\ (LeftLines = {} \/ ctx.newOrderId # 0)
        \/ \E offer \in Offers : ctx' = [ctx EXCEPT !.preview = Wanted(offer)]
              /\ Forgets(Goto("PreviewRenewalOrders")) /\ UNCHANGED <<status, vendorId>>
    BY <1>3 DEF Forgets, GetRestPreview
  <1>5. CASE Forgets(switch_order_to_failed)
    BY <1>1, <1>5, BuyingEnds
  <1>6. CASE Forgets(Continue("PreviewRenewalOrders")) /\ (LeftLines = {} \/ ctx.newOrderId # 0)
    <2>1. /\ pc' = "PreviewRenewalOrders" /\ UNCHANGED <<ctx, vendorId, status, seen>>
      BY <1>6 DEF Forgets, Continue, Goto, Idle
    <2>2. IdsInv'
      BY <1>1, <1>2, <2>1, SameOrders DEF IdsInv, Unordered
    <2>3. PreviewInv' /\ DoneInv'
      BY <1>1, <1>2, <1>6, <2>1, SameOrders DEF PreviewInv, DoneInv, Unordered, Previewing, Delivering
    <2>4. pc' \in BuyingOn
      BY <2>1 DEF BuyingOn, BuyPath
    <2>5. QED
      BY <1>1, <1>2, <2>1, <2>2, <2>3, <2>4, BuysOn
  <1>7. ASSUME NEW offer \in Offers, ctx' = [ctx EXCEPT !.preview = Wanted(offer)],
               Forgets(Goto("PreviewRenewalOrders")), UNCHANGED <<status, vendorId>>
        PROVE  TradeInv'
    <2>1. /\ pc' = "PreviewRenewalOrders" /\ UNCHANGED seen
      BY <1>7 DEF Forgets, Goto, Idle
    <2>2. /\ ctx'.preview = Wanted(offer) /\ ctx'.newOrderId = ctx.newOrderId
          /\ ctx'.newOrder = ctx.newOrder
      BY <1>7, BuysTyped DEF WholeInv
    <2>3. IdsInv'
      BY <1>1, <1>2, <1>7, <2>1, <2>2, SameOrders DEF IdsInv, Unordered
    <2>4. Wanted(offer)' = Wanted(offer) /\ Wanted(offer) # NoPreview
      BY <1>1, WantedIsPreview, SameOrders DEF Unordered
    <2>5. PreviewInv' /\ DoneInv'
      BY <1>1, <1>2, <2>1, <2>2, <2>4, SameOrders DEF PreviewInv, DoneInv, Unordered, Previewing, Delivering
    <2>6. pc' \in BuyingOn
      BY <2>1 DEF BuyingOn, BuyPath
    <2>7. QED
      BY <1>1, <1>2, <1>7, <2>3, <2>5, <2>6, BuysOn
  <1>8. QED
    BY <1>4, <1>5, <1>6, <1>7

-----------------------------------------------------------------------------
(* The NEW order.                                                           *)

LEMMA BuysAccounts ==
  ASSUME TradeType, AccountsInv, ~NewDone, NewDone', NEW offer,
         Process(Wanted(offer).quantity), UNCHANGED <<lateInfo, lateRenewals>>
  PROVE  AccountsInv'
  <1>1. \A line \in Lines : Wanted(offer).quantity[line] = Left(line)
    BY DEF Wanted
  <1>2. /\ LateDone' = LateDone
        /\ \A line \in Lines : RenewalQuantity(line)' = RenewalQuantity(line)
        /\ \A line \in Lines : Left(line)' = Left(line)
    BY DEF LateDone, RenewalQuantity, Left
  <1>3. ASSUME NEW line \in Lines
        PROVE  current'[line] = (IF LateDone' THEN RenewalQuantity(line)' ELSE 0)
                                + (IF NewDone' THEN Left(line)' ELSE 0)
    <2>1. current'[line] = Moved(current, line, Left(line))
      BY <1>1 DEF Process
    <2>2. current[line] = IF LateDone THEN RenewalQuantity(line) ELSE 0
      BY RenewalIs DEF AccountsInv
    <2>3. /\ RenewalQuantity(line) \in Nat /\ Left(line) \in Nat
          /\ RenewalQuantity(line)' = RenewalQuantity(line) /\ Left(line)' = Left(line)
      BY <1>2, RenewalIs
    <2>4. current'[line] = current[line] + Left(line)
      BY <2>1, <2>2, <2>3 DEF Moved
    <2>5. QED
      BY <1>2, <2>2, <2>3, <2>4
  <1>4. QED
    BY <1>3 DEF AccountsInv

LEMMA WantedIsPayload ==
  ASSUME TradeType, NEW offer \in Offers
  PROVE  Wanted(offer) \in Payload
  BY RenewalIs DEF Wanted, Payload

LEMMA StatusOfOrder ==
  ASSUME TradeType, NEW id \in DOMAIN newOrders
  PROVE  newOrders[id].status \in NewOrderStatus
  <1>1. newOrders[id] \in NewOrder
    BY DEF TradeType
  <1>2. QED
    BY <1>1 DEF NewOrder

\* A NEW order is placed when there is none; the one there is, is found again.
LEMMA PlaceNewTrade ==
  ASSUME OneOffer, WholeInv, TradeInv, Steady, PlaceNewOrder, LeftLines # {},
         UNCHANGED <<lateVars, migrationVars, published, seen>>
  PROVE  TradeInv'
  <1> USE DEF TradeInv
  <1>1. /\ pc = "SubmitNewOrder" /\ pc' = "SaveNewOrder" /\ ctx.newOrderId = 0
        /\ ctx.preview # NoPreview /\ UNCHANGED <<status, vendorId, seen, published>>
        /\ UNCHANGED <<records, transfers, expired, lapsed, lateInfo, lateRenewals>>
    BY DEF PlaceNewOrder, Goto, lateVars, migrationVars, airtableVars, transferVars
  <1>2. PICK offer \in Offers : ctx.preview = Wanted(offer)
    BY <1>1 DEF PreviewInv
  <1> DEFINE same == {i \in DOMAIN newOrders : newOrders[i].payload = ctx.preview}
  <1>3. same = DOMAIN newOrders
    BY <1>2 DEF OrdersInv, OneOffer
  <1>4. {"newOrderId", "newOrder", "preview"} \subseteq DOMAIN ctx
    BY BuysTyped DEF WholeInv
  <1>5. pc \in BuyingOn /\ pc' \in BuyingOn
    BY <1>1 DEF BuyingOn, BuyPath
  <1>6. CASE same # {}
    <2>1. PICK id \in same :
             /\ ctx' = [ctx EXCEPT !.newOrderId = id, !.newOrder = newOrders[id].status]
             /\ UNCHANGED <<newOrders, subscriptionVars>>
      BY <1>6 DEF PlaceNewOrder, OneOffer
    <2>2. /\ ctx'.newOrderId = id /\ ctx'.newOrder = newOrders[id].status
          /\ ctx'.preview = ctx.preview
      BY <1>4, <2>1
    <2>3. newOrders[id].status \in NewOrderStatus
      BY <2>1, StatusOfOrder
    <2>4. Unordered
      BY <1>1, <2>1 DEF Unordered, purchaseVars, lateVars
    <2>5. id \in Nat
      BY <2>1 DEF TradeType
    <2>6. IdsInv'
      BY <1>1, <2>1, <2>2, <2>4, <2>5, SameOrders DEF IdsInv, Unordered, Bought
    <2>7. PreviewInv'
      BY <1>1, <2>2, <2>4, SameOrders DEF PreviewInv, Unordered, Previewing, Bought
    <2>8. DoneInv'
      BY <1>1, <2>1, <2>2, <2>3, <2>4, SameOrders
         DEF DoneInv, Unordered, Delivering, NewOrderStatus
    <2>9. QED
      BY <1>1, <1>5, <2>4, <2>6, <2>7, <2>8, BuysOn
  <1>7. CASE same = {}
    <2>1. newOrders = <<>> /\ Len(newOrders) = 0
      BY <1>3, <1>7 DEF TradeType
    <2>2. PICK orderStatus \in {"OPEN", "COMPLETE"} :
             /\ newOrders' = Append(newOrders, [payload |-> ctx.preview, status |-> orderStatus,
                                                returned |-> "none"])
             /\ ctx' = [ctx EXCEPT !.newOrderId = Len(newOrders) + 1, !.newOrder = orderStatus]
             /\ IF orderStatus = "COMPLETE" THEN Process(ctx.preview.quantity)
                ELSE UNCHANGED subscriptionVars
      BY <1>7 DEF PlaceNewOrder
    <2> DEFINE order == [payload |-> ctx.preview, status |-> orderStatus, returned |-> "none"]
    <2>3. /\ order \in NewOrder /\ order.payload = Wanted(offer) /\ order.status = orderStatus
          /\ order.returned = "none"
      BY <1>2, WantedIsPayload DEF NewOrder, NewOrderStatus
    <2>4. newOrders' = <<order>>
      BY <2>1, <2>2
    <2> HIDE DEF order
    <2>5. /\ newOrders' \in Seq(NewOrder) /\ Len(newOrders') = 1 /\ DOMAIN newOrders' = {1}
          /\ newOrders'[1] = order
      BY <2>3, <2>4
    <2>6. /\ ctx'.newOrderId = 1 /\ ctx'.newOrder = orderStatus /\ ctx'.preview = ctx.preview
      BY <1>4, <2>1, <2>2
    <2>7. /\ \A line : RenewalQuantity(line)' = RenewalQuantity(line)
          /\ \A line : Left(line)' = Left(line)
          /\ ManualRenewalLines' = ManualRenewalLines /\ LeftLines' = LeftLines
          /\ LateDone' = LateDone /\ \A o : Wanted(o)' = Wanted(o)
          /\ ExpiredLines' = ExpiredLines
      <3>1. \A line : RenewalQuantity(line)' = RenewalQuantity(line)
        BY <1>1 DEF RenewalQuantity
      <3>2. \A line : Left(line)' = Left(line)
        BY <3>1 DEF Left
      <3>3. QED
        BY <1>1, <3>1, <3>2 DEF ManualRenewalLines, LeftLines, LateDone, Wanted, ExpiredLines
    <2>8. ~NewDone /\ (NewDone' <=> orderStatus = "COMPLETE")
      BY <2>1, <2>3, <2>4, <2>5 DEF NewDone
    <2>9. TradeType'
      BY <1>1, <2>5 DEF TradeType, InfoType
    <2>10. AccountsInv'
      <3>1. CASE orderStatus = "COMPLETE"
        BY <1>1, <1>2, <2>2, <2>8, <3>1, BuysAccounts
      <3>2. CASE orderStatus = "OPEN"
        <4>1. UNCHANGED current
          BY <2>2, <3>2 DEF subscriptionVars
        <4>2. QED
          BY <2>7, <2>8, <3>2, <4>1 DEF AccountsInv
      <3>3. QED
        BY <3>1, <3>2
    <2>11. OrdersInv'
      <3>1. records'[Membership].customerId
        BY <1>1 DEF WholeInv, PathInv, RouteInv, BuyPath, Final
      <3>2. lateInfo = NoInfo => \A line \in Lines : lapsed[line] = 0
        BY <1>1 DEF PreviewInv, Previewing
      <3>3. QED
        BY <1>1, <2>2, <2>3, <2>5, <2>7, <3>1, <3>2 DEF OrdersInv
    <2>12. vendorId \notin 1 .. MaxNewOrders
      BY <2>1 DEF IdsInv
    <2>13. IdsInv'
      BY <1>1, <2>2, <2>5, <2>6, <2>12 DEF IdsInv, Bought
    <2>14. PreviewInv'
      BY <1>1, <1>2, <2>6, <2>7 DEF PreviewInv, Previewing, Bought
    <2>15. DoneInv'
      BY <1>1, <2>2, <2>3, <2>5, <2>6, <2>7 DEF DoneInv, Delivering
    <2>16. DeliverInv'
      BY <1>1, <1>5, BuyingIsOpen, NothingDelivered DEF WholeInv
    <2>17. QED
      BY <2>9, <2>10, <2>11, <2>13, <2>14, <2>15, <2>16
  <1>8. QED
    BY <1>6, <1>7

\* The order is followed once its identifier is saved, or found saved.
LEMMA FollowTrade ==
  ASSUME WholeInv, TradeInv, Steady, Unordered, UNCHANGED published,
         pc \in {"SubmitNewOrder", "SaveNewOrder"}, ManualRenewalLines = {} \/ LateDone,
         NEW orderStatus, orderStatus # "none", ctx.newOrderId \in DOMAIN newOrders,
         orderStatus = "COMPLETE" => newOrders[ctx.newOrderId].status = "COMPLETE",
         vendorId' \in {vendorId, ctx.newOrderId},
         Forgets(FollowOrder("CreateOrUpdateAssets", ctx.newOrderId, orderStatus))
  PROVE  TradeInv'
  <1> USE DEF TradeInv
  <1>1. CASE orderStatus # "COMPLETE"
    <2>1. /\ pc' = Idle /\ ctx' = EmptyContext /\ seen' = NothingSeen
          /\ status' \in {status, "Failed"}
      BY <1>1 DEF Forgets, FollowOrder, EndPass
    <2>2. QED
      BY <2>1, EndsTrade
  <1>2. CASE orderStatus = "COMPLETE"
    <2>1. /\ ctx' = [ctx EXCEPT !.newOrderId = ctx.newOrderId, !.newOrder = orderStatus]
          /\ pc' = "CreateOrUpdateAssets" /\ seen' = seen /\ status' = status
      BY <1>2 DEF Forgets, FollowOrder, Goto, Idle
    <2>2. ctx'.newOrderId = ctx.newOrderId /\ ctx'.newOrder = orderStatus
          /\ ctx'.preview = ctx.preview
      BY <2>1, BuysTyped DEF WholeInv
    <2>3. NewDone /\ ctx.newOrderId # 0
      BY <1>2 DEF TradeType, NewDone
    <2>4. IdsInv'
      BY <2>1, <2>2, SameOrders DEF IdsInv, Unordered, Bought, Delivering
    <2>5. PreviewInv'
      BY <2>1, <2>2, SameOrders DEF PreviewInv, Unordered, Previewing, Bought, Delivering
    <2>6. DoneInv'
      BY <2>1, <2>2, <2>3, SameOrders DEF DoneInv, Unordered, Delivering
    <2>7. pc \in BuyingOn /\ pc' \in BuyingOn
      BY <2>1 DEF BuyingOn, BuyPath
    <2>8. QED
      BY <2>1, <2>4, <2>5, <2>6, <2>7, BuysOn
  <1>3. QED
    BY <1>1, <1>2

LEMMA NothingLeftTrade ==
  ASSUME WholeInv, TradeInv, Steady, Unordered, UNCHANGED published,
         pc = "SubmitNewOrder", LeftLines = {}, Forgets(Continue("CreateOrUpdateAssets"))
  PROVE  TradeInv'
  <1> USE DEF TradeInv
  <1>1. /\ pc' = "CreateOrUpdateAssets" /\ UNCHANGED <<ctx, vendorId, status, seen>>
    BY DEF Forgets, Continue, Goto, Idle
  <1>2. ctx.newOrder = "none"
    BY DEF IdsInv, Bought, Delivering
  <1>3. IdsInv'
    BY <1>1, <1>2, SameOrders DEF IdsInv, Unordered
  <1>4. PreviewInv'
    BY <1>1, SameOrders DEF PreviewInv, Unordered, Previewing, Bought, Delivering
  <1>5. ctx.newOrderId = 0 => ActiveSubscriptions(Membership) = {}
    BY DEF WholeInv, Inv, RebuyInv, BuyingAnew
  <1>6. ActiveSubscriptions(Membership)' \subseteq ActiveSubscriptions(Membership)
    BY UnorderedKept
  <1>7. DoneInv'
    BY <1>1, <1>5, <1>6, SameOrders DEF DoneInv, Unordered, Delivering
  <1>8. pc \in BuyingOn /\ pc' \in BuyingOn
    BY <1>1 DEF BuyingOn, BuyPath
  <1>9. QED
    BY <1>1, <1>3, <1>4, <1>7, <1>8, BuysOn

LEMMA BuyingTrade ==
  ASSUME OneOffer, WholeInv, TradeInv, Steady, Buying
  PROVE  TradeInv'
  <1> USE DEF TradeInv
  <1>1. UNCHANGED <<lateVars, migrationVars, published>> /\ RestLines = LeftLines
    BY RestIs DEF Buying
  <1>2. CASE Forgets(GetRestPreview("PreviewRenewalOrders"))
    BY <1>1, <1>2, RestPreviewTrade
  <1>3. CASE UNCHANGED <<subscriptionVars, newOrders>> /\ pc = "SubmitNewOrder" /\ Forgets(Wait)
    <2>1. Unordered
      BY <1>1, <1>3 DEF Unordered, purchaseVars, migrationVars, transferVars
    <2>2. QED
      BY <1>1, <1>3, <2>1, BuyingEnds
  <1>4. CASE /\ LeftLines = {} /\ pc = "SubmitNewOrder"
             /\ Forgets(Continue("CreateOrUpdateAssets"))
             /\ UNCHANGED <<subscriptionVars, newOrders>>
    <2>1. Unordered
      BY <1>1, <1>4 DEF Unordered, purchaseVars, migrationVars, transferVars
    <2>2. QED
      BY <1>1, <1>4, <2>1, NothingLeftTrade
  <1>5. CASE /\ LeftLines # {} /\ PlaceNewOrder
             /\ seen' = IF pc' = Idle THEN NothingSeen ELSE seen
    <2>1. UNCHANGED seen
      BY <1>5 DEF PlaceNewOrder, Goto, Idle
    <2>2. QED
      BY <1>1, <1>5, <2>1, PlaceNewTrade
  <1>6. CASE Forgets(SaveNewOrder("CreateOrUpdateAssets"))
    <2>1. /\ pc = "SaveNewOrder" /\ Unordered /\ vendorId' = ctx.newOrderId
          /\ Forgets(FollowOrder("CreateOrUpdateAssets", ctx.newOrderId, ctx.newOrder))
      BY <1>1, <1>6 DEF Forgets, SaveNewOrder, Unordered, purchaseVars, migrationVars, transferVars
    <2>2. /\ ctx.newOrderId \in DOMAIN newOrders /\ ctx.newOrder # "none"
          /\ ctx.newOrder = "COMPLETE" => newOrders[ctx.newOrderId].status = "COMPLETE"
          /\ ManualRenewalLines = {} \/ LateDone
      BY <2>1 DEF DoneInv
    <2>3. QED
      BY <1>1, <2>1, <2>2, FollowTrade
  <1>7. CASE /\ LeftLines # {} /\ ~IsTransfer(ctx.newOrderId)
             /\ Forgets(FetchNewOrder("CreateOrUpdateAssets"))
    <2>1. /\ pc = "SubmitNewOrder" /\ Unordered /\ vendorId' = vendorId /\ ctx.newOrderId # 0
          /\ Forgets(FollowOrder("CreateOrUpdateAssets", ctx.newOrderId,
                                 newOrders[ctx.newOrderId].status))
      BY <1>1, <1>7 DEF Forgets, FetchNewOrder, Unordered, purchaseVars, migrationVars, transferVars
    <2>2. ctx.newOrderId \in DOMAIN newOrders
      BY <1>7, <2>1, NewOrderAssumption DEF IdsInv, IsTransfer
    <2>3. newOrders[ctx.newOrderId].status # "none" /\ (ManualRenewalLines = {} \/ LateDone)
      BY <2>1, <2>2, StatusOfOrder DEF NewOrderStatus, DoneInv
    <2>4. QED
      BY <1>1, <2>1, <2>2, <2>3, FollowTrade
  <1>8. ~SkipNewOrder("CreateOrUpdateAssets") \/ LeftLines = {}
    BY LinesAsk DEF SkipNewOrder, PreviewInv, Previewing, LeftLines
  <1>9. QED
    BY <1>1, <1>2, <1>3, <1>4, <1>5, <1>6, <1>7, <1>8
       DEF Buying, Forgets, FindTransfer, SubmitRestOrder, SubmitNewOrder

-----------------------------------------------------------------------------
(* Publishing what was bought, and Adobe.                                   *)

LEMMA AssetsTrade ==
  ASSUME WholeInv, TradeInv, Steady, CreateOrUpdateAssets("CreateOrUpdateSubscriptions")
  PROVE  TradeInv'
  <1> USE DEF TradeInv
  <1>1. /\ pc = "CreateOrUpdateAssets" /\ Unordered /\ UNCHANGED published
        /\ \/ Forgets(Wait)
           \/ /\ Forgets(Continue("CreateOrUpdateSubscriptions"))
              /\ ctx.newOrderId # 0 => ctx.newOrder # "none"
    BY DEF CreateOrUpdateAssets, Forgets, Unordered, migrationVars, transferVars
  <1>2. CASE Forgets(Wait)
    BY <1>1, <1>2, BuyingEnds
  <1>3. CASE /\ Forgets(Continue("CreateOrUpdateSubscriptions"))
             /\ ctx.newOrderId # 0 => ctx.newOrder # "none"
    <2>1. /\ pc' = "CreateOrUpdateSubscriptions" /\ UNCHANGED <<ctx, vendorId, status, seen>>
      BY <1>3 DEF Forgets, Continue, Goto, Idle
    <2>2. ActiveSubscriptions(Membership) = {}
      <3>1. CASE ctx.newOrderId = 0
        BY <1>1, <3>1 DEF DoneInv
      <3>2. CASE ctx.newOrderId # 0
        <4>1. ctx.newOrderId \in DOMAIN newOrders
          BY <1>3, <3>2 DEF IdsInv
        <4>2. newOrders # <<>>
          BY <4>1
        <4>3. QED
          BY <4>2 DEF WholeInv, Inv, RebuyInv, TransferredNotRebought
      <3>3. QED
        BY <3>1, <3>2
    <2>3. ActiveSubscriptions(Membership)' \subseteq ActiveSubscriptions(Membership)
      BY <1>1, UnorderedKept
    <2>4. IdsInv'
      BY <1>1, <2>1, SameOrders DEF IdsInv, Unordered, Bought, Delivering
    <2>5. PreviewInv'
      BY <1>1, <2>1, SameOrders DEF PreviewInv, Unordered, Previewing, Bought, Delivering
    <2>6. DoneInv'
      BY <1>1, <2>1, <2>2, <2>3, SameOrders DEF DoneInv, Unordered, Delivering
    <2>7. pc \in BuyingOn /\ pc' \in BuyingOn
      BY <1>1, <2>1 DEF BuyingOn, BuyPath
    <2>8. QED
      BY <1>1, <2>1, <2>4, <2>5, <2>6, <2>7, BuysOn
  <1>4. QED
    BY <1>1, <1>2, <1>3

\* Every line was renewed, or its NEW order is the one the pass goes by.
LEMMA LinesBoughtOrRenewed ==
  ASSUME TradeInv, pc \in Delivering
  PROVE  Lines \subseteq BoughtOrRenewed
  <1> USE DEF TradeInv
  <1>1. ASSUME NEW line \in Lines, line \notin ManualRenewalLines
        PROVE  ctx.newOrder # "none" /\ line \in Ordered(newOrders[ctx.newOrderId])
    <2>1. RenewalQuantity(line) = 0 /\ Left(line) > 0
      BY <1>1, LinesAsk, RenewalIs DEF ManualRenewalLines, Left
    <2>2. ctx.newOrder # "none" /\ ctx.newOrderId \in DOMAIN newOrders
      BY <2>1 DEF LeftLines, DoneInv, IdsInv
    <2>3. \E offer \in Offers : newOrders[ctx.newOrderId].payload = Wanted(offer)
      BY <2>2 DEF OrdersInv
    <2>4. newOrders[ctx.newOrderId].payload.quantity[line] = Left(line)
      BY <2>3 DEF Wanted
    <2>5. QED
      BY <2>1, <2>2, <2>4 DEF Ordered
  <1>2. QED
    BY <1>1 DEF BoughtOrRenewed

LEMMA SubscriptionsTrade ==
  ASSUME WholeInv, TradeInv, Steady,
         \/ CreateOrUpdateSubscriptions("SyncGCMainAgreement")
         \/ SyncMainAgreement("SyncGCMainAgreement", "CompletePurchase")
  PROVE  TradeInv'
  <1> USE DEF TradeInv
  <1>1. /\ pc \in {"CreateOrUpdateSubscriptions", "SyncGCMainAgreement"}
        /\ pc' \in {"SyncGCMainAgreement", "CompletePurchase"}
        /\ Unordered /\ UNCHANGED <<ctx, vendorId, status, seen>>
        /\ published \subseteq published'
        /\ pc = "CreateOrUpdateSubscriptions" => published' = published \cup BoughtOrRenewed
    BY DEF CreateOrUpdateSubscriptions, SyncMainAgreement, Continue, Goto, Unordered, Idle,
       migrationVars, transferVars
  <1>2. pc \in Delivering \ {"CreateOrUpdateAssets"} /\ pc' \in Delivering \ {"CreateOrUpdateAssets"}
    BY <1>1 DEF Delivering
  <1>3. Lines \subseteq published'
    BY <1>1, <1>2, LinesBoughtOrRenewed DEF DoneInv
  <1>4. ActiveSubscriptions(Membership)' \subseteq ActiveSubscriptions(Membership)
    BY <1>1, UnorderedKept
  <1>5. /\ pc \notin Previewing \cup {"CheckDeployments", "SelectFulfilment"} /\ pc \in Bought
        /\ pc' \notin Previewing \cup {"CheckDeployments", "SelectFulfilment", "GetPreviewOrder"}
        /\ pc' \in Bought
    BY <1>1 DEF Previewing, Bought, Delivering
  <1>6. IdsInv'
    BY <1>1, <1>5, SameOrders DEF IdsInv, Unordered
  <1>7. PreviewInv'
    BY <1>1, <1>5, SameOrders DEF PreviewInv, Unordered
  <1>8. DoneInv'
    BY <1>1, <1>2, <1>3, <1>4, SameOrders DEF DoneInv, Unordered, Delivering
  <1>9. pc \in BuyingOn /\ pc' \in BuyingOn
    BY <1>1 DEF BuyingOn, BuyPath
  <1>10. QED
    BY <1>1, <1>6, <1>7, <1>8, <1>9, BuysOn

LEMMA BuyAnewTrade ==
  ASSUME OneOffer, WholeInv, TradeInv, Steady, BuyAnew
  PROVE  TradeInv'
  BY SaveIdTrade, CheckManualTrade, RenewingTrade, BuyingTrade, AssetsTrade,
     SubscriptionsTrade, CompleteTrade, ClosePurchaseTrade
     DEF BuyAnew

LEMMA MigratedTrade ==
  ASSUME WholeInv, TradeInv, Steady, Migrated
  PROVE  TradeInv'
  <1>1. PathInv
    BY DEF WholeInv
  <1>2. QED
    BY <1>1, CheckDeploymentsTrade, SelectTrade, AddSubscriptionsTrade, CompleteTrade,
       ClosingTrade
       DEF Migrated

LEMMA TransferTrade ==
  ASSUME WholeInv, TradeInv, Steady, Transfer
  PROVE  TradeInv'
  <1>1. PathInv
    BY DEF WholeInv
  <1>2. QED
    BY <1>1, ValidateTransferTrade, SubmitTransferTrade, SaveIdTrade, CheckDeploymentsTrade,
       ProcessTransferTrade, AddSubscriptionsTrade, CompleteTrade, ClosingTrade
       DEF Transfer

-----------------------------------------------------------------------------
(* Adobe settles an order.                                                  *)

LEMMA OnlyOne ==
  ASSUME NEW S, NEW orders \in Seq(S), Len(orders) <= 1, NEW id \in DOMAIN orders
  PROVE  id = 1 /\ DOMAIN orders = {1} /\ Len(orders) = 1
  <1>1. Len(orders) \in Nat /\ DOMAIN orders = 1 .. Len(orders)
    OBVIOUS
  <1>2. Len(orders) = 1
    BY <1>1
  <1>3. QED
    BY <1>1, <1>2

LEMMA OnlyOneMoved ==
  ASSUME NEW S, NEW orders \in Seq(S), Len(orders) = 1, NEW order \in S
  PROVE  LET moved == [orders EXCEPT ![1] = order]
         IN  moved \in Seq(S) /\ Len(moved) = 1 /\ DOMAIN moved = {1}
  <1> DEFINE moved == [orders EXCEPT ![1] = order]
  <1>1. DOMAIN orders = 1 .. 1 /\ orders \in [1 .. 1 -> S]
    OBVIOUS
  <1>2. moved \in [1 .. 1 -> S]
    BY <1>1
  <1>3. moved \in Seq(S)
    BY <1>2
  <1> HIDE DEF moved
  <1>4. moved \in Seq(S) /\ Len(moved) = 1 /\ DOMAIN moved = {1}
    BY <1>2, <1>3
  <1>5. QED
    BY <1>4 DEF moved

\* Nothing but the orders moves, and what was done stays done.
LEMMA SettledTrade ==
  ASSUME TradeInv, UNCHANGED <<passVars, records, transferVars, published, seen, lateInfo>>,
         DOMAIN newOrders' = DOMAIN newOrders, Anew' = Anew,
         LateDone => LateDone', NewDone => NewDone',
         \A id \in DOMAIN newOrders :
            newOrders[id].status = "COMPLETE" => newOrders'[id].status = "COMPLETE",
         lateInfo = NoInfo => UNCHANGED lapsed,
         TradeType', OrdersInv', AccountsInv'
  PROVE  TradeInv'
  <1> USE DEF TradeInv, passVars, transferVars
  <1>1. /\ \A line : RenewalQuantity(line)' = RenewalQuantity(line)
        /\ \A line : Left(line)' = Left(line)
    BY DEF RenewalQuantity, Left
  <1>2. /\ ManualRenewalLines' = ManualRenewalLines /\ LeftLines' = LeftLines
        /\ \A offer : Wanted(offer)' = Wanted(offer)
        /\ AllDone => AllDone'
        /\ ActiveSubscriptions(Membership)' = ActiveSubscriptions(Membership)
        /\ Transferred(Membership)' = Transferred(Membership)
    BY <1>1 DEF ManualRenewalLines, LeftLines, Wanted, AllDone, ActiveSubscriptions, Transferred
  <1>3. IdsInv'
    BY DEF IdsInv
  <1>4. PreviewInv'
    BY <1>2 DEF PreviewInv
  <1>5. DoneInv'
    BY <1>2 DEF DoneInv, IdsInv
  <1>6. DeliverInv'
    BY <1>2 DEF DeliverInv
  <1>7. QED
    BY <1>3, <1>4, <1>5, <1>6

LEMMA SettlesNewTrade ==
  ASSUME TradeInv, AdobeSettlesNewOrder,
         UNCHANGED <<lateVars, records, transferVars, published, seen>>
  PROVE  TradeInv'
  <1> USE DEF TradeInv
  <1>1. PICK id \in DOMAIN newOrders : AdobeCompletesNewOrder(id) \/ AdobeFailsNewOrder(id)
    BY DEF AdobeSettlesNewOrder, AdobeCancelsReturnedOrder, OrdersInv
  <1>2. UNCHANGED <<passVars, lapsed, lateInfo, lateRenewals>>
    BY DEF AdobeSettlesNewOrder, lateVars
  <1>3. id = 1 /\ DOMAIN newOrders = {1} /\ Len(newOrders) = 1
    <2>1. newOrders \in Seq(NewOrder) /\ Len(newOrders) <= 1
      BY DEF TradeType
    <2>2. QED
      BY <2>1, OnlyOne
  <1>4. newOrders[1].status = "OPEN" /\ newOrders[1] \in NewOrder
    BY <1>1, <1>3 DEF AdobeCompletesNewOrder, AdobeFailsNewOrder, TradeType
  <1>5. PICK s \in {"COMPLETE", "FAILED"} :
           /\ newOrders' = [newOrders EXCEPT ![1].status = s]
           /\ s = "COMPLETE" => Process(newOrders[1].payload.quantity)
           /\ s = "FAILED" => UNCHANGED subscriptionVars
    BY <1>1, <1>3 DEF AdobeCompletesNewOrder, AdobeFailsNewOrder
  <1>6. /\ newOrders'[1] \in NewOrder /\ newOrders'[1].status = s
        /\ newOrders'[1].payload = newOrders[1].payload
        /\ newOrders'[1].returned = newOrders[1].returned
    BY <1>3, <1>4, <1>5 DEF NewOrder, NewOrderStatus
  <1>7. newOrders' \in Seq(NewOrder) /\ Len(newOrders') = 1 /\ DOMAIN newOrders' = {1}
    <2>1. newOrders \in Seq(NewOrder)
      BY DEF TradeType
    <2> DEFINE order == [newOrders[1] EXCEPT !.status = s]
    <2>2. newOrders' = [newOrders EXCEPT ![1] = order]
      BY <1>5
    <2>3. order \in NewOrder
      BY <1>4 DEF NewOrder, NewOrderStatus
    <2> HIDE DEF order
    <2>4. QED
      BY <1>3, <2>1, <2>2, <2>3, OnlyOneMoved
  <1>8. newOrders # <<>> /\ newOrders' # <<>>
    BY <1>3, <1>7
  <1>9. ~NewDone /\ (NewDone' <=> s = "COMPLETE") /\ LateDone' = LateDone /\ Anew' = Anew
    BY <1>2, <1>4, <1>6, <1>8 DEF NewDone, LateDone, Anew
  <1>10. /\ \A line : RenewalQuantity(line)' = RenewalQuantity(line)
         /\ \A line : Left(line)' = Left(line)
    BY <1>2 DEF RenewalQuantity, Left
  <1>11. /\ ManualRenewalLines' = ManualRenewalLines /\ LeftLines' = LeftLines
         /\ \A offer : Wanted(offer)' = Wanted(offer)
         /\ ExpiredLines' = ExpiredLines
    BY <1>2, <1>10 DEF ManualRenewalLines, LeftLines, Wanted, ExpiredLines, transferVars
  <1>12. TradeType'
    BY <1>2, <1>7 DEF TradeType, InfoType
  <1>13. OrdersInv'
    BY <1>2, <1>3, <1>5, <1>6, <1>7, <1>8, <1>9, <1>11 DEF OrdersInv
  <1>14. AccountsInv'
    <2>1. PICK offer \in Offers : newOrders[1].payload = Wanted(offer)
      BY <1>3 DEF OrdersInv
    <2>2. CASE s = "COMPLETE"
      BY <1>2, <1>5, <1>9, <2>1, <2>2, BuysAccounts
    <2>3. CASE s = "FAILED"
      <3>1. UNCHANGED current
        BY <1>5, <2>3 DEF subscriptionVars
      <3>2. QED
        BY <1>9, <1>10, <2>3, <3>1 DEF AccountsInv
    <2>4. QED
      BY <2>2, <2>3
  <1>15. QED
    BY <1>2, <1>3, <1>4, <1>7, <1>9, <1>12, <1>13, <1>14, SettledTrade

LEMMA SettlesLateTrade ==
  ASSUME TradeInv, AdobeSettlesLateRenewal,
         UNCHANGED <<records, transferVars, published, seen>>
  PROVE  TradeInv'
  <1> USE DEF TradeInv
  <1>1. PICK id \in DOMAIN lateRenewals :
          /\ lateRenewals[id].status = "OPEN"
          /\ \/ /\ lateRenewals' = [lateRenewals EXCEPT ![id].status = "COMPLETE"]
                /\ Renews(lateRenewals[id].quantity)
             \/ /\ lateRenewals' = [lateRenewals EXCEPT ![id].status = "FAILED"]
                /\ UNCHANGED <<subscriptionVars, lapsed>>
    BY DEF AdobeSettlesLateRenewal
  <1>2. UNCHANGED <<passVars, newOrders, lateInfo>>
    BY DEF AdobeSettlesLateRenewal
  <1>3. id = 1 /\ DOMAIN lateRenewals = {1} /\ Len(lateRenewals) = 1
    <2>1. lateRenewals \in Seq(LateRenewalOrder) /\ Len(lateRenewals) <= 1
      BY DEF TradeType
    <2>2. QED
      BY <2>1, OnlyOne
  <1>4. /\ lateRenewals[1].status = "OPEN" /\ lateRenewals[1] \in LateRenewalOrder
        /\ lateRenewals[1].quantity = lateInfo
    BY <1>1, <1>3 DEF TradeType, OrdersInv
  <1>5. PICK s \in {"COMPLETE", "FAILED"} :
           /\ lateRenewals' = [lateRenewals EXCEPT ![1].status = s]
           /\ s = "COMPLETE" => Renews(lateInfo)
           /\ s = "FAILED" => UNCHANGED <<subscriptionVars, lapsed>>
    BY <1>1, <1>3, <1>4
  <1>6. /\ lateRenewals'[1] \in LateRenewalOrder /\ lateRenewals'[1].status = s
        /\ lateRenewals'[1].quantity = lateInfo
    BY <1>3, <1>4, <1>5 DEF LateRenewalOrder
  <1>7. lateRenewals' \in Seq(LateRenewalOrder) /\ Len(lateRenewals') = 1
        /\ DOMAIN lateRenewals' = {1}
    <2>1. lateRenewals \in Seq(LateRenewalOrder)
      BY DEF TradeType
    <2> DEFINE order == [lateRenewals[1] EXCEPT !.status = s]
    <2>2. lateRenewals' = [lateRenewals EXCEPT ![1] = order]
      BY <1>5
    <2>3. order \in LateRenewalOrder
      BY <1>4 DEF LateRenewalOrder
    <2> HIDE DEF order
    <2>4. QED
      BY <1>3, <2>1, <2>2, <2>3, OnlyOneMoved
  <1>8. lateRenewals # <<>> /\ lateRenewals' # <<>>
    BY <1>3, <1>7
  <1>9. ~LateDone /\ (LateDone' <=> s = "COMPLETE") /\ NewDone' = NewDone /\ Anew' = Anew
    BY <1>2, <1>4, <1>6, <1>8 DEF NewDone, LateDone, Anew
  <1>10. /\ \A line : RenewalQuantity(line)' = RenewalQuantity(line)
         /\ \A line : Left(line)' = Left(line)
    BY <1>2 DEF RenewalQuantity, Left
  <1>11. /\ ManualRenewalLines' = ManualRenewalLines /\ LeftLines' = LeftLines
         /\ \A offer : Wanted(offer)' = Wanted(offer)
    BY <1>10 DEF ManualRenewalLines, LeftLines, Wanted
  <1>12. ManualRenewalLines # {} /\ lateInfo # NoInfo
    BY <1>8 DEF OrdersInv, ManualRenewalLines, RenewalQuantity
  <1>13. AccountsInv' /\ lapsed' \in [Lines -> Nat]
         /\ (s = "FAILED" => UNCHANGED lapsed)
    <2>1. CASE s = "COMPLETE"
      BY <1>2, <1>5, <1>9, <1>12, <2>1, RenewsAccounts
    <2>2. CASE s = "FAILED"
      <3>1. UNCHANGED <<current, lapsed>>
        BY <1>5, <2>2 DEF subscriptionVars
      <3>2. QED
        BY <1>9, <1>10, <2>2, <3>1 DEF AccountsInv, TradeType
    <2>3. QED
      BY <2>1, <2>2
  <1>14. TradeType'
    BY <1>2, <1>7, <1>13 DEF TradeType, InfoType
  <1>15. OrdersInv'
    <2>1. LateDone' \/ ManualRenewalLines' \subseteq ExpiredLines'
      BY <1>9, <1>11, <1>13 DEF OrdersInv, ExpiredLines, transferVars
    <2>2. QED
      BY <1>2, <1>6, <1>7, <1>8, <1>9, <1>11, <1>12, <2>1 DEF OrdersInv
  <1>16. QED
    BY <1>2, <1>9, <1>12, <1>13, <1>14, <1>15, SettledTrade

LEMMA ElsewhereTrade ==
  ASSUME TradeInv, Steady, Elsewhere
  PROVE  TradeInv'
  <1>1. CASE AdobeAddsDeployment \/ DeploymentSettled
    <2>1. Unordered /\ UNCHANGED <<passVars, seen, published>>
      BY <1>1 DEF AdobeAddsDeployment, DeploymentSettled, Unordered, migrationVars, transferVars
    <2>2. QED
      BY <2>1, AroundTrade DEF passVars
  <1>2. CASE AdobeSettlesNewOrder /\ UNCHANGED lateVars
             /\ UNCHANGED <<migrationVars, deploymentVars, published, seen>>
    BY <1>2, SettlesNewTrade DEF migrationVars, airtableVars
  <1>3. CASE AdobeSettlesLateRenewal
             /\ UNCHANGED <<migrationVars, deploymentVars, published, seen>>
    BY <1>3, SettlesLateTrade DEF migrationVars, airtableVars
  <1>4. QED
    BY <1>1, <1>2, <1>3 DEF Elsewhere

-----------------------------------------------------------------------------
(* The invariant of what is renewed and bought, and the theorems.           *)

LEMMA TradeInvInit == Init => TradeInv
  <1> SUFFICES ASSUME Init
               PROVE  TradeInv
    OBVIOUS
  <1>1. /\ newOrders = <<>> /\ lateRenewals = <<>> /\ lateInfo = NoInfo /\ lapsed \in [Lines -> Nat]
        /\ current = FirstCurrent
    BY LateRenewalAssumption DEF Init, NewOrderInit, LateRenewalInit, SubscriptionsInit
  <1>2. DOMAIN newOrders = {} /\ DOMAIN lateRenewals = {}
    BY <1>1
  <1>3. /\ pc = Idle /\ ctx = EmptyContext /\ vendorId = 0 /\ status = "Processing"
        /\ seen = NothingSeen
    BY DEF Init, PassInit
  <1>4. ~LateDone /\ ~NewDone /\ ~Anew
    BY <1>1 DEF LateDone, NewDone, Anew
  <1>5. TradeType
    BY <1>1 DEF TradeType
  <1>6. OrdersInv
    <2>1. ManualRenewalLines = {}
      BY <1>1 DEF ManualRenewalLines, RenewalQuantity
    <2>2. QED
      BY <1>1, <1>2, <1>4, <2>1 DEF OrdersInv
  <1>7. AccountsInv
    BY <1>1, <1>4, LinesAsk DEF AccountsInv
  <1>8. IdsInv
    BY <1>3 DEF IdsInv, EmptyContext, NothingSeen, NoRecord, Idle
  <1>9. PreviewInv /\ DoneInv /\ DeliverInv
    BY <1>3 DEF PreviewInv, DoneInv, DeliverInv, EmptyContext, Idle, Previewing, Delivering
  <1>10. QED
    BY <1>5, <1>6, <1>7, <1>8, <1>9 DEF TradeInv

LEMMA TradeInvKept == OneOffer /\ WholeInv /\ TradeInv /\ [Next]_vars => TradeInv'
  <1> SUFFICES ASSUME OneOffer, WholeInv, TradeInv, [Next]_vars
               PROVE  TradeInv'
    OBVIOUS
  <1>1. CASE UNCHANGED vars
    <2>1. UNCHANGED <<records, transfers, starting>>
      BY <1>1 DEF vars, migrationVars, airtableVars, transferVars, jobVars
    <2>2. Steady
      BY <2>1, SteadyAside
    <2>3. Unordered /\ UNCHANGED <<passVars, published, seen>>
      BY <1>1 DEF vars, Unordered, purchaseVars, migrationVars, transferVars
    <2>4. QED
      BY <2>2, <2>3, AroundTrade DEF passVars
  <1>2. CASE Next
    <2>1. Steady
      BY <1>2, NextIsSteady
    <2>2. QED
      BY <1>2, <2>1, PlatformTrade, MigratingTrade, ElsewhereTrade, PrepareTrade,
         MigratedTrade, BuyAnewTrade, TransferTrade
         DEF Next, Step
  <1>3. QED
    BY <1>1, <1>2

LEMMA TradeInvHolds ==
  ASSUME OneOffer
  PROVE  Spec => [](WholeInv /\ TradeInv)
  <1>1. Init => WholeInv /\ TradeInv
    BY WholeInvInit, TradeInvInit
  <1>2. (WholeInv /\ TradeInv) /\ [Next]_vars => (WholeInv /\ TradeInv)'
    BY OneOffer, WholeInvKept, TradeInvKept
  <1>3. QED
    BY <1>1, <1>2, PTL DEF Spec

LEMMA SumOfOne ==
  ASSUME NEW f, NEW v \in Nat, DOMAIN f = {} \/ (DOMAIN f = {1} /\ f[1] = v)
  PROVE  SumFunction(f) = IF DOMAIN f = {} THEN 0 ELSE v
  <1>1. CASE DOMAIN f = {}
    BY <1>1, SumEmpty DEF SumFunction
  <1>2. CASE DOMAIN f = {1} /\ f[1] = v
    <2>1. SumFunctionOnSet(f, {} \cup {1}) = f[1] + SumFunctionOnSet(f, {})
      BY <1>2, SumAdded, FS_EmptySet
    <2>2. {} \cup {1} = {1}
      OBVIOUS
    <2>3. SumFunction(f) = v + 0
      BY <1>2, <2>1, <2>2, SumEmpty DEF SumFunction
    <2>4. QED
      BY <1>2, <2>3
  <1>3. QED
    BY <1>1, <1>2

LEMMA NotRebought == TradeInv => RenewedNotRebought
  <1> SUFFICES ASSUME TradeInv, NEW line \in Lines
               PROVE  LET bought == [id \in DOMAIN newOrders |-> newOrders[id].payload.quantity[line]]
                          renewed == [id \in DOMAIN lateRenewals |-> lateRenewals[id].quantity[line]]
                      IN  SumFunction(bought) + SumFunction(renewed) <= NewQuantity[line]
    BY DEF RenewedNotRebought
  <1> USE DEF TradeInv
  <1> DEFINE bought == [id \in DOMAIN newOrders |-> newOrders[id].payload.quantity[line]]
             renewed == [id \in DOMAIN lateRenewals |-> lateRenewals[id].quantity[line]]
  <1>1. /\ RenewalQuantity(line) \in Nat /\ Left(line) \in Nat
        /\ Left(line) = NewQuantity[line] - RenewalQuantity(line) /\ NewQuantity[line] \in Nat
    BY RenewalIs, LinesAsk DEF Left
  <1>2. DOMAIN bought = {} \/ (DOMAIN bought = {1} /\ bought[1] = Left(line))
    <2>1. CASE DOMAIN newOrders = {}
      BY <2>1
    <2>2. CASE DOMAIN newOrders # {}
      <3>1. newOrders \in Seq(NewOrder) /\ Len(newOrders) <= 1
        BY DEF TradeType
      <3>2. DOMAIN newOrders = {1}
        BY <2>2, <3>1, OnlyOne
      <3>3. \E offer \in Offers : newOrders[1].payload = Wanted(offer)
        BY <3>2 DEF OrdersInv
      <3>4. QED
        BY <3>2, <3>3 DEF Wanted
    <2>3. QED
      BY <2>1, <2>2
  <1>3. DOMAIN renewed = {} \/ (DOMAIN renewed = {1} /\ renewed[1] = RenewalQuantity(line))
    <2>1. CASE DOMAIN lateRenewals = {}
      BY <2>1
    <2>2. CASE DOMAIN lateRenewals # {}
      <3>1. lateRenewals \in Seq(LateRenewalOrder) /\ Len(lateRenewals) <= 1
        BY DEF TradeType
      <3>2. DOMAIN lateRenewals = {1}
        BY <2>2, <3>1, OnlyOne
      <3>3. lateRenewals[1].quantity = lateInfo /\ ManualRenewalLines # {}
        BY <3>2 DEF OrdersInv
      <3>4. lateInfo # NoInfo
        BY <3>3 DEF ManualRenewalLines, RenewalQuantity
      <3>5. QED
        BY <3>2, <3>3, <3>4 DEF RenewalQuantity
    <2>3. QED
      BY <2>1, <2>2
  <1> HIDE DEF bought, renewed
  <1>4. SumFunction(bought) \in {0, Left(line)}
    BY <1>1, <1>2, SumOfOne
  <1>5. SumFunction(renewed) \in {0, RenewalQuantity(line)}
    BY <1>1, <1>3, SumOfOne
  <1>6. SumFunction(bought) + SumFunction(renewed) <= NewQuantity[line]
    BY <1>1, <1>4, <1>5
  <1>7. QED
    BY <1>6 DEF bought, renewed

\* Of what a line asks for nothing is bought that was renewed, and nothing
\* renewed twice, over however many passes, provided that Adobe takes a NEW
\* order it has seen for that one and that it is priced with the same offer
\* again (SubmitRenewalOrders, SubmitNewOrder).
THEOREM RenewedNotReboughtCorrect ==
  ASSUME OneOffer
  PROVE  Spec => []RenewedNotRebought
  <1>1. WholeInv /\ TradeInv => RenewedNotRebought
    BY NotRebought
  <1>2. QED
    BY <1>1, TradeInvHolds, OneOffer, PTL

\* Under the same proviso a completed order has published all that is active,
\* and delivered and published every line whole if it renewed or bought
\* anything anew (SelectFulfilment, CreateOrUpdateSubscriptions).
THEOREM CompletedIsDeliveredCorrect ==
  ASSUME OneOffer
  PROVE  Spec => []CompletedIsDelivered
  <1>1. WholeInv /\ TradeInv => CompletedIsDelivered
    BY DoneIsDelivered DEF TradeInv, DeliverInv, CompletedIsDelivered
  <1>2. QED
    BY <1>1, TradeInvHolds, OneOffer, PTL
=============================================================================
