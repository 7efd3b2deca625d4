------------------------- MODULE FulfillOrder_proofs -------------------------
(***************************************************************************)
(* What holds of purchases, reseller changes, switches and configurations  *)
(* for any lines, offers, refusals and calendar, wherever passes are cut   *)
(* off.  Each invariant speaks of the steps its kind of order goes         *)
(* through; the steps of other kinds leave its variables alone.            *)
(***************************************************************************)
EXTENDS FulfillOrder, SumLemmas, TLAPS

USE DEF Idle

-----------------------------------------------------------------------------
(* The context of a pass keeps its fields, whatever is saved in them.       *)

Fields == {"newOrderId", "newOrder", "preview", "linesRepriced", "returnOrders",
           "pendingReturns", "otherReturns", "returnable", "done", "updated", "error"}

ContextOK == DOMAIN ctx = Fields

LEMMA EmptyContextOK == DOMAIN EmptyContext = Fields
  BY DEF EmptyContext, Fields

\* A pass that starts knows the order's identifier, and nothing else.
LEMMA FreshContext ==
    ASSUME NEW c, c = [EmptyContext EXCEPT !.newOrderId = vendorId]
    PROVE  /\ DOMAIN c = Fields /\ c.newOrderId = vendorId
           /\ c.done = {} /\ c.newOrder = "none"
  BY DEF EmptyContext, Fields

LEMMA ContextKept == ContextOK /\ [Next]_vars => ContextOK'
  <1> SUFFICES ASSUME ContextOK, [Next]_vars PROVE ContextOK'
    OBVIOUS
  <1> USE DEF ContextOK
  <1>1. CASE UNCHANGED vars
    BY <1>1 DEF vars, passVars
  <1>2. CASE Adobe
    BY <1>2 DEF Adobe, AdobeSettlesPurchase, AdobeSettlesNewOrder, AdobeSettlesChange,
       AdobeSettlesSwitchOrder, AdobeSettlesReturnOrder, passVars
  <1>3. CASE Platform
    BY <1>3, EmptyContextOK DEF Platform, Dispatch, Resume, NextDay, Abort, Wait, EndPass
  <1>4. CASE Configuration
    BY <1>4, EmptyContextOK, FreshContext
    DEF Configuration, ConfigurationSteps, SetupContext, SetupDueDate, ValidateRenewalWindow,
        CompleteOrder, SubscriptionUpdateAutoRenewal, UpdateAutoRenewal, Handled,
        HandleSubscriptionError, RollbackUpdatedSubscription, Continue, Decide, EndPass, Wait,
        switch_order_to_failed
  <1>5. CASE Termination
    BY <1>5, EmptyContextOK, FreshContext
    DEF Termination, TerminationSteps, Unreturned, SetupContext, SetupDueDate,
        ValidateRenewalWindow, GetReturnOrders, GetTerminationReturns, Validate3YCCommitment,
        SubmitReturnOrders, PlaceReturnOrder, PostReturnOrder, AwaitReturnOrders,
        CompleteOrder, Continue, Decide, EndPass, Wait, switch_order_to_failed,
        switch_order_to_query
  <1>6. CASE MidTermSwitch
    BY <1>6, EmptyContextOK, FreshContext
    DEF MidTermSwitch, SwitchSteps, Unswitched, Only, Buying, Submitting, Forgets,
        SetupCustomer, SetupContext, SetupDueDate, ValidateDuplicateLines,
        ValidateRenewalWindow, ValidateSkuAvailability, GetSwitchPreviewOrder, UpdatePrices,
        PlaceSwitchOrder, AcceptSwitchOrder, SaveSwitchOrder, FetchSwitchOrder, FollowOrder,
        CreateOrUpdateSubscriptions, CompleteOrder, Continue, Decide, EndPass, Wait,
        switch_order_to_failed
  <1>7. CASE Purchase
    BY <1>7, EmptyContextOK, FreshContext
    DEF Purchase, PurchaseSteps, Only, Buying, Forgets, SetupCustomer, SetupContext,
        SetupDueDate, ValidateDuplicateLines, ValidateGovernmentLGA, CreateCustomer,
        PostCustomer, HandleError, SaveCustomerId, SaveAgreement,
        ValidateEducationSubSegments, Queried, Validate3YCCommitment, GetPreviewOrder,
        UpdatePrices, SubmitNewOrder, SkipNewOrder, PlaceNewOrder, SaveNewOrder,
        FetchNewOrder, FollowOrder, CreateOrUpdateAssets, CreateOrUpdateSubscriptions,
        RefreshCustomer, CompleteOrder, LaterError, Continue, Decide, EndPass, Wait,
        switch_order_to_failed, switch_order_to_query
  <1>8. CASE ResellerChange
    BY <1>8, EmptyContextOK, FreshContext
    DEF ResellerChange, ResellerSteps, RevivalSteps, Unmoved, Only, Buying, Forgets,
        SetupCustomer, SetupContext, SetupDueDate, FetchResellerChangeData,
        ValidateResellerChange, CommitResellerChange, SaveResellerChange, SaveAgreement,
        CheckAdobeResellerTransfer, GetAdobeCustomer, ProcessResellerTransferOrder,
        CreateTransferSubscriptions, GetPreviewOrder, UpdatePrices, FetchTransferAsOrder,
        SubmitNewOrder, SkipNewOrder, PlaceNewOrder, SaveNewOrder, FetchNewOrder, FollowOrder,
        CreateOrUpdateAssets, CreateOrUpdateSubscriptions, CompleteOrder, Continue, Decide,
        EndPass, Wait, switch_order_to_failed
  <1>9. QED
    BY <1>1, <1>2, <1>3, <1>4, <1>5, <1>6, <1>7, <1>8 DEF Next, Step

LEMMA ContextHolds == Spec => []ContextOK
  <1>1. Init => ContextOK
    BY EmptyContextOK DEF Init, PassInit, ContextOK
  <1>2. QED
    BY <1>1, ContextKept, PTL DEF Spec

-----------------------------------------------------------------------------
(* Configurations.                                                          *)

\* A pass remembers only subscriptions that are as the order says, and gets
\* to the end of the loop only with all of them.
ConfigurationInv ==
    /\ enabled \in [Configured -> BOOLEAN]
    /\ kind = "configuration" =>
          /\ pc \in {"SetupDueDate", "ValidateRenewalWindow"} => ctx.done = {}
          /\ pc = "SubscriptionUpdateAutoRenewal" =>
                \A s \in Configured \cap ctx.done : enabled[s] = Desired[s]
          /\ pc = "CompleteOrder" => enabled = Desired
          /\ status = "Completed" => pc = Idle /\ enabled = Desired

LEMMA ConfigurationKept ==
    ContextOK /\ ConfigurationInv /\ [Next]_vars => ConfigurationInv'
  <1> SUFFICES ASSUME ContextOK, ConfigurationInv, [Next]_vars
               PROVE  ConfigurationInv'
    OBVIOUS
  <1> USE DEF ConfigurationInv
  <1>1. CASE UNCHANGED vars
    BY <1>1 DEF vars, passVars
  <1>2. CASE Adobe
    BY <1>2 DEF Adobe, AdobeSettlesPurchase, AdobeSettlesNewOrder, AdobeSettlesChange,
       AdobeSettlesSwitchOrder, AdobeSettlesReturnOrder, passVars
  <1>3. CASE Platform
    BY <1>3 DEF Platform, Dispatch, Resume, NextDay, Abort, Wait, EndPass, Goto
  <1>4. CASE Purchase \/ ResellerChange \/ MidTermSwitch \/ Termination
    BY <1>4 DEF Purchase, ResellerChange, MidTermSwitch, Termination
  <1>5. CASE Configuration
    <2> USE <1>5 DEF Configuration
    <2>1. CASE SetupContext("SetupDueDate") /\ UNCHANGED enabled
      BY <2>1, FreshContext
      DEF SetupContext, Goto, Wait, Decide, EndPass, switch_order_to_failed
    <2>2. CASE /\ SetupDueDate("ValidateRenewalWindow")
                    \/ ValidateRenewalWindow("SubscriptionUpdateAutoRenewal")
               /\ UNCHANGED enabled
      BY <2>2 DEF SetupDueDate, ValidateRenewalWindow, Goto, Continue, Decide, EndPass,
         switch_order_to_failed
    <2>3. CASE CompleteOrder /\ UNCHANGED enabled
      BY <2>3 DEF CompleteOrder, Decide, EndPass
    <2>4. ASSUME NEW s \in Configured, UpdateAutoRenewal(s)
          PROVE  ConfigurationInv'
      <3>1. Desired[s] \in BOOLEAN
        BY ConfigurationAssumption
      <3>2. pc = "SubscriptionUpdateAutoRenewal" /\ UNCHANGED status
        BY <2>4 DEF UpdateAutoRenewal
      <3>3. enabled' \in [Configured -> BOOLEAN]
        BY <2>4, <3>1 DEF UpdateAutoRenewal, Switch
      <3>4. CASE pc' = "RollbackUpdatedSubscriptions"
        BY <3>2, <3>3, <3>4
      <3>5. CASE UNCHANGED pc
        <4>1. ctx'.done = ctx.done \cup {s} /\ enabled' = [enabled EXCEPT ![s] = Desired[s]]
          BY <2>4, <3>2, <3>5
          DEF UpdateAutoRenewal, Handled, Switch, Goto, ContextOK, Fields
        <4>2. QED
          BY <3>2, <3>3, <3>5, <4>1
      <3>6. QED
        BY <2>4, <3>4, <3>5 DEF UpdateAutoRenewal, Goto
    <2>5. CASE SubscriptionUpdateAutoRenewal("CompleteOrder")
      <3>1. CASE /\ pc = "SubscriptionUpdateAutoRenewal" /\ Configured \subseteq ctx.done
                 /\ Goto("CompleteOrder") /\ UNCHANGED <<status, enabled>>
        <4>1. enabled = Desired
          BY <3>1, ConfigurationAssumption
        <4>2. QED
          BY <3>1, <4>1 DEF Goto
      <3>2. QED
        BY <2>4, <2>5, <3>1 DEF SubscriptionUpdateAutoRenewal
    <2>6. ASSUME NEW s \in Configured, RollbackUpdatedSubscription(s)
          PROVE  ConfigurationInv'
      BY <2>6, ConfigurationAssumption DEF RollbackUpdatedSubscription, Switch
    <2>7. CASE HandleSubscriptionError
      BY <2>6, <2>7 DEF HandleSubscriptionError, switch_order_to_failed, Decide, EndPass
    <2>8. QED
      BY <2>1, <2>2, <2>3, <2>5, <2>7 DEF ConfigurationSteps
  <1>6. QED
    BY <1>1, <1>2, <1>3, <1>4, <1>5 DEF Next, Step

\* Whatever failed, was undone or cut off before: an order that is completed
\* left no subscription with another flag than it asks for, for any number of
\* subscriptions and passes (SubscriptionUpdateAutoRenewal).
THEOREM ConfiguredCorrect == Spec => []ConfiguredWhenCompleted
  <1>1. Init => ConfigurationInv
    BY ConfigurationAssumption
    DEF Init, PassInit, ConfigurationInit, ConfigurationInv
  <1>2. ConfigurationInv => ConfiguredWhenCompleted
    BY DEF ConfigurationInv, ConfiguredWhenCompleted
  <1>3. QED
    BY <1>1, <1>2, ContextHolds, ConfigurationKept, PTL DEF Spec

-----------------------------------------------------------------------------
(* One account.                                                             *)

Buyers == {"purchase", "reseller", "switch"}

\* Steps before the pass has an account, and those that save a new one.
Early == {"SetupDueDate", "ValidateDuplicateLines", "ValidateGovernmentLGA",
          "CreateCustomer", "FetchResellerChangeData", "ValidateResellerChange",
          "CommitResellerChange"}
Saving == {"SaveCustomerId", "SaveResellerChange"}
Outside == {Idle, "SetupContext"}

Under(step) == step \notin Outside \cup Saving
Known(step) == Under(step) /\ step \notin Early

Seen == [account : Nat, fresh : BOOLEAN, transfer : BOOLEAN]

\* A pass that is past SetupContext knows the customer on record, but for the
\* moment between creating one and saving it; nothing is bought without one.
AccountInv ==
    /\ {customers, customerId} \subseteq Nat
    /\ buyers \in Seq(Nat)
    /\ seen \in Seen
    /\ OneAccount
    /\ customerId = 0 => buyers = <<>> /\ agreementCustomer = 0
    /\ kind = "switch" => customerId # 0
    /\ kind \in Buyers =>
          /\ Under(pc) => seen.account = customerId
          /\ pc \in Saving => customerId = 0 /\ seen.account # 0
          /\ Known(pc) => customerId # 0

\* What every step does to the account that neither learns nor saves one.
Quiet ==
    /\ UNCHANGED <<customerVars, kind>>
    /\ seen' = seen \/ (pc' = Idle /\ seen' = NothingSeen)
    /\ \/ UNCHANGED buyers
       \/ kind \in Buyers /\ Known(pc) /\ buyers' = Append(buyers, seen.account)
    /\ \/ kind \notin Buyers
       \/ pc' \in Outside
       \/ UNCHANGED pc
       \/ Under(pc) /\ Under(pc') /\ (Known(pc') => Known(pc) \/ customerId # 0)

LEMMA NothingSeenOK == NothingSeen \in Seen /\ NothingSeen.account = 0
  BY DEF NothingSeen, Seen

LEMMA Remembered ==
    ASSUME NEW old \in Seen, NEW account \in Nat
    PROVE  LET new == [old EXCEPT !.account = account, !.fresh = TRUE]
           IN  new \in Seen /\ new.account = account
  BY DEF Seen

LEMMA QuietKept == AccountInv /\ Quiet => AccountInv'
  <1> SUFFICES ASSUME AccountInv, Quiet PROVE AccountInv'
    OBVIOUS
  <1>1. UNCHANGED <<customers, customerId, agreementCustomer, kind>>
    BY DEF Quiet, customerVars
  <1>2. seen' \in Seen
    BY NothingSeenOK DEF Quiet, AccountInv
  <1>3. /\ buyers' \in Seq(Nat)
        /\ \A id \in DOMAIN buyers' : buyers'[id] = customerId
        /\ customerId = 0 => buyers' = <<>>
    <2>1. CASE UNCHANGED buyers
      BY <2>1 DEF AccountInv, OneAccount
    <2>2. CASE kind \in Buyers /\ Known(pc) /\ buyers' = Append(buyers, seen.account)
      <3>1. buyers \in Seq(Nat) /\ seen.account = customerId /\ customerId \in Nat
            /\ customerId # 0
        BY <2>2 DEF AccountInv, Known
      <3>2. QED
        BY <2>2, <3>1 DEF AccountInv, OneAccount
    <2>3. QED
      BY <2>1, <2>2 DEF Quiet
  <1>4. kind \in Buyers =>
          /\ Under(pc') => seen'.account = customerId
          /\ pc' \in Saving => customerId = 0 /\ seen'.account # 0
          /\ Known(pc') => customerId # 0
    BY DEF Quiet, AccountInv, Under, Known, Outside, Saving
  <1>5. QED
    BY <1>1, <1>2, <1>3, <1>4
    DEF AccountInv, OneAccount, Under, Known

\* The steps around the customer, one by one.
LEMMA SetupCustomerKept ==
    ASSUME AccountInv, SetupCustomer("SetupDueDate"), UNCHANGED kind
    PROVE  AccountInv'
  <1>1. UNCHANGED <<customers, customerId, agreementCustomer, buyers>>
        /\ pc' \in {Idle, "SetupDueDate"}
    BY DEF SetupCustomer, SetupContext, boughtVars, customerVars, Goto, Wait, Decide,
       EndPass, switch_order_to_failed
  <1>2. seen' \in Seen /\ (pc' = "SetupDueDate" => seen'.account = customerId)
    BY NothingSeenOK DEF SetupCustomer, AccountInv, NothingSeen, Seen
  <1>3. QED
    BY <1>1, <1>2
    DEF AccountInv, OneAccount, Under, Known, Saving, Outside, Early

LEMMA CreateCustomerKept ==
    ASSUME AccountInv, CreateCustomer("ValidateEducationSubSegments"), kind = "purchase",
           UNCHANGED kind
    PROVE  AccountInv'
  <1> DEFINE created == [NothingSeen EXCEPT !.account = customers + 1, !.fresh = TRUE]
  <1>1. UNCHANGED <<customerId, agreementCustomer, buyers>> /\ pc = "CreateCustomer"
        /\ seen.account = customerId
    BY DEF CreateCustomer, boughtVars, AccountInv, Under, Saving, Outside, Buyers
  <1>2. CASE seen.account # 0 /\ Continue("ValidateEducationSubSegments")
             /\ UNCHANGED <<customers, seen>>
    <2>1. customerId # 0 /\ pc' = "ValidateEducationSubSegments"
      BY <1>1, <1>2 DEF Continue, Goto
    <2>2. UNCHANGED <<customerVars, kind>> /\ UNCHANGED seen /\ UNCHANGED buyers
      BY <1>1, <1>2 DEF customerVars
    <2>3. Under(pc) /\ Under(pc')
      BY <1>1, <2>1 DEF Under, Saving, Outside
    <2>4. Quiet
      BY <2>1, <2>2, <2>3 DEF Quiet
    <2>5. QED
      BY <2>4, QuietKept
  <1>3. CASE seen' = NothingSeen /\ pc' = Idle /\ customers' \in {customers, customers + 1}
    BY <1>1, <1>3, NothingSeenOK
    DEF AccountInv, OneAccount, Under, Known, Saving, Outside
  <1>4. CASE seen.account = 0 /\ customers' = customers + 1 /\ seen' = created
             /\ Continue("SaveCustomerId")
    <2>1. created \in Seen /\ created.account = customers + 1 /\ customers + 1 # 0
      <3>1. customers + 1 \in Nat /\ customers + 1 # 0
        BY DEF AccountInv
      <3>2. QED
        BY <3>1, NothingSeenOK, Remembered
    <2> HIDE DEF created
    <2>2. QED
      BY <1>1, <1>4, <2>1
      DEF AccountInv, OneAccount, Continue, Goto, Under, Known, Saving, Outside, Early
  <1>5. HandleError \/ switch_order_to_query => pc' = Idle
    BY DEF HandleError, switch_order_to_query, switch_order_to_failed, Decide, EndPass
  <1>6. QED
    BY <1>2, <1>3, <1>4, <1>5 DEF CreateCustomer, PostCustomer

LEMMA SaveAccountKept ==
    ASSUME AccountInv, UNCHANGED <<kind, customers, agreementCustomer, buyers, seen>>,
           kind \in Buyers, pc \in Saving \/ Known(pc),
           customerId' = seen.account, Known(pc')
    PROVE  AccountInv'
  <1>1. seen.account # 0 /\ seen.account \in Nat
        /\ ((buyers = <<>> /\ agreementCustomer = 0) \/ customerId = seen.account)
    BY DEF AccountInv, Known, Seen
  <1>2. QED
    BY <1>1 DEF AccountInv, OneAccount, Under, Known, Saving, Outside, Early

LEMMA SaveAgreementKept ==
    ASSUME NEW step \in {"SaveAgreement", "SaveAgreementAgain"},
           NEW next \in {"ValidateEducationSubSegments", "CheckAdobeResellerTransfer",
                         "ProcessResellerTransferOrder"},
           AccountInv, kind \in Buyers, SaveAgreement(step, next), UNCHANGED kind
    PROVE  AccountInv'
  <1>1. /\ UNCHANGED <<customers, customerId, buyers, seen>>
        /\ agreementCustomer' = seen.account /\ pc = step /\ pc' = next
    BY DEF SaveAgreement, boughtVars, Continue, Goto
  <1>2. seen.account = customerId /\ customerId # 0
    BY <1>1 DEF AccountInv, Under, Known, Saving, Outside, Early
  <1>3. QED
    BY <1>1, <1>2 DEF AccountInv, OneAccount, Under, Known, Saving, Outside, Early

LEMMA CommitKept ==
    ASSUME AccountInv, CommitResellerChange("CheckAdobeResellerTransfer"),
           kind = "reseller", UNCHANGED kind
    PROVE  AccountInv'
  <1> DEFINE committed == [seen EXCEPT !.account = TheCustomer, !.transfer = TRUE]
  <1>1. UNCHANGED <<customerId, agreementCustomer, buyers>> /\ pc = "CommitResellerChange"
        /\ seen.account = customerId
    BY DEF CommitResellerChange, boughtVars, AccountInv, Under, Saving, Outside, Buyers
  <1>2. CASE seen.account # 0 /\ Continue("CheckAdobeResellerTransfer")
             /\ UNCHANGED <<customers, seen>>
    <2>1. customerId # 0 /\ pc' = "CheckAdobeResellerTransfer"
      BY <1>1, <1>2 DEF Continue, Goto
    <2>2. UNCHANGED <<customerVars, kind>> /\ UNCHANGED seen /\ UNCHANGED buyers
      BY <1>1, <1>2 DEF customerVars
    <2>3. Under(pc) /\ Under(pc')
      BY <1>1, <2>1 DEF Under, Saving, Outside
    <2>4. Quiet
      BY <2>1, <2>2, <2>3 DEF Quiet
    <2>5. QED
      BY <2>4, QuietKept
  <1>3. CASE seen.account = 0 /\ customers' = TheCustomer /\ seen' = committed
             /\ Continue("SaveResellerChange")
    <2>1. committed \in Seen /\ committed.account = 1 /\ TheCustomer = 1
      BY DEF AccountInv, Seen, TheCustomer
    <2> HIDE DEF committed
    <2>2. QED
      BY <1>1, <1>3, <2>1
      DEF AccountInv, OneAccount, Continue, Goto, Under, Known, Saving, Outside, Early
  <1>4. CASE Forgets(switch_order_to_failed) /\ UNCHANGED customers
    <2>1. Quiet
      BY <1>1, <1>4
      DEF Quiet, customerVars, Forgets, switch_order_to_failed, Decide, EndPass, Outside
    <2>2. QED
      BY <2>1, QuietKept
  <1>5. QED
    BY <1>2, <1>3, <1>4 DEF CommitResellerChange

\* All other steps are quiet.
LEMMA PlatformQuiet == Platform => Quiet
  BY DEF Platform, Dispatch, Resume, NextDay, Abort, Wait, EndPass, Goto, Quiet, Outside,
     boughtVars

LEMMA AdobeQuiet == Adobe => Quiet
  BY DEF Adobe, AdobeSettlesPurchase, AdobeSettlesNewOrder, AdobeSettlesChange,
     AdobeSettlesSwitchOrder, AdobeSettlesReturnOrder, passVars, purchaseVars, boughtVars, Quiet

LEMMA PurchaseKept == AccountInv /\ Purchase => AccountInv'
  <1> SUFFICES ASSUME AccountInv, Purchase PROVE AccountInv'
    OBVIOUS
  <1>a. kind = "purchase" /\ kind \in Buyers /\ UNCHANGED kind /\ PurchaseSteps
    BY DEF Purchase, Buyers
  <1> USE DEF Under, Known, Saving, Outside, Early
  <1>1. CASE SetupCustomer("SetupDueDate")
    BY <1>1, <1>a, SetupCustomerKept
  <1>2. CASE \/ Only(SetupDueDate("ValidateDuplicateLines"))
             \/ Only(ValidateDuplicateLines("ValidateGovernmentLGA"))
             \/ Only(ValidateGovernmentLGA("CreateCustomer"))
             \/ Only(ValidateEducationSubSegments("Validate3YCCommitment"))
             \/ Only(Validate3YCCommitment("GetPreviewOrder"))
             \/ Only(CompleteOrder)
    <2>1. Quiet
      BY <1>2, <1>a
      DEF Only, Forgets, Queried, SetupDueDate, ValidateDuplicateLines, ValidateGovernmentLGA,
          ValidateEducationSubSegments, Validate3YCCommitment, CompleteOrder, Continue, Goto,
          Decide, EndPass, switch_order_to_failed, switch_order_to_query, Quiet, boughtVars
    <2>2. QED
      BY <2>1, QuietKept
  <1>3. CASE CreateCustomer("ValidateEducationSubSegments")
    BY <1>3, <1>a, CreateCustomerKept
  <1>4. CASE SaveCustomerId("SaveAgreement")
    <2>1. pc = "SaveCustomerId" /\ pc' = "SaveAgreement" /\ customerId' = seen.account
          /\ UNCHANGED <<kind, customers, agreementCustomer, buyers, seen>>
      BY <1>4, <1>a DEF SaveCustomerId, Continue, Goto, boughtVars
    <2>2. QED
      BY <1>a, <2>1, SaveAccountKept
  <1>5. CASE SaveAgreement("SaveAgreement", "ValidateEducationSubSegments")
    BY <1>5, <1>a, SaveAgreementKept
  <1>6. CASE \/ Buying(GetPreviewOrder("UpdatePrices"))
             \/ Buying(UpdatePrices("SubmitNewOrder"))
             \/ Buying(SubmitNewOrder("CreateOrUpdateAssets"))
    <2>1. Known(pc) /\ (pc' = Idle \/ Known(pc'))
      BY <1>6
      DEF Buying, Forgets, GetPreviewOrder, UpdatePrices, SubmitNewOrder, SkipNewOrder,
          PlaceNewOrder, SaveNewOrder, FetchNewOrder, FollowOrder, Continue, Goto, EndPass,
          Decide, switch_order_to_failed
    <2>2. Quiet
      BY <1>6, <1>a, <2>1 DEF Buying, Forgets, Quiet
    <2>3. QED
      BY <2>2, QuietKept
  <1>7. CASE \/ CreateOrUpdateAssets("CreateOrUpdateSubscriptions")
             \/ CreateOrUpdateSubscriptions("RefreshCustomer", Bought)
             \/ RefreshCustomer("CompleteOrder")
             \/ LaterError
    <2>1. Quiet
      BY <1>7, <1>a
      DEF CreateOrUpdateAssets, CreateOrUpdateSubscriptions, RefreshCustomer, LaterError,
          HandleError, Forgets, Wait, Continue, Goto, EndPass, Decide, switch_order_to_failed,
          switch_order_to_query, Quiet, boughtVars, purchaseVars
    <2>2. QED
      BY <2>1, QuietKept
  <1>8. QED
    BY <1>a, <1>1, <1>2, <1>3, <1>4, <1>5, <1>6, <1>7 DEF PurchaseSteps

LEMMA ResellerKept == AccountInv /\ ResellerChange => AccountInv'
  <1> SUFFICES ASSUME AccountInv, ResellerChange PROVE AccountInv'
    OBVIOUS
  <1>a. kind = "reseller" /\ kind \in Buyers /\ UNCHANGED kind
        /\ (ResellerSteps \/ RevivalSteps)
    BY DEF ResellerChange, Buyers
  <1> USE DEF Under, Known, Saving, Outside, Early
  <1>1. CASE Unmoved(SetupCustomer("SetupDueDate"))
    BY <1>1, <1>a, SetupCustomerKept DEF Unmoved
  <1>2. CASE \/ Unmoved(Only(SetupDueDate("FetchResellerChangeData")))
             \/ Unmoved(Only(FetchResellerChangeData("ValidateResellerChange")))
             \/ Unmoved(Only(ValidateResellerChange("CommitResellerChange")))
             \/ Unmoved(Only(CheckAdobeResellerTransfer("GetAdobeCustomer")))
             \/ Unmoved(Only(ProcessResellerTransferOrder("CreateTransferSubscriptions",
                                                          "GetPreviewOrder")))
             \/ Unmoved(Only(CompleteOrder))
    <2>1. Quiet
      BY <1>2, <1>a
      DEF Unmoved, Only, Forgets, SetupDueDate, FetchResellerChangeData,
          ValidateResellerChange, CheckAdobeResellerTransfer, ProcessResellerTransferOrder,
          CompleteOrder, Wait, Continue, Goto, Decide, EndPass, switch_order_to_failed, Quiet,
          boughtVars
    <2>2. QED
      BY <2>1, QuietKept
  <1>3. CASE CommitResellerChange("CheckAdobeResellerTransfer")
    BY <1>3, <1>a, CommitKept
  <1>4. CASE SaveResellerChange("SaveAgreement") \/ GetAdobeCustomer("SaveAgreementAgain")
    <2>1. /\ pc \in Saving \/ Known(pc)
          /\ customerId' = seen.account /\ Known(pc')
          /\ UNCHANGED <<kind, customers, agreementCustomer, buyers, seen>>
      BY <1>4, <1>a DEF SaveResellerChange, GetAdobeCustomer, Goto, boughtVars
    <2>2. QED
      BY <1>a, <2>1, SaveAccountKept
  <1>5. CASE \/ Unmoved(SaveAgreement("SaveAgreement", "CheckAdobeResellerTransfer"))
             \/ Unmoved(SaveAgreement("SaveAgreementAgain", "ProcessResellerTransferOrder"))
    BY <1>5, <1>a, SaveAgreementKept DEF Unmoved
  <1>6. CASE \/ Buying(GetPreviewOrder("UpdatePrices"))
             \/ Buying(UpdatePrices("SubmitNewOrder"))
             \/ Buying(FetchTransferAsOrder("CreateOrUpdateAssets"))
             \/ Buying(SubmitNewOrder("CreateOrUpdateAssets"))
    <2>1. Known(pc) /\ (pc' = Idle \/ Known(pc'))
      BY <1>6
      DEF Buying, Forgets, GetPreviewOrder, UpdatePrices, SubmitNewOrder, SkipNewOrder,
          PlaceNewOrder, SaveNewOrder, FetchNewOrder, FetchTransferAsOrder, FollowOrder,
          Continue, Goto, Wait, EndPass, Decide, switch_order_to_failed
    <2>2. Quiet
      BY <1>6, <1>a, <2>1 DEF Buying, Forgets, Quiet
    <2>3. QED
      BY <2>2, QuietKept
  <1>7. CASE \/ CreateTransferSubscriptions("CompleteOrder")
             \/ CreateOrUpdateAssets("CreateOrUpdateSubscriptions")
             \/ CreateOrUpdateSubscriptions("CompleteOrder", BoughtOrTransferred)
    <2>1. Quiet
      BY <1>7, <1>a
      DEF CreateTransferSubscriptions, CreateOrUpdateAssets, CreateOrUpdateSubscriptions,
          Forgets, Wait, Continue, Goto, EndPass, Quiet, boughtVars
    <2>2. QED
      BY <2>1, QuietKept
  <1>8. QED
    BY <1>a, <1>1, <1>2, <1>3, <1>4, <1>5, <1>6, <1>7 DEF ResellerSteps, RevivalSteps

LEMMA SwitchKept == AccountInv /\ MidTermSwitch => AccountInv'
  <1> SUFFICES ASSUME AccountInv, MidTermSwitch PROVE AccountInv'
    OBVIOUS
  <1>a. kind = "switch" /\ kind \in Buyers /\ customerId # 0 /\ UNCHANGED kind /\ SwitchSteps
    BY DEF MidTermSwitch, Buyers, AccountInv
  <1> USE DEF Under, Known, Saving, Outside, Early
  <1>1. CASE Unswitched(SetupCustomer("SetupDueDate"))
    BY <1>1, <1>a, SetupCustomerKept DEF Unswitched
  <1>2. CASE \/ Unswitched(Only(SetupDueDate("ValidateDuplicateLines")))
             \/ Unswitched(Only(ValidateDuplicateLines("ValidateRenewalWindow")))
             \/ Unswitched(Only(ValidateRenewalWindow("ValidateSkuAvailability")))
             \/ Unswitched(Only(ValidateSkuAvailability("GetSwitchPreviewOrder")))
             \/ Unswitched(Only(GetSwitchPreviewOrder("UpdatePrices")))
             \/ Unswitched(Only(CompleteOrder))
    <2>1. Quiet
      BY <1>2, <1>a
      DEF Unswitched, Only, Forgets, SetupDueDate, ValidateDuplicateLines,
          ValidateRenewalWindow, ValidateSkuAvailability, GetSwitchPreviewOrder,
          CompleteOrder, Continue, Goto, Decide, EndPass, switch_order_to_failed, Quiet,
          boughtVars
    <2>2. QED
      BY <2>1, QuietKept
  <1>3. CASE Unswitched(Buying(UpdatePrices("SubmitSwitchOrder")))
    <2>1. Quiet
      BY <1>3, <1>a DEF Unswitched, Buying, Forgets, UpdatePrices, Goto, Quiet
    <2>2. QED
      BY <2>1, QuietKept
  <1>4. CASE \/ Submitting(PlaceSwitchOrder)
             \/ Submitting(SaveSwitchOrder("CreateOrUpdateSubscriptions"))
             \/ Submitting(FetchSwitchOrder("CreateOrUpdateSubscriptions"))
    <2>1. Known(pc) /\ (pc' = Idle \/ Known(pc'))
      BY <1>4
      DEF Submitting, Forgets, PlaceSwitchOrder, SaveSwitchOrder, FetchSwitchOrder,
          FollowOrder, Goto, EndPass
    <2>2. Quiet
      BY <1>4, <1>a, <2>1 DEF Submitting, Forgets, Quiet
    <2>3. QED
      BY <2>2, QuietKept
  <1>5. CASE Unswitched(CreateOrUpdateSubscriptions("CompleteOrder", SwitchedLines))
    <2>1. Quiet
      BY <1>5, <1>a
      DEF Unswitched, CreateOrUpdateSubscriptions, Forgets, Wait, Continue, Goto, EndPass,
          Quiet, boughtVars
    <2>2. QED
      BY <2>1, QuietKept
  <1>6. QED
    BY <1>a, <1>1, <1>2, <1>3, <1>4, <1>5 DEF SwitchSteps

LEMMA AccountKept == AccountInv /\ [Next]_vars => AccountInv'
  <1> SUFFICES ASSUME AccountInv, [Next]_vars PROVE AccountInv'
    OBVIOUS
  <1>1. CASE UNCHANGED vars
    BY <1>1, QuietKept DEF vars, passVars, boughtVars, Quiet
  <1>2. CASE Termination \/ Configuration
    <2>1. Quiet
      BY <1>2 DEF Termination, Configuration, Quiet, purchaseVars, boughtVars, Buyers
    <2>2. QED
      BY <2>1, QuietKept
  <1>3. QED
    BY <1>1, <1>2, PlatformQuiet, AdobeQuiet, QuietKept, PurchaseKept, ResellerKept, SwitchKept
    DEF Next, Step

LEMMA AccountHolds == Spec => []AccountInv
  <1>1. Init => AccountInv
    BY NothingSeenOK
    DEF Init, PassInit, PurchaseInit, HasCustomer, TheCustomer, AccountInv, OneAccount,
        Under, Known, Saving, Outside
  <1>2. QED
    BY <1>1, AccountKept, PTL DEF Spec

\* However often the passes of a purchase, a reseller change or a switch are
\* cut off between creating the account, saving it twice and buying: whatever
\* was bought was bought for the account on record (CreateCustomer).
THEOREM OneAccountCorrect == Spec => []OneAccount
  <1>1. AccountInv => OneAccount
    BY DEF AccountInv
  <1>2. QED
    BY <1>1, AccountHolds, PTL

-----------------------------------------------------------------------------
(* Nothing before the transfer.                                             *)

ToTransfer == {"SaveAgreement", "CheckAdobeResellerTransfer"}
Afterwards == {"GetAdobeCustomer", "SaveAgreementAgain", "ProcessResellerTransferOrder",
               "GetPreviewOrder", "UpdatePrices", "SubmitNewOrder"}

\* As long as Adobe has not transferred the customer, the pass that committed
\* the change gets no further than CheckAdobeResellerTransfer, and any other
\* that knows the customer carries the identifier of the transfer, for which
\* SubmitNewOrder gets no processed order.
UntransferredInv ==
    /\ published = {} /\ status # "Completed"
    /\ customerId # 0 => vendorId = TransferId
    /\ seen.transfer => change.status = "OPEN"
    /\ pc \in Early => ~seen.transfer /\ (seen.account # 0 => ctx.newOrderId = TransferId)
    /\ pc = "SaveResellerChange" => seen.transfer
    /\ pc \in ToTransfer => seen.transfer \/ ctx.newOrderId = TransferId
    /\ pc \in Afterwards => ~seen.transfer /\ ctx.newOrderId = TransferId
    /\ pc \in Early \cup ToTransfer \cup Afterwards \cup Outside \cup {"SaveResellerChange"}

TransferInv ==
    /\ change \in [status : ChangeStatus, items : {{}, NewLines}]
    /\ kind = "reseller" /\ ~Transferred => UntransferredInv

LEMMA TransferKept ==
    ContextOK /\ AccountInv /\ TransferInv /\ [Next]_vars => TransferInv'
  <1> SUFFICES ASSUME ContextOK, AccountInv, TransferInv, [Next]_vars
               PROVE  TransferInv'
    OBVIOUS
  <1>a. DOMAIN ctx = Fields /\ seen \in Seen
        /\ change \in [status : ChangeStatus, items : {{}, NewLines}]
    BY DEF ContextOK, AccountInv, TransferInv
  <1>1. CASE UNCHANGED vars
    BY <1>1 DEF vars, passVars, boughtVars, customerVars, TransferInv, UntransferredInv, Transferred
  <1>2. CASE Adobe
    <2>1. UNCHANGED <<passVars, customerVars, published, seen, kind>>
      BY <1>2 DEF Adobe, AdobeSettlesPurchase, AdobeSettlesNewOrder, AdobeSettlesChange,
         AdobeSettlesSwitchOrder, AdobeSettlesReturnOrder, purchaseVars
    <2>2. \/ UNCHANGED change
          \/ /\ change' \in [status : ChangeStatus, items : {{}, NewLines}]
             /\ change'.status = "COMPLETE"
      BY <1>2, <1>a DEF Adobe, AdobeSettlesChange, ChangeStatus
    <2>3. QED
      BY <2>1, <2>2
      DEF passVars, customerVars, TransferInv, UntransferredInv, Transferred
  <1>3. CASE Platform
    <2>1. UNCHANGED <<change, kind, vendorId, customerId, published>>
      BY <1>3 DEF Platform, Dispatch, Resume, NextDay, Abort, Wait, customerVars
    <2>2. CASE Dispatch \/ Abort
      BY <1>3, <2>1, <2>2
      DEF Platform, Dispatch, Abort, Wait, EndPass, Goto, TransferInv, UntransferredInv,
          Transferred, NothingSeen, Outside, Early, ToTransfer, Afterwards
    <2>3. QED
      BY <1>3, <2>1, <2>2
      DEF Platform, Resume, NextDay, TransferInv, UntransferredInv,
          Transferred, NothingSeen, Outside, Early, ToTransfer, Afterwards
  <1>4. CASE Purchase \/ MidTermSwitch \/ Termination \/ Configuration
    BY <1>4
    DEF Purchase, MidTermSwitch, Termination, Configuration, TransferInv
  <1>5. CASE ResellerChange
    <2>t. change' \in [status : ChangeStatus, items : {{}, NewLines}]
      <3>1. UNCHANGED change
            \/ \E answer \in {"OPEN", "COMPLETE"} : change' = [change EXCEPT !.status = answer]
        BY <1>5 DEF ResellerChange, ResellerSteps, Unmoved, CommitResellerChange,
           SaveResellerChange, GetAdobeCustomer, CreateTransferSubscriptions
      <3>2. QED
        BY <3>1, <1>a DEF ChangeStatus
    <2>c. Transferred => Transferred'
      BY <1>5, <1>a DEF ResellerChange, ResellerSteps, Unmoved, CommitResellerChange,
         SaveResellerChange, GetAdobeCustomer, CreateTransferSubscriptions, Transferred
    <2> SUFFICES ASSUME UntransferredInv, ~Transferred, ~Transferred' PROVE UntransferredInv'
      BY <1>5, <2>t, <2>c DEF TransferInv, ResellerChange
    <2>a. kind = "reseller" /\ (ResellerSteps \/ RevivalSteps)
      BY <1>5 DEF ResellerChange
    <2> USE DEF UntransferredInv, Outside, Early, ToTransfer, Afterwards
    <2>1. CASE Unmoved(SetupCustomer("SetupDueDate"))
      <3>1. UNCHANGED <<change, vendorId, customerId, published>> /\ status' # "Completed"
        BY <2>1 DEF Unmoved, SetupCustomer, SetupContext, Wait, Decide, EndPass,
           switch_order_to_failed, customerVars
      <3>2. CASE pc' = "SetupDueDate"
        <4>1. ctx' = [EmptyContext EXCEPT !.newOrderId = vendorId]
          BY <2>1, <3>2
          DEF Unmoved, SetupCustomer, SetupContext, Wait, Decide, EndPass,
              switch_order_to_failed
        <4>2. ctx'.newOrderId = vendorId
          BY <4>1, FreshContext
        <4>3. seen'.account = customerId /\ ~seen'.transfer
          BY <2>1, <3>2 DEF Unmoved, SetupCustomer, NothingSeen
        <4>4. QED
          BY <3>1, <3>2, <4>2, <4>3
      <3>3. CASE pc' = Idle
        BY <2>1, <3>1, <3>3 DEF Unmoved, SetupCustomer, NothingSeen
      <3>4. QED
        BY <2>1, <3>2, <3>3
        DEF Unmoved, SetupCustomer, SetupContext, Goto, Wait, Decide, EndPass,
            switch_order_to_failed
    <2>2. CASE \/ Unmoved(Only(SetupDueDate("FetchResellerChangeData")))
               \/ Unmoved(Only(FetchResellerChangeData("ValidateResellerChange")))
               \/ Unmoved(Only(ValidateResellerChange("CommitResellerChange")))
               \/ Unmoved(Only(CheckAdobeResellerTransfer("GetAdobeCustomer")))
      BY <2>2, <2>a, <1>a
      DEF Unmoved, Only, Forgets, SetupDueDate, FetchResellerChangeData,
          ValidateResellerChange, CheckAdobeResellerTransfer, Wait, Continue, Goto, Decide,
          EndPass, switch_order_to_failed, customerVars, NothingSeen
    <2>3. CASE CommitResellerChange("CheckAdobeResellerTransfer")
      <3> DEFINE committed == [seen EXCEPT !.account = TheCustomer, !.transfer = TRUE]
      <3>1. pc = "CommitResellerChange" /\ UNCHANGED <<customerId, published>>
        BY <2>3 DEF CommitResellerChange
      <3>2. CASE seen.account # 0 /\ Continue("CheckAdobeResellerTransfer")
                 /\ UNCHANGED <<change, seen>>
        BY <3>1, <3>2 DEF Continue, Goto
      <3>3. ASSUME NEW answer \in {"OPEN", "COMPLETE"},
                   change' = [change EXCEPT !.status = answer],
                   seen' = committed, Continue("SaveResellerChange")
            PROVE  UntransferredInv'
        <4>1. change'.status = "OPEN"
          BY <3>3, <1>a DEF Transferred
        <4>2. committed.transfer
          BY <1>a DEF Seen
        <4> HIDE DEF committed
        <4>3. QED
          BY <3>1, <3>3, <4>1, <4>2 DEF Continue, Goto
      <3>4. CASE Forgets(switch_order_to_failed) /\ UNCHANGED change
        BY <3>1, <3>4 DEF Forgets, switch_order_to_failed, Decide, EndPass, NothingSeen
      <3>5. QED
        BY <2>3, <3>2, <3>3, <3>4 DEF CommitResellerChange
    <2>4. CASE SaveResellerChange("SaveAgreement") \/ GetAdobeCustomer("SaveAgreementAgain")
      BY <2>4 DEF SaveResellerChange, GetAdobeCustomer, Goto
    <2>5. CASE \/ Unmoved(SaveAgreement("SaveAgreement", "CheckAdobeResellerTransfer"))
               \/ Unmoved(SaveAgreement("SaveAgreementAgain", "ProcessResellerTransferOrder"))
      BY <2>5 DEF Unmoved, SaveAgreement, Continue, Goto
    <2>6. CASE Unmoved(Only(ProcessResellerTransferOrder("CreateTransferSubscriptions",
                                                         "GetPreviewOrder")))
      BY <2>6
      DEF Unmoved, Only, Forgets, ProcessResellerTransferOrder, LineItems, Goto, customerVars,
          NothingSeen
    <2>7. CASE Buying(GetPreviewOrder("UpdatePrices"))
      <3>1. \/ ctx' = ctx
            \/ pc' = Idle
            \/ \E preview : ctx' = [ctx EXCEPT !.preview = preview]
        BY <2>7 DEF Buying, Forgets, GetPreviewOrder, Continue, Decide, EndPass,
           switch_order_to_failed
      <3>2. pc' = Idle \/ ctx'.newOrderId = ctx.newOrderId
        BY <3>1, <1>a DEF Fields
      <3>3. QED
        BY <2>7, <3>2
        DEF Buying, Forgets, GetPreviewOrder, Continue, Goto, Decide, EndPass,
            switch_order_to_failed, customerVars, NothingSeen
    <2>8. CASE Buying(UpdatePrices("SubmitNewOrder"))
      <3>1. ctx'.newOrderId = ctx.newOrderId
        BY <2>8, <1>a DEF Buying, Forgets, UpdatePrices, Fields
      <3>2. QED
        BY <2>8, <3>1 DEF Buying, Forgets, UpdatePrices, Goto, customerVars, NothingSeen
    <2>9. CASE Buying(FetchTransferAsOrder("CreateOrUpdateAssets"))
      <3>1. change.status \in {"none", "OPEN"}
        BY <1>a DEF Transferred, ChangeStatus
      <3>2. pc' = Idle /\ status' # "Completed" /\ UNCHANGED vendorId
        BY <2>9, <3>1 DEF Buying, Forgets, FetchTransferAsOrder, FollowOrder, Wait, EndPass
      <3>3. QED
        BY <2>9, <2>a, <1>5, <3>2
        DEF ResellerChange, Buying, Forgets, customerVars, NothingSeen
    <2>10. /\ ~CreateTransferSubscriptions("CompleteOrder")
           /\ ~CreateOrUpdateAssets("CreateOrUpdateSubscriptions")
           /\ ~CreateOrUpdateSubscriptions("CompleteOrder", BoughtOrTransferred)
           /\ ~Unmoved(Only(CompleteOrder))
      BY DEF CreateTransferSubscriptions, CreateOrUpdateAssets, CreateOrUpdateSubscriptions,
         Unmoved, Only, Forgets, CompleteOrder
    <2>11. ~(ctx.newOrderId # TransferId /\ Buying(SubmitNewOrder("CreateOrUpdateAssets")))
      BY DEF Buying, Forgets, SubmitNewOrder, SkipNewOrder, PlaceNewOrder, SaveNewOrder,
         FetchNewOrder
    <2>12. QED
      BY <2>a, <2>1, <2>2, <2>3, <2>4, <2>5, <2>6, <2>7, <2>8, <2>9, <2>10, <2>11
      DEF ResellerSteps, RevivalSteps
  <1>6. QED
    BY <1>1, <1>2, <1>3, <1>4, <1>5 DEF Next, Step

\* No pass of a reseller change, with the transfer in memory or without,
\* publishes anything or completes the order before Adobe has transferred the
\* customer (CheckAdobeResellerTransfer, SubmitNewOrder).
THEOREM PublishedIsTransferredCorrect == Spec => []PublishedIsTransferred
  <1>1. Init => TransferInv
    BY DEF Init, PassInit, PurchaseInit, ResellerInit, HasCustomer, TheCustomer, TransferInv,
       UntransferredInv, NothingSeen, Transferred, ChangeStatus, Early, ToTransfer,
       Afterwards, Outside
  <1>2. TransferInv => PublishedIsTransferred
    BY DEF TransferInv, UntransferredInv, PublishedIsTransferred
  <1>3. QED
    BY <1>1, <1>2, ContextHolds, AccountHolds, TransferKept, PTL DEF Spec

-----------------------------------------------------------------------------
(* Switches, given that Adobe knows a repeated POST for what it is.         *)

SwitchStatus == {"OPEN", "COMPLETE", "FAILED"}
Switched == [line \in Lines |-> Moved(FirstCurrent, line, SwitchChange[line])]
IsSwitched == Len(switchOrders) = 1 /\ switchOrders[1] = "COMPLETE"

\* There is one SWITCH order at most, a pass and the order know no other, and
\* the quantities are those after the switch once Adobe has processed it.
SwitchInv ==
    /\ switchOrders \in Seq(SwitchStatus)
    /\ kind = "switch" =>
          /\ newOrders = <<>> /\ \A p \in Purchases : returns[p] = "none"
          /\ Len(switchOrders) \in {0, 1}
          /\ vendorId \in {0, 1} /\ ctx.newOrderId \in {0, 1}
          /\ vendorId # 0 \/ ctx.newOrderId # 0 => Len(switchOrders) = 1
          /\ current = IF IsSwitched THEN Switched ELSE FirstCurrent
          /\ pc = "SaveSwitchOrder" /\ ctx.newOrder = "COMPLETE" => IsSwitched
          /\ pc \in {"CreateOrUpdateSubscriptions", "CompleteOrder"} => IsSwitched
          /\ status = "Completed" => IsSwitched

\* What a step does that neither places nor settles the SWITCH order.
Steady ==
    /\ UNCHANGED <<switchOrders, kind>>
    /\ kind = "switch" =>
          /\ UNCHANGED <<current, newOrders, returns>>
          /\ vendorId' \in {vendorId, ctx.newOrderId}
          /\ ctx'.newOrderId \in {0, vendorId, ctx.newOrderId}
          /\ pc' # "SaveSwitchOrder" \/ UNCHANGED <<pc, ctx>>
          /\ \/ pc' \notin {"CreateOrUpdateSubscriptions", "CompleteOrder"}
             \/ pc \in {"CreateOrUpdateSubscriptions", "CompleteOrder"}
             \/ IsSwitched
          /\ status' = "Completed" => status = "Completed" \/ pc = "CompleteOrder"

LEMMA SteadyKept == SwitchInv /\ Steady => SwitchInv'
  BY DEF SwitchInv, Steady, IsSwitched

\* Processing the order moves what the customer holds from before to after.
LEMMA ProcessSwitches ==
    current = FirstCurrent /\ Process(SwitchChange) => current' = Switched
  BY DEF Process, Switched, Moved

LEMMA PlaceKept ==
    ASSUME DeduplicatesOrders, ContextOK, SwitchInv, kind = "switch", UNCHANGED <<kind, returns>>,
           Submitting(PlaceSwitchOrder)
    PROVE  SwitchInv'
  <1>1. /\ pc = "SubmitSwitchOrder" /\ ctx.newOrderId = 0 /\ pc' = "SaveSwitchOrder"
        /\ UNCHANGED <<status, vendorId, newOrders>>
    BY DEF Submitting, Forgets, PlaceSwitchOrder, Goto
  <1>2. CASE switchOrders # <<>>
    <2>1. /\ ctx' = [ctx EXCEPT !.newOrderId = 1, !.newOrder = switchOrders[1]]
          /\ UNCHANGED <<switchOrders, current>>
      BY <1>2 DEF Submitting, Forgets, PlaceSwitchOrder, subscriptionVars
    <2>2. ctx'.newOrderId = 1 /\ ctx'.newOrder = switchOrders[1]
      BY <2>1 DEF ContextOK, Fields
    <2>3. Len(switchOrders) = 1
      BY <1>2 DEF SwitchInv
    <2>4. QED
      BY <1>1, <2>1, <2>2, <2>3 DEF SwitchInv, IsSwitched
  <1>3. CASE switchOrders = <<>>
    <2>1. current = FirstCurrent
      BY <1>3 DEF SwitchInv, IsSwitched
    <2>2. PICK orderStatus \in {"OPEN", "COMPLETE"} :
             /\ switchOrders' = Append(switchOrders, orderStatus)
             /\ ctx' = [ctx EXCEPT !.newOrderId = Len(switchOrders'), !.newOrder = orderStatus]
             /\ Settle(orderStatus)
      BY <1>3 DEF Submitting, Forgets, PlaceSwitchOrder, AcceptSwitchOrder
    <2>3. switchOrders' = <<orderStatus>> /\ switchOrders' \in Seq(SwitchStatus)
          /\ Len(switchOrders') = 1 /\ switchOrders'[1] = orderStatus
      BY <1>3, <2>2 DEF SwitchStatus
    <2>4. ctx'.newOrderId = 1 /\ ctx'.newOrder = orderStatus
      BY <2>2, <2>3 DEF ContextOK, Fields
    <2>5. current' = IF orderStatus = "COMPLETE" THEN Switched ELSE FirstCurrent
      BY <2>1, <2>2, ProcessSwitches DEF Settle, subscriptionVars
    <2>6. IsSwitched' <=> orderStatus = "COMPLETE"
      BY <2>3 DEF IsSwitched
    <2>7. vendorId \in {0, 1}
      BY DEF SwitchInv
    <2>8. status # "Completed"
      BY <1>3 DEF SwitchInv, IsSwitched
    <2>9. QED
      BY <1>1, <2>3, <2>4, <2>5, <2>6, <2>7, <2>8 DEF SwitchInv
  <1>4. QED
    BY <1>2, <1>3

LEMMA SettleKept == SwitchInv /\ Adobe => SwitchInv'
  <1> SUFFICES ASSUME SwitchInv, Adobe PROVE SwitchInv'
    OBVIOUS
  <1>1. CASE AdobeSettlesSwitchOrder /\ UNCHANGED <<change, returns>>
    <2>1. UNCHANGED <<kind, status, vendorId, pc, ctx, newOrders, returns>>
      BY <1>1 DEF Adobe, AdobeSettlesSwitchOrder, passVars
    <2>2. PICK id \in DOMAIN switchOrders, orderStatus \in {"COMPLETE", "FAILED"} :
             /\ switchOrders[id] = "OPEN"
             /\ switchOrders' = [switchOrders EXCEPT ![id] = orderStatus]
             /\ Settle(orderStatus)
      BY <1>1 DEF AdobeSettlesSwitchOrder
    <2>3. switchOrders' \in Seq(SwitchStatus) /\ Len(switchOrders') = Len(switchOrders)
          /\ switchOrders'[id] = orderStatus
      BY <2>2 DEF SwitchInv, SwitchStatus
    <2>4. CASE kind = "switch"
      <3>1. id = 1 /\ Len(switchOrders) = 1 /\ ~IsSwitched
        BY <2>2, <2>4 DEF SwitchInv, IsSwitched
      <3>2. current' = IF orderStatus = "COMPLETE" THEN Switched ELSE FirstCurrent
        BY <2>2, <2>4, <3>1, ProcessSwitches DEF SwitchInv, Settle, subscriptionVars
      <3>3. QED
        BY <2>1, <2>3, <2>4, <3>1, <3>2 DEF SwitchInv, IsSwitched
    <2>5. QED
      BY <2>1, <2>3, <2>4 DEF SwitchInv
  <1>2. CASE (AdobeSettlesPurchase \/ AdobeSettlesReturnOrder) /\ UNCHANGED switchOrders
    <2>1. /\ kind # "switch" /\ UNCHANGED switchOrders /\ UNCHANGED kind
      <3>1. kind = "switch" => ~AdobeSettlesPurchase /\ ~AdobeSettlesReturnOrder
        BY DEF SwitchInv, AdobeSettlesPurchase, AdobeSettlesNewOrder, AdobeSettlesReturnOrder
      <3>2. QED
        BY <1>2, <3>1 DEF Adobe
    <2>2. QED
      BY <2>1 DEF SwitchInv
  <1>3. CASE AdobeSettlesChange /\ UNCHANGED <<switchOrders, returns>>
    <2>1. Steady
      BY <1>3 DEF Adobe, AdobeSettlesChange, passVars, boughtVars, subscriptionVars, Steady
    <2>2. QED
      BY <2>1, SteadyKept
  <1>4. QED
    BY <1>1, <1>2, <1>3 DEF Adobe

LEMMA SwitchStepKept ==
    ASSUME DeduplicatesOrders, ContextOK, SwitchInv, MidTermSwitch
    PROVE  SwitchInv'
  <1>a. kind = "switch" /\ UNCHANGED <<kind, returns>> /\ SwitchSteps
    BY DEF MidTermSwitch
  <1>b. DOMAIN ctx = Fields /\ newOrders = <<>>
    BY <1>a DEF ContextOK, SwitchInv
  <1>1. CASE Unswitched(SetupCustomer("SetupDueDate"))
    <2>1. Steady
      BY <1>1, <1>a, FreshContext, EmptyContextOK
      DEF Unswitched, SetupCustomer, SetupContext, Goto, Wait, Decide, EndPass,
          switch_order_to_failed, boughtVars, subscriptionVars, Steady, EmptyContext
    <2>2. QED
      BY <2>1, SteadyKept
  <1>2. CASE \/ Unswitched(Only(SetupDueDate("ValidateDuplicateLines")))
             \/ Unswitched(Only(ValidateDuplicateLines("ValidateRenewalWindow")))
             \/ Unswitched(Only(ValidateRenewalWindow("ValidateSkuAvailability")))
             \/ Unswitched(Only(ValidateSkuAvailability("GetSwitchPreviewOrder")))
             \/ Unswitched(Only(CompleteOrder))
    <2>1. Steady
      BY <1>2, <1>a
      DEF Unswitched, Only, Forgets, SetupDueDate, ValidateDuplicateLines,
          ValidateRenewalWindow, ValidateSkuAvailability, CompleteOrder, Continue, Goto,
          Decide, EndPass, switch_order_to_failed, boughtVars, subscriptionVars, Steady,
          EmptyContext
    <2>2. QED
      BY <2>1, SteadyKept
  <1>3. CASE \/ Unswitched(Only(GetSwitchPreviewOrder("UpdatePrices")))
             \/ Unswitched(Buying(UpdatePrices("SubmitSwitchOrder")))
    <2>1. \/ ctx' = ctx
          \/ ctx' = EmptyContext
          \/ \E preview : ctx' = [ctx EXCEPT !.preview = preview]
          \/ \E repriced : ctx' = [ctx EXCEPT !.linesRepriced = repriced]
      BY <1>3
      DEF Unswitched, Only, Buying, Forgets, GetSwitchPreviewOrder, UpdatePrices, Continue,
          Decide, EndPass, switch_order_to_failed
    <2>2. ctx'.newOrderId \in {0, ctx.newOrderId}
      BY <2>1, <1>b DEF Fields, EmptyContext
    <2>3. Steady
      BY <1>3, <1>a, <2>2
      DEF Unswitched, Only, Buying, Forgets, GetSwitchPreviewOrder, UpdatePrices, Continue,
          Goto, Decide, EndPass, switch_order_to_failed, boughtVars, subscriptionVars, Steady
    <2>4. QED
      BY <2>3, SteadyKept
  <1>4. CASE Submitting(PlaceSwitchOrder)
    BY <1>4, <1>a, PlaceKept
  <1>5. CASE \/ Submitting(SaveSwitchOrder("CreateOrUpdateSubscriptions"))
             \/ Submitting(FetchSwitchOrder("CreateOrUpdateSubscriptions"))
    <2>1. PICK id, orderStatus :
             /\ FollowOrder("CreateOrUpdateSubscriptions", id, orderStatus)
             /\ id = ctx.newOrderId
             /\ orderStatus = "COMPLETE" => IsSwitched
      <3>1. CASE Submitting(SaveSwitchOrder("CreateOrUpdateSubscriptions"))
        BY <1>a, <3>1 DEF Submitting, Forgets, SaveSwitchOrder, SwitchInv
      <3>2. CASE Submitting(FetchSwitchOrder("CreateOrUpdateSubscriptions"))
        <4>1. ctx.newOrderId = 1 /\ Len(switchOrders) = 1
          BY <1>a, <3>2 DEF Submitting, Forgets, FetchSwitchOrder, SwitchInv
        <4>2. FollowOrder("CreateOrUpdateSubscriptions", 1, switchOrders[1])
          BY <3>2, <4>1 DEF Submitting, Forgets, FetchSwitchOrder
        <4>3. QED
          BY <4>1, <4>2 DEF IsSwitched
      <3>3. QED
        BY <1>5, <3>1, <3>2
    <2>2. /\ pc' = Idle \/ (pc' = "CreateOrUpdateSubscriptions" /\ IsSwitched)
          /\ ctx'.newOrderId \in {0, ctx.newOrderId}
          /\ status' = "Completed" => status = "Completed"
      <3>1. CASE orderStatus = "COMPLETE"
        <4>1. ctx' = [ctx EXCEPT !.newOrderId = id, !.newOrder = orderStatus]
              /\ pc' = "CreateOrUpdateSubscriptions" /\ UNCHANGED status
          BY <2>1, <3>1 DEF FollowOrder, Goto
        <4>2. ctx'.newOrderId = id
          BY <4>1, <1>b DEF Fields
        <4>3. QED
          BY <2>1, <3>1, <4>1, <4>2
      <3>2. CASE orderStatus # "COMPLETE"
        <4>1. ctx' = EmptyContext /\ pc' = Idle /\ (status' = status \/ status' = "Failed")
          BY <2>1, <3>2 DEF FollowOrder, EndPass
        <4>2. QED
          BY <4>1 DEF EmptyContext
      <3>3. QED
        BY <3>1, <3>2
    <2>3. Steady
      BY <1>5, <1>a, <2>2
      DEF Submitting, Forgets, SaveSwitchOrder, FetchSwitchOrder, subscriptionVars, Steady
    <2>4. QED
      BY <2>3, SteadyKept
  <1>6. CASE Unswitched(CreateOrUpdateSubscriptions("CompleteOrder", SwitchedLines))
    <2>1. Steady
      BY <1>6, <1>a
      DEF Unswitched, CreateOrUpdateSubscriptions, Forgets, Wait, Continue, Goto, EndPass,
          boughtVars, subscriptionVars, Steady, EmptyContext
    <2>2. QED
      BY <2>1, SteadyKept
  <1>7. QED
    BY <1>a, <1>1, <1>2, <1>3, <1>4, <1>5, <1>6 DEF SwitchSteps

LEMMA SwitchInvKept ==
    ASSUME DeduplicatesOrders
    PROVE  ContextOK /\ SwitchInv /\ [Next]_vars => SwitchInv'
  <1> SUFFICES ASSUME ContextOK, SwitchInv, [Next]_vars PROVE SwitchInv'
    OBVIOUS
  <1>1. CASE UNCHANGED vars \/ Platform
    <2>1. Steady
      BY <1>1
      DEF vars, passVars, boughtVars, subscriptionVars, Platform, Dispatch, Resume, NextDay,
          Abort, Wait, EndPass, Goto, Steady, EmptyContext
    <2>2. QED
      BY <2>1, SteadyKept
  <1>2. CASE Purchase \/ ResellerChange \/ Termination \/ Configuration
    BY <1>2 DEF Purchase, ResellerChange, Termination, Configuration, SwitchInv
  <1>3. QED
    BY <1>1, <1>2, SwitchStepKept, SettleKept DEF Next, Step

\* Given that Adobe takes a repeated POST with the same correlation identifier
\* for the first one, licences are switched once, for any quantities, wherever
\* passes are cut off between placing the SWITCH order and saving its
\* identifier ("The step is idempotent").
THEOREM SwitchedOnceCorrect == DeduplicatesOrders => (Spec => []SwitchedOnce)
  <1> SUFFICES ASSUME DeduplicatesOrders PROVE Spec => []SwitchedOnce
    OBVIOUS
  <1>1. Init => SwitchInv
    BY DEF Init, PassInit, PurchaseInit, SubscriptionsInit, NewOrderInit, SwitchInit,
       ReturnInit, EmptyContext, SwitchInv, IsSwitched
  <1>2. SwitchInv => SwitchedOnce
    BY DEF SwitchInv, IsSwitched, Switched, SwitchedOnce
  <1>3. ContextOK /\ SwitchInv /\ [Next]_vars => SwitchInv'
    BY SwitchInvKept
  <1>4. QED
    BY <1>1, <1>2, <1>3, ContextHolds, PTL DEF Spec

-----------------------------------------------------------------------------
(* The calendar.                                                            *)

\* A pass runs only over a Processing order, and a due date is passed by one
\* day at most.
CalendarInv ==
    /\ PassTypeOK
    /\ pc # Idle => status = "Processing"
    /\ status = "Processing" /\ dueDate = NoDate => today <= LatestStart
    /\ dueDate # NoDate => today <= dueDate + 1

\* A step of a pass goes on or waits, decides the order or sets its due date.
GoesOnOrEnds ==
    /\ pc # Idle /\ UNCHANGED today
    /\ \/ UNCHANGED <<status, dueDate>>
       \/ /\ UNCHANGED status /\ ~(today > dueDate')
          /\ dueDate' = IF dueDate = NoDate THEN today + DueDateDays ELSE dueDate
       \/ /\ pc' = Idle /\ dueDate' = NoDate
          /\ status' \in {"Completed", "Failed", "Querying"}

LEMMA CalendarGoesOn == CalendarInv /\ GoesOnOrEnds => CalendarInv'
  BY OrderPassAssumption DEF CalendarInv, GoesOnOrEnds, PassTypeOK, DueDay, Day, NoDate

LEMMA CalendarPlatform == CalendarInv /\ Platform => CalendarInv'
  <1> SUFFICES ASSUME CalendarInv, Platform PROVE CalendarInv'
    OBVIOUS
  <1>1. CASE NextDay
    BY <1>1, OrderPassAssumption DEF NextDay, CalendarInv, PassTypeOK, DueDay, Day, NoDate
  <1>2. CASE Dispatch \/ Resume
    BY <1>2 DEF Dispatch, Resume, Goto, CalendarInv, PassTypeOK
  <1>3. CASE Abort
    BY <1>3, CalendarGoesOn DEF Abort, Wait, EndPass, GoesOnOrEnds
  <1>4. QED
    BY <1>1, <1>2, <1>3 DEF Platform

LEMMA CalendarKept == CalendarInv /\ [Next]_vars => CalendarInv'
  <1> SUFFICES ASSUME CalendarInv, [Next]_vars PROVE CalendarInv'
    OBVIOUS
  <1>1. CASE UNCHANGED vars \/ Adobe
    <2>1. UNCHANGED <<status, dueDate, today, pc>>
      BY <1>1 DEF vars, passVars, Adobe, AdobeSettlesPurchase, AdobeSettlesNewOrder,
         AdobeSettlesChange, AdobeSettlesSwitchOrder, AdobeSettlesReturnOrder
    <2>2. QED
      BY <2>1 DEF CalendarInv, PassTypeOK
  <1>2. CASE Platform
    BY <1>2, CalendarPlatform
  <1>4. CASE Configuration
    <2>1. GoesOnOrEnds
      BY <1>4
      DEF Configuration, ConfigurationSteps, SetupContext, SetupDueDate, ValidateRenewalWindow,
          CompleteOrder, SubscriptionUpdateAutoRenewal, UpdateAutoRenewal,
          HandleSubscriptionError, RollbackUpdatedSubscription, Continue, Decide, EndPass,
          Wait, Goto, switch_order_to_failed, GoesOnOrEnds
    <2>2. QED
      BY <2>1, CalendarGoesOn
  <1>5. CASE Termination
    <2>1. GoesOnOrEnds
      BY <1>5
      DEF Termination, TerminationSteps, Unreturned, SetupContext, SetupDueDate,
          ValidateRenewalWindow, GetReturnOrders, GetTerminationReturns,
          Validate3YCCommitment, SubmitReturnOrders, PlaceReturnOrder, PostReturnOrder,
          AwaitReturnOrders, CompleteOrder, Continue, Goto, Decide, EndPass, Wait,
          switch_order_to_failed, switch_order_to_query, GoesOnOrEnds
    <2>2. QED
      BY <2>1, CalendarGoesOn
  <1>6. CASE MidTermSwitch
    <2>1. GoesOnOrEnds
      BY <1>6
      DEF MidTermSwitch, SwitchSteps, Unswitched, Only, Buying, Submitting, Forgets,
          SetupCustomer, SetupContext, SetupDueDate, ValidateDuplicateLines, ValidateRenewalWindow,
          ValidateSkuAvailability, GetSwitchPreviewOrder, UpdatePrices, PlaceSwitchOrder,
          SaveSwitchOrder, FetchSwitchOrder, FollowOrder, CreateOrUpdateSubscriptions,
          CompleteOrder, Continue, Goto, Decide, EndPass, Wait, switch_order_to_failed,
          GoesOnOrEnds
    <2>2. QED
      BY <2>1, CalendarGoesOn
  <1>7. CASE Purchase
    <2>1. GoesOnOrEnds
      BY <1>7
      DEF Purchase, PurchaseSteps, Only, Buying, Forgets, SetupCustomer, SetupContext, SetupDueDate,
          ValidateDuplicateLines, ValidateGovernmentLGA, CreateCustomer, PostCustomer,
          HandleError, SaveCustomerId, SaveAgreement, ValidateEducationSubSegments, Queried,
          Validate3YCCommitment, GetPreviewOrder, UpdatePrices, SubmitNewOrder,
          SkipNewOrder, PlaceNewOrder, SaveNewOrder, FetchNewOrder, FollowOrder,
          CreateOrUpdateAssets, CreateOrUpdateSubscriptions, RefreshCustomer, CompleteOrder,
          LaterError, Continue, Goto, Decide, EndPass, Wait, switch_order_to_failed,
          switch_order_to_query, GoesOnOrEnds
    <2>2. QED
      BY <2>1, CalendarGoesOn
  <1>8. CASE ResellerChange
    <2>1. GoesOnOrEnds
      BY <1>8
      DEF ResellerChange, ResellerSteps, RevivalSteps, Unmoved, Only, Buying, Forgets,
          SetupCustomer, SetupContext, SetupDueDate, FetchResellerChangeData, ValidateResellerChange,
          CommitResellerChange, SaveResellerChange, SaveAgreement,
          CheckAdobeResellerTransfer, GetAdobeCustomer, ProcessResellerTransferOrder,
          CreateTransferSubscriptions, GetPreviewOrder, UpdatePrices, FetchTransferAsOrder,
          SubmitNewOrder, SkipNewOrder, PlaceNewOrder, SaveNewOrder, FetchNewOrder,
          FollowOrder, CreateOrUpdateAssets, CreateOrUpdateSubscriptions, CompleteOrder,
          Continue, Goto, Decide, EndPass, Wait, switch_order_to_failed, GoesOnOrEnds
    <2>2. QED
      BY <2>1, CalendarGoesOn
  <1>9. QED
    BY <1>1, <1>2, <1>4, <1>5, <1>6, <1>7, <1>8 DEF Next, Step

LEMMA CalendarHolds == Spec => []CalendarInv
  <1>1. Init => CalendarInv
    BY OrderPassAssumption DEF Init, PassInit, CalendarInv, PassTypeOK, DueDay, Day, NoDate
  <1>2. QED
    BY <1>1, CalendarKept, PTL DEF Spec

-----------------------------------------------------------------------------
(* What is held, bought and given back.                                     *)

\* A preview, and what is ordered by it, buys some of every new item.
BuysNew(quantity) == \A line \in NewLines : quantity[line] > 0

OrderIds ==
    CASE kind = "switch" -> 0 .. Len(switchOrders)
      [] kind = "reseller" -> (0 .. Len(newOrders)) \cup {TransferId}
      [] OTHER -> 0 .. Len(newOrders)

GoodsInv ==
    /\ SubscriptionsTypeOK
    /\ newOrders \in Seq(NewOrder)
    /\ \A i \in DOMAIN newOrders :
          newOrders[i].returned = "none" /\ BuysNew(newOrders[i].payload.quantity)
    /\ ctx.preview \in Payload \cup {NoPreview}
    /\ ctx.preview # NoPreview => BuysNew(ctx.preview.quantity)
    /\ returns \in [Purchases -> ReturnStatus]
    /\ SwitchTypeOK
    /\ {vendorId, ctx.newOrderId} \subseteq OrderIds
    /\ kind \in OrderKinds

\* Most steps place no order.
Sparing ==
    /\ UNCHANGED <<subscriptionVars, newOrders, switchOrders, returns, kind>>
    /\ ctx'.preview \in {ctx.preview, NoPreview}
    /\ {ctx'.newOrderId, vendorId'} \subseteq {ctx.newOrderId, vendorId, 0}

LEMMA SparingKept == GoodsInv /\ Sparing => GoodsInv'
  <1> SUFFICES ASSUME GoodsInv, Sparing PROVE GoodsInv'
    OBVIOUS
  <1>1. OrderIds' = OrderIds
    BY DEF Sparing, OrderIds
  <1>2. 0 \in OrderIds
    BY DEF OrderIds, GoodsInv, SwitchTypeOK
  <1>3. {vendorId', ctx'.newOrderId} \subseteq OrderIds
    BY <1>2 DEF Sparing, GoodsInv
  <1>4. SubscriptionsTypeOK' /\ SwitchTypeOK'
    BY DEF Sparing, GoodsInv, SubscriptionsTypeOK, subscriptionVars, SwitchTypeOK
  <1>5. QED
    BY <1>1, <1>3, <1>4 DEF Sparing, GoodsInv, BuysNew

LEMMA EmptyGoods == EmptyContext.preview = NoPreview /\ EmptyContext.newOrderId = 0
  BY DEF EmptyContext

LEMMA FreshGoods ==
    ASSUME NEW c, c = [EmptyContext EXCEPT !.newOrderId = vendorId]
    PROVE  c.preview = NoPreview /\ c.newOrderId = vendorId
  BY DEF EmptyContext

LEMMA QuantityToBuy ==
    ASSUME SubscriptionsTypeOK, NEW line \in Lines
    PROVE  /\ PurchaseQuantity(line) \in Nat
           /\ line \in NewLines => PurchaseQuantity(line) > 0
  BY AdobeSubscriptionsAssumption
  DEF PurchaseQuantity, SubscriptionsTypeOK, NewLines, UpsizeLines, DownsizeLines

LEMMA PreviewBuysNew ==
    ASSUME SubscriptionsTypeOK, NEW offer \in Offers
    PROVE  /\ PreviewOf(offer) \in Payload \cup {NoPreview}
           /\ PreviewOf(offer) # NoPreview => BuysNew(PreviewOf(offer).quantity)
           /\ NewLines # {} => PreviewOf(offer) # NoPreview
  <1> DEFINE quantities == [line \in Lines |-> PurchaseQuantity(line)]
             preview == [quantity |-> quantities, offer |-> offer]
  <1>1. quantities \in [Lines -> Nat] /\ NewLines \subseteq Lines
        /\ \A line \in NewLines : quantities[line] > 0
    BY QuantityToBuy DEF NewLines
  <1>2. preview.quantity = quantities /\ preview # NoPreview
    BY DEF NoPreview
  <1> HIDE DEF quantities
  <1>3. preview \in Payload
    BY <1>1 DEF Payload
  <1>4. BuysNew(preview.quantity)
    BY <1>1, <1>2 DEF BuysNew
  <1>5. PreviewOf(offer) = IF \A line \in Lines : PurchaseQuantity(line) = 0
                             THEN NoPreview ELSE preview
    BY DEF PreviewOf, quantities
  <1> HIDE DEF preview
  <1>6. NewLines # {} => ~ \A line \in Lines : PurchaseQuantity(line) = 0
    BY QuantityToBuy DEF NewLines
  <1>7. QED
    BY <1>2, <1>3, <1>4, <1>5, <1>6

LEMMA Processed ==
    ASSUME SubscriptionsTypeOK, NEW quantities, Process(quantities),
           \A line \in Lines : quantities[line] \in Int
    PROVE  SubscriptionsTypeOK'
  BY DEF Process, SubscriptionsTypeOK, Moved

\* Previewing.
LEMMA PreviewGoods ==
    ASSUME ContextOK, GoodsInv, NEW offer \in Offers,
           ctx' = [ctx EXCEPT !.preview = PreviewOf(offer)],
           UNCHANGED <<subscriptionVars, newOrders, switchOrders, returns, vendorId, kind>>
    PROVE  GoodsInv' /\ (NewLines # {} => ctx'.preview # NoPreview)
  <1>1. ctx'.preview = PreviewOf(offer) /\ ctx'.newOrderId = ctx.newOrderId
    BY DEF ContextOK, Fields
  <1>2. OrderIds' = OrderIds
    BY DEF OrderIds
  <1>3. SubscriptionsTypeOK' /\ SwitchTypeOK'
    BY DEF GoodsInv, SubscriptionsTypeOK, subscriptionVars, SwitchTypeOK
  <1>4. SubscriptionsTypeOK
    BY DEF GoodsInv
  <1>5. QED
    BY <1>1, <1>2, <1>3, <1>4, PreviewBuysNew DEF GoodsInv, BuysNew

\* Placing the NEW order, or finding it placed.
LEMMA PlaceGoods ==
    ASSUME ContextOK, GoodsInv, PlaceNewOrder, UNCHANGED <<switchOrders, returns, kind>>,
           kind # "switch"
    PROVE  /\ GoodsInv'
           /\ ctx'.newOrderId \in DOMAIN newOrders'
           /\ ctx'.newOrder = newOrders'[ctx'.newOrderId].status
           /\ Len(newOrders') \in {Len(newOrders), Len(newOrders) + 1}
           /\ \A i \in DOMAIN newOrders : newOrders'[i] = newOrders[i]
           /\ UNCHANGED <<status, vendorId>> /\ pc' = "SaveNewOrder"
           /\ ctx'.linesRepriced = ctx.linesRepriced
  <1>1. ctx.preview \in Payload /\ BuysNew(ctx.preview.quantity)
        /\ pc' = "SaveNewOrder" /\ UNCHANGED <<status, vendorId>>
        /\ SubscriptionsTypeOK
    BY DEF PlaceNewOrder, GoodsInv, Goto
  <1>2. \A line \in Lines : ctx.preview.quantity[line] \in Int
    BY <1>1 DEF Payload
  <1>3. ASSUME NEW id \in DOMAIN newOrders,
               ctx' = [ctx EXCEPT !.newOrderId = id, !.newOrder = newOrders[id].status],
               UNCHANGED <<newOrders, subscriptionVars>>
        PROVE  /\ ctx'.newOrderId \in DOMAIN newOrders'
               /\ ctx'.newOrder = newOrders'[ctx'.newOrderId].status
               /\ UNCHANGED newOrders /\ SubscriptionsTypeOK'
               /\ ctx'.preview = ctx.preview /\ ctx'.linesRepriced = ctx.linesRepriced
    BY <1>1, <1>3 DEF ContextOK, Fields, SubscriptionsTypeOK, subscriptionVars
  <1>4. ASSUME NEW orderStatus \in {"OPEN", "COMPLETE"},
               newOrders' = Append(newOrders, [payload |-> ctx.preview, status |-> orderStatus,
                                               returned |-> "none"]),
               ctx' = [ctx EXCEPT !.newOrderId = Len(newOrders) + 1, !.newOrder = orderStatus],
               IF orderStatus = "COMPLETE" THEN Process(ctx.preview.quantity)
               ELSE UNCHANGED subscriptionVars
        PROVE  /\ ctx'.newOrderId \in DOMAIN newOrders'
               /\ ctx'.newOrder = newOrders'[ctx'.newOrderId].status
               /\ newOrders' \in Seq(NewOrder) /\ Len(newOrders') = Len(newOrders) + 1
               /\ \A i \in DOMAIN newOrders : newOrders'[i] = newOrders[i]
               /\ \A i \in DOMAIN newOrders' :
                    newOrders'[i].returned = "none" /\ BuysNew(newOrders'[i].payload.quantity)
               /\ SubscriptionsTypeOK'
               /\ ctx'.preview = ctx.preview /\ ctx'.linesRepriced = ctx.linesRepriced
    <2> DEFINE order == [payload |-> ctx.preview, status |-> orderStatus, returned |-> "none"]
    <2>1. order \in NewOrder /\ order.returned = "none" /\ BuysNew(order.payload.quantity)
          /\ order.status = orderStatus
      BY <1>1 DEF NewOrder, NewOrderStatus
    <2>2. newOrders' = Append(newOrders, order)
      BY <1>4
    <2> HIDE DEF order
    <2>3. /\ newOrders' \in Seq(NewOrder) /\ Len(newOrders') = Len(newOrders) + 1
          /\ \A i \in DOMAIN newOrders : newOrders'[i] = newOrders[i]
          /\ newOrders'[Len(newOrders) + 1] = order
          /\ DOMAIN newOrders' = DOMAIN newOrders \cup {Len(newOrders) + 1}
          /\ Len(newOrders) \in Nat
      BY <2>1, <2>2 DEF GoodsInv
    <2>4. SubscriptionsTypeOK'
      <3>1. CASE orderStatus = "COMPLETE"
        <4>1. Process(ctx.preview.quantity)
          BY <1>4, <3>1
        <4>2. QED
          BY <1>1, <1>2, <4>1, Processed
      <3>2. CASE orderStatus # "COMPLETE"
        BY <1>1, <1>4, <3>2 DEF SubscriptionsTypeOK, subscriptionVars
      <3>3. QED
        BY <3>1, <3>2
    <2>5. /\ ctx'.newOrderId = Len(newOrders) + 1 /\ ctx'.newOrder = orderStatus
          /\ ctx'.preview = ctx.preview /\ ctx'.linesRepriced = ctx.linesRepriced
      BY <1>4 DEF ContextOK, Fields
    <2>6. QED
      BY <2>1, <2>3, <2>4, <2>5 DEF GoodsInv
  <1>5. /\ ctx'.newOrderId \in DOMAIN newOrders'
        /\ ctx'.newOrder = newOrders'[ctx'.newOrderId].status
        /\ newOrders' \in Seq(NewOrder)
        /\ Len(newOrders') \in {Len(newOrders), Len(newOrders) + 1}
        /\ \A i \in DOMAIN newOrders : newOrders'[i] = newOrders[i]
        /\ \A i \in DOMAIN newOrders' :
              newOrders'[i].returned = "none" /\ BuysNew(newOrders'[i].payload.quantity)
        /\ SubscriptionsTypeOK'
        /\ ctx'.preview = ctx.preview /\ ctx'.linesRepriced = ctx.linesRepriced
    <2>1. \/ \E id \in DOMAIN newOrders :
                /\ ctx' = [ctx EXCEPT !.newOrderId = id, !.newOrder = newOrders[id].status]
                /\ UNCHANGED <<newOrders, subscriptionVars>>
          \/ \E orderStatus \in {"OPEN", "COMPLETE"} :
                /\ newOrders' = Append(newOrders, [payload |-> ctx.preview,
                                                   status |-> orderStatus,
                                                   returned |-> "none"])
                /\ ctx' = [ctx EXCEPT !.newOrderId = Len(newOrders) + 1,
                                      !.newOrder = orderStatus]
                /\ IF orderStatus = "COMPLETE" THEN Process(ctx.preview.quantity)
                   ELSE UNCHANGED subscriptionVars
      BY DEF PlaceNewOrder
    <2>2. CASE \E id \in DOMAIN newOrders :
                /\ ctx' = [ctx EXCEPT !.newOrderId = id, !.newOrder = newOrders[id].status]
                /\ UNCHANGED <<newOrders, subscriptionVars>>
      BY <1>3, <2>2 DEF GoodsInv, BuysNew
    <2>3. QED
      BY <1>4, <2>1, <2>2
  <1>6. {vendorId', ctx'.newOrderId} \subseteq OrderIds'
    <2>1. 0 .. Len(newOrders) \subseteq 0 .. Len(newOrders') /\ Len(newOrders') \in Nat
          /\ ctx'.newOrderId \in 0 .. Len(newOrders')
      BY <1>5 DEF GoodsInv
    <2>2. vendorId \in OrderIds
      BY DEF GoodsInv
    <2>3. QED
      BY <1>1, <2>1, <2>2 DEF OrderIds
  <1>7. QED
    BY <1>1, <1>5, <1>6 DEF GoodsInv, BuysNew, SwitchTypeOK

\* Following up an order keeps it in mind, or ends the pass.
LEMMA FollowGoods ==
    ASSUME ContextOK, NEW next, NEW orderStatus, FollowOrder(next, ctx.newOrderId, orderStatus)
    PROVE  /\ ctx'.preview \in {ctx.preview, NoPreview}
           /\ ctx'.newOrderId \in {ctx.newOrderId, 0}
           /\ \/ pc' = Idle /\ status' \in {status, "Failed"}
              \/ /\ pc' = next /\ status' = status /\ ctx'.newOrderId = ctx.newOrderId
                 /\ orderStatus = "COMPLETE" /\ ctx'.newOrder = "COMPLETE"
  <1>1. CASE orderStatus = "COMPLETE"
    <2>1. /\ ctx' = [ctx EXCEPT !.newOrderId = ctx.newOrderId, !.newOrder = orderStatus]
          /\ pc' = next /\ status' = status
      BY <1>1 DEF FollowOrder, Goto
    <2>2. ctx'.newOrderId = ctx.newOrderId /\ ctx'.newOrder = orderStatus
          /\ ctx'.preview = ctx.preview
      BY <2>1 DEF ContextOK, Fields
    <2>3. QED
      BY <1>1, <2>1, <2>2
  <1>2. CASE orderStatus # "COMPLETE"
    <2>1. ctx' = EmptyContext /\ pc' = Idle /\ status' \in {status, "Failed"}
      BY <1>2 DEF FollowOrder, EndPass
    <2>2. QED
      BY <2>1, EmptyGoods
  <1>3. QED
    BY <1>1, <1>2

\* Repricing leaves the rest of the context alone.
LEMMA RepriceGoods ==
    ASSUME ContextOK, NEW next, UpdatePrices(next)
    PROVE  /\ ctx'.preview = ctx.preview /\ ctx'.newOrderId = ctx.newOrderId
           /\ ctx'.newOrder = ctx.newOrder
           /\ pc' = next /\ UNCHANGED <<status, vendorId, subscriptionVars, newOrders>>
  BY DEF UpdatePrices, Goto, ContextOK, Fields

LEMMA SetupGoods ==
    ASSUME NEW next, SetupContext(next)
    PROVE  /\ ctx'.preview \in {ctx.preview, NoPreview}
           /\ ctx'.newOrderId \in {vendorId, 0} /\ UNCHANGED vendorId
           /\ \/ pc' = Idle /\ status' \in {status, "Failed"}
              \/ pc' = next /\ ctx'.newOrderId = vendorId /\ ctx'.preview = NoPreview
                 /\ UNCHANGED status
  BY FreshGoods, EmptyGoods
  DEF SetupContext, Goto, switch_order_to_failed, Decide, EndPass, Wait

LEMMA PlatformGoods == Platform => Sparing
  BY EmptyGoods DEF Platform, Dispatch, Resume, NextDay, Abort, Wait, EndPass, Sparing,
     boughtVars

LEMMA ConfigurationGoods == ContextOK /\ Configuration => Sparing
  <1> SUFFICES ASSUME ContextOK, Configuration PROVE Sparing
    OBVIOUS
  <1>1. UNCHANGED <<subscriptionVars, newOrders, switchOrders, returns, kind>>
    BY DEF Configuration, boughtVars
  <1>2. UNCHANGED vendorId
    BY DEF Configuration, ConfigurationSteps, SetupContext, SetupDueDate,
       ValidateRenewalWindow, CompleteOrder, SubscriptionUpdateAutoRenewal,
       UpdateAutoRenewal, HandleSubscriptionError, RollbackUpdatedSubscription, Continue,
       Decide, Wait, switch_order_to_failed
  <1>3. CASE SetupContext("SetupDueDate")
    BY <1>1, <1>3, SetupGoods DEF Sparing
  <1>4. CASE ~SetupContext("SetupDueDate")
    <2>1. \/ ctx' = ctx \/ ctx' = EmptyContext
          \/ \E done : ctx' = [ctx EXCEPT !.done = done]
          \/ \E updated : ctx' = [ctx EXCEPT !.updated = updated]
          \/ \E done, updated : ctx' = [ctx EXCEPT !.done = done, !.updated = updated]
      BY <1>4
      DEF Configuration, ConfigurationSteps, SetupDueDate, ValidateRenewalWindow,
          CompleteOrder, SubscriptionUpdateAutoRenewal, UpdateAutoRenewal, Handled,
          HandleSubscriptionError, RollbackUpdatedSubscription, Continue, Decide, EndPass,
          switch_order_to_failed
    <2>2. ctx'.preview \in {ctx.preview, NoPreview} /\ ctx'.newOrderId \in {ctx.newOrderId, 0}
      BY <2>1, EmptyGoods DEF ContextOK, Fields
    <2>3. QED
      BY <1>1, <1>2, <2>2 DEF Sparing
  <1>5. QED
    BY <1>3, <1>4

LEMMA TerminationGoods ==
    ASSUME ContextOK, GoodsInv, Termination
    PROVE  GoodsInv'
  <1>1. UNCHANGED <<newOrders, switchOrders, kind>> /\ TerminationSteps
    BY DEF Termination
  <1>2. UNCHANGED vendorId
    BY <1>1 DEF TerminationSteps, Unreturned, SetupContext, SetupDueDate,
       ValidateRenewalWindow, GetReturnOrders, GetTerminationReturns, Validate3YCCommitment,
       SubmitReturnOrders, PlaceReturnOrder, PostReturnOrder, AwaitReturnOrders,
       CompleteOrder, Continue, Decide, Wait, switch_order_to_failed, switch_order_to_query
  <1>3. CASE Unreturned(SetupContext("SetupDueDate"))
    <2>1. Sparing
      BY <1>1, <1>3, SetupGoods DEF Unreturned, Sparing
    <2>2. QED
      BY <2>1, SparingKept
  <1>4. ASSUME NEW p \in Purchases, PlaceReturnOrder(p)
        PROVE  GoodsInv'
    <2>1. PICK answer \in {"OPEN", "COMPLETE"} :
             /\ returns' = [returns EXCEPT ![p] = answer]
             /\ ctx' = [ctx EXCEPT !.returnOrders = @ \cup {p},
                                   !.pendingReturns = IF answer = "OPEN" THEN @ \cup {p} ELSE @]
             /\ IF answer = "COMPLETE" THEN TakeBack(p) ELSE UNCHANGED subscriptionVars
      BY <1>4 DEF PlaceReturnOrder, PostReturnOrder
    <2>2. ctx'.preview = ctx.preview /\ ctx'.newOrderId = ctx.newOrderId
      BY <2>1 DEF ContextOK, Fields
    <2>3. returns' \in [Purchases -> ReturnStatus]
      BY <2>1 DEF GoodsInv, ReturnStatus
    <2>4. SubscriptionsTypeOK'
      <3>1. CASE TakeBack(p)
        <4>1. \A line \in Lines : [l \in Lines |->
                 IF l = PurchaseLine[p] THEN -PurchasedQuantity[p] ELSE 0][line] \in Int
          BY ReturnAssumption
        <4>2. QED
          BY <3>1, <4>1, Processed DEF TakeBack, GoodsInv
      <3>2. CASE UNCHANGED subscriptionVars
        BY <3>2 DEF GoodsInv, SubscriptionsTypeOK, subscriptionVars
      <3>3. QED
        BY <2>1, <3>1, <3>2
    <2>5. OrderIds' = OrderIds
      BY <1>1 DEF OrderIds
    <2>6. QED
      BY <1>1, <1>2, <2>2, <2>3, <2>4, <2>5 DEF GoodsInv, BuysNew, SwitchTypeOK
  <1>5. CASE /\ ~Unreturned(SetupContext("SetupDueDate"))
             /\ ~\E p \in Purchases : PlaceReturnOrder(p)
    <2>1. UNCHANGED <<subscriptionVars, returns>>
      BY <1>1, <1>5
      DEF TerminationSteps, Unreturned, GetReturnOrders, GetTerminationReturns,
          SubmitReturnOrders, AwaitReturnOrders
    <2>2. \/ ctx' = ctx \/ ctx' = EmptyContext
          \/ \E orders, pending, others :
                ctx' = [ctx EXCEPT !.returnOrders = orders, !.pendingReturns = pending,
                                   !.otherReturns = others]
          \/ \E returnable : ctx' = [ctx EXCEPT !.returnable = returnable]
      BY <1>1, <1>5
      DEF TerminationSteps, Unreturned, SetupDueDate, ValidateRenewalWindow, GetReturnOrders,
          GetTerminationReturns, Validate3YCCommitment, SubmitReturnOrders,
          AwaitReturnOrders, CompleteOrder, Continue, Decide, EndPass, Wait,
          switch_order_to_failed, switch_order_to_query
    <2>3. ctx'.preview \in {ctx.preview, NoPreview} /\ ctx'.newOrderId \in {ctx.newOrderId, 0}
      BY <2>2, EmptyGoods DEF ContextOK, Fields
    <2>4. Sparing
      BY <1>1, <1>2, <2>1, <2>3 DEF Sparing
    <2>5. QED
      BY <2>4, SparingKept
  <1>6. QED
    BY <1>3, <1>4, <1>5

\* Appending to the SWITCH orders, or finding one.
LEMMA SwitchPlaceGoods ==
    ASSUME ContextOK, GoodsInv, kind = "switch", PlaceSwitchOrder,
           UNCHANGED <<newOrders, returns, kind>>
    PROVE  GoodsInv'
  <1>1. UNCHANGED vendorId
    BY DEF PlaceSwitchOrder
  <1>2. ASSUME NEW id \in Nat, NEW orderStatus,
               ctx' = [ctx EXCEPT !.newOrderId = id, !.newOrder = orderStatus]
        PROVE  ctx'.newOrderId = id /\ ctx'.preview = ctx.preview
    BY <1>2 DEF ContextOK, Fields
  <1>3. CASE /\ switchOrders # <<>> /\ UNCHANGED <<switchOrders, subscriptionVars>>
             /\ ctx' = [ctx EXCEPT !.newOrderId = 1, !.newOrder = switchOrders[1]]
    <2>1. ctx'.newOrderId = 1 /\ ctx'.preview = ctx.preview
      BY <1>2, <1>3
    <2>2. 1 \in 0 .. Len(switchOrders)
      BY <1>3 DEF GoodsInv, SwitchTypeOK
    <2>3. SubscriptionsTypeOK'
      BY <1>3 DEF GoodsInv, SubscriptionsTypeOK, subscriptionVars
    <2>4. QED
      BY <1>1, <1>3, <2>1, <2>2, <2>3 DEF GoodsInv, SwitchTypeOK, OrderIds, BuysNew
  <1>4. CASE AcceptSwitchOrder
    <2>1. PICK orderStatus \in {"OPEN", "COMPLETE"} :
             /\ switchOrders' = Append(switchOrders, orderStatus)
             /\ ctx' = [ctx EXCEPT !.newOrderId = Len(switchOrders'), !.newOrder = orderStatus]
             /\ Settle(orderStatus)
      BY <1>4 DEF AcceptSwitchOrder
    <2>2. /\ switchOrders' \in Seq({"OPEN", "COMPLETE", "FAILED"})
          /\ Len(switchOrders') = Len(switchOrders) + 1 /\ Len(switchOrders) \in Nat
      BY <2>1 DEF GoodsInv, SwitchTypeOK
    <2>3. ctx'.newOrderId = Len(switchOrders') /\ ctx'.preview = ctx.preview
      BY <2>1 DEF ContextOK, Fields
    <2>4. SubscriptionsTypeOK'
      <3>1. CASE Process(SwitchChange)
        <4>1. \A line \in Lines : SwitchChange[line] \in Int
          BY AdobeSubscriptionsAssumption DEF SwitchChange
        <4>2. QED
          BY <3>1, <4>1, Processed DEF GoodsInv
      <3>2. CASE UNCHANGED subscriptionVars
        BY <3>2 DEF GoodsInv, SubscriptionsTypeOK, subscriptionVars
      <3>3. QED
        BY <2>1, <3>1, <3>2 DEF Settle
    <2>5. {vendorId', ctx'.newOrderId} \subseteq OrderIds'
      <3>1. vendorId \in 0 .. Len(switchOrders)
        BY DEF GoodsInv, OrderIds
      <3>2. QED
        BY <1>1, <2>2, <2>3, <3>1 DEF OrderIds
    <2>6. QED
      BY <2>2, <2>3, <2>4, <2>5 DEF GoodsInv, SwitchTypeOK, BuysNew
  <1>5. QED
    BY <1>3, <1>4 DEF PlaceSwitchOrder

LEMMA SwitchGoods ==
    ASSUME ContextOK, GoodsInv, MidTermSwitch
    PROVE  GoodsInv'
  <1>1. UNCHANGED <<returns, kind>> /\ kind = "switch" /\ SwitchSteps
    BY DEF MidTermSwitch
  <1>2. CASE Unswitched(SetupCustomer("SetupDueDate"))
    <2>1. Sparing
      BY <1>1, <1>2, SetupGoods DEF Unswitched, SetupCustomer, boughtVars, Sparing
    <2>2. QED
      BY <2>1, SparingKept
  <1>3. CASE \/ Unswitched(Only(SetupDueDate("ValidateDuplicateLines")))
             \/ Unswitched(Only(ValidateDuplicateLines("ValidateRenewalWindow")))
             \/ Unswitched(Only(ValidateRenewalWindow("ValidateSkuAvailability")))
             \/ Unswitched(Only(ValidateSkuAvailability("GetSwitchPreviewOrder")))
             \/ Unswitched(CreateOrUpdateSubscriptions("CompleteOrder", SwitchedLines))
             \/ Unswitched(Only(CompleteOrder))
    <2>1. Sparing
      BY <1>1, <1>3, EmptyGoods
      DEF Unswitched, Only, Forgets, SetupDueDate, ValidateDuplicateLines,
          ValidateRenewalWindow, ValidateSkuAvailability, CreateOrUpdateSubscriptions,
          CompleteOrder, Continue, Decide, EndPass, Wait, switch_order_to_failed, boughtVars,
          Sparing
    <2>2. QED
      BY <2>1, SparingKept
  <1>4. CASE Unswitched(Only(GetSwitchPreviewOrder("UpdatePrices")))
    <2>1. UNCHANGED <<subscriptionVars, newOrders, switchOrders, vendorId>>
      BY <1>4 DEF Unswitched, Only, Forgets, GetSwitchPreviewOrder, boughtVars, Continue,
         switch_order_to_failed, Decide
    <2>2. CASE \E offer \in Offers : ctx' = [ctx EXCEPT !.preview = PreviewOf(offer)]
      BY <1>1, <2>1, <2>2, PreviewGoods
    <2>3. CASE ctx' \in {ctx, EmptyContext}
      <3>1. Sparing
        BY <1>1, <2>1, <2>3, EmptyGoods DEF Sparing
      <3>2. QED
        BY <3>1, SparingKept
    <2>4. QED
      BY <1>4, <2>2, <2>3 DEF Unswitched, Only, Forgets, GetSwitchPreviewOrder, Continue,
         switch_order_to_failed, Decide, EndPass
  <1>5. CASE Unswitched(Buying(UpdatePrices("SubmitSwitchOrder")))
    <2>1. Sparing
      BY <1>1, <1>5, RepriceGoods DEF Unswitched, Buying, Forgets, Sparing
    <2>2. QED
      BY <2>1, SparingKept
  <1>6. CASE Submitting(PlaceSwitchOrder)
    BY <1>1, <1>6, SwitchPlaceGoods DEF Submitting, Forgets
  <1>7. CASE \/ Submitting(SaveSwitchOrder("CreateOrUpdateSubscriptions"))
             \/ Submitting(FetchSwitchOrder("CreateOrUpdateSubscriptions"))
    <2>1. /\ \E orderStatus :
                FollowOrder("CreateOrUpdateSubscriptions", ctx.newOrderId, orderStatus)
          /\ UNCHANGED <<subscriptionVars, newOrders, switchOrders>>
          /\ vendorId' \in {vendorId, ctx.newOrderId}
      BY <1>7 DEF Submitting, Forgets, SaveSwitchOrder, FetchSwitchOrder
    <2>2. Sparing
      BY <1>1, <2>1, FollowGoods DEF Sparing
    <2>3. QED
      BY <2>2, SparingKept
  <1>8. QED
    BY <1>1, <1>2, <1>3, <1>4, <1>5, <1>6, <1>7 DEF SwitchSteps

\* Buying, as purchases and revivals do.
LEMMA BuyingGoods ==
    ASSUME ContextOK, GoodsInv, kind # "switch", UNCHANGED <<switchOrders, returns, kind>>,
           \/ GetPreviewOrder("UpdatePrices") \/ UpdatePrices("SubmitNewOrder")
           \/ SubmitNewOrder("CreateOrUpdateAssets")
    PROVE  GoodsInv'
  <1>1. CASE GetPreviewOrder("UpdatePrices")
    <2>1. UNCHANGED <<subscriptionVars, newOrders, vendorId>>
      BY <1>1 DEF GetPreviewOrder, Continue, switch_order_to_failed, Decide
    <2>2. CASE \E offer \in Offers : ctx' = [ctx EXCEPT !.preview = PreviewOf(offer)]
      BY <2>1, <2>2, PreviewGoods
    <2>3. CASE ctx' \in {ctx, EmptyContext}
      <3>1. Sparing
        BY <2>1, <2>3, EmptyGoods DEF Sparing
      <3>2. QED
        BY <3>1, SparingKept
    <2>4. QED
      BY <1>1, <2>2, <2>3 DEF GetPreviewOrder, Continue, switch_order_to_failed, Decide, EndPass
  <1>2. CASE UpdatePrices("SubmitNewOrder")
    <2>1. Sparing
      BY <1>2, RepriceGoods DEF Sparing
    <2>2. QED
      BY <2>1, SparingKept
  <1>3. CASE SkipNewOrder("CreateOrUpdateAssets")
    <2>1. Sparing
      BY <1>3 DEF SkipNewOrder, Continue, Sparing
    <2>2. QED
      BY <2>1, SparingKept
  <1>4. CASE PlaceNewOrder
    BY <1>4, PlaceGoods
  <1>5. CASE SaveNewOrder("CreateOrUpdateAssets") \/ FetchNewOrder("CreateOrUpdateAssets")
    <2>1. /\ \E orderStatus :
                FollowOrder("CreateOrUpdateAssets", ctx.newOrderId, orderStatus)
          /\ UNCHANGED <<subscriptionVars, newOrders>>
          /\ vendorId' \in {vendorId, ctx.newOrderId}
      BY <1>5 DEF SaveNewOrder, FetchNewOrder
    <2>2. Sparing
      BY <2>1, FollowGoods DEF Sparing
    <2>3. QED
      BY <2>2, SparingKept
  <1>6. QED
    BY <1>1, <1>2, <1>3, <1>4, <1>5 DEF SubmitNewOrder

LEMMA PurchaseGoods ==
    ASSUME ContextOK, GoodsInv, Purchase
    PROVE  GoodsInv'
  <1>1. UNCHANGED <<switchOrders, returns, kind>> /\ kind = "purchase" /\ PurchaseSteps
    BY DEF Purchase
  <1>2. CASE SetupCustomer("SetupDueDate")
    <2>1. Sparing
      BY <1>1, <1>2, SetupGoods DEF SetupCustomer, boughtVars, Sparing
    <2>2. QED
      BY <2>1, SparingKept
  <1>3. CASE \/ Buying(GetPreviewOrder("UpdatePrices")) \/ Buying(UpdatePrices("SubmitNewOrder"))
             \/ Buying(SubmitNewOrder("CreateOrUpdateAssets"))
    BY <1>1, <1>3, BuyingGoods DEF Buying, Forgets
  <1>4. CASE \/ Only(SetupDueDate("ValidateDuplicateLines"))
             \/ Only(ValidateDuplicateLines("ValidateGovernmentLGA"))
             \/ Only(ValidateGovernmentLGA("CreateCustomer"))
             \/ CreateCustomer("ValidateEducationSubSegments")
             \/ SaveCustomerId("SaveAgreement")
             \/ SaveAgreement("SaveAgreement", "ValidateEducationSubSegments")
             \/ Only(ValidateEducationSubSegments("Validate3YCCommitment"))
             \/ Only(Validate3YCCommitment("GetPreviewOrder"))
             \/ CreateOrUpdateAssets("CreateOrUpdateSubscriptions")
             \/ CreateOrUpdateSubscriptions("RefreshCustomer", Bought)
             \/ RefreshCustomer("CompleteOrder")
             \/ Only(CompleteOrder)
             \/ LaterError
    <2>1. Sparing
      BY <1>1, <1>4, EmptyGoods
      DEF Only, Forgets, SetupDueDate, ValidateDuplicateLines, ValidateGovernmentLGA,
          CreateCustomer, PostCustomer, HandleError, SaveCustomerId, SaveAgreement,
          ValidateEducationSubSegments, Queried, Validate3YCCommitment, CreateOrUpdateAssets,
          CreateOrUpdateSubscriptions, RefreshCustomer, CompleteOrder, LaterError, Continue,
          Decide, EndPass, Wait, switch_order_to_failed, switch_order_to_query, boughtVars,
          Sparing
    <2>2. QED
      BY <2>1, SparingKept
  <1>5. QED
    BY <1>1, <1>2, <1>3, <1>4 DEF PurchaseSteps

LEMMA ResellerGoods ==
    ASSUME ContextOK, GoodsInv, ResellerChange
    PROVE  GoodsInv'
  <1>1. UNCHANGED <<switchOrders, returns, kind>> /\ kind = "reseller"
        /\ (ResellerSteps \/ RevivalSteps)
    BY DEF ResellerChange
  <1>2. CASE Unmoved(SetupCustomer("SetupDueDate"))
    <2>1. Sparing
      BY <1>1, <1>2, SetupGoods DEF Unmoved, SetupCustomer, boughtVars, Sparing
    <2>2. QED
      BY <2>1, SparingKept
  <1>3. CASE \/ Buying(GetPreviewOrder("UpdatePrices")) \/ Buying(UpdatePrices("SubmitNewOrder"))
             \/ Buying(SubmitNewOrder("CreateOrUpdateAssets"))
    BY <1>1, <1>3, BuyingGoods DEF Buying, Forgets
  <1>4. CASE \/ Unmoved(Only(SetupDueDate("FetchResellerChangeData")))
             \/ Unmoved(Only(FetchResellerChangeData("ValidateResellerChange")))
             \/ Unmoved(Only(ValidateResellerChange("CommitResellerChange")))
             \/ CommitResellerChange("CheckAdobeResellerTransfer")
             \/ Unmoved(SaveAgreement("SaveAgreement", "CheckAdobeResellerTransfer"))
             \/ Unmoved(Only(CheckAdobeResellerTransfer("GetAdobeCustomer")))
             \/ GetAdobeCustomer("SaveAgreementAgain")
             \/ Unmoved(SaveAgreement("SaveAgreementAgain", "ProcessResellerTransferOrder"))
             \/ CreateTransferSubscriptions("CompleteOrder")
             \/ Unmoved(Only(CompleteOrder))
             \/ CreateOrUpdateAssets("CreateOrUpdateSubscriptions")
             \/ CreateOrUpdateSubscriptions("CompleteOrder", BoughtOrTransferred)
    <2>1. Sparing
      BY <1>1, <1>4, EmptyGoods
      DEF Unmoved, Only, Forgets, SetupDueDate, FetchResellerChangeData,
          ValidateResellerChange, CommitResellerChange, SaveAgreement,
          CheckAdobeResellerTransfer, GetAdobeCustomer, CreateTransferSubscriptions,
          CreateOrUpdateAssets, CreateOrUpdateSubscriptions, CompleteOrder, Continue, Decide,
          EndPass, Wait, switch_order_to_failed, boughtVars, Sparing
    <2>2. QED
      BY <2>1, SparingKept
  <1>5. CASE Unmoved(Only(ProcessResellerTransferOrder("CreateTransferSubscriptions",
                                                       "GetPreviewOrder")))
    <2>1. /\ vendorId' \in {vendorId, 0}
          /\ ctx' = ctx \/ ctx' = [ctx EXCEPT !.newOrderId = 0]
          /\ UNCHANGED boughtVars
      BY <1>5 DEF Unmoved, Only, Forgets, ProcessResellerTransferOrder
    <2>2. ctx'.preview = ctx.preview /\ ctx'.newOrderId \in {ctx.newOrderId, 0}
      BY <2>1 DEF ContextOK, Fields
    <2>3. Sparing
      BY <1>1, <2>1, <2>2 DEF boughtVars, Sparing
    <2>4. QED
      BY <2>3, SparingKept
  <1>6. CASE SaveResellerChange("SaveAgreement")
    <2>1. UNCHANGED <<boughtVars, ctx>> /\ vendorId' = TransferId
      BY <1>6 DEF SaveResellerChange
    <2>2. SubscriptionsTypeOK'
      BY <2>1 DEF GoodsInv, SubscriptionsTypeOK, subscriptionVars, boughtVars
    <2>3. QED
      BY <1>1, <2>1, <2>2 DEF boughtVars, GoodsInv, SwitchTypeOK, OrderIds, BuysNew
  <1>7. CASE Buying(FetchTransferAsOrder("CreateOrUpdateAssets"))
    <2>1. /\ Wait \/ FollowOrder("CreateOrUpdateAssets", ctx.newOrderId, change.status)
          /\ UNCHANGED <<subscriptionVars, newOrders, vendorId>>
      BY <1>7 DEF Buying, Forgets, FetchTransferAsOrder
    <2>2. Sparing
      BY <1>1, <2>1, FollowGoods, EmptyGoods DEF Wait, EndPass, Sparing
    <2>3. QED
      BY <2>2, SparingKept
  <1>8. QED
    BY <1>1, <1>2, <1>3, <1>4, <1>5, <1>6, <1>7 DEF ResellerSteps, RevivalSteps

\* Adobe settles what is open.
LEMMA SettleGoods ==
    ASSUME GoodsInv, Adobe
    PROVE  /\ GoodsInv' /\ UNCHANGED passVars
           /\ Len(newOrders') = Len(newOrders)
           /\ \A i \in DOMAIN newOrders :
                 newOrders[i].status = "COMPLETE" => newOrders'[i].status = "COMPLETE"
  <1>1. UNCHANGED <<passVars, kind>>
    BY DEF Adobe, AdobeSettlesPurchase, AdobeSettlesNewOrder, AdobeSettlesChange,
       AdobeSettlesSwitchOrder, AdobeSettlesReturnOrder
  <1>2. CASE AdobeSettlesChange /\ UNCHANGED <<switchOrders, returns>>
    <2>1. Sparing /\ UNCHANGED newOrders
      BY <1>1, <1>2 DEF AdobeSettlesChange, boughtVars, passVars, Sparing
    <2>2. QED
      BY <1>1, <2>1, SparingKept
  <1>3. CASE AdobeSettlesPurchase /\ UNCHANGED <<switchOrders, returns>>
    <2>1. PICK id \in DOMAIN newOrders : \/ AdobeCompletesNewOrder(id)
                                         \/ AdobeFailsNewOrder(id)
                                         \/ AdobeCancelsReturnedOrder(id)
      BY <1>3 DEF AdobeSettlesPurchase, AdobeSettlesNewOrder
    <2>2. newOrders[id] \in NewOrder /\ newOrders[id].returned = "none"
      BY <2>1 DEF GoodsInv
    <2>3. PICK orderStatus \in {"COMPLETE", "FAILED"} :
             /\ newOrders[id].status = "OPEN"
             /\ newOrders' = [newOrders EXCEPT ![id].status = orderStatus]
             /\ \/ Process(newOrders[id].payload.quantity)
                \/ UNCHANGED subscriptionVars
      BY <2>1, <2>2
      DEF AdobeCompletesNewOrder, AdobeFailsNewOrder, AdobeCancelsReturnedOrder
    <2> DEFINE order == [newOrders[id] EXCEPT !.status = orderStatus]
    <2>4. /\ order \in NewOrder /\ order.returned = "none"
          /\ order.payload = newOrders[id].payload
      BY <2>2, <2>3 DEF NewOrder, NewOrderStatus
    <2>5. newOrders' = [newOrders EXCEPT ![id] = order]
      BY <2>3
    <2> HIDE DEF order
    <2>6. /\ newOrders' \in Seq(NewOrder) /\ Len(newOrders') = Len(newOrders)
          /\ DOMAIN newOrders' = DOMAIN newOrders
          /\ \A i \in DOMAIN newOrders : newOrders'[i] = IF i = id THEN order ELSE newOrders[i]
      BY <2>4, <2>5 DEF GoodsInv
    <2>7. SubscriptionsTypeOK'
      <3>1. \A line \in Lines : newOrders[id].payload.quantity[line] \in Int
        BY <2>2 DEF NewOrder, Payload
      <3>2. CASE Process(newOrders[id].payload.quantity)
        BY <3>1, <3>2, Processed DEF GoodsInv
      <3>3. CASE UNCHANGED subscriptionVars
        BY <3>3 DEF GoodsInv, SubscriptionsTypeOK, subscriptionVars
      <3>4. QED
        BY <2>3, <3>2, <3>3
    <2>8. OrderIds' = OrderIds
      BY <1>1, <1>3, <2>6 DEF OrderIds
    <2>9. QED
      BY <1>1, <1>3, <2>3, <2>4, <2>6, <2>7, <2>8 DEF passVars, GoodsInv, SwitchTypeOK, BuysNew
  <1>4. CASE AdobeSettlesSwitchOrder /\ UNCHANGED <<change, returns>>
    <2>1. PICK id \in DOMAIN switchOrders, orderStatus \in {"COMPLETE", "FAILED"} :
             /\ switchOrders[id] = "OPEN"
             /\ switchOrders' = [switchOrders EXCEPT ![id] = orderStatus]
             /\ Settle(orderStatus) /\ UNCHANGED newOrders
      BY <1>4 DEF AdobeSettlesSwitchOrder
    <2>2. switchOrders' \in Seq({"OPEN", "COMPLETE", "FAILED"})
          /\ Len(switchOrders') = Len(switchOrders)
      BY <2>1 DEF GoodsInv, SwitchTypeOK
    <2>3. SubscriptionsTypeOK'
      <3>1. CASE Process(SwitchChange)
        <4>1. \A line \in Lines : SwitchChange[line] \in Int
          BY AdobeSubscriptionsAssumption DEF SwitchChange
        <4>2. QED
          BY <3>1, <4>1, Processed DEF GoodsInv
      <3>2. CASE UNCHANGED subscriptionVars
        BY <3>2 DEF GoodsInv, SubscriptionsTypeOK, subscriptionVars
      <3>3. QED
        BY <2>1, <3>1, <3>2 DEF Settle
    <2>4. OrderIds' = OrderIds
      BY <1>1, <2>1, <2>2 DEF OrderIds
    <2>5. QED
      BY <1>1, <1>4, <2>1, <2>2, <2>3, <2>4 DEF passVars, GoodsInv, SwitchTypeOK, BuysNew
  <1>5. CASE /\ AdobeSettlesReturnOrder
             /\ UNCHANGED <<newOrders, purchaseVars, change, switchOrders>>
    <2>1. PICK p \in Purchases :
             /\ returns[p] = "OPEN"
             /\ \/ returns' = [returns EXCEPT ![p] = "COMPLETE"] /\ TakeBack(p)
                \/ returns' = [returns EXCEPT ![p] = "none"] /\ UNCHANGED subscriptionVars
      BY <1>5 DEF AdobeSettlesReturnOrder
    <2>2. returns' \in [Purchases -> ReturnStatus]
      BY <2>1 DEF GoodsInv, ReturnStatus
    <2>3. SubscriptionsTypeOK'
      <3>1. CASE TakeBack(p)
        <4>1. \A line \in Lines : [l \in Lines |->
                 IF l = PurchaseLine[p] THEN -PurchasedQuantity[p] ELSE 0][line] \in Int
          BY ReturnAssumption
        <4>2. QED
          BY <3>1, <4>1, Processed DEF TakeBack, GoodsInv
      <3>2. CASE UNCHANGED subscriptionVars
        BY <3>2 DEF GoodsInv, SubscriptionsTypeOK, subscriptionVars
      <3>3. QED
        BY <2>1, <3>1, <3>2
    <2>4. OrderIds' = OrderIds
      BY <1>1, <1>5 DEF OrderIds
    <2>5. QED
      BY <1>1, <1>5, <2>2, <2>3, <2>4 DEF passVars, GoodsInv, SwitchTypeOK, BuysNew
  <1>6. QED
    BY <1>2, <1>3, <1>4, <1>5 DEF Adobe

LEMMA GoodsKept == ContextOK /\ GoodsInv /\ [Next]_vars => GoodsInv'
  <1> SUFFICES ASSUME ContextOK, GoodsInv, [Next]_vars PROVE GoodsInv'
    OBVIOUS
  <1>1. CASE UNCHANGED vars \/ Platform \/ Configuration
    <2>1. UNCHANGED vars => Sparing
      BY DEF vars, passVars, boughtVars, Sparing
    <2>2. QED
      BY <1>1, <2>1, PlatformGoods, ConfigurationGoods, SparingKept
  <1>2. QED
    BY <1>1, SettleGoods, TerminationGoods, SwitchGoods, PurchaseGoods, ResellerGoods
    DEF Next, Step

LEMMA GoodsHold == Spec => []GoodsInv
  <1>1. Init => GoodsInv
    <2> SUFFICES ASSUME Init PROVE GoodsInv
      OBVIOUS
    <2>1. SubscriptionsTypeOK /\ kind \in OrderKinds
      BY AdobeSubscriptionsAssumption, FulfillOrderAssumption
      DEF Init, PurchaseInit, SubscriptionsInit, SubscriptionsTypeOK
    <2>2. newOrders = <<>> /\ switchOrders = <<>> /\ vendorId = 0
          /\ ctx.newOrderId = 0 /\ ctx.preview = NoPreview
      BY EmptyGoods DEF Init, PassInit, PurchaseInit, NewOrderInit, SwitchInit
    <2>3. returns \in [Purchases -> ReturnStatus]
      BY DEF Init, ReturnInit, ReturnStatus
    <2>4. QED
      BY <2>1, <2>2, <2>3 DEF GoodsInv, SwitchTypeOK, OrderIds
  <1>2. QED
    BY <1>1, ContextHolds, GoodsKept, PTL DEF Spec

-----------------------------------------------------------------------------
(* Accounts and what is published.                                          *)

RecordsInv ==
    /\ {customers, customerId, agreementCustomer, seen.account} \subseteq Account
    /\ buyers \in Seq(Account) /\ Len(buyers) = Len(newOrders)
    /\ published \subseteq Lines

\* Most steps copy identifiers from one place to another.
Copying ==
    /\ {customers', customerId', agreementCustomer', seen'.account} \subseteq
          {customers, customerId, agreementCustomer, seen.account, 0}
    /\ UNCHANGED <<buyers, newOrders>>
    /\ published' \ published \subseteq Lines

LEMMA CopyingKept == RecordsInv /\ Copying => RecordsInv'
  <1>1. 0 \in Account
    BY PurchaseOrderAssumption DEF Account
  <1>2. QED
    BY <1>1 DEF RecordsInv, Copying

LEMMA BuyingRecords ==
    ASSUME NEW step, RecordsInv, Buying(step), newOrders \in Seq(NewOrder),
           Len(newOrders') \in {Len(newOrders), Len(newOrders) + 1}
    PROVE  RecordsInv'
  <1>1. UNCHANGED <<customerVars, published>> /\ seen' \in {seen, NothingSeen}
    BY DEF Buying, Forgets
  <1>2. seen'.account \in Account
    BY <1>1, NothingSeenOK, PurchaseOrderAssumption DEF RecordsInv, Account
  <1>3. buyers' \in Seq(Account) /\ Len(buyers') = Len(newOrders')
    <2>1. CASE Len(newOrders') = Len(newOrders) + 1
      <3>1. Len(newOrders) \in Nat
        OBVIOUS
      <3>2. buyers' = Append(buyers, seen.account)
        BY <2>1, <3>1 DEF Buying
      <3>3. QED
        BY <2>1, <3>1, <3>2 DEF RecordsInv
    <2>2. CASE Len(newOrders') = Len(newOrders)
      BY <2>2 DEF Buying, RecordsInv
    <2>3. QED
      BY <2>1, <2>2
  <1>4. QED
    BY <1>1, <1>2, <1>3 DEF RecordsInv, customerVars

\* How many orders a step of buying makes.
LEMMA OrdersMade ==
    ASSUME ContextOK, GoodsInv, kind # "switch", UNCHANGED <<switchOrders, returns, kind>>,
           \/ GetPreviewOrder("UpdatePrices") \/ UpdatePrices("SubmitNewOrder")
           \/ SubmitNewOrder("CreateOrUpdateAssets")
           \/ FetchTransferAsOrder("CreateOrUpdateAssets")
    PROVE  Len(newOrders') \in {Len(newOrders), Len(newOrders) + 1}
  <1>1. PlaceNewOrder => Len(newOrders') \in {Len(newOrders), Len(newOrders) + 1}
    BY PlaceGoods
  <1>2. QED
    BY <1>1 DEF GetPreviewOrder, UpdatePrices, SubmitNewOrder, SkipNewOrder, SaveNewOrder,
       FetchNewOrder, FetchTransferAsOrder

LEMMA PurchaseRecords ==
    ASSUME ContextOK, GoodsInv, AccountInv, RecordsInv, Purchase
    PROVE  RecordsInv'
  <1>1. UNCHANGED <<switchOrders, returns, kind>> /\ kind = "purchase" /\ PurchaseSteps
    BY DEF Purchase
  <1>2. CASE \/ Buying(GetPreviewOrder("UpdatePrices")) \/ Buying(UpdatePrices("SubmitNewOrder"))
             \/ Buying(SubmitNewOrder("CreateOrUpdateAssets"))
    <2>1. Len(newOrders') \in {Len(newOrders), Len(newOrders) + 1}
      BY <1>1, <1>2, OrdersMade DEF Buying, Forgets
    <2>2. newOrders \in Seq(NewOrder)
      BY DEF GoodsInv
    <2>3. QED
      BY <1>2, <2>1, <2>2, BuyingRecords
  <1>3. CASE SetupCustomer("SetupDueDate")
    <2>1. /\ UNCHANGED <<customers, customerId, agreementCustomer, buyers, newOrders, published>>
          /\ \/ seen' = NothingSeen
             \/ seen' = [NothingSeen EXCEPT !.account = customerId]
      BY <1>3 DEF SetupCustomer, boughtVars, customerVars
    <2>2. seen'.account \in {0, customerId}
      BY <2>1 DEF NothingSeen
    <2>3. Copying
      BY <2>1, <2>2 DEF Copying
    <2>4. QED
      BY <2>3, CopyingKept
  <1>4. CASE CreateCustomer("ValidateEducationSubSegments")
    <2>1. UNCHANGED <<customerId, agreementCustomer, buyers, newOrders, published>>
      BY <1>4 DEF CreateCustomer, boughtVars
    <2>2. CASE customers < MaxCustomers /\ customers' = customers + 1
      <3>1. customers' \in Account
        BY <2>2, PurchaseOrderAssumption DEF RecordsInv, Account
      <3>2. \/ seen' = NothingSeen
            \/ seen' = [NothingSeen EXCEPT !.account = customers + 1, !.fresh = TRUE]
        BY <1>4, <2>2 DEF CreateCustomer, PostCustomer, RecordsInv, Account
      <3>3. seen'.account \in {0, customers'}
        <4>1. customers + 1 \in Nat
          BY DEF AccountInv
        <4>2. QED
          BY <2>2, <3>2, <4>1, NothingSeenOK, Remembered
      <3>4. 0 \in Account
        BY PurchaseOrderAssumption DEF Account
      <3>5. QED
        BY <2>1, <3>1, <3>3, <3>4 DEF RecordsInv
    <2>3. CASE UNCHANGED customers
      <3>1. seen' \in {seen, NothingSeen}
        BY <1>4, <2>3 DEF CreateCustomer, PostCustomer, RecordsInv, Account
      <3>2. Copying
        BY <2>1, <2>3, <3>1, NothingSeenOK DEF Copying
      <3>3. QED
        BY <3>2, CopyingKept
    <2>4. QED
      BY <1>4, <2>2, <2>3 DEF CreateCustomer, PostCustomer
  <1>5. CASE \/ Only(SetupDueDate("ValidateDuplicateLines"))
             \/ Only(ValidateDuplicateLines("ValidateGovernmentLGA"))
             \/ Only(ValidateGovernmentLGA("CreateCustomer"))
             \/ SaveCustomerId("SaveAgreement")
             \/ SaveAgreement("SaveAgreement", "ValidateEducationSubSegments")
             \/ Only(ValidateEducationSubSegments("Validate3YCCommitment"))
             \/ Only(Validate3YCCommitment("GetPreviewOrder"))
             \/ CreateOrUpdateAssets("CreateOrUpdateSubscriptions")
             \/ CreateOrUpdateSubscriptions("RefreshCustomer", Bought)
             \/ RefreshCustomer("CompleteOrder")
             \/ Only(CompleteOrder)
             \/ LaterError
    <2>1. Bought \subseteq Lines
      BY DEF Bought, Ordered
    <2>2. Copying
      BY <1>5, <2>1, NothingSeenOK
      DEF Only, Forgets, SaveCustomerId, SaveAgreement, CreateOrUpdateAssets,
          CreateOrUpdateSubscriptions, RefreshCustomer, LaterError, boughtVars, customerVars,
          purchaseVars, Copying
    <2>3. QED
      BY <2>2, CopyingKept
  <1>6. QED
    BY <1>1, <1>2, <1>3, <1>4, <1>5 DEF PurchaseSteps

LEMMA ResellerRecords ==
    ASSUME ContextOK, GoodsInv, AccountInv, RecordsInv, TransferInv, ResellerChange
    PROVE  RecordsInv'
  <1>1. UNCHANGED <<switchOrders, returns, kind>> /\ kind = "reseller"
        /\ (ResellerSteps \/ RevivalSteps)
    BY DEF ResellerChange
  <1>2. CASE \/ Buying(GetPreviewOrder("UpdatePrices")) \/ Buying(UpdatePrices("SubmitNewOrder"))
             \/ Buying(SubmitNewOrder("CreateOrUpdateAssets"))
             \/ Buying(FetchTransferAsOrder("CreateOrUpdateAssets"))
    <2>1. Len(newOrders') \in {Len(newOrders), Len(newOrders) + 1}
      BY <1>1, <1>2, OrdersMade DEF Buying, Forgets
    <2>2. newOrders \in Seq(NewOrder)
      BY DEF GoodsInv
    <2>3. QED
      BY <1>2, <2>1, <2>2, BuyingRecords
  <1>3. CASE Unmoved(SetupCustomer("SetupDueDate"))
    <2>1. /\ UNCHANGED <<customers, customerId, agreementCustomer, buyers, newOrders, published>>
          /\ \/ seen' = NothingSeen
             \/ seen' = [NothingSeen EXCEPT !.account = customerId]
      BY <1>3 DEF Unmoved, SetupCustomer, boughtVars, customerVars
    <2>2. seen'.account \in {0, customerId}
      BY <2>1 DEF NothingSeen
    <2>3. Copying
      BY <2>1, <2>2 DEF Copying
    <2>4. QED
      BY <2>3, CopyingKept
  <1>4. CASE CommitResellerChange("CheckAdobeResellerTransfer")
    <2>1. UNCHANGED <<customerId, agreementCustomer, buyers, newOrders, published>>
      BY <1>4 DEF CommitResellerChange, boughtVars
    <2>2. CASE customers' = TheCustomer
               /\ seen' = [seen EXCEPT !.account = TheCustomer, !.transfer = TRUE]
      <3>1. TheCustomer \in Account
        BY PurchaseOrderAssumption DEF TheCustomer, Account
      <3>2. seen'.account = TheCustomer
        BY <2>2 DEF AccountInv, Seen
      <3>3. QED
        BY <2>1, <2>2, <3>1, <3>2 DEF RecordsInv
    <2>3. CASE UNCHANGED customers /\ seen' \in {seen, NothingSeen}
      <3>1. Copying
        BY <2>1, <2>3, NothingSeenOK DEF Copying
      <3>2. QED
        BY <3>1, CopyingKept
    <2>4. QED
      BY <1>4, <2>2, <2>3 DEF CommitResellerChange, Forgets
  <1>5. CASE \/ Unmoved(Only(SetupDueDate("FetchResellerChangeData")))
             \/ Unmoved(Only(FetchResellerChangeData("ValidateResellerChange")))
             \/ Unmoved(Only(ValidateResellerChange("CommitResellerChange")))
             \/ SaveResellerChange("SaveAgreement")
             \/ Unmoved(SaveAgreement("SaveAgreement", "CheckAdobeResellerTransfer"))
             \/ Unmoved(Only(CheckAdobeResellerTransfer("GetAdobeCustomer")))
             \/ GetAdobeCustomer("SaveAgreementAgain")
             \/ Unmoved(SaveAgreement("SaveAgreementAgain", "ProcessResellerTransferOrder"))
             \/ Unmoved(Only(ProcessResellerTransferOrder("CreateTransferSubscriptions",
                                                          "GetPreviewOrder")))
             \/ CreateTransferSubscriptions("CompleteOrder")
             \/ Unmoved(Only(CompleteOrder))
             \/ CreateOrUpdateAssets("CreateOrUpdateSubscriptions")
             \/ CreateOrUpdateSubscriptions("CompleteOrder", BoughtOrTransferred)
    <2>1. change.items \subseteq Lines
      BY DEF TransferInv, NewLines
    <2>2. LineItems \subseteq Lines /\ BoughtOrTransferred \subseteq Lines
      BY <2>1 DEF LineItems, BoughtOrTransferred, Bought, Ordered
    <2>3. Copying
      BY <1>5, <2>2, NothingSeenOK
      DEF Unmoved, Only, Forgets, SaveResellerChange, SaveAgreement, GetAdobeCustomer,
          CreateTransferSubscriptions, CreateOrUpdateAssets, CreateOrUpdateSubscriptions,
          boughtVars, customerVars, Copying
    <2>4. QED
      BY <2>3, CopyingKept
  <1>6. QED
    BY <1>1, <1>2, <1>3, <1>4, <1>5 DEF ResellerSteps, RevivalSteps

LEMMA SwitchRecords ==
    ASSUME AccountInv, RecordsInv, MidTermSwitch
    PROVE  RecordsInv'
  <1>1. SwitchSteps
    BY DEF MidTermSwitch
  <1>2. CASE Unswitched(SetupCustomer("SetupDueDate"))
    <2>1. /\ UNCHANGED <<customers, customerId, agreementCustomer, buyers, newOrders, published>>
          /\ \/ seen' = NothingSeen
             \/ seen' = [NothingSeen EXCEPT !.account = customerId]
      BY <1>2 DEF Unswitched, SetupCustomer, boughtVars, customerVars
    <2>2. seen'.account \in {0, customerId}
      BY <2>1 DEF NothingSeen
    <2>3. Copying
      BY <2>1, <2>2 DEF Copying
    <2>4. QED
      BY <2>3, CopyingKept
  <1>3. CASE Unswitched(Buying(UpdatePrices("SubmitSwitchOrder")))
    <2>1. UNCHANGED newOrders
      BY <1>3 DEF Unswitched, Buying, Forgets, UpdatePrices
    <2>2. UNCHANGED buyers /\ seen' \in {seen, NothingSeen}
          /\ UNCHANGED <<customers, customerId, agreementCustomer, published>>
      <3>1. ~(Len(newOrders') > Len(newOrders))
        <4>1. Len(newOrders) = Len(buyers) /\ Len(buyers) \in Nat
          BY DEF RecordsInv
        <4>2. QED
          BY <2>1, <4>1
      <3>2. QED
        BY <1>3, <3>1 DEF Unswitched, Buying, Forgets, customerVars
    <2>3. Copying
      BY <2>1, <2>2, NothingSeenOK DEF Copying
    <2>4. QED
      BY <2>3, CopyingKept
  <1>4. CASE /\ ~Unswitched(SetupCustomer("SetupDueDate"))
             /\ ~Unswitched(Buying(UpdatePrices("SubmitSwitchOrder")))
    <2>1. SwitchedLines \subseteq Lines
      BY DEF SwitchedLines, NewLines
    <2>2. Copying
      BY <1>1, <1>4, <2>1, NothingSeenOK
      DEF SwitchSteps, Unswitched, Only, Submitting, Forgets, CreateOrUpdateSubscriptions,
          boughtVars, customerVars, Copying
    <2>3. QED
      BY <2>2, CopyingKept
  <1>5. QED
    BY <1>2, <1>3, <1>4

LEMMA RecordsKept ==
    ContextOK /\ GoodsInv /\ AccountInv /\ TransferInv /\ RecordsInv /\ [Next]_vars => RecordsInv'
  <1> SUFFICES ASSUME ContextOK, GoodsInv, AccountInv, TransferInv, RecordsInv, [Next]_vars
               PROVE  RecordsInv'
    OBVIOUS
  <1>1. CASE UNCHANGED vars \/ Platform \/ Configuration \/ Termination
    <2>1. Copying
      BY <1>1, NothingSeenOK
      DEF vars, Platform, Configuration, Termination, boughtVars, customerVars,
          purchaseVars, Copying
    <2>2. QED
      BY <2>1, CopyingKept
  <1>2. CASE Adobe
    <2>1. UNCHANGED <<customers, customerId, agreementCustomer, seen, buyers, published>>
      BY <1>2 DEF Adobe, AdobeSettlesPurchase, AdobeSettlesChange, AdobeSettlesSwitchOrder,
         boughtVars, purchaseVars, customerVars
    <2>2. Len(newOrders') = Len(newOrders)
      BY <1>2, SettleGoods
    <2>3. QED
      BY <2>1, <2>2 DEF RecordsInv
  <1>3. QED
    BY <1>1, <1>2, PurchaseRecords, ResellerRecords, SwitchRecords DEF Next, Step

\* Every variable of the five pipelines keeps its type, an order's identifier
\* always names an order placed for it, and there is one buyer to each NEW
\* order, for any lines, offers, purchases, refusals and days, wherever passes
\* are cut off (SubmitNewOrder, update_order, CreateCustomer).
THEOREM FulfillTypes == Spec => []TypeOK
  <1>1. Init => RecordsInv
    <2>1. 0 \in Account /\ TheCustomer \in Account
      BY PurchaseOrderAssumption DEF TheCustomer, Account
    <2>2. QED
      BY <2>1, NothingSeenOK DEF Init, PurchaseInit, NewOrderInit, RecordsInv
  <1>2. Init => TransferInv /\ ConfigurationInv
    BY ConfigurationAssumption, NothingSeenOK
    DEF Init, PassInit, PurchaseInit, ResellerInit, HasCustomer, NothingSeen, TransferInv,
        UntransferredInv, Transferred, ChangeStatus, Outside, ConfigurationInit,
        ConfigurationInv, Early, ToTransfer, Afterwards
  <1>3. CalendarInv /\ GoodsInv /\ AccountInv /\ TransferInv /\ ConfigurationInv /\ RecordsInv
        => TypeOK
    BY DEF CalendarInv, GoodsInv, AccountInv, TransferInv, ConfigurationInv, RecordsInv, TypeOK,
       PurchaseTypeOK, ResellerTypeOK, ConfigurationTypeOK, Seen, OrderIds, Account
  <1>4. QED
    BY <1>1, <1>2, <1>3, ContextHolds, CalendarHolds, GoodsHold, AccountHolds, TransferKept,
       ConfigurationKept, RecordsKept, PTL DEF Spec

-----------------------------------------------------------------------------
(* What a purchase order bought is delivered.                               *)

\* The order has something new to buy.
OrderHasItems == NewLines # {}

Previewed == {"UpdatePrices", "SubmitNewOrder"}
Delivering == {"CreateOrUpdateAssets", "CreateOrUpdateSubscriptions", "RefreshCustomer",
               "CompleteOrder"}
PurchaseProcessed ==
    vendorId \in DOMAIN newOrders /\ newOrders[vendorId].status = "COMPLETE"

Delivered == NewLines \ InactiveLines \subseteq published

\* A pass has the identifier on record in mind, or a preview, but between POST
\* and save; behind SubmitNewOrder the purchase on record is processed.
DeliveryInv ==
    /\ pc \notin {Idle, "SetupContext", "SaveNewOrder"} => ctx.newOrderId = vendorId
    /\ pc \in Previewed /\ ctx.newOrderId = 0 => ctx.preview # NoPreview
    /\ pc = "SaveNewOrder" =>
          /\ ctx.newOrderId \in DOMAIN newOrders
          /\ ctx.newOrder = "COMPLETE" => newOrders[ctx.newOrderId].status = "COMPLETE"
    /\ pc \in Delivering => PurchaseProcessed /\ ctx.newOrder = "COMPLETE"
    /\ pc \in {"RefreshCustomer", "CompleteOrder"} \/ status = "Completed" => Delivered
    /\ status = "Completed" => PurchaseProcessed

\* A step of a pass that neither buys nor delivers.
Apart ==
    /\ pc # Idle /\ UNCHANGED <<newOrders, vendorId, published>>
    /\ status' # "Completed"
    /\ \/ pc' = Idle
       \/ /\ pc' \notin Previewed \cup Delivering \cup {Idle, "SetupContext", "SaveNewOrder"}
          /\ ctx'.newOrderId = vendorId

LEMMA ApartKept == DeliveryInv /\ Apart => DeliveryInv'
  BY DEF DeliveryInv, Apart, PurchaseProcessed, Delivered, Previewed, Delivering

LEMMA OutsideDelivery ==
    ASSUME GoodsInv, DeliveryInv, CalendarInv, Platform \/ Adobe \/ UNCHANGED vars
    PROVE  DeliveryInv'
  <1>1. CASE Platform
    <2>1. UNCHANGED <<newOrders, vendorId, published>>
      BY <1>1 DEF Platform, Dispatch, Resume, NextDay, Abort, Wait, boughtVars
    <2>2. \/ UNCHANGED <<pc, ctx>> /\ (status' = status \/ status' = "Processing")
          \/ pc' \in {Idle, "SetupContext"} /\ status' = status
      BY <1>1 DEF Platform, Dispatch, Resume, NextDay, Abort, Wait, EndPass, Goto
    <2>3. QED
      BY <2>1, <2>2
      DEF DeliveryInv, PurchaseProcessed, Delivered, Previewed, Delivering
  <1>2. CASE Adobe
    <2>1. UNCHANGED <<status, vendorId, pc, ctx, published>>
          /\ Len(newOrders') = Len(newOrders) /\ newOrders' \in Seq(NewOrder)
          /\ \A i \in DOMAIN newOrders :
                newOrders[i].status = "COMPLETE" => newOrders'[i].status = "COMPLETE"
      BY <1>2, SettleGoods
      DEF passVars, Adobe, AdobeSettlesPurchase, AdobeSettlesChange, AdobeSettlesSwitchOrder,
          purchaseVars, GoodsInv
    <2>2. DOMAIN newOrders' = DOMAIN newOrders
      BY <2>1 DEF GoodsInv
    <2>3. QED
      BY <2>1, <2>2 DEF DeliveryInv, PurchaseProcessed, Delivered
  <1>3. CASE UNCHANGED vars
    BY <1>3 DEF vars, passVars, boughtVars, DeliveryInv, PurchaseProcessed, Delivered
  <1>4. QED
    BY <1>1, <1>2, <1>3

\* Behind SubmitNewOrder an order that was processed is on record.
LEMMA FollowedUp ==
    ASSUME NEW orderStatus,
           ContextOK, FollowOrder("CreateOrUpdateAssets", ctx.newOrderId, orderStatus),
           DeliveryInv, UNCHANGED <<newOrders, published>>, vendorId' = ctx.newOrderId,
           ctx.newOrderId \in DOMAIN newOrders, status # "Completed",
           orderStatus = "COMPLETE" => newOrders[ctx.newOrderId].status = "COMPLETE"
    PROVE  DeliveryInv'
  BY FollowGoods DEF DeliveryInv, PurchaseProcessed, Delivered, Previewed, Delivering

LEMMA PurchaseDelivery ==
    ASSUME OrderHasItems, ContextOK, GoodsInv, CalendarInv, DeliveryInv, Purchase
    PROVE  DeliveryInv'
  <1>a. UNCHANGED <<switchOrders, returns, kind>> /\ kind = "purchase" /\ PurchaseSteps
    BY DEF Purchase
  <1>b. pc # Idle => status = "Processing"
    BY DEF CalendarInv
  <1>1. CASE SetupCustomer("SetupDueDate")
    <2>1. Apart
      BY <1>1, <1>b, SetupGoods
      DEF SetupCustomer, SetupContext, boughtVars, Previewed, Delivering, Apart
    <2>2. QED
      BY <2>1, ApartKept
  <1>2. CASE \/ Only(SetupDueDate("ValidateDuplicateLines"))
             \/ Only(ValidateDuplicateLines("ValidateGovernmentLGA"))
             \/ Only(ValidateGovernmentLGA("CreateCustomer"))
             \/ CreateCustomer("ValidateEducationSubSegments")
             \/ SaveCustomerId("SaveAgreement")
             \/ SaveAgreement("SaveAgreement", "ValidateEducationSubSegments")
             \/ Only(ValidateEducationSubSegments("Validate3YCCommitment"))
             \/ Only(Validate3YCCommitment("GetPreviewOrder"))
             \/ LaterError
    <2>1. Apart
      BY <1>2, <1>b
      DEF Only, Forgets, SetupDueDate, ValidateDuplicateLines, ValidateGovernmentLGA,
          CreateCustomer, PostCustomer, HandleError, SaveCustomerId, SaveAgreement,
          ValidateEducationSubSegments, Queried, Validate3YCCommitment, LaterError, Continue,
          Goto, Decide, EndPass, switch_order_to_failed, switch_order_to_query, boughtVars,
          Apart, DeliveryInv, Previewed, Delivering
    <2>2. QED
      BY <2>1, ApartKept
  <1>3. CASE Buying(GetPreviewOrder("UpdatePrices"))
    <2>1. UNCHANGED <<newOrders, vendorId, published>> /\ status' # "Completed"
          /\ pc = "GetPreviewOrder" /\ ctx.newOrderId = vendorId
      BY <1>3, <1>b DEF Buying, Forgets, GetPreviewOrder, Continue, switch_order_to_failed,
         Decide, DeliveryInv
    <2>2. CASE pc' = "UpdatePrices" /\ UNCHANGED ctx /\ ctx.newOrderId # 0
      BY <2>1, <2>2 DEF DeliveryInv, PurchaseProcessed, Delivered, Previewed, Delivering
    <2>3. CASE /\ pc' = "UpdatePrices"
               /\ \E offer \in Offers : ctx' = [ctx EXCEPT !.preview = PreviewOf(offer)]
      <3>1. ctx'.newOrderId = ctx.newOrderId
        BY <2>3 DEF ContextOK, Fields
      <3>2. ctx'.preview # NoPreview
        <4>1. PICK offer \in Offers : ctx' = [ctx EXCEPT !.preview = PreviewOf(offer)]
          BY <2>3
        <4>2. ctx'.preview = PreviewOf(offer)
          BY <4>1 DEF ContextOK, Fields
        <4>3. QED
          BY <4>2, PreviewBuysNew DEF OrderHasItems, GoodsInv
      <3>3. QED
        BY <2>1, <2>3, <3>1, <3>2
        DEF DeliveryInv, PurchaseProcessed, Delivered, Previewed, Delivering
    <2>4. CASE pc' = Idle
      BY <2>1, <2>4 DEF DeliveryInv, PurchaseProcessed, Delivered, Previewed, Delivering
    <2>5. PurchaseLines # {}
      BY DEF OrderHasItems, PurchaseLines
    <2>6. QED
      BY <1>3, <2>2, <2>3, <2>4, <2>5 DEF Buying, Forgets, GetPreviewOrder, Continue, Goto,
         switch_order_to_failed, Decide, EndPass
  <1>4. CASE Buying(UpdatePrices("SubmitNewOrder"))
    <2>1. /\ UNCHANGED <<newOrders, vendorId, published>> /\ status' # "Completed"
          /\ pc = "UpdatePrices" /\ pc' = "SubmitNewOrder"
          /\ ctx'.newOrderId = ctx.newOrderId /\ ctx'.preview = ctx.preview
      BY <1>4, <1>b, RepriceGoods DEF Buying, Forgets, UpdatePrices
    <2>2. QED
      BY <2>1 DEF DeliveryInv, PurchaseProcessed, Delivered, Previewed, Delivering
  <1>5. CASE Buying(SubmitNewOrder("CreateOrUpdateAssets"))
    <2>1. UNCHANGED published /\ SubmitNewOrder("CreateOrUpdateAssets")
      BY <1>5 DEF Buying, Forgets
    <2>2. ~SkipNewOrder("CreateOrUpdateAssets")
      <3>1. PurchaseLines # {}
        BY DEF OrderHasItems, PurchaseLines
      <3>2. QED
        BY <3>1 DEF SkipNewOrder, DeliveryInv, Previewed
    <2>3. CASE PlaceNewOrder
      <3>1. status' # "Completed"
        BY <1>b, <2>3 DEF PlaceNewOrder
      <3>2. QED
        BY <1>a, <2>1, <2>3, <3>1, PlaceGoods
        DEF DeliveryInv, PurchaseProcessed, Delivered, Previewed, Delivering
    <2>4. CASE SaveNewOrder("CreateOrUpdateAssets")
      BY <1>b, <2>1, <2>4, FollowedUp DEF SaveNewOrder, DeliveryInv
    <2>5. CASE FetchNewOrder("CreateOrUpdateAssets")
      <3>1. /\ ctx.newOrderId = vendorId /\ ctx.newOrderId # 0 /\ UNCHANGED vendorId
            /\ UNCHANGED newOrders /\ status # "Completed"
        BY <1>b, <2>5 DEF FetchNewOrder, DeliveryInv
      <3>2. ctx.newOrderId \in DOMAIN newOrders
        BY <1>a, <3>1 DEF GoodsInv, OrderIds
      <3>3. QED
        BY <2>1, <2>5, <3>1, <3>2, FollowedUp DEF FetchNewOrder
    <2>6. QED
      BY <2>1, <2>2, <2>3, <2>4, <2>5 DEF SubmitNewOrder
  <1>6. CASE CreateOrUpdateAssets("CreateOrUpdateSubscriptions") \/ RefreshCustomer("CompleteOrder")
    <2>1. /\ UNCHANGED <<newOrders, vendorId, published>> /\ status' # "Completed"
          /\ \/ pc' = Idle
             \/ /\ UNCHANGED ctx
                /\ \/ pc = "CreateOrUpdateAssets" /\ pc' = "CreateOrUpdateSubscriptions"
                   \/ pc = "RefreshCustomer" /\ pc' = "CompleteOrder"
      BY <1>6, <1>b
      DEF CreateOrUpdateAssets, RefreshCustomer, Forgets, Wait, Continue, Goto, EndPass,
          boughtVars, purchaseVars
    <2>2. QED
      BY <2>1 DEF DeliveryInv, PurchaseProcessed, Delivered, Previewed, Delivering
  <1>7. CASE CreateOrUpdateSubscriptions("RefreshCustomer", Bought)
    <2>1. /\ UNCHANGED <<newOrders, vendorId>> /\ status' # "Completed"
          /\ published \subseteq published' /\ pc = "CreateOrUpdateSubscriptions"
          /\ \/ pc' = Idle
             \/ pc' = pc /\ UNCHANGED ctx
             \/ /\ pc' = "RefreshCustomer" /\ UNCHANGED ctx
                /\ Bought \ (published \cup InactiveLines) = {} /\ UNCHANGED published
      BY <1>7, <1>b
      DEF CreateOrUpdateSubscriptions, Forgets, Wait, Continue, Goto, EndPass, boughtVars
    <2>2. NewLines \subseteq Bought
      <3>1. vendorId \in DOMAIN newOrders /\ ctx.newOrderId = vendorId
            /\ ctx.newOrder = "COMPLETE"
        BY <2>1 DEF DeliveryInv, Delivering, PurchaseProcessed
      <3>2. Bought = Ordered(newOrders[vendorId])
        BY <3>1 DEF Bought
      <3>3. QED
        BY <3>1, <3>2 DEF Ordered, GoodsInv, BuysNew, NewLines
    <2>3. QED
      BY <2>1, <2>2 DEF DeliveryInv, PurchaseProcessed, Delivered, Previewed, Delivering
  <1>8. CASE Only(CompleteOrder)
    <2>1. UNCHANGED <<newOrders, vendorId, published>> /\ pc = "CompleteOrder" /\ pc' = Idle
      BY <1>8 DEF Only, Forgets, CompleteOrder, Decide, EndPass, boughtVars
    <2>2. QED
      BY <2>1 DEF DeliveryInv, PurchaseProcessed, Delivered, Previewed, Delivering
  <1>9. QED
    BY <1>a, <1>1, <1>2, <1>3, <1>4, <1>5, <1>6, <1>7, <1>8 DEF PurchaseSteps

\* A purchase order of any number of new items is completed only over a
\* purchase on record that Adobe has processed, with a subscription for every
\* line Adobe activated, wherever its passes were cut off or its account was
\* taken for refused (SubmitNewOrder, CreateOrUpdateSubscriptions).
THEOREM PurchaseIsDelivered ==
    ASSUME OrderHasItems
    PROVE  Spec => []PurchasedIsDelivered
  <1> DEFINE Mine == kind = "purchase" => DeliveryInv
  <1>1. Init => Mine
    BY DEF Init, PassInit, DeliveryInv, Previewed, Delivering
  <1>2. ContextOK /\ GoodsInv /\ CalendarInv /\ Mine /\ [Next]_vars => Mine'
    <2> SUFFICES ASSUME ContextOK, GoodsInv, CalendarInv, Mine, [Next]_vars, kind' = "purchase"
                 PROVE  DeliveryInv'
      OBVIOUS
    <2>1. UNCHANGED kind
      BY DEF Next, Step, Platform, Adobe, Purchase, ResellerChange, MidTermSwitch,
         Termination, Configuration, vars
    <2>2. kind = "purchase" /\ DeliveryInv
      BY <2>1
    <2>3. QED
      BY <2>2, OutsideDelivery, PurchaseDelivery
      DEF Next, Step, ResellerChange, MidTermSwitch, Termination, Configuration
  <1>3. Mine => PurchasedIsDelivered
    BY DEF PurchasedIsDelivered, DeliveryInv, PurchaseProcessed, Delivered
  <1>4. QED
    BY <1>1, <1>2, <1>3, ContextHolds, GoodsHold, CalendarHolds, PTL DEF Spec

-----------------------------------------------------------------------------
(* What a termination gives back.                                           *)

\* A termination order is about all the customer holds of a line; purchases
\* are numbered as Adobe created them, and stop being returnable in that
\* order; none was made for another deployment.
WholeLines ==
    \A line \in DownsizeLines : FirstCurrent[line] \in {0, Downsize(line)}
ReturnDaysInOrder ==
    \A p, q \in Purchases :
       p < q /\ PurchaseLine[p] = PurchaseLine[q] => LastReturnDay[p] <= LastReturnDay[q]
OneDeployment == OtherDeployment = {}

\* A set of numbers has a least one.
LEMMA LeastNumber ==
    ASSUME NEW S, S \subseteq Nat, S # {}
    PROVE  Min(S) \in S /\ \A n \in S : Min(S) <= n
  <1>1. PICK n \in S : \A m \in S : <<m, n>> \notin OpToRel(<, Nat)
    BY NatLessThanWellFounded, WFMin, Zenon
  <1>2. \A m \in S : ~(m < n)
    BY <1>1 DEF OpToRel
  <1>3. \E least \in S : \A m \in S : least <= m
    <2>1. n \in Nat /\ \A m \in S : m \in Nat /\ n <= m
      BY <1>2
    <2>2. QED
      BY <2>1
  <1>4. QED
    BY <1>3 DEF Min

LEMMA PurchaseSums ==
    ASSUME NEW S \in SUBSET Purchases, NEW T \in SUBSET S
    PROVE  /\ Quantity(S) \in Nat /\ Quantity(T) \in Nat
           /\ Quantity(T) <= Quantity(S)
           /\ Quantity(T) = Quantity(S) => T = S
  <1>1. IsFiniteSet(S) /\ IsFiniteSet(T)
    BY ReturnAssumption, FS_Subset
  <1>2. \A p \in S : PurchasedQuantity[p] \in Nat /\ PurchasedQuantity[p] > 0
    BY ReturnAssumption
  <1>3. Quantity(S) \in Nat /\ Quantity(T) \in Nat
    BY <1>1, <1>2, SumNonNegative DEF Quantity
  <1>4. Quantity(T) <= Quantity(S)
    BY <1>1, <1>2, SumSubset DEF Quantity
  <1>5. ASSUME NEW p \in S, p \notin T PROVE Quantity(T) < Quantity(S)
    <2> DEFINE R == S \ {p}
    <2>1. IsFiniteSet(R) /\ T \in SUBSET R
      BY <1>1, <1>5, FS_Subset
    <2>2. SumFunctionOnSet(PurchasedQuantity, S)
             = PurchasedQuantity[p] + SumFunctionOnSet(PurchasedQuantity, R)
      BY <1>1, <1>2, <1>5, SumRemoved
    <2> HIDE DEF R
    <2>3. R \subseteq S
      BY DEF R
    <2>4. Quantity(T) <= Quantity(R)
      BY <1>2, <2>1, <2>3, SumSubset DEF Quantity
    <2>5. Quantity(R) \in Nat
      BY <1>2, <2>1, <2>3, SumNonNegative DEF Quantity
    <2>6. Quantity(S) = PurchasedQuantity[p] + Quantity(R)
      BY <2>2 DEF Quantity
    <2>7. QED
      BY <1>2, <1>3, <2>4, <2>5, <2>6
  <1>6. QED
    BY <1>3, <1>4, <1>5

LEMMA PurchaseAdded ==
    ASSUME NEW S \in SUBSET Purchases, NEW p \in Purchases \ S
    PROVE  Quantity(S \cup {p}) = PurchasedQuantity[p] + Quantity(S)
  <1>1. IsFiniteSet(S)
    BY ReturnAssumption, FS_Subset
  <1>2. \A q \in S \cup {p} : PurchasedQuantity[q] \in Int
    BY ReturnAssumption
  <1>3. QED
    BY <1>1, <1>2, SumAdded DEF Quantity

\* ReturnableOrders on a given day, to a pass that has seen every return.
ListedOn(line, day) ==
    {p \in Purchases : PurchaseLine[p] = line /\ day <= LastReturnDay[p]}

ReturnableOn(line, day) ==
    LET renewals == ListedOn(line, day) \cap RenewalPurchases
    IN  IF renewals = {} THEN ListedOn(line, day)
        ELSE {p \in ListedOn(line, day) : p >= Min(renewals)}

\* What can be returned only becomes less.
LEMMA ReturnableShrinks ==
    ASSUME ReturnDaysInOrder, NEW line, NEW day \in Nat, NEW later \in Nat, day <= later
    PROVE  ReturnableOn(line, later) \subseteq ReturnableOn(line, day)
  <1> DEFINE renewals == ListedOn(line, day) \cap RenewalPurchases
             left == ListedOn(line, later) \cap RenewalPurchases
  <1>1. /\ ListedOn(line, later) \subseteq ListedOn(line, day) /\ left \subseteq renewals
        /\ renewals \subseteq Nat /\ renewals \subseteq Purchases
    <2>1. \A p \in Purchases : p \in Nat /\ LastReturnDay[p] \in Nat
      BY ReturnAssumption
    <2>2. ListedOn(line, later) \subseteq ListedOn(line, day)
      BY <2>1 DEF ListedOn
    <2>3. ListedOn(line, day) \subseteq Purchases
      BY DEF ListedOn
    <2>4. QED
      BY <2>1, <2>2, <2>3
  <1>2. renewals # {} => Min(renewals) \in renewals /\ \A n \in renewals : Min(renewals) <= n
    <2> HIDE DEF renewals
    <2>1. QED
      BY <1>1, LeastNumber
  <1>3. left # {} => Min(left) \in left
    <2>1. left \subseteq Nat
      BY <1>1
    <2> HIDE DEF left
    <2>2. QED
      BY <2>1, LeastNumber
  <1>4. SUFFICES ASSUME NEW p \in ReturnableOn(line, later), renewals # {}
                 PROVE  p >= Min(renewals)
    BY <1>1 DEF ReturnableOn
  <1>5. p \in ListedOn(line, later) /\ p \in Nat /\ Min(renewals) \in Nat
    BY <1>1, <1>2, <1>4, ReturnAssumption DEF ReturnableOn, ListedOn
  <1>6. CASE left # {}
    <2>1. p >= Min(left)
      BY <1>6 DEF ReturnableOn
    <2>2. Min(left) \in Nat /\ Min(renewals) <= Min(left)
      BY <1>1, <1>2, <1>3, <1>4, <1>6
    <2>3. QED
      BY <1>5, <2>1, <2>2
  <1>7. CASE left = {}
    <2> DEFINE first == Min(renewals)
    <2>1. first \in renewals /\ first \in Purchases /\ PurchaseLine[first] = line
          /\ ~(later <= LastReturnDay[first])
      BY <1>1, <1>2, <1>4, <1>7 DEF ListedOn
    <2>2. later <= LastReturnDay[p] /\ PurchaseLine[p] = line /\ p \in Purchases
      BY <1>5 DEF ListedOn
    <2>3. LastReturnDay[first] \in Nat /\ LastReturnDay[p] \in Nat
      BY <2>1, <2>2, ReturnAssumption
    <2> HIDE DEF first
    <2>4. ~(p < first)
      BY <2>1, <2>2, <2>3 DEF ReturnDaysInOrder
    <2>5. QED
      BY <1>5, <2>4 DEF first
  <1>8. QED
    BY <1>6, <1>7

\* The days on which a line can be given back whole.
FullDays(line) == {day \in Nat : Quantity(ReturnableOn(line, day)) = Downsize(line)}
Full(line) == IF FullDays(line) = {} THEN {}
              ELSE ReturnableOn(line, CHOOSE day \in FullDays(line) : TRUE)

\* On all of them by the same purchases.
LEMMA FullIsUnique ==
    ASSUME ReturnDaysInOrder, NEW line, NEW day \in FullDays(line)
    PROVE  ReturnableOn(line, day) = Full(line)
  <1> DEFINE chosen == CHOOSE d \in FullDays(line) : TRUE
  <1>1. chosen \in FullDays(line) /\ Full(line) = ReturnableOn(line, chosen)
    BY DEF Full
  <1> HIDE DEF chosen
  <1>2. /\ day \in Nat /\ chosen \in Nat
        /\ Quantity(ReturnableOn(line, day)) = Quantity(ReturnableOn(line, chosen))
    BY <1>1 DEF FullDays
  <1>3. ReturnableOn(line, day) \subseteq Purchases /\ ReturnableOn(line, chosen) \subseteq Purchases
    BY DEF ReturnableOn, ListedOn
  <1>4. CASE day <= chosen
    BY <1>1, <1>2, <1>3, <1>4, ReturnableShrinks, PurchaseSums
  <1>5. CASE chosen <= day
    BY <1>1, <1>2, <1>3, <1>5, ReturnableShrinks, PurchaseSums
  <1>6. QED
    BY <1>2, <1>4, <1>5

LEMMA FullIsWhole ==
    ASSUME NEW line
    PROVE  /\ Full(line) \subseteq Purchases
           /\ \A p \in Full(line) : PurchaseLine[p] = line
           /\ Full(line) = {} \/ Quantity(Full(line)) = Downsize(line)
  <1> DEFINE chosen == CHOOSE d \in FullDays(line) : TRUE
  <1>1. FullDays(line) # {} => chosen \in FullDays(line)
    OBVIOUS
  <1>2. QED
    BY <1>1 DEF Full, FullDays, ReturnableOn, ListedOn

-----------------------------------------------------------------------------
(* Over however many passes.                                                *)

GivenBack(line) == {p \in Purchases : PurchaseLine[p] = line /\ returns[p] = "COMPLETE"}

\* What is left of a line once these are given back.
Left(line) ==
    IF FirstCurrent[line] <= Quantity(GivenBack(line)) THEN 0
    ELSE FirstCurrent[line] - Quantity(GivenBack(line))

Listing == {"GetReturnableOrders", "Validate3YCCommitment", "SubmitReturnOrders"}
Giving == {"Validate3YCCommitment", "SubmitReturnOrders"}

AllGiven == \A line \in DownsizeLines : FirstCurrent[line] > 0 => current[line] = 0

\* Every pass gives back of the same purchases, and knows of all the returns
\* the passes before it placed.
TerminationInv ==
    /\ newOrders = <<>> /\ switchOrders = <<>>
    /\ \A line \in DownsizeLines :
          ReturnedOf(line) \subseteq Full(line) /\ current[line] = Left(line)
    /\ pc \in Listing =>
          /\ Returned \subseteq ctx.returnOrders
          /\ \A p \in Purchases \cap ctx.returnOrders :
                p \in ctx.pendingReturns \/ returns[p] = "COMPLETE"
    /\ pc \in Giving =>
          /\ DOMAIN ctx.returnable = DownsizeLines
          /\ \A line \in DownsizeLines :
                \/ /\ ctx.returnable[line] = Full(line)
                   /\ Quantity(Full(line)) = Downsize(line)
                \/ ctx.returnable[line] = {} /\ current[line] = 0
    /\ pc = "CompleteOrder" \/ status = "Completed" => AllGiven

LEMMA GivenBackSums ==
    ASSUME NEW line
    PROVE  GivenBack(line) \in SUBSET Purchases /\ Quantity(GivenBack(line)) \in Nat
  <1>1. GivenBack(line) \in SUBSET Purchases
    BY DEF GivenBack
  <1>2. QED
    BY <1>1, PurchaseSums

\* Adobe processes a return.
LEMMA TakenBack ==
    ASSUME GoodsInv, NEW p \in Purchases, returns[p] # "COMPLETE", TakeBack(p),
           returns' = [returns EXCEPT ![p] = "COMPLETE"],
           NEW line \in DownsizeLines, current[line] = Left(line)
    PROVE  current'[line] = Left(line)' /\ (current[line] = 0 => current'[line] = 0)
  <1>1. line \in Lines /\ FirstCurrent[line] \in Nat /\ current[line] \in Nat
    BY AdobeSubscriptionsAssumption DEF DownsizeLines, GoodsInv, SubscriptionsTypeOK
  <1>2. PurchasedQuantity[p] \in Nat
    BY ReturnAssumption
  <1>3. current'[line] =
           Moved(current, line, IF line = PurchaseLine[p] THEN -PurchasedQuantity[p] ELSE 0)
    BY <1>1 DEF TakeBack, Process
  <1>4. returns \in [Purchases -> ReturnStatus]
    BY DEF GoodsInv
  <1>5. CASE line = PurchaseLine[p]
    <2>1. GivenBack(line)' = GivenBack(line) \cup {p} /\ p \in Purchases \ GivenBack(line)
      BY <1>4, <1>5 DEF GivenBack
    <2>2. Quantity(GivenBack(line)') = PurchasedQuantity[p] + Quantity(GivenBack(line))
      BY <2>1, GivenBackSums, PurchaseAdded
    <2>3. current'[line] = IF current[line] - PurchasedQuantity[p] < 0 THEN 0
                           ELSE current[line] - PurchasedQuantity[p]
      BY <1>1, <1>2, <1>3, <1>5 DEF Moved
    <2>4. Left(line)' = IF FirstCurrent[line] <= Quantity(GivenBack(line)') THEN 0
                        ELSE FirstCurrent[line] - Quantity(GivenBack(line)')
      BY DEF Left, Quantity
    <2>5. QED
      BY <1>1, <1>2, <2>2, <2>3, <2>4, GivenBackSums DEF Left
  <1>6. CASE line # PurchaseLine[p]
    <2>1. GivenBack(line)' = GivenBack(line)
      BY <1>4, <1>6 DEF GivenBack
    <2>2. Left(line)' = Left(line)
      BY <2>1 DEF Left, Quantity
    <2>3. QED
      BY <1>1, <1>3, <1>6, <2>2 DEF Moved
  <1>7. QED
    BY <1>5, <1>6

\* A return is placed, or refused.
LEMMA NotTakenBack ==
    ASSUME GoodsInv, NEW p \in Purchases, returns[p] # "COMPLETE", NEW answer,
           answer # "COMPLETE", returns' = [returns EXCEPT ![p] = answer],
           UNCHANGED subscriptionVars, NEW line
    PROVE  Left(line)' = Left(line) /\ UNCHANGED current
  <1>1. GivenBack(line)' = GivenBack(line)
    BY DEF GivenBack, GoodsInv
  <1>2. QED
    BY <1>1 DEF Left, Quantity, subscriptionVars

\* A step of a pass that neither gives back nor completes.
Aside ==
    /\ UNCHANGED <<current, returns, newOrders, switchOrders>>
    /\ pc' \notin Listing \cup {"CompleteOrder"} /\ (status' = "Completed" => status = "Completed")

LEMMA AsideKept == TerminationInv /\ Aside => TerminationInv'
  BY DEF TerminationInv, Aside, Left, GivenBack, ReturnedOf, Returned, AllGiven, Listing, Giving,
     Quantity

LEMMA OutsideTermination ==
    ASSUME CalendarInv, GoodsInv, TerminationInv, Platform \/ Adobe \/ UNCHANGED vars
    PROVE  TerminationInv'
  <1>1. CASE Platform
    <2>1. UNCHANGED <<current, returns, newOrders, switchOrders>>
      BY <1>1 DEF Platform, boughtVars, subscriptionVars
    <2>2. \/ UNCHANGED <<pc, ctx>> /\ (status' = status \/ status' = "Processing")
          \/ pc' \in {Idle, "SetupContext"} /\ status' = status
      BY <1>1 DEF Platform, Dispatch, Resume, NextDay, Abort, Wait, EndPass, Goto
    <2>3. CASE UNCHANGED <<pc, ctx>> /\ (status' = status \/ status' = "Processing")
      BY <2>1, <2>3
      DEF TerminationInv, Left, GivenBack, ReturnedOf, Returned, AllGiven, Quantity
    <2>4. CASE pc' \in {Idle, "SetupContext"} /\ status' = status
      <3>1. Aside
        BY <2>1, <2>4 DEF Aside, Listing
      <3>2. QED
        BY <3>1, AsideKept
    <2>5. QED
      BY <2>2, <2>3, <2>4
  <1>2. CASE UNCHANGED vars
    BY <1>2
    DEF vars, passVars, boughtVars, subscriptionVars, TerminationInv, Left, GivenBack, ReturnedOf,
        Returned, AllGiven, Quantity
  <1>3. CASE Adobe
    <2>1. UNCHANGED <<status, pc, ctx>>
      BY <1>3, SettleGoods DEF passVars
    <2>2. DOMAIN newOrders = {} /\ DOMAIN switchOrders = {}
      BY DEF TerminationInv
    <2>3. CASE AdobeSettlesChange /\ UNCHANGED <<switchOrders, returns>>
      BY <2>1, <2>3
      DEF AdobeSettlesChange, boughtVars, subscriptionVars, TerminationInv, Left, GivenBack,
          ReturnedOf, Returned, AllGiven, Quantity
    <2>4. CASE AdobeSettlesReturnOrder /\ UNCHANGED <<newOrders, switchOrders>>
      <3>1. PICK p \in Purchases :
               /\ returns[p] = "OPEN"
               /\ \/ returns' = [returns EXCEPT ![p] = "COMPLETE"] /\ TakeBack(p)
                  \/ returns' = [returns EXCEPT ![p] = "none"] /\ UNCHANGED subscriptionVars
        BY <2>4 DEF AdobeSettlesReturnOrder
      <3>2. Returned' \subseteq Returned
            /\ \A q \in Purchases : returns[q] = "COMPLETE" => returns'[q] = "COMPLETE"
        BY <3>1 DEF Returned, GoodsInv
      <3>3. ASSUME NEW line \in DownsizeLines
            PROVE  /\ current'[line] = Left(line)'
                   /\ current[line] = 0 => current'[line] = 0
                   /\ ReturnedOf(line)' \subseteq Full(line)
        <4>1. current[line] = Left(line) /\ ReturnedOf(line) \subseteq Full(line)
          BY DEF TerminationInv
        <4>2. current'[line] = Left(line)' /\ (current[line] = 0 => current'[line] = 0)
          <5>1. CASE returns' = [returns EXCEPT ![p] = "COMPLETE"] /\ TakeBack(p)
            BY <3>1, <4>1, <5>1, TakenBack
          <5>2. CASE returns' = [returns EXCEPT ![p] = "none"] /\ UNCHANGED subscriptionVars
            BY <3>1, <4>1, <5>2, NotTakenBack
          <5>3. QED
            BY <3>1, <5>1, <5>2
        <4>3. ReturnedOf(line)' \subseteq ReturnedOf(line)
          BY <3>2 DEF ReturnedOf
        <4>4. QED
          BY <4>1, <4>2, <4>3
      <3>4. QED
        BY <2>1, <2>4, <3>2, <3>3 DEF TerminationInv, AllGiven
    <2>5. QED
      BY <1>3, <2>2, <2>3, <2>4
      DEF Adobe, AdobeSettlesPurchase, AdobeSettlesNewOrder, AdobeSettlesSwitchOrder
  <1>4. QED
    BY <1>1, <1>2, <1>3

\* What a pass that has seen every return finds returnable.
LEMMA SeenReturnable ==
    ASSUME NEW line, Returned \subseteq ctx.returnOrders
    PROVE  ReturnableOrders(line) = ReturnableOn(line, today)
  <1> DEFINE listed == {p \in Purchases :
                          /\ PurchaseLine[p] = line
                          /\ today <= LastReturnDay[p]
                          /\ p \in ctx.returnOrders \/ returns[p] # "COMPLETE"}
  <1>1. listed = ListedOn(line, today)
    BY DEF Returned, ListedOn
  <1>2. ReturnableOrders(line) = IF listed \cap RenewalPurchases = {} THEN listed
                                 ELSE {p \in listed : p >= Min(listed \cap RenewalPurchases)}
    BY DEF ReturnableOrders
  <1> HIDE DEF listed
  <1>3. QED
    BY <1>1, <1>2 DEF ReturnableOn

LEMMA TerminationKept ==
    ASSUME WholeLines, ReturnDaysInOrder, OneDeployment,
           ContextOK, CalendarInv, GoodsInv, TerminationInv, Termination
    PROVE  TerminationInv'
  <1>a. UNCHANGED <<newOrders, switchOrders, kind>> /\ TerminationSteps
    BY DEF Termination
  <1>b. pc # Idle => status = "Processing"
    BY DEF CalendarInv
  <1>1. CASE \/ Unreturned(SetupContext("SetupDueDate"))
             \/ Unreturned(SetupDueDate("ValidateRenewalWindow"))
             \/ Unreturned(ValidateRenewalWindow("GetReturnOrders"))
    <2>1. Aside
      BY <1>1, <1>a, <1>b
      DEF Unreturned, SetupContext, SetupDueDate, ValidateRenewalWindow, Continue, Goto, Decide,
          EndPass, Wait, switch_order_to_failed, subscriptionVars, Aside, Listing
    <2>2. QED
      BY <2>1, AsideKept
  <1>2. CASE GetReturnOrders("GetReturnableOrders", FALSE)
    <2>1. /\ UNCHANGED <<status, current, returns, newOrders, switchOrders>>
          /\ pc' = "GetReturnableOrders" /\ status = "Processing"
      BY <1>2, <1>a, <1>b DEF GetReturnOrders, Goto, subscriptionVars
    <2>2. ctx'.returnOrders = Returned
          /\ ctx'.pendingReturns = {p \in Returned : returns[p] = "OPEN"}
      BY <1>2 DEF GetReturnOrders, ContextOK, Fields
    <2>3. \A p \in ctx'.returnOrders \ ctx'.pendingReturns : returns'[p] = "COMPLETE"
      BY <2>1, <2>2 DEF Returned, GoodsInv, ReturnStatus
    <2>4. Returned' \subseteq ctx'.returnOrders
      BY <2>1, <2>2 DEF Returned
    <2>5. QED
      BY <2>1, <2>3, <2>4
      DEF TerminationInv, Left, GivenBack, ReturnedOf, Returned, AllGiven, Giving, Quantity
  <1>3. CASE GetTerminationReturns("Validate3YCCommitment")
    <2>1. UNCHANGED <<current, returns, newOrders, switchOrders>> /\ status = "Processing"
          /\ pc = "GetReturnableOrders"
      BY <1>3, <1>a, <1>b DEF GetTerminationReturns, subscriptionVars
    <2>2. CASE switch_order_to_failed
      <3>1. Aside
        BY <2>1, <2>2 DEF switch_order_to_failed, Decide, EndPass, Aside, Listing
      <3>2. QED
        BY <3>1, AsideKept
    <2>3. CASE ~switch_order_to_failed
      <3> DEFINE entries == [line \in DownsizeLines |->
                               IF Active(line) THEN ReturnableOrders(line) ELSE {}]
      <3>1. /\ \A line \in DownsizeLines : Active(line) => ReturnableInFull(line)
            /\ ctx' = [ctx EXCEPT !.returnable = entries]
            /\ pc' = "Validate3YCCommitment" /\ UNCHANGED status
        BY <1>3, <2>3 DEF GetTerminationReturns, Goto
      <3> HIDE DEF entries
      <3>2. ctx'.returnable = entries /\ ctx'.returnOrders = ctx.returnOrders
            /\ ctx'.pendingReturns = ctx.pendingReturns
        BY <3>1 DEF ContextOK, Fields
      <3>3. today \in Nat
        BY OrderPassAssumption DEF CalendarInv, PassTypeOK, Day
      <3>4. ASSUME NEW line \in DownsizeLines
            PROVE  \/ entries[line] = Full(line) /\ Quantity(Full(line)) = Downsize(line)
                   \/ entries[line] = {} /\ current[line] = 0
        <4>1. CASE Active(line)
          <5>1. ReturnableOrders(line) = ReturnableOn(line, today)
            BY <2>1, SeenReturnable DEF TerminationInv, Listing
          <5>2. today \in FullDays(line)
            BY <3>1, <3>3, <4>1, <5>1 DEF ReturnableInFull, FullDays
          <5>3. ReturnableOn(line, today) = Full(line)
            BY <5>2, FullIsUnique
          <5>4. entries[line] = Full(line)
            BY <4>1, <5>1, <5>3 DEF entries
          <5>5. QED
            BY <3>1, <4>1, <5>1, <5>3, <5>4 DEF ReturnableInFull
        <4>2. CASE ~Active(line)
          <5>1. current[line] \in Nat
            BY DEF DownsizeLines, GoodsInv, SubscriptionsTypeOK
          <5>2. QED
            BY <4>2, <5>1 DEF entries, Active
        <4>3. QED
          BY <4>1, <4>2
      <3>5. DOMAIN entries = DownsizeLines
        BY DEF entries
      <3>6. QED
        BY <2>1, <3>1, <3>2, <3>4, <3>5
        DEF TerminationInv, Left, GivenBack, ReturnedOf, Returned, AllGiven, Listing, Giving,
            Quantity
    <2>4. QED
      BY <2>2, <2>3
  <1>4. CASE Unreturned(Validate3YCCommitment("SubmitReturnOrders"))
    <2>1. UNCHANGED <<current, returns, newOrders, switchOrders>> /\ status' # "Completed"
          /\ pc = "Validate3YCCommitment"
          /\ \/ pc' = Idle
             \/ pc' = "SubmitReturnOrders" /\ UNCHANGED ctx
      BY <1>4, <1>a, <1>b
      DEF Unreturned, Validate3YCCommitment, Continue, Goto, Decide, EndPass,
          switch_order_to_failed, switch_order_to_query, subscriptionVars
    <2>2. QED
      BY <2>1
      DEF TerminationInv, Left, GivenBack, ReturnedOf, Returned, AllGiven, Listing, Giving,
          Quantity
  <1>5. CASE SubmitReturnOrders("CompleteOrder")
    <2>1. pc = "SubmitReturnOrders" /\ status = "Processing"
      BY <1>5, <1>b DEF SubmitReturnOrders, PlaceReturnOrder, PostReturnOrder, AwaitReturnOrders
    <2>2. Chosen = UNION {ctx.returnable[line] : line \in DownsizeLines}
      BY <2>1 DEF Chosen, OneDeployment, TerminationInv, Giving
    <2>3. ASSUME NEW p \in Purchases, PlaceReturnOrder(p)
          PROVE  TerminationInv'
      <3>1. PICK answer \in {"OPEN", "COMPLETE"} :
               /\ returns' = [returns EXCEPT ![p] = answer]
               /\ ctx' = [ctx EXCEPT !.returnOrders = @ \cup {p},
                                     !.pendingReturns = IF answer = "OPEN" THEN @ \cup {p} ELSE @]
               /\ IF answer = "COMPLETE" THEN TakeBack(p) ELSE UNCHANGED subscriptionVars
        BY <2>3 DEF PlaceReturnOrder, PostReturnOrder
      <3>2. UNCHANGED <<status, pc>> /\ p \in Chosen \ ctx.returnOrders
        BY <2>3 DEF PlaceReturnOrder, PostReturnOrder
      <3>3. ctx'.returnable = ctx.returnable
            /\ ctx'.returnOrders = ctx.returnOrders \cup {p}
            /\ ctx'.pendingReturns = IF answer = "OPEN" THEN ctx.pendingReturns \cup {p}
                                     ELSE ctx.pendingReturns
        BY <3>1 DEF ContextOK, Fields
      <3>4. p \notin Returned /\ returns[p] = "none"
        BY <2>1, <3>2 DEF TerminationInv, Listing, Returned
      <3>5. returns'[p] = answer /\ \A q \in Purchases \ {p} : returns'[q] = returns[q]
        BY <3>1 DEF GoodsInv
      <3>6. Returned' = Returned \cup {p}
        BY <3>4, <3>5 DEF Returned
      <3>7. PICK own \in DownsizeLines : p \in ctx.returnable[own]
        BY <2>2, <3>2
      <3>8. p \in Full(own) /\ PurchaseLine[p] = own
        BY <2>1, <3>7, FullIsWhole DEF TerminationInv, Giving
      <3>9. ASSUME NEW line \in DownsizeLines
            PROVE  /\ current'[line] = Left(line)'
                   /\ current[line] = 0 => current'[line] = 0
                   /\ ReturnedOf(line)' \subseteq Full(line)
        <4>1. current[line] = Left(line) /\ ReturnedOf(line) \subseteq Full(line)
          BY DEF TerminationInv
        <4>2. current'[line] = Left(line)' /\ (current[line] = 0 => current'[line] = 0)
          <5>1. CASE answer = "COMPLETE"
            BY <3>1, <3>4, <4>1, <5>1, TakenBack
          <5>2. CASE answer = "OPEN"
            BY <3>1, <3>4, <4>1, <5>2, NotTakenBack
          <5>3. QED
            BY <5>1, <5>2
        <4>3. ReturnedOf(line)' \subseteq ReturnedOf(line) \cup {q \in {p} : PurchaseLine[q] = line}
          BY <3>6 DEF ReturnedOf
        <4>4. QED
          BY <3>8, <4>1, <4>2, <4>3
      <3>10. Returned' \subseteq ctx'.returnOrders
        BY <2>1, <3>3, <3>6 DEF TerminationInv, Listing
      <3>11. \A q \in Purchases \cap ctx'.returnOrders :
                q \in ctx'.pendingReturns \/ returns'[q] = "COMPLETE"
        <4>1. ASSUME NEW q \in Purchases \cap ctx'.returnOrders, q \notin ctx'.pendingReturns
              PROVE  returns'[q] = "COMPLETE"
          <5>1. CASE q = p
            BY <3>1, <3>3, <3>5, <4>1, <5>1
          <5>2. CASE q # p
            <6>1. returns[q] = "COMPLETE"
              BY <2>1, <3>3, <4>1, <5>2 DEF TerminationInv, Listing
            <6>2. returns'[q] = returns[q]
              BY <3>5, <5>2
            <6>3. QED
              BY <6>1, <6>2
          <5>3. QED
            BY <5>1, <5>2
        <4>2. QED
          BY <4>1
      <3>12. QED
        BY <1>a, <2>1, <3>2, <3>3, <3>9, <3>10, <3>11 DEF TerminationInv, Giving, Listing
    <2>4. CASE AwaitReturnOrders("CompleteOrder")
      <3>1. UNCHANGED <<status, current, returns, newOrders, switchOrders>>
        BY <1>a, <2>4 DEF AwaitReturnOrders, Wait, EndPass, Continue, subscriptionVars
      <3>2. CASE pc' = Idle
        <4>1. Aside
          BY <2>1, <3>1, <3>2 DEF Aside, Listing
        <4>2. QED
          BY <4>1, AsideKept
      <3>3. CASE pc' = "CompleteOrder" /\ Chosen \subseteq ctx.returnOrders \ ctx.pendingReturns
        <4>1. ASSUME NEW line \in DownsizeLines PROVE current[line] = 0
          <5>1. current[line] = Left(line) /\ ReturnedOf(line) \subseteq Full(line)
            BY DEF TerminationInv
          <5>2. CASE ctx.returnable[line] = Full(line) /\ Quantity(Full(line)) = Downsize(line)
            <6>1. Full(line) \subseteq Chosen
              BY <2>2, <5>2
            <6>2. \A p \in Full(line) : returns[p] = "COMPLETE"
              BY <2>1, <3>3, <6>1, FullIsWhole DEF TerminationInv, Listing
            <6>3. Full(line) \subseteq GivenBack(line)
              BY <6>2, FullIsWhole DEF GivenBack
            <6>4. GivenBack(line) \subseteq Full(line)
              BY <5>1 DEF GivenBack, ReturnedOf, Returned
            <6>5. Quantity(GivenBack(line)) = Downsize(line) /\ Downsize(line) \in Nat
              BY <5>2, <6>3, <6>4, GivenBackSums
            <6>6. FirstCurrent[line] <= Quantity(GivenBack(line))
              BY <6>5 DEF WholeLines
            <6>7. QED
              BY <5>1, <6>6 DEF Left
          <5>3. QED
            BY <2>1, <5>2 DEF TerminationInv, Giving
        <4>2. AllGiven'
          BY <3>1, <4>1 DEF AllGiven
        <4>3. QED
          BY <2>1, <3>1, <3>3, <4>2
          DEF TerminationInv, Left, GivenBack, ReturnedOf, Returned, Listing, Giving, Quantity
      <3>4. QED
        BY <2>4, <3>2, <3>3 DEF AwaitReturnOrders, Wait, EndPass, Continue, Goto
    <2>5. QED
      BY <1>5, <2>3, <2>4 DEF SubmitReturnOrders
  <1>6. CASE Unreturned(CompleteOrder)
    <2>1. UNCHANGED <<current, returns, newOrders, switchOrders>> /\ pc = "CompleteOrder"
          /\ pc' = Idle
      BY <1>6, <1>a DEF Unreturned, CompleteOrder, Decide, EndPass, subscriptionVars
    <2>2. QED
      BY <2>1
      DEF TerminationInv, Left, GivenBack, ReturnedOf, Returned, AllGiven, Listing, Giving,
          Quantity
  <1>7. QED
    BY <1>a, <1>1, <1>2, <1>3, <1>4, <1>5, <1>6 DEF TerminationSteps

\* A termination of whole lines, none of them bought for another deployment,
\* is completed only when every licence of every active line has come back,
\* whatever was bought when, over however many passes, refused returns and
\* late renewals between them: the purchases a pass may choose from only
\* become fewer, so whenever they add up to the line they are the same ones
\* (ReturnableOrders, GetTerminationReturns, SubmitReturnOrders).
THEOREM TerminationIsReturned ==
    ASSUME WholeLines, ReturnDaysInOrder, OneDeployment
    PROVE  Spec => []TerminatedIsReturned
  <1> DEFINE Mine == kind = "termination" => TerminationInv
  <1>1. Init => Mine
    <2> SUFFICES ASSUME Init PROVE TerminationInv
      OBVIOUS
    <2>1. /\ newOrders = <<>> /\ switchOrders = <<>> /\ current = FirstCurrent
          /\ pc = Idle /\ status = "Processing" /\ returns = [p \in Purchases |-> "none"]
      BY DEF Init, PassInit, PurchaseInit, SubscriptionsInit, NewOrderInit, SwitchInit, ReturnInit
    <2>2. Returned = {} /\ \A line : GivenBack(line) = {} /\ ReturnedOf(line) = {}
      BY <2>1 DEF Returned, ReturnedOf, GivenBack
    <2>3. Quantity({}) = 0
      BY SumEmpty DEF Quantity
    <2>4. ASSUME NEW line \in DownsizeLines PROVE current[line] = Left(line)
      <3>1. FirstCurrent[line] \in Nat
        BY AdobeSubscriptionsAssumption DEF DownsizeLines
      <3>2. Quantity(GivenBack(line)) = 0
        <4>1. GivenBack(line) = {}
          BY <2>2
        <4>2. QED
          BY <2>3, <4>1
      <3>3. QED
        BY <2>1, <3>1, <3>2 DEF Left
    <2>5. QED
      BY <2>1, <2>2, <2>4 DEF TerminationInv, Listing, Giving
  <1>2. ContextOK /\ CalendarInv /\ GoodsInv /\ Mine /\ [Next]_vars => Mine'
    <2> SUFFICES ASSUME ContextOK, CalendarInv, GoodsInv, Mine, [Next]_vars,
                        kind' = "termination"
                 PROVE  TerminationInv'
      OBVIOUS
    <2>1. UNCHANGED kind
      BY DEF Next, Step, Platform, Adobe, Purchase, ResellerChange, MidTermSwitch,
         Termination, Configuration, vars
    <2>2. kind = "termination" /\ TerminationInv
      BY <2>1
    <2>3. QED
      BY <2>2, OutsideTermination, TerminationKept
      DEF Next, Step, Purchase, ResellerChange, MidTermSwitch, Configuration
  <1>3. GoodsInv /\ Mine => TerminatedIsReturned
    <2> SUFFICES ASSUME TerminationInv, status = "Completed", NEW line \in DownsizeLines,
                        FirstCurrent[line] > 0
                 PROVE  /\ Quantity({p \in ReturnedOf(line) : returns[p] = "COMPLETE"})
                              = Downsize(line)
                        /\ current[line] = 0
      BY DEF TerminatedIsReturned
    <2>1. current[line] = 0 /\ current[line] = Left(line) /\ ReturnedOf(line) \subseteq Full(line)
      BY DEF TerminationInv, AllGiven
    <2>2. GivenBack(line) = {p \in ReturnedOf(line) : returns[p] = "COMPLETE"}
      BY DEF GivenBack, ReturnedOf, Returned
    <2>3. FirstCurrent[line] \in Nat /\ FirstCurrent[line] = Downsize(line)
      BY AdobeSubscriptionsAssumption DEF WholeLines, DownsizeLines
    <2>4. Downsize(line) <= Quantity(GivenBack(line))
      BY <2>1, <2>3, GivenBackSums DEF Left
    <2>5. GivenBack(line) \in SUBSET Full(line) /\ Full(line) \in SUBSET Purchases
      BY <2>1, <2>2, FullIsWhole
    <2>6. CASE Full(line) = {}
      <3>1. Quantity(GivenBack(line)) = 0
        BY <2>5, <2>6, SumEmpty DEF Quantity
      <3>2. QED
        BY <2>3, <2>4, <3>1
    <2>7. CASE Quantity(Full(line)) = Downsize(line)
      BY <2>1, <2>2, <2>3, <2>4, <2>5, <2>7, PurchaseSums
    <2>8. QED
      BY <2>6, <2>7, FullIsWhole
  <1>4. QED
    BY <1>1, <1>2, <1>3, ContextHolds, CalendarHolds, GoodsHold, PTL DEF Spec
===============================================================================
