------------------------ MODULE ChangePromise_proofs ------------------------
(***************************************************************************)
(* ChangeOrder implements OrderPromise, for every order, customer and      *)
(* agreement, as long as Adobe recognises a repeated order, offers one     *)
(* price, moves what renews along with what is held, and refuses no        *)
(* renewal update.  The argument: until an order is on record every pass   *)
(* previews the same order, so that placing it again is recognised.  From  *)
(* there: what a completed order has delivered, how much is bought, and    *)
(* that the quantities that renew stay above the committed minimum.        *)
(***************************************************************************)
EXTENDS ChangeOrder_proofs

USE DEF Idle, adobeVars, subscriptionVars

\* What KeepsPromise owes to Adobe.
AdobeCooperates ==
    /\ DeduplicatesOrders
    /\ RenewalFollows
    /\ \A offer1, offer2 \in Offers : offer1 = offer2
    /\ PatchErrors = {}

Offer == CHOOSE offer \in Offers : TRUE

RollingBack == {"Rollback", "RolledBack"}
Previewed == {"UpdatePrices", "SubmitNewOrder"}

\* Without a refused update nothing is rolled back, and no purchase returned.
NoErrorInv ==
    /\ ctx.error = "none"
    /\ pc \notin RollingBack
    /\ \A id \in DOMAIN newOrders :
          newOrders[id].returned = "none" /\ newOrders[id].status # "CANCELLED"

\* Only purchases of downsized lines are given back.
ReturnsInv ==
    /\ \A p \in Returned : PurchaseLine[p] \in DownsizeLines
    /\ \A line \in DOMAIN ctx.returnable : \A p \in ctx.returnable[line] : PurchaseLine[p] = line

\* There is one order at most; until it is on record a preview is equal to it,
\* and a pass behind SubmitNewOrder has it on record.
OneOrderInv ==
    /\ Len(newOrders) \in {0, 1}
    /\ newOrders # <<>> => PurchaseLines # {}
    /\ newOrders # <<>> /\ vendorId = 0 => newOrders[1].payload = PreviewOf(Offer)
    /\ pc \in Previewed /\ PurchaseLines # {} /\ ctx.newOrderId = 0 =>
          ctx.preview = PreviewOf(Offer)
    /\ pc \in AfterPurchase \/ status = "Completed" => newOrders = <<>> \/ vendorId # 0

PromiseInv == PurchaseInv /\ NoErrorInv /\ ReturnsInv /\ OneOrderInv

-----------------------------------------------------------------------------
(* Previews.                                                                *)

\* Every preview is priced with the one offer.
LEMMA OfferIsOne ==
    ASSUME AdobeCooperates, NEW offer \in Offers
    PROVE  offer = Offer
  <1>1. Offer \in Offers
    BY NewOrderAssumption, Zenon DEF Offer
  <1>2. QED
    BY <1>1 DEF AdobeCooperates

\* No preview is a payload: it says what is ordered.
LEMMA PreviewOrNone ==
    ASSUME SubscriptionsTypeOK, PreviewOf(Offer) # NoPreview
    PROVE  PreviewOf(Offer) \in Payload
  <1>1. Offer \in Offers
    BY NewOrderAssumption, Zenon DEF Offer
  <1>2. QED
    BY <1>1, PurchaseQuantityType DEF PreviewOf, Payload

\* A payload is a preview that buys something.
LEMMA PayloadIsPreview ==
    ASSUME NEW payload \in Payload
    PROVE  payload # NoPreview
  <1>1. DOMAIN payload = {"quantity", "offer"} /\ DOMAIN NoPreview = {"offer"}
    BY DEF Payload, NoPreview
  <1>2. QED
    BY <1>1

\* A preview depends on what the lines still have to buy, and on nothing else.
LEMMA SameQuantitiesSamePreview ==
    ASSUME \A line \in Lines : PurchaseQuantity(line)' = PurchaseQuantity(line)
    PROVE  PreviewOf(Offer)' = PreviewOf(Offer)
  BY DEF PreviewOf

\* What is bought adds to what is held and to what renews alike, so that it
\* does not change what a line still has to buy; nor does what is given back
\* of other lines.
LEMMA ProcessKeepsPreview ==
    ASSUME AdobeCooperates, SubscriptionsTypeOK, NEW change \in [Lines -> Int], Process(change),
           \A line \in PurchaseLines : change[line] >= 0
    PROVE  PreviewOf(Offer)' = PreviewOf(Offer)
  <1>1. ASSUME NEW line \in Lines
        PROVE  PurchaseQuantity(line)' = PurchaseQuantity(line)
    <2>1. CASE line \in UpsizeLines
      <3>1. current[line] \in Nat /\ renewal[line] \in Nat /\ change[line] \in Nat
        BY <2>1 DEF SubscriptionsTypeOK, PurchaseLines
      <3>2. current'[line] = current[line] + change[line]
            /\ renewal'[line] = renewal[line] + change[line]
        BY <3>1 DEF Process, Moved, AdobeCooperates
      <3>3. NewQuantity[line] \in Nat /\ OldQuantity[line] \in Nat
        BY AdobeSubscriptionsAssumption
      <3>4. QED
        BY <2>1, <3>1, <3>2, <3>3 DEF PurchaseQuantity, UpsizeLines, DownsizeLines, NewLines
    <2>2. CASE line \notin UpsizeLines
      BY <2>2 DEF PurchaseQuantity, UpsizeLines, DownsizeLines, NewLines
    <2>3. QED
      BY <2>1, <2>2
  <1>2. QED
    BY <1>1, SameQuantitiesSamePreview

-----------------------------------------------------------------------------
(* Steps that have nothing to do with buying.                               *)

\* They keep what the pass previewed and chose to give back, or forget it.
Plain ==
    /\ UNCHANGED <<newOrders, vendorId, returns>>
    /\ ctx'.error = "none" /\ pc' \notin RollingBack
    /\ ctx'.returnable \in {ctx.returnable, NoEntry}
    /\ pc' \in Previewed =>
          pc \in Previewed /\ ctx'.preview = ctx.preview /\ ctx'.newOrderId = ctx.newOrderId
    /\ pc' \in AfterPurchase \/ status' = "Completed" =>
          pc \in AfterPurchase \/ status = "Completed"
    /\ UNCHANGED subscriptionVars \/ (pc \in AfterPurchase /\ pc' \in AfterPurchase)

\* Such a step keeps the invariant.
LEMMA PlainKept ==
    ASSUME PromiseInv, PurchaseInv', Plain
    PROVE  PromiseInv'
  <1>1. NoErrorInv'
    BY DEF PromiseInv, NoErrorInv, Plain
  <1>2. ReturnsInv'
    <2>1. \A line \in DOMAIN ctx'.returnable :
             \A p \in ctx'.returnable[line] : PurchaseLine[p] = line
      BY DEF PromiseInv, ReturnsInv, Plain, NoEntry
    <2>2. QED
      BY <2>1 DEF PromiseInv, ReturnsInv, Plain, Returned, DownsizeLines
  <1>3. OneOrderInv'
    <2>1. CASE UNCHANGED subscriptionVars
      <3>1. PreviewOf(Offer)' = PreviewOf(Offer)
        BY <2>1, SameQuantitiesSamePreview DEF PurchaseQuantity
      <3>2. QED
        BY <3>1 DEF PromiseInv, OneOrderInv, Plain, PurchaseLines, UpsizeLines, DownsizeLines,
           NewLines
    <2>2. CASE pc \in AfterPurchase /\ pc' \in AfterPurchase
      BY <2>2 DEF PromiseInv, OneOrderInv, Plain, PurchaseLines, UpsizeLines, DownsizeLines,
         NewLines, AfterPurchase, Previewed
    <2>3. QED
      BY <2>1, <2>2 DEF Plain
  <1>4. QED
    BY <1>1, <1>2, <1>3 DEF PromiseInv

\* A pass that ends, decided or not.
LEMMA EndIsPlain ==
    ASSUME PromiseInv, Wait \/ \E outcome \in {"Failed", "Querying"} : Decide(outcome),
           UNCHANGED <<adobeVars, subscribed>>
    PROVE  Plain
  BY DEF Wait, Decide, EndPass, EmptyContext, Plain, RollingBack, Previewed, AfterPurchase

\* A step that goes on, in front of the purchase or behind it.
LEMMA ContinueIsPlain ==
    ASSUME PromiseInv, NEW next, Continue(next), UNCHANGED <<adobeVars, subscribed>>,
           next \notin RollingBack \cup Previewed, next \in AfterPurchase => pc \in AfterPurchase
    PROVE  Plain
  BY DEF Continue, Goto, Plain, PromiseInv, NoErrorInv

\* Dispatch, Abort, Resume and NextDay are plain.
LEMMA PlatformIsPlain ==
    ASSUME PromiseInv, Platform
    PROVE  Plain
  <1>1. CASE Abort
    BY <1>1, EndIsPlain DEF Platform, Abort
  <1>2. CASE Dispatch \/ Resume \/ NextDay
    BY <1>2 DEF Platform, Dispatch, Resume, NextDay, Goto, Plain, PromiseInv, NoErrorInv,
       RollingBack, Previewed, AfterPurchase
  <1>3. QED
    BY <1>1, <1>2 DEF Platform

\* So are the checks in front of the pipeline.
LEMMA PrepareIsPlain ==
    ASSUME PromiseInv, Prepare
    PROVE  Plain
  <1> USE DEF switch_order_to_failed, switch_order_to_query, RollingBack, Previewed,
              AfterPurchase
  <1>1. UNCHANGED <<adobeVars, subscribed>>
    BY DEF Prepare
  <1>2. CASE SetupContext("SetupDueDate")
    BY <1>1, <1>2, EndIsPlain DEF SetupContext, EmptyContext, Goto, Plain
  <1>3. CASE SetupDueDate("ValidateDuplicateLines")
    <2>1. CASE switch_order_to_failed
      BY <1>1, <2>1, EndIsPlain
    <2>2. CASE ~switch_order_to_failed
      BY <1>1, <1>3, <2>2 DEF SetupDueDate, Goto, Plain, PromiseInv, NoErrorInv
    <2>3. QED
      BY <2>1, <2>2
  <1>4. CASE ValidateDuplicateLines("ValidateRenewalWindow")
    BY <1>1, <1>4, EndIsPlain, ContinueIsPlain DEF ValidateDuplicateLines
  <1>5. CASE ValidateRenewalWindow("ValidateSkuAvailability")
    BY <1>1, <1>5, EndIsPlain, ContinueIsPlain DEF ValidateRenewalWindow
  <1>6. CASE ValidateSkuAvailability("GetReturnOrders")
    BY <1>1, <1>6, EndIsPlain, ContinueIsPlain DEF ValidateSkuAvailability
  <1>7. CASE Validate3YCCommitment("GetPreviewOrder")
    BY <1>1, <1>7, EndIsPlain, ContinueIsPlain DEF Validate3YCCommitment
  <1>8. QED
    BY <1>2, <1>3, <1>4, <1>5, <1>6, <1>7 DEF Prepare

\* So are the renewal updates: none is refused, none is rolled back.
LEMMA UpdateIsPlain ==
    ASSUME AdobeCooperates, PromiseInv, Update
    PROVE  Plain
  <1>0. ctx \in Context
    BY DEF PromiseInv, PurchaseInv, TypeInv, StateTypeOK
  <1>1. ASSUME NEW step \in {"UpdateRenewalQuantities", "UpdateRenewalQuantitiesDownsizes"},
               NEW line \in Lines, UpdateLine(step, line)
        PROVE  Plain
    <2>1. ctx'.error = ctx.error /\ ctx'.returnable = ctx.returnable
      BY <1>0, <1>1 DEF UpdateLine, AdobeCooperates, Context
    <2>2. QED
      BY <1>1, <2>1 DEF UpdateLine, Plain, PromiseInv, NoErrorInv, RollingBack, Previewed,
         AfterPurchase
  <1>2. ASSUME NEW step \in {"UpdateRenewalQuantities", "UpdateRenewalQuantitiesDownsizes"},
               NEW next \in {"SubmitReturnOrders", "CreateOrUpdateAssets"},
               LinesUpdated(step, next)
        PROVE  Plain
    <2>1. ctx'.error = ctx.error /\ ctx'.returnable = ctx.returnable
      BY <1>0, <1>2 DEF LinesUpdated, Context
    <2>2. QED
      BY <1>2, <2>1 DEF LinesUpdated, Goto, Plain, PromiseInv, NoErrorInv, RollingBack,
         Previewed, AfterPurchase
  <1>3. ~(RestoreLine \/ ReturnNewOrder \/ RollbackEnds \/ RolledBack)
    BY DEF RestoreLine, ReturnNewOrder, RollbackEnds, RolledBack, PromiseInv, NoErrorInv,
       RollingBack
  <1>4. QED
    BY <1>1, <1>2, <1>3 DEF Update, UpdateRenewalQuantities

\* So are the steps that publish what was bought and complete the order.
LEMMA PublishIsPlain ==
    ASSUME PromiseInv, Publish
    PROVE  Plain
  <1> USE DEF RollingBack, Previewed, AfterPurchase
  <1>1. CASE CreateOrUpdateAssets("CreateOrUpdateSubscriptions")
    BY <1>1 DEF CreateOrUpdateAssets, Wait, EndPass, EmptyContext, Continue, Goto, Plain,
       PromiseInv, NoErrorInv
  <1>2. CASE CreateOrUpdateSubscriptions("CompleteOrder")
    BY <1>2 DEF CreateOrUpdateSubscriptions, Continue, Goto, passVars, Plain, PromiseInv,
       NoErrorInv
  <1>3. CASE CompleteOrder /\ UNCHANGED <<adobeVars, subscribed>>
    BY <1>3 DEF CompleteOrder, Decide, EndPass, EmptyContext, Plain
  <1>4. QED
    BY <1>1, <1>2, <1>3 DEF Publish

-----------------------------------------------------------------------------
(* Giving back.                                                             *)

\* What is chosen to be given back is among the candidates.
LEMMA CombinationOfCandidates ==
    ASSUME NEW candidates, NEW quantity, NEW p \in Combination(candidates, quantity)
    PROVE  p \in candidates
  BY DEF Combination

\* What is given back is of downsized lines, of which nothing is bought.
LEMMA TakeBackKeepsPreview ==
    ASSUME AdobeCooperates, SubscriptionsTypeOK, NEW p \in Purchases,
           PurchaseLine[p] \in DownsizeLines, TakeBack(p)
    PROVE  PreviewOf(Offer)' = PreviewOf(Offer)
  <1> DEFINE change == [line \in Lines |->
                          IF line = PurchaseLine[p] THEN -PurchasedQuantity[p] ELSE 0]
  <1>1. change \in [Lines -> Int]
    BY ReturnAssumption
  <1>2. \A line \in PurchaseLines : change[line] >= 0
    BY DEF PurchaseLines, UpsizeLines, NewLines
  <1>3. Process(change)
    BY DEF TakeBack
  <1> HIDE DEF change
  <1>4. QED
    BY <1>1, <1>2, <1>3, ProcessKeepsPreview

\* A RETURN order is posted, and the pass goes on with it in mind or is cut
\* off before it saved the order.
Posted(p) ==
    /\ pc = "SubmitReturnOrders" /\ p \in Chosen \ ctx.returnOrders
    /\ UNCHANGED <<status, vendorId>>
    /\ \E answer \in {"OPEN", "COMPLETE"} :
          /\ returns' = [returns EXCEPT ![p] = answer]
          /\ IF answer = "COMPLETE" THEN TakeBack(p) ELSE UNCHANGED subscriptionVars
    /\ \/ /\ pc' = pc
          /\ ctx'.error = ctx.error /\ ctx'.returnable = ctx.returnable
          /\ ctx'.done = ctx.done /\ ctx'.newOrder = ctx.newOrder
       \/ pc' = Idle /\ ctx' = EmptyContext

\* That is what the two steps do.
LEMMA ReturnIsPosted ==
    ASSUME ctx \in Context, NEW p \in Purchases, PlaceReturnOrder(p) \/ LoseReturnOrder(p)
    PROVE  Posted(p)
  <1>1. CASE PlaceReturnOrder(p)
    <2>1. PICK answer \in {"OPEN", "COMPLETE"} :
            /\ PostReturnOrder(p, answer)
            /\ ctx' = [ctx EXCEPT !.returnOrders = @ \cup {p},
                         !.pendingReturns = IF answer = "OPEN" THEN @ \cup {p} ELSE @]
      BY <1>1 DEF PlaceReturnOrder
    <2>2. /\ ctx'.error = ctx.error /\ ctx'.returnable = ctx.returnable
          /\ ctx'.done = ctx.done /\ ctx'.newOrder = ctx.newOrder
      BY <2>1 DEF Context
    <2>3. QED
      BY <1>1, <2>1, <2>2 DEF PlaceReturnOrder, PostReturnOrder, Posted
  <1>2. CASE LoseReturnOrder(p)
    BY <1>2 DEF LoseReturnOrder, PostReturnOrder, Posted, Wait, EndPass
  <1>3. QED
    BY <1>1, <1>2

\* The steps about return orders keep the invariant.
LEMMA GiveBackKept ==
    ASSUME AdobeCooperates, PromiseInv, PurchaseInv', GiveBack
    PROVE  PromiseInv'
  <1> USE DEF RollingBack, Previewed, AfterPurchase
  <1>0. ctx \in Context /\ SubscriptionsTypeOK /\ UNCHANGED <<newOrders, subscribed>>
    BY DEF PromiseInv, PurchaseInv, TypeInv, StateTypeOK, GiveBack
  <1>1. CASE GetReturnOrders("GetReturnableOrders", RolledBackOrders # {})
    <2>1. ctx'.error = ctx.error /\ ctx'.returnable = ctx.returnable
      BY <1>0, <1>1 DEF GetReturnOrders, Context
    <2>2. Plain
      BY <1>0, <1>1, <2>1 DEF GetReturnOrders, Goto, Plain, PromiseInv, NoErrorInv
    <2>3. QED
      BY <2>2, PlainKept
  <1>2. CASE GetReturnableOrders("ValidateReturnableOrders")
    <2>1. ctx'.error = ctx.error
      BY <1>0, <1>2 DEF GetReturnableOrders, Context
    <2>2. \A line \in DOMAIN ctx'.returnable :
             \A p \in ctx'.returnable[line] : PurchaseLine[p] = line
      <3>1. CASE ctx' = ctx
        BY <3>1 DEF PromiseInv, ReturnsInv
      <3>2. CASE ctx' # ctx
        <4> DEFINE lines == {l \in DownsizeLines : ReturnableOrders(l) # {}}
        <4>1. ctx'.returnable = [l \in lines |-> Combination(ReturnableOrders(l), Downsize(l))]
          BY <1>0, <1>2, <3>2 DEF GetReturnableOrders, Context
        <4>2. \A l : \A p \in ReturnableOrders(l) : PurchaseLine[p] = l
          BY DEF ReturnableOrders
        <4>3. QED
          BY <4>1, <4>2, CombinationOfCandidates
      <3>3. QED
        BY <3>1, <3>2
    <2>3. NoErrorInv' /\ ReturnsInv'
      BY <1>0, <1>2, <2>1, <2>2
         DEF GetReturnableOrders, Goto, PromiseInv, NoErrorInv, ReturnsInv, Returned,
             DownsizeLines
    <2>4. PreviewOf(Offer)' = PreviewOf(Offer)
      BY <1>2, SameQuantitiesSamePreview DEF GetReturnableOrders, PurchaseQuantity
    <2>5. OneOrderInv'
      BY <1>0, <1>2, <2>4
         DEF GetReturnableOrders, Goto, PromiseInv, OneOrderInv, PurchaseLines, UpsizeLines,
             DownsizeLines, NewLines
    <2>6. QED
      BY <2>3, <2>5 DEF PromiseInv
  <1>3. CASE ValidateReturnableOrders("Validate3YCCommitment")
    BY <1>0, <1>3, EndIsPlain, ContinueIsPlain, PlainKept
       DEF ValidateReturnableOrders, switch_order_to_failed
  <1>4. ASSUME NEW p \in Purchases, PlaceReturnOrder(p) \/ LoseReturnOrder(p)
        PROVE  PromiseInv'
    <2>0. Posted(p)
      BY <1>0, <1>4, ReturnIsPosted
    <2>1. ctx'.error = "none" /\ ctx'.returnable \in {ctx.returnable, NoEntry}
      BY <2>0 DEF Posted, PromiseInv, NoErrorInv, EmptyContext
    <2>2. PurchaseLine[p] \in DownsizeLines
      <3>1. PICK line \in DOMAIN ctx.returnable : p \in ctx.returnable[line]
        BY <2>0 DEF Posted, Chosen
      <3>2. line \in DownsizeLines
        BY <1>0, <3>1 DEF Context
      <3>3. QED
        BY <3>1, <3>2 DEF PromiseInv, ReturnsInv
    <2>3. PreviewOf(Offer)' = PreviewOf(Offer)
      <3>1. CASE TakeBack(p)
        BY <1>0, <2>2, <3>1, TakeBackKeepsPreview
      <3>2. CASE UNCHANGED subscriptionVars
        BY <3>2, SameQuantitiesSamePreview DEF PurchaseQuantity
      <3>3. QED
        BY <2>0, <3>1, <3>2 DEF Posted
    <2>4. NoErrorInv'
      BY <1>0, <2>0, <2>1 DEF Posted, PromiseInv, NoErrorInv
    <2>5. ReturnsInv'
      <3>1. \A q \in Purchases : q # p => returns'[q] = returns[q]
        BY <2>0 DEF Posted, PromiseInv, PurchaseInv, TypeInv, StateTypeOK, ReturnTypeOK
      <3>2. QED
        BY <2>1, <2>2, <3>1 DEF PromiseInv, ReturnsInv, Returned, DownsizeLines, NoEntry
    <2>6. OneOrderInv'
      BY <1>0, <2>0, <2>3
         DEF Posted, PromiseInv, OneOrderInv, PurchaseLines, UpsizeLines,
             DownsizeLines, NewLines
    <2>7. QED
      BY <2>4, <2>5, <2>6 DEF PromiseInv
  <1>5. CASE AwaitReturnOrders("UpdateRenewalQuantitiesDownsizes")
    <2>1. CASE Wait
      BY <1>0, <1>5, <2>1, EndIsPlain, PlainKept DEF AwaitReturnOrders
    <2>2. CASE Continue("UpdateRenewalQuantitiesDownsizes")
      BY <1>0, <1>5, <2>2, ContinueIsPlain, PlainKept DEF AwaitReturnOrders
    <2>3. QED
      BY <1>5, <2>1, <2>2 DEF AwaitReturnOrders
  <1>6. QED
    BY <1>1, <1>2, <1>3, <1>4, <1>5 DEF GiveBack, SubmitReturnOrders

-----------------------------------------------------------------------------
(* Adobe.                                                                   *)

\* Adobe completes or refuses the one order, or settles returns.
LEMMA AdobeKept ==
    ASSUME AdobeCooperates, PromiseInv, PurchaseInv', Adobe
    PROVE  PromiseInv'
  <1>0. /\ SubscriptionsTypeOK /\ newOrders \in Seq(NewOrder)
        /\ returns \in [Purchases -> ReturnStatus]
    BY DEF PromiseInv, PurchaseInv, TypeInv, StateTypeOK, NewOrderTypeOK, ReturnTypeOK
  <1>1. UNCHANGED passVars
    BY DEF Adobe, AdobeSettlesNewOrder, AdobeSettlesReturnOrder
  <1>2. ASSUME NEW id \in DOMAIN newOrders,
               AdobeCompletesNewOrder(id) \/ AdobeFailsNewOrder(id), UNCHANGED returns
        PROVE  PromiseInv'
    <2>0. newOrders[id] \in NewOrder
      BY <1>0, <1>2, LenProperties
    <2>1. newOrders[id] \in NewOrder /\ newOrders[id].payload.quantity \in [Lines -> Nat]
      BY <2>0 DEF NewOrder, Payload
    <2>2. PICK s \in {"COMPLETE", "FAILED"} : newOrders' = [newOrders EXCEPT ![id].status = s]
      BY <1>2 DEF AdobeCompletesNewOrder, AdobeFailsNewOrder
    <2>3. /\ Len(newOrders') = Len(newOrders) /\ DOMAIN newOrders' = DOMAIN newOrders
          /\ \A j \in DOMAIN newOrders :
                /\ newOrders'[j].payload = newOrders[j].payload
                /\ newOrders'[j].returned = newOrders[j].returned
                /\ newOrders'[j].status \in {newOrders[j].status, s}
      BY <1>0, <2>1, <2>2 DEF NewOrder
    <2>4. PreviewOf(Offer)' = PreviewOf(Offer)
      <3>1. CASE AdobeCompletesNewOrder(id)
        BY <1>0, <2>1, <3>1, ProcessKeepsPreview DEF AdobeCompletesNewOrder, PurchaseLines,
           UpsizeLines, NewLines
      <3>2. CASE AdobeFailsNewOrder(id)
        BY <3>2, SameQuantitiesSamePreview DEF AdobeFailsNewOrder, PurchaseQuantity
      <3>3. QED
        BY <1>2, <3>1, <3>2
    <2>5. NoErrorInv' /\ ReturnsInv'
      BY <1>1, <1>2, <2>3 DEF passVars, PromiseInv, NoErrorInv, ReturnsInv, Returned,
         DownsizeLines
    <2>6. OneOrderInv'
      <3>1. newOrders' = <<>> <=> newOrders = <<>>
        BY <1>0, <2>3, EmptySeq, LenProperties
      <3>2. newOrders # <<>> /\ Len(newOrders) \in {0, 1} => 1 \in DOMAIN newOrders
        BY <1>0, LenProperties, EmptySeq
      <3>3. QED
        BY <1>1, <2>3, <2>4, <3>1, <3>2
           DEF passVars, PromiseInv, OneOrderInv, PurchaseLines, UpsizeLines, DownsizeLines,
               NewLines
    <2>7. QED
      BY <2>5, <2>6 DEF PromiseInv
  <1>3. ASSUME NEW id \in DOMAIN newOrders
        PROVE  ~AdobeCancelsReturnedOrder(id)
    BY DEF AdobeCancelsReturnedOrder, PromiseInv, NoErrorInv
  <1>4. ASSUME NEW p \in Purchases, returns[p] = "OPEN", UNCHANGED newOrders,
               \/ returns' = [returns EXCEPT ![p] = "COMPLETE"] /\ TakeBack(p)
               \/ returns' = [returns EXCEPT ![p] = "none"] /\ UNCHANGED subscriptionVars
        PROVE  PromiseInv'
    <2>1. p \in Returned /\ Returned' \subseteq Returned
      BY <1>0, <1>4 DEF Returned
    <2>2. PreviewOf(Offer)' = PreviewOf(Offer)
      <3>1. CASE TakeBack(p)
        BY <1>0, <2>1, <3>1, TakeBackKeepsPreview DEF PromiseInv, ReturnsInv
      <3>2. CASE UNCHANGED subscriptionVars
        BY <3>2, SameQuantitiesSamePreview DEF PurchaseQuantity
      <3>3. QED
        BY <1>4, <3>1, <3>2
    <2>3. QED
      BY <1>1, <1>4, <2>1, <2>2
         DEF passVars, PromiseInv, NoErrorInv, ReturnsInv, OneOrderInv, PurchaseLines,
             UpsizeLines, DownsizeLines, NewLines
  <1>5. QED
    BY <1>2, <1>3, <1>4 DEF Adobe, AdobeSettlesNewOrder, AdobeSettlesReturnOrder

-----------------------------------------------------------------------------
(* Buying.                                                                  *)

\* With an order on Adobe's list, a pass that knows of none has previewed it.
LEMMA PreviewIsOrder ==
    ASSUME PromiseInv, pc \in Previewed, PurchaseLines # {}, ctx.newOrderId = 0
    PROVE  /\ vendorId = 0
           /\ ctx.preview = PreviewOf(Offer)
           /\ newOrders # <<>> =>
                 /\ newOrders = <<newOrders[1]>> /\ newOrders[1].payload = ctx.preview
                 /\ ctx.preview # NoPreview
  <1>1. vendorId = 0
    BY DEF PromiseInv, PurchaseInv, RecordRead, Previewed, Unread
  <1>2. newOrders # <<>> => 1 \in DOMAIN newOrders /\ newOrders[1] \in NewOrder
    BY LenProperties, EmptySeq
       DEF PromiseInv, OneOrderInv, PurchaseInv, TypeInv, StateTypeOK, NewOrderTypeOK
  <1>3. newOrders # <<>> => newOrders = <<newOrders[1]>>
    BY <1>2 DEF PromiseInv, OneOrderInv, PurchaseInv, TypeInv, StateTypeOK, NewOrderTypeOK
  <1>4. newOrders # <<>> => newOrders[1].payload \in Payload
    BY <1>2 DEF NewOrder
  <1>5. QED
    BY <1>1, <1>3, <1>4, PayloadIsPreview DEF PromiseInv, OneOrderInv

\* Once the order is on record the pass follows it.
LEMMA FollowKept ==
    ASSUME PromiseInv, PurchaseInv', NEW id, NEW orderStatus, vendorId' = id, id # 0,
           FollowOrder("UpdateRenewalQuantities", id, orderStatus),
           UNCHANGED <<adobeVars, subscribed>>
    PROVE  PromiseInv'
  <1> USE DEF RollingBack, Previewed, AfterPurchase
  <1>0. ctx \in Context
    BY DEF PromiseInv, PurchaseInv, TypeInv, StateTypeOK
  <1>1. \/ EndPass
        \/ /\ ctx' = [ctx EXCEPT !.newOrderId = id, !.newOrder = orderStatus]
           /\ pc' = "UpdateRenewalQuantities"
    BY DEF FollowOrder, Goto
  <1>2. ctx'.error = "none" /\ ctx'.returnable \in {ctx.returnable, NoEntry}
    <2>1. ctx.error = "none"
      BY DEF PromiseInv, NoErrorInv
    <2>2. CASE EndPass
      BY <2>2 DEF EndPass, EmptyContext
    <2>3. CASE ctx' = [ctx EXCEPT !.newOrderId = id, !.newOrder = orderStatus]
      <3>1. ctx'.error = ctx.error /\ ctx'.returnable = ctx.returnable
        BY <1>0, <2>3 DEF Context
      <3>2. QED
        BY <2>1, <3>1
    <2>4. QED
      BY <1>1, <2>2, <2>3
  <1>3. pc' \in {Idle, "UpdateRenewalQuantities"}
    BY <1>1 DEF EndPass
  <1>4. NoErrorInv' /\ ReturnsInv'
    BY <1>2, <1>3
       DEF PromiseInv, NoErrorInv, ReturnsInv, Returned, DownsizeLines, NoEntry
  <1>5. OneOrderInv'
    BY <1>3 DEF PromiseInv, OneOrderInv, PurchaseLines, UpsizeLines, DownsizeLines, NewLines
  <1>6. QED
    BY <1>4, <1>5 DEF PromiseInv

\* The POST adds the first order, or is answered with the one it repeats.
LEMMA PlaceKept ==
    ASSUME AdobeCooperates, PromiseInv, PurchaseInv', PlaceNewOrder,
           UNCHANGED <<returns, subscribed>>
    PROVE  PromiseInv'
  <1> USE DEF RollingBack, Previewed, AfterPurchase
  <1>0. /\ ctx \in Context /\ SubscriptionsTypeOK /\ newOrders \in Seq(NewOrder)
        /\ pc = "SubmitNewOrder" /\ PurchaseLines # {} /\ ctx.newOrderId = 0
        /\ ctx.preview # NoPreview /\ ctx.preview \in Payload
        /\ pc' = "SaveNewOrder" /\ UNCHANGED <<status, vendorId>>
    BY DEF PromiseInv, PurchaseInv, TypeInv, StateTypeOK, NewOrderTypeOK, PlaceNewOrder, Goto, Context
  <1>1. /\ vendorId = 0 /\ ctx.preview = PreviewOf(Offer)
        /\ newOrders # <<>> => newOrders = <<newOrders[1]>> /\ newOrders[1].payload = ctx.preview
    BY <1>0, PreviewIsOrder
  <1>2. status # "Completed"
    BY <1>0 DEF PromiseInv, PurchaseInv, TypeInv, CalendarOK
  <1>3. ASSUME ctx'.error = ctx.error, ctx'.returnable = ctx.returnable,
               newOrders' # <<>>, Len(newOrders') = 1,
               newOrders'[1].payload = ctx.preview, newOrders'[1].returned = "none",
               newOrders'[1].status # "CANCELLED", DOMAIN newOrders' = {1},
               PreviewOf(Offer)' = PreviewOf(Offer)
        PROVE  PromiseInv'
    <2>1. NoErrorInv'
      BY <1>0, <1>3 DEF PromiseInv, NoErrorInv
    <2>2. ReturnsInv'
      BY <1>3 DEF PromiseInv, ReturnsInv, Returned, DownsizeLines
    <2>3. OneOrderInv'
      BY <1>0, <1>1, <1>2, <1>3
         DEF OneOrderInv, PurchaseLines, UpsizeLines, DownsizeLines, NewLines
    <2>4. QED
      BY <2>1, <2>2, <2>3 DEF PromiseInv
  <1>4. CASE newOrders # <<>>
    <2>1. 1 \in DOMAIN newOrders /\ DOMAIN newOrders = {1} /\ Len(newOrders) = 1
      BY <1>0, <1>1, <1>4, LenProperties, EmptySeq DEF PromiseInv, OneOrderInv
    <2>2. /\ UNCHANGED <<newOrders, subscriptionVars>>
          /\ \E id \in Nat, orderStatus \in NewOrderStatus :
                ctx' = [ctx EXCEPT !.newOrderId = id, !.newOrder = orderStatus]
      <3>1. newOrders[1].status \in NewOrderStatus
        BY <1>0, <2>1, NewOrderAt
      <3>2. {i \in DOMAIN newOrders : newOrders[i].payload = ctx.preview} = {1}
        BY <1>1, <1>4, <2>1
      <3>3. /\ UNCHANGED <<newOrders, subscriptionVars>>
            /\ ctx' = [ctx EXCEPT !.newOrderId = 1, !.newOrder = newOrders[1].status]
        BY <3>2 DEF PlaceNewOrder, AdobeCooperates
      <3>4. QED
        BY <3>1, <3>3
    <2>3. ctx'.error = ctx.error /\ ctx'.returnable = ctx.returnable
      BY <1>0, <2>2 DEF Context
    <2>4. PreviewOf(Offer)' = PreviewOf(Offer)
      BY <2>2, SameQuantitiesSamePreview DEF PurchaseQuantity
    <2>5. newOrders[1].returned = "none" /\ newOrders[1].status # "CANCELLED"
      BY <2>1 DEF PromiseInv, NoErrorInv
    <2>6. QED
      BY <1>1, <1>3, <1>4, <2>1, <2>2, <2>3, <2>4, <2>5
  <1>5. CASE newOrders = <<>>
    <2>1. PICK orderStatus \in {"OPEN", "COMPLETE"} :
            /\ newOrders' = Append(newOrders, [payload |-> ctx.preview, status |-> orderStatus,
                                                returned |-> "none"])
            /\ ctx' = [ctx EXCEPT !.newOrderId = Len(newOrders) + 1, !.newOrder = orderStatus]
            /\ IF orderStatus = "COMPLETE" THEN Process(ctx.preview.quantity)
                                            ELSE UNCHANGED subscriptionVars
      <3>1. {i \in DOMAIN newOrders : newOrders[i].payload = ctx.preview} = {}
        BY <1>5
      <3>2. QED
        BY <3>1, Zenon DEF PlaceNewOrder
    <2>2. /\ newOrders' = <<[payload |-> ctx.preview, status |-> orderStatus,
                              returned |-> "none"]>>
          /\ Len(newOrders') = 1 /\ DOMAIN newOrders' = {1} /\ newOrders' # <<>>
      BY <1>5, <2>1
    <2>3. ctx'.error = ctx.error /\ ctx'.returnable = ctx.returnable
      BY <1>0, <2>1 DEF Context
    <2>4. PreviewOf(Offer)' = PreviewOf(Offer)
      <3>1. CASE Process(ctx.preview.quantity)
        <4>1. ctx.preview.quantity \in [Lines -> Nat]
          BY <1>0 DEF Payload
        <4>2. ctx.preview.quantity \in [Lines -> Int]
              /\ \A line \in PurchaseLines : ctx.preview.quantity[line] >= 0
          BY <4>1 DEF PurchaseLines, UpsizeLines, NewLines
        <4>3. QED
          BY <1>0, <3>1, <4>2, ProcessKeepsPreview
      <3>2. CASE UNCHANGED subscriptionVars
        BY <3>2, SameQuantitiesSamePreview DEF PurchaseQuantity
      <3>3. QED
        BY <2>1, <3>1, <3>2
    <2>5. newOrders'[1].payload = ctx.preview /\ newOrders'[1].returned = "none"
          /\ newOrders'[1].status # "CANCELLED"
      BY <2>2
    <2>6. QED
      BY <1>3, <2>2, <2>3, <2>4, <2>5
  <1>6. QED
    BY <1>4, <1>5

\* GetPreviewOrder, UpdatePrices and SubmitNewOrder keep the invariant.
LEMMA BuyKept ==
    ASSUME AdobeCooperates, PromiseInv, PurchaseInv', Buy
    PROVE  PromiseInv'
  <1> USE DEF RollingBack, Previewed, AfterPurchase
  <1>0. ctx \in Context /\ UNCHANGED <<returns, subscribed>>
    BY DEF PromiseInv, PurchaseInv, TypeInv, StateTypeOK, Buy
  <1>1. CASE GetPreviewOrder("UpdatePrices")
    <2>0. UNCHANGED <<newOrders, subscriptionVars>> /\ pc = "GetPreviewOrder"
      BY <1>1 DEF GetPreviewOrder
    <2>1. CASE switch_order_to_failed
      BY <1>0, <2>0, <2>1, EndIsPlain, PlainKept DEF switch_order_to_failed
    <2>2. ASSUME ctx'.error = ctx.error, ctx'.returnable = ctx.returnable,
                 ctx'.newOrderId = ctx.newOrderId, pc' = "UpdatePrices",
                 UNCHANGED <<status, vendorId>>,
                 PurchaseLines # {} /\ ctx.newOrderId = 0 => ctx'.preview = PreviewOf(Offer)
          PROVE  PromiseInv'
      <3>1. PreviewOf(Offer)' = PreviewOf(Offer)
        BY <2>0, SameQuantitiesSamePreview DEF PurchaseQuantity
      <3>2. status # "Completed"
        BY <2>0 DEF PromiseInv, PurchaseInv, TypeInv, CalendarOK
      <3>3. NoErrorInv' /\ ReturnsInv'
        BY <1>0, <2>0, <2>2 DEF PromiseInv, NoErrorInv, ReturnsInv, Returned, DownsizeLines
      <3>4. OneOrderInv'
        BY <2>0, <2>2, <3>1, <3>2
           DEF PromiseInv, OneOrderInv, PurchaseLines, UpsizeLines, DownsizeLines, NewLines
      <3>5. QED
        BY <3>3, <3>4 DEF PromiseInv
    <2>3. CASE /\ PurchaseLines = {} \/ ctx.newOrderId # 0
               /\ Continue("UpdatePrices")
      BY <2>2, <2>3 DEF Continue, Goto
    <2>4. ASSUME NEW offer \in Offers, ctx' = [ctx EXCEPT !.preview = PreviewOf(offer)],
                 Goto("UpdatePrices"), UNCHANGED <<status, vendorId>>
          PROVE  PromiseInv'
      <3>1. offer = Offer
        BY OfferIsOne
      <3>2. ctx'.preview = PreviewOf(Offer) /\ ctx'.error = ctx.error
            /\ ctx'.returnable = ctx.returnable /\ ctx'.newOrderId = ctx.newOrderId
        BY <1>0, <2>4, <3>1 DEF Context
      <3>3. QED
        BY <2>2, <2>4, <3>2 DEF Goto
    <2>5. QED
      BY <1>1, <2>1, <2>3, <2>4 DEF GetPreviewOrder
  <1>2. CASE UpdatePrices("SubmitNewOrder")
    <2>1. ctx'.error = ctx.error /\ ctx'.returnable = ctx.returnable
          /\ ctx'.preview = ctx.preview /\ ctx'.newOrderId = ctx.newOrderId
      BY <1>0, <1>2 DEF UpdatePrices, Context
    <2>2. Plain
      BY <1>0, <1>2, <2>1 DEF UpdatePrices, Goto, Plain, PromiseInv, NoErrorInv
    <2>3. QED
      BY <2>2, PlainKept
  <1>3. CASE SkipNewOrder("UpdateRenewalQuantities")
    <2>1. newOrders = <<>>
      <3>1. CASE PurchaseLines = {}
        BY <3>1 DEF PromiseInv, OneOrderInv
      <3>2. CASE PurchaseLines # {} /\ ctx.newOrderId = 0 /\ ctx.preview = NoPreview
        BY <1>3, <3>2, PreviewIsOrder DEF SkipNewOrder
      <3>3. QED
        BY <1>3, <3>1, <3>2 DEF SkipNewOrder
    <2>2. UNCHANGED <<newOrders, subscriptionVars, status, vendorId, ctx>>
          /\ pc' = "UpdateRenewalQuantities"
      BY <1>3 DEF SkipNewOrder, Continue, Goto
    <2>3. NoErrorInv' /\ ReturnsInv'
      BY <1>0, <2>2 DEF PromiseInv, NoErrorInv, ReturnsInv, Returned, DownsizeLines
    <2>4. OneOrderInv'
      BY <2>1, <2>2 DEF PromiseInv, OneOrderInv, PurchaseLines, UpsizeLines, DownsizeLines, NewLines
    <2>5. QED
      BY <2>3, <2>4 DEF PromiseInv
  <1>4. CASE PlaceNewOrder
    BY <1>0, <1>4, PlaceKept
  <1>5. CASE SaveNewOrder("UpdateRenewalQuantities")
    <2>1. ctx.newOrderId # 0
      BY <1>5 DEF SaveNewOrder, PromiseInv, PurchaseInv, Unrecorded, TypeInv, StateTypeOK
    <2>2. QED
      BY <1>0, <1>5, <2>1, FollowKept DEF SaveNewOrder
  <1>6. CASE FetchNewOrder("UpdateRenewalQuantities")
    <2>1. vendorId' = ctx.newOrderId
      BY <1>6 DEF FetchNewOrder, PromiseInv, PurchaseInv, RecordRead, Unread
    <2>2. QED
      BY <1>0, <1>6, <2>1, FollowKept DEF FetchNewOrder
  <1>7. QED
    BY <1>1, <1>2, <1>3, <1>4, <1>5, <1>6 DEF Buy, SubmitNewOrder

-----------------------------------------------------------------------------
(* The invariant.                                                           *)

\* It holds of an order nothing was done for.
LEMMA PromiseInvInit == Init => PromiseInv
  <1> SUFFICES ASSUME Init PROVE PromiseInv
    OBVIOUS
  <1>1. PurchaseInv
    BY PurchaseInvInit
  <1>2. newOrders = <<>> /\ Len(newOrders) = 0 /\ DOMAIN newOrders = {}
    BY DEF Init, NewOrderInit
  <1>3. ctx.error = "none" /\ ctx.returnable = NoEntry /\ pc = Idle /\ status = "Processing"
    BY DEF Init, PassInit, EmptyContext
  <1>4. NoErrorInv
    BY <1>2, <1>3 DEF NoErrorInv, RollingBack
  <1>5. ReturnsInv
    BY <1>3 DEF ReturnsInv, Init, ReturnInit, Returned, NoEntry
  <1>6. OneOrderInv
    BY <1>2, <1>3 DEF OneOrderInv, Previewed, AfterPurchase
  <1>7. QED
    BY <1>1, <1>4, <1>5, <1>6 DEF PromiseInv

\* Every step keeps it, one lemma for each part of the pipeline.
LEMMA PromiseInvStep ==
    ASSUME AdobeCooperates, PromiseInv, [Next]_vars
    PROVE  PromiseInv'
  <1>0. PurchaseInv'
    BY PurchaseInvStep DEF PromiseInv
  <1>1. CASE Platform
    BY <1>0, <1>1, PlatformIsPlain, PlainKept
  <1>2. CASE Adobe
    BY <1>0, <1>2, AdobeKept
  <1>3. CASE Prepare
    BY <1>0, <1>3, PrepareIsPlain, PlainKept
  <1>4. CASE Buy
    BY <1>0, <1>4, BuyKept
  <1>5. CASE GiveBack
    BY <1>0, <1>5, GiveBackKept
  <1>6. CASE Update
    BY <1>0, <1>6, UpdateIsPlain, PlainKept
  <1>7. CASE Publish
    BY <1>0, <1>7, PublishIsPlain, PlainKept
  <1>8. CASE UNCHANGED vars
    <2>1. UNCHANGED <<passVars, adobeVars, subscribed>>
      BY <1>8 DEF vars
    <2>2. Plain
      BY <2>1 DEF passVars, Plain, PromiseInv, NoErrorInv
    <2>3. QED
      BY <1>0, <2>2, PlainKept
  <1>9. QED
    BY <1>1, <1>2, <1>3, <1>4, <1>5, <1>6, <1>7, <1>8 DEF Next, Step

-----------------------------------------------------------------------------
(* The purchase and the promise.                                            *)

\* The one order on Adobe's list is what Purchase says.
OneOrderIsPurchase ==
    /\ newOrders = <<>> => Purchase = "none"
    /\ newOrders # <<>> =>
          /\ DOMAIN newOrders = {1} /\ Len(newOrders) = 1
          /\ \/ newOrders[1].status = "OPEN" /\ Purchase = "pending"
             \/ newOrders[1].status = "COMPLETE" /\ Purchase = "held"
             \/ newOrders[1].status = "FAILED" /\ Purchase = "lost"

\* This follows from the invariant.
LEMMA PurchaseOfOneOrder == PromiseInv => OneOrderIsPurchase
  <1> SUFFICES ASSUME PromiseInv PROVE OneOrderIsPurchase
    OBVIOUS
  <1>1. CASE newOrders = <<>>
    BY <1>1 DEF OneOrderIsPurchase, Purchase, LiveOrders
  <1>2. CASE newOrders # <<>>
    <2>1. newOrders \in Seq(NewOrder)
      BY DEF PromiseInv, PurchaseInv, TypeInv, StateTypeOK, NewOrderTypeOK
    <2>2. DOMAIN newOrders = {1} /\ Len(newOrders) = 1 /\ newOrders[1] \in NewOrder
      BY <1>2, <2>1, LenProperties, EmptySeq DEF PromiseInv, OneOrderInv
    <2>3. newOrders[1].returned = "none"
          /\ newOrders[1].status \in {"OPEN", "COMPLETE", "FAILED"}
      BY <2>2 DEF PromiseInv, NoErrorInv, NewOrder, NewOrderStatus
    <2>4. QED
      BY <1>2, <2>2, <2>3 DEF OneOrderIsPurchase, Purchase, LiveOrders, Live
  <1>3. QED
    BY <1>1, <1>2

\* The same, a step later.
LEMMA PurchaseOfOneOrderNext == PromiseInv' => OneOrderIsPurchase'
  BY PurchaseOfOneOrder, PTL

\* A completed order holds what it bought.
LEMMA CompletedHolds ==
    ASSUME PromiseInv, pc = "CompleteOrder" \/ status = "Completed"
    PROVE  newOrders = <<>> \/ (vendorId = 1 /\ newOrders[1].status = "COMPLETE")
  <1> SUFFICES ASSUME newOrders # <<>>
               PROVE  vendorId = 1 /\ newOrders[1].status = "COMPLETE"
    OBVIOUS
  <1>1. vendorId # 0 /\ vendorId \in 0 .. Len(newOrders)
    BY DEF PromiseInv, OneOrderInv, AfterPurchase, PurchaseInv, TypeInv, StateTypeOK, NewOrderTypeOK
  <1>2. Len(newOrders) = 1 /\ DOMAIN newOrders = {1}
    BY PurchaseOfOneOrder DEF OneOrderIsPurchase
  <1>3. vendorId = 1 /\ Processed(vendorId)
    BY <1>1, <1>2 DEF PromiseInv, PurchaseInv, PurchaseWaitedFor, AfterPurchase
  <1>4. QED
    BY <1>2, <1>3 DEF Processed, PromiseInv, NoErrorInv

\* What a step does to the status and to the purchase.
Decides ==
    /\ UNCHANGED newOrders
    /\ \/ UNCHANGED status
       \/ status = "Processing" /\ status' \in {"Failed", "Querying"}
       \/ status = "Querying" /\ status' = "Processing"
       \/ status = "Processing" /\ pc = "CompleteOrder" /\ status' = "Completed"

Places ==
    /\ newOrders = <<>> /\ status = "Processing" /\ UNCHANGED status
    /\ newOrders' # <<>> /\ newOrders'[1].status \in {"OPEN", "COMPLETE"}

Settles ==
    /\ newOrders # <<>> /\ newOrders[1].status = "OPEN" /\ UNCHANGED status
    /\ newOrders' # <<>> /\ newOrders'[1].status \in {"COMPLETE", "FAILED"}

\* Each of the three is a step of OrderPromise, or none.
LEMMA StepOfPromise ==
    ASSUME PromiseInv, PromiseInv', Decides \/ Places \/ Settles
    PROVE  [Promise!Next]_(Promise!vars)
  <1> USE DEF Promise!Next, Promise!vars
  <1>0. OneOrderIsPurchase /\ OneOrderIsPurchase'
    BY PurchaseOfOneOrder, PurchaseOfOneOrderNext
  <1>1. CASE Decides
    <2>1. Purchase' = Purchase
      BY <1>1 DEF Decides, Purchase, LiveOrders, Live
    <2>2. pc = "CompleteOrder" => Purchase \in {"none", "held"}
      BY <1>0, CompletedHolds DEF OneOrderIsPurchase
    <2>3. QED
      BY <1>1, <2>1, <2>2
         DEF Decides, Promise!Complete, Promise!Fail, Promise!Ask, Promise!Answer
  <1>2. CASE Places
    BY <1>0, <1>2 DEF Places, OneOrderIsPurchase, Promise!Buy
  <1>3. CASE Settles
    BY <1>0, <1>3 DEF Settles, OneOrderIsPurchase, Promise!Settle
  <1>4. QED
    BY <1>1, <1>2, <1>3

\* What a pass does when it goes on or ends.
LEMMA PassDecides ==
    ASSUME PromiseInv, UNCHANGED newOrders, pc # Idle,
           UNCHANGED status \/ \E outcome \in {"Failed", "Querying"} : Decide(outcome)
    PROVE  Decides
  BY DEF Decides, Decide, PromiseInv, PurchaseInv, TypeInv, CalendarOK

\* SubmitNewOrder places the one order, or finds it placed.
LEMMA BuyStep ==
    ASSUME AdobeCooperates, PromiseInv, Buy
    PROVE  Decides \/ Places
  <1>1. CASE GetPreviewOrder("UpdatePrices")
    BY <1>1, PassDecides DEF GetPreviewOrder, Continue, switch_order_to_failed
  <1>2. CASE UpdatePrices("SubmitNewOrder") \/ SkipNewOrder("UpdateRenewalQuantities")
    BY <1>2 DEF UpdatePrices, SkipNewOrder, Continue, Decides
  <1>3. CASE PlaceNewOrder
    <2>1. /\ ctx.preview # NoPreview /\ status = "Processing" /\ UNCHANGED status
          /\ pc \in Previewed /\ PurchaseLines # {} /\ ctx.newOrderId = 0
      BY <1>3 DEF PlaceNewOrder, Previewed, PromiseInv, PurchaseInv, TypeInv, CalendarOK
    <2>2. CASE newOrders # <<>>
      <3>1. newOrders = <<newOrders[1]>> /\ newOrders[1].payload = ctx.preview
        BY <2>1, <2>2, PreviewIsOrder
      <3>2. 1 \in {i \in DOMAIN newOrders : newOrders[i].payload = ctx.preview}
        BY <2>2, <3>1, PurchaseOfOneOrder DEF OneOrderIsPurchase
      <3>3. UNCHANGED newOrders
        BY <1>3, <3>2 DEF PlaceNewOrder, AdobeCooperates
      <3>4. QED
        BY <2>1, <3>3 DEF Decides
    <2>3. CASE newOrders = <<>>
      <3>1. {i \in DOMAIN newOrders : newOrders[i].payload = ctx.preview} = {}
        BY <2>3
      <3>2. PICK orderStatus \in {"OPEN", "COMPLETE"} :
              newOrders' = Append(newOrders, [payload |-> ctx.preview, status |-> orderStatus,
                                              returned |-> "none"])
        BY <1>3, <3>1, Zenon DEF PlaceNewOrder
      <3>3. newOrders' = <<[payload |-> ctx.preview, status |-> orderStatus,
                            returned |-> "none"]>>
        BY <2>3, <3>2
      <3>4. newOrders' # <<>> /\ newOrders'[1].status = orderStatus
        BY <3>3
      <3>5. QED
        BY <2>1, <2>3, <3>4 DEF Places
    <2>4. QED
      BY <2>2, <2>3
  <1>4. CASE SaveNewOrder("UpdateRenewalQuantities") \/ FetchNewOrder("UpdateRenewalQuantities")
    BY <1>4 DEF SaveNewOrder, FetchNewOrder, FollowOrder, Decides, PromiseInv, PurchaseInv,
       TypeInv, CalendarOK
  <1>5. QED
    BY <1>1, <1>2, <1>3, <1>4 DEF Buy, SubmitNewOrder

\* Adobe settles the order once.
LEMMA AdobeStep ==
    ASSUME PromiseInv, Adobe
    PROVE  Decides \/ Settles
  <1>0. OneOrderIsPurchase /\ UNCHANGED status /\ newOrders \in Seq(NewOrder)
    BY PurchaseOfOneOrder
       DEF Adobe, AdobeSettlesNewOrder, AdobeSettlesReturnOrder, passVars, PromiseInv,
           PurchaseInv, TypeInv, StateTypeOK, NewOrderTypeOK
  <1>1. CASE UNCHANGED newOrders
    BY <1>0, <1>1 DEF Decides
  <1>2. CASE AdobeSettlesNewOrder
    <2>1. PICK id \in DOMAIN newOrders : AdobeCompletesNewOrder(id) \/ AdobeFailsNewOrder(id)
      BY <1>2 DEF AdobeSettlesNewOrder, AdobeCancelsReturnedOrder, PromiseInv, NoErrorInv
    <2>2. id = 1 /\ newOrders # <<>> /\ newOrders[1] \in NewOrder
      BY <1>0, <2>1, LenProperties DEF OneOrderIsPurchase
    <2>3. PICK s \in {"COMPLETE", "FAILED"} :
            newOrders' = [newOrders EXCEPT ![1].status = s] /\ newOrders[1].status = "OPEN"
      BY <2>1, <2>2 DEF AdobeCompletesNewOrder, AdobeFailsNewOrder
    <2>4. newOrders'[1].status = s /\ DOMAIN newOrders' = {1}
      BY <1>0, <2>2, <2>3 DEF OneOrderIsPurchase, NewOrder
    <2>5. QED
      BY <1>0, <2>2, <2>3, <2>4 DEF Settles
  <1>3. QED
    BY <1>1, <1>2 DEF Adobe

\* A step of a change order is a step of its promise.
LEMMA PromiseStep ==
    ASSUME AdobeCooperates, PromiseInv, PromiseInv', [Next]_vars
    PROVE  [Promise!Next]_(Promise!vars)
  <1> USE DEF switch_order_to_failed, switch_order_to_query
  <1>1. CASE Platform
    BY <1>1, StepOfPromise DEF Platform, Dispatch, Abort, Wait, Resume, NextDay, Decides
  <1>2. CASE Adobe
    BY <1>2, AdobeStep, StepOfPromise
  <1>3. CASE Prepare
    <2>1. UNCHANGED newOrders /\ pc # Idle
      BY <1>3 DEF Prepare, SetupContext, SetupDueDate, ValidateDuplicateLines,
         ValidateRenewalWindow, ValidateSkuAvailability, Validate3YCCommitment
    <2>2. UNCHANGED status \/ \E outcome \in {"Failed", "Querying"} : Decide(outcome)
      BY <1>3 DEF Prepare, SetupContext, SetupDueDate, ValidateDuplicateLines,
         ValidateRenewalWindow, ValidateSkuAvailability, Validate3YCCommitment, Continue, Wait
    <2>3. QED
      BY <2>1, <2>2, PassDecides, StepOfPromise
  <1>4. CASE Buy
    BY <1>4, BuyStep, StepOfPromise
  <1>5. CASE GiveBack
    <2>1. UNCHANGED newOrders /\ pc # Idle
      BY <1>5 DEF GiveBack, GetReturnOrders, GetReturnableOrders, ValidateReturnableOrders,
         SubmitReturnOrders, PlaceReturnOrder, LoseReturnOrder, PostReturnOrder,
         AwaitReturnOrders
    <2>2. UNCHANGED status \/ \E outcome \in {"Failed", "Querying"} : Decide(outcome)
      BY <1>5 DEF GiveBack, GetReturnOrders, GetReturnableOrders, ValidateReturnableOrders,
         SubmitReturnOrders, PlaceReturnOrder, LoseReturnOrder, AwaitReturnOrders, Continue, Wait
    <2>3. QED
      BY <2>1, <2>2, PassDecides, StepOfPromise
  <1>6. CASE Update
    <2>1. UNCHANGED <<newOrders, status>>
      BY <1>6 DEF Update, UpdateRenewalQuantities, UpdateLine, LinesUpdated, RestoreLine,
         ReturnNewOrder, RollbackEnds, RolledBack, PromiseInv, NoErrorInv, RollingBack
    <2>2. QED
      BY <2>1, StepOfPromise DEF Decides
  <1>7. CASE Publish
    <2>1. UNCHANGED newOrders
          /\ (UNCHANGED status \/ (pc = "CompleteOrder" /\ status' = "Completed"))
      BY <1>7 DEF Publish, CreateOrUpdateAssets, CreateOrUpdateSubscriptions, CompleteOrder,
         Decide, Continue, Wait, passVars
    <2>2. QED
      BY <2>1, StepOfPromise DEF Decides, PromiseInv, PurchaseInv, TypeInv, CalendarOK
  <1>8. CASE UNCHANGED vars
    BY <1>8, StepOfPromise DEF vars, passVars, Decides
  <1>9. QED
    BY <1>1, <1>2, <1>3, <1>4, <1>5, <1>6, <1>7, <1>8 DEF Next, Step

-----------------------------------------------------------------------------
\* A change order buys as OrderPromise says, as long as Adobe cooperates: at
\* most once over all its passes, crashes between the POST and the save
\* included, only while the order is Processing, and it completes only over a
\* purchase held (fulfill_change_order as a whole).
THEOREM PromiseIsKept == AdobeCooperates => (Spec => KeepsPromise)
  <1> SUFFICES ASSUME AdobeCooperates PROVE Spec => KeepsPromise
    OBVIOUS
  <1>1. Init => PromiseInv
    BY PromiseInvInit
  <1>2. PromiseInv /\ [Next]_vars => PromiseInv'
    BY PromiseInvStep
  <1>3. Init => Promise!Init
    <2>1. Init => newOrders = <<>> /\ status = "Processing"
      BY DEF Init, PassInit, NewOrderInit
    <2>2. QED
      BY <1>1, <2>1, PurchaseOfOneOrder DEF Promise!Init, OneOrderIsPurchase
  <1>4. PromiseInv /\ PromiseInv' /\ [Next]_vars => [Promise!Next]_(Promise!vars)
    BY PromiseStep
  <1>5. QED
    BY <1>1, <1>2, <1>3, <1>4, PTL DEF Spec, KeepsPromise, Promise!Spec

\* The purchase on record of a completed order is the one the customer holds,
\* and the customer holds no other (SaveNewOrder, CompleteOrder).
THEOREM PurchaseIsHeld == AdobeCooperates => (Spec => []PurchaseHeld)
  <1> SUFFICES ASSUME AdobeCooperates PROVE Spec => []PurchaseHeld
    OBVIOUS
  <1>1. Init => PromiseInv
    BY PromiseInvInit
  <1>2. PromiseInv /\ [Next]_vars => PromiseInv'
    BY PromiseInvStep
  <1>3. PromiseInv => PurchaseHeld
    <2> SUFFICES ASSUME PromiseInv, status = "Completed", NEW id \in DOMAIN newOrders
                 PROVE  Live(newOrders[id]) <=> id = vendorId
      BY DEF PurchaseHeld
    <2>1. id = 1 /\ vendorId = 1 /\ newOrders[1].status = "COMPLETE"
      BY CompletedHolds, PurchaseOfOneOrder DEF OneOrderIsPurchase
    <2>2. QED
      BY <2>1 DEF Live, PromiseInv, NoErrorInv
  <1>4. QED
    BY <1>1, <1>2, <1>3, PTL DEF Spec

-----------------------------------------------------------------------------
(* What a completed order has delivered.                                    *)

\* What CompletedIsDelivered owes to the calendar and to the agreement: every
\* pass sees the same purchases, may return them, and those of one deployment.
ReturnsAreOpen ==
    /\ ListedThroughout
    /\ LastTwoWeeks > LatestStart + DueDateDays + 1
    /\ OtherDeployment = {}

\* The purchases to give back, and whether Adobe took them all.
DueBack == UNION {ToReturn(line) : line \in DownsizeLines}
AllReturned == \A p \in DueBack : returns[p] = "COMPLETE"

\* Adobe processed the purchase; a line renews as ordered.
Bought == newOrders # <<>> /\ newOrders[1].status = "COMPLETE"
Level(line) == renewal[line] = NewQuantity[line]

\* The stretches of the pipeline, and whether the order is past their start.
Updating == {"UpdateRenewalQuantities", "UpdateRenewalQuantitiesDownsizes"}
AfterDownsizes == {"CreateOrUpdateAssets", "CreateOrUpdateSubscriptions", "CompleteOrder"}
AfterReturns == {"UpdateRenewalQuantitiesDownsizes"} \cup AfterDownsizes
AfterUpdate == {"SubmitReturnOrders"} \cup AfterReturns
Completing == {"CompleteOrder"}
AfterChoice ==
    {"ValidateReturnableOrders", "Validate3YCCommitment", "GetPreviewOrder", "UpdatePrices",
     "SubmitNewOrder", "SaveNewOrder", "UpdateRenewalQuantities", "SubmitReturnOrders"}

Past(steps) == pc \in steps \/ status = "Completed"

\* A pass chooses all that is due, and goes on when Adobe has taken it.
BackInv ==
    /\ pc \in AfterChoice => DueBack \subseteq Chosen
    /\ Past(AfterReturns) => AllReturned

\* A new item renews as bought; it has a subscription only once it is, and
\* one before the order is completed unless Adobe did not activate it.
NewLinesInv ==
    /\ \A line \in NewLines : renewal[line] = IF Bought THEN NewQuantity[line] ELSE 0
    /\ newOrders # <<>> =>
          \A line \in NewLines : newOrders[1].payload.quantity[line] = NewQuantity[line]
    /\ subscribed \cap NewLines # {} => Bought
    /\ Lines \ NewLines \subseteq subscribed
    /\ Past(AfterPurchase) => /\ NewLines # {} => Bought
                              /\ newOrders = <<>> \/ Bought
    /\ pc \in AfterPurchase /\ newOrders # <<>> => ctx.newOrder # "none"
    /\ Past(Completing) => NewLines \ InactiveLines \subseteq subscribed

\* Behind the loops over the lines, the lines renew as ordered.
LevelInv ==
    /\ pc \notin Updating => ctx.done = {}
    /\ pc = "UpdateRenewalQuantities" => ctx.done \subseteq PurchaseLines
    /\ pc \in Updating => \A line \in ctx.done : Level(line)
    /\ Past(AfterUpdate) => \A line \in PurchaseLines : Level(line)
    /\ Past(AfterDownsizes) => \A line \in DownsizeLines : Level(line)

DeliveredInv == PromiseInv /\ ChoiceInv /\ BackInv /\ NewLinesInv /\ LevelInv

-----------------------------------------------------------------------------
(* Steps that leave a part of it alone.                                     *)

BackQuiet ==
    /\ \A p \in Purchases : returns[p] = "COMPLETE" => returns'[p] = "COMPLETE"
    /\ pc' \in AfterChoice => pc \in AfterChoice /\ ctx'.returnable = ctx.returnable
    /\ Past(AfterReturns)' => Past(AfterReturns)

NewQuiet ==
    /\ UNCHANGED <<newOrders, subscribed>>
    /\ \A line \in NewLines : renewal'[line] = renewal[line]
    /\ Past(AfterPurchase)' => Past(AfterPurchase)
    /\ pc' \in AfterPurchase => pc \in AfterPurchase /\ ctx'.newOrder = ctx.newOrder
    /\ Past(Completing)' => Past(Completing)

LevelQuiet ==
    /\ UNCHANGED renewal
    /\ ctx'.done = {} \/ (pc' = pc /\ ctx'.done = ctx.done)
    /\ Past(AfterUpdate)' => Past(AfterUpdate)
    /\ Past(AfterDownsizes)' => Past(AfterDownsizes)

Quiet == BackQuiet /\ NewQuiet /\ LevelQuiet

\* The lines are what they were.
LEMMA LinesAreConstant ==
    /\ DownsizeLines' = DownsizeLines /\ UpsizeLines' = UpsizeLines
    /\ NewLines' = NewLines /\ PurchaseLines' = PurchaseLines
  BY DEF PurchaseLines, UpsizeLines, DownsizeLines, NewLines

LEMMA DueBackIsConstant == DueBack' = DueBack
  BY ChoiceIsConstant DEF DueBack

\* What is due is a set of purchases.
LEMMA DueBackType == DueBack \subseteq Purchases
  BY ToReturnAddsUp DEF DueBack

\* Each of the three is kept by a step that is quiet about it.
LEMMA BackKept ==
    ASSUME BackInv, BackQuiet
    PROVE  BackInv'
  <1>1. pc' \in AfterChoice => Chosen' = Chosen
    BY DEF BackQuiet, Chosen
  <1>2. AllReturned => AllReturned'
    BY DueBackType, DueBackIsConstant DEF AllReturned, BackQuiet
  <1>3. QED
    BY <1>1, <1>2, DueBackIsConstant DEF BackInv, BackQuiet

\* As above, for the new items.
LEMMA NewLinesKept ==
    ASSUME NewLinesInv, NewQuiet
    PROVE  NewLinesInv'
  <1>1. Bought' = Bought
    BY DEF NewQuiet, Bought
  <1>2. QED
    BY <1>1, LinesAreConstant DEF NewLinesInv, NewQuiet

\* As above, for the renewal quantities.
LEMMA LevelKept ==
    ASSUME LevelInv, LevelQuiet
    PROVE  LevelInv'
  <1>1. \A line : Level(line)' = Level(line)
    BY DEF Level, LevelQuiet
  <1>2. QED
    BY <1>1, LinesAreConstant DEF LevelInv, LevelQuiet

\* A pass that ends without completing the order.
LEMMA EndIsQuiet ==
    ASSUME EndPass, UNCHANGED <<adobeVars, subscribed>>,
           status' = "Completed" => status = "Completed"
    PROVE  Quiet
  BY DEF EndPass, EmptyContext, Quiet, BackQuiet, NewQuiet, LevelQuiet, Past, AfterChoice,
     AfterPurchase, AfterUpdate, AfterReturns, AfterDownsizes, Completing

\* A step between two steps of one stretch.
LEMMA GoOnIsQuiet ==
    ASSUME LevelInv, UNCHANGED <<adobeVars, subscribed, status>>, pc \notin Updating,
           pc' \in AfterChoice => pc \in AfterChoice /\ ctx'.returnable = ctx.returnable,
           pc' \in AfterPurchase => pc \in AfterPurchase /\ ctx'.newOrder = ctx.newOrder,
           pc' \in AfterReturns => pc \in AfterReturns,
           pc' \in AfterUpdate => pc \in AfterUpdate,
           pc' \in AfterDownsizes => pc \in AfterDownsizes,
           pc' \in Completing => pc \in Completing,
           ctx'.done \in {ctx.done, {}}
    PROVE  Quiet
  BY DEF LevelInv, Quiet, BackQuiet, NewQuiet, LevelQuiet, Past

\* Dispatch, Abort, Resume and NextDay.
LEMMA PlatformIsQuiet ==
    ASSUME LevelInv, Platform
    PROVE  Quiet
  <1>1. CASE Abort
    BY <1>1, EndIsQuiet DEF Platform, Abort, Wait
  <1>2. CASE Dispatch
    BY <1>2, GoOnIsQuiet DEF Platform, Dispatch, Goto, Updating, AfterChoice, AfterPurchase,
       AfterUpdate, AfterReturns, AfterDownsizes, Completing
  <1>3. CASE Resume \/ NextDay
    BY <1>3 DEF Platform, Resume, NextDay, Quiet, BackQuiet, NewQuiet, LevelQuiet, Past
  <1>4. QED
    BY <1>1, <1>2, <1>3 DEF Platform

\* The checks in front of the pipeline.
LEMMA PrepareIsQuiet ==
    ASSUME LevelInv, Prepare
    PROVE  Quiet
  <1> USE DEF switch_order_to_failed, switch_order_to_query, Decide, Wait
  <1>0. UNCHANGED <<adobeVars, subscribed>>
    BY DEF Prepare
  <1>1. CASE EndPass
    <2>1. status' = "Completed" => status = "Completed"
      BY <1>1 DEF Prepare, SetupContext, SetupDueDate, ValidateDuplicateLines, Goto, Continue,
         ValidateRenewalWindow, ValidateSkuAvailability, Validate3YCCommitment
    <2>2. QED
      BY <1>0, <1>1, <2>1, EndIsQuiet
  <1>2. CASE ~EndPass
    <2> USE DEF Updating, AfterChoice, AfterPurchase, AfterUpdate, AfterReturns,
                AfterDownsizes, Completing
    <2>1. CASE SetupContext("SetupDueDate")
      <3>1. ctx'.done = {} /\ pc = "SetupContext" /\ pc' = "SetupDueDate" /\ UNCHANGED status
        BY <1>2, <2>1 DEF SetupContext, EmptyContext, Goto
      <3>2. QED
        BY <1>0, <3>1, GoOnIsQuiet
    <2>2. CASE SetupDueDate("ValidateDuplicateLines")
      BY <1>0, <1>2, <2>2, GoOnIsQuiet DEF SetupDueDate, Goto
    <2>3. CASE \/ ValidateDuplicateLines("ValidateRenewalWindow")
               \/ ValidateRenewalWindow("ValidateSkuAvailability")
               \/ ValidateSkuAvailability("GetReturnOrders")
               \/ Validate3YCCommitment("GetPreviewOrder")
      <3>1. UNCHANGED <<status, ctx>>
        BY <1>2, <2>3 DEF ValidateDuplicateLines, ValidateRenewalWindow,
           ValidateSkuAvailability, Validate3YCCommitment, Continue
      <3>2. \/ pc \in Steps \ Updating
               /\ pc' \in {"ValidateRenewalWindow", "ValidateSkuAvailability", "GetReturnOrders"}
            \/ pc = "Validate3YCCommitment" /\ pc' = "GetPreviewOrder"
        BY <1>2, <2>3 DEF ValidateDuplicateLines, ValidateRenewalWindow, Steps,
           ValidateSkuAvailability, Validate3YCCommitment, Continue, Goto
      <3>3. QED
        BY <1>0, <3>1, <3>2, GoOnIsQuiet
    <2>4. QED
      BY <2>1, <2>2, <2>3 DEF Prepare
  <1>3. QED
    BY <1>1, <1>2

-----------------------------------------------------------------------------
(* Giving back.                                                             *)

\* A return, or the wait for one, moves downsized lines only.
LEMMA TakeBackMovesDownsizes ==
    ASSUME SubscriptionsTypeOK, NEW p \in Purchases, PurchaseLine[p] \in DownsizeLines,
           TakeBack(p) \/ UNCHANGED subscriptionVars
    PROVE  \A line \in PurchaseLines : renewal'[line] = renewal[line]
  <1> SUFFICES ASSUME NEW line \in PurchaseLines, TakeBack(p)
               PROVE  renewal'[line] = renewal[line]
    OBVIOUS
  <1>1. line # PurchaseLine[p] /\ line \in Lines
    BY DEF PurchaseLines, UpsizeLines, NewLines
  <1>2. renewal[line] \in Nat
    BY <1>1 DEF SubscriptionsTypeOK
  <1>3. QED
    BY <1>1, <1>2 DEF TakeBack, Process, Moved

\* What a pass or Adobe has in hand is due.
LEMMA ReturnedIsDue ==
    ASSUME ChoiceInv
    PROVE  Returned \subseteq DueBack
  BY DEF ChoiceInv, DueBack

\* What a pass gives back it chose for a downsized line.
LEMMA ChosenIsDownsized ==
    ASSUME ctx \in Context, ChoiceInv, NEW p \in Chosen
    PROVE  PurchaseLine[p] \in DownsizeLines
  <1>1. PICK line \in DOMAIN ctx.returnable : p \in ctx.returnable[line]
    BY DEF Chosen
  <1>2. line \in DownsizeLines /\ p \in ToReturn(line)
    BY <1>1 DEF Context, ChoiceInv
  <1>3. QED
    BY <1>2, ToReturnAddsUp

\* The steps about return orders keep the invariant.
LEMMA GiveBackDelivers ==
    ASSUME ReturnsAreOpen, DeliveredInv, GiveBack
    PROVE  BackInv' /\ NewLinesInv' /\ LevelInv'
  <1> USE DEF Updating, AfterChoice, AfterPurchase, AfterUpdate, AfterReturns, AfterDownsizes,
              Completing
  <1> USE BackKept, NewLinesKept, LevelKept
  <1>0. /\ TypeInv /\ ctx \in Context /\ SubscriptionsTypeOK
        /\ returns \in [Purchases -> ReturnStatus]
        /\ ChoiceInv /\ BackInv /\ NewLinesInv /\ LevelInv
        /\ UNCHANGED <<newOrders, subscribed>>
    BY DEF DeliveredInv, PromiseInv, PurchaseInv, TypeInv, StateTypeOK, GiveBack, ReturnTypeOK
  <1>1. CASE GetReturnOrders("GetReturnableOrders", RolledBackOrders # {})
    <2>1. ctx'.done = ctx.done /\ ctx'.newOrder = ctx.newOrder
      BY <1>0, <1>1 DEF GetReturnOrders, Context
    <2>2. Quiet
      BY <1>0, <1>1, <2>1, GoOnIsQuiet DEF GetReturnOrders, Goto
    <2>3. QED
      BY <1>0, <2>2 DEF Quiet
  <1>2. CASE GetReturnableOrders("ValidateReturnableOrders")
    <2> DEFINE lines == {l \in DownsizeLines : ReturnableOrders(l) # {}}
               found == [l \in lines |-> Combination(ReturnableOrders(l), Downsize(l))]
    <2>0. ~(today >= LastTwoWeeks)
      BY <1>0, OrderPassAssumption, ReturnAssumption
         DEF ReturnsAreOpen, TypeInv, StateTypeOK, PassTypeOK, Day
    <2>1. ctx' = [ctx EXCEPT !.returnable = found]
      BY <1>2, <2>0, Zenon DEF GetReturnableOrders
    <2>2. \A l : ReturnableOrders(l) = Candidates(l)
      BY <1>0, <1>2, ListIsCandidates DEF ReturnsAreOpen, GetReturnableOrders, Unlisted
    <2>3. DOMAIN found = {l \in DownsizeLines : Candidates(l) # {}}
          /\ \A l \in DOMAIN found : found[l] = ToReturn(l)
      BY <2>2 DEF ToReturn
    <2> HIDE DEF lines, found
    <2>4. ctx'.returnable = found /\ ctx'.done = ctx.done
      BY <1>0, <2>1 DEF Context
    <2>5. \A l \in DownsizeLines : ToReturn(l) \subseteq Chosen'
      <3> SUFFICES ASSUME NEW l \in DownsizeLines, NEW p \in ToReturn(l) PROVE p \in Chosen'
        OBVIOUS
      <3>1. l \in DOMAIN found
        BY <2>3, ToReturnAddsUp
      <3>2. QED
        BY <2>3, <2>4, <3>1 DEF Chosen, ReturnsAreOpen
    <2>6. BackInv'
      <3>1. DueBack' \subseteq Chosen'
        BY <2>5, DueBackIsConstant DEF DueBack
      <3>2. ~Past(AfterReturns)'
        BY <1>0, <1>2 DEF GetReturnableOrders, Goto, Past, TypeInv, CalendarOK
      <3>3. QED
        BY <3>1, <3>2 DEF BackInv
    <2>7. NewQuiet /\ LevelQuiet
      BY <1>0, <1>2, <2>4 DEF GetReturnableOrders, Goto, NewQuiet, LevelQuiet, LevelInv, Past
    <2>8. QED
      BY <1>0, <2>6, <2>7
  <1>3. CASE ValidateReturnableOrders("Validate3YCCommitment")
    <2>1. CASE EndPass
      <3>1. status' = "Completed" => status = "Completed"
        BY <1>3, <2>1 DEF ValidateReturnableOrders, switch_order_to_failed, Decide, Continue
      <3>2. QED
        BY <1>0, <1>3, <2>1, <3>1, EndIsQuiet DEF Quiet, ValidateReturnableOrders
    <2>2. CASE Continue("Validate3YCCommitment")
      <3>1. Quiet
        BY <1>0, <1>3, <2>2, GoOnIsQuiet DEF ValidateReturnableOrders, Continue, Goto
      <3>2. QED
        BY <1>0, <3>1 DEF Quiet
    <2>3. QED
      BY <1>3, <2>1, <2>2 DEF ValidateReturnableOrders, switch_order_to_failed, Decide
  <1>4. ASSUME NEW p \in Purchases, PlaceReturnOrder(p) \/ LoseReturnOrder(p)
        PROVE  BackInv' /\ NewLinesInv' /\ LevelInv'
    <2>0. Posted(p)
      BY <1>0, <1>4, ReturnIsPosted
    <2>1. /\ pc = "SubmitReturnOrders" /\ pc' \in {pc, Idle} /\ UNCHANGED status
          /\ p \in Chosen /\ returns[p] = "none"
      BY <1>0, <2>0 DEF Posted, ChoiceInv, Returned, Unlisted
    <2>2. /\ ctx'.done \in {ctx.done, {}}
          /\ pc' # Idle => ctx'.returnable = ctx.returnable /\ ctx'.newOrder = ctx.newOrder
      BY <2>0, <2>1 DEF Posted, EmptyContext
    <2>3. \A line \in PurchaseLines : renewal'[line] = renewal[line]
      BY <1>0, <2>0, <2>1, ChosenIsDownsized, TakeBackMovesDownsizes DEF Posted
    <2>4. BackQuiet
      BY <1>0, <2>0, <2>1, <2>2 DEF Posted, BackQuiet, Past
    <2>5. NewQuiet
      BY <1>0, <2>1, <2>2, <2>3 DEF NewQuiet, Past, PurchaseLines
    <2>6. LevelInv'
      <3>1. ctx.done = {} /\ \A line \in PurchaseLines : Level(line)
        BY <1>0, <2>1 DEF LevelInv, Past
      <3>2. status # "Completed"
        BY <1>0, <2>1 DEF TypeInv, CalendarOK
      <3>3. QED
        BY <2>1, <2>2, <2>3, <3>1, <3>2, LinesAreConstant DEF LevelInv, Past, Level
    <2>7. QED
      BY <1>0, <2>4, <2>5, <2>6
  <1>5. CASE AwaitReturnOrders("UpdateRenewalQuantitiesDownsizes")
    <2>0. pc = "SubmitReturnOrders" /\ UNCHANGED <<adobeVars, subscribed>>
      BY <1>0, <1>5 DEF AwaitReturnOrders
    <2>1. CASE Wait
      BY <1>0, <2>0, <2>1, EndIsQuiet DEF Quiet, Wait
    <2>2. CASE ~Wait
      <3>1. /\ pc' = "UpdateRenewalQuantitiesDownsizes" /\ UNCHANGED <<status, ctx>>
            /\ Chosen \subseteq ctx.returnOrders \ ctx.pendingReturns
        BY <1>5, <2>2 DEF AwaitReturnOrders, Continue, Goto
      <3>2. DueBack \subseteq Chosen
        BY <1>0, <2>0 DEF BackInv
      <3>3. AllReturned
        BY <1>0, <3>1, <3>2 DEF AllReturned, ChoiceInv
      <3>4. BackInv'
        BY <2>0, <3>1, <3>3, DueBackIsConstant DEF BackInv, AllReturned
      <3>5. NewQuiet /\ LevelQuiet
        BY <1>0, <2>0, <3>1 DEF NewQuiet, LevelQuiet, LevelInv, Past
      <3>6. QED
        BY <1>0, <3>4, <3>5
    <2>3. QED
      BY <2>1, <2>2
  <1>6. QED
    BY <1>1, <1>2, <1>3, <1>4, <1>5 DEF GiveBack, SubmitReturnOrders

-----------------------------------------------------------------------------
(* Adobe.                                                                   *)

\* A purchase of the new items makes them renew as ordered.
LEMMA NewLinesRenew ==
    ASSUME AdobeCooperates, NEW quantity, Process(quantity),
           \A line \in NewLines : quantity[line] = NewQuantity[line],
           \A line \in NewLines : renewal[line] = 0
    PROVE  \A line \in NewLines : renewal'[line] = NewQuantity[line]
  <1> SUFFICES ASSUME NEW line \in NewLines PROVE renewal'[line] = NewQuantity[line]
    OBVIOUS
  <1>1. line \in Lines /\ NewQuantity[line] \in Nat
    BY AdobeSubscriptionsAssumption DEF NewLines
  <1>2. QED
    BY <1>1 DEF Process, Moved, AdobeCooperates

\* A purchase Adobe settles is not one a pass has gone past; nor is a return.
LEMMA AdobeDelivers ==
    ASSUME AdobeCooperates, DeliveredInv, Adobe
    PROVE  BackInv' /\ NewLinesInv' /\ LevelInv'
  <1> USE BackKept, NewLinesKept, LevelKept
  <1>0. /\ SubscriptionsTypeOK /\ newOrders \in Seq(NewOrder)
        /\ returns \in [Purchases -> ReturnStatus]
        /\ ChoiceInv /\ BackInv /\ NewLinesInv /\ LevelInv
        /\ UNCHANGED <<passVars, subscribed>> /\ OneOrderIsPurchase
    BY PurchaseOfOneOrder
       DEF DeliveredInv, PromiseInv, PurchaseInv, TypeInv, StateTypeOK, NewOrderTypeOK, ReturnTypeOK,
           Adobe, AdobeSettlesNewOrder, AdobeSettlesReturnOrder
  <1>1. UNCHANGED <<pc, ctx, status>> /\ \A steps : Past(steps)' <=> Past(steps)
    BY <1>0 DEF passVars, Past
  <1>2. ASSUME NEW id \in DOMAIN newOrders, UNCHANGED returns,
               AdobeCompletesNewOrder(id) \/ AdobeFailsNewOrder(id)
        PROVE  BackInv' /\ NewLinesInv' /\ LevelInv'
    <2>0. id = 1 /\ newOrders # <<>> /\ newOrders[1] \in NewOrder /\ newOrders[1].status = "OPEN"
      BY <1>0, <1>2, LenProperties
         DEF OneOrderIsPurchase, AdobeCompletesNewOrder, AdobeFailsNewOrder
    <2>1. ~Bought /\ ~Past(AfterPurchase)
      BY <1>0, <2>0 DEF Bought, NewLinesInv
    <2>2. ~Past(AfterUpdate) /\ ~Past(AfterDownsizes) /\ ~Past(Completing) /\ pc \notin Updating
      BY <2>1 DEF Past, AfterPurchase, AfterUpdate, AfterReturns, AfterDownsizes, Completing,
         Updating
    <2>3. BackQuiet
      BY <1>1, <1>2 DEF BackQuiet
    <2>4. LevelInv'
      BY <1>0, <1>1, <2>2 DEF LevelInv
    <2>5. PICK s \in {"COMPLETE", "FAILED"} :
            /\ newOrders' = [newOrders EXCEPT ![1].status = s]
            /\ IF s = "COMPLETE" THEN Process(newOrders[1].payload.quantity)
                                 ELSE UNCHANGED subscriptionVars
      BY <1>2, <2>0 DEF AdobeCompletesNewOrder, AdobeFailsNewOrder
    <2>6. newOrders' # <<>> /\ newOrders'[1].status = s
          /\ newOrders'[1].payload = newOrders[1].payload
      <3>1. 1 \in DOMAIN newOrders /\ DOMAIN newOrders' = DOMAIN newOrders
        BY <1>2, <2>0, <2>5
      <3>2. newOrders'[1] = [newOrders[1] EXCEPT !.status = s]
        BY <2>5, <3>1
      <3>3. QED
        BY <2>0, <3>1, <3>2 DEF NewOrder
    <2>7. \A line \in NewLines : newOrders[1].payload.quantity[line] = NewQuantity[line]
                                 /\ renewal[line] = 0
      BY <1>0, <2>0, <2>1 DEF NewLinesInv
    <2>8. \A line \in NewLines : renewal'[line] = IF Bought' THEN NewQuantity[line] ELSE 0
      BY <2>5, <2>6, <2>7, NewLinesRenew DEF Bought
    <2>9. NewLinesInv'
      BY <1>0, <1>1, <2>1, <2>2, <2>6, <2>7, <2>8, LinesAreConstant
         DEF NewLinesInv, Past
    <2>10. QED
      BY <1>0, <2>3, <2>4, <2>9
  <1>3. ASSUME NEW id \in DOMAIN newOrders
        PROVE  ~AdobeCancelsReturnedOrder(id)
    BY DEF AdobeCancelsReturnedOrder, DeliveredInv, PromiseInv, NoErrorInv
  <1>4. ASSUME NEW p \in Purchases, returns[p] = "OPEN", UNCHANGED newOrders,
               \/ returns' = [returns EXCEPT ![p] = "COMPLETE"] /\ TakeBack(p)
               \/ returns' = [returns EXCEPT ![p] = "none"] /\ UNCHANGED subscriptionVars
        PROVE  BackInv' /\ NewLinesInv' /\ LevelInv'
    <2>1. p \in DueBack /\ PurchaseLine[p] \in DownsizeLines
      BY <1>0, <1>4, ReturnedIsDue DEF Returned, ChoiceInv
    <2>2. ~Past(AfterReturns)
      BY <1>0, <1>4, <2>1 DEF BackInv, AllReturned
    <2>3. ~Past(AfterDownsizes) /\ pc # "UpdateRenewalQuantitiesDownsizes"
      BY <2>2 DEF Past, AfterReturns, AfterDownsizes
    <2>4. \A line \in PurchaseLines : renewal'[line] = renewal[line]
      BY <1>0, <1>4, <2>1, TakeBackMovesDownsizes
    <2>5. BackQuiet
      BY <1>0, <1>1, <1>4 DEF BackQuiet
    <2>6. NewQuiet
      BY <1>0, <1>1, <1>4, <2>4 DEF NewQuiet, PurchaseLines
    <2>7. LevelInv'
      BY <1>0, <1>1, <2>3, <2>4, LinesAreConstant DEF LevelInv, Level, Updating
    <2>8. QED
      BY <1>0, <2>5, <2>6, <2>7
  <1>5. QED
    BY <1>2, <1>3, <1>4 DEF Adobe, AdobeSettlesNewOrder, AdobeSettlesReturnOrder

-----------------------------------------------------------------------------
(* Buying.                                                                  *)

\* A preview buys the new items as ordered.
LEMMA PreviewBuysNewLines ==
    ASSUME NEW line \in NewLines
    PROVE  /\ PreviewOf(Offer) # NoPreview
           /\ PreviewOf(Offer).quantity[line] = NewQuantity[line]
  <1>1. line \in Lines /\ PurchaseQuantity(line) = NewQuantity[line] /\ NewQuantity[line] # 0
    BY AdobeSubscriptionsAssumption DEF PurchaseQuantity, NewLines, UpsizeLines, DownsizeLines
  <1>2. PreviewOf(Offer) = [quantity |-> [l \in Lines |-> PurchaseQuantity(l)],
                            offer    |-> Offer]
    BY <1>1 DEF PreviewOf
  <1>3. DOMAIN PreviewOf(Offer) = {"quantity", "offer"} /\ DOMAIN NoPreview = {"offer"}
    BY <1>2 DEF NoPreview
  <1>4. QED
    BY <1>1, <1>2, <1>3

\* The one order on Adobe's list is the first.
LEMMA OneOrderIsFirst ==
    ASSUME OneOrderIsPurchase, NEW id \in 0 .. Len(newOrders), id # 0
    PROVE  newOrders # <<>> /\ id = 1
  <1>1. CASE newOrders = <<>>
    <2>1. Len(newOrders) = 0
      BY <1>1
    <2>2. QED
      BY <2>1
  <1>2. CASE newOrders # <<>>
    <2>1. Len(newOrders) = 1
      BY <1>2 DEF OneOrderIsPurchase
    <2>2. QED
      BY <1>2, <2>1
  <1>3. QED
    BY <1>1, <1>2

\* A pass goes past SubmitNewOrder with what is ordered bought.
LEMMA BuyDelivers ==
    ASSUME AdobeCooperates, DeliveredInv, Buy
    PROVE  BackInv' /\ NewLinesInv' /\ LevelInv'
  <1> USE DEF Updating, AfterChoice, AfterPurchase, AfterUpdate, AfterReturns, AfterDownsizes,
              Completing
  <1> USE BackKept, NewLinesKept, LevelKept
  <1>0. /\ TypeInv /\ PromiseInv /\ ctx \in Context /\ newOrders \in Seq(NewOrder)
        /\ BackInv /\ NewLinesInv /\ LevelInv /\ OneOrderIsPurchase
        /\ UNCHANGED <<returns, subscribed>> /\ pc \notin Updating
    BY PurchaseOfOneOrder
       DEF DeliveredInv, PromiseInv, PurchaseInv, TypeInv, StateTypeOK, NewOrderTypeOK, Buy,
           GetPreviewOrder, UpdatePrices, SubmitNewOrder, SkipNewOrder, PlaceNewOrder,
           SaveNewOrder, FetchNewOrder
  <1>1. ASSUME EndPass, UNCHANGED <<newOrders, subscriptionVars>>,
               status' = "Completed" => status = "Completed"
        PROVE  BackInv' /\ NewLinesInv' /\ LevelInv'
    BY <1>0, <1>1, EndIsQuiet DEF Quiet
  <1>2. CASE GetPreviewOrder("UpdatePrices")
    <2>1. CASE switch_order_to_failed
      BY <1>1, <1>2, <2>1 DEF GetPreviewOrder, switch_order_to_failed, Decide
    <2>2. CASE ~switch_order_to_failed
      <3>1. /\ ctx'.returnable = ctx.returnable /\ ctx'.done = ctx.done
            /\ pc = "GetPreviewOrder" /\ pc' = "UpdatePrices"
            /\ UNCHANGED <<status, subscriptionVars, newOrders>>
        BY <1>0, <1>2, <2>2 DEF GetPreviewOrder, Continue, Goto, Context
      <3>2. Quiet
        BY <1>0, <3>1, GoOnIsQuiet
      <3>3. QED
        BY <1>0, <3>2 DEF Quiet
    <2>3. QED
      BY <2>1, <2>2
  <1>3. CASE UpdatePrices("SubmitNewOrder")
    <2>1. ctx'.returnable = ctx.returnable /\ ctx'.done = ctx.done
      BY <1>0, <1>3 DEF UpdatePrices, Context
    <2>2. Quiet
      BY <1>0, <1>3, <2>1, GoOnIsQuiet DEF UpdatePrices, Goto
    <2>3. QED
      BY <1>0, <2>2 DEF Quiet
  <1>4. ASSUME pc \in {"SubmitNewOrder", "SaveNewOrder"}, pc' = "UpdateRenewalQuantities",
               ctx'.returnable = ctx.returnable, ctx'.done = ctx.done,
               UNCHANGED <<status, newOrders, subscriptionVars>>,
               \/ NewLines = {} /\ newOrders = <<>>
               \/ Bought /\ ctx'.newOrder # "none"
        PROVE  BackInv' /\ NewLinesInv' /\ LevelInv'
    <2>1. status # "Completed"
      BY <1>0, <1>4 DEF TypeInv, CalendarOK
    <2>2. BackQuiet /\ LevelQuiet
      BY <1>0, <1>4 DEF BackQuiet, LevelQuiet, LevelInv, Past
    <2>3. Bought' = Bought
      BY <1>4 DEF Bought
    <2>4. NewLinesInv'
      BY <1>0, <1>4, <2>1, <2>3, LinesAreConstant DEF NewLinesInv, Past
    <2>5. QED
      BY <1>0, <2>2, <2>4
  <1>5. CASE SkipNewOrder("UpdateRenewalQuantities")
    <2>1. NewLines = {} /\ newOrders = <<>>
      <3>1. CASE PurchaseLines = {}
        BY <1>0, <3>1 DEF PromiseInv, OneOrderInv, PurchaseLines
      <3>2. CASE PurchaseLines # {} /\ ctx.newOrderId = 0 /\ ctx.preview = NoPreview
        BY <1>0, <1>5, <3>2, PreviewIsOrder, PreviewBuysNewLines DEF SkipNewOrder, Previewed
      <3>3. QED
        BY <1>5, <3>1, <3>2 DEF SkipNewOrder
    <2>2. QED
      BY <1>4, <1>5, <2>1 DEF SkipNewOrder, Continue, Goto
  <1>6. ASSUME NEW id, NEW orderStatus, FollowOrder("UpdateRenewalQuantities", id, orderStatus),
               UNCHANGED <<newOrders, subscriptionVars>>,
               pc \in {"SubmitNewOrder", "SaveNewOrder"},
               orderStatus = "COMPLETE" => Bought
        PROVE  BackInv' /\ NewLinesInv' /\ LevelInv'
    <2>1. CASE orderStatus = "COMPLETE"
      <3>1. /\ ctx' = [ctx EXCEPT !.newOrderId = id, !.newOrder = orderStatus]
            /\ pc' = "UpdateRenewalQuantities" /\ UNCHANGED status
        BY <1>6, <2>1 DEF FollowOrder, Goto
      <3>2. ctx'.returnable = ctx.returnable /\ ctx'.done = ctx.done
            /\ ctx'.newOrder = orderStatus
        BY <1>0, <3>1 DEF Context
      <3>3. QED
        BY <1>4, <1>6, <2>1, <3>1, <3>2
    <2>2. CASE orderStatus # "COMPLETE"
      <3>1. EndPass /\ (status' = "Completed" => status = "Completed")
        BY <1>6, <2>2 DEF FollowOrder
      <3>2. QED
        BY <1>1, <1>6, <3>1
    <2>3. QED
      BY <2>1, <2>2
  <1>7. CASE SaveNewOrder("UpdateRenewalQuantities")
    <2>1. ctx.newOrderId # 0 /\ ctx.newOrderId \in 0 .. Len(newOrders)
      BY <1>0, <1>7 DEF SaveNewOrder, PromiseInv, PurchaseInv, Unrecorded, TypeInv, StateTypeOK,
         NewOrderTypeOK
    <2>2. ctx.newOrder = "COMPLETE" => Processed(ctx.newOrderId)
      BY <1>0, <1>7 DEF SaveNewOrder, PromiseInv, PurchaseInv, Unrecorded
    <2>3. ctx.newOrder = "COMPLETE" => Bought
      <3>1. newOrders # <<>> /\ ctx.newOrderId = 1
        BY <1>0, <2>1, OneOrderIsFirst
      <3>2. QED
        BY <1>0, <2>2, <3>1
           DEF Bought, Processed, OneOrderIsPurchase, PromiseInv, NoErrorInv
    <2>4. QED
      BY <1>6, <1>7, <2>3 DEF SaveNewOrder
  <1>8. CASE FetchNewOrder("UpdateRenewalQuantities")
    <2>1. ctx.newOrderId # 0 /\ ctx.newOrderId \in 0 .. Len(newOrders)
      BY <1>0, <1>8 DEF FetchNewOrder, TypeInv, StateTypeOK, NewOrderTypeOK
    <2>2. newOrders # <<>> /\ ctx.newOrderId = 1
      BY <1>0, <2>1, OneOrderIsFirst
    <2>3. QED
      BY <1>6, <1>8, <2>2 DEF FetchNewOrder, Bought
  <1>9. CASE PlaceNewOrder
    <2>0. /\ pc = "SubmitNewOrder" /\ PurchaseLines # {} /\ ctx.newOrderId = 0
          /\ pc' = "SaveNewOrder" /\ UNCHANGED status /\ status # "Completed"
      BY <1>0, <1>9 DEF PlaceNewOrder, Goto, TypeInv, CalendarOK
    <2>1. /\ ctx.preview = PreviewOf(Offer)
          /\ newOrders # <<>> => newOrders = <<newOrders[1]>> /\ newOrders[1].payload = ctx.preview
      BY <1>0, <2>0, PreviewIsOrder DEF Previewed
    <2>2. ctx'.returnable = ctx.returnable /\ ctx'.done = ctx.done
      <3>1. \E id, orderStatus : ctx' = [ctx EXCEPT !.newOrderId = id, !.newOrder = orderStatus]
        BY <1>9, Zenon DEF PlaceNewOrder
      <3>2. QED
        BY <1>0, <3>1 DEF Context
    <2>3. BackQuiet
      BY <1>0, <2>0, <2>2 DEF BackQuiet, Past
    <2>4. LevelInv'
      BY <1>0, <2>0, <2>2, LinesAreConstant DEF LevelInv, Past
    <2>5. CASE newOrders # <<>>
      <3>1. {i \in DOMAIN newOrders : newOrders[i].payload = ctx.preview} # {}
        BY <1>0, <2>1, <2>5 DEF OneOrderIsPurchase
      <3>2. UNCHANGED <<newOrders, subscriptionVars>>
        BY <1>9, <3>1 DEF PlaceNewOrder, AdobeCooperates
      <3>3. NewQuiet
        BY <1>0, <2>0, <3>2 DEF NewQuiet, Past
      <3>4. QED
        BY <1>0, <2>3, <2>4, <3>3
    <2>6. CASE newOrders = <<>>
      <3>1. PICK orderStatus \in {"OPEN", "COMPLETE"} :
              /\ newOrders' = Append(newOrders, [payload |-> ctx.preview, status |-> orderStatus,
                                                  returned |-> "none"])
              /\ IF orderStatus = "COMPLETE" THEN Process(ctx.preview.quantity)
                                              ELSE UNCHANGED subscriptionVars
        <4>1. {i \in DOMAIN newOrders : newOrders[i].payload = ctx.preview} = {}
          BY <2>6
        <4>2. QED
          BY <1>9, <4>1, Zenon DEF PlaceNewOrder
      <3>2. newOrders' # <<>> /\ newOrders'[1].payload = ctx.preview
            /\ newOrders'[1].status = orderStatus
        BY <2>6, <3>1
      <3>3. ~Bought /\ (Bought' <=> orderStatus = "COMPLETE")
        BY <2>6, <3>2 DEF Bought
      <3>4. \A line \in NewLines : ctx.preview.quantity[line] = NewQuantity[line]
        BY <2>1, PreviewBuysNewLines
      <3>5. \A line \in NewLines : renewal[line] = 0
        BY <1>0, <3>3 DEF NewLinesInv
      <3>6. \A line \in NewLines : renewal'[line] = IF Bought' THEN NewQuantity[line] ELSE 0
        BY <3>1, <3>3, <3>4, <3>5, NewLinesRenew
      <3>7. NewLinesInv'
        BY <1>0, <2>0, <3>2, <3>3, <3>4, <3>6, LinesAreConstant DEF NewLinesInv, Past
      <3>8. QED
        BY <1>0, <2>3, <2>4, <3>7
    <2>7. QED
      BY <2>5, <2>6
  <1>10. QED
    BY <1>2, <1>3, <1>5, <1>7, <1>8, <1>9 DEF Buy, SubmitNewOrder

-----------------------------------------------------------------------------
(* The renewal quantities, publishing and completing.                       *)

\* With every line of its part handled, a loop leaves the part level: the
\* lines without a subscription are new ones, and renew as bought.
LEMMA UpdateDelivers ==
    ASSUME AdobeCooperates, DeliveredInv, Update
    PROVE  BackInv' /\ NewLinesInv' /\ LevelInv'
  <1> USE DEF Updating, AfterChoice, AfterPurchase, AfterUpdate, AfterReturns, AfterDownsizes,
              Completing
  <1> USE BackKept, NewLinesKept
  <1>0. /\ TypeInv /\ ctx \in Context /\ renewal \in [Lines -> Nat]
        /\ ctx.error = "none" /\ pc \notin RollingBack
        /\ BackInv /\ NewLinesInv /\ LevelInv
    BY DEF DeliveredInv, PromiseInv, PurchaseInv, TypeInv, StateTypeOK, SubscriptionsTypeOK, NoErrorInv
  <1>1. ASSUME NEW step \in Updating, NEW line \in Lines, UpdateLine(step, line)
        PROVE  BackInv' /\ NewLinesInv' /\ LevelInv'
    <2>1. /\ pc = step /\ pc' = pc /\ line \in subscribed /\ line \in UpdatedBy(step)
          /\ UNCHANGED <<status, newOrders, returns, subscribed>>
          /\ renewal' = [renewal EXCEPT ![line] = NewQuantity[line]] \/ UNCHANGED renewal
          /\ UNCHANGED renewal => Level(line)
      BY <1>0, <1>1 DEF UpdateLine, AdobeCooperates, Level
    <2>2. ctx'.returnable = ctx.returnable /\ ctx'.newOrder = ctx.newOrder
          /\ ctx'.done = ctx.done \cup {line}
      BY <1>0, <1>1 DEF UpdateLine, AdobeCooperates, Context
    <2>3. /\ renewal'[line] = NewQuantity[line]
          /\ \A l \in Lines : l # line => renewal'[l] = renewal[l]
      BY <1>0, <2>1 DEF Level
    <2>4. BackQuiet
      BY <2>1, <2>2 DEF BackQuiet, Past
    <2>5. NewQuiet
      <3>1. line \in NewLines => renewal[line] = NewQuantity[line]
        BY <1>0, <2>1 DEF NewLinesInv
      <3>2. NewLines \subseteq Lines
        BY DEF NewLines
      <3>3. QED
        BY <2>1, <2>2, <2>3, <3>1, <3>2 DEF NewQuiet, Past
    <2>6. LevelInv'
      <3>1. \A l \in Lines : Level(l) => Level(l)'
        BY <2>3 DEF Level
      <3>2. PurchaseLines \subseteq Lines /\ DownsizeLines \subseteq Lines /\ Level(line)'
        BY <2>3 DEF PurchaseLines, UpsizeLines, NewLines, DownsizeLines, Level
      <3>3. ctx.done \subseteq Lines
        BY <1>0 DEF Context
      <3>4. step = "UpdateRenewalQuantities" => line \in PurchaseLines
        BY <2>1 DEF UpdatedBy
      <3>5. QED
        BY <1>0, <2>1, <2>2, <3>1, <3>2, <3>3, <3>4, LinesAreConstant DEF LevelInv, Past
    <2>7. QED
      BY <1>0, <2>4, <2>5, <2>6
  <1>2. ASSUME NEW step \in Updating, NEW next, LinesUpdated(step, next),
               \/ step = "UpdateRenewalQuantities" /\ next = "SubmitReturnOrders"
               \/ step = "UpdateRenewalQuantitiesDownsizes" /\ next = "CreateOrUpdateAssets"
        PROVE  BackInv' /\ NewLinesInv' /\ LevelInv'
    <2>1. /\ pc = step /\ pc' = next /\ status' = status /\ status # "Completed"
          /\ UNCHANGED <<adobeVars, subscribed>> /\ UpdatedBy(step) \cap subscribed \subseteq ctx.done
      BY <1>0, <1>2 DEF LinesUpdated, Goto, TypeInv, CalendarOK
    <2>2. ctx'.returnable = ctx.returnable /\ ctx'.newOrder = ctx.newOrder /\ ctx'.done = {}
      BY <1>0, <1>2 DEF LinesUpdated, Context
    <2>3. \A line \in UpdatedBy(step) : Level(line)
      <3> SUFFICES ASSUME NEW line \in UpdatedBy(step) PROVE Level(line)
        OBVIOUS
      <3>1. line \in Lines
        BY DEF UpdatedBy, PurchaseLines, UpsizeLines, NewLines, DownsizeLines
      <3>2. CASE line \in subscribed
        BY <1>0, <2>1, <3>2 DEF LevelInv
      <3>3. CASE line \notin subscribed
        BY <1>0, <2>1, <3>1, <3>3 DEF NewLinesInv, Past, Level
      <3>4. QED
        BY <3>2, <3>3
    <2>4. \A line : Level(line)' = Level(line)
      BY <2>1 DEF Level
    <2>5. BackQuiet /\ NewQuiet
      BY <1>2, <2>1, <2>2 DEF BackQuiet, NewQuiet, Past
    <2>6. LevelInv'
      <3>1. CASE step = "UpdateRenewalQuantities"
        BY <1>2, <2>1, <2>2, <2>3, <2>4, <3>1, LinesAreConstant DEF LevelInv, Past, UpdatedBy
      <3>2. CASE step = "UpdateRenewalQuantitiesDownsizes"
        BY <1>0, <1>2, <2>1, <2>2, <2>3, <2>4, <3>2, LinesAreConstant
           DEF LevelInv, Past, UpdatedBy
      <3>3. QED
        BY <3>1, <3>2
    <2>7. QED
      BY <1>0, <2>5, <2>6
  <1>3. ~(RestoreLine \/ ReturnNewOrder \/ RollbackEnds \/ RolledBack)
    BY <1>0 DEF RestoreLine, ReturnNewOrder, RollbackEnds, RolledBack, RollingBack
  <1>4. QED
    BY <1>1, <1>2, <1>3 DEF Update, UpdateRenewalQuantities

\* Every new item Adobe activated gets its subscription before the order is
\* completed.
LEMMA PublishDelivers ==
    ASSUME AdobeCooperates, DeliveredInv, Publish
    PROVE  BackInv' /\ NewLinesInv' /\ LevelInv'
  <1> USE DEF Updating, AfterChoice, AfterPurchase, AfterUpdate, AfterReturns, AfterDownsizes,
              Completing
  <1> USE BackKept, NewLinesKept, LevelKept
  <1>0. /\ TypeInv /\ ctx \in Context /\ newOrders \in Seq(NewOrder)
        /\ BackInv /\ NewLinesInv /\ LevelInv /\ OneOrderIsPurchase
        /\ UNCHANGED adobeVars
        /\ (ctx.newOrder # "none" => ctx.newOrderId \in 0 .. Len(newOrders) /\ ctx.newOrderId # 0)
    BY PurchaseOfOneOrder
       DEF DeliveredInv, PromiseInv, PurchaseInv, TypeInv, StateTypeOK, NewOrderTypeOK, Publish,
           CreateOrUpdateAssets, CreateOrUpdateSubscriptions
  <1>1. CASE CreateOrUpdateAssets("CreateOrUpdateSubscriptions")
    <2>1. pc = "CreateOrUpdateAssets" /\ UNCHANGED subscribed
      BY <1>1 DEF CreateOrUpdateAssets
    <2>2. Quiet
      <3>1. CASE Wait
        BY <1>0, <2>1, <3>1, EndIsQuiet DEF Wait
      <3>2. CASE Continue("CreateOrUpdateSubscriptions")
        BY <1>0, <2>1, <3>2, GoOnIsQuiet DEF Continue, Goto
      <3>3. QED
        BY <1>1, <3>1, <3>2 DEF CreateOrUpdateAssets
    <2>3. QED
      BY <1>0, <2>2 DEF Quiet
  <1>2. CASE CreateOrUpdateSubscriptions("CompleteOrder")
    <2>0. pc = "CreateOrUpdateSubscriptions" /\ UNCHANGED <<status, ctx>>
          /\ pc' \in {pc, "CompleteOrder"} /\ status # "Completed"
      BY <1>0, <1>2 DEF CreateOrUpdateSubscriptions, passVars, Continue, Goto, TypeInv, CalendarOK
    <2>1. BackQuiet /\ LevelQuiet
      BY <1>0, <2>0 DEF BackQuiet, LevelQuiet, LevelInv, Past
    <2>2. Bought' = Bought
      BY <1>0 DEF Bought
    <2>3. newOrders # <<>> => Bought /\ ctx.newOrder # "none" /\ ctx.newOrderId = 1
      BY <1>0, <2>0, OneOrderIsFirst DEF NewLinesInv, Past
    <2>4. CASE \E line \in ToSubscribe : subscribed' = subscribed \cup {line} /\ UNCHANGED passVars
      <3>1. Bought
        BY <1>0, <2>3, <2>4 DEF ToSubscribe, OneOrderIsPurchase
      <3>2. NewLinesInv'
        BY <1>0, <2>0, <2>2, <2>4, <3>1, LinesAreConstant DEF NewLinesInv, Past, passVars
      <3>3. QED
        BY <1>0, <2>1, <3>2
    <2>5. CASE ToSubscribe = {} /\ Continue("CompleteOrder") /\ UNCHANGED subscribed
      <3>1. NewLines \ InactiveLines \subseteq subscribed
        <4> SUFFICES ASSUME NEW line \in NewLines \ InactiveLines PROVE line \in subscribed
          OBVIOUS
        <4>1. Bought /\ newOrders # <<>>
          BY <1>0, <2>0 DEF NewLinesInv, Past, Bought
        <4>2. line \in Lines /\ NewQuantity[line] > 0
          BY AdobeSubscriptionsAssumption DEF NewLines, UpsizeLines, DownsizeLines
        <4>3. newOrders[1].payload.quantity[line] > 0
          BY <1>0, <4>1, <4>2 DEF NewLinesInv
        <4>4. QED
          BY <2>3, <2>5, <4>1, <4>2, <4>3 DEF ToSubscribe, Ordered
      <3>2. NewLinesInv'
        BY <1>0, <2>0, <2>2, <2>5, <3>1, LinesAreConstant DEF NewLinesInv, Past
      <3>3. QED
        BY <1>0, <2>1, <3>2
    <2>6. QED
      BY <1>2, <2>4, <2>5 DEF CreateOrUpdateSubscriptions
  <1>3. CASE CompleteOrder /\ UNCHANGED <<adobeVars, subscribed>>
    <2>1. Quiet
      BY <1>0, <1>3 DEF CompleteOrder, Decide, EndPass, EmptyContext, Quiet, BackQuiet, NewQuiet,
         LevelQuiet, Past
    <2>2. QED
      BY <1>0, <2>1 DEF Quiet
  <1>4. QED
    BY <1>1, <1>2, <1>3 DEF Publish

-----------------------------------------------------------------------------
(* The theorem.                                                             *)

\* The invariant holds of an order nothing was done for.
LEMMA DeliveredInvInit == Init => DeliveredInv
  <1> SUFFICES ASSUME Init PROVE DeliveredInv
    OBVIOUS
  <1>1. /\ pc = Idle /\ status = "Processing" /\ ctx.done = {} /\ newOrders = <<>>
        /\ subscribed = Lines \ NewLines /\ renewal = FirstRenewal
    BY DEF Init, PassInit, EmptyContext, NewOrderInit, SubscriptionsInit
  <1>2. BackInv /\ LevelInv
    BY <1>1 DEF BackInv, LevelInv, Past, AfterChoice, AfterReturns, AfterUpdate,
       AfterDownsizes, Updating
  <1>3. \A line \in NewLines : renewal[line] = 0
    BY <1>1, AdobeSubscriptionsAssumption DEF NewLines, UpsizeLines, DownsizeLines
  <1>4. NewLinesInv
    BY <1>1, <1>3 DEF NewLinesInv, Bought, Past, AfterPurchase, Completing
  <1>5. QED
    BY <1>2, <1>4, PromiseInvInit, ChoiceInvInit DEF DeliveredInv

\* Every step keeps it.
LEMMA DeliveredInvStep ==
    ASSUME AdobeCooperates, ReturnsAreOpen, DeliveredInv, [Next]_vars
    PROVE  DeliveredInv'
  <1>1. PromiseInv' /\ ChoiceInv'
    BY PromiseInvStep, ChoiceInvStep DEF DeliveredInv, PromiseInv, PurchaseInv, ReturnsAreOpen
  <1>2. ASSUME Quiet
        PROVE  BackInv' /\ NewLinesInv' /\ LevelInv'
    BY <1>2, BackKept, NewLinesKept, LevelKept DEF Quiet, DeliveredInv
  <1>3. CASE UNCHANGED vars
    <2>1. Quiet
      BY <1>3 DEF vars, passVars, Quiet, BackQuiet, NewQuiet, LevelQuiet, Past
    <2>2. QED
      BY <1>1, <1>2, <2>1 DEF DeliveredInv
  <1>4. CASE Next
    <2>1. BackInv' /\ NewLinesInv' /\ LevelInv'
      BY <1>2, <1>4, PlatformIsQuiet, PrepareIsQuiet, AdobeDelivers, BuyDelivers,
         GiveBackDelivers, UpdateDelivers, PublishDelivers DEF Next, Step, DeliveredInv
    <2>2. QED
      BY <1>1, <2>1 DEF DeliveredInv
  <1>5. QED
    BY <1>3, <1>4

\* A completed order has served every line, as long as Adobe cooperates and
\* goes on accepting the returns: Adobe took all that was due back or nothing
\* matched the downsize, every subscription renews as ordered, and every new
\* item Adobe activated has one (SubmitReturnOrders, UpdateRenewalQuantities
\* and CreateOrUpdateSubscriptions before CompleteOrder, over all passes).
THEOREM CompletedIsDeliveredCorrect ==
    AdobeCooperates /\ ReturnsAreOpen => (Spec => []CompletedIsDelivered)
  <1> SUFFICES ASSUME AdobeCooperates, ReturnsAreOpen PROVE Spec => []CompletedIsDelivered
    OBVIOUS
  <1>1. DeliveredInv => CompletedIsDelivered
    <2> SUFFICES ASSUME DeliveredInv, status = "Completed"
                 PROVE  /\ \A line \in DownsizeLines :
                              Quantity(ReturnedOf(line)) \in {0, Downsize(line)}
                        /\ \A p \in Purchases : returns[p] # "OPEN"
                        /\ \A line \in subscribed : renewal[line] = NewQuantity[line]
                        /\ NewLines \ InactiveLines \subseteq subscribed
      BY DEF CompletedIsDelivered
    <2>1. AllReturned /\ ChoiceInv
      BY DEF DeliveredInv, BackInv, Past
    <2>2. ASSUME NEW line \in DownsizeLines
          PROVE  Quantity(ReturnedOf(line)) \in {0, Downsize(line)}
      <3>1. ToReturn(line) \subseteq ReturnedOf(line)
        BY <2>1, ToReturnAddsUp DEF AllReturned, DueBack, ReturnedOf, Returned
      <3>2. ReturnedOf(line) \subseteq ToReturn(line)
        BY <2>1 DEF ReturnedOf, ChoiceInv
      <3>3. QED
        BY <3>1, <3>2, ToReturnAddsUp
    <2>3. ASSUME NEW p \in Purchases
          PROVE  returns[p] # "OPEN"
      BY <2>1, ReturnedIsDue DEF AllReturned, Returned
    <2>4. ASSUME NEW line \in subscribed
          PROVE  renewal[line] = NewQuantity[line]
      <3>1. line \in PurchaseLines \cup DownsizeLines
        BY DEF DeliveredInv, PromiseInv, PurchaseInv, TypeInv, StateTypeOK, PurchaseLines, NewLines
      <3>2. QED
        BY <3>1 DEF DeliveredInv, LevelInv, Past, Level
    <2>5. NewLines \ InactiveLines \subseteq subscribed
      BY DEF DeliveredInv, NewLinesInv, Past
    <2>6. QED
      BY <2>2, <2>3, <2>4, <2>5
  <1>2. Init => DeliveredInv
    BY DeliveredInvInit
  <1>3. DeliveredInv /\ [Next]_vars => DeliveredInv'
    BY DeliveredInvStep
  <1>4. QED
    BY <1>1, <1>2, <1>3, PTL DEF Spec

-----------------------------------------------------------------------------
(* Nothing is bought beyond what is ordered.                                *)

\* What NeverOverbought owes to the order: the quantities that renew at first
\* are those the order starts from, and there is something left to buy if any
\* line asks for more.
RenewsAsOrdered == \A line \in Lines : FirstRenewal[line] = OldQuantity[line]

\* What a line has to buy at first: licences held beyond what renews count.
FirstUnrenewed(line) ==
    IF FirstRenewal[line] < FirstCurrent[line] THEN FirstCurrent[line] - FirstRenewal[line] ELSE 0
ToBuy(line) ==
    LET quantity == NewQuantity[line] - OldQuantity[line] - FirstUnrenewed(line)
    IN  IF line \in NewLines THEN NewQuantity[line]
        ELSE IF line \in UpsizeLines /\ quantity > 0 THEN quantity ELSE 0

SomethingToBuy == PurchaseLines # {} => \E line \in Lines : ToBuy(line) > 0

\* Until an order is on record, what a line has to buy is what it was at
\* first; one order at most is processed, and it buys just that.
HeldOf(line) == IF Bought THEN FirstCurrent[line] + ToBuy(line) ELSE FirstCurrent[line]
RenewedOf(line) == IF Bought THEN FirstRenewal[line] + ToBuy(line) ELSE FirstRenewal[line]

BoughtInv ==
    /\ \A line \in PurchaseLines : current[line] = HeldOf(line)
    /\ newOrders # <<>> => \A line \in Lines : newOrders[1].payload.quantity[line] = ToBuy(line)
    /\ vendorId = 0 => \A line \in PurchaseLines : renewal[line] = RenewedOf(line)
    /\ Past(AfterPurchase) => PurchaseLines = {} \/ newOrders # <<>>

\* What a line has to buy is a quantity.
LEMMA ToBuyType ==
    ASSUME NEW line \in Lines
    PROVE  /\ ToBuy(line) \in Nat /\ FirstUnrenewed(line) \in Nat
           /\ ToBuy(line)' = ToBuy(line)
           /\ line \in DownsizeLines => ToBuy(line) = 0
  BY AdobeSubscriptionsAssumption
     DEF ToBuy, FirstUnrenewed, NewLines, UpsizeLines, DownsizeLines

\* Behind SubmitNewOrder the one order is bought and on record.
LEMMA PastIsBought ==
    ASSUME PromiseInv, Past(AfterPurchase), newOrders # <<>>
    PROVE  Bought /\ vendorId # 0
  <1>1. vendorId # 0 /\ vendorId \in 0 .. Len(newOrders)
    BY DEF Past, PromiseInv, OneOrderInv, PurchaseInv, TypeInv, StateTypeOK, NewOrderTypeOK
  <1>2. OneOrderIsPurchase
    BY PurchaseOfOneOrder
  <1>3. vendorId = 1 /\ Processed(vendorId)
    BY <1>1, <1>2, OneOrderIsFirst DEF Past, PromiseInv, PurchaseInv, PurchaseWaitedFor
  <1>4. QED
    BY <1>1, <1>2, <1>3 DEF Bought, Processed, OneOrderIsPurchase, PromiseInv, NoErrorInv

\* Until an order is on record every pass previews what is to be bought.
LEMMA PreviewsToBuy ==
    ASSUME BoughtInv, SubscriptionsTypeOK, vendorId = 0
    PROVE  \A line \in Lines : PurchaseQuantity(line) = ToBuy(line)
  <1> SUFFICES ASSUME NEW line \in Lines PROVE PurchaseQuantity(line) = ToBuy(line)
    OBVIOUS
  <1>1. CASE line \in UpsizeLines
    <2>1. line \in PurchaseLines
      BY <1>1 DEF PurchaseLines
    <2>2. /\ current[line] = HeldOf(line) /\ renewal[line] = RenewedOf(line)
          /\ ToBuy(line) \in Nat
      BY <2>1, ToBuyType DEF BoughtInv
    <2>3. FirstCurrent[line] \in Nat /\ FirstRenewal[line] \in Nat
      BY AdobeSubscriptionsAssumption
    <2>4. FirstUnrenewed(line) = IF renewal[line] < current[line]
                                    THEN current[line] - renewal[line] ELSE 0
      <3> DEFINE bought == ToBuy(line)
      <3> HIDE DEF bought
      <3>1. \/ current[line] = FirstCurrent[line] /\ renewal[line] = FirstRenewal[line]
            \/ /\ current[line] = FirstCurrent[line] + bought
               /\ renewal[line] = FirstRenewal[line] + bought
        BY <2>2 DEF HeldOf, RenewedOf, bought
      <3>2. bought \in Nat
        BY <2>2 DEF bought
      <3>3. QED
        BY <2>3, <3>1, <3>2 DEF FirstUnrenewed
    <2>5. QED
      BY <2>4 DEF PurchaseQuantity, ToBuy
  <1>2. CASE line \notin UpsizeLines
    BY <1>2 DEF PurchaseQuantity, ToBuy
  <1>3. QED
    BY <1>1, <1>2

\* With something to buy there is a preview, and it buys that.
LEMMA PreviewBuys ==
    ASSUME BoughtInv, SubscriptionsTypeOK, vendorId = 0
    PROVE  /\ SomethingToBuy /\ PurchaseLines # {} => PreviewOf(Offer) # NoPreview
           /\ PreviewOf(Offer) # NoPreview =>
                 \A line \in Lines : PreviewOf(Offer).quantity[line] = ToBuy(line)
  <1> DEFINE preview == [quantity |-> [l \in Lines |-> PurchaseQuantity(l)], offer |-> Offer]
  <1>1. \A line \in Lines : PurchaseQuantity(line) = ToBuy(line)
    BY PreviewsToBuy
  <1>2. DOMAIN preview = {"quantity", "offer"} /\ DOMAIN NoPreview = {"offer"}
        /\ \A line \in Lines : preview.quantity[line] = PurchaseQuantity(line)
    BY DEF NoPreview
  <1>3. PreviewOf(Offer) = IF \A line \in Lines : PurchaseQuantity(line) = 0
                             THEN NoPreview ELSE preview
    BY DEF PreviewOf
  <1>4. SomethingToBuy /\ PurchaseLines # {} => \E line \in Lines : PurchaseQuantity(line) # 0
    BY <1>1, ToBuyType DEF SomethingToBuy
  <1> HIDE DEF preview
  <1>5. QED
    BY <1>1, <1>2, <1>3, <1>4

\* A step that buys nothing keeps the invariant.
LEMMA BoughtKept ==
    ASSUME BoughtInv, UNCHANGED newOrders,
           \A line \in PurchaseLines : current'[line] = current[line],
           vendorId' = 0 =>
              vendorId = 0 /\ \A line \in PurchaseLines : renewal'[line] = renewal[line],
           Past(AfterPurchase)' =>
              Past(AfterPurchase) \/ PurchaseLines = {} \/ newOrders # <<>>
    PROVE  BoughtInv'
  <1>1. \A line : HeldOf(line)' = HeldOf(line) /\ RenewedOf(line)' = RenewedOf(line)
                  /\ ToBuy(line)' = ToBuy(line)
    BY LinesAreConstant DEF HeldOf, RenewedOf, Bought, ToBuy, FirstUnrenewed
  <1>2. QED
    BY <1>1, LinesAreConstant DEF BoughtInv

\* Adobe processes the purchase.
LEMMA ProcessBuys ==
    ASSUME AdobeCooperates, SubscriptionsTypeOK, BoughtInv, ~Bought, Bought',
           NEW quantity, \A line \in Lines : quantity[line] = ToBuy(line), Process(quantity)
    PROVE  /\ \A line \in PurchaseLines : current'[line] = HeldOf(line)'
           /\ vendorId = 0 => \A line \in PurchaseLines : renewal'[line] = RenewedOf(line)'
  <1> SUFFICES ASSUME NEW line \in PurchaseLines
               PROVE  /\ current'[line] = HeldOf(line)'
                      /\ vendorId = 0 => renewal'[line] = RenewedOf(line)'
    OBVIOUS
  <1>1. line \in Lines /\ ToBuy(line) \in Nat /\ ToBuy(line)' = ToBuy(line)
    BY ToBuyType DEF PurchaseLines, UpsizeLines, NewLines
  <1>2. current[line] \in Nat /\ renewal[line] \in Nat /\ quantity[line] = ToBuy(line)
    BY <1>1 DEF SubscriptionsTypeOK
  <1>3. current'[line] = current[line] + ToBuy(line)
        /\ renewal'[line] = renewal[line] + ToBuy(line)
    <2> DEFINE bought == ToBuy(line)
    <2>1. bought \in Nat /\ quantity[line] = bought
      BY <1>1, <1>2
    <2> HIDE DEF bought
    <2>2. current'[line] = current[line] + bought /\ renewal'[line] = renewal[line] + bought
      BY <1>1, <1>2, <2>1 DEF Process, Moved, AdobeCooperates
    <2>3. QED
      BY <2>2 DEF bought
  <1>4. current[line] = FirstCurrent[line]
        /\ (vendorId = 0 => renewal[line] = FirstRenewal[line])
    BY DEF BoughtInv, HeldOf, RenewedOf
  <1>5. QED
    BY <1>1, <1>3, <1>4 DEF HeldOf, RenewedOf

\* A return leaves the upsized and new lines alone.
LEMMA TakeBackKeepsPurchases ==
    ASSUME SubscriptionsTypeOK, NEW p \in Purchases, PurchaseLine[p] \in DownsizeLines,
           TakeBack(p) \/ UNCHANGED subscriptionVars
    PROVE  /\ \A line \in PurchaseLines : renewal'[line] = renewal[line]
           /\ \A line \in PurchaseLines : current'[line] = current[line]
  <1>1. ASSUME NEW line \in PurchaseLines, TakeBack(p)
        PROVE  current'[line] = current[line]
    <2>1. line # PurchaseLine[p] /\ line \in Lines
      BY DEF PurchaseLines, UpsizeLines, NewLines
    <2>2. current[line] \in Nat
      BY <2>1 DEF SubscriptionsTypeOK
    <2>3. QED
      BY <1>1, <2>1, <2>2 DEF TakeBack, Process, Moved
  <1>2. QED
    BY <1>1, TakeBackMovesDownsizes

\* Adobe's steps.
LEMMA AdobeBuys ==
    ASSUME AdobeCooperates, PromiseInv, BoughtInv, Adobe
    PROVE  BoughtInv'
  <1>0. /\ SubscriptionsTypeOK /\ newOrders \in Seq(NewOrder)
        /\ returns \in [Purchases -> ReturnStatus]
        /\ UNCHANGED <<passVars, subscribed>> /\ OneOrderIsPurchase
    BY PurchaseOfOneOrder
       DEF PromiseInv, PurchaseInv, TypeInv, StateTypeOK, NewOrderTypeOK, ReturnTypeOK,
           Adobe, AdobeSettlesNewOrder, AdobeSettlesReturnOrder
  <1>1. UNCHANGED <<status, vendorId>> /\ (Past(AfterPurchase)' <=> Past(AfterPurchase))
    BY <1>0 DEF passVars, Past
  <1>2. ASSUME NEW id \in DOMAIN newOrders,
               AdobeCompletesNewOrder(id) \/ AdobeFailsNewOrder(id)
        PROVE  BoughtInv'
    <2>0. id = 1 /\ newOrders # <<>> /\ newOrders[1] \in NewOrder /\ newOrders[1].status = "OPEN"
      BY <1>0, <1>2, LenProperties
         DEF OneOrderIsPurchase, AdobeCompletesNewOrder, AdobeFailsNewOrder
    <2>1. PICK s \in {"COMPLETE", "FAILED"} :
            /\ newOrders' = [newOrders EXCEPT ![1].status = s]
            /\ IF s = "COMPLETE" THEN Process(newOrders[1].payload.quantity)
                                 ELSE UNCHANGED subscriptionVars
      BY <1>2, <2>0 DEF AdobeCompletesNewOrder, AdobeFailsNewOrder
    <2>2. newOrders' # <<>> /\ newOrders'[1].status = s
          /\ newOrders'[1].payload = newOrders[1].payload
      <3>1. 1 \in DOMAIN newOrders /\ DOMAIN newOrders' = DOMAIN newOrders
        BY <1>2, <2>0, <2>1
      <3>2. newOrders'[1] = [newOrders[1] EXCEPT !.status = s]
        BY <2>1, <3>1
      <3>3. QED
        BY <2>0, <3>1, <3>2 DEF NewOrder
    <2>3. \A line \in Lines : newOrders[1].payload.quantity[line] = ToBuy(line)
      BY <2>0 DEF BoughtInv
    <2>4. ~Bought
      BY <2>0 DEF Bought
    <2>5. /\ \A line \in PurchaseLines : current'[line] = HeldOf(line)'
          /\ vendorId = 0 => \A line \in PurchaseLines : renewal'[line] = RenewedOf(line)'
      <3>1. CASE s = "COMPLETE"
        <4>1. Bought'
          BY <2>2, <3>1 DEF Bought
        <4>2. QED
          BY <1>0, <2>1, <2>3, <2>4, <3>1, <4>1, ProcessBuys
      <3>2. CASE s = "FAILED"
        <4>1. ~Bought' /\ UNCHANGED subscriptionVars
          BY <2>1, <2>2, <3>2 DEF Bought
        <4>2. QED
          BY <2>4, <4>1 DEF BoughtInv, HeldOf, RenewedOf
      <3>3. QED
        BY <3>1, <3>2
    <2>6. \A line \in Lines : ToBuy(line)' = ToBuy(line)
      BY ToBuyType
    <2>7. QED
      BY <1>1, <2>0, <2>2, <2>3, <2>5, <2>6, LinesAreConstant DEF BoughtInv
  <1>3. ASSUME NEW id \in DOMAIN newOrders
        PROVE  ~AdobeCancelsReturnedOrder(id)
    BY DEF AdobeCancelsReturnedOrder, PromiseInv, NoErrorInv
  <1>4. ASSUME NEW p \in Purchases, returns[p] = "OPEN", UNCHANGED newOrders,
               TakeBack(p) \/ UNCHANGED subscriptionVars
        PROVE  BoughtInv'
    <2>1. PurchaseLine[p] \in DownsizeLines
      BY <1>4 DEF PromiseInv, ReturnsInv, Returned
    <2>2. QED
      BY <1>0, <1>1, <1>4, <2>1, TakeBackKeepsPurchases, BoughtKept
  <1>5. QED
    BY <1>2, <1>3, <1>4 DEF Adobe, AdobeSettlesNewOrder, AdobeSettlesReturnOrder

\* The steps about return orders.
LEMMA GiveBackBuys ==
    ASSUME PromiseInv, BoughtInv, GiveBack
    PROVE  BoughtInv'
  <1>0. /\ ctx \in Context /\ SubscriptionsTypeOK
        /\ UNCHANGED <<newOrders, subscribed, vendorId>>
    BY DEF PromiseInv, PurchaseInv, TypeInv, StateTypeOK, GiveBack, GetReturnOrders,
       GetReturnableOrders, ValidateReturnableOrders, SubmitReturnOrders, PlaceReturnOrder,
       LoseReturnOrder, AwaitReturnOrders, switch_order_to_failed, Decide, Wait, Continue
  <1>1. Past(AfterPurchase)' => Past(AfterPurchase)
    BY DEF GiveBack, GetReturnOrders, GetReturnableOrders, ValidateReturnableOrders,
       SubmitReturnOrders, PlaceReturnOrder, LoseReturnOrder, AwaitReturnOrders,
       switch_order_to_failed, Decide, Wait, Continue, Goto, EndPass, Past, AfterPurchase
  <1>2. ASSUME NEW p \in Purchases, PlaceReturnOrder(p) \/ LoseReturnOrder(p)
        PROVE  BoughtInv'
    <2>0. Posted(p)
      BY <1>0, <1>2, ReturnIsPosted
    <2>1. PurchaseLine[p] \in DownsizeLines
      <3>1. PICK line \in DOMAIN ctx.returnable : p \in ctx.returnable[line]
        BY <2>0 DEF Posted, Chosen
      <3>2. line \in DownsizeLines
        BY <1>0, <3>1 DEF Context
      <3>3. QED
        BY <3>1, <3>2 DEF PromiseInv, ReturnsInv
    <2>2. TakeBack(p) \/ UNCHANGED subscriptionVars
      BY <2>0 DEF Posted
    <2>3. QED
      BY <1>0, <1>1, <2>1, <2>2, TakeBackKeepsPurchases, BoughtKept
  <1>3. CASE UNCHANGED subscriptionVars
    BY <1>0, <1>1, <1>3, BoughtKept
  <1>4. QED
    BY <1>2, <1>3 DEF GiveBack, GetReturnOrders, GetReturnableOrders, ValidateReturnableOrders,
       SubmitReturnOrders, AwaitReturnOrders

\* Previewing and buying.
LEMMA BuyBuys ==
    ASSUME AdobeCooperates, SomethingToBuy, PromiseInv, PurchaseInv', RecordKept, BoughtInv, Buy
    PROVE  BoughtInv'
  <1>0. /\ ctx \in Context /\ SubscriptionsTypeOK /\ newOrders \in Seq(NewOrder)
        /\ OneOrderIsPurchase
    BY PurchaseOfOneOrder DEF PromiseInv, PurchaseInv, TypeInv, StateTypeOK, NewOrderTypeOK
  <1>1. CASE GetPreviewOrder("UpdatePrices") \/ UpdatePrices("SubmitNewOrder")
    <2>1. UNCHANGED <<newOrders, subscriptionVars, vendorId>>
          /\ (Past(AfterPurchase)' => Past(AfterPurchase))
      BY <1>1 DEF GetPreviewOrder, UpdatePrices, Continue, Goto, switch_order_to_failed, Decide,
         EndPass, Past, AfterPurchase
    <2>2. QED
      BY <2>1, BoughtKept
  <1>2. CASE SkipNewOrder("UpdateRenewalQuantities")
    <2>1. PurchaseLines = {}
      <3>1. SUFFICES ASSUME PurchaseLines # {}, ctx.newOrderId = 0, ctx.preview = NoPreview,
                            pc = "SubmitNewOrder"
                     PROVE  FALSE
        BY <1>2 DEF SkipNewOrder
      <3>2. vendorId = 0 /\ ctx.preview = PreviewOf(Offer)
        BY <3>1, PreviewIsOrder DEF Previewed
      <3>3. QED
        BY <1>0, <3>1, <3>2, PreviewBuys
    <2>2. QED
      BY <1>2, <2>1, BoughtKept DEF SkipNewOrder, Continue
  <1>3. CASE SaveNewOrder("UpdateRenewalQuantities") \/ FetchNewOrder("UpdateRenewalQuantities")
    <2>0. UNCHANGED <<newOrders, subscriptionVars>>
      BY <1>3 DEF SaveNewOrder, FetchNewOrder
    <2>1. vendorId' = ctx.newOrderId /\ ctx.newOrderId # 0
      BY <1>3 DEF SaveNewOrder, FetchNewOrder, PromiseInv, PurchaseInv, Unrecorded, RecordRead,
         Unread, TypeInv, StateTypeOK
    <2>2. ctx.newOrderId \in 0 .. Len(newOrders)
      BY DEF PromiseInv, PurchaseInv, TypeInv, StateTypeOK, NewOrderTypeOK
    <2>3. newOrders # <<>>
      BY <1>0, <2>1, <2>2, OneOrderIsFirst
    <2>4. QED
      BY <2>0, <2>1, <2>3, BoughtKept
  <1>4. CASE PlaceNewOrder
    <2>0. /\ pc = "SubmitNewOrder" /\ PurchaseLines # {} /\ ctx.newOrderId = 0
          /\ pc' = "SaveNewOrder" /\ UNCHANGED <<status, vendorId>> /\ status # "Completed"
          /\ ctx.preview # NoPreview
      BY <1>0, <1>4 DEF PlaceNewOrder, Goto, PromiseInv, PurchaseInv, TypeInv, CalendarOK
    <2>1. /\ ctx.preview = PreviewOf(Offer) /\ vendorId = 0
          /\ newOrders # <<>> => newOrders = <<newOrders[1]>> /\ newOrders[1].payload = ctx.preview
      BY <1>0, <2>0, PreviewIsOrder DEF Previewed
    <2>2. ~Past(AfterPurchase)'
      BY <2>0 DEF Past, AfterPurchase
    <2>3. CASE newOrders # <<>>
      <3>1. {i \in DOMAIN newOrders : newOrders[i].payload = ctx.preview} # {}
        BY <1>0, <2>1, <2>3 DEF OneOrderIsPurchase
      <3>2. UNCHANGED <<newOrders, subscriptionVars>>
        BY <1>4, <3>1 DEF PlaceNewOrder, AdobeCooperates
      <3>3. QED
        BY <2>0, <2>2, <3>2, BoughtKept
    <2>4. CASE newOrders = <<>>
      <3>1. PICK orderStatus \in {"OPEN", "COMPLETE"} :
              /\ newOrders' = Append(newOrders, [payload |-> ctx.preview, status |-> orderStatus,
                                                  returned |-> "none"])
              /\ IF orderStatus = "COMPLETE" THEN Process(ctx.preview.quantity)
                                              ELSE UNCHANGED subscriptionVars
        <4>1. {i \in DOMAIN newOrders : newOrders[i].payload = ctx.preview} = {}
          BY <2>4
        <4>2. QED
          BY <1>4, <4>1, Zenon DEF PlaceNewOrder
      <3>2. newOrders' # <<>> /\ newOrders'[1].payload = ctx.preview
            /\ newOrders'[1].status = orderStatus
        BY <2>4, <3>1
      <3>3. ~Bought /\ (Bought' <=> orderStatus = "COMPLETE")
        BY <2>4, <3>2 DEF Bought
      <3>4. \A line \in Lines : ctx.preview.quantity[line] = ToBuy(line)
        BY <1>0, <2>0, <2>1, PreviewBuys
      <3>5. \A line \in PurchaseLines : current'[line] = HeldOf(line)'
                                        /\ renewal'[line] = RenewedOf(line)'
        <4>1. CASE orderStatus = "COMPLETE"
          BY <1>0, <2>1, <3>1, <3>3, <3>4, <4>1, ProcessBuys
        <4>2. CASE orderStatus = "OPEN"
          BY <2>1, <3>1, <3>3, <4>2 DEF BoughtInv, HeldOf, RenewedOf
        <4>3. QED
          BY <4>1, <4>2
      <3>6. \A line \in Lines : ToBuy(line)' = ToBuy(line)
        BY ToBuyType
      <3>7. QED
        BY <2>2, <3>2, <3>4, <3>5, <3>6, LinesAreConstant DEF BoughtInv
    <2>5. QED
      BY <2>3, <2>4
  <1>5. QED
    BY <1>1, <1>2, <1>3, <1>4 DEF Buy, SubmitNewOrder

\* The steps that are plain: behind the purchase a renewal quantity may change.
LEMMA PlainBuys ==
    ASSUME PromiseInv, BoughtInv, Plain, UNCHANGED current
    PROVE  BoughtInv'
  <1>1. Past(AfterPurchase)' => Past(AfterPurchase)
    BY DEF Plain, Past
  <1>2. ASSUME vendorId = 0, NEW line \in PurchaseLines
        PROVE  UNCHANGED renewal
    <2>1. ~Past(AfterPurchase)
      BY <1>2, PastIsBought DEF BoughtInv
    <2>2. QED
      BY <2>1 DEF Plain, Past
  <1>3. QED
    BY <1>1, <1>2, BoughtKept DEF Plain

LEMMA BoughtInvInit == Init => BoughtInv
  <1> SUFFICES ASSUME Init PROVE BoughtInv
    OBVIOUS
  <1>1. ~Bought /\ ~Past(AfterPurchase) /\ newOrders = <<>>
    BY DEF Init, NewOrderInit, PassInit, Bought, Past, AfterPurchase
  <1>2. QED
    BY <1>1 DEF Init, SubscriptionsInit, BoughtInv, HeldOf, RenewedOf

\* Every step keeps it.
LEMMA BoughtInvStep ==
    ASSUME AdobeCooperates, SomethingToBuy, PromiseInv, BoughtInv, [Next]_vars
    PROVE  BoughtInv'
  <1>1. PurchaseInv' /\ RecordKept
    BY PurchaseInvStep DEF PromiseInv
  <1>2. CASE Platform \/ Prepare \/ Publish
    <2>1. UNCHANGED current
      BY <1>2 DEF Platform, Prepare, Publish, CreateOrUpdateAssets, CreateOrUpdateSubscriptions
    <2>2. QED
      BY <1>2, <2>1, PlatformIsPlain, PrepareIsPlain, PublishIsPlain, PlainBuys
  <1>3. CASE Update
    <2>1. UNCHANGED current
      BY <1>3 DEF Update, UpdateRenewalQuantities, UpdateLine, LinesUpdated, RestoreLine,
         ReturnNewOrder, RollbackEnds, RolledBack
    <2>2. QED
      BY <1>3, <2>1, UpdateIsPlain, PlainBuys
  <1>4. CASE UNCHANGED vars
    BY <1>4, BoughtKept DEF vars, passVars, Past
  <1>5. QED
    BY <1>1, <1>2, <1>3, <1>4, AdobeBuys, GiveBackBuys, BuyBuys DEF Next, Step

\* No item is bought beyond the quantity of its line, over all the passes, as
\* long as Adobe cooperates, the order starts from what renews, and the
\* customer does not hold all of it already (_process_upsize_lines, repeated
\* in every pass).
THEOREM NeverOverboughtCorrect ==
    AdobeCooperates /\ RenewsAsOrdered /\ SomethingToBuy => (Spec => []NeverOverbought)
  <1> SUFFICES ASSUME AdobeCooperates, RenewsAsOrdered, SomethingToBuy
               PROVE  Spec => []NeverOverbought
    OBVIOUS
  <1>1. BoughtInv => NeverOverbought
    <2> SUFFICES ASSUME BoughtInv, NEW line \in PurchaseLines
                 PROVE  current[line] <= NewQuantity[line] \/ current[line] <= FirstCurrent[line]
      BY DEF NeverOverbought
    <2>1. line \in Lines /\ current[line] = HeldOf(line)
      BY DEF BoughtInv, PurchaseLines, UpsizeLines, NewLines
    <2>2. /\ FirstCurrent[line] \in Nat /\ OldQuantity[line] \in Nat /\ NewQuantity[line] \in Nat
          /\ FirstRenewal[line] = OldQuantity[line]
      BY <2>1, AdobeSubscriptionsAssumption DEF RenewsAsOrdered
    <2>3. CASE ToBuy(line) = 0
      BY <2>1, <2>2, <2>3 DEF HeldOf
    <2>4. CASE line \in NewLines /\ ToBuy(line) # 0
      <3>1. FirstCurrent[line] = 0 /\ ToBuy(line) = NewQuantity[line]
        BY <2>1, <2>4, AdobeSubscriptionsAssumption DEF ToBuy, NewLines, UpsizeLines, DownsizeLines
      <3>2. QED
        BY <2>1, <2>2, <3>1 DEF HeldOf
    <2>5. CASE line \notin NewLines /\ ToBuy(line) # 0
      <3>1. ToBuy(line) = NewQuantity[line] - OldQuantity[line] - FirstUnrenewed(line)
        BY <2>5 DEF ToBuy
      <3>2. FirstUnrenewed(line) = IF OldQuantity[line] < FirstCurrent[line]
                                     THEN FirstCurrent[line] - OldQuantity[line] ELSE 0
        BY <2>2 DEF FirstUnrenewed
      <3>3. FirstCurrent[line] + ToBuy(line) <= NewQuantity[line]
        BY <2>2, <3>1, <3>2
      <3>4. QED
        BY <2>1, <2>2, <3>3 DEF HeldOf
    <2>6. QED
      BY <2>3, <2>4, <2>5
  <1>2. Init => PromiseInv /\ BoughtInv
    BY PromiseInvInit, BoughtInvInit
  <1>3. PromiseInv /\ BoughtInv /\ [Next]_vars => (PromiseInv /\ BoughtInv)'
    BY PromiseInvStep, BoughtInvStep
  <1>4. QED
    BY <1>1, <1>2, <1>3, PTL DEF Spec

-----------------------------------------------------------------------------
(* The committed minimum.                                                   *)

\* The quantities that renew before the order and after it reach the minimum.
CommitmentMet ==
    /\ SumFunctionOnSet(FirstRenewal, Lines) >= Commitment
    /\ SumFunctionOnSet(NewQuantity, Lines) >= Commitment

\* The purchases of a line Adobe took back, and whether all that is bought
\* renews as ordered.
BackOf(line) == {p \in Purchases : returns[p] = "COMPLETE" /\ PurchaseLine[p] = line}

Raised ==
    /\ \A line \in PurchaseLines : Level(line)
    /\ PurchaseLines = {} \/ (Bought /\ vendorId # 0)

\* An upsized line never renews less than at first; a downsized one renews
\* less only by what was taken back, or as ordered in the end; and nothing is
\* lowered before all that is bought was raised.
FloorInv ==
    /\ \A line \in PurchaseLines : renewal[line] >= FirstRenewal[line]
    /\ \A line \in DownsizeLines :
          \/ renewal[line] = OldQuantity[line] - Quantity(BackOf(line))
          \/ Level(line) /\ AllReturned
    /\ Returned # {} \/ (\E line \in DownsizeLines : renewal[line] # OldQuantity[line]) => Raised

\* What Adobe took back of a line is part of what is due, and at most the
\* downsize.
LEMMA BackWithinDownsize ==
    ASSUME ChoiceInv, NEW line \in DownsizeLines
    PROVE  /\ BackOf(line) \in SUBSET ToReturn(line) /\ ToReturn(line) \in SUBSET Purchases
           /\ Quantity(BackOf(line)) \in Nat
           /\ Quantity(ToReturn(line)) \in Nat /\ Quantity(ToReturn(line)) <= Downsize(line)
           /\ Quantity(BackOf(line)) <= Downsize(line)
  <1>1. BackOf(line) \in SUBSET ToReturn(line) /\ ToReturn(line) \in SUBSET Purchases
    BY ToReturnAddsUp DEF BackOf, ChoiceInv, Returned
  <1>2. Quantity(BackOf(line)) \in Nat /\ Quantity(ToReturn(line)) \in Nat
        /\ Quantity(BackOf(line)) <= Quantity(ToReturn(line))
    BY <1>1, FewerAreLess
  <1>3. Downsize(line) \in Nat
    BY AdobeSubscriptionsAssumption DEF Downsize, DownsizeLines
  <1>4. QED
    BY <1>1, <1>2, <1>3, ToReturnAddsUp

\* The floor holds under the minimum: before anything is lowered every line
\* renews at least what it did at first, afterwards at least what is ordered.
LEMMA FloorKeepsCommitment ==
    ASSUME RenewsAsOrdered, CommitmentMet, DeliveredInv, FloorInv
    PROVE  CommitmentKept
  <1>0. /\ renewal \in [Lines -> Nat] /\ FirstRenewal \in [Lines -> Nat]
        /\ NewQuantity \in [Lines -> Nat] /\ OldQuantity \in [Lines -> Nat]
        /\ IsFiniteSet(Lines) /\ Commitment \in Nat /\ ChoiceInv
    BY AdobeSubscriptionsAssumption, ChangeOrderAssumption
       DEF DeliveredInv, PromiseInv, PurchaseInv, TypeInv, StateTypeOK, SubscriptionsTypeOK
  <1>1. \A line \in Lines : line \in PurchaseLines \/ line \in DownsizeLines
    BY DEF PurchaseLines, NewLines
  <1>2. CASE Raised
    <2>1. \A line \in Lines : NewQuantity[line] <= renewal[line]
      <3> SUFFICES ASSUME NEW line \in Lines PROVE NewQuantity[line] <= renewal[line]
        OBVIOUS
      <3>1. CASE Level(line)
        BY <1>0, <3>1 DEF Level
      <3>2. CASE line \in DownsizeLines
                 /\ renewal[line] = OldQuantity[line] - Quantity(BackOf(line))
        BY <1>0, <3>2, BackWithinDownsize DEF Downsize
      <3>3. QED
        BY <1>1, <1>2, <3>1, <3>2 DEF Raised, FloorInv
    <2>2. SumFunctionOnSet(NewQuantity, Lines) <= SumFunctionOnSet(renewal, Lines)
      BY <1>0, <2>1, SumMonotone
    <2>3. SumFunctionOnSet(NewQuantity, Lines) \in Int /\ SumFunctionOnSet(renewal, Lines) \in Int
      BY <1>0, SumIsInt
    <2>4. QED
      BY <1>0, <2>2, <2>3 DEF CommitmentMet, CommitmentKept
  <1>3. CASE ~Raised
    <2>1. \A line \in Lines : FirstRenewal[line] <= renewal[line]
      BY <1>0, <1>1, <1>3 DEF FloorInv, RenewsAsOrdered
    <2>2. SumFunctionOnSet(FirstRenewal, Lines) <= SumFunctionOnSet(renewal, Lines)
      BY <1>0, <2>1, SumMonotone
    <2>3. SumFunctionOnSet(FirstRenewal, Lines) \in Int /\ SumFunctionOnSet(renewal, Lines) \in Int
      BY <1>0, SumIsInt
    <2>4. QED
      BY <1>0, <2>2, <2>3 DEF CommitmentMet, CommitmentKept
  <1>4. QED
    BY <1>2, <1>3

-----------------------------------------------------------------------------
(* Which steps move the floor.                                              *)

\* What is bought stays raised.
LEMMA RaisedKept ==
    ASSUME Raised, vendorId # 0 => vendorId' # 0, PurchaseLines # {} => (Bought => Bought'),
           \A line \in PurchaseLines : Level(line) => Level(line)'
    PROVE  Raised'
  BY LinesAreConstant DEF Raised

\* A step that leaves what renews and what is returned alone.
LEMMA FloorKept ==
    ASSUME FloorInv, UNCHANGED <<renewal, returns, newOrders>>, vendorId # 0 => vendorId' # 0
    PROVE  FloorInv'
  <1>1. /\ \A line : BackOf(line)' = BackOf(line) /\ (Level(line)' <=> Level(line))
        /\ (AllReturned' <=> AllReturned) /\ Returned' = Returned /\ (Bought' <=> Bought)
    BY DueBackIsConstant DEF BackOf, Level, AllReturned, Returned, Bought
  <1>2. Raised => Raised'
    BY <1>1, RaisedKept
  <1>3. QED
    BY <1>1, <1>2, LinesAreConstant DEF FloorInv

\* A purchase has a quantity.
LEMMA PurchasedIsANumber == \A p \in Purchases : PurchasedQuantity[p] \in Int
  BY ReturnAssumption

\* A return Adobe takes, or an OPEN or refused one: it was placed after all
\* that is bought was raised, and lowers its line by its quantity.
LEMMA TakeBackKeepsFloor ==
    ASSUME AdobeCooperates, SubscriptionsTypeOK, returns \in [Purchases -> ReturnStatus],
           ChoiceInv, ChoiceInv', FloorInv, Raised, UNCHANGED <<newOrders, vendorId>>,
           NEW p \in Purchases, p \in ToReturn(PurchaseLine[p]), PurchaseLine[p] \in DownsizeLines,
           returns[p] # "COMPLETE", NEW answer \in ReturnStatus,
           returns' = [returns EXCEPT ![p] = answer],
           IF answer = "COMPLETE" THEN TakeBack(p) ELSE UNCHANGED subscriptionVars
    PROVE  FloorInv'
  <1> DEFINE home == PurchaseLine[p]
             amount == PurchasedQuantity[p]
  <1>0. home \in Lines /\ amount \in Nat
    BY ReturnAssumption
  <1>1. \A line \in PurchaseLines : renewal'[line] = renewal[line]
    BY TakeBackMovesDownsizes
  <1>2. Raised'
    BY <1>1, RaisedKept DEF Bought, Level
  <1>3. \A line \in PurchaseLines : renewal'[line] >= FirstRenewal[line]
    BY <1>1 DEF FloorInv
  <1>4. ~AllReturned
    BY DEF AllReturned, DueBack
  <1>5. \A line \in DownsizeLines : renewal[line] = OldQuantity[line] - Quantity(BackOf(line))
    BY <1>4 DEF FloorInv
  <1>6. ASSUME NEW line \in DownsizeLines
        PROVE  renewal'[line] = OldQuantity[line] - Quantity(BackOf(line)')
    <2>1. CASE answer # "COMPLETE"
      <3>1. BackOf(line)' = BackOf(line)
        BY <2>1 DEF BackOf
      <3>2. renewal' = renewal
        BY <2>1
      <3>3. QED
        BY <1>5, <3>1, <3>2
    <2>2. CASE answer = "COMPLETE" /\ line # home
      <3>1. BackOf(line)' = BackOf(line)
        BY <2>2 DEF BackOf
      <3>2. line \in Lines /\ renewal[line] \in Nat
        BY DEF DownsizeLines, SubscriptionsTypeOK
      <3>3. renewal'[line] = renewal[line]
        BY <2>2, <3>2 DEF TakeBack, Process, Moved
      <3>4. QED
        BY <1>5, <3>1, <3>3
    <2>3. CASE answer = "COMPLETE" /\ line = home
      <3>1. BackOf(home)' = BackOf(home) \cup {p} /\ p \notin BackOf(home)
        BY <2>3 DEF BackOf
      <3>2. /\ BackOf(home) \cup {p} \in SUBSET ToReturn(home)
            /\ BackOf(home) \in SUBSET ToReturn(home)
            /\ ToReturn(home) \in SUBSET Purchases
            /\ Quantity(ToReturn(home)) \in Nat /\ Quantity(ToReturn(home)) <= Downsize(home)
        BY BackWithinDownsize
      <3>3. Quantity(BackOf(home) \cup {p}) = amount + Quantity(BackOf(home))
        <4>1. IsFiniteSet(BackOf(home))
          BY <3>2, ReturnAssumption, FS_Subset
        <4>2. \A q \in BackOf(home) \cup {p} : PurchasedQuantity[q] \in Int
          <5>1. \A q \in Purchases : PurchasedQuantity[q] \in Int
            BY PurchasedIsANumber
          <5>2. BackOf(home) \cup {p} \subseteq Purchases
            BY DEF BackOf
          <5>3. QED
            BY <5>1, <5>2
        <4>3. QED
          BY <3>1, <4>1, <4>2, SumAdded DEF Quantity
      <3>4. Quantity(BackOf(home) \cup {p}) \in Nat /\ Quantity(BackOf(home)) \in Nat
            /\ Quantity(BackOf(home) \cup {p}) <= Quantity(ToReturn(home))
        BY <3>2, FewerAreLess
      <3>5. /\ renewal[home] \in Nat /\ OldQuantity[home] \in Nat /\ NewQuantity[home] \in Nat
            /\ Downsize(home) = OldQuantity[home] - NewQuantity[home]
        BY <1>0, AdobeSubscriptionsAssumption DEF SubscriptionsTypeOK, Downsize
      <3>6. renewal[home] + -amount >= 0
        BY <1>0, <1>5, <2>3, <3>2, <3>3, <3>4, <3>5
      <3>7. renewal'[home] = renewal[home] + -amount
        BY <1>0, <2>3, <3>5, <3>6 DEF TakeBack, Process, Moved, AdobeCooperates
      <3>8. QED
        BY <1>0, <1>5, <2>3, <3>1, <3>3, <3>4, <3>5, <3>7
    <2>4. QED
      BY <2>1, <2>2, <2>3
  <1>7. QED
    BY <1>2, <1>3, <1>6, LinesAreConstant DEF FloorInv

\* Before anything is bought nothing is lowered: a purchase, or the refusal of
\* one, only raises.
LEMMA PurchaseKeepsFloor ==
    ASSUME SubscriptionsTypeOK, SubscriptionsTypeOK', FloorInv, ~Bought, PurchaseLines # {},
           UNCHANGED returns,
           \A line \in PurchaseLines : renewal'[line] >= renewal[line],
           \A line \in DownsizeLines : renewal'[line] = renewal[line]
    PROVE  FloorInv'
  <1>1. ~Raised
    BY DEF Raised
  <1>2. Returned = {} /\ \A line \in DownsizeLines : renewal[line] = OldQuantity[line]
    BY <1>1 DEF FloorInv
  <1>3. /\ \A line : BackOf(line)' = BackOf(line)
        /\ Returned' = Returned /\ (AllReturned' <=> AllReturned)
        /\ \A line \in DownsizeLines : Level(line)' <=> Level(line)
    BY DueBackIsConstant DEF BackOf, Returned, AllReturned, Level
  <1>4. \A line \in PurchaseLines : renewal'[line] >= FirstRenewal[line]
    <2> SUFFICES ASSUME NEW line \in PurchaseLines PROVE renewal'[line] >= FirstRenewal[line]
      OBVIOUS
    <2>1. line \in Lines
      BY DEF PurchaseLines, UpsizeLines, NewLines
    <2>2. renewal[line] \in Nat /\ renewal'[line] \in Nat /\ FirstRenewal[line] \in Nat
      BY <2>1, AdobeSubscriptionsAssumption DEF SubscriptionsTypeOK
    <2>3. renewal'[line] >= renewal[line] /\ renewal[line] >= FirstRenewal[line]
      BY DEF FloorInv
    <2>4. QED
      BY <2>2, <2>3
  <1>5. \A line \in DownsizeLines :
          renewal[line] = OldQuantity[line] - Quantity(BackOf(line)) \/ (Level(line) /\ AllReturned)
    BY DEF FloorInv
  <1>6. QED
    BY <1>2, <1>3, <1>4, <1>5, LinesAreConstant DEF FloorInv

\* What an order for what is to be bought does to the lines.
LEMMA ProcessRaises ==
    ASSUME AdobeCooperates, SubscriptionsTypeOK, NEW quantity,
           \A line \in Lines : quantity[line] = ToBuy(line), Process(quantity)
    PROVE  /\ \A line \in PurchaseLines : renewal'[line] >= renewal[line]
           /\ \A line \in DownsizeLines : renewal'[line] = renewal[line]
  <1>1. ASSUME NEW line \in Lines
        PROVE  renewal'[line] = renewal[line] + ToBuy(line) /\ ToBuy(line) \in Nat
               /\ renewal[line] \in Nat
    <2> DEFINE bought == ToBuy(line)
    <2>1. bought \in Nat /\ quantity[line] = bought /\ renewal[line] \in Nat
      BY ToBuyType DEF SubscriptionsTypeOK
    <2> HIDE DEF bought
    <2>2. renewal'[line] = renewal[line] + bought
      BY <2>1 DEF Process, Moved, AdobeCooperates
    <2>3. QED
      BY <2>1, <2>2 DEF bought
  <1>2. ASSUME NEW line \in PurchaseLines
        PROVE  renewal'[line] >= renewal[line]
    <2>1. line \in Lines
      BY DEF PurchaseLines, UpsizeLines, NewLines
    <2> DEFINE bought == ToBuy(line)
    <2>2. renewal'[line] = renewal[line] + bought /\ bought \in Nat /\ renewal[line] \in Nat
      BY <1>1, <2>1
    <2> HIDE DEF bought
    <2>3. QED
      BY <2>2
  <1>3. ASSUME NEW line \in DownsizeLines
        PROVE  renewal'[line] = renewal[line]
    <2>1. line \in Lines /\ ToBuy(line) = 0
      BY ToBuyType DEF DownsizeLines
    <2>2. QED
      BY <1>1, <2>1
  <1>4. QED
    BY <1>2, <1>3

\* Behind the update of the upsized and new lines all that is bought is raised.
LEMMA UpdatedIsRaised ==
    ASSUME PromiseInv, LevelInv, BoughtInv, Past(AfterUpdate)
    PROVE  Raised
  <1>1. Past(AfterPurchase)
    BY DEF Past, AfterUpdate, AfterReturns, AfterDownsizes, AfterPurchase
  <1>2. PurchaseLines = {} \/ (Bought /\ vendorId # 0)
    BY <1>1, PastIsBought DEF BoughtInv
  <1>3. QED
    BY <1>2 DEF Raised, LevelInv

-----------------------------------------------------------------------------
(* The steps that move it.                                                  *)

\* Adobe's steps.
LEMMA AdobeKeepsFloor ==
    ASSUME AdobeCooperates, DeliveredInv, DeliveredInv', BoughtInv, FloorInv, Adobe
    PROVE  FloorInv'
  <1>0. /\ SubscriptionsTypeOK /\ SubscriptionsTypeOK' /\ newOrders \in Seq(NewOrder)
        /\ returns \in [Purchases -> ReturnStatus] /\ ChoiceInv /\ ChoiceInv'
        /\ UNCHANGED vendorId /\ OneOrderIsPurchase
    BY PurchaseOfOneOrder
       DEF DeliveredInv, PromiseInv, PurchaseInv, TypeInv, StateTypeOK, NewOrderTypeOK, ReturnTypeOK,
           Adobe, AdobeSettlesNewOrder, AdobeSettlesReturnOrder, passVars
  <1>1. ASSUME NEW id \in DOMAIN newOrders, UNCHANGED returns,
               AdobeCompletesNewOrder(id) \/ AdobeFailsNewOrder(id)
        PROVE  FloorInv'
    <2>1. id = 1 /\ newOrders # <<>> /\ newOrders[1].status = "OPEN"
      BY <1>0, <1>1 DEF OneOrderIsPurchase, AdobeCompletesNewOrder, AdobeFailsNewOrder
    <2>2. ~Bought /\ PurchaseLines # {}
      BY <2>1 DEF Bought, DeliveredInv, PromiseInv, OneOrderInv
    <2>3. \A line \in Lines : newOrders[1].payload.quantity[line] = ToBuy(line)
      BY <2>1 DEF BoughtInv
    <2>4. CASE UNCHANGED subscriptionVars
      <3>1. \A line \in Lines : renewal'[line] >= renewal[line]
        BY <1>0, <2>4 DEF SubscriptionsTypeOK
      <3>2. PurchaseLines \subseteq Lines
        BY DEF PurchaseLines, UpsizeLines, NewLines
      <3>3. QED
        BY <1>0, <1>1, <2>2, <2>4, <3>1, <3>2, PurchaseKeepsFloor
    <2>5. CASE Process(newOrders[1].payload.quantity)
      BY <1>0, <1>1, <2>2, <2>3, <2>5, ProcessRaises, PurchaseKeepsFloor
    <2>6. QED
      BY <1>1, <2>1, <2>4, <2>5 DEF AdobeCompletesNewOrder, AdobeFailsNewOrder
  <1>2. ASSUME NEW id \in DOMAIN newOrders
        PROVE  ~AdobeCancelsReturnedOrder(id)
    BY DEF AdobeCancelsReturnedOrder, DeliveredInv, PromiseInv, NoErrorInv
  <1>3. ASSUME NEW p \in Purchases, returns[p] = "OPEN", UNCHANGED newOrders,
               \/ returns' = [returns EXCEPT ![p] = "COMPLETE"] /\ TakeBack(p)
               \/ returns' = [returns EXCEPT ![p] = "none"] /\ UNCHANGED subscriptionVars
        PROVE  FloorInv'
    <2>1. /\ p \in Returned /\ p \in ToReturn(PurchaseLine[p])
          /\ PurchaseLine[p] \in DownsizeLines
      BY <1>0, <1>3 DEF Returned, ChoiceInv
    <2>2. Raised
      BY <2>1 DEF FloorInv
    <2>3. PICK answer \in ReturnStatus :
            /\ returns' = [returns EXCEPT ![p] = answer]
            /\ IF answer = "COMPLETE" THEN TakeBack(p) ELSE UNCHANGED subscriptionVars
      BY <1>3 DEF ReturnStatus
    <2>4. QED
      BY <1>0, <1>3, <2>1, <2>2, <2>3, TakeBackKeepsFloor
  <1>4. QED
    BY <1>1, <1>2, <1>3 DEF Adobe, AdobeSettlesNewOrder, AdobeSettlesReturnOrder

\* The steps about return orders: they come behind the update.
LEMMA GiveBackKeepsFloor ==
    ASSUME AdobeCooperates, DeliveredInv, DeliveredInv', BoughtInv, FloorInv, GiveBack
    PROVE  FloorInv'
  <1>0. /\ ctx \in Context /\ SubscriptionsTypeOK /\ returns \in [Purchases -> ReturnStatus]
        /\ ChoiceInv /\ ChoiceInv' /\ UNCHANGED <<newOrders, subscribed, vendorId>>
    BY DEF DeliveredInv, PromiseInv, PurchaseInv, TypeInv, StateTypeOK, ReturnTypeOK, GiveBack,
       GetReturnOrders, GetReturnableOrders, ValidateReturnableOrders, SubmitReturnOrders,
       PlaceReturnOrder, LoseReturnOrder, AwaitReturnOrders, switch_order_to_failed, Decide, Wait,
       Continue
  <1>1. ASSUME NEW p \in Purchases, PlaceReturnOrder(p) \/ LoseReturnOrder(p)
        PROVE  FloorInv'
    <2>0. Posted(p)
      BY <1>0, <1>1, ReturnIsPosted
    <2>1. pc = "SubmitReturnOrders" /\ p \in Chosen /\ returns[p] = "none"
      BY <1>0, <2>0 DEF Posted, ChoiceInv, Returned, Unlisted
    <2>2. PICK line \in DOMAIN ctx.returnable : p \in ctx.returnable[line]
      BY <2>1 DEF Chosen
    <2>3. p \in ToReturn(line) /\ PurchaseLine[p] = line
      BY <1>0, <2>2, ToReturnAddsUp DEF ChoiceInv
    <2>4. PurchaseLine[p] \in DownsizeLines
      BY <1>0, <2>1, ChosenIsDownsized
    <2>5. Past(AfterUpdate)
      BY <2>1 DEF Past, AfterUpdate
    <2>6. Raised
      BY <2>5, UpdatedIsRaised DEF DeliveredInv
    <2>7. PICK answer \in ReturnStatus :
            /\ returns' = [returns EXCEPT ![p] = answer]
            /\ IF answer = "COMPLETE" THEN TakeBack(p) ELSE UNCHANGED subscriptionVars
      BY <2>0 DEF Posted, ReturnStatus
    <2>8. QED
      BY <1>0, <2>1, <2>3, <2>4, <2>6, <2>7, TakeBackKeepsFloor
  <1>2. CASE UNCHANGED <<subscriptionVars, returns>>
    BY <1>0, <1>2, FloorKept
  <1>3. QED
    BY <1>1, <1>2 DEF GiveBack, GetReturnOrders, GetReturnableOrders, ValidateReturnableOrders,
       SubmitReturnOrders, AwaitReturnOrders

\* Previewing and buying.
LEMMA BuyKeepsFloor ==
    ASSUME AdobeCooperates, DeliveredInv, DeliveredInv', RecordKept, BoughtInv, FloorInv, Buy
    PROVE  FloorInv'
  <1>0. /\ SubscriptionsTypeOK /\ SubscriptionsTypeOK' /\ newOrders \in Seq(NewOrder)
        /\ OneOrderIsPurchase /\ PromiseInv /\ UNCHANGED returns
        /\ vendorId # 0 => vendorId' # 0
    <2>1. SubscriptionsTypeOK /\ newOrders \in Seq(NewOrder) /\ PromiseInv
      BY DEF DeliveredInv, PromiseInv, PurchaseInv, TypeInv, StateTypeOK, NewOrderTypeOK
    <2>2. SubscriptionsTypeOK'
      BY DEF DeliveredInv, PromiseInv, PurchaseInv, TypeInv, StateTypeOK
    <2>3. UNCHANGED returns /\ (vendorId # 0 => vendorId' # 0)
      BY DEF Buy, RecordKept
    <2>4. QED
      BY <2>1, <2>2, <2>3, PurchaseOfOneOrder
  <1>1. CASE UNCHANGED <<newOrders, subscriptionVars>>
    BY <1>0, <1>1, FloorKept
  <1>2. CASE PlaceNewOrder
    <2>0. /\ pc = "SubmitNewOrder" /\ PurchaseLines # {} /\ ctx.newOrderId = 0
          /\ ctx.preview # NoPreview
      BY <1>2 DEF PlaceNewOrder
    <2>1. /\ ctx.preview = PreviewOf(Offer) /\ vendorId = 0
          /\ newOrders # <<>> => newOrders = <<newOrders[1]>> /\ newOrders[1].payload = ctx.preview
      BY <1>0, <2>0, PreviewIsOrder DEF Previewed
    <2>2. CASE newOrders # <<>>
      <3>1. {i \in DOMAIN newOrders : newOrders[i].payload = ctx.preview} # {}
        BY <1>0, <2>1, <2>2 DEF OneOrderIsPurchase
      <3>2. UNCHANGED <<newOrders, subscriptionVars>>
        BY <1>2, <3>1 DEF PlaceNewOrder, AdobeCooperates
      <3>3. QED
        BY <1>1, <3>2
    <2>3. CASE newOrders = <<>>
      <3>1. {i \in DOMAIN newOrders : newOrders[i].payload = ctx.preview} = {}
        BY <2>3
      <3>2. PICK orderStatus \in {"OPEN", "COMPLETE"} :
              IF orderStatus = "COMPLETE" THEN Process(ctx.preview.quantity)
                                          ELSE UNCHANGED subscriptionVars
        BY <1>2, <3>1, Zenon DEF PlaceNewOrder
      <3>3. \A line \in Lines : ctx.preview.quantity[line] = ToBuy(line)
        BY <1>0, <2>0, <2>1, PreviewBuys
      <3>4. ~Bought
        BY <2>3 DEF Bought
      <3>5. /\ \A line \in PurchaseLines : renewal'[line] >= renewal[line]
            /\ \A line \in DownsizeLines : renewal'[line] = renewal[line]
        <4>1. CASE orderStatus = "COMPLETE"
          BY <1>0, <3>2, <3>3, <4>1, ProcessRaises
        <4>2. CASE orderStatus = "OPEN"
          <5>1. UNCHANGED renewal
            BY <3>2, <4>2
          <5>2. \A line \in Lines : renewal[line] >= renewal[line]
            BY <1>0 DEF SubscriptionsTypeOK
          <5>3. PurchaseLines \subseteq Lines
            BY DEF PurchaseLines, UpsizeLines, NewLines
          <5>4. QED
            BY <5>1, <5>2, <5>3
        <4>3. QED
          BY <4>1, <4>2
      <3>6. QED
        BY <1>0, <2>0, <3>4, <3>5, PurchaseKeepsFloor
    <2>4. QED
      BY <2>2, <2>3
  <1>3. QED
    BY <1>1, <1>2 DEF Buy, GetPreviewOrder, UpdatePrices, SubmitNewOrder, SkipNewOrder,
       SaveNewOrder, FetchNewOrder

\* The renewal quantities: an upsized line is brought to more than it had at
\* first; a downsized one is lowered once all that is due was taken back.
LEMMA UpdateKeepsFloor ==
    ASSUME AdobeCooperates, RenewsAsOrdered, DeliveredInv, BoughtInv, FloorInv, Update
    PROVE  FloorInv'
  <1>0. /\ TypeInv /\ ctx \in Context /\ renewal \in [Lines -> Nat]
        /\ ctx.error = "none" /\ pc \notin RollingBack
        /\ PromiseInv /\ BackInv /\ LevelInv
    BY DEF DeliveredInv, PromiseInv, PurchaseInv, TypeInv, StateTypeOK, SubscriptionsTypeOK, NoErrorInv
  <1>1. ASSUME NEW step \in Updating, NEW line \in Lines, UpdateLine(step, line)
        PROVE  FloorInv'
    <2>1. /\ pc = step /\ line \in UpdatedBy(step)
          /\ UNCHANGED <<newOrders, returns, vendorId>>
          /\ renewal' = [renewal EXCEPT ![line] = NewQuantity[line]] \/ UNCHANGED renewal
          /\ UNCHANGED renewal => Level(line)
      BY <1>0, <1>1 DEF UpdateLine, AdobeCooperates, Level
    <2>2. /\ renewal'[line] = NewQuantity[line]
          /\ \A l \in Lines : l # line => renewal'[l] = renewal[l]
      BY <1>0, <2>1 DEF Level
    <2>3. PurchaseLines \subseteq Lines /\ DownsizeLines \subseteq Lines
      BY DEF PurchaseLines, UpsizeLines, NewLines, DownsizeLines
    <2>4. \A l \in PurchaseLines : renewal'[l] >= FirstRenewal[l]
      <3> SUFFICES ASSUME NEW l \in PurchaseLines PROVE renewal'[l] >= FirstRenewal[l]
        OBVIOUS
      <3>1. CASE l # line
        BY <2>2, <2>3, <3>1 DEF FloorInv
      <3>2. CASE l = line
        BY <2>2, <2>3, <3>2, AdobeSubscriptionsAssumption
           DEF RenewsAsOrdered, PurchaseLines, UpsizeLines, NewLines, DownsizeLines
      <3>3. QED
        BY <3>1, <3>2
    <2>5. \A l \in Lines : Level(l) => Level(l)'
      BY <2>2 DEF Level
    <2>6. Raised => Raised'
      <3>1. Bought => Bought'
        BY <2>1 DEF Bought
      <3>2. QED
        BY <2>1, <2>3, <2>5, <3>1, RaisedKept
    <2>7. /\ \A l : BackOf(l)' = BackOf(l)
          /\ Returned' = Returned /\ (AllReturned' <=> AllReturned)
      BY <2>1, DueBackIsConstant DEF BackOf, Returned, AllReturned
    <2>8. CASE line \in PurchaseLines
      <3>1. \A l \in DownsizeLines : renewal'[l] = renewal[l]
        BY <2>2, <2>3, <2>8 DEF PurchaseLines, UpsizeLines, NewLines
      <3>2. QED
        BY <2>3, <2>4, <2>5, <2>6, <2>7, <3>1, LinesAreConstant DEF FloorInv
    <2>9. CASE line \in DownsizeLines /\ line \notin PurchaseLines
      <3>1. pc = "UpdateRenewalQuantitiesDownsizes"
        BY <2>1, <2>9 DEF UpdatedBy, Updating
      <3>2. Past(AfterUpdate) /\ AllReturned
        BY <1>0, <3>1 DEF BackInv, Past, AfterUpdate, AfterReturns
      <3>3. Raised
        BY <1>0, <3>2, UpdatedIsRaised
      <3>4. Level(line)'
        BY <2>2 DEF Level
      <3>5. \A l \in DownsizeLines :
               renewal'[l] = OldQuantity[l] - Quantity(BackOf(l)) \/ Level(l)'
        BY <2>2, <2>3, <2>5, <3>4 DEF FloorInv
      <3>6. QED
        BY <2>4, <2>6, <2>7, <3>2, <3>3, <3>5, LinesAreConstant DEF FloorInv
    <2>10. QED
      BY <2>1, <2>8, <2>9 DEF UpdatedBy
  <1>2. ASSUME NEW step, NEW next, LinesUpdated(step, next)
        PROVE  FloorInv'
    <2>1. UNCHANGED <<renewal, returns, newOrders, vendorId>>
      BY <1>2 DEF LinesUpdated
    <2>2. QED
      BY <2>1, FloorKept
  <1>3. ~(RestoreLine \/ ReturnNewOrder \/ RollbackEnds \/ RolledBack)
    BY <1>0 DEF RestoreLine, ReturnNewOrder, RollbackEnds, RolledBack, RollingBack
  <1>4. QED
    BY <1>1, <1>2, <1>3 DEF Update, UpdateRenewalQuantities, Updating

-----------------------------------------------------------------------------
(* The theorem.                                                             *)

\* The invariant holds of an order nothing was done for.
LEMMA FloorInvInit == RenewsAsOrdered /\ Init => FloorInv
  <1> SUFFICES ASSUME RenewsAsOrdered, Init PROVE FloorInv
    OBVIOUS
  <1>1. renewal = FirstRenewal /\ \A p \in Purchases : returns[p] = "none"
    BY DEF Init, SubscriptionsInit, ReturnInit
  <1>2. Returned = {} /\ \A line : BackOf(line) = {}
    BY <1>1 DEF Returned, BackOf
  <1>3. \A line : Quantity(BackOf(line)) = 0
    BY <1>2, SumEmpty DEF Quantity
  <1>4. \A line \in Lines : renewal[line] = OldQuantity[line] /\ OldQuantity[line] \in Nat
    BY <1>1, AdobeSubscriptionsAssumption DEF RenewsAsOrdered
  <1>5. PurchaseLines \subseteq Lines /\ DownsizeLines \subseteq Lines
    BY DEF PurchaseLines, UpsizeLines, NewLines, DownsizeLines
  <1>6. \A line \in PurchaseLines : renewal[line] >= FirstRenewal[line]
    BY <1>1, <1>4, <1>5
  <1>7. \A line \in DownsizeLines : renewal[line] = OldQuantity[line] - Quantity(BackOf(line))
    BY <1>3, <1>4, <1>5
  <1>8. QED
    BY <1>2, <1>4, <1>5, <1>6, <1>7 DEF FloorInv

\* Every step keeps it.
LEMMA FloorInvStep ==
    ASSUME AdobeCooperates, RenewsAsOrdered, DeliveredInv, DeliveredInv', BoughtInv, FloorInv,
           [Next]_vars
    PROVE  FloorInv'
  <1>1. RecordKept
    BY PurchaseInvStep DEF DeliveredInv, PromiseInv
  <1>2. CASE Platform \/ Prepare \/ Publish \/ UNCHANGED vars
    <2>1. UNCHANGED <<renewal, returns, newOrders>>
      BY <1>2 DEF Platform, Prepare, Publish, CreateOrUpdateAssets, CreateOrUpdateSubscriptions,
         vars
    <2>2. QED
      BY <1>1, <2>1, FloorKept DEF RecordKept
  <1>3. QED
    BY <1>1, <1>2, AdobeKeepsFloor, BuyKeepsFloor, GiveBackKeepsFloor, UpdateKeepsFloor
       DEF Next, Step

\* The committed minimum is kept in every state in between, with Adobe
\* answering, processing and taking back in any order and passes ending
\* anywhere, if the agreement meets it before the order and will after it:
\* nothing is given back or lowered before all that is bought is processed and
\* renews as ordered ("the upsizes and new lines are processed first",
\* UpdateRenewalQuantities).
THEOREM CommitmentKeptCorrect ==
    AdobeCooperates /\ ReturnsAreOpen /\ RenewsAsOrdered /\ SomethingToBuy /\ CommitmentMet =>
        (Spec => []CommitmentKept)
  <1> SUFFICES ASSUME AdobeCooperates, ReturnsAreOpen, RenewsAsOrdered, SomethingToBuy,
                      CommitmentMet
               PROVE  Spec => []CommitmentKept
    OBVIOUS
  <1>1. DeliveredInv /\ FloorInv => CommitmentKept
    BY FloorKeepsCommitment
  <1>2. Init => DeliveredInv /\ BoughtInv /\ FloorInv
    BY DeliveredInvInit, BoughtInvInit, FloorInvInit
  <1>3. DeliveredInv /\ BoughtInv /\ FloorInv /\ [Next]_vars =>
          (DeliveredInv /\ BoughtInv /\ FloorInv)'
    <2> SUFFICES ASSUME DeliveredInv, BoughtInv, FloorInv, [Next]_vars
                 PROVE  DeliveredInv' /\ BoughtInv' /\ FloorInv'
      OBVIOUS
    <2>1. DeliveredInv'
      BY DeliveredInvStep
    <2>2. BoughtInv'
      BY BoughtInvStep DEF DeliveredInv
    <2>3. QED
      BY <2>1, <2>2, FloorInvStep
  <1>4. QED
    BY <1>1, <1>2, <1>3, PTL DEF Spec
=============================================================================
