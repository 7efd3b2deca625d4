------------------------- MODULE ChangeOrder_proofs -------------------------
(***************************************************************************)
(* Proofs about ChangeOrder, for every order, customer and agreement:      *)
(* types, the recorded purchase, and what all passes together give back.   *)
(***************************************************************************)
EXTENDS ChangeOrder, SequenceTheorems, SumLemmas, TLAPS

USE DEF Idle

\* The calendar and the status of an order go together: a pass runs only over
\* a Processing order, and a due date is passed by one day at most.
CalendarOK ==
    /\ pc # Idle => status = "Processing"
    /\ status = "Processing" /\ dueDate = NoDate => today <= LatestStart
    /\ dueDate # NoDate => today <= dueDate + 1

TypeInv == StateTypeOK /\ CalendarOK

-----------------------------------------------------------------------------
(* What the prover has to know about the data.                              *)

\* A pass starts with a context of the right kind.
LEMMA EmptyContextType == EmptyContext \in Context
  <1>1. NoEntry \in [{} -> SUBSET Purchases]
    BY DEF NoEntry
  <1>2. QED
    BY <1>1 DEF EmptyContext, Context, NewOrderStatus, ErrorCodes

\* A context with one field replaced, and what it has in common with the
\* context it comes from.
WithReturnOrders(c, v) == [c EXCEPT !.returnOrders = v]
WithPendingReturns(c, v) == [c EXCEPT !.pendingReturns = v]
WithOtherReturns(c, v) == [c EXCEPT !.otherReturns = v]
WithPreview(c, v) == [c EXCEPT !.preview = v]
WithLinesRepriced(c, v) == [c EXCEPT !.linesRepriced = v]
WithNewOrderId(c, v) == [c EXCEPT !.newOrderId = v]
WithNewOrder(c, v) == [c EXCEPT !.newOrder = v]
WithDone(c, v) == [c EXCEPT !.done = v]
WithUpdated(c, v) == [c EXCEPT !.updated = v]
WithError(c, v) == [c EXCEPT !.error = v]
WithReturnable(c, v) == [c EXCEPT !.returnable = v]

SameOrder(c, d) == d.newOrderId = c.newOrderId /\ d.newOrder = c.newOrder
SameReturns(c, d) ==
    d.returnOrders = c.returnOrders /\ d.pendingReturns = c.pendingReturns

\* Replacing one field keeps the context of its kind and the other fields
\* as they were; one lemma per field.
LEMMA WithReturnOrdersType ==
    ASSUME NEW c \in Context, NEW v \in SUBSET Purchases
    PROVE  /\ WithReturnOrders(c, v) \in Context
           /\ SameOrder(c, WithReturnOrders(c, v))
           /\ WithReturnOrders(c, v).returnOrders = v
           /\ WithReturnOrders(c, v).pendingReturns = c.pendingReturns
  BY DEF WithReturnOrders, Context, SameOrder, SameReturns

\* As above, for pendingReturns.
LEMMA WithPendingReturnsType ==
    ASSUME NEW c \in Context, NEW v \in SUBSET Purchases
    PROVE  /\ WithPendingReturns(c, v) \in Context
           /\ SameOrder(c, WithPendingReturns(c, v))
           /\ WithPendingReturns(c, v).pendingReturns = v
           /\ WithPendingReturns(c, v).returnOrders = c.returnOrders
  BY DEF WithPendingReturns, Context, SameOrder, SameReturns

\* As above, for otherReturns.
LEMMA WithOtherReturnsType ==
    ASSUME NEW c \in Context, NEW v \in BOOLEAN
    PROVE  /\ WithOtherReturns(c, v) \in Context
           /\ SameOrder(c, WithOtherReturns(c, v))
           /\ SameReturns(c, WithOtherReturns(c, v))
  BY DEF WithOtherReturns, Context, SameOrder, SameReturns

\* As above, for preview.
LEMMA WithPreviewType ==
    ASSUME NEW c \in Context, NEW v \in Payload \cup {NoPreview}
    PROVE  /\ WithPreview(c, v) \in Context
           /\ SameOrder(c, WithPreview(c, v))
           /\ SameReturns(c, WithPreview(c, v))
           /\ WithPreview(c, v).preview = v
  BY DEF WithPreview, Context, SameOrder, SameReturns

\* As above, for linesRepriced.
LEMMA WithLinesRepricedType ==
    ASSUME NEW c \in Context, NEW v \in BOOLEAN
    PROVE  /\ WithLinesRepriced(c, v) \in Context
           /\ SameOrder(c, WithLinesRepriced(c, v))
           /\ SameReturns(c, WithLinesRepriced(c, v))
  BY DEF WithLinesRepriced, Context, SameOrder, SameReturns

\* As above, for newOrderId.
LEMMA WithNewOrderIdType ==
    ASSUME NEW c \in Context, NEW v \in Nat
    PROVE  /\ WithNewOrderId(c, v) \in Context
           /\ SameReturns(c, WithNewOrderId(c, v))
           /\ WithNewOrderId(c, v).newOrderId = v
           /\ WithNewOrderId(c, v).newOrder = c.newOrder
  BY DEF WithNewOrderId, Context, SameOrder, SameReturns

\* As above, for newOrder.
LEMMA WithNewOrderType ==
    ASSUME NEW c \in Context, NEW v \in NewOrderStatus
    PROVE  /\ WithNewOrder(c, v) \in Context
           /\ SameReturns(c, WithNewOrder(c, v))
           /\ WithNewOrder(c, v).newOrder = v
           /\ WithNewOrder(c, v).newOrderId = c.newOrderId
  BY DEF WithNewOrder, Context, SameOrder, SameReturns

\* As above, for done.
LEMMA WithDoneType ==
    ASSUME NEW c \in Context, NEW v \in SUBSET Lines
    PROVE  /\ WithDone(c, v) \in Context
           /\ SameOrder(c, WithDone(c, v))
           /\ SameReturns(c, WithDone(c, v))
           /\ WithDone(c, v).updated = c.updated
  BY DEF WithDone, Context, SameOrder, SameReturns

\* As above, for updated.
LEMMA WithUpdatedType ==
    ASSUME NEW c \in Context, NEW v \in SUBSET (Lines \X Nat)
    PROVE  /\ WithUpdated(c, v) \in Context
           /\ SameOrder(c, WithUpdated(c, v))
           /\ SameReturns(c, WithUpdated(c, v))
  BY DEF WithUpdated, Context, SameOrder, SameReturns

\* As above, for error.
LEMMA WithErrorType ==
    ASSUME NEW c \in Context, NEW v \in ErrorCodes \cup {"none"}
    PROVE  /\ WithError(c, v) \in Context
           /\ SameOrder(c, WithError(c, v))
           /\ SameReturns(c, WithError(c, v))
  BY DEF WithError, Context, SameOrder, SameReturns

\* As above, for returnable.
LEMMA WithReturnableType ==
    ASSUME NEW c \in Context, NEW lines \in SUBSET DownsizeLines,
           NEW v \in [lines -> SUBSET Purchases]
    PROVE  /\ WithReturnable(c, v) \in Context
           /\ SameOrder(c, WithReturnable(c, v))
           /\ SameReturns(c, WithReturnable(c, v))
  BY DEF WithReturnable, Context, SameOrder, SameReturns

\* Adobe's answer: the identifier of the order and its status.
LEMMA AnsweredType ==
    ASSUME ctx \in Context, NEW id \in Nat, NEW orderStatus \in NewOrderStatus,
           ctx' = [ctx EXCEPT !.newOrderId = id, !.newOrder = orderStatus]
    PROVE  ctx' \in Context /\ SameReturns(ctx, ctx')
           /\ ctx'.newOrderId = id /\ ctx'.newOrder = orderStatus
  <1> DEFINE c == WithNewOrderId(ctx, id)
  <1>1. ctx' = WithNewOrder(c, orderStatus)
    BY Zenon DEF WithNewOrder, WithNewOrderId
  <1>2. c \in Context /\ SameReturns(ctx, c) /\ c.newOrderId = id
    BY WithNewOrderIdType
  <1> HIDE DEF c
  <1>3. QED
    BY <1>1, <1>2, WithNewOrderType DEF SameReturns

\* What a line still has to buy is a quantity, never negative
\* (_process_upsize_lines).
LEMMA PurchaseQuantityType ==
    ASSUME SubscriptionsTypeOK, NEW line \in Lines
    PROVE  PurchaseQuantity(line) \in Nat
  BY AdobeSubscriptionsAssumption
     DEF PurchaseQuantity, SubscriptionsTypeOK, NewLines, UpsizeLines, DownsizeLines

\* Processing an order leaves quantities that are not negative.
LEMMA ProcessType ==
    ASSUME SubscriptionsTypeOK, NEW change \in [Lines -> Int], Process(change)
    PROVE  SubscriptionsTypeOK'
  BY DEF Process, SubscriptionsTypeOK, Moved

\* One NEW order changes: the list keeps its length and its other orders.
LEMMA ReplaceOrder ==
    ASSUME newOrders \in Seq(NewOrder), NEW id \in DOMAIN newOrders, NEW o \in NewOrder,
           newOrders' = [newOrders EXCEPT ![id] = o]
    PROVE  /\ newOrders' \in Seq(NewOrder)
           /\ Len(newOrders') = Len(newOrders)
           /\ \A j \in 1 .. Len(newOrders) :
                 newOrders'[j] = IF j = id THEN o ELSE newOrders[j]
  BY ExceptSeq, LenProperties

\* An order of the list has a status Adobe knows.
LEMMA NewOrderAt ==
    ASSUME newOrders \in Seq(NewOrder), NEW id \in DOMAIN newOrders
    PROVE  id \in 1 .. Len(newOrders) /\ newOrders[id].status \in NewOrderStatus
  <1>1. newOrders[id] \in NewOrder /\ id \in 1 .. Len(newOrders)
    BY LenProperties
  <1>2. QED
    BY <1>1 DEF NewOrder

\* A processed purchase stays processed, and only a pass starts a return.
OrdersKept(length) ==
    /\ newOrders' \in Seq(NewOrder)
    /\ Len(newOrders') = length
    /\ \A j \in 1 .. Len(newOrders) :
          newOrders[j].status \in {"COMPLETE", "CANCELLED"} =>
              newOrders'[j].status \in {"COMPLETE", "CANCELLED"}

-----------------------------------------------------------------------------
(* Steps of a pass, one lemma per part of the pipeline.                     *)

USE OrderPassAssumption DEF RefusalKinds

USE DEF adobeVars, subscriptionVars

\* A pass that waits or decides the order, and leaves the rest alone.
LEMMA EndType ==
    ASSUME TypeInv, pc # Idle, UNCHANGED <<adobeVars, subscribed>>,
           Wait \/ \E outcome \in {"Completed", "Failed", "Querying"} : Decide(outcome)
    PROVE  TypeInv'
  <1>0. EndPass /\ vendorId' = vendorId /\ today' = today
    BY DEF Wait, Decide
  <1>1. ctx' \in Context /\ ctx'.newOrderId = 0 /\ ctx'.newOrder = "none"
        /\ ctx'.pendingReturns = {} /\ pc' = Idle /\ vendorId' = vendorId /\ today' = today
    BY <1>0, EmptyContextType DEF EndPass, EmptyContext
  <1>2. PassTypeOK' /\ CalendarOK'
    BY <1>1 DEF TypeInv, StateTypeOK, PassTypeOK, CalendarOK, Wait, Decide, NoDate, DueDay, Day
  <1>3. QED
    BY <1>1, <1>2 DEF TypeInv, StateTypeOK, Steps, SubscriptionsTypeOK, NewOrderTypeOK, ReturnTypeOK

\* A step that goes on, with something more in the context or nothing.
LEMMA GoOnType ==
    ASSUME TypeInv, pc # Idle, UNCHANGED <<adobeVars, subscribed>>,
           UNCHANGED <<status, dueDate, vendorId, today>>,
           pc' \in Steps \ {Idle},
           ctx' \in Context, ctx'.newOrderId \in 0 .. Len(newOrders),
           ctx'.pendingReturns \subseteq ctx'.returnOrders,
           ctx'.newOrder # "none" => ctx'.newOrderId # 0
    PROVE  TypeInv'
  BY DEF TypeInv, StateTypeOK, PassTypeOK, CalendarOK, SubscriptionsTypeOK, NewOrderTypeOK,
         ReturnTypeOK

\* A step that only goes on keeps the types.
LEMMA ContinueType ==
    ASSUME TypeInv, pc # Idle, UNCHANGED <<adobeVars, subscribed>>,
           NEW next \in Steps \ {Idle}, Continue(next)
    PROVE  TypeInv'
  <1>1. ctx.newOrderId \in 0 .. Len(newOrders) /\ ctx.pendingReturns \subseteq ctx.returnOrders
        /\ ctx \in Context /\ (ctx.newOrder # "none" => ctx.newOrderId # 0)
    BY DEF TypeInv, StateTypeOK, NewOrderTypeOK, ReturnTypeOK
  <1>2. QED
    BY <1>1, GoOnType DEF Continue, Goto

\* Dispatch, Abort, Resume and NextDay keep the types and the calendar.
LEMMA PlatformType ==
    ASSUME TypeInv, Platform
    PROVE  TypeInv'
  <1> USE DEF TypeInv, StateTypeOK, PassTypeOK, CalendarOK, Steps, NoDate, DueDay, Day,
              adobeVars, subscriptionVars, SubscriptionsTypeOK, NewOrderTypeOK,
              ReturnTypeOK
  <1>1. CASE Dispatch
    BY <1>1 DEF Platform, Dispatch, Goto
  <1>2. CASE Abort
    BY <1>2, EmptyContextType DEF Platform, Abort, Wait, EndPass, EmptyContext
  <1>3. CASE Resume
    BY <1>3 DEF Platform, Resume
  <1>4. CASE NextDay
    BY <1>4 DEF Platform, NextDay
  <1>5. QED
    BY <1>1, <1>2, <1>3, <1>4 DEF Platform

\* The checks in front of the pipeline keep the types and the calendar.
LEMMA PrepareType ==
    ASSUME TypeInv, Prepare
    PROVE  TypeInv'
  <1> USE DEF switch_order_to_failed, switch_order_to_query
  <1>0. UNCHANGED <<adobeVars, subscribed>>
    BY DEF Prepare
  <1>1. CASE SetupContext("SetupDueDate")
    <2>1. CASE ctx' = [EmptyContext EXCEPT !.newOrderId = vendorId]
      <3>1. vendorId \in Nat /\ vendorId \in 0 .. Len(newOrders)
        BY DEF TypeInv, StateTypeOK, NewOrderTypeOK
      <3>2. ctx' \in Context /\ ctx'.returnOrders = {} /\ ctx'.pendingReturns = {}
            /\ ctx'.newOrder = "none" /\ ctx'.newOrderId = vendorId
        BY <2>1, <3>1, EmptyContextType DEF EmptyContext, Context
      <3>3. QED
        BY <1>0, <1>1, <3>1, <3>2, GoOnType, EndType DEF SetupContext, Goto, Steps
    <2>2. QED
      BY <1>0, <1>1, <2>1, EndType DEF SetupContext
  <1>2. CASE SetupDueDate("ValidateDuplicateLines")
    <2>1. CASE switch_order_to_failed
      BY <1>0, <1>2, <2>1, EndType DEF SetupDueDate
    <2>2. CASE ~switch_order_to_failed
      BY <1>0, <1>2, <2>2
         DEF SetupDueDate, Goto, TypeInv, StateTypeOK, PassTypeOK, CalendarOK, Steps, NoDate,
             DueDay, Day, SubscriptionsTypeOK, NewOrderTypeOK, ReturnTypeOK
    <2>3. QED
      BY <2>1, <2>2
  <1>3. CASE ValidateDuplicateLines("ValidateRenewalWindow")
    BY <1>0, <1>3, ContinueType, EndType DEF ValidateDuplicateLines, Steps
  <1>4. CASE ValidateRenewalWindow("ValidateSkuAvailability")
    BY <1>0, <1>4, ContinueType, EndType DEF ValidateRenewalWindow, Steps
  <1>5. CASE ValidateSkuAvailability("GetReturnOrders")
    BY <1>0, <1>5, ContinueType, EndType DEF ValidateSkuAvailability, Steps
  <1>6. CASE Validate3YCCommitment("GetPreviewOrder")
    BY <1>0, <1>6, ContinueType, EndType DEF Validate3YCCommitment, Steps
  <1>7. QED
    BY <1>1, <1>2, <1>3, <1>4, <1>5, <1>6 DEF Prepare

\* The steps about return orders keep the types and the calendar.
LEMMA GiveBackType ==
    ASSUME TypeInv, GiveBack
    PROVE  TypeInv'
  <1>0. UNCHANGED <<newOrders, subscribed>>
    BY DEF GiveBack
  <1> ctx \in Context /\ ctx.newOrderId \in 0 .. Len(newOrders)
      /\ (ctx.newOrder # "none" => ctx.newOrderId # 0)
      /\ ctx.pendingReturns \subseteq ctx.returnOrders
    BY DEF TypeInv, StateTypeOK, NewOrderTypeOK, ReturnTypeOK
  <1>1. CASE GetReturnOrders("GetReturnableOrders", RolledBackOrders # {})
    <2> DEFINE pending == {p \in Returned : returns[p] = "OPEN"}
               found == WithPendingReturns(WithReturnOrders(ctx, Returned), pending)
    <2>1. Returned \in SUBSET Purchases /\ pending \in SUBSET Purchases
      BY DEF Returned
    <2>2. found \in Context /\ SameOrder(ctx, found) /\ found.returnOrders = Returned
          /\ found.pendingReturns = pending
      BY <2>1, WithReturnOrdersType, WithPendingReturnsType DEF SameOrder
    <2>3. ctx' = WithOtherReturns(found, RolledBackOrders # {})
      BY <1>1, Zenon
         DEF GetReturnOrders, WithOtherReturns, WithPendingReturns, WithReturnOrders
    <2>4. pending \subseteq Returned
      OBVIOUS
    <2> HIDE DEF found, pending
    <2>5. ctx' \in Context /\ ctx'.pendingReturns \subseteq ctx'.returnOrders
          /\ SameOrder(ctx, ctx')
      BY <2>2, <2>3, <2>4, WithOtherReturnsType DEF SameOrder, SameReturns
    <2>6. QED
      BY <1>0, <1>1, <2>5, GoOnType DEF GetReturnOrders, Goto, Steps, SameOrder
  <1>2. CASE GetReturnableOrders("ValidateReturnableOrders")
    <2> DEFINE lines == {l \in DownsizeLines : ReturnableOrders(l) # {}}
               found == [l \in lines |-> Combination(ReturnableOrders(l), Downsize(l))]
    <2>1. found \in [lines -> SUBSET Purchases] /\ lines \in SUBSET DownsizeLines
      BY DEF Combination, ReturnableOrders
    <2>2. ctx' = ctx \/ ctx' = WithReturnable(ctx, found)
      BY <1>2, Zenon DEF GetReturnableOrders, WithReturnable
    <2> HIDE DEF lines, found
    <2>3. ctx' \in Context /\ ctx'.pendingReturns \subseteq ctx'.returnOrders
          /\ SameOrder(ctx, ctx')
      BY <2>1, <2>2, WithReturnableType DEF SameOrder, SameReturns
    <2>4. QED
      BY <1>0, <1>2, <2>3, GoOnType DEF GetReturnableOrders, Goto, Steps, SameOrder
  <1>3. CASE ValidateReturnableOrders("Validate3YCCommitment")
    BY <1>0, <1>3, ContinueType, EndType
       DEF ValidateReturnableOrders, Steps, switch_order_to_failed
  <1>4. ASSUME NEW p \in Purchases, NEW answer \in {"OPEN", "COMPLETE"},
               PostReturnOrder(p, answer)
        PROVE  SubscriptionsTypeOK' /\ returns' \in [Purchases -> ReturnStatus]
    <2> DEFINE change == [line \in Lines |->
                            IF line = PurchaseLine[p] THEN -PurchasedQuantity[p] ELSE 0]
    <2>1. SubscriptionsTypeOK /\ change \in [Lines -> Int]
      BY ReturnAssumption DEF TypeInv, StateTypeOK
    <2>2. Process(change) \/ UNCHANGED subscriptionVars
      BY <1>4 DEF PostReturnOrder, TakeBack
    <2>3. returns' \in [Purchases -> ReturnStatus]
      BY <1>4 DEF PostReturnOrder, TypeInv, StateTypeOK, ReturnTypeOK, ReturnStatus
    <2> HIDE DEF change
    <2>4. QED
      BY <2>1, <2>2, <2>3, ProcessType DEF SubscriptionsTypeOK
  <1>5. ASSUME NEW p \in Purchases, PlaceReturnOrder(p)
        PROVE  TypeInv'
    <2>2. PICK answer \in {"OPEN", "COMPLETE"} :
            /\ PostReturnOrder(p, answer)
            /\ ctx' = [ctx EXCEPT !.returnOrders = @ \cup {p},
                         !.pendingReturns = IF answer = "OPEN" THEN @ \cup {p} ELSE @]
      BY <1>5 DEF PlaceReturnOrder
    <2> DEFINE placed == ctx.returnOrders \cup {p}
               pending == IF answer = "OPEN" THEN ctx.pendingReturns \cup {p}
                                              ELSE ctx.pendingReturns
    <2>3. placed \in SUBSET Purchases /\ pending \in SUBSET Purchases /\ pending \subseteq placed
      BY DEF Context
    <2>4. ctx' = WithPendingReturns(WithReturnOrders(ctx, placed), pending)
      BY <2>2, Zenon DEF WithPendingReturns, WithReturnOrders
    <2> HIDE DEF placed, pending
    <2>5. ctx' \in Context /\ ctx'.pendingReturns \subseteq ctx'.returnOrders
          /\ SameOrder(ctx, ctx')
      BY <2>3, <2>4, WithReturnOrdersType, WithPendingReturnsType DEF SameOrder
    <2>6. SubscriptionsTypeOK' /\ returns' \in [Purchases -> ReturnStatus]
      BY <1>4, <2>2
    <2>7. QED
      BY <1>0, <1>5, <2>2, <2>5, <2>6
         DEF PlaceReturnOrder, PostReturnOrder, TypeInv, StateTypeOK, PassTypeOK, CalendarOK, NewOrderTypeOK,
             ReturnTypeOK, SameOrder
  <1>6. ASSUME NEW p \in Purchases, LoseReturnOrder(p)
        PROVE  TypeInv'
    <2>1. SubscriptionsTypeOK' /\ returns' \in [Purchases -> ReturnStatus]
      BY <1>4, <1>6 DEF LoseReturnOrder
    <2>2. ctx' \in Context /\ ctx'.newOrderId = 0 /\ ctx'.newOrder = "none"
          /\ ctx'.pendingReturns = {} /\ pc' = Idle
          /\ UNCHANGED <<status, dueDate, vendorId, today>>
      BY <1>6, EmptyContextType DEF LoseReturnOrder, Wait, EndPass, EmptyContext
    <2>3. QED
      BY <1>0, <2>1, <2>2
         DEF TypeInv, StateTypeOK, PassTypeOK, CalendarOK, NewOrderTypeOK, ReturnTypeOK, Steps
  <1>7. CASE AwaitReturnOrders("UpdateRenewalQuantitiesDownsizes")
    BY <1>0, <1>7, ContinueType, EndType DEF AwaitReturnOrders, Steps
  <1>8. QED
    BY <1>1, <1>2, <1>3, <1>5, <1>6, <1>7 DEF GiveBack, SubmitReturnOrders

\* Adobe's own steps keep the types and the order's side unchanged, never
\* unprocess a purchase and never start a return.
LEMMA AdobeType ==
    ASSUME TypeInv, Adobe
    PROVE  /\ TypeInv'
           /\ UNCHANGED <<passVars, subscribed>>
           /\ OrdersKept(Len(newOrders))
           /\ \A j \in 1 .. Len(newOrders) :
                 newOrders[j].returned = "none" => newOrders'[j].returned = "none"
           /\ \A p \in Purchases : returns[p] = "none" => returns'[p] = "none"
  <1> newOrders \in Seq(NewOrder) /\ SubscriptionsTypeOK
      /\ returns \in [Purchases -> ReturnStatus]
    BY DEF TypeInv, StateTypeOK, NewOrderTypeOK, ReturnTypeOK
  <1>1. CASE AdobeSettlesNewOrder /\ UNCHANGED <<returns, subscribed>>
    <2>1. PICK id \in DOMAIN newOrders :
            \/ AdobeCompletesNewOrder(id)
            \/ AdobeFailsNewOrder(id)
            \/ AdobeCancelsReturnedOrder(id)
      BY <1>1 DEF AdobeSettlesNewOrder
    <2>2. newOrders[id] \in NewOrder /\ DOMAIN newOrders = 1 .. Len(newOrders)
      BY LenProperties
    <2> DEFINE bought == newOrders[id].payload.quantity
               undone == [line \in Lines |-> -bought[line]]
    <2>3. bought \in [Lines -> Int] /\ undone \in [Lines -> Int]
      BY <2>2 DEF NewOrder, Payload
    <2>4. SubscriptionsTypeOK'
      <3>1. Process(bought) \/ Process(undone) \/ UNCHANGED subscriptionVars
        BY <2>1 DEF AdobeCompletesNewOrder, AdobeFailsNewOrder, AdobeCancelsReturnedOrder
      <3> HIDE DEF bought, undone
      <3>2. QED
        BY <2>3, <3>1, ProcessType DEF SubscriptionsTypeOK
    <2> HIDE DEF bought, undone
    <2>5. /\ OrdersKept(Len(newOrders))
          /\ \A j \in 1 .. Len(newOrders) :
                newOrders[j].returned = "none" => newOrders'[j].returned = "none"
      <3>1. CASE AdobeCompletesNewOrder(id)
        <4> DEFINE o == [newOrders[id] EXCEPT !.status = "COMPLETE"]
        <4>1. o \in NewOrder /\ o.status = "COMPLETE" /\ o.returned = newOrders[id].returned
          BY <2>2 DEF NewOrder, NewOrderStatus
        <4>2. newOrders' = [newOrders EXCEPT ![id] = o]
          BY <3>1 DEF AdobeCompletesNewOrder
        <4> HIDE DEF o
        <4>3. QED
          BY <2>2, <4>1, <4>2, ReplaceOrder DEF OrdersKept
      <3>2. CASE AdobeFailsNewOrder(id)
        <4> DEFINE o == [newOrders[id] EXCEPT !.status = "FAILED"]
        <4>1. o \in NewOrder /\ o.returned = newOrders[id].returned
          BY <2>2 DEF NewOrder, NewOrderStatus
        <4>2. newOrders' = [newOrders EXCEPT ![id] = o] /\ newOrders[id].status = "OPEN"
          BY <3>2 DEF AdobeFailsNewOrder
        <4> HIDE DEF o
        <4>3. QED
          BY <2>2, <4>1, <4>2, ReplaceOrder DEF OrdersKept
      <3>3. CASE AdobeCancelsReturnedOrder(id)
        <4> DEFINE o == [newOrders[id] EXCEPT !.status = "CANCELLED", !.returned = "COMPLETE"]
        <4>1. o \in NewOrder /\ o.status = "CANCELLED"
          BY <2>2 DEF NewOrder, NewOrderStatus
        <4>2. newOrders' = [newOrders EXCEPT ![id] = o] /\ newOrders[id].returned = "OPEN"
          BY <2>2, <3>3 DEF AdobeCancelsReturnedOrder
        <4> HIDE DEF o
        <4>3. QED
          BY <2>2, <4>1, <4>2, ReplaceOrder DEF OrdersKept
      <3>4. QED
        BY <2>1, <3>1, <3>2, <3>3
    <2>6. QED
      BY <1>1, <2>4, <2>5
         DEF AdobeSettlesNewOrder, passVars, TypeInv, StateTypeOK, PassTypeOK, CalendarOK,
             NewOrderTypeOK, ReturnTypeOK, OrdersKept
  <1>2. CASE AdobeSettlesReturnOrder /\ UNCHANGED <<newOrders, subscribed>>
    <2>1. PICK p \in Purchases :
            /\ returns[p] = "OPEN"
            /\ \/ returns' = [returns EXCEPT ![p] = "COMPLETE"] /\ TakeBack(p)
               \/ returns' = [returns EXCEPT ![p] = "none"] /\ UNCHANGED subscriptionVars
      BY <1>2 DEF AdobeSettlesReturnOrder
    <2>2. returns' \in [Purchases -> ReturnStatus]
          /\ \A q \in Purchases : returns[q] = "none" => returns'[q] = "none"
      BY <2>1 DEF ReturnStatus
    <2>3. SubscriptionsTypeOK'
      <3> DEFINE change == [line \in Lines |->
                              IF line = PurchaseLine[p] THEN -PurchasedQuantity[p] ELSE 0]
      <3>1. change \in [Lines -> Int]
        BY ReturnAssumption
      <3>2. Process(change) \/ UNCHANGED subscriptionVars
        BY <2>1 DEF TakeBack
      <3> HIDE DEF change
      <3>3. QED
        BY <3>1, <3>2, ProcessType DEF SubscriptionsTypeOK
    <2>4. OrdersKept(Len(newOrders))
      BY <1>2 DEF OrdersKept
    <2>5. QED
      BY <1>2, <2>2, <2>3, <2>4
         DEF AdobeSettlesReturnOrder, passVars, TypeInv, StateTypeOK, PassTypeOK, CalendarOK,
             NewOrderTypeOK, ReturnTypeOK
  <1>3. QED
    BY <1>1, <1>2 DEF Adobe

\* GetPreviewOrder, UpdatePrices and SubmitNewOrder keep the types.
LEMMA BuyType ==
    ASSUME TypeInv, Buy
    PROVE  TypeInv'
  <1>0. UNCHANGED <<returns, subscribed>>
    BY DEF Buy
  <1> ctx \in Context /\ ctx.newOrderId \in 0 .. Len(newOrders)
      /\ (ctx.newOrder # "none" => ctx.newOrderId # 0)
      /\ ctx.pendingReturns \subseteq ctx.returnOrders
      /\ newOrders \in Seq(NewOrder) /\ SubscriptionsTypeOK
    BY DEF TypeInv, StateTypeOK, NewOrderTypeOK, ReturnTypeOK
  <1> USE DEF SameOrder, SameReturns
  <1>1. CASE GetPreviewOrder("UpdatePrices")
    <2>0. UNCHANGED <<adobeVars, subscribed>> /\ pc # Idle
      BY <1>0, <1>1 DEF GetPreviewOrder
    <2>1. CASE Continue("UpdatePrices")
      BY <2>0, <2>1, ContinueType DEF Steps
    <2>2. CASE switch_order_to_failed
      BY <2>0, <2>2, EndType DEF switch_order_to_failed
    <2>3. ASSUME NEW offer \in Offers, ctx' = [ctx EXCEPT !.preview = PreviewOf(offer)],
                 Goto("UpdatePrices"), UNCHANGED <<status, dueDate, vendorId, today>>
          PROVE  TypeInv'
      <3>1. PreviewOf(offer) \in Payload \cup {NoPreview}
        BY PurchaseQuantityType DEF PreviewOf, Payload
      <3>2. ctx' = WithPreview(ctx, PreviewOf(offer))
        BY <2>3, Zenon DEF WithPreview
      <3>3. QED
        BY <2>0, <2>3, <3>1, <3>2, WithPreviewType, GoOnType DEF Goto, Steps
    <2>4. QED
      BY <1>1, <2>1, <2>2, <2>3 DEF GetPreviewOrder
  <1>2. CASE UpdatePrices("SubmitNewOrder")
    <2>1. ctx' = WithLinesRepriced(ctx, ctx.preview # NoPreview)
      BY <1>2, Zenon DEF UpdatePrices, WithLinesRepriced
    <2>2. QED
      BY <1>0, <1>2, <2>1, WithLinesRepricedType, GoOnType DEF UpdatePrices, Goto, Steps
  <1>3. CASE SkipNewOrder("UpdateRenewalQuantities")
    BY <1>0, <1>3, ContinueType DEF SkipNewOrder, Steps
  <1>4. CASE PlaceNewOrder
    <2>0. UNCHANGED <<status, dueDate, vendorId, today, returns, subscribed>>
          /\ pc = "SubmitNewOrder" /\ pc' = "SaveNewOrder"
      BY <1>0, <1>4 DEF PlaceNewOrder, Goto
    <2>1. ASSUME NEW id \in Nat, id \in 1 .. Len(newOrders'), NEW orderStatus \in NewOrderStatus,
                 ctx' = [ctx EXCEPT !.newOrderId = id, !.newOrder = orderStatus],
                 newOrders' \in Seq(NewOrder), Len(newOrders') >= Len(newOrders),
                 SubscriptionsTypeOK'
          PROVE  TypeInv'
      <3>1. ctx' \in Context /\ SameReturns(ctx, ctx') /\ ctx'.newOrderId = id
        BY <2>1, AnsweredType
      <3>2. QED
        BY <2>0, <2>1, <3>1
           DEF TypeInv, StateTypeOK, PassTypeOK, CalendarOK, NewOrderTypeOK, ReturnTypeOK, Steps
    <2>2. ASSUME NEW id \in DOMAIN newOrders,
                 ctx' = [ctx EXCEPT !.newOrderId = id, !.newOrder = newOrders[id].status],
                 UNCHANGED <<newOrders, subscriptionVars>>
          PROVE  TypeInv'
      <3>1. id \in 1 .. Len(newOrders) /\ newOrders[id].status \in NewOrderStatus
        BY <2>2, NewOrderAt
      <3>2. SubscriptionsTypeOK' /\ newOrders' \in Seq(NewOrder) /\ newOrders' = newOrders
        BY <2>2 DEF SubscriptionsTypeOK
      <3>3. id \in Nat /\ id \in 1 .. Len(newOrders') /\ Len(newOrders') >= Len(newOrders)
        BY <3>1, <3>2, LenProperties
      <3>4. QED
        BY <2>1, <2>2, <3>1, <3>2, <3>3
    <2>3. ASSUME ctx.preview # NoPreview, NEW orderStatus \in {"OPEN", "COMPLETE"},
                 newOrders' = Append(newOrders, [payload |-> ctx.preview,
                                 status |-> orderStatus, returned |-> "none"]),
                 ctx' = [ctx EXCEPT !.newOrderId = Len(newOrders) + 1, !.newOrder = orderStatus],
                 Process(ctx.preview.quantity) \/ UNCHANGED subscriptionVars
          PROVE  TypeInv'
      <3>1. ctx.preview \in Payload
        BY <2>3 DEF Context
      <3>2. [payload |-> ctx.preview, status |-> orderStatus, returned |-> "none"] \in NewOrder
        BY <3>1 DEF NewOrder, NewOrderStatus
      <3>3. newOrders' \in Seq(NewOrder) /\ Len(newOrders') = Len(newOrders) + 1
        BY <2>3, <3>2, AppendProperties
      <3>4. SubscriptionsTypeOK'
        <4>1. ctx.preview.quantity \in [Lines -> Int]
          BY <3>1 DEF Payload
        <4>2. QED
          BY <2>3, <4>1, ProcessType DEF SubscriptionsTypeOK
      <3>5. Len(newOrders) + 1 \in Nat /\ orderStatus \in NewOrderStatus
            /\ Len(newOrders) + 1 \in 1 .. Len(newOrders') /\ Len(newOrders') >= Len(newOrders)
        BY <3>3, LenProperties DEF NewOrderStatus
      <3>6. QED
        BY <2>1, <2>3, <3>3, <3>4, <3>5
    <2>4. QED
      BY <1>4, <2>2, <2>3 DEF PlaceNewOrder
  <1>5. ASSUME NEW id \in Nat, id = ctx.newOrderId, NEW orderStatus,
               orderStatus = "COMPLETE" => id # 0, pc # Idle, FollowOrder("UpdateRenewalQuantities", id, orderStatus),
               vendorId' \in {vendorId, id}, UNCHANGED <<adobeVars, subscribed>>
        PROVE  TypeInv'
    <2>0. vendorId' \in 0 .. Len(newOrders)
      BY <1>5 DEF TypeInv, StateTypeOK, NewOrderTypeOK
    <2>1. CASE EndPass /\ UNCHANGED today
               /\ (UNCHANGED <<status, dueDate>> \/ (status' = "Failed" /\ dueDate' = NoDate))
      <3>1. ctx' \in Context /\ ctx'.newOrderId = 0 /\ ctx'.newOrder = "none"
            /\ ctx'.pendingReturns = {} /\ pc' = Idle
        BY <2>1, EmptyContextType DEF EndPass, EmptyContext
      <3>2. PassTypeOK' /\ CalendarOK'
        BY <2>1, <3>1 DEF TypeInv, StateTypeOK, PassTypeOK, CalendarOK
      <3>3. QED
        BY <1>5, <2>0, <3>1, <3>2
           DEF TypeInv, StateTypeOK, Steps, SubscriptionsTypeOK, NewOrderTypeOK, ReturnTypeOK
    <2>2. CASE /\ orderStatus = "COMPLETE"
               /\ ctx' = [ctx EXCEPT !.newOrderId = id, !.newOrder = orderStatus]
               /\ pc' = "UpdateRenewalQuantities"
               /\ UNCHANGED <<status, dueDate, today>>
      <3>1. ctx' \in Context /\ SameReturns(ctx, ctx') /\ ctx'.newOrderId = id
        BY <1>5, <2>2, AnsweredType DEF NewOrderStatus
      <3>2. QED
        BY <1>5, <2>0, <2>2, <3>1
           DEF TypeInv, StateTypeOK, PassTypeOK, CalendarOK, NewOrderTypeOK, ReturnTypeOK,
               SubscriptionsTypeOK, Steps
    <2>3. QED
      BY <1>5, <2>1, <2>2 DEF FollowOrder, Goto
  <1>6. CASE SaveNewOrder("UpdateRenewalQuantities")
    <2>1. ctx.newOrderId \in Nat /\ vendorId' \in {vendorId, ctx.newOrderId}
      BY <1>6, LenProperties DEF SaveNewOrder
    <2>2. ctx.newOrder = "COMPLETE" => ctx.newOrderId # 0
      OBVIOUS
    <2>3. QED
      BY <1>0, <1>5, <1>6, <2>1, <2>2 DEF SaveNewOrder
  <1>7. CASE FetchNewOrder("UpdateRenewalQuantities")
    <2>1. ctx.newOrderId \in Nat
      BY LenProperties
    <2>2. QED
      BY <1>0, <1>5, <1>7, <2>1 DEF FetchNewOrder
  <1>8. QED
    BY <1>1, <1>2, <1>3, <1>4, <1>6, <1>7 DEF Buy, SubmitNewOrder

\* A step of the loop over the lines, or of the rollback: the context goes on
\* to another of the same kind, a renewal quantity may change.
LEMMA RenewalStepType ==
    ASSUME TypeInv, pc # Idle, pc' \in Steps \ {Idle},
           UNCHANGED <<status, dueDate, vendorId, today, current, newOrders, returns, subscribed>>,
           renewal' \in [Lines -> Nat],
           ctx' \in Context, SameOrder(ctx, ctx'), SameReturns(ctx, ctx')
    PROVE  TypeInv'
  BY DEF TypeInv, StateTypeOK, PassTypeOK, CalendarOK, SubscriptionsTypeOK, NewOrderTypeOK,
         ReturnTypeOK, SameOrder, SameReturns

\* One renewal update, or its error, keeps the types (_update_line).
LEMMA UpdateLineType ==
    ASSUME TypeInv, NEW line \in Lines,
           NEW step \in {"UpdateRenewalQuantities", "UpdateRenewalQuantitiesDownsizes"},
           UpdateLine(step, line)
    PROVE  TypeInv'
  <1> DEFINE handled == WithDone(ctx, ctx.done \cup {line})
             counted == WithUpdated(handled, ctx.updated \cup {<<line, renewal[line]>>})
  <1>1. ctx \in Context /\ renewal \in [Lines -> Nat] /\ NewQuantity \in [Lines -> Nat]
        /\ pc = step /\ pc' = pc
    BY AdobeSubscriptionsAssumption DEF TypeInv, StateTypeOK, SubscriptionsTypeOK, UpdateLine
  <1>2. ctx.done \cup {line} \in SUBSET Lines
        /\ ctx.updated \cup {<<line, renewal[line]>>} \in SUBSET (Lines \X Nat)
    BY <1>1 DEF Context
  <1>3. handled \in Context /\ SameOrder(ctx, handled) /\ SameReturns(ctx, handled)
        /\ handled.updated = ctx.updated
    BY <1>1, <1>2, WithDoneType
  <1>4. counted \in Context /\ SameOrder(handled, counted) /\ SameReturns(handled, counted)
    <2> HIDE DEF handled
    <2>1. QED
      BY <1>2, <1>3, WithUpdatedType
  <1>5. \A code \in ErrorCodes :
          /\ WithError(handled, code) \in Context
          /\ SameOrder(handled, WithError(handled, code))
          /\ SameReturns(handled, WithError(handled, code))
    <2> HIDE DEF handled
    <2>1. QED
      BY <1>3, WithErrorType
  <1>6. \/ ctx' = handled
        \/ ctx' = counted
        \/ \E code \in ErrorCodes : ctx' = WithError(handled, code)
    <2>1. counted = [handled EXCEPT !.updated = @ \cup {<<line, renewal[line]>>}]
      BY <1>3, Zenon DEF WithUpdated
    <2>2. QED
      BY <2>1, ChangeOrderAssumption, Zenon DEF UpdateLine, WithDone, WithError
  <1>7. renewal' \in [Lines -> Nat]
        /\ UNCHANGED <<status, dueDate, vendorId, today, current, newOrders, returns, subscribed>>
    BY <1>1 DEF UpdateLine
  <1> HIDE DEF handled, counted
  <1>8. ctx' \in Context /\ SameOrder(ctx, ctx') /\ SameReturns(ctx, ctx')
    BY <1>3, <1>4, <1>5, <1>6 DEF SameOrder, SameReturns
  <1>9. QED
    BY <1>1, <1>7, <1>8, RenewalStepType DEF Steps

\* The end of the loop keeps the types, whichever way it goes.
LEMMA LinesUpdatedType ==
    ASSUME TypeInv, NEW next \in Steps \ {Idle},
           NEW step \in {"UpdateRenewalQuantities", "UpdateRenewalQuantitiesDownsizes"},
           LinesUpdated(step, next)
    PROVE  TypeInv'
  <1>1. ctx \in Context /\ pc = step /\ renewal \in [Lines -> Nat]
        /\ UNCHANGED <<status, dueDate, vendorId, today, adobeVars, subscribed>>
    BY DEF TypeInv, StateTypeOK, SubscriptionsTypeOK, LinesUpdated
  <1>2. CASE ctx' = ctx /\ pc' = "Rollback"
    BY <1>1, <1>2, RenewalStepType DEF SameOrder, SameReturns, Steps
  <1>3. CASE ctx' = WithUpdated(WithDone(ctx, {}), {}) /\ pc' = next
    <2>1. WithDone(ctx, {}) \in Context /\ SameOrder(ctx, WithDone(ctx, {}))
          /\ SameReturns(ctx, WithDone(ctx, {}))
      BY <1>1, WithDoneType
    <2>2. ctx' \in Context /\ SameOrder(WithDone(ctx, {}), ctx')
          /\ SameReturns(WithDone(ctx, {}), ctx')
      BY <1>3, <2>1, WithUpdatedType
    <2>3. QED
      BY <1>1, <1>3, <2>1, <2>2, RenewalStepType DEF SameOrder, SameReturns, Steps
  <1>4. (ctx' = ctx /\ pc' = "Rollback")
        \/ (ctx' = WithUpdated(WithDone(ctx, {}), {}) /\ pc' = next)
    BY Zenon DEF LinesUpdated, Goto, WithDone, WithUpdated
  <1>5. QED
    BY <1>2, <1>3, <1>4

\* The rollback keeps the types, and the list of purchases: it starts
\* returns, it cancels nothing itself.
LEMMA RollbackType ==
    ASSUME TypeInv, RestoreLine \/ ReturnNewOrder \/ RollbackEnds \/ RolledBack
    PROVE  TypeInv' /\ OrdersKept(Len(newOrders))
  <1>0. ctx \in Context /\ renewal \in [Lines -> Nat] /\ newOrders \in Seq(NewOrder)
    BY DEF TypeInv, StateTypeOK, SubscriptionsTypeOK, NewOrderTypeOK
  <1>1. CASE RestoreLine
    <2>1. PICK change \in ctx.updated :
            /\ renewal' = [renewal EXCEPT ![change[1]] = change[2]]
            /\ ctx' = [ctx EXCEPT !.updated = @ \ {change}]
      BY <1>1 DEF RestoreLine
    <2>2. change \in Lines \X Nat /\ ctx.updated \ {change} \in SUBSET (Lines \X Nat)
      BY <1>0 DEF Context
    <2>3. renewal' \in [Lines -> Nat]
      BY <1>0, <2>1, <2>2
    <2>4. ctx' = WithUpdated(ctx, ctx.updated \ {change})
      BY <2>1, Zenon DEF WithUpdated
    <2>5. ctx' \in Context /\ SameOrder(ctx, ctx') /\ SameReturns(ctx, ctx')
      BY <1>0, <2>2, <2>4, WithUpdatedType
    <2>6. QED
      BY <1>0, <1>1, <2>3, <2>5, RenewalStepType DEF RestoreLine, Steps, OrdersKept
  <1>2. CASE ReturnNewOrder
    <2> DEFINE id == ctx.newOrderId
               o == [newOrders[id] EXCEPT !.returned = "OPEN"]
    <2>1. id \in DOMAIN newOrders
      BY <1>0, <1>2, LenProperties DEF ReturnNewOrder, TypeInv, StateTypeOK, NewOrderTypeOK
    <2>2. newOrders[id] \in NewOrder
      BY <1>0, <2>1, LenProperties
    <2>3. o \in NewOrder /\ o.status = newOrders[id].status
      BY <2>2 DEF NewOrder
    <2>4. newOrders' = [newOrders EXCEPT ![id] = o]
      BY <1>2 DEF ReturnNewOrder
    <2> HIDE DEF id, o
    <2>5. OrdersKept(Len(newOrders))
      BY <1>0, <2>1, <2>3, <2>4, ReplaceOrder DEF OrdersKept
    <2>6. QED
      BY <1>2, <2>5
         DEF ReturnNewOrder, Goto, OrdersKept, TypeInv, StateTypeOK, PassTypeOK, CalendarOK,
             SubscriptionsTypeOK, NewOrderTypeOK, ReturnTypeOK, Steps
  <1>3. CASE RollbackEnds
    BY <1>0, <1>3, RenewalStepType
       DEF RollbackEnds, Goto, Steps, SameOrder, SameReturns, OrdersKept
  <1>4. CASE RolledBack
    BY <1>0, <1>4, EndType DEF RolledBack, switch_order_to_failed, OrdersKept
  <1>5. QED
    BY <1>1, <1>2, <1>3, <1>4

\* UpdateRenewalQuantities, in both places, keeps the types.
LEMMA UpdateType ==
    ASSUME TypeInv, Update
    PROVE  TypeInv'
  <1>1. "SubmitReturnOrders" \in Steps \ {Idle} /\ "CreateOrUpdateAssets" \in Steps \ {Idle}
    BY DEF Steps
  <1>2. QED
    BY <1>1, UpdateLineType, LinesUpdatedType, RollbackType DEF Update, UpdateRenewalQuantities

\* Assets, subscriptions and completion keep the types.
LEMMA PublishType ==
    ASSUME TypeInv, Publish
    PROVE  TypeInv'
  <1>1. CASE CreateOrUpdateAssets("CreateOrUpdateSubscriptions")
    BY <1>1, ContinueType, EndType DEF CreateOrUpdateAssets, Steps
  <1>2. CASE CreateOrUpdateSubscriptions("CompleteOrder")
    <2>1. CASE Continue("CompleteOrder") /\ UNCHANGED subscribed
      BY <1>2, <2>1, ContinueType DEF CreateOrUpdateSubscriptions, Steps
    <2>2. CASE UNCHANGED passVars
      <3>1. subscribed' \subseteq Lines
        BY <1>2 DEF CreateOrUpdateSubscriptions, ToSubscribe, Ordered, TypeInv, StateTypeOK
      <3>2. QED
        BY <1>2, <2>2, <3>1
           DEF CreateOrUpdateSubscriptions, passVars, TypeInv, StateTypeOK, PassTypeOK, CalendarOK,
               SubscriptionsTypeOK, NewOrderTypeOK, ReturnTypeOK
    <2>3. QED
      BY <1>2, <2>1, <2>2 DEF CreateOrUpdateSubscriptions
  <1>3. CASE CompleteOrder /\ UNCHANGED <<adobeVars, subscribed>>
    BY <1>3, EndType DEF CompleteOrder
  <1>4. QED
    BY <1>1, <1>2, <1>3 DEF Publish

-----------------------------------------------------------------------------
(* The whole next-state relation.                                           *)

\* The invariant is inductive ...
LEMMA TypeInvStep == TypeInv /\ [Next]_vars => TypeInv'
  <1> SUFFICES ASSUME TypeInv, [Next]_vars PROVE TypeInv'
    OBVIOUS
  <1>1. CASE Next
    BY <1>1, PlatformType, AdobeType, PrepareType, BuyType, GiveBackType, UpdateType, PublishType
       DEF Next, Step
  <1>2. CASE UNCHANGED vars
    BY <1>2 DEF vars, passVars, TypeInv, StateTypeOK, PassTypeOK, CalendarOK, SubscriptionsTypeOK,
                NewOrderTypeOK, ReturnTypeOK
  <1>3. QED
    BY <1>1, <1>2

\* ... and holds at first.
LEMMA TypeInvInit == Init => TypeInv
  <1> SUFFICES ASSUME Init PROVE TypeInv
    OBVIOUS
  <1>1. ctx \in Context /\ ctx.newOrderId = 0 /\ ctx.newOrder = "none"
        /\ ctx.pendingReturns = {} /\ ctx.returnOrders = {}
    BY EmptyContextType DEF Init, PassInit, EmptyContext
  <1>2. newOrders = << >> /\ newOrders \in Seq(NewOrder) /\ Len(newOrders) = 0
    BY DEF Init, NewOrderInit
  <1>3. QED
    BY <1>1, <1>2, AdobeSubscriptionsAssumption
       DEF Init, PassInit, SubscriptionsInit, NewOrderInit, ReturnInit, TypeInv, StateTypeOK,
           PassTypeOK, CalendarOK, SubscriptionsTypeOK, NewOrderTypeOK, ReturnTypeOK, Steps,
           Day, DueDay, NoDate, ReturnStatus

-----------------------------------------------------------------------------
(* The purchase on record: it is the one a pass works with, no pass goes    *)
(* past SubmitNewOrder before Adobe processed it, and what is processed is  *)
(* never unprocessed.                                                       *)

Processed(id) == newOrders[id].status \in {"COMPLETE", "CANCELLED"}

\* The steps behind SubmitNewOrder.
AfterPurchase ==
    {"UpdateRenewalQuantities", "SubmitReturnOrders", "UpdateRenewalQuantitiesDownsizes",
     "Rollback", "RolledBack", "CreateOrUpdateAssets", "CreateOrUpdateSubscriptions",
     "CompleteOrder"}

Unread == {Idle, "SetupContext", "SaveNewOrder"}

\* The pass knows the identifier on record, from SetupContext on.
RecordRead ==
    /\ pc \in {Idle, "SetupContext"} => ctx.newOrderId = 0 /\ ctx.newOrder = "none"
    /\ pc \notin Unread => ctx.newOrderId = vendorId

\* Adobe answered, and the identifier is not on record yet.
Unrecorded ==
    pc = "SaveNewOrder" =>
        /\ vendorId = 0 /\ PurchaseLines # {}
        /\ ctx.newOrder # "none"
        /\ ctx.newOrder = "COMPLETE" => Processed(ctx.newOrderId)

PurchaseWaitedFor ==
    pc \in AfterPurchase \/ status = "Completed" => (vendorId # 0 => Processed(vendorId))

PurchaseInv ==
    /\ TypeInv
    /\ RecordRead
    /\ Unrecorded
    /\ vendorId # 0 => PurchaseLines # {}
    /\ PurchaseWaitedFor

\* What most steps have in common: they end the pass, or they go on with the
\* same order in mind, and past SubmitNewOrder only from there.
EndsPass ==
    /\ pc' = Idle /\ ctx' = EmptyContext /\ UNCHANGED <<vendorId, newOrders>>
    /\ status' = "Completed" => pc \in AfterPurchase \/ status = "Completed"

GoesOn ==
    /\ pc \notin Unread /\ pc' \notin Unread
    /\ pc' \in AfterPurchase => pc \in AfterPurchase \/ vendorId = 0
    /\ ctx'.newOrderId = ctx.newOrderId
    /\ UNCHANGED <<status, vendorId>>
    /\ OrdersKept(Len(newOrders))

\* A pass that ends forgets, and leaves no completed order it should not.
LEMMA EndsPassKeeps ==
    ASSUME PurchaseInv, TypeInv', EndsPass
    PROVE  PurchaseInv'
  <1>1. ctx'.newOrderId = 0 /\ ctx'.newOrder = "none"
    BY DEF EndsPass, EmptyContext
  <1>2. QED
    BY <1>1 DEF EndsPass, PurchaseInv, RecordRead, Unrecorded, PurchaseWaitedFor, Processed,
                AfterPurchase, Unread, PurchaseLines, UpsizeLines, DownsizeLines, NewLines

\* A pass that goes on with the order it has in mind keeps the invariant.
LEMMA GoesOnKeeps ==
    ASSUME PurchaseInv, TypeInv', GoesOn
    PROVE  PurchaseInv'
  <1>1. vendorId \in 0 .. Len(newOrders) /\ vendorId' = vendorId
    BY DEF GoesOn, PurchaseInv, TypeInv, StateTypeOK, NewOrderTypeOK
  <1>2. vendorId # 0 => vendorId \in 1 .. Len(newOrders)
    BY <1>1
  <1>3. vendorId # 0 /\ Processed(vendorId) => Processed(vendorId)'
    BY <1>1, <1>2 DEF GoesOn, OrdersKept, Processed
  <1>4. status = "Completed" => pc = Idle
    BY DEF PurchaseInv, TypeInv, CalendarOK
  <1>5. QED
    BY <1>1, <1>3, <1>4 DEF GoesOn, PurchaseInv, RecordRead, Unrecorded, PurchaseWaitedFor,
                AfterPurchase, Unread, PurchaseLines, UpsizeLines, DownsizeLines, NewLines

RecordKept == vendorId # 0 => vendorId' = vendorId /\ Len(newOrders') = Len(newOrders)

\* Either way the record is kept.
LEMMA EndOrGoOn ==
    ASSUME PurchaseInv, TypeInv', EndsPass \/ GoesOn
    PROVE  PurchaseInv' /\ RecordKept
  BY EndsPassKeeps, GoesOnKeeps DEF EndsPass, GoesOn, OrdersKept, RecordKept

\* The ways to end a pass, and to go on with nothing new in mind.
LEMMA PassEnds ==
    ASSUME PurchaseInv, UNCHANGED newOrders,
           Wait \/ Decide("Failed") \/ Decide("Querying")
    PROVE  EndsPass
  BY DEF Wait, Decide, EndPass, EndsPass

\* A step that moves on to the next one, past SubmitNewOrder only from there
\* or for an order that buys nothing.
LEMMA PassContinues ==
    ASSUME PurchaseInv, UNCHANGED newOrders, NEW next \in Steps \ Unread, pc \notin Unread,
           next \in AfterPurchase => pc \in AfterPurchase \/ vendorId = 0,
           pc' = next, ctx'.newOrderId = ctx.newOrderId, UNCHANGED <<status, vendorId>>
    PROVE  GoesOn
  <1>1. OrdersKept(Len(newOrders))
    BY DEF OrdersKept, PurchaseInv, TypeInv, StateTypeOK, NewOrderTypeOK
  <1>2. QED
    BY <1>1 DEF GoesOn

\* Dispatch, Abort, Resume and NextDay keep the purchase on record.
LEMMA PlatformKeepsPurchase ==
    ASSUME PurchaseInv, Platform
    PROVE  PurchaseInv' /\ RecordKept
  <1>0. TypeInv' /\ UNCHANGED newOrders
    BY PlatformType DEF PurchaseInv, Platform
  <1>1. CASE Abort
    BY <1>0, <1>1, PassEnds, EndOrGoOn DEF Abort
  <1>2. CASE Dispatch \/ Resume \/ NextDay
    BY <1>0, <1>2
       DEF Dispatch, Resume, NextDay, Goto, PurchaseInv, TypeInv, CalendarOK, RecordRead,
           Unrecorded, PurchaseWaitedFor, Processed, AfterPurchase, Unread, RecordKept,
           PurchaseLines, UpsizeLines, DownsizeLines, NewLines
  <1>3. QED
    BY <1>1, <1>2 DEF Platform

\* What Adobe settles stays settled.
LEMMA AdobeKeepsPurchase ==
    ASSUME PurchaseInv, Adobe
    PROVE  PurchaseInv' /\ RecordKept
  <1>1. TypeInv' /\ UNCHANGED passVars /\ OrdersKept(Len(newOrders))
    BY AdobeType DEF PurchaseInv
  <1>2. vendorId \in 0 .. Len(newOrders) /\ ctx.newOrderId \in 0 .. Len(newOrders)
        /\ (ctx.newOrder # "none" => ctx.newOrderId # 0)
    BY DEF PurchaseInv, TypeInv, StateTypeOK, NewOrderTypeOK
  <1>3. /\ vendorId # 0 /\ Processed(vendorId) => Processed(vendorId)'
        /\ ctx.newOrder = "COMPLETE" /\ Processed(ctx.newOrderId) => Processed(ctx.newOrderId)'
    BY <1>1, <1>2 DEF OrdersKept, Processed, passVars
  <1>4. QED
    BY <1>1, <1>3
       DEF PurchaseInv, RecordRead, Unrecorded, PurchaseWaitedFor, passVars, OrdersKept,
           RecordKept, PurchaseLines, UpsizeLines, DownsizeLines, NewLines

\* SetupContext reads the record; the checks leave it alone.
LEMMA PrepareKeepsPurchase ==
    ASSUME PurchaseInv, Prepare
    PROVE  PurchaseInv' /\ RecordKept
  <1>0. TypeInv' /\ UNCHANGED newOrders
    BY PrepareType DEF PurchaseInv, Prepare, adobeVars
  <1> USE DEF switch_order_to_failed, switch_order_to_query
  <1>1. CASE SetupContext("SetupDueDate")
    <2>1. CASE ctx' = [EmptyContext EXCEPT !.newOrderId = vendorId] /\ pc' = "SetupDueDate"
               /\ UNCHANGED <<status, vendorId>>
      <3>1. ctx'.newOrderId = vendorId
        BY <2>1 DEF EmptyContext
      <3>2. status # "Completed"
        BY <1>1 DEF SetupContext, PurchaseInv, TypeInv, CalendarOK
      <3>3. QED
        BY <1>0, <2>1, <3>1, <3>2
           DEF PurchaseInv, RecordRead, Unrecorded, PurchaseWaitedFor, AfterPurchase, Unread,
               RecordKept, PurchaseLines, UpsizeLines, DownsizeLines, NewLines
    <2>2. CASE Wait \/ Decide("Failed")
      BY <1>0, <2>2, PassEnds, EndOrGoOn
    <2>3. QED
      BY <1>1, <2>1, <2>2 DEF SetupContext, Goto
  <1>2. ASSUME NEW next \in Steps \ Unread, next \notin AfterPurchase, pc \notin Unread,
               \/ Decide("Failed") \/ Decide("Querying")
               \/ pc' = next /\ UNCHANGED <<status, vendorId, ctx>>
        PROVE  PurchaseInv' /\ RecordKept
    BY <1>0, <1>2, PassEnds, PassContinues, EndOrGoOn
  <1>3. QED
    BY <1>1, <1>2
       DEF Prepare, SetupDueDate, ValidateDuplicateLines, ValidateRenewalWindow,
           ValidateSkuAvailability, Validate3YCCommitment, Continue, Goto, Steps, Unread,
           AfterPurchase

\* The steps about return orders leave the purchase alone.
LEMMA GiveBackKeepsPurchase ==
    ASSUME PurchaseInv, GiveBack
    PROVE  PurchaseInv' /\ RecordKept
  <1>0. TypeInv' /\ UNCHANGED newOrders /\ ctx \in Context
    BY GiveBackType DEF PurchaseInv, TypeInv, StateTypeOK, GiveBack
  <1>1. ASSUME NEW next \in Steps \ Unread, pc \notin Unread,
               next \in AfterPurchase => pc \in AfterPurchase,
               \/ Wait \/ Decide("Failed")
               \/ pc' = next /\ ctx'.newOrderId = ctx.newOrderId /\ UNCHANGED <<status, vendorId>>
        PROVE  PurchaseInv' /\ RecordKept
    BY <1>0, <1>1, PassEnds, PassContinues, EndOrGoOn
  <1>2. CASE GetReturnOrders("GetReturnableOrders", RolledBackOrders # {})
    <2>1. ctx'.newOrderId = ctx.newOrderId
      BY <1>0, <1>2 DEF GetReturnOrders, Context
    <2>2. QED
      BY <1>1, <1>2, <2>1 DEF GetReturnOrders, Goto, Steps, Unread, AfterPurchase
  <1>3. CASE GetReturnableOrders("ValidateReturnableOrders")
    <2>1. ctx'.newOrderId = ctx.newOrderId
      BY <1>0, <1>3 DEF GetReturnableOrders, Context
    <2>2. QED
      BY <1>1, <1>3, <2>1 DEF GetReturnableOrders, Goto, Steps, Unread, AfterPurchase
  <1>4. CASE ValidateReturnableOrders("Validate3YCCommitment")
    BY <1>1, <1>4
       DEF ValidateReturnableOrders, Continue, Goto, Steps, Unread, AfterPurchase,
           switch_order_to_failed
  <1>5. ASSUME NEW p \in Purchases, PlaceReturnOrder(p)
        PROVE  PurchaseInv' /\ RecordKept
    <2>1. ctx'.newOrderId = ctx.newOrderId
      BY <1>0, <1>5 DEF PlaceReturnOrder, Context
    <2>2. QED
      BY <1>1, <1>5, <2>1 DEF PlaceReturnOrder, PostReturnOrder, Steps, Unread, AfterPurchase
  <1>6. ASSUME NEW p \in Purchases, LoseReturnOrder(p)
        PROVE  PurchaseInv' /\ RecordKept
    BY <1>0, <1>6, PassEnds, EndOrGoOn DEF LoseReturnOrder
  <1>7. CASE AwaitReturnOrders("UpdateRenewalQuantitiesDownsizes")
    BY <1>1, <1>7 DEF AwaitReturnOrders, Continue, Goto, Steps, Unread, AfterPurchase
  <1>8. QED
    BY <1>2, <1>3, <1>4, <1>5, <1>6, <1>7 DEF GiveBack, SubmitReturnOrders

\* SubmitNewOrder is the step that counts: it skips, fetches or places, and a
\* purchase placed is saved before the pass goes on.
LEMMA BuyKeepsPurchase ==
    ASSUME PurchaseInv, Buy
    PROVE  PurchaseInv' /\ RecordKept
  <1>0. TypeInv' /\ ctx \in Context /\ newOrders \in Seq(NewOrder)
        /\ ctx.newOrderId \in 0 .. Len(newOrders)
    BY BuyType DEF PurchaseInv, TypeInv, StateTypeOK, NewOrderTypeOK
  <1>1. ASSUME NEW next \in Steps \ Unread, pc \notin Unread, UNCHANGED newOrders,
               next \in AfterPurchase => pc \in AfterPurchase \/ vendorId = 0,
               \/ Decide("Failed")
               \/ pc' = next /\ ctx'.newOrderId = ctx.newOrderId /\ UNCHANGED <<status, vendorId>>
        PROVE  PurchaseInv' /\ RecordKept
    BY <1>0, <1>1, PassEnds, PassContinues, EndOrGoOn
  <1>2. CASE GetPreviewOrder("UpdatePrices")
    <2>1. Decide("Failed") \/ (ctx'.newOrderId = ctx.newOrderId /\ UNCHANGED <<status, vendorId>>)
      BY <1>0, <1>2 DEF GetPreviewOrder, Continue, switch_order_to_failed, Context
    <2>2. pc' = "UpdatePrices" \/ Decide("Failed")
      BY <1>2 DEF GetPreviewOrder, Continue, Goto, switch_order_to_failed
    <2>3. pc' # "Idle" => ~Decide("Failed")
      BY DEF Decide, EndPass
    <2>4. QED
      BY <1>1, <1>2, <2>1, <2>2, <2>3 DEF GetPreviewOrder, Steps, Unread, AfterPurchase
  <1>3. CASE UpdatePrices("SubmitNewOrder")
    <2>1. ctx'.newOrderId = ctx.newOrderId
      BY <1>0, <1>3 DEF UpdatePrices, Context
    <2>2. QED
      BY <1>1, <1>3, <2>1 DEF UpdatePrices, Goto, Steps, Unread, AfterPurchase
  <1>4. CASE SkipNewOrder("UpdateRenewalQuantities")
    <2>1. vendorId = 0
      BY <1>4 DEF SkipNewOrder, PurchaseInv, RecordRead, Unread
    <2>2. QED
      BY <1>1, <1>4, <2>1 DEF SkipNewOrder, Continue, Goto, Steps, Unread, AfterPurchase
  <1>5. CASE PlaceNewOrder
    <2>1. vendorId = 0 /\ vendorId' = 0 /\ PurchaseLines # {} /\ pc' = "SaveNewOrder"
          /\ status = "Processing" /\ status' = "Processing"
      BY <1>5
         DEF PlaceNewOrder, Goto, PurchaseInv, RecordRead, Unread, TypeInv, CalendarOK
    <2>2. ctx'.newOrder # "none" /\ (ctx'.newOrder = "COMPLETE" => Processed(ctx.newOrderId)')
      <3>1. ASSUME NEW id \in DOMAIN newOrders, newOrders' = newOrders,
                   ctx' = [ctx EXCEPT !.newOrderId = id, !.newOrder = newOrders[id].status]
            PROVE  /\ ctx'.newOrder # "none"
                   /\ ctx'.newOrder = "COMPLETE" => Processed(ctx.newOrderId)'
        <4>1. id \in Nat /\ newOrders[id].status \in NewOrderStatus
          BY <1>0, NewOrderAt
        <4>2. ctx'.newOrderId = id /\ ctx'.newOrder = newOrders[id].status
          BY <1>0, <3>1, <4>1, AnsweredType
        <4>3. QED
          BY <3>1, <4>1, <4>2 DEF Processed, NewOrderStatus
      <3>2. ASSUME NEW orderStatus \in {"OPEN", "COMPLETE"}, ctx.preview # NoPreview,
                   newOrders' = Append(newOrders, [payload |-> ctx.preview,
                                   status |-> orderStatus, returned |-> "none"]),
                   ctx' = [ctx EXCEPT !.newOrderId = Len(newOrders) + 1,
                                      !.newOrder = orderStatus]
            PROVE  /\ ctx'.newOrder # "none"
                   /\ ctx'.newOrder = "COMPLETE" => Processed(ctx.newOrderId)'
        <4> DEFINE o == [payload |-> ctx.preview, status |-> orderStatus, returned |-> "none"]
        <4>1. o \in NewOrder /\ o.status = orderStatus
          BY <1>0, <3>2 DEF NewOrder, NewOrderStatus, Context
        <4>2. Len(newOrders) + 1 \in Nat
          BY <1>0, LenProperties
        <4>3. ctx'.newOrderId = Len(newOrders) + 1 /\ ctx'.newOrder = orderStatus
          BY <1>0, <3>2, <4>2, AnsweredType DEF NewOrderStatus
        <4>4. newOrders'[Len(newOrders) + 1] = o
          <5> HIDE DEF o
          <5>1. newOrders' = Append(newOrders, o)
            BY <3>2 DEF o
          <5>2. QED
            BY <1>0, <4>1, <5>1, AppendProperties
        <4>5. QED
          BY <4>1, <4>3, <4>4 DEF Processed
      <3>3. QED
        BY <1>5, <3>1, <3>2 DEF PlaceNewOrder
    <2>3. QED
      BY <1>0, <2>1, <2>2
         DEF PurchaseInv, RecordRead, Unrecorded, PurchaseWaitedFor, RecordKept, Unread,
             AfterPurchase, PurchaseLines, UpsizeLines, DownsizeLines, NewLines
  <1>6. ASSUME NEW id \in 1 .. Len(newOrders), NEW orderStatus, UNCHANGED newOrders,
               PurchaseLines # {}, status = "Processing",
               FollowOrder("UpdateRenewalQuantities", id, orderStatus),
               orderStatus = "COMPLETE" => Processed(id),
               vendorId' = id, vendorId \in {0, id}
        PROVE  PurchaseInv' /\ RecordKept
    <2>1. CASE EndPass /\ status' # "Completed"
      <3>1. ctx'.newOrderId = 0 /\ ctx'.newOrder = "none" /\ pc' = Idle
        BY <2>1 DEF EndPass, EmptyContext
      <3>2. QED
        BY <1>0, <1>6, <2>1, <3>1
           DEF PurchaseInv, RecordRead, Unrecorded, PurchaseWaitedFor, RecordKept, Unread,
               AfterPurchase, PurchaseLines, UpsizeLines, DownsizeLines, NewLines
    <2>2. CASE /\ orderStatus = "COMPLETE" /\ pc' = "UpdateRenewalQuantities"
               /\ ctx' = [ctx EXCEPT !.newOrderId = id, !.newOrder = orderStatus]
      <3>0. id \in Nat /\ orderStatus \in NewOrderStatus
        BY <1>0, <1>6, <2>2, LenProperties DEF NewOrderStatus
      <3>1. ctx'.newOrderId = id
        BY <1>0, <2>2, <3>0, AnsweredType
      <3>2. Processed(id)'
        BY <1>6, <2>2 DEF Processed
      <3>3. QED
        BY <1>0, <1>6, <2>2, <3>1, <3>2
           DEF PurchaseInv, RecordRead, Unrecorded, PurchaseWaitedFor, RecordKept, Unread,
               PurchaseLines, UpsizeLines, DownsizeLines, NewLines
    <2>3. QED
      BY <1>6, <2>1, <2>2 DEF FollowOrder, Goto
  <1>7. CASE SaveNewOrder("UpdateRenewalQuantities")
    <2>1. ctx.newOrderId \in 1 .. Len(newOrders)
      <3>1. ctx.newOrder # "none"
        BY <1>7 DEF SaveNewOrder, PurchaseInv, Unrecorded
      <3>2. QED
        BY <1>0, <3>1 DEF PurchaseInv, TypeInv, StateTypeOK
    <2>2. QED
      BY <1>6, <1>7, <2>1
         DEF SaveNewOrder, PurchaseInv, Unrecorded, TypeInv, CalendarOK, adobeVars
  <1>8. CASE FetchNewOrder("UpdateRenewalQuantities")
    <2>1. ctx.newOrderId \in 1 .. Len(newOrders) /\ ctx.newOrderId = vendorId
      BY <1>0, <1>8 DEF FetchNewOrder, PurchaseInv, RecordRead, Unread
    <2>2. QED
      BY <1>6, <1>8, <2>1
         DEF FetchNewOrder, Processed, PurchaseInv, TypeInv, CalendarOK, adobeVars
  <1>9. QED
    BY <1>2, <1>3, <1>4, <1>5, <1>7, <1>8 DEF Buy, SubmitNewOrder

\* Renewal updates and their rollback keep the record; a purchase given back
\* keeps its status until Adobe cancels it.
LEMMA UpdateKeepsPurchase ==
    ASSUME PurchaseInv, Update
    PROVE  PurchaseInv' /\ RecordKept
  <1>0. TypeInv' /\ ctx \in Context
    BY UpdateType DEF PurchaseInv, TypeInv, StateTypeOK
  <1>1. ASSUME NEW next \in AfterPurchase, pc \in AfterPurchase, UNCHANGED newOrders,
               pc' = next, ctx'.newOrderId = ctx.newOrderId, UNCHANGED <<status, vendorId>>
        PROVE  PurchaseInv' /\ RecordKept
    BY <1>0, <1>1, PassContinues, EndOrGoOn DEF AfterPurchase, Unread, Steps
  <1>2. ASSUME NEW line \in Lines, UpdateLine("UpdateRenewalQuantities", line)
               \/ UpdateLine("UpdateRenewalQuantitiesDownsizes", line)
        PROVE  PurchaseInv' /\ RecordKept
    <2>1. ctx'.newOrderId = ctx.newOrderId
      BY <1>0, <1>2 DEF UpdateLine, Context
    <2>2. QED
      BY <1>1, <1>2, <2>1 DEF UpdateLine, AfterPurchase
  <1>3. CASE \/ LinesUpdated("UpdateRenewalQuantities", "SubmitReturnOrders")
             \/ LinesUpdated("UpdateRenewalQuantitiesDownsizes", "CreateOrUpdateAssets")
    <2>1. ctx'.newOrderId = ctx.newOrderId
      BY <1>0, <1>3 DEF LinesUpdated, Context
    <2>2. QED
      BY <1>1, <1>3, <2>1 DEF LinesUpdated, Goto, AfterPurchase
  <1>4. CASE RestoreLine
    <2>1. ctx'.newOrderId = ctx.newOrderId
      BY <1>0, <1>4 DEF RestoreLine, Context
    <2>2. QED
      BY <1>1, <1>4, <2>1 DEF RestoreLine, AfterPurchase
  <1>5. CASE ReturnNewOrder
    <2>1. OrdersKept(Len(newOrders))
      BY <1>5, RollbackType DEF PurchaseInv
    <2>2. GoesOn
      BY <1>5, <2>1 DEF ReturnNewOrder, Goto, GoesOn, AfterPurchase, Unread
    <2>3. QED
      BY <1>0, <2>2, EndOrGoOn
  <1>6. CASE RollbackEnds
    BY <1>1, <1>6 DEF RollbackEnds, Goto, AfterPurchase
  <1>7. CASE RolledBack
    BY <1>0, <1>7, PassEnds, EndOrGoOn DEF RolledBack, switch_order_to_failed
  <1>8. QED
    BY <1>2, <1>3, <1>4, <1>5, <1>6, <1>7 DEF Update, UpdateRenewalQuantities

\* Only CompleteOrder completes an order, behind SubmitNewOrder.
LEMMA PublishKeepsPurchase ==
    ASSUME PurchaseInv, Publish
    PROVE  PurchaseInv' /\ RecordKept
  <1>0. TypeInv' /\ UNCHANGED newOrders
    BY PublishType DEF PurchaseInv, Publish, CreateOrUpdateAssets, CreateOrUpdateSubscriptions
  <1>1. ASSUME NEW next \in AfterPurchase, pc \in AfterPurchase,
               \/ Wait
               \/ pc' = next /\ ctx'.newOrderId = ctx.newOrderId /\ UNCHANGED <<status, vendorId>>
        PROVE  PurchaseInv' /\ RecordKept
    BY <1>0, <1>1, PassEnds, PassContinues, EndOrGoOn DEF AfterPurchase, Unread, Steps
  <1>2. CASE CreateOrUpdateAssets("CreateOrUpdateSubscriptions")
    BY <1>1, <1>2 DEF CreateOrUpdateAssets, Continue, Goto, AfterPurchase
  <1>3. CASE CreateOrUpdateSubscriptions("CompleteOrder")
    BY <1>1, <1>3 DEF CreateOrUpdateSubscriptions, Continue, Goto, passVars, AfterPurchase
  <1>4. CASE CompleteOrder
    <2>1. EndsPass
      BY <1>0, <1>4 DEF CompleteOrder, Decide, EndPass, EndsPass, AfterPurchase
    <2>2. QED
      BY <1>0, <2>1, EndOrGoOn
  <1>5. QED
    BY <1>2, <1>3, <1>4 DEF Publish

\* The invariant is inductive ...
LEMMA PurchaseInvStep ==
    ASSUME PurchaseInv, [Next]_vars
    PROVE  PurchaseInv' /\ RecordKept
  <1>1. CASE Next
    BY <1>1, PlatformKeepsPurchase, AdobeKeepsPurchase, PrepareKeepsPurchase, BuyKeepsPurchase,
       GiveBackKeepsPurchase, UpdateKeepsPurchase, PublishKeepsPurchase DEF Next, Step
  <1>2. CASE UNCHANGED vars
    <2>1. TypeInv'
      BY <1>2, TypeInvStep DEF PurchaseInv
    <2>2. QED
      BY <1>2, <2>1
         DEF vars, passVars, PurchaseInv, RecordRead, Unrecorded, PurchaseWaitedFor, Processed,
             RecordKept, PurchaseLines, UpsizeLines, DownsizeLines, NewLines
  <1>3. QED
    BY <1>1, <1>2

\* ... and holds at first.
LEMMA PurchaseInvInit == Init => PurchaseInv
  BY TypeInvInit
     DEF Init, PassInit, EmptyContext, PurchaseInv, RecordRead, Unrecorded, PurchaseWaitedFor,
         AfterPurchase, Unread

\* An MPT order is completed only over a purchase Adobe has processed, however
\* its passes were cut off (SubmitNewOrder, CompleteOrder).
THEOREM PurchaseIsProcessed == Spec => []PurchaseProcessed
  <1>1. PurchaseInv => PurchaseProcessed
    BY DEF PurchaseInv, PurchaseWaitedFor, PurchaseProcessed, Processed
  <1>2. PurchaseInv /\ [Next]_vars => PurchaseInv'
    BY PurchaseInvStep
  <1>3. QED
    BY PurchaseInvInit, <1>1, <1>2, PTL DEF Spec

\* The list of orders holds the purchase on record, no other purchase, and
\* otherwise returns.
ListInv ==
    /\ SavedOrder \subseteq orderIds
    /\ orderIds \subseteq SavedOrder \cup ({"RETURN"} \X Purchases)

\* Only SaveNewOrder saves a purchase, where none is on record, and it lists
\* the purchase it saves.
LEMMA BuyListsPurchase ==
    ASSUME PurchaseInv, ListInv, Buy
    PROVE  ListInv'
  <1>1. CASE SaveNewOrder("UpdateRenewalQuantities")
    <2>1. vendorId = 0 /\ orderIds' = orderIds \cup {<<"NEW", vendorId'>>}
      BY <1>1 DEF SaveNewOrder, Buy, ListNewOrder, PurchaseInv, Unrecorded
    <2>2. ctx.newOrder # "none" /\ vendorId' = ctx.newOrderId
      BY <1>1 DEF SaveNewOrder, PurchaseInv, Unrecorded
    <2>3. vendorId' # 0
      BY <2>2 DEF PurchaseInv, TypeInv, StateTypeOK
    <2>4. QED
      BY <2>1, <2>3 DEF ListInv, SavedOrder
  <1>2. CASE ~SaveNewOrder("UpdateRenewalQuantities")
    <2>1. pc # "SaveNewOrder" /\ vendorId' = vendorId
      BY <1>2
         DEF Buy, GetPreviewOrder, UpdatePrices, SubmitNewOrder, SkipNewOrder, PlaceNewOrder,
             FetchNewOrder, FollowOrder, Continue, switch_order_to_failed, Decide
    <2>2. orderIds' = orderIds
      BY <2>1 DEF Buy, ListNewOrder
    <2>3. QED
      BY <2>1, <2>2 DEF ListInv, SavedOrder
  <1>3. QED
    BY <1>1, <1>2

\* The steps about return orders list returns only.
LEMMA GiveBackListsReturns ==
    ASSUME ListInv, GiveBack
    PROVE  ListInv'
  <1>1. vendorId' = vendorId
    BY DEF GiveBack, GetReturnOrders, GetReturnableOrders, ValidateReturnableOrders,
           SubmitReturnOrders, PlaceReturnOrder, LoseReturnOrder, AwaitReturnOrders, Wait,
           Continue, switch_order_to_failed, Decide
  <1>2. \E placed \in SUBSET Purchases : orderIds' = orderIds \cup {<<"RETURN", p>> : p \in placed}
    <2>1. CASE UNCHANGED orderIds
      <3>1. orderIds' = orderIds \cup {<<"RETURN", p>> : p \in {}}
        BY <2>1
      <3>2. QED
        BY <3>1
    <2>2. CASE ListReturnOrder
      BY <2>2 DEF ListReturnOrder
    <2>3. QED
      BY <2>1, <2>2 DEF GiveBack
  <1>3. QED
    BY <1>1, <1>2 DEF ListInv, SavedOrder

\* No other step saves a purchase or touches the list.
LEMMA OthersLeaveTheList ==
    ASSUME Platform \/ Adobe \/ ((Prepare \/ Update \/ Publish) /\ UNCHANGED orderIds)
    PROVE  UNCHANGED <<vendorId, orderIds>>
  <1> USE DEF Continue, Wait, Decide, switch_order_to_failed, switch_order_to_query
  <1>1. CASE Platform
    BY <1>1 DEF Platform, Dispatch, Abort, Resume, NextDay
  <1>2. CASE Adobe
    BY <1>2 DEF Adobe, AdobeSettlesNewOrder, AdobeSettlesReturnOrder, passVars
  <1>3. CASE Prepare
    BY <1>1, <1>2, <1>3
       DEF Prepare, SetupContext, SetupDueDate, ValidateDuplicateLines, ValidateRenewalWindow,
           ValidateSkuAvailability, Validate3YCCommitment, Platform, Adobe
  <1>4. CASE Update
    BY <1>1, <1>2, <1>4
       DEF Update, UpdateRenewalQuantities, UpdateLine, LinesUpdated, RestoreLine,
           ReturnNewOrder, RollbackEnds, RolledBack, Platform, Adobe
  <1>5. CASE Publish
    BY <1>1, <1>2, <1>5
       DEF Publish, CreateOrUpdateAssets, CreateOrUpdateSubscriptions, CompleteOrder, passVars,
           Platform, Adobe
  <1>6. QED
    BY <1>1, <1>2, <1>3, <1>4, <1>5

\* The invariant of the record and its list is inductive ...
LEMMA ListInvStep ==
    ASSUME PurchaseInv, ListInv, [Next]_vars
    PROVE  PurchaseInv' /\ ListInv' /\ RecordKept
  <1>1. PurchaseInv' /\ RecordKept
    BY PurchaseInvStep
  <1>2. CASE UNCHANGED <<vendorId, orderIds>>
    BY <1>1, <1>2 DEF ListInv, SavedOrder
  <1>3. QED
    BY <1>1, <1>2, BuyListsPurchase, GiveBackListsReturns, OthersLeaveTheList
       DEF Next, Step, vars, passVars

\* ... and holds at first.
LEMMA ListInvInit == Init => PurchaseInv /\ ListInv
  BY PurchaseInvInit DEF Init, PassInit, ListInv, SavedOrder

\* Every variable of a change order always holds a value of its kind, and the
\* calendar stays within the due date: the steps of fulfill_change_order, the
\* platform and Adobe together.
THEOREM TypeCorrect == Spec => []TypeOK
  <1>1. ASSUME PurchaseInv, ListInv
        PROVE  TypeOK
    <2>1. StateTypeOK /\ vendorId \in 0 .. Len(newOrders) /\ newOrders \in Seq(NewOrder)
      BY <1>1 DEF PurchaseInv, TypeInv, StateTypeOK, NewOrderTypeOK
    <2>2. vendorId # 0 => vendorId \in DOMAIN newOrders
      BY <2>1, LenProperties
    <2>3. QED
      BY <1>1, <2>1, <2>2 DEF TypeOK, ListInv, SavedOrder
  <1>2. PurchaseInv /\ ListInv /\ [Next]_vars => (PurchaseInv /\ ListInv)'
    BY ListInvStep
  <1>3. QED
    BY ListInvInit, <1>1, <1>2, PTL DEF Spec

\* The purchase an order names is never replaced by another, whatever else
\* its completion lists beside it, and none is placed beside it
\* (SubmitNewOrder, SubmitReturnOrders, CompleteOrder).
THEOREM RecordIsFinal == Spec => RecordedPurchaseIsFinal
  <1>1. ListInv => Recorded = SavedOrder
    BY DEF ListInv, Recorded, ExternalId, SavedOrder
  <1>2. ListInv' => Recorded' = SavedOrder'
    BY DEF ListInv, Recorded, ExternalId, SavedOrder
  <1>3. PurchaseInv /\ ListInv /\ [Next]_vars => (PurchaseInv /\ ListInv)' /\ RecordKept
    BY ListInvStep
  <1>4. PurchaseInv /\ ListInv /\ [Next]_vars =>
          [Recorded # {} => Recorded' = Recorded /\ Len(newOrders') = Len(newOrders)]_vars
    <2> SUFFICES ASSUME PurchaseInv, ListInv, [Next]_vars, Recorded # {}
                 PROVE  Recorded' = Recorded /\ Len(newOrders') = Len(newOrders)
      OBVIOUS
    <2>1. vendorId # 0 /\ ListInv' /\ RecordKept
      BY <1>1, <1>3 DEF SavedOrder
    <2>2. QED
      BY <1>1, <1>2, <2>1 DEF SavedOrder, RecordKept
  <1>5. QED
    BY ListInvInit, <1>3, <1>4, PTL DEF Spec, RecordedPurchaseIsFinal

-----------------------------------------------------------------------------
(* What is not Processing is not worked on.                                 *)

\* Every step of the pipeline belongs to a running pass.
LEMMA StepsNeedAPass ==
    ASSUME Step
    PROVE  pc # Idle
  BY DEF Step, Prepare, Buy, GiveBack, Update, Publish, SetupContext, SetupDueDate,
         ValidateDuplicateLines, ValidateRenewalWindow, ValidateSkuAvailability,
         Validate3YCCommitment, GetPreviewOrder, UpdatePrices, SubmitNewOrder, SkipNewOrder,
         PlaceNewOrder, SaveNewOrder, FetchNewOrder, GetReturnOrders, GetReturnableOrders,
         ValidateReturnableOrders, SubmitReturnOrders, PlaceReturnOrder, LoseReturnOrder,
         PostReturnOrder, AwaitReturnOrders, UpdateRenewalQuantities, UpdateLine, LinesUpdated, RestoreLine, ReturnNewOrder,
         RollbackEnds, RolledBack, CreateOrUpdateAssets, CreateOrUpdateSubscriptions,
         CompleteOrder

\* Nothing is bought or given back for an order that was decided: the pass
\* that decided it is over (switch_order_to_failed, CompleteOrder).
THEOREM DecidedIsLeftAlone == Spec => NothingOrderedOnceDecided
  <1> DEFINE Alone ==
        status # "Processing" =>
          /\ Len(newOrders') = Len(newOrders)
          /\ \A id \in DOMAIN newOrders :
                newOrders[id].returned = "none" => newOrders'[id].returned = "none"
          /\ \A p \in Purchases : returns[p] = "none" => returns'[p] = "none"
  <1>1. ASSUME TypeInv, [Next]_vars
        PROVE  Alone
    <2>1. CASE UNCHANGED <<newOrders, returns>>
      BY <2>1
    <2>2. CASE Adobe
      <3>1. DOMAIN newOrders = 1 .. Len(newOrders)
        BY <1>1, LenProperties DEF TypeInv, StateTypeOK, NewOrderTypeOK
      <3>2. QED
        BY <1>1, <2>2, <3>1, AdobeType DEF OrdersKept
    <2>3. CASE Step
      BY <1>1, <2>3, StepsNeedAPass DEF TypeInv, CalendarOK
    <2>4. QED
      BY <1>1, <2>1, <2>2, <2>3 DEF Next, Platform, vars, adobeVars
  <1>2. TypeInv /\ [Next]_vars => [Alone]_vars
    BY <1>1
  <1> HIDE DEF Alone
  <1>3. Spec => [][Alone]_vars
    BY TypeInvInit, TypeInvStep, <1>2, PTL DEF Spec
  <1>4. QED
    BY <1>3 DEF NothingOrderedOnceDecided, Alone

-----------------------------------------------------------------------------
(* What is given back.                                                      *)

\* No purchase stops being listed while the order may be worked on.
ListedThroughout == \A p \in Purchases : LastReturnDay[p] > LatestStart + DueDateDays

\* What every pass then chooses from, and what it chooses.
RenewalsOf(line) == {p \in RenewalPurchases : PurchaseLine[p] = line}
Candidates(line) ==
    {p \in Purchases :
        /\ PurchaseLine[p] = line
        /\ RenewalsOf(line) # {} => p >= Min(RenewalsOf(line))}
ToReturn(line) == Combination(Candidates(line), Downsize(line))

\* The steps in front of the one that asks Adobe for return orders.
Unlisted == {Idle, "SetupContext", "SetupDueDate", "ValidateDuplicateLines",
             "ValidateRenewalWindow", "ValidateSkuAvailability", "GetReturnOrders"}

\* Every pass chooses the same, so that only this is ever given back.
ChoiceInv ==
    /\ \A p \in Returned :
          PurchaseLine[p] \in DownsizeLines /\ p \in ToReturn(PurchaseLine[p])
    /\ \A line \in DOMAIN ctx.returnable : ctx.returnable[line] = ToReturn(line)
    /\ pc \notin Unlisted => Returned \subseteq ctx.returnOrders
    /\ \A p \in ctx.returnOrders \ ctx.pendingReturns : returns[p] = "COMPLETE"

\* Two combinations that come last are one (Later is asymmetric).
LEMMA LaterIsAsymmetric ==
    ASSUME NEW s, NEW t, s \subseteq Nat, t \subseteq Nat, Later(s, t)
    PROVE  ~Later(t, s)
  <1>1. SymDiff(s, t) \subseteq Nat /\ SymDiff(s, t) # {}
    BY DEF SymDiff, Later
  <1>2. \E least \in SymDiff(s, t) : \A n \in SymDiff(s, t) : least <= n
    <2>1. PICK n \in SymDiff(s, t) : \A m \in SymDiff(s, t) : <<m, n>> \notin OpToRel(<, Nat)
      BY <1>1, NatLessThanWellFounded, WFMin, Zenon
    <2>2. \A m \in SymDiff(s, t) : ~(m < n)
      BY <1>1, <2>1 DEF OpToRel
    <2>3. n \in Nat /\ \A m \in SymDiff(s, t) : m \in Nat /\ n <= m
      BY <1>1, <2>2
    <2>4. QED
      BY <2>3
  <1>3. Min(SymDiff(s, t)) \in SymDiff(s, t)
    BY <1>2 DEF Min
  <1>4. SymDiff(t, s) = SymDiff(s, t)
    BY DEF SymDiff
  <1>5. Min(SymDiff(s, t)) \in t
    BY DEF Later
  <1>6. Min(SymDiff(s, t)) \notin s
    BY <1>3, <1>5 DEF SymDiff
  <1>7. QED
    BY <1>4, <1>6 DEF Later

\* A combination adds up to the quantity, or there is none.
LEMMA CombinationAddsUp ==
    ASSUME NEW candidates \in SUBSET Purchases, NEW quantity
    PROVE  /\ Combination(candidates, quantity) \subseteq candidates
           /\ Quantity(Combination(candidates, quantity)) \in {0, quantity}
  <1> DEFINE matching == {s \in SUBSET candidates : s # {} /\ Quantity(s) = quantity}
             smallest == {s \in matching : \A t \in matching : Cardinality(s) <= Cardinality(t)}
             last == {s \in smallest : \A t \in smallest : s = t \/ Later(s, t)}
  <1>1. Combination(candidates, quantity) = UNION last
    BY DEF Combination
  <1>2. \A s \in last : s \in smallest /\ s \in SUBSET candidates /\ Quantity(s) = quantity
    OBVIOUS
  <1>3. \A s \in last, t \in smallest : s = t \/ Later(s, t)
    OBVIOUS
  <1> HIDE DEF last, smallest, matching
  <1>4. \A s, t \in last : s = t
    <2> SUFFICES ASSUME NEW s \in last, NEW t \in last, s # t PROVE FALSE
      OBVIOUS
    <2>1. s \subseteq Nat /\ t \subseteq Nat
      BY <1>2, ReturnAssumption
    <2>2. Later(s, t) /\ Later(t, s)
      BY <1>2, <1>3
    <2>3. QED
      BY <2>1, <2>2, LaterIsAsymmetric
  <1>5. CASE last = {}
    BY <1>1, <1>5, SumEmpty DEF Quantity
  <1>6. ASSUME NEW s \in last
        PROVE  UNION last = s
    BY <1>4
  <1>7. QED
    BY <1>1, <1>2, <1>5, <1>6

\* Sums of purchases are quantities, and larger for more of them.
LEMMA FewerAreLess ==
    ASSUME NEW S \in SUBSET Purchases, NEW T \in SUBSET S
    PROVE  Quantity(T) \in Nat /\ Quantity(T) <= Quantity(S)
  <1>1. IsFiniteSet(S) /\ IsFiniteSet(T)
    BY ReturnAssumption, FS_Subset
  <1>2. \A p \in S : PurchasedQuantity[p] \in Nat
    BY ReturnAssumption
  <1>3. QED
    BY <1>1, <1>2, SumNonNegative, SumSubset DEF Quantity

\* What is chosen is among the purchases of the line, and adds up.
LEMMA ToReturnAddsUp ==
    ASSUME NEW line
    PROVE  /\ ToReturn(line) \subseteq Candidates(line)
           /\ ToReturn(line) \in SUBSET Purchases
           /\ \A p \in ToReturn(line) : PurchaseLine[p] = line
           /\ Quantity(ToReturn(line)) \in {0, Downsize(line)}
  <1>1. Candidates(line) \in SUBSET Purchases
    BY DEF Candidates
  <1>2. ToReturn(line) \subseteq Candidates(line) /\ Quantity(ToReturn(line)) \in {0, Downsize(line)}
    BY <1>1, CombinationAddsUp DEF ToReturn
  <1>3. QED
    BY <1>1, <1>2 DEF Candidates

-----------------------------------------------------------------------------
(* The steps of a pass that do not choose.                                  *)

\* A step that leaves the returns, and what the pass knows of them, alone.
KeepsChoice ==
    /\ UNCHANGED returns
    /\ ctx'.returnOrders = ctx.returnOrders /\ ctx'.pendingReturns = ctx.pendingReturns
    /\ ctx'.returnable = ctx.returnable
    /\ pc' \notin Unlisted => pc \notin Unlisted

\* A step after which the pass, or the next, knows of no returns.
ForgetsChoice ==
    /\ UNCHANGED returns
    /\ ctx'.returnOrders = {} /\ ctx'.returnable = NoEntry
    /\ pc' \in Unlisted

\* Either keeps the invariant.
LEMMA ChoiceKept ==
    ASSUME ChoiceInv, KeepsChoice \/ ForgetsChoice
    PROVE  ChoiceInv'
  <1>1. Returned' = Returned /\ DownsizeLines' = DownsizeLines
        /\ \A line : ToReturn(line)' = ToReturn(line)
    BY DEF KeepsChoice, ForgetsChoice, Returned, DownsizeLines, ToReturn, Candidates, RenewalsOf,
           Downsize, Combination, Quantity, Later
  <1>2. CASE KeepsChoice
    BY <1>1, <1>2 DEF KeepsChoice, ChoiceInv
  <1>3. CASE ForgetsChoice
    BY <1>1, <1>3 DEF ForgetsChoice, ChoiceInv, NoEntry
  <1>4. QED
    BY <1>2, <1>3

\* A pass that ends, decided or not.
LEMMA EndForgetsChoice ==
    ASSUME EndPass, UNCHANGED returns
    PROVE  ForgetsChoice
  BY DEF EndPass, EmptyContext, ForgetsChoice, Unlisted

\* The platform.
LEMMA PlatformKeepsChoice ==
    ASSUME TypeInv, Platform
    PROVE  KeepsChoice \/ ForgetsChoice
  <1>1. CASE Abort
    BY <1>1, EndForgetsChoice DEF Platform, Abort, Wait
  <1>2. CASE Dispatch \/ Resume \/ NextDay
    BY <1>2 DEF Platform, Dispatch, Resume, NextDay, Goto, KeepsChoice, Unlisted
  <1>3. QED
    BY <1>1, <1>2 DEF Platform

\* The checks in front of the pipeline.
LEMMA PrepareKeepsChoice ==
    ASSUME TypeInv, Prepare
    PROVE  KeepsChoice \/ ForgetsChoice
  <1> USE EndForgetsChoice DEF switch_order_to_failed, switch_order_to_query, Decide, Wait
  <1>0. UNCHANGED returns
    BY DEF Prepare
  <1>1. CASE SetupContext("SetupDueDate")
    BY <1>0, <1>1 DEF SetupContext, EmptyContext, Goto, ForgetsChoice, Unlisted
  <1>2. CASE SetupDueDate("ValidateDuplicateLines")
    <2>1. EndPass \/ (pc' = "ValidateDuplicateLines" /\ ctx' = ctx)
      BY <1>2 DEF SetupDueDate, Goto
    <2>2. QED
      BY <1>0, <2>1 DEF KeepsChoice, Unlisted
  <1>3. ASSUME pc' \in Unlisted \/ pc \notin Unlisted, EndPass \/ ctx' = ctx
        PROVE  KeepsChoice \/ ForgetsChoice
    BY <1>0, <1>3 DEF KeepsChoice
  <1>4. CASE \/ ValidateDuplicateLines("ValidateRenewalWindow")
             \/ ValidateRenewalWindow("ValidateSkuAvailability")
             \/ ValidateSkuAvailability("GetReturnOrders")
             \/ Validate3YCCommitment("GetPreviewOrder")
    <2>1. EndPass \/ ctx' = ctx
      BY <1>4 DEF ValidateDuplicateLines, ValidateRenewalWindow, ValidateSkuAvailability,
         Validate3YCCommitment, Continue
    <2>2. pc' \in Unlisted \/ pc \notin Unlisted
      BY <1>4 DEF ValidateDuplicateLines, ValidateRenewalWindow, ValidateSkuAvailability,
         Validate3YCCommitment, Continue, Goto, EndPass, Unlisted
    <2>3. QED
      BY <1>3, <2>1, <2>2
  <1>5. QED
    BY <1>1, <1>2, <1>4 DEF Prepare

\* Buying.
LEMMA BuyKeepsChoice ==
    ASSUME TypeInv, Buy
    PROVE  KeepsChoice \/ ForgetsChoice
  <1>0. ctx \in Context /\ UNCHANGED returns /\ newOrders \in Seq(NewOrder)
    BY DEF TypeInv, StateTypeOK, Buy, NewOrderTypeOK
  <1>1. ASSUME ctx'.returnOrders = ctx.returnOrders, ctx'.pendingReturns = ctx.pendingReturns,
               ctx'.returnable = ctx.returnable, pc \notin Unlisted
        PROVE  KeepsChoice
    BY <1>0, <1>1 DEF KeepsChoice
  <1>2. CASE GetPreviewOrder("UpdatePrices")
    <2>1. \/ EndPass
          \/ ctx' = ctx
          \/ \E offer \in Offers : ctx' = [ctx EXCEPT !.preview = PreviewOf(offer)]
      BY <1>2 DEF GetPreviewOrder, Continue, switch_order_to_failed, Decide
    <2>2. QED
      BY <1>0, <1>1, <1>2, <2>1, EndForgetsChoice DEF GetPreviewOrder, Unlisted, Context
  <1>3. CASE UpdatePrices("SubmitNewOrder")
    <2>1. ctx' = [ctx EXCEPT !.linesRepriced = (ctx.preview # NoPreview)]
      BY <1>3 DEF UpdatePrices
    <2>2. QED
      BY <1>0, <1>1, <1>3, <2>1 DEF UpdatePrices, Unlisted, Context
  <1>4. CASE SkipNewOrder("UpdateRenewalQuantities")
    BY <1>1, <1>4 DEF SkipNewOrder, Continue, Unlisted
  <1>5. CASE PlaceNewOrder
    <2>1. \E id, orderStatus : ctx' = [ctx EXCEPT !.newOrderId = id, !.newOrder = orderStatus]
      BY <1>5, Zenon DEF PlaceNewOrder
    <2>2. QED
      BY <1>0, <1>1, <1>5, <2>1 DEF PlaceNewOrder, Unlisted, Context
  <1>6. CASE SaveNewOrder("UpdateRenewalQuantities") \/ FetchNewOrder("UpdateRenewalQuantities")
    <2>1. \/ EndPass
          \/ \E id, orderStatus : ctx' = [ctx EXCEPT !.newOrderId = id, !.newOrder = orderStatus]
      BY <1>6, Zenon DEF SaveNewOrder, FetchNewOrder, FollowOrder
    <2>2. pc \notin Unlisted
      BY <1>6 DEF SaveNewOrder, FetchNewOrder, Unlisted
    <2>3. QED
      BY <1>0, <1>1, <2>1, <2>2, EndForgetsChoice DEF Context
  <1>7. QED
    BY <1>2, <1>3, <1>4, <1>5, <1>6 DEF Buy, SubmitNewOrder

\* The renewal updates and their rollback.
LEMMA UpdateKeepsChoice ==
    ASSUME TypeInv, Update
    PROVE  KeepsChoice \/ ForgetsChoice
  <1>0. ctx \in Context
    BY DEF TypeInv, StateTypeOK
  <1>1. ASSUME ctx'.returnOrders = ctx.returnOrders, ctx'.pendingReturns = ctx.pendingReturns,
               ctx'.returnable = ctx.returnable, pc \notin Unlisted, UNCHANGED returns
        PROVE  KeepsChoice
    BY <1>0, <1>1 DEF KeepsChoice
  <1>2. ASSUME NEW step \in {"UpdateRenewalQuantities", "UpdateRenewalQuantitiesDownsizes"},
               NEW line \in Lines, UpdateLine(step, line)
        PROVE  KeepsChoice
    <2>1. pc \notin Unlisted /\ UNCHANGED returns
      BY <1>2 DEF UpdateLine, Unlisted
    <2>2. /\ ctx'.returnOrders = ctx.returnOrders /\ ctx'.pendingReturns = ctx.pendingReturns
          /\ ctx'.returnable = ctx.returnable
      BY <1>0, <1>2 DEF UpdateLine, Context
    <2>3. QED
      BY <1>1, <2>1, <2>2
  <1>3. ASSUME NEW step \in {"UpdateRenewalQuantities", "UpdateRenewalQuantitiesDownsizes"},
               NEW next, LinesUpdated(step, next)
        PROVE  KeepsChoice
    BY <1>0, <1>1, <1>3 DEF LinesUpdated, Unlisted, Context
  <1>4. CASE RestoreLine
    BY <1>0, <1>1, <1>4 DEF RestoreLine, Unlisted, Context
  <1>5. CASE ReturnNewOrder \/ RollbackEnds
    BY <1>1, <1>5 DEF ReturnNewOrder, RollbackEnds, Unlisted
  <1>6. CASE RolledBack
    BY <1>6, EndForgetsChoice DEF RolledBack, switch_order_to_failed, Decide, Wait
  <1>7. QED
    BY <1>2, <1>3, <1>4, <1>5, <1>6 DEF Update, UpdateRenewalQuantities

\* Publishing and completing.
LEMMA PublishKeepsChoice ==
    ASSUME TypeInv, Publish
    PROVE  KeepsChoice \/ ForgetsChoice
  <1>1. UNCHANGED returns /\ pc \notin Unlisted
    BY DEF Publish, CreateOrUpdateAssets, CreateOrUpdateSubscriptions, CompleteOrder, Unlisted
  <1>2. EndPass \/ ctx' = ctx
    BY DEF Publish, CreateOrUpdateAssets, CreateOrUpdateSubscriptions, CompleteOrder, Wait,
       Decide, Continue, passVars
  <1>3. QED
    BY <1>1, <1>2, EndForgetsChoice DEF KeepsChoice

-----------------------------------------------------------------------------
(* The steps that choose, and Adobe's.                                      *)

\* What is chosen depends on the order and on Adobe's list, not on the state.
LEMMA ChoiceIsConstant ==
    /\ DownsizeLines' = DownsizeLines
    /\ \A line : ToReturn(line)' = ToReturn(line)
  BY DEF DownsizeLines, ToReturn, Candidates, RenewalsOf, Downsize, Combination, Quantity, Later

\* Adobe processes a return order or refuses it.
LEMMA AdobeKeepsChoice ==
    ASSUME TypeInv, ChoiceInv, Adobe
    PROVE  ChoiceInv'
  <1>0. returns \in [Purchases -> ReturnStatus]
    BY DEF TypeInv, StateTypeOK, ReturnTypeOK
  <1>1. CASE AdobeSettlesNewOrder /\ UNCHANGED <<returns, subscribed>>
    BY <1>1, ChoiceKept DEF AdobeSettlesNewOrder, passVars, KeepsChoice
  <1>2. CASE AdobeSettlesReturnOrder /\ UNCHANGED <<newOrders, subscribed>>
    <2>1. /\ UNCHANGED <<pc, ctx>>
          /\ \A p \in Purchases : returns[p] = "none" => returns'[p] = "none"
          /\ \A p \in Purchases : returns[p] = "COMPLETE" => returns'[p] = "COMPLETE"
      BY <1>0, <1>2 DEF AdobeSettlesReturnOrder, passVars
    <2>2. Returned' \subseteq Returned
      BY <2>1 DEF Returned
    <2>3. ctx.returnOrders \subseteq Purchases
      BY DEF TypeInv, StateTypeOK, Context
    <2>4. QED
      BY <2>1, <2>2, <2>3, ChoiceIsConstant DEF ChoiceInv
  <1>3. QED
    BY <1>1, <1>2 DEF Adobe

\* A pass chooses from what Adobe lists of the line and what it gave back
\* itself: while nothing drops out of the list, that is always the same.
LEMMA ListIsCandidates ==
    ASSUME ListedThroughout, TypeInv, ChoiceInv, pc \notin Unlisted, NEW line
    PROVE  ReturnableOrders(line) = Candidates(line)
  <1>1. \A p \in Purchases : today <= LastReturnDay[p]
    BY OrderPassAssumption, ReturnAssumption
       DEF ListedThroughout, TypeInv, StateTypeOK, PassTypeOK, Day
  <1>2. \A p \in Purchases : p \in ctx.returnOrders \/ returns[p] # "COMPLETE"
    BY DEF ChoiceInv, Returned
  <1>3. {p \in Purchases : /\ PurchaseLine[p] = line
                           /\ today <= LastReturnDay[p]
                           /\ p \in ctx.returnOrders \/ returns[p] # "COMPLETE"}
        = {p \in Purchases : PurchaseLine[p] = line}
    BY <1>1, <1>2
  <1>4. {p \in Purchases : PurchaseLine[p] = line} \cap RenewalPurchases = RenewalsOf(line)
    BY ReturnAssumption DEF RenewalsOf
  <1>5. QED
    BY <1>3, <1>4 DEF ReturnableOrders, Candidates

\* The steps about return orders choose the same in every pass, and give
\* back what they chose.
LEMMA GiveBackKeepsChoice ==
    ASSUME ListedThroughout, TypeInv, ChoiceInv, GiveBack
    PROVE  ChoiceInv'
  <1>0. ctx \in Context /\ returns \in [Purchases -> ReturnStatus]
    BY DEF TypeInv, StateTypeOK, ReturnTypeOK
  <1>1. CASE GetReturnOrders("GetReturnableOrders", RolledBackOrders # {})
    <2>1. /\ ctx'.returnOrders = Returned /\ ctx'.returnable = ctx.returnable
          /\ ctx'.pendingReturns = {p \in Returned : returns[p] = "OPEN"}
          /\ UNCHANGED returns
      BY <1>0, <1>1 DEF GetReturnOrders, Context
    <2>2. \A p \in Returned : returns[p] \in {"OPEN", "COMPLETE"}
      BY <1>0 DEF Returned, ReturnStatus
    <2>3. Returned' = Returned
      BY <2>1 DEF Returned
    <2>4. QED
      BY <2>1, <2>2, <2>3, ChoiceIsConstant DEF ChoiceInv
  <1>2. CASE GetReturnableOrders("ValidateReturnableOrders")
    <2>1. pc \notin Unlisted /\ UNCHANGED returns
      BY <1>2 DEF GetReturnableOrders, Unlisted
    <2>2. Returned' = Returned
      BY <2>1 DEF Returned
    <2>3. CASE ctx' = ctx
      BY <2>1, <2>3, ChoiceKept DEF KeepsChoice
    <2>4. CASE ctx' # ctx
      <3> DEFINE lines == {l \in DownsizeLines : ReturnableOrders(l) # {}}
                 found == [l \in lines |-> Combination(ReturnableOrders(l), Downsize(l))]
      <3>1. \A l \in lines : found[l] = ToReturn(l)
        BY <2>1, ListIsCandidates DEF ToReturn
      <3>2. DOMAIN found = lines
        OBVIOUS
      <3>3. ctx' = [ctx EXCEPT !.returnable = found]
        BY <1>2, <2>4, Zenon DEF GetReturnableOrders
      <3> HIDE DEF found, lines
      <3>4. ctx'.returnable = found /\ ctx'.returnOrders = ctx.returnOrders
            /\ ctx'.pendingReturns = ctx.pendingReturns
        BY <1>0, <3>3 DEF Context
      <3>5. QED
        BY <2>1, <2>2, <3>1, <3>2, <3>4, ChoiceIsConstant DEF ChoiceInv
    <2>5. QED
      BY <2>3, <2>4
  <1>3. CASE \/ ValidateReturnableOrders("Validate3YCCommitment")
             \/ AwaitReturnOrders("UpdateRenewalQuantitiesDownsizes")
    <2>1. pc \notin Unlisted /\ UNCHANGED returns /\ (EndPass \/ ctx' = ctx)
      BY <1>3 DEF ValidateReturnableOrders, AwaitReturnOrders, Unlisted, Wait, Decide, Continue,
         switch_order_to_failed
    <2>2. QED
      BY <2>1, EndForgetsChoice, ChoiceKept DEF KeepsChoice
  <1>4. ASSUME NEW p \in Purchases, NEW answer \in {"OPEN", "COMPLETE"},
               PostReturnOrder(p, answer)
        PROVE  /\ returns' = [returns EXCEPT ![p] = answer]
               /\ Returned' \subseteq Returned \cup {p}
               /\ PurchaseLine[p] \in DownsizeLines /\ p \in ToReturn(PurchaseLine[p])
    <2>1. returns' = [returns EXCEPT ![p] = answer]
      BY <1>4 DEF PostReturnOrder
    <2>2. PICK line \in DOMAIN ctx.returnable : p \in ToReturn(line)
      BY <1>4 DEF PostReturnOrder, Chosen, ChoiceInv
    <2>3. line \in DownsizeLines /\ PurchaseLine[p] = line
      BY <1>0, <2>2, ToReturnAddsUp DEF Context
    <2>4. QED
      BY <1>0, <2>1, <2>2, <2>3 DEF Returned
  <1>5. ASSUME NEW p \in Purchases, LoseReturnOrder(p)
        PROVE  ChoiceInv'
    <2>1. ctx'.returnOrders = {} /\ ctx'.returnable = NoEntry /\ pc' \in Unlisted
      BY <1>5 DEF LoseReturnOrder, Wait, EndPass, EmptyContext, Unlisted
    <2>2. PICK answer \in {"OPEN", "COMPLETE"} : PostReturnOrder(p, answer)
      BY <1>5 DEF LoseReturnOrder
    <2>3. Returned' \subseteq Returned \cup {p}
          /\ PurchaseLine[p] \in DownsizeLines /\ p \in ToReturn(PurchaseLine[p])
      BY <1>4, <2>2
    <2>4. QED
      BY <2>1, <2>3, ChoiceIsConstant DEF ChoiceInv, NoEntry
  <1>6. ASSUME NEW p \in Purchases, PlaceReturnOrder(p)
        PROVE  ChoiceInv'
    <2>1. PICK answer \in {"OPEN", "COMPLETE"} :
            /\ PostReturnOrder(p, answer)
            /\ ctx' = [ctx EXCEPT !.returnOrders = @ \cup {p},
                         !.pendingReturns = IF answer = "OPEN" THEN @ \cup {p} ELSE @]
      BY <1>6 DEF PlaceReturnOrder
    <2>2. /\ ctx'.returnOrders = ctx.returnOrders \cup {p}
          /\ ctx'.pendingReturns = IF answer = "OPEN" THEN ctx.pendingReturns \cup {p}
                                                     ELSE ctx.pendingReturns
          /\ ctx'.returnable = ctx.returnable
      BY <1>0, <2>1 DEF Context
    <2>3. /\ Returned' \subseteq Returned \cup {p}
          /\ PurchaseLine[p] \in DownsizeLines /\ p \in ToReturn(PurchaseLine[p])
          /\ returns' = [returns EXCEPT ![p] = answer]
      BY <1>4, <2>1
    <2>6. pc \notin Unlisted /\ p \notin ctx.returnOrders
      BY <2>1 DEF PostReturnOrder, Unlisted
    <2>7. \A q \in ctx'.returnOrders \ ctx'.pendingReturns : returns'[q] = "COMPLETE"
      <3>1. SUFFICES ASSUME NEW q \in ctx'.returnOrders \ ctx'.pendingReturns
                     PROVE  returns'[q] = "COMPLETE"
        OBVIOUS
      <3>2. CASE q = p
        BY <1>0, <2>2, <2>3, <3>1, <3>2
      <3>3. CASE q # p
        <4>1. q \in ctx.returnOrders \ ctx.pendingReturns /\ q \in Purchases
          BY <1>0, <2>2, <3>1, <3>3 DEF Context
        <4>2. QED
          BY <1>0, <2>3, <3>3, <4>1 DEF ChoiceInv
      <3>4. QED
        BY <3>2, <3>3
    <2>8. QED
      BY <2>2, <2>3, <2>6, <2>7, ChoiceIsConstant DEF ChoiceInv
  <1>7. QED
    BY <1>1, <1>2, <1>3, <1>5, <1>6 DEF GiveBack, SubmitReturnOrders

LEMMA ChoiceInvInit == Init => ChoiceInv
  BY DEF Init, PassInit, ReturnInit, EmptyContext, NoEntry, ChoiceInv, Returned, Unlisted

LEMMA ChoiceInvStep ==
    ASSUME ListedThroughout, TypeInv, ChoiceInv, [Next]_vars
    PROVE  ChoiceInv'
  <1>1. CASE UNCHANGED vars
    BY <1>1, ChoiceKept DEF vars, passVars, KeepsChoice
  <1>2. CASE Next
    BY <1>2, ChoiceKept, PlatformKeepsChoice, AdobeKeepsChoice, PrepareKeepsChoice,
       BuyKeepsChoice, GiveBackKeepsChoice, UpdateKeepsChoice, PublishKeepsChoice DEF Next, Step
  <1>3. QED
    BY <1>1, <1>2

\* As long as Adobe goes on listing the purchases of the lines, all the passes
\* together give back no more of a line than its downsize (GetReturnableOrders
\* and SubmitReturnOrders, run anew in every pass).
THEOREM ReturnedWithinCorrect == ListedThroughout => (Spec => []ReturnedWithinDownsize)
  <1> SUFFICES ASSUME ListedThroughout PROVE Spec => []ReturnedWithinDownsize
    OBVIOUS
  <1>1. ChoiceInv => ReturnedWithinDownsize
    <2> SUFFICES ASSUME ChoiceInv, NEW line \in DownsizeLines
                 PROVE  Quantity(ReturnedOf(line)) <= Downsize(line)
      BY DEF ReturnedWithinDownsize
    <2>1. ReturnedOf(line) \in SUBSET ToReturn(line) /\ ToReturn(line) \in SUBSET Purchases
      BY ToReturnAddsUp DEF ReturnedOf, ChoiceInv
    <2>2. Quantity(ReturnedOf(line)) \in Nat
          /\ Quantity(ReturnedOf(line)) <= Quantity(ToReturn(line))
      BY <2>1, FewerAreLess
    <2>3. Downsize(line) \in Nat
      BY AdobeSubscriptionsAssumption DEF Downsize, DownsizeLines
    <2>4. QED
      BY <2>2, <2>3, ToReturnAddsUp
  <1>2. Init => TypeInv /\ ChoiceInv
    BY TypeInvInit, ChoiceInvInit
  <1>3. TypeInv /\ ChoiceInv /\ [Next]_vars => (TypeInv /\ ChoiceInv)'
    BY TypeInvStep, ChoiceInvStep
  <1>4. QED
    BY <1>1, <1>2, <1>3, PTL DEF Spec
=============================================================================
