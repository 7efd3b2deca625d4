----------------------------- MODULE ReturnSteps -----------------------------
(***************************************************************************)
(* Giving licences back: Adobe takes whole purchases back within fourteen  *)
(* days, so a downsized line is served by returning a set of earlier       *)
(* purchases that add up to exactly the difference.  The set is computed   *)
(* anew in every pass, from what Adobe lists at that moment; the returns   *)
(* a previous pass placed are found again by their external reference.     *)
(***************************************************************************)
EXTENDS OrderPass, AdobeSubscriptions, FiniteSets, FiniteSetsExt, Functions

CONSTANTS
    Purchases,         \* earlier NEW and RENEWAL orders, numbered in the order
                       \* in which Adobe lists and created them
    PurchaseLine,      \* the line whose subscription a purchase bought for
    PurchasedQuantity, \* the quantity it bought
    RenewalPurchases,  \* those that are RENEWAL orders
    LastReturnDay,     \* last day on which the purchase is listed (14 days)
    OtherDeployment,   \* purchases of another deployment than the agreement's
    LastTwoWeeks       \* first day of the two weeks before the anniversary

ASSUME ReturnAssumption ==
    /\ Purchases \subseteq Nat /\ IsFiniteSet(Purchases)
    /\ PurchaseLine \in [Purchases -> Lines]
    /\ PurchasedQuantity \in [Purchases -> Nat \ {0}]
    /\ RenewalPurchases \subseteq Purchases
    /\ LastReturnDay \in [Purchases -> Nat]
    /\ OtherDeployment \subseteq Purchases
    /\ LastTwoWeeks \in Nat

VARIABLE returns       \* the RETURN order this MPT order placed for a purchase

ReturnStatus == {"none", "OPEN", "COMPLETE"}

Quantity(purchases) == SumFunctionOnSet(PurchasedQuantity, purchases)
Downsize(line) == OldQuantity[line] - NewQuantity[line]

\* The purchases given back, or being given back, by this order.
Returned == {p \in Purchases : returns[p] # "none"}
ReturnedOf(line) == {p \in Returned : PurchaseLine[p] = line}

TakeBack(p) == Process([line \in Lines |->
    IF line = PurchaseLine[p] THEN -PurchasedQuantity[p] ELSE 0])

-----------------------------------------------------------------------------
(* The algorithm: which purchases to give back for a line.                  *)

\* get_returnable_orders_by_subscription_id: what Adobe still lists, and is
\* either processed or being returned by this order; a late renewal makes
\* the purchases before it unreturnable.
ReturnableOrders(line) ==
    LET listed == {p \in Purchases :
                     /\ PurchaseLine[p] = line
                     /\ today <= LastReturnDay[p]
                     /\ p \in ctx.returnOrders \/ returns[p] # "COMPLETE"}
        renewals == listed \cap RenewalPurchases
    IN  IF renewals = {} THEN listed
        ELSE {p \in listed : p >= Min(renewals)}

\* itertools.combinations yields the subsets of one size in lexicographic
\* order: of two of them, the later is the one that lacks the smallest
\* element they do not share.
Later(s, t) == s # t /\ Min(SymDiff(s, t)) \in t

\* Mutant of Combination: any set that covers the quantity matches.
CombinationCovering(candidates, quantity) ==
    LET matching == {s \in SUBSET candidates : s # {} /\ Quantity(s) >= quantity}
        smallest == {s \in matching : \A t \in matching : Cardinality(s) <= Cardinality(t)}
    IN  UNION {s \in smallest : \A t \in smallest : s = t \/ Later(s, t)}

\* The loop goes from the largest size to the smallest and lets a later
\* combination overwrite an earlier one of the same sum: what is left is the
\* last of the smallest ones ({} when no combination matches).
Combination(candidates, quantity) ==
    LET matching == {s \in SUBSET candidates : s # {} /\ Quantity(s) = quantity}
        smallest == {s \in matching : \A t \in matching : Cardinality(s) <= Cardinality(t)}
    IN  UNION {s \in smallest : \A t \in smallest : s = t \/ Later(s, t)}

-----------------------------------------------------------------------------
(* Steps.                                                                   *)

\* others: does the MPT order have RETURN orders for anything but Purchases?
GetReturnOrders(next, others) ==
    /\ pc = "GetReturnOrders"
    /\ ctx' = [ctx EXCEPT !.returnOrders = Returned,
                          !.pendingReturns = {p \in Returned : returns[p] = "OPEN"},
                          !.otherReturns = others]
    /\ Goto(next)
    /\ UNCHANGED <<status, dueDate, vendorId, today, subscriptionVars, returns>>

\* A line with nothing returnable gets no entry, one without a matching
\* combination gets the entry None, here {}.
GetReturnableOrders(next) ==
    /\ pc = "GetReturnableOrders"
    /\ ctx' = IF today >= LastTwoWeeks THEN ctx
              ELSE LET lines == {l \in DownsizeLines : ReturnableOrders(l) # {}}
                   IN  [ctx EXCEPT !.returnable =
                          [l \in lines |-> Combination(ReturnableOrders(l), Downsize(l))]]
    /\ Goto(next)
    /\ UNCHANGED <<status, dueDate, vendorId, today, subscriptionVars, returns>>

ValidateReturnableOrders(next) ==
    /\ pc = "ValidateReturnableOrders"
    /\ IF /\ \E line \in DOMAIN ctx.returnable : ctx.returnable[line] = {}
          /\ ctx.returnOrders = {} /\ ~ctx.otherReturns
         THEN switch_order_to_failed
         ELSE Continue(next)
    /\ UNCHANGED <<subscriptionVars, returns>>

\* The purchases this pass has to give back; those of another deployment
\* are skipped.
Chosen == UNION {ctx.returnable[line] : line \in DOMAIN ctx.returnable} \ OtherDeployment

\* POST .../orders of one RETURN order, processed at once or kept OPEN.
PostReturnOrder(p, answer) ==
    /\ pc = "SubmitReturnOrders"
    /\ p \in Chosen \ ctx.returnOrders
    /\ returns' = [returns EXCEPT ![p] = answer]
    /\ IF answer = "COMPLETE" THEN TakeBack(p) ELSE UNCHANGED subscriptionVars

\* The order is placed, and its identifier saved on the MPT order.
PlaceReturnOrder(p) ==
    /\ \E answer \in {"OPEN", "COMPLETE"} :
         /\ PostReturnOrder(p, answer)
         /\ ctx' = [ctx EXCEPT !.returnOrders = @ \cup {p},
                               !.pendingReturns = IF answer = "OPEN" THEN @ \cup {p} ELSE @]
    /\ UNCHANGED <<status, dueDate, vendorId, today, pc>>

\* The order is placed, and the pass cut off before its identifier is saved:
\* a later pass finds the order at Adobe and does not save it any more.
LoseReturnOrder(p) ==
    /\ \E answer \in {"OPEN", "COMPLETE"} : PostReturnOrder(p, answer)
    /\ Wait

\* All of them placed, now or by an earlier pass: go on if Adobe is done.
AwaitReturnOrders(next) ==
    /\ pc = "SubmitReturnOrders"
    /\ Chosen \subseteq ctx.returnOrders
    /\ IF Chosen \cap ctx.pendingReturns # {} THEN Wait ELSE Continue(next)
    /\ UNCHANGED <<subscriptionVars, returns>>

SubmitReturnOrders(next) ==
    (\E p \in Purchases : PlaceReturnOrder(p)) \/ AwaitReturnOrders(next)

-----------------------------------------------------------------------------
(* Adobe.                                                                   *)

\* A refused RETURN order drops out of the list of OPEN and COMPLETE ones.
AdobeSettlesReturnOrder ==
    /\ \E p \in Purchases :
          /\ returns[p] = "OPEN"
          /\ \/ returns' = [returns EXCEPT ![p] = "COMPLETE"] /\ TakeBack(p)
             \/ returns' = [returns EXCEPT ![p] = "none"] /\ UNCHANGED subscriptionVars
    /\ UNCHANGED passVars

ReturnInit == returns = [p \in Purchases |-> "none"]

ReturnTypeOK ==
    /\ returns \in [Purchases -> ReturnStatus]
    /\ ctx.pendingReturns \subseteq ctx.returnOrders
=============================================================================
