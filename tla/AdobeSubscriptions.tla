------------------------- MODULE AdobeSubscriptions -------------------------
(***************************************************************************)
(* The lines of a change order and the Adobe subscriptions behind them.    *)
(* Adobe keeps for every subscription the quantity the customer holds and  *)
(* the quantity that will renew at the anniversary.                        *)
(***************************************************************************)
EXTENDS Integers

CONSTANTS
    Lines,            \* the lines of the MPT order
    OldQuantity,      \* oldQuantity of each line (0: the item is new)
    NewQuantity,      \* quantity of each line
    FirstCurrent,     \* the quantity the customer holds of each at first
    FirstRenewal,     \* the quantity that renews at first
    RenewalFollows    \* external: does Adobe move the renewal quantity along
                      \* with the current one when it processes an order?

ASSUME AdobeSubscriptionsAssumption ==
    /\ OldQuantity \in [Lines -> Nat]
    /\ NewQuantity \in [Lines -> Nat]
    /\ FirstCurrent \in [Lines -> Nat]
    /\ FirstRenewal \in [Lines -> Nat]
    /\ \A line \in Lines : OldQuantity[line] = 0 =>
          NewQuantity[line] > 0 /\ FirstCurrent[line] = 0 /\ FirstRenewal[line] = 0
    /\ RenewalFollows \in BOOLEAN

VARIABLES
    current,          \* currentQuantity of the subscription of a line
    renewal           \* its autoRenewal.renewalQuantity

subscriptionVars == <<current, renewal>>

-----------------------------------------------------------------------------
(* split_downsizes_upsizes_new                                              *)
DownsizeLines == {line \in Lines : NewQuantity[line] < OldQuantity[line]}
UpsizeLines == {line \in Lines \ DownsizeLines : OldQuantity[line] > 0}
NewLines == Lines \ (DownsizeLines \cup UpsizeLines)
PurchaseLines == UpsizeLines \cup NewLines

\* Mutant of PurchaseQuantity: licences that do not renew are bought again.
PurchaseQuantityOfRenewal(line) ==
    IF line \in PurchaseLines THEN NewQuantity[line] - OldQuantity[line] ELSE 0

\* What an upsized or new line still has to buy: licences the customer holds
\* beyond the renewal quantity (bought, then lowered) are not bought again.
PurchaseQuantity(line) ==
    LET unrenewed == IF renewal[line] < current[line]
                       THEN current[line] - renewal[line] ELSE 0
        quantity == NewQuantity[line] - OldQuantity[line] - unrenewed
    IN  IF line \in NewLines THEN NewQuantity[line]
        ELSE IF line \in UpsizeLines /\ quantity > 0 THEN quantity
        ELSE 0

-----------------------------------------------------------------------------
(* What Adobe does to the subscriptions when it processes an order; the     *)
(* quantity of a line is positive for a purchase, negative for a return.    *)

Moved(quantities, line, change) ==
    IF quantities[line] + change < 0 THEN 0 ELSE quantities[line] + change

Process(change) ==
    /\ current' = [line \in Lines |-> Moved(current, line, change[line])]
    /\ renewal' = IF RenewalFollows
                    THEN [line \in Lines |-> Moved(renewal, line, change[line])]
                    ELSE [line \in Lines |->
                            IF line \in NewLines \* a new subscription renews whole
                              THEN Moved(renewal, line, change[line])
                              ELSE renewal[line]]

SubscriptionsInit ==
    /\ current = FirstCurrent
    /\ renewal = FirstRenewal

SubscriptionsTypeOK ==
    /\ current \in [Lines -> Nat]
    /\ renewal \in [Lines -> Nat]
=============================================================================
