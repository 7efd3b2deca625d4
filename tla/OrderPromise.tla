----------------------------- MODULE OrderPromise -----------------------------
(***************************************************************************)
(* What the fulfilment of an order promises about buying, whatever the     *)
(* passes it takes: Adobe is asked for at most one purchase, only while    *)
(* the order is Processing; the order is completed only when nothing had   *)
(* to be bought or when the customer holds what was bought; and what a     *)
(* completed order bought is never given back.                             *)
(***************************************************************************)
VARIABLES
    order,      \* status of the Marketplace order
    purchase    \* "none", "pending", "held", or "lost" when Adobe refused it

vars == <<order, purchase>>

Init == order = "Processing" /\ purchase = "none"

Buy ==
    /\ order = "Processing" /\ purchase = "none"
    /\ purchase' \in {"pending", "held"}
    /\ UNCHANGED order

Settle ==
    /\ purchase = "pending"
    /\ purchase' \in {"held", "lost"}
    /\ UNCHANGED order

Complete ==
    /\ order = "Processing" /\ purchase \in {"none", "held"}
    /\ order' = "Completed"
    /\ UNCHANGED purchase

Fail == order = "Processing" /\ order' = "Failed" /\ UNCHANGED purchase

Ask == order = "Processing" /\ order' = "Querying" /\ UNCHANGED purchase

Answer == order = "Querying" /\ order' = "Processing" /\ UNCHANGED purchase

Next == Buy \/ Settle \/ Complete \/ Fail \/ Ask \/ Answer

Spec == Init /\ [][Next]_vars
=============================================================================
