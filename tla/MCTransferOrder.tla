--------------------------- MODULE MCTransferOrder ---------------------------
(***************************************************************************)
(* Lines of two licences.  The transferred subscription of one, once       *)
(* expired, cannot be renewed, or can with one licence or with both; that  *)
(* of the line "gone" cannot, so that the line can only be bought anew.    *)
(***************************************************************************)
EXTENDS TransferOrder

MCOld == [line \in Lines |-> 0]
MCNew == [line \in Lines |-> 2]
MCSubscriptionOf ==
    CHOOSE f \in [Lines -> Subscriptions] : \A x, y \in Lines : f[x] = f[y] => x = y
MCLapses == {[line \in Lines |-> IF line = "gone" THEN 0 ELSE n] : n \in 0 .. 2}
OneLapses == {[line \in Lines |-> 1]}
=============================================================================
