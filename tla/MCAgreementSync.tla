---------------------------- MODULE MCAgreementSync ----------------------------
(* One subscription of the main agreement and one of a deployment. *)
EXTENDS AgreementSync

MCDeploymentOf == [s \in Subscriptions |-> IF s = "gc" THEN "dep" ELSE "main"]
=============================================================================
