-------------------------- MODULE MCGraphAdmission --------------------------
(* The admission of one instance, with the budgets scaled down.            *)
EXTENDS GraphAdmission
=============================================================================
