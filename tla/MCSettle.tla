------------------------------ MODULE MCSettle ------------------------------
(***************************************************************************)
(* Instances of Settlement for TLC: two overlapping requests on one        *)
(* reservation, and one request at a time with three KYC documents.        *)
(***************************************************************************)
EXTENDS Settlement, TLC

CONSTANTS w1, w2

=============================================================================
