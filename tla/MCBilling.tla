----------------------------- MODULE MCBilling -----------------------------
(* Instances of Billing for TLC. *)
EXTENDS Billing, TLC

CONSTANTS q1, i1, i2, i3, r1, r2, r3, o1, o2, free, dear

(* One document that costs nothing, one that takes two receipts to cover.  *)
MCDue == free :> 0 @@ dear :> 2

(* Requests differ in nothing but their name, and so do invoices and       *)
(* organisations.                                                          *)
MCSymmetry ==
  Permutations(Requests) \cup Permutations(Invoices) \cup Permutations(Orgs)
=============================================================================
