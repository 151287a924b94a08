------------------------------ MODULE MCRoles ------------------------------
(* Instances of Roles for TLC. *)
EXTENDS Roles, TLC

CONSTANTS ann, bob, eve, r1, r2

MCSymmetry == Permutations(Requests) \cup Permutations(Members \ {Founder})
=============================================================================
