----------------------------- MODULE MCPipeline -----------------------------
(* Instances of Pipeline for TLC. *)
EXTENDS Pipeline, TLC

CONSTANTS d1, d2, w1, w2, w3, p1, p2, acme, pune

(* One deal and its stages, a sub-stage, a stage without a label of its    *)
(* own and one the database refuses; one deal and its locations; two deals *)
(* that contend for rows.                                                  *)
MCAsked ==
  {[stages |-> {"quote_sent", "negotiation", "post_delivery"},
    labels |-> {"PoC", "Quotation Sent", "Deployed / Live", None}, sites |-> {}, deals |-> 1],
   [stages |-> {"won"}, labels |-> {None}, sites |-> Sites, deals |-> 1],
   [stages |-> {"won"}, labels |-> {None}, sites |-> {}, deals |-> 2]}

MCSymmetry == Permutations(Deals) \cup Permutations(Rows) \cup Permutations(Requests)
=============================================================================
