------------------------------- MODULE Stages -------------------------------
(***************************************************************************)
(* The two vocabularies of the pipeline and their translation              *)
(* (internal/delivery/stages.go): the board's deal stages and the labels   *)
(* of the tracker's "Current Stage(s)" column.  Neither table is one to    *)
(* one, so each direction first asks whether the other side already says   *)
(* the same.                                                               *)
(***************************************************************************)
CONSTANT None  \* a NULL column, an empty label

Stages == {"discovery", "site_assessment", "quote_sent", "negotiation",
           "won", "delivery", "post_delivery"}

(* What the last migration of deals_stage_check admits of them.            *)
StoredStages == Stages \ {"post_delivery"}

trackerStageByDeal ==
  [discovery       |-> "Lead / Intro Call",
   site_assessment |-> "Use Case Discussion",
   quote_sent      |-> "Quotation Sent",
   negotiation     |-> "Quotation Sent",
   won             |-> "PO Received",
   delivery        |-> "Deployment",
   post_delivery   |-> "Deployed / Live"]

SubStages == {"NDA / Demo", "PoC"}
Labels    == SubStages \cup {trackerStageByDeal[s] : s \in Stages}

(* The inverse, with quote_sent for "Quotation Sent", and the sub-stages.  *)
dealStageByTracker == [l \in Labels |->
  CASE l = "NDA / Demo"             -> "site_assessment"
    [] l \in {"PoC", "Quotation Sent"} -> "quote_sent"
    [] OTHER -> CHOOSE s \in Stages : trackerStageByDeal[s] = l]

(* Free text and a blank cell mean no stage.                               *)
MapTrackerStageToDeal(label) ==
  IF label \in Labels THEN dealStageByTracker[label] ELSE None

(* Every label that represents this stage.                                 *)
trackerLabelsFor(s) ==
  {trackerStageByDeal[s]} \cup {l \in Labels : dealStageByTracker[l] = s}

dealStagesFor_None(label) == {}  \* mutation: a label names its target only

(* Every stage that is displayed as this label.                            *)
dealStagesFor(label) ==
  IF label \in Labels THEN {s \in Stages : trackerStageByDeal[s] = label} ELSE {}
=============================================================================
