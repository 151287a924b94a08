------------------------------- MODULE Leads -------------------------------
(***************************************************************************)
(* Leads and the deals they become (internal/leads, and the part of        *)
(* internal/deals/store.go that marks a lead).  A lead's status is written *)
(* from four sides: the form that edits the whole lead, the list's         *)
(* "advance" action, which may book a meeting first, the conversion, and   *)
(* a deal that is saved with a lead on it.  Conversion is one transaction: *)
(* its claim locks the lead's row, and whoever writes that row waits.      *)
(* The other writers are single statements.  The tracker row that follows  *)
(* every write of a deal is the matter of Pipeline.                        *)
(***************************************************************************)
EXTENDS Naturals, FiniteSets

CONSTANTS Leads, Deals,   \* ids the database may hand out
          Requests,       \* calls that may be in flight at once
          None,
          Chosen,         \* bound: the stages that calls ask for
          MaxMeetings     \* bound: meetings booked with one lead

Stages == {"new", "initial count", "deck sent", "call scheduled",
           "call done", "proposal sent", "closed", "not interested"}

ASSUME LeadsAssumption ==
  /\ Chosen \subseteq Stages
  /\ MaxMeetings \in Nat
  /\ None \notin Leads \cup Deals \cup Stages \cup {"converted"}

VARIABLES
  lead,     \* absent, live or deleted (deleted_at)
  status,   \* leads.status
  deal,     \* absent, live or retired
  pointer,  \* deals.lead_id
  diary,    \* meetings with the lead in the callers' Google calendars
  req,      \* the calls in flight
  linked,   \* history: leads that some committed deal has pointed at
  claims,   \* history: conversions of the lead since it last left "converted"
  promised  \* history: the status was set by a call that booked a meeting

leads == <<lead, status, claims, promised>>
deals == <<deal, pointer, linked>>
vars  == <<leads, deals, diary, req>>

(* A call at rest.  found is the status an advance read; touched and       *)
(* failed are history: another call has written the lead's row since this  *)
(* one looked at it; the best-effort update failed.                        *)
Idle == [pc |-> "idle", op |-> "none", lead |-> None, deal |-> None, to |-> None,
         meeting |-> FALSE, found |-> None, touched |-> FALSE, failed |-> FALSE]

Init ==
  /\ lead = [l \in Leads |-> "absent"]
  /\ status = [l \in Leads |-> None]
  /\ deal = [d \in Deals |-> "absent"]
  /\ pointer = [d \in Deals |-> None]
  /\ diary = [l \in Leads |-> 0]
  /\ req = [p \in Requests |-> Idle]
  /\ linked = {}
  /\ claims = [l \in Leads |-> 0]
  /\ promised = [l \in Leads |-> FALSE]

At(p, point) == req[p].pc = point

Claimed_Never(l) == FALSE  \* mutation: the claim does not keep the row

(* The row is held by a conversion that has not committed.                 *)
Claimed(l) == \E q \in Requests : At(q, "claimed") /\ req[q].lead = l

Begin(p, op, point, l) == [Idle EXCEPT !.pc = point, !.op = op, !.lead = l]

(* Request p goes on as r; the calls that look at lead l learn that its    *)
(* row has been written.                                                   *)
Wrote(l, q) == IF req[q].lead = l /\ ~ At(q, "idle")
                 THEN [req[q] EXCEPT !.touched = TRUE] ELSE req[q]
Continue(p, r) == req' = [req EXCEPT ![p] = r]
Goto(p, point) == Continue(p, [req[p] EXCEPT !.pc = point])
ContinueWriting(p, r, l) == req' = [q \in Requests |-> IF q = p THEN r ELSE Wrote(l, q)]

SetStatus(l, s) ==
  /\ status' = [status EXCEPT ![l] = s]
  /\ claims' = [claims EXCEPT ![l] = IF s = "converted" THEN @ ELSE 0]
  /\ UNCHANGED lead

-----------------------------------------------------------------------------
(* The lead's own form.                                                    *)

CreateLead ==
  \E l \in Leads, s \in Chosen :
    /\ lead[l] = "absent"
    /\ lead' = [lead EXCEPT ![l] = "live"]
    /\ status' = [status EXCEPT ![l] = s]
    /\ UNCHANGED <<claims, promised, deals, diary, req>>

(* A whole PUT: any stage, from any stage, "converted" included.           *)
EditLead ==
  \E l \in Leads, s \in Chosen :
    /\ lead[l] = "live" /\ ~ Claimed(l)
    /\ SetStatus(l, s)
    /\ promised' = [promised EXCEPT ![l] = FALSE]
    /\ req' = [q \in Requests |-> Wrote(l, q)]
    /\ UNCHANGED <<deals, diary>>

DeleteLead_Hard ==  \* mutation: the row is erased
  \E l \in Leads :
    /\ lead[l] = "live" /\ ~ Claimed(l)
    /\ lead' = [lead EXCEPT ![l] = "absent"]
    /\ status' = [status EXCEPT ![l] = None]
    /\ req' = [q \in Requests |-> Wrote(l, q)]
    /\ UNCHANGED <<claims, promised, deals, diary>>

DeleteLead ==
  \E l \in Leads :
    /\ lead[l] = "live" /\ ~ Claimed(l)
    /\ lead' = [lead EXCEPT ![l] = "deleted"]
    /\ req' = [q \in Requests |-> Wrote(l, q)]
    /\ UNCHANGED <<status, claims, promised, deals, diary>>

-----------------------------------------------------------------------------
(* Advance: look the lead up and book the meeting if one was asked for,    *)
(* then move the stage.                                                    *)

BeginAdvance(p) ==
  /\ At(p, "idle")
  /\ \E l \in Leads, s \in Chosen \cup {"converted"}, meeting \in BOOLEAN :
       /\ IF meeting THEN lead[l] = "live" ELSE lead[l] # "absent"
       /\ Continue(p, [Begin(p, "advance", IF meeting THEN "booking" ELSE "ready", l)
                         EXCEPT !.to = s, !.meeting = meeting, !.found = status[l]])
  /\ UNCHANGED <<leads, deals, diary>>

(* The event is in Google's calendar, whatever becomes of the stage.       *)
BookCall(p) ==
  LET l == req[p].lead IN
  /\ At(p, "booking")
  /\ diary[l] < MaxMeetings
  /\ diary' = [diary EXCEPT ![l] = @ + 1]
  /\ Goto(p, "ready")
  /\ UNCHANGED <<leads, deals>>

(* Not connected, a token that cannot be renewed, or Google says no.       *)
BookingRefused(p) ==
  /\ At(p, "booking")
  /\ Goto(p, "refused")
  /\ UNCHANGED <<leads, deals, diary>>

AdvanceStage_BeforeBooking(p) ==  \* mutation: the stage moves first
  LET l == req[p].lead IN
  /\ At(p, "booking")
  /\ req[p].to \in Stages /\ status[l] # req[p].to
  /\ lead[l] = "live" /\ ~ Claimed(l)
  /\ SetStatus(l, req[p].to)
  /\ promised' = [promised EXCEPT ![l] = req[p].meeting]
  /\ ContinueWriting(p, req[p], l)
  /\ UNCHANGED <<deals, diary>>

AdvanceStage(p) ==
  LET l == req[p].lead IN
  /\ At(p, "ready")
  /\ req[p].to \in Stages
  /\ lead[l] = "live" /\ ~ Claimed(l)
  /\ SetStatus(l, req[p].to)
  /\ promised' = [promised EXCEPT ![l] = req[p].meeting]
  /\ ContinueWriting(p, [req[p] EXCEPT !.pc = "moved"], l)
  /\ UNCHANGED <<deals, diary>>

(* No such stage to advance to, or no such lead any more: a meeting that   *)
(* has been booked stays booked.                                           *)
AdvanceRefused(p) ==
  /\ At(p, "ready")
  /\ req[p].to \notin Stages \/ lead[req[p].lead] # "live"
  /\ Goto(p, "refused")
  /\ UNCHANGED <<leads, deals, diary>>

-----------------------------------------------------------------------------
(* Convert.                                                                *)

ClaimLead_Autocommit(p) ==  \* mutation: the claim runs outside the transaction
  /\ At(p, "idle")
  /\ \E l \in Leads :
       /\ lead[l] = "live" /\ status[l] # "converted" /\ ~ Claimed(l)
       /\ SetStatus(l, "converted")
       /\ Continue(p, Begin(p, "convert", "claimed", l))
  /\ UNCHANGED <<promised, deals, diary>>

ClaimLead_ReadFirst(p) ==  \* mutation: the status is read before the row is locked
  /\ At(p, "idle")
  /\ \E l \in Leads :
       /\ lead[l] = "live" /\ status[l] # "converted"
       /\ Continue(p, Begin(p, "convert", "claimed", l))
  /\ UNCHANGED <<leads, deals, diary>>

(* The UPDATE that makes the lead this call's: nobody sees it before the   *)
(* commit, and the row stays locked until then.                            *)
ClaimLead(p) ==
  /\ At(p, "idle")
  /\ \E l \in Leads :
       /\ lead[l] = "live" /\ status[l] # "converted" /\ ~ Claimed(l)
       /\ Continue(p, Begin(p, "convert", "claimed", l))
  /\ UNCHANGED <<leads, deals, diary>>

(* That UPDATE finds no row to change.                                     *)
MissLead(p) ==
  /\ At(p, "idle")
  /\ \E l \in Leads :
       /\ ~ Claimed(l)
       /\ lead[l] = "deleted" \/ (lead[l] = "live" /\ status[l] = "converted")
       /\ Continue(p, Begin(p, "convert", "missed", l))
  /\ UNCHANGED <<leads, deals, diary>>

ExplainMiss_AnyRow(p) ==  \* mutation: no filter on deleted_at
  /\ At(p, "missed")
  /\ Goto(p, IF status[req[p].lead] = "converted" THEN "already" ELSE "missing")
  /\ UNCHANGED <<leads, deals, diary>>

(* A second look, at what has been committed by now.                       *)
ExplainMiss(p) ==
  LET l == req[p].lead IN
  /\ At(p, "missed")
  /\ Goto(p, IF lead[l] = "live" /\ status[l] = "converted" THEN "already" ELSE "missing")
  /\ UNCHANGED <<leads, deals, diary>>

(* The deal is inserted and the transaction commits.                       *)
CommitConversion(p) ==
  LET l == req[p].lead IN
  /\ At(p, "claimed")
  /\ \E d \in Deals :
       /\ deal[d] = "absent"
       /\ deal' = [deal EXCEPT ![d] = "live"]
       /\ pointer' = [pointer EXCEPT ![d] = l]
  /\ linked' = linked \cup {l}
  /\ status' = [status EXCEPT ![l] = "converted"]
  /\ claims' = [claims EXCEPT ![l] = @ + 1]
  /\ promised' = [promised EXCEPT ![l] = FALSE]
  /\ ContinueWriting(p, [req[p] EXCEPT !.pc = "converted"], l)
  /\ UNCHANGED <<lead, diary>>

(* Any statement after the claim may fail: everything is rolled back.      *)
Fail(p) ==
  /\ At(p, "claimed")
  /\ Goto(p, "failed")
  /\ UNCHANGED <<leads, deals, diary>>

-----------------------------------------------------------------------------
(* The board: a deal saved with or without a lead on it.                   *)

Linkable == {l \in Leads : lead[l] # "absent"}

CreateDeal(p) ==
  /\ At(p, "idle")
  /\ \E d \in Deals, l \in Linkable \cup {None} :
       /\ deal[d] = "absent"
       /\ deal' = [deal EXCEPT ![d] = "live"]
       /\ pointer' = [pointer EXCEPT ![d] = l]
       /\ linked' = linked \cup ({l} \ {None})
       /\ Continue(p, [Begin(p, "deal", "written", l) EXCEPT !.deal = d])
  /\ UNCHANGED <<leads, diary>>

UpdateDeal(p) ==
  /\ At(p, "idle")
  /\ \E d \in Deals, l \in Linkable \cup {None} :
       /\ deal[d] = "live"
       /\ pointer' = [pointer EXCEPT ![d] = l]
       /\ linked' = linked \cup ({l} \ {None})
       /\ Continue(p, [Begin(p, "deal", "written", l) EXCEPT !.deal = d])
  /\ UNCHANGED <<leads, deal, diary>>

(* The deal is read back; a retired one ends the call before its lead is   *)
(* marked.                                                                 *)
GetDeal(p) ==
  /\ At(p, "written")
  /\ Goto(p, IF deal[req[p].deal] = "live" THEN "read" ELSE "failed")
  /\ UNCHANGED <<leads, deals, diary>>

MarkLead_KeepsOutcomes(p) ==  \* mutation: the backfill's condition
  LET l == req[p].lead IN
  /\ At(p, "read")
  /\ l # None => ~ Claimed(l)
  /\ IF l # None /\ lead[l] = "live" /\ status[l] \notin {"converted", "closed", "not interested"}
       THEN /\ SetStatus(l, "converted")
            /\ promised' = [promised EXCEPT ![l] = FALSE]
            /\ ContinueWriting(p, [req[p] EXCEPT !.pc = "saved", !.touched = FALSE], l)
       ELSE /\ Continue(p, [req[p] EXCEPT !.pc = "saved", !.touched = FALSE])
            /\ UNCHANGED leads
  /\ UNCHANGED <<deals, diary>>

(* markLeadConverted.                                                      *)
MarkLead(p) ==
  LET l == req[p].lead IN
  /\ At(p, "read")
  /\ l # None => ~ Claimed(l)
  /\ IF l # None /\ lead[l] = "live" /\ status[l] # "converted"
       THEN /\ SetStatus(l, "converted")
            /\ promised' = [promised EXCEPT ![l] = FALSE]
            /\ ContinueWriting(p, [req[p] EXCEPT !.pc = "saved", !.touched = FALSE], l)
       ELSE /\ Continue(p, [req[p] EXCEPT !.pc = "saved", !.touched = FALSE])
            /\ UNCHANGED leads
  /\ UNCHANGED <<deals, diary>>

(* It fails, and nobody is told.                                           *)
MarkFails(p) ==
  /\ At(p, "read") /\ req[p].lead # None
  /\ Continue(p, [req[p] EXCEPT !.pc = "saved", !.failed = TRUE])
  /\ UNCHANGED <<leads, deals, diary>>

RetireDeal ==
  \E d \in Deals :
    /\ deal[d] = "live"
    /\ deal' = [deal EXCEPT ![d] = "retired"]
    /\ UNCHANGED <<leads, pointer, linked, diary, req>>

-----------------------------------------------------------------------------
Answers == {"moved", "refused", "already", "missing", "converted", "failed", "saved"}

Answer(p) ==
  /\ req[p].pc \in Answers
  /\ Continue(p, Idle)
  /\ UNCHANGED <<leads, deals, diary>>

Next ==
  \/ CreateLead \/ EditLead \/ DeleteLead \/ RetireDeal
  \/ \E p \in Requests :
       \/ BeginAdvance(p) \/ BookCall(p) \/ BookingRefused(p)
       \/ AdvanceStage(p) \/ AdvanceRefused(p)
       \/ ClaimLead(p) \/ MissLead(p) \/ ExplainMiss(p) \/ CommitConversion(p) \/ Fail(p)
       \/ CreateDeal(p) \/ UpdateDeal(p) \/ GetDeal(p) \/ MarkLead(p) \/ MarkFails(p)
       \/ Answer(p)

Spec == Init /\ [][Next]_vars

-----------------------------------------------------------------------------
Calls ==
  [pc : {"idle", "booking", "ready", "claimed", "missed", "written", "read"} \cup Answers,
   op : {"none", "advance", "convert", "deal"},
   lead : Leads \cup {None}, deal : Deals \cup {None},
   to : Stages \cup {"converted", None}, meeting : BOOLEAN,
   found : Stages \cup {"converted", None}, touched : BOOLEAN, failed : BOOLEAN]

(* The tables and the calls keep their types, and a deal points at a row.  *)
TypeOK ==
  /\ lead \in [Leads -> {"absent", "live", "deleted"}]
  /\ status \in [Leads -> Stages \cup {"converted", None}]
  /\ deal \in [Deals -> {"absent", "live", "retired"}]
  /\ pointer \in [Deals -> Leads \cup {None}]
  /\ diary \in [Leads -> 0..MaxMeetings]
  /\ req \in [Requests -> Calls]
  /\ linked \subseteq Leads
  /\ claims \in [Leads -> Nat]
  /\ promised \in [Leads -> BOOLEAN]
  /\ \A d \in Deals : pointer[d] # None => lead[pointer[d]] # "absent"

(* A lead reads "converted" only once some committed deal has pointed at   *)
(* it: a conversion that fails half way leaves no trace, and no form can   *)
(* choose that stage (convert's claim and deal are one transaction;        *)
(* ValidStage).                                                            *)
ConvertedHasDeal ==
  \A l \in Leads : status[l] = "converted" => l \in linked

(* However many people press Convert at once, a lead yields one deal until *)
(* somebody takes it out of "converted" by hand (the claim's status <>     *)
(* 'converted', looked at again after waiting for the row).                *)
ConvertedOnce ==
  \A l \in Leads : claims[l] <= (IF status[l] = "converted" THEN 1 ELSE 0)

(* What a conversion saw when it claimed the lead still holds when it      *)
(* commits: nobody deletes, edits, advances or converts the lead between.  *)
ClaimHolds ==
  [][\A p \in Requests : At(p, "claimed") /\ req'[p].pc = "converted" =>
       lead[req[p].lead] = "live" /\ status[req[p].lead] # "converted"]_vars

(* What a refused conversion says is so: "already converted" of a lead     *)
(* that has produced a deal and, if no other call wrote it meanwhile, is   *)
(* there and reads converted; "no such lead", under the same proviso, of   *)
(* one that is gone (explainConvertMiss looks a second time).              *)
RefusalIsTrue ==
  \A p \in Requests :
    LET l == req[p].lead IN
    /\ At(p, "already") => /\ l \in linked
                           /\ req[p].touched \/ (lead[l] = "live" /\ status[l] = "converted")
    /\ At(p, "missing") => req[p].touched \/ lead[l] # "live"

(* The meeting comes before the stage: a stage set by a call that asked    *)
(* for a meeting has one in the diary, and when Google refuses nothing has *)
(* changed (the comment in Handler.advance).                               *)
MeetingFirst ==
  /\ \A l \in Leads : promised[l] => diary[l] > 0
  /\ \A p \in Requests :
       At(p, "refused") /\ req[p].meeting /\ ~ req[p].touched =>
         status[req[p].lead] = req[p].found

(* A deal saved with a lead on it leaves that lead converted, whatever was *)
(* done to the lead while the call ran, unless the update that says so     *)
(* failed or another call wrote the lead after it (markLeadConverted).     *)
SavedLinkConverts ==
  \A p \in Requests :
    At(p, "saved") /\ req[p].lead # None /\ ~ req[p].failed /\ ~ req[p].touched =>
      status[req[p].lead] = "converted" \/ lead[req[p].lead] = "deleted"

(* A lead becomes a deal once, by a conversion that kept its claim or a    *)
(* deal that was saved with it, and is called converted because of that    *)
(* deal.                                                                   *)
ConversionsHold ==
  /\ [](ConvertedHasDeal /\ ConvertedOnce /\ SavedLinkConverts)
  /\ ClaimHolds

(* What a caller is told of a lead was so: why it cannot be converted, and *)
(* that its meeting was booked for the stage it is in.                     *)
AnswersAreTrue == RefusalIsTrue /\ MeetingFirst
=============================================================================
