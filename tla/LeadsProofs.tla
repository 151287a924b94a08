---------------------------- MODULE LeadsProofs ----------------------------
(***************************************************************************)
(* Leads for any number of leads, deals and calls.  The invariant says     *)
(* what each call in flight knows of its lead (Sound): a claim pins what   *)
(* it saw, anything else a call has read is only as good as its touched    *)
(* flag.  Two kinds of step are enough to keep it: those that leave the    *)
(* leads alone (Quiet) and those that write one of them (Writing).         *)
(***************************************************************************)
EXTENDS Leads, TLAPS

Knows == {"booking", "ready", "claimed", "missed", "moved", "refused", "already", "missing"}

(* What call record r knows of its lead.                                   *)
Sound(r) ==
  /\ r.lead # None => lead[r.lead] # "absent"
  /\ r.pc \in Knows => r.lead # None
  /\ r.pc \in {"written", "read"} /\ r.lead # None => r.lead \in linked
  /\ r.pc = "claimed" => lead[r.lead] = "live" /\ status[r.lead] # "converted"
  /\ r.pc = "missed" /\ ~ r.touched =>
       lead[r.lead] = "deleted" \/ (lead[r.lead] = "live" /\ status[r.lead] = "converted")
  /\ r.pc = "already" =>
       /\ r.lead \in linked
       /\ r.touched \/ (lead[r.lead] = "live" /\ status[r.lead] = "converted")
  /\ r.pc = "missing" => r.touched \/ lead[r.lead] # "live"
  /\ r.pc \in {"booking", "ready", "refused"} /\ ~ r.touched => status[r.lead] = r.found
  /\ r.pc = "ready" /\ r.meeting => diary[r.lead] > 0
  /\ r.pc = "saved" /\ r.lead # None /\ ~ r.failed /\ ~ r.touched =>
       status[r.lead] = "converted" \/ lead[r.lead] = "deleted"

CallInv == \A p \in Requests : Sound(req[p])

OneClaim ==
  \A p, q \in Requests :
    At(p, "claimed") /\ At(q, "claimed") /\ req[p].lead = req[q].lead => p = q

LeadInv ==
  /\ ConvertedHasDeal
  /\ ConvertedOnce
  /\ \A l \in Leads : promised[l] => diary[l] > 0
  /\ \A l \in Leads : lead[l] = "absent" => status[l] = None

IInv == TypeOK /\ CallInv /\ OneClaim /\ LeadInv

LEMMA InitIInv == Init => IInv
<1> SUFFICES ASSUME Init PROVE IInv
  OBVIOUS
<1> USE LeadsAssumption DEF Init, Idle
<1>1. TypeOK
  BY DEF TypeOK, Calls
<1>2. CallInv
  BY DEF CallInv, Sound, Knows
<1>3. OneClaim
  BY DEF OneClaim, At
<1>4. LeadInv
  BY DEF LeadInv, ConvertedHasDeal, ConvertedOnce
<1> QED
  BY <1>1, <1>2, <1>3, <1>4 DEF IInv

(* A call takes a step and leaves the leads alone; a meeting may be added. *)
LEMMA Quiet ==
  ASSUME IInv, NEW p \in Requests, NEW r \in Calls,
         Continue(p, r), UNCHANGED leads,
         deal' \in [Deals -> {"absent", "live", "retired"}],
         pointer' \in [Deals -> Leads \cup {None}],
         \A d \in Deals : pointer'[d] # None => lead[pointer'[d]] # "absent",
         linked \subseteq linked', linked' \subseteq Leads,
         diary' \in [Leads -> 0..MaxMeetings],
         \A l \in Leads : diary[l] <= diary'[l],
         Sound(r)',
         r.pc = "claimed" => ~ Claimed(r.lead)
  PROVE  IInv'
<1> USE DEF Continue, leads
<1>1. TypeOK'
  BY DEF IInv, TypeOK
<1>2. CallInv'
  <2> SUFFICES ASSUME NEW q \in Requests PROVE Sound(req[q])'
    BY DEF CallInv
  <2>1. CASE q = p
    BY <2>1 DEF IInv, TypeOK
  <2>2. CASE q # p
    <3>1. req'[q] = req[q] /\ req[q] \in Calls /\ Sound(req[q])
      BY <2>2 DEF IInv, TypeOK, CallInv
    <3>2. req[q].lead \in Leads => diary[req[q].lead] <= diary'[req[q].lead]
                                   /\ diary[req[q].lead] \in Nat /\ diary'[req[q].lead] \in Nat
      BY LeadsAssumption DEF IInv, TypeOK
    <3> QED
      BY <3>1, <3>2 DEF Sound, Knows, Calls
  <2> QED
    BY <2>1, <2>2
<1>3. OneClaim'
  BY DEF IInv, TypeOK, OneClaim, At, Claimed
<1>4. LeadInv'
  BY LeadsAssumption DEF IInv, TypeOK, LeadInv, ConvertedHasDeal, ConvertedOnce
<1> QED
  BY <1>1, <1>2, <1>3, <1>4 DEF IInv

(* The same, with nothing but the call itself moving.                      *)
LEMMA Thinking ==
  ASSUME IInv, NEW p \in Requests, NEW r \in Calls,
         Continue(p, r), UNCHANGED <<leads, deals, diary>>,
         Sound(r), r.pc = "claimed" => ~ Claimed(r.lead)
  PROVE  IInv'
<1>1. UNCHANGED leads /\ deal' = deal /\ pointer' = pointer /\ linked' = linked /\ diary' = diary
  BY DEF deals
<1>2. Sound(r)'
  BY <1>1 DEF leads, Sound
<1>3. /\ deal' \in [Deals -> {"absent", "live", "retired"}]
      /\ pointer' \in [Deals -> Leads \cup {None}]
      /\ \A d \in Deals : pointer'[d] # None => lead[pointer'[d]] # "absent"
      /\ linked \subseteq linked' /\ linked' \subseteq Leads
      /\ diary' \in [Leads -> 0..MaxMeetings]
  BY <1>1 DEF IInv, TypeOK
<1>4. \A l \in Leads : diary[l] <= diary'[l]
  BY <1>1, LeadsAssumption DEF IInv, TypeOK
<1> QED
  BY <1>1, <1>2, <1>3, <1>4, Quiet

LEMMA WroteTyped ==
  ASSUME TypeOK, NEW l \in Leads, NEW q \in Requests
  PROVE  Wrote(l, q) \in Calls
<1>1. req[q] \in Calls
  BY DEF TypeOK
<1>2. [req[q] EXCEPT !.touched = TRUE] \in Calls
  BY <1>1 DEF Calls
<1> QED
  BY <1>1, <1>2 DEF Wrote

(* The row of lead m is written, by nobody or by call p, which goes on as  *)
(* r.  The claim on it, if any, is p's and ends here.                      *)
LEMMA Writing ==
  ASSUME IInv, NEW m \in Leads, TypeOK', LeadInv',
         \A l \in Leads \ {m} : lead'[l] = lead[l] /\ status'[l] = status[l],
         lead[m] # "absent" => lead'[m] # "absent",
         linked \subseteq linked', diary' = diary,
         \A q \in Requests : req'[q] = Wrote(m, q) \/ (Sound(req[q])' /\ req'[q].pc # "claimed"),
         \A q \in Requests : At(q, "claimed") /\ req[q].lead = m => req'[q].pc # "claimed"
  PROVE  IInv'
<1>1. CallInv'
  <2> SUFFICES ASSUME NEW q \in Requests, req'[q] = Wrote(m, q) PROVE Sound(req[q])'
    BY DEF CallInv
  <2>1. req[q] \in Calls /\ Sound(req[q])
    BY DEF IInv, TypeOK, CallInv
  <2>2. CASE req[q].lead = m /\ ~ At(q, "idle")
    <3>1. req'[q] = [req[q] EXCEPT !.touched = TRUE]
      BY <2>2 DEF Wrote
    <3> QED
      BY <2>1, <2>2, <3>1 DEF Sound, Knows, Calls, At
  <2>3. CASE ~ (req[q].lead = m /\ ~ At(q, "idle"))
    <3>1. req'[q] = req[q]
      BY <2>3 DEF Wrote
    <3> QED
      BY <2>1, <2>3, <3>1 DEF Sound, Knows, Calls, At
  <2> QED
    BY <2>2, <2>3
<1>2. OneClaim'
  <2>1. \A q \in Requests : req'[q].pc = "claimed" =>
           req[q].pc = "claimed" /\ req'[q].lead = req[q].lead
    BY DEF Wrote, IInv, TypeOK, Calls
  <2> QED
    BY <2>1 DEF OneClaim, At, IInv
<1> QED
  BY <1>1, <1>2 DEF IInv

(* A stage chosen by hand, written to one row.                             *)
LEMMA Chosen_ByHand ==
  ASSUME IInv, NEW l \in Leads, NEW s \in Stages, SetStatus(l, s),
         NEW b \in BOOLEAN, promised' = [promised EXCEPT ![l] = b], b => diary[l] > 0,
         lead[l] = "live", UNCHANGED <<deals, diary>>, req' \in [Requests -> Calls]
  PROVE  /\ TypeOK'
         /\ LeadInv'
         /\ status'[l] = s
         /\ lead' = lead
         /\ \A m \in Leads \ {l} : status'[m] = status[m]
<1> USE LeadsAssumption DEF IInv, TypeOK, SetStatus, deals
<1>1. s # "converted" /\ s # None /\ lead' = lead
  BY DEF Stages
<1>2. status' = [status EXCEPT ![l] = s] /\ claims' = [claims EXCEPT ![l] = 0]
  BY <1>1
<1>3. TypeOK'
  BY <1>1, <1>2
<1>4. LeadInv'
  BY <1>1, <1>2 DEF LeadInv, ConvertedHasDeal, ConvertedOnce
<1> QED
  BY <1>1, <1>2, <1>3, <1>4

(* The steps that are nobody's call.                                       *)
LEMMA FormStep ==
  ASSUME IInv, CreateLead \/ EditLead \/ DeleteLead \/ RetireDeal
  PROVE  IInv'
<1> USE LeadsAssumption DEF IInv, TypeOK, deals, LeadInv, ConvertedHasDeal, ConvertedOnce
<1>1. CASE CreateLead
  <2>1. PICK l \in Leads, s \in Chosen :
          /\ lead[l] = "absent"
          /\ lead' = [lead EXCEPT ![l] = "live"]
          /\ status' = [status EXCEPT ![l] = s]
          /\ UNCHANGED <<claims, promised, deals, diary, req>>
    BY <1>1 DEF CreateLead
  <2>2. s \in Stages
    OBVIOUS
  <2>3. TypeOK'
    BY <2>1, <2>2
  <2>4. LeadInv'
    BY <2>1, <2>2 DEF Stages
  <2>5. ASSUME NEW q \in Requests PROVE Sound(req[q])' /\ (At(q, "claimed") => req[q].lead # l)
    <3>1. req[q] \in Calls /\ Sound(req[q])
      BY DEF CallInv
    <3>2. req[q].lead # l
      BY <2>1, <3>1, <2>2 DEF Sound
    <3> QED
      BY <2>1, <3>1, <3>2 DEF Sound, Knows, Calls
  <2> QED
    BY <2>1, <2>3, <2>4, <2>5 DEF CallInv, OneClaim, At
<1>2. CASE EditLead
  <2>1. PICK l \in Leads, s \in Chosen :
          /\ lead[l] = "live" /\ ~ Claimed(l)
          /\ SetStatus(l, s)
          /\ promised' = [promised EXCEPT ![l] = FALSE]
          /\ req' = [q \in Requests |-> Wrote(l, q)]
          /\ UNCHANGED <<deals, diary>>
    BY <1>2 DEF EditLead
  <2>2. req' \in [Requests -> Calls]
    BY <2>1, WroteTyped
  <2>3. TypeOK' /\ LeadInv' /\ lead' = lead /\ \A m \in Leads \ {l} : status'[m] = status[m]
    BY <2>1, <2>2, Chosen_ByHand
  <2> QED
    BY <2>1, <2>3, Writing DEF Claimed
<1>3. CASE DeleteLead
  <2>1. PICK l \in Leads :
          /\ lead[l] = "live" /\ ~ Claimed(l)
          /\ lead' = [lead EXCEPT ![l] = "deleted"]
          /\ req' = [q \in Requests |-> Wrote(l, q)]
          /\ UNCHANGED <<status, claims, promised, deals, diary>>
    BY <1>3 DEF DeleteLead
  <2>2. req' \in [Requests -> Calls]
    BY <2>1, WroteTyped
  <2>3. TypeOK'
    BY <2>1, <2>2
  <2>4. LeadInv'
    BY <2>1
  <2> QED
    BY <2>1, <2>3, <2>4, Writing DEF Claimed
<1>4. CASE RetireDeal
  <2>1. UNCHANGED <<leads, pointer, linked, diary, req>>
        /\ deal' \in [Deals -> {"absent", "live", "retired"}]
    BY <1>4 DEF RetireDeal
  <2> QED
    BY <2>1 DEF leads, CallInv, OneClaim, At, Sound
<1> QED
  BY <1>1, <1>2, <1>3, <1>4

(* Booking a meeting and moving the stage.                                 *)
LEMMA AdvanceStep ==
  ASSUME IInv, NEW p \in Requests,
         BeginAdvance(p) \/ BookCall(p) \/ BookingRefused(p)
           \/ AdvanceStage(p) \/ AdvanceRefused(p)
  PROVE  IInv'
<1> USE LeadsAssumption DEF IInv, TypeOK, deals
<1>0. req[p] \in Calls /\ Sound(req[p])
  BY SMTT(60) DEF CallInv
<1>1. CASE BeginAdvance(p)
  <2>1. PICK l \in Leads, s \in Chosen \cup {"converted"}, meeting \in BOOLEAN :
          /\ lead[l] # "absent"
          /\ Continue(p, [Begin(p, "advance", IF meeting THEN "booking" ELSE "ready", l)
                            EXCEPT !.to = s, !.meeting = meeting, !.found = status[l]])
    BY <1>1 DEF BeginAdvance
  <2>2. PICK r : r = [Begin(p, "advance", IF meeting THEN "booking" ELSE "ready", l)
                        EXCEPT !.to = s, !.meeting = meeting, !.found = status[l]]
    OBVIOUS
  <2>3. r \in Calls
    BY <2>2, ZenonT(60) DEF Calls, Begin, Idle, Answers
  <2>4. Sound(r) /\ r.pc # "claimed"
    BY <2>1, <2>2 DEF Sound, Knows, Begin, Idle
  <2> QED
    BY <1>1, <2>1, <2>2, <2>3, <2>4, Thinking DEF BeginAdvance
<1>2. CASE BookCall(p)
  <2>1. PICK r \in Calls : r = [req[p] EXCEPT !.pc = "ready"]
    BY <1>0 DEF Calls
  <2>2. PICK l \in Leads : l = req[p].lead
    BY <1>0, <1>2 DEF BookCall, Calls, Sound, Knows, At
  <2>3. /\ Continue(p, r) /\ UNCHANGED leads /\ UNCHANGED deals
        /\ diary' = [diary EXCEPT ![l] = @ + 1] /\ diary[l] < MaxMeetings
    BY <1>2, <2>1, <2>2 DEF BookCall, Goto
  <2>4. diary' \in [Leads -> 0..MaxMeetings] /\ diary'[l] > 0
        /\ \A m \in Leads : diary[m] <= diary'[m]
    BY <2>3
  <2>5. /\ r.pc = "ready" /\ r.lead = l /\ r.touched = req[p].touched
        /\ r.found = req[p].found
    BY <1>0, <2>1, <2>2 DEF Calls
  <2>6. Sound(r)'
    BY <1>0, <1>2, <2>2, <2>3, <2>4, <2>5 DEF BookCall, Sound, Knows, At, leads
  <2> QED
    BY <2>3, <2>4, <2>5, <2>6, Quiet
<1>3. CASE BookingRefused(p) \/ AdvanceRefused(p)
  <2>1. PICK r \in Calls : r = [req[p] EXCEPT !.pc = "refused"]
    BY <1>0 DEF Calls, Answers
  <2>2. /\ r.pc = "refused" /\ r.lead = req[p].lead /\ r.touched = req[p].touched
        /\ r.found = req[p].found
    BY <1>0, <2>1 DEF Calls
  <2>3. /\ Continue(p, r) /\ UNCHANGED <<leads, deals, diary>>
        /\ req[p].pc \in {"booking", "ready"}
    BY <1>3, <2>1 DEF BookingRefused, AdvanceRefused, Goto, At
  <2>4. Sound(r)
    BY <1>0, <2>2, <2>3 DEF Sound, Knows
  <2> QED
    BY <2>2, <2>3, <2>4, Thinking
<1>4. CASE AdvanceStage(p)
  <2>1. PICK l \in Leads : l = req[p].lead
    BY <1>0, <1>4 DEF AdvanceStage, Calls, Sound, Knows, At
  <2>2. PICK s \in Stages : s = req[p].to
    BY <1>4 DEF AdvanceStage
  <2>3. PICK r \in Calls : r = [req[p] EXCEPT !.pc = "moved"]
    BY <1>0 DEF Calls, Answers
  <2>4. /\ lead[l] = "live" /\ ~ Claimed(l) /\ SetStatus(l, s)
        /\ promised' = [promised EXCEPT ![l] = req[p].meeting]
        /\ req' = [q \in Requests |-> IF q = p THEN r ELSE Wrote(l, q)]
        /\ UNCHANGED <<deals, diary>>
    BY <1>4, <2>1, <2>2, <2>3 DEF AdvanceStage, ContinueWriting
  <2>5. req[p].meeting \in BOOLEAN /\ (req[p].meeting => diary[l] > 0)
    BY <1>0, <1>4, <2>1 DEF AdvanceStage, At, Sound, Calls
  <2>6. req' \in [Requests -> Calls]
    BY <2>4, WroteTyped
  <2>7. TypeOK' /\ LeadInv' /\ lead' = lead /\ \A m \in Leads \ {l} : status'[m] = status[m]
    BY <2>4, <2>5, <2>6, Chosen_ByHand
  <2>8. Sound(r)' /\ r.pc # "claimed"
    BY <1>0, <2>1, <2>3, <2>4, <2>7 DEF Sound, Knows, Calls
  <2>9. \A q \in Requests : /\ req'[q] = Wrote(l, q) \/ (Sound(req[q])' /\ req'[q].pc # "claimed")
                            /\ ~ (At(q, "claimed") /\ req[q].lead = l)
    BY <2>4, <2>8 DEF Claimed
  <2> QED
    BY <2>4, <2>7, <2>9, Writing
<1> QED
  BY <1>1, <1>2, <1>3, <1>4

(* A stage that no form can choose, written to one row: the lead has its   *)
(* deal by then.                                                           *)
LEMMA Converting ==
  ASSUME IInv, NEW l \in Leads, lead[l] = "live", status[l] # "converted",
         lead' = lead, status' = [status EXCEPT ![l] = "converted"],
         claims' = claims \/ claims' = [claims EXCEPT ![l] = @ + 1],
         promised' = [promised EXCEPT ![l] = FALSE],
         deal' \in [Deals -> {"absent", "live", "retired"}],
         pointer' \in [Deals -> Leads \cup {None}],
         \A d \in Deals : pointer'[d] \in {pointer[d], l},
         linked \subseteq linked', linked' \subseteq Leads, l \in linked',
         diary' = diary, req' \in [Requests -> Calls]
  PROVE  TypeOK' /\ LeadInv'
<1> USE LeadsAssumption DEF IInv, TypeOK
<1>1. claims[l] = 0
  BY DEF LeadInv, ConvertedOnce
<1>2. TypeOK'
  OBVIOUS
<1>3. LeadInv'
  BY <1>1 DEF LeadInv, ConvertedHasDeal, ConvertedOnce
<1> QED
  BY <1>2, <1>3

(* Converting a lead.                                                      *)
LEMMA ConvertStep ==
  ASSUME IInv, NEW p \in Requests,
         ClaimLead(p) \/ MissLead(p) \/ ExplainMiss(p) \/ CommitConversion(p) \/ Fail(p)
  PROVE  IInv'
<1> USE LeadsAssumption DEF IInv, TypeOK
<1>0. req[p] \in Calls /\ Sound(req[p])
  BY DEF CallInv
<1>1. CASE ClaimLead(p)
  <2>1. PICK l \in Leads :
          /\ lead[l] = "live" /\ status[l] # "converted" /\ ~ Claimed(l)
          /\ Continue(p, Begin(p, "convert", "claimed", l))
    BY <1>1 DEF ClaimLead
  <2>2. PICK r : r = Begin(p, "convert", "claimed", l)
    OBVIOUS
  <2>3. r \in Calls /\ r.lead = l
    BY <2>2 DEF Calls, Begin, Idle
  <2>4. Sound(r)
    BY <2>1, <2>2 DEF Sound, Knows, Begin, Idle
  <2> QED
    BY <1>1, <2>1, <2>2, <2>3, <2>4, Thinking DEF ClaimLead
<1>2. CASE MissLead(p)
  <2>1. PICK l \in Leads :
          /\ lead[l] = "deleted" \/ (lead[l] = "live" /\ status[l] = "converted")
          /\ Continue(p, Begin(p, "convert", "missed", l))
    BY <1>2 DEF MissLead
  <2>2. PICK r : r = Begin(p, "convert", "missed", l)
    OBVIOUS
  <2>3. r \in Calls /\ r.pc # "claimed"
    BY <2>2 DEF Calls, Begin, Idle
  <2>4. Sound(r)
    BY <2>1, <2>2 DEF Sound, Knows, Begin, Idle
  <2> QED
    BY <1>2, <2>1, <2>2, <2>3, <2>4, Thinking DEF MissLead
<1>3. CASE ExplainMiss(p)
  <2>1. PICK l \in Leads : l = req[p].lead
    BY <1>0, <1>3 DEF ExplainMiss, Calls, Sound, Knows, At
  <2>2. PICK a \in {"already", "missing"} :
          a = IF lead[l] = "live" /\ status[l] = "converted" THEN "already" ELSE "missing"
    OBVIOUS
  <2>3. PICK r \in Calls : r = [req[p] EXCEPT !.pc = a]
    BY <1>0, ZenonT(60) DEF Calls, Answers
  <2>4. r.pc = a /\ r.lead = l /\ r.touched = req[p].touched
    BY <1>0, <2>1, <2>3 DEF Calls
  <2>5. Continue(p, r) /\ UNCHANGED <<leads, deals, diary>> /\ req[p].pc = "missed"
    BY <1>3, <2>1, <2>2, <2>3 DEF ExplainMiss, Goto, At
  <2>6. Sound(r)
    BY <1>0, <2>1, <2>2, <2>4, <2>5 DEF Sound, Knows, LeadInv, ConvertedHasDeal
  <2> QED
    BY <2>4, <2>5, <2>6, Thinking
<1>4. CASE CommitConversion(p)
  <2>1. PICK l \in Leads : l = req[p].lead
    BY <1>0, <1>4 DEF CommitConversion, Calls, Sound, Knows, At
  <2>2. PICK r \in Calls : r = [req[p] EXCEPT !.pc = "converted"]
    BY <1>0 DEF Calls, Answers
  <2>3. r.pc = "converted" /\ r.lead = l
    BY <1>0, <2>1, <2>2 DEF Calls
  <2>4. lead[l] = "live" /\ status[l] # "converted" /\ At(p, "claimed")
    BY <1>0, <1>4, <2>1 DEF CommitConversion, Sound, At
  <2>5. /\ linked' = linked \cup {l}
        /\ status' = [status EXCEPT ![l] = "converted"]
        /\ claims' = [claims EXCEPT ![l] = @ + 1]
        /\ promised' = [promised EXCEPT ![l] = FALSE]
        /\ lead' = lead /\ diary' = diary
        /\ req' = [q \in Requests |-> IF q = p THEN r ELSE Wrote(l, q)]
    BY <1>4, <2>1, <2>2 DEF CommitConversion, ContinueWriting
  <2>6. PICK d \in Deals : deal' = [deal EXCEPT ![d] = "live"] /\ pointer' = [pointer EXCEPT ![d] = l]
    BY <1>4, <2>1 DEF CommitConversion
  <2>7. req' \in [Requests -> Calls]
    BY <2>5, WroteTyped
  <2>8. TypeOK' /\ LeadInv'
    BY <2>4, <2>5, <2>6, <2>7, Converting
  <2>9. Sound(r)'
    BY <2>3, <2>4, <2>5 DEF Sound, Knows
  <2>10. \A q \in Requests : /\ req'[q] = Wrote(l, q) \/ (Sound(req[q])' /\ req'[q].pc # "claimed")
                             /\ At(q, "claimed") /\ req[q].lead = l => req'[q].pc # "claimed"
    <3>1. ASSUME NEW q \in Requests, q # p PROVE req'[q] = Wrote(l, q) /\ ~ (At(q, "claimed") /\ req[q].lead = l)
      BY <2>1, <2>4, <2>5, <3>1 DEF OneClaim
    <3>2. req'[p] = r /\ Sound(req[p])' /\ req'[p].pc # "claimed"
      BY <2>3, <2>5, <2>9
    <3> TAKE q \in Requests
    <3>3. CASE q = p
      BY <3>2, <3>3
    <3>4. CASE q # p
      BY <3>1, <3>4
    <3> QED
      BY <3>3, <3>4
  <2>11. /\ \A m \in Leads \ {l} : lead'[m] = lead[m] /\ status'[m] = status[m]
         /\ lead'[l] # "absent" /\ linked \subseteq linked' /\ diary' = diary
    BY <2>4, <2>5
  <2>12. \A q \in Requests : req'[q] = Wrote(l, q) \/ (Sound(req[q])' /\ req'[q].pc # "claimed")
    BY <2>10
  <2>13. \A q \in Requests : At(q, "claimed") /\ req[q].lead = l => req'[q].pc # "claimed"
    BY <2>10
  <2> HIDE DEF IInv, TypeOK
  <2> QED
    BY <2>8, <2>11, <2>12, <2>13, Writing
<1>5. CASE Fail(p)
  <2>1. PICK r \in Calls : r = [req[p] EXCEPT !.pc = "failed"]
    BY <1>0 DEF Calls, Answers
  <2>2. r.pc = "failed" /\ r.lead = req[p].lead
    BY <1>0, <2>1 DEF Calls
  <2>3. Continue(p, r) /\ UNCHANGED <<leads, deals, diary>>
    BY <1>5, <2>1 DEF Fail, Goto
  <2>4. Sound(r)
    BY <1>0, <2>2 DEF Sound, Knows
  <2> QED
    BY <2>2, <2>3, <2>4, Thinking
<1> QED
  BY <1>1, <1>2, <1>3, <1>4, <1>5

(* Saving a deal, and answering.                                           *)
LEMMA DealStep ==
  ASSUME IInv, NEW p \in Requests,
         CreateDeal(p) \/ UpdateDeal(p) \/ GetDeal(p) \/ MarkLead(p) \/ MarkFails(p) \/ Answer(p)
  PROVE  IInv'
<1> USE LeadsAssumption DEF IInv, TypeOK
<1>0. req[p] \in Calls /\ Sound(req[p])
  BY DEF CallInv
<1>1. CASE CreateDeal(p) \/ UpdateDeal(p)
  <2>0. deal' \in [Deals -> {"absent", "live", "retired"}]
    <3>1. CASE CreateDeal(p)
      BY <3>1 DEF CreateDeal
    <3>2. CASE UpdateDeal(p)
      BY <3>2 DEF UpdateDeal
    <3> QED
      BY <1>1, <3>1, <3>2
  <2>1. PICK d \in Deals, l \in Linkable \cup {None} :
          /\ pointer' = [pointer EXCEPT ![d] = l]
          /\ linked' = linked \cup ({l} \ {None})
          /\ Continue(p, [Begin(p, "deal", "written", l) EXCEPT !.deal = d])
    <3> HIDE DEF IInv, TypeOK
    <3>1. CASE CreateDeal(p)
      BY <3>1, Zenon DEF CreateDeal
    <3>2. CASE UpdateDeal(p)
      BY <3>2, Zenon DEF UpdateDeal
    <3> QED
      BY <1>1, <3>1, <3>2
  <2>2. PICK r : r = [Begin(p, "deal", "written", l) EXCEPT !.deal = d]
    OBVIOUS
  <2>3. r \in Calls /\ r.pc = "written" /\ r.lead = l
    BY <2>1, <2>2 DEF Calls, Begin, Idle, Linkable
  <2>4. UNCHANGED leads /\ diary' = diary
    BY <1>1 DEF CreateDeal, UpdateDeal
  <2>5. Sound(r)'
    BY <2>1, <2>3, <2>4 DEF Sound, Knows, Linkable, leads
  <2>6. /\ pointer' \in [Deals -> Leads \cup {None}]
        /\ \A e \in Deals : pointer'[e] # None => lead[pointer'[e]] # "absent"
        /\ linked \subseteq linked' /\ linked' \subseteq Leads
    BY <2>1 DEF Linkable
  <2>7. diary' \in [Leads -> 0..MaxMeetings] /\ \A m \in Leads : diary[m] <= diary'[m]
    BY <2>4
  <2> QED
    BY <2>0, <2>1, <2>2, <2>3, <2>4, <2>5, <2>6, <2>7, Quiet
<1>2. CASE GetDeal(p)
  <2>1. PICK a \in {"read", "failed"} : Continue(p, [req[p] EXCEPT !.pc = a])
    BY <1>2 DEF GetDeal, Goto
  <2>2. PICK r \in Calls : r = [req[p] EXCEPT !.pc = a]
    BY <1>0, ZenonT(60) DEF Calls, Answers
  <2>3. r.pc = a /\ r.lead = req[p].lead
    BY <1>0, <2>2 DEF Calls
  <2>4. Sound(r)
    BY <1>0, <1>2, <2>3 DEF GetDeal, At, Sound, Knows
  <2> QED
    BY <1>2, <2>1, <2>2, <2>3, <2>4, Thinking DEF GetDeal
<1>3. CASE MarkLead(p)
  <2>1. PICK r \in Calls : r = [req[p] EXCEPT !.pc = "saved", !.touched = FALSE]
    BY <1>0, ZenonT(60) DEF Calls, Answers
  <2>2. r.pc = "saved" /\ r.lead = req[p].lead
    BY <1>0, <2>1 DEF Calls
  <2>3. CASE r.lead # None /\ lead[r.lead] = "live" /\ status[r.lead] # "converted"
    <3>1. PICK l \in Leads : l = req[p].lead /\ l # None
      BY <1>0, <2>2, <2>3 DEF Calls
    <3>2. /\ SetStatus(l, "converted")
          /\ promised' = [promised EXCEPT ![l] = FALSE]
          /\ req' = [q \in Requests |-> IF q = p THEN r ELSE Wrote(l, q)]
          /\ UNCHANGED <<deals, diary>>
          /\ ~ Claimed(l)
      BY <1>3, <2>1, <2>2, <2>3, <3>1 DEF MarkLead, ContinueWriting
    <3>3. l \in linked
      BY <1>0, <1>3, <3>1 DEF MarkLead, Sound, At
    <3>4. req' \in [Requests -> Calls]
      BY <3>2, WroteTyped
    <3>5. /\ status' = [status EXCEPT ![l] = "converted"] /\ claims' = claims /\ lead' = lead
          /\ deal' = deal /\ pointer' = pointer /\ linked' = linked /\ diary' = diary
      BY <3>2 DEF SetStatus, deals
    <3>6. TypeOK' /\ LeadInv'
      BY <2>2, <2>3, <3>1, <3>2, <3>3, <3>4, <3>5, Converting
    <3>7. Sound(r)'
      BY <2>2, <2>3, <3>1, <3>5 DEF Sound, Knows
    <3>8. \A q \in Requests : /\ req'[q] = Wrote(l, q) \/ (Sound(req[q])' /\ req'[q].pc # "claimed")
                              /\ ~ (At(q, "claimed") /\ req[q].lead = l)
      BY <2>2, <3>2, <3>7 DEF Claimed
    <3> QED
      BY <3>5, <3>6, <3>8, Writing
  <2>4. CASE ~ (r.lead # None /\ lead[r.lead] = "live" /\ status[r.lead] # "converted")
    <3>1. Continue(p, r) /\ UNCHANGED <<leads, deals, diary>>
      BY <1>3, <2>1, <2>2, <2>4 DEF MarkLead
    <3>2. r.lead \in Leads => lead[r.lead] \in {"absent", "live", "deleted"}
      OBVIOUS
    <3>3. Sound(r)
      BY <1>0, <2>2, <2>4, <3>2 DEF Sound, Knows, Calls
    <3> QED
      BY <2>2, <3>1, <3>3, Thinking
  <2> QED
    BY <2>3, <2>4
<1>4. CASE MarkFails(p)
  <2>1. PICK r \in Calls : r = [req[p] EXCEPT !.pc = "saved", !.failed = TRUE]
    BY <1>0, ZenonT(60) DEF Calls, Answers
  <2>2. r.pc = "saved" /\ r.lead = req[p].lead /\ r.failed
    BY <1>0, <2>1 DEF Calls
  <2>3. Sound(r)
    BY <1>0, <2>2 DEF Sound, Knows
  <2> QED
    BY <1>4, <2>1, <2>2, <2>3, Thinking DEF MarkFails
<1>5. CASE Answer(p)
  <2>1. Idle \in Calls /\ Idle.pc # "claimed" /\ Sound(Idle)
    BY DEF Idle, Calls, Sound, Knows
  <2> QED
    BY <1>5, <2>1, Thinking DEF Answer
<1> QED
  BY <1>1, <1>2, <1>3, <1>4, <1>5

LEMMA Inductive == IInv /\ [Next]_vars => IInv'
<1> SUFFICES ASSUME IInv, [Next]_vars PROVE IInv'
  OBVIOUS
<1>1. CASE Next
  BY <1>1, FormStep, AdvanceStep, ConvertStep, DealStep DEF Next
<1>2. CASE UNCHANGED vars
  BY <1>2 DEF vars, leads, deals, IInv, TypeOK, CallInv, Sound, OneClaim, At, LeadInv,
              ConvertedHasDeal, ConvertedOnce
<1> QED
  BY <1>1, <1>2

LEMMA Invariance == Spec => []IInv
BY InitIInv, Inductive, PTL DEF Spec

(* Every table and call keeps its type, and no deal points at a lead that  *)
(* was never stored.                                                       *)
THEOREM TypeCorrect == Spec => []TypeOK
<1>1. IInv => TypeOK
  BY DEF IInv
<1> QED
  BY Invariance, <1>1, PTL

(* Converted leads have had their deal (convert.go:129-263).               *)
THEOREM DealBehindConverted == Spec => []ConvertedHasDeal
<1>1. IInv => ConvertedHasDeal
  BY DEF IInv, LeadInv
<1> QED
  BY Invariance, <1>1, PTL

(* However many calls convert a lead at once, one does (convert.go:132).   *)
THEOREM OneConversion == Spec => []ConvertedOnce
<1>1. IInv => ConvertedOnce
  BY DEF IInv, LeadInv
<1> QED
  BY Invariance, <1>1, PTL

(* A claim holds until its transaction ends (the row lock of the UPDATE).  *)
THEOREM ClaimKept == Spec => ClaimHolds
<1>1. ASSUME IInv, NEW p \in Requests, At(p, "claimed")
      PROVE  lead[req[p].lead] = "live" /\ status[req[p].lead] # "converted"
  BY <1>1 DEF IInv, CallInv, Sound, At
<1>2. IInv => [\A p \in Requests : At(p, "claimed") /\ req'[p].pc = "converted" =>
                 lead[req[p].lead] = "live" /\ status[req[p].lead] # "converted"]_vars
  BY <1>1
<1> QED
  BY Invariance, <1>2, PTL DEF ClaimHolds

(* What a refused conversion was told is so (convert.go:288-304).          *)
THEOREM RefusalsTrue == Spec => []RefusalIsTrue
<1>1. IInv => RefusalIsTrue
  BY DEF IInv, CallInv, Sound, RefusalIsTrue, At
<1> QED
  BY Invariance, <1>1, PTL

(* The meeting is booked before the stage moves (handler.go:141-144).      *)
THEOREM MeetingsFirst == Spec => []MeetingFirst
<1>1. IInv => MeetingFirst
  BY DEF IInv, CallInv, LeadInv, Sound, MeetingFirst, At
<1> QED
  BY Invariance, <1>1, PTL

(* Saving a deal with a lead on it converts the lead (store.go:231-240).   *)
THEOREM LinksConvert == Spec => []SavedLinkConverts
<1>1. IInv => SavedLinkConverts
  BY DEF IInv, CallInv, Sound, SavedLinkConverts, At
<1> QED
  BY Invariance, <1>1, PTL

(* A lead is converted once, by whom its claim held for, and a deal is     *)
(* behind it (leads/convert.go:129, 238; deals/store.go:231).              *)
THEOREM ConversionsRight == Spec => ConversionsHold
<1>1. Spec => [](ConvertedHasDeal /\ ConvertedOnce /\ SavedLinkConverts)
  BY DealBehindConverted, OneConversion, LinksConvert, PTL
<1> QED
  BY <1>1, ClaimKept DEF ConversionsHold

(* What callers are told of a lead was so (leads/convert.go:288,           *)
(* leads/handler.go:158).                                                  *)
THEOREM AnswersRight == Spec => []AnswersAreTrue
  BY RefusalsTrue, MeetingsFirst, PTL DEF AnswersAreTrue
=============================================================================
