--------------------------- MODULE TrackerProofs ---------------------------
(***************************************************************************)
(* The deal board and the tracker for any number of deals, rows and calls. *)
(* What matters of a call in flight is what it may still rely on (Sound).  *)
(* A call that is alone is the only one in flight, so only its own steps   *)
(* bear on what it knows of both tables; of the calls that are not, all    *)
(* that is known survives every step (Keeps).  The sites of deals likewise *)
(* for any number of sites, deals and saves: while a save is the only one  *)
(* of its deal, what it cut, put and joined is what was chosen, and sites  *)
(* at places of their own have one order (OneOrder), hence one text.  And  *)
(* the import of a sheet, for any sheets and any number of imports: what a *)
(* transaction wrote covers what is committed (Covers), links each deal    *)
(* once, carries its lines and does not meet another (Parted).             *)
(***************************************************************************)
EXTENDS Pipeline, Sites, TrackerImport, FiniteSetTheorems, FunctionTheorems, SequenceTheorems,
        WellFoundedInduction, TLAPS

Said2   == (StoredStages \cup {None}) \X (Labels \cup asked.labels \cup {None})
Scans   == [client : Clients \cup {None}, site : Sites \cup {None}, found : SUBSET Rows]
Points  == {"idle", "written", "located", "read", "scanned", "ensured",
            "written-row", "pushed", "ok", "error"}
Ops     == {"none", "create", "save", "move", "convert", "edit"}
Calls   == [pc : Points, op : Ops, deal : Deals \cup {None},
            stage : StoredStages \cup {None}, site : Sites \cup {None},
            label : asked.labels \cup {None}, scan : Scans \cup {None},
            alone : BOOLEAN, cut : BOOLEAN, kept : Said2 \cup {None}]

Pushing == {"read", "scanned", "ensured"}
Editing == {"written-row", "pushed"}

(* The deal of a call that was answered without error has its row.         *)
Tracked(r) == deal[r.deal] = "retired" \/ r.cut \/ LinkedTo(r.deal) # {}

(* What a call that is alone knows of its deal and of the rows of it.      *)
Agreeing(r) ==
  /\ r.pc \in {"written", "located"} \cup Pushing \cup Editing => deal[r.deal] = "live"
  /\ r.pc \in Pushing => r.stage = stage[r.deal] /\ r.site = site[r.deal]
  /\ r.pc = "scanned" => LinkedTo(r.deal) = {}
  /\ \A w \in LinkedTo(r.deal) :
       /\ r.pc \in Editing => label[w] = r.label
       /\ r.pc = "written-row" => place[w] = r.site
       /\ r.pc = "pushed" => place[w] = site[r.deal]
       /\ r.pc = "ok" =>
            \/ InStep(r.deal, w)
            \/ /\ r.op = "edit" /\ place[w] = site[r.deal]
               /\ MapTrackerStageToDeal(label[w]) = None

(* What both sides said when a call began that only saves that again.      *)
Keeping(r) ==
  \E w \in LinkedTo(r.deal) :
    /\ r.kept = <<stage[r.deal], label[w]>>
    /\ label[w] \in trackerLabelsFor(stage[r.deal])
    /\ r.pc \in {"ok", "error"} => place[w] = site[r.deal]

Standing(r) ==
  /\ r.pc # "idle" => r.deal \in Deals /\ deal[r.deal] # "absent"
  /\ r.pc \in Pushing => r.stage \in StoredStages
  /\ r.pc = "scanned" => r.scan \in Scans
  /\ r.pc \in Editing => r.op = "edit"
  /\ r.pc \in {"ensured", "ok"} /\ r.op \in DealWrites => Tracked(r)
  /\ r.pc = "idle" => r = Idle

Sound(r) ==
  /\ Standing(r)
  /\ r.alone => Agreeing(r) /\ r.pc # "idle"
  /\ r.kept # None => r.alone /\ Keeping(r)

CallInv == \A p \in Requests : Sound(req[p])

OneAlone == \A p, q \in Requests : req[p].alone /\ q # p => req[q].pc = "idle"

IInv == TypeOK /\ req \in [Requests -> Calls] /\ OneRowPerDeal /\ CallInv /\ OneAlone

LEMMA InitIInv == Init => IInv
<1> SUFFICES ASSUME Init PROVE IInv
  OBVIOUS
<1> USE PipelineAssumption DEF Init
<1>1. TypeOK
  BY DEF TypeOK
<1>2. req \in [Requests -> Calls]
  BY DEF Calls, Idle, Points, Ops
<1>3. OneRowPerDeal
  BY DEF OneRowPerDeal
<1>4. CallInv
  BY DEF CallInv, Sound, Standing, Pushing, Editing, Idle
<1>5. OneAlone
  BY DEF OneAlone, Idle
<1> QED
  BY <1>1, <1>2, <1>3, <1>4, <1>5 DEF IInv

-----------------------------------------------------------------------------
(* A step that keeps what calls in flight rely on: a deal that was stored  *)
(* stays stored, and a row leaves it only when it is retired.              *)
Survives ==
  /\ asked' = asked
  /\ \A d \in Deals : deal[d] # "absent" => deal'[d] # "absent"
  /\ \A d \in Deals : deal[d] = "retired" => deal'[d] = "retired"
  /\ \A w \in Rows : link[w] \in Deals => link'[w] = link[w] \/ deal'[link[w]] = "retired"

CallsSound == req \in [Requests -> Calls] /\ CallInv /\ OneAlone

LEMMA StandingKept ==
  ASSUME NEW r \in Calls, Standing(r), Survives
  PROVE  Standing(r)'
<1>1. Tracked(r) /\ r.pc # "idle" => Tracked(r)'
  BY DEF Tracked, Standing, Survives, LinkedTo
<1>2. r.pc # "idle" => r.deal \in Deals /\ deal'[r.deal] # "absent"
  BY DEF Standing, Survives
<1> QED
  BY <1>1, <1>2 DEF Standing

(* Call p goes on as r.                                                    *)
LEMMA Going ==
  ASSUME IInv, Survives, NEW p \in Requests, ~ At(p, "idle"), NEW r \in Calls,
         req' = [req EXCEPT ![p] = r], r.alone => req[p].alone, Sound(r)'
  PROVE  CallsSound'
<1>1. (req \in [Requests -> Calls])'
  BY DEF IInv, Calls, Said2, Survives
<1>2. ASSUME NEW q \in Requests, q # p
      PROVE  req'[q] = req[q] /\ ~ req[q].alone
  BY <1>2 DEF IInv, OneAlone, At
<1>3. CallInv'
  <2> SUFFICES ASSUME NEW q \in Requests, q # p PROVE Sound(req[q])'
    BY <1>2 DEF CallInv, IInv
  <2>1. Standing(req[q]) /\ req[q].kept = None /\ req[q] \in Calls
    BY <1>2 DEF IInv, CallInv, Sound
  <2>2. ASSUME NEW x \in Calls, Standing(x), x.kept = None, ~ x.alone PROVE Sound(x)'
    BY <2>2, StandingKept DEF Sound
  <2> QED
    BY <1>2, <2>1, <2>2
<1>4. OneAlone'
  BY <1>2 DEF OneAlone, IInv
<1> QED
  BY <1>1, <1>3, <1>4 DEF CallsSound

(* The other calls, once another one has run.                              *)
LEMMA DisturbedStands ==
  ASSUME IInv, Survives, NEW q \in Requests, NEW x, x = Disturbed(q)
  PROVE  /\ x \in Calls /\ Sound(x)'
         /\ ~ x.alone
         /\ x.pc = req[q].pc
<1>1. req[q] \in Calls /\ Standing(req[q])
  BY DEF IInv, CallInv, Sound
<1>2. Idle \in Calls /\ Standing(Idle) /\ ~ Idle.alone /\ Idle.kept = None /\ Idle.pc = "idle"
  BY PipelineAssumption DEF Idle, Calls, Points, Ops, Standing, Pushing, Editing
<1>3. CASE req[q].pc = "idle"
  <2>1. x = Idle
    BY <1>3 DEF Disturbed
  <2> QED
    BY <1>2, <1>3, <2>1, StandingKept DEF Sound
<1>4. CASE req[q].pc # "idle"
  <2>1. x = [req[q] EXCEPT !.alone = FALSE, !.kept = None]
    BY <1>4 DEF Disturbed
  <2>2. x \in Calls /\ ~ x.alone /\ x.kept = None /\ x.pc = req[q].pc
    BY <1>1, <2>1 DEF Calls
  <2>3. Standing(x)
    BY <1>1, <1>4, <2>1 DEF Standing, Calls, Tracked, LinkedTo
  <2> QED
    BY <2>2, <2>3, StandingKept DEF Sound
<1> QED
  BY <1>3, <1>4

LEMMA Disturbing ==
  ASSUME IInv, Survives, req' = [q \in Requests |-> Disturbed(q)]
  PROVE  CallsSound'
<1>1. ASSUME NEW q \in Requests
      PROVE  /\ req'[q] \in Calls /\ Sound(req[q])'
             /\ ~ req'[q].alone
  <2>1. PICK x : x = Disturbed(q)
    OBVIOUS
  <2> QED
    BY <2>1, DisturbedStands
<1>2. (req \in [Requests -> Calls])'
  BY <1>1 DEF Calls, Said2, Survives
<1> QED
  BY <1>1, <1>2 DEF CallsSound, CallInv, OneAlone

(* A call with other fields is a call.                                     *)
Mark(r, alone, kept)  == [r EXCEPT !.alone = alone, !.kept = kept]
Address(r, s, t)      == [r EXCEPT !.stage = s, !.site = t]
Sever(r, cut)         == [r EXCEPT !.alone = FALSE, !.kept = None, !.cut = cut]

LEMMA Marked ==
  ASSUME NEW r \in Calls, NEW alone \in BOOLEAN, NEW kept \in Said2 \cup {None}
  PROVE  /\ Mark(r, alone, kept) \in Calls
         /\ Mark(r, alone, kept).alone = alone /\ Mark(r, alone, kept).kept = kept
         /\ Mark(r, alone, kept).pc = r.pc
BY ZenonT(60) DEF Mark, Calls

LEMMA Addressed ==
  ASSUME NEW r \in Calls, NEW s \in StoredStages, NEW t \in Sites \cup {None}
  PROVE  /\ Address(r, s, t) \in Calls
         /\ Address(r, s, t).stage = s /\ Address(r, s, t).site = t
         /\ Address(r, s, t).pc = r.pc /\ Address(r, s, t).op = r.op
         /\ Address(r, s, t).deal = r.deal /\ Address(r, s, t).kept = r.kept
BY DEF Address, Calls

LEMMA Severed ==
  ASSUME NEW r \in Calls, NEW cut \in BOOLEAN
  PROVE  /\ Sever(r, cut) \in Calls
         /\ ~ Sever(r, cut).alone /\ Sever(r, cut).kept = None /\ Sever(r, cut).cut = cut
         /\ Sever(r, cut).pc = r.pc /\ Sever(r, cut).deal = r.deal /\ Sever(r, cut).op = r.op
         /\ Sever(r, cut).stage = r.stage /\ Sever(r, cut).scan = r.scan
BY ZenonT(60) DEF Sever, Calls

(* Call p begins as c.                                                     *)
LEMMA Starting ==
  ASSUME IInv, Survives, NEW p \in Requests, NEW c \in Calls,
         Begin(p, c), c.pc # "idle", Standing(c)', Agreeing(c)', c.kept # None => Keeping(c)'
  PROVE  CallsSound'
<1> DEFINE alone == \A o \in Requests \ {p} : req[o].pc = "idle"
<1>1. ASSUME NEW q \in Requests, q # p
      PROVE  /\ req'[q] \in Calls /\ Sound(req[q])'
             /\ ~ req'[q].alone
             /\ req'[q].pc = req[q].pc
  <2>1. PICK x : x = Disturbed(q)
    OBVIOUS
  <2>2. req'[q] = x
    BY <1>1, <2>1 DEF Begin
  <2> QED
    BY <2>1, <2>2, DisturbedStands
<1>2. PICK r : r = [c EXCEPT !.alone = alone, !.kept = IF alone THEN @ ELSE None]
  OBVIOUS
<1>3. req'[p] = r
  BY <1>2 DEF Begin
<1>4. r \in Calls /\ r.alone = alone /\ (r.kept # None => alone /\ r.kept = c.kept) /\ r.pc = c.pc
  <2>1. PICK a \in BOOLEAN : a = alone
    OBVIOUS
  <2>2. PICK k \in Said2 \cup {None} : k = IF alone THEN c.kept ELSE None
    BY DEF Calls
  <2>3. r = Mark(c, a, k)
    BY <1>2, <2>1, <2>2 DEF Mark
  <2> HIDE DEF alone
  <2> QED
    BY <2>1, <2>2, <2>3, Marked
<1>5. Standing(r)'
  BY <1>2 DEF Standing, Tracked, LinkedTo, Calls
<1>6. Agreeing(r)'
  BY <1>2 DEF Agreeing, LinkedTo, Calls
<1>7. r.kept # None => Keeping(r)'
  BY <1>2, <1>4 DEF Keeping, LinkedTo, Calls
<1>8. Sound(r)'
  BY <1>4, <1>5, <1>6, <1>7 DEF Sound
<1>9. (req \in [Requests -> Calls])'
  <2>1. \A q \in Requests : req'[q] \in Calls
    BY <1>1, <1>3, <1>4, SMTT(60)
  <2>2. req' \in [Requests -> Calls]
    <3> HIDE DEF Calls
    <3> QED BY <2>1 DEF Begin
  <2>3. Calls' = Calls
    BY DEF Calls, Said2, Survives
  <2> QED
    BY <2>2, <2>3
<1>10. OneAlone'
  BY <1>1, <1>3, <1>4 DEF OneAlone
<1> QED
  BY <1>1, <1>3, <1>8, <1>9, <1>10 DEF CallsSound, CallInv

-----------------------------------------------------------------------------
(* The vocabularies: what is shown for a stage is one of its labels, and a *)
(* label that maps to a stage is one of those.                             *)
LEMMA Vocabularies ==
  /\ \A s \in Stages : /\ trackerStageByDeal[s] \in Labels
                       /\ trackerStageByDeal[s] \in trackerLabelsFor(s)
                       /\ trackerLabelsFor(s) \subseteq Labels
  /\ \A l \in Labels : /\ dealStageByTracker[l] \in Stages
                       /\ l \in trackerLabelsFor(dealStageByTracker[l])
  /\ StoredStages \subseteq Stages
<1>1. ASSUME NEW l \in Labels PROVE dealStageByTracker[l] \in Stages
  <2>1. CASE l \in {"NDA / Demo", "PoC", "Quotation Sent"}
    BY <2>1 DEF dealStageByTracker, Stages
  <2>2. CASE l \notin {"NDA / Demo", "PoC", "Quotation Sent"}
    <3>1. PICK s \in Stages : trackerStageByDeal[s] = l
      BY <2>2 DEF Labels, SubStages
    <3>2. dealStageByTracker[l] = CHOOSE t \in Stages : trackerStageByDeal[t] = l
      BY <2>2 DEF dealStageByTracker
    <3> QED
      BY <3>1, <3>2
  <2> QED
    BY <2>1, <2>2
<1> QED
  BY <1>1 DEF trackerLabelsFor, Labels, StoredStages

LEMMA SaidWhole ==
  ASSUME TypeOK, NEW d \in Deals
  PROVE  /\ Said(d) \in Said2 \cup {None}
         /\ Said(d) # None => \E w \in Rows : InStep(d, w) /\ Said(d) = <<stage[d], label[w]>>
<1>1. CASE \E w \in Rows : InStep(d, w)
  <2>1. PICK w \in Rows : InStep(d, w) /\ w = CHOOSE v \in Rows : InStep(d, v)
    BY <1>1
  <2>2. Said(d) = <<stage[d], label[w]>>
    BY <1>1, <2>1 DEF Said
  <2>3. stage[d] \in StoredStages \cup {None} /\ label[w] \in Labels \cup asked.labels \cup {None}
    BY DEF TypeOK
  <2>4. Said(d) \in Said2
    BY <2>2, <2>3 DEF Said2
  <2> QED
    BY <2>1, <2>2, <2>4
<1> QED
  BY <1>1 DEF Said

(* What an idle call may become.                                           *)
LEMMA NewCall ==
  ASSUME NEW op \in Ops, NEW d \in Deals, NEW point \in Points, NEW c, c = Call(op, d, point)
  PROVE  /\ c \in Calls
         /\ c.pc = point /\ c.op = op /\ c.deal = d /\ c.kept = None /\ ~ c.alone
<1>1. Idle \in Calls /\ Idle.kept = None /\ ~ Idle.alone
  BY DEF Idle, Calls, Points, Ops
<1>2. c = [Idle EXCEPT !.pc = point, !.op = op, !.deal = d]
  BY DEF Call
<1> QED
  BY <1>1, <1>2 DEF Calls

(* INSERT INTO deals.                                                      *)
LEMMA Inserted ==
  ASSUME IInv, NEW d \in Deals, NEW s \in asked.stages \cap StoredStages,
         Insert(d, s), UNCHANGED <<asked, tracker>>
  PROVE  TypeOK' /\ OneRowPerDeal' /\ Survives
<1> USE PipelineAssumption DEF Insert, IInv, tracker
<1>1. TypeOK'
  BY DEF TypeOK, StoredStages
<1>2. OneRowPerDeal'
  BY DEF TypeOK, OneRowPerDeal
<1>3. Survives
  BY DEF TypeOK, Survives
<1> QED
  BY <1>1, <1>2, <1>3

LEMMA CreateDealKeeps ==
  ASSUME IInv, NEW p \in Requests, CreateDeal(p)
  PROVE  IInv'
<1>1. PICK d \in Deals, s \in asked.stages \cap StoredStages :
        Insert(d, s) /\ Begin(p, Call("create", d, "written"))
  BY DEF CreateDeal
<1>2. TypeOK' /\ OneRowPerDeal' /\ Survives
  BY <1>1, Inserted DEF CreateDeal
<1>3. deal'[d] = "live"
  BY <1>1 DEF Insert, IInv, TypeOK
<1>4. PICK c : c = Call("create", d, "written")
  OBVIOUS
<1>5. /\ c \in Calls /\ c.pc = "written" /\ c.op = "create" /\ c.deal = d
      /\ c.kept = None
  BY <1>4, NewCall DEF Ops, Points
<1>6. Standing(c)' /\ Agreeing(c)'
  BY <1>3, <1>5 DEF Standing, Agreeing, Pushing, Editing
<1> QED
  BY <1>1, <1>2, <1>4, <1>5, <1>6, Starting DEF IInv, CallsSound

LEMMA UpdateDealKeeps ==
  ASSUME IInv, NEW p \in Requests, UpdateDeal(p)
  PROVE  IInv'
<1> USE PipelineAssumption DEF IInv
<1>1. PICK d \in Deals, s \in asked.stages \cap StoredStages, a \in Clients,
           at \in asked.sites \cup {None} :
        /\ deal[d] = "live"
        /\ stage' = [stage EXCEPT ![d] = s]
        /\ site' = [site EXCEPT ![d] = at]
        /\ account' = [account EXCEPT ![d] = a]
        /\ Begin(p, [Call("save", d, "written") EXCEPT
                       !.kept = IF s = stage[d] THEN Said(d) ELSE None])
  BY DEF UpdateDeal
<1>2. UNCHANGED <<asked, deal, tracker>>
  BY DEF UpdateDeal
<1>3. TypeOK'
  BY <1>1, <1>2 DEF TypeOK, tracker, StoredStages
<1>4. OneRowPerDeal' /\ Survives
  BY <1>2 DEF OneRowPerDeal, Survives, tracker
<1>5. PICK c : c = [Call("save", d, "written") EXCEPT
                      !.kept = IF s = stage[d] THEN Said(d) ELSE None]
  OBVIOUS
<1>6. /\ c \in Calls /\ c.pc = "written" /\ c.op = "save" /\ c.deal = d
      /\ c.kept # None => s = stage[d] /\ c.kept = Said(d)
  <2>1. PICK b : b = Call("save", d, "written")
    OBVIOUS
  <2>2. b \in Calls /\ b.pc = "written" /\ b.op = "save" /\ b.deal = d
    BY <2>1, NewCall DEF Ops, Points
  <2>3. c = [b EXCEPT !.kept = IF s = stage[d] THEN Said(d) ELSE None]
    BY <1>5, <2>1
  <2> QED
    BY <2>2, <2>3, SaidWhole DEF Calls
<1>7. Standing(c)' /\ Agreeing(c)'
  BY <1>1, <1>2, <1>6 DEF Standing, Agreeing, Pushing, Editing
<1>8. ASSUME c.kept # None PROVE Keeping(c)'
  <2>1. PICK w \in Rows : InStep(d, w) /\ Said(d) = <<stage[d], label[w]>>
    BY <1>6, <1>8, SaidWhole
  <2>2. stage'[d] = stage[d] /\ label'[w] = label[w] /\ link'[w] = d
    BY <1>1, <1>2, <1>6, <1>8, <2>1 DEF InStep, tracker, TypeOK
  <2> QED
    BY <1>6, <1>8, <2>1, <2>2 DEF Keeping, InStep, LinkedTo
<1> QED
  BY <1>1, <1>3, <1>4, <1>5, <1>6, <1>7, <1>8, Starting DEF CallsSound

LEMMA MoveDealKeeps ==
  ASSUME IInv, NEW p \in Requests, MoveDeal(p)
  PROVE  IInv'
<1> USE PipelineAssumption DEF IInv
<1>1. PICK d \in Deals, s \in asked.stages \cap StoredStages :
        /\ deal[d] = "live"
        /\ stage' = [stage EXCEPT ![d] = s]
        /\ Begin(p, Call("move", d, "located"))
  BY DEF MoveDeal
<1>2. UNCHANGED <<asked, deal, site, account, tracker>>
  BY DEF MoveDeal
<1>3. TypeOK'
  BY <1>1, <1>2 DEF TypeOK, tracker, StoredStages
<1>4. OneRowPerDeal' /\ Survives
  BY <1>2 DEF OneRowPerDeal, Survives, tracker
<1>5. PICK c : c = Call("move", d, "located")
  OBVIOUS
<1>6. c \in Calls /\ c.pc = "located" /\ c.op = "move" /\ c.deal = d /\ c.kept = None
  BY <1>5, NewCall DEF Ops, Points
<1>7. Standing(c)' /\ Agreeing(c)'
  BY <1>1, <1>2, <1>6 DEF Standing, Agreeing, Pushing, Editing
<1> QED
  BY <1>1, <1>3, <1>4, <1>5, <1>6, <1>7, Starting DEF CallsSound

LEMMA ConvertLeadKeeps ==
  ASSUME IInv, NEW p \in Requests, ConvertLead(p)
  PROVE  IInv'
<1>1. PICK d \in Deals, s \in asked.stages \cap StoredStages :
        /\ Insert(d, s)
        /\ Begin(p, [Call("convert", d, "read") EXCEPT !.stage = s, !.site = site'[d]])
  BY DEF ConvertLead
<1>2. TypeOK' /\ OneRowPerDeal' /\ Survives
  BY <1>1, Inserted DEF ConvertLead
<1>3. deal'[d] = "live" /\ stage'[d] = s /\ site'[d] \in Sites \cup {None}
  BY <1>1, <1>2 DEF Insert, IInv, TypeOK
<1>4. PICK c : c = [Call("convert", d, "read") EXCEPT !.stage = s, !.site = site'[d]]
  OBVIOUS
<1>5. /\ c \in Calls /\ c.pc = "read" /\ c.op = "convert" /\ c.deal = d
      /\ c.kept = None /\ c.stage = s /\ c.site = site'[d]
  <2>1. PICK b : b = Call("convert", d, "read")
    OBVIOUS
  <2>2. b \in Calls /\ b.pc = "read" /\ b.op = "convert" /\ b.deal = d /\ b.kept = None
    BY <2>1, NewCall DEF Ops, Points
  <2>3. c = Address(b, s, site'[d])
    BY <1>4, <2>1 DEF Address
  <2>4. s \in StoredStages
    BY <1>1
  <2> QED
    BY <1>3, <2>2, <2>3, <2>4, Addressed
<1>6. Standing(c)' /\ Agreeing(c)'
  BY <1>3, <1>5 DEF Standing, Agreeing, Pushing, Editing, DealWrites
<1> QED
  BY <1>1, <1>2, <1>4, <1>5, <1>6, Starting DEF IInv, CallsSound

(* A step of a call in flight: what it was sound to rely on.               *)
LEMMA InFlight ==
  ASSUME IInv, NEW p \in Requests, NEW point \in Points \ {"idle"}, At(p, point)
  PROVE  /\ req[p] \in Calls /\ Standing(req[p])
         /\ req[p].alone => Agreeing(req[p])
         /\ req[p].kept # None => req[p].alone /\ Keeping(req[p])
         /\ req[p].pc = point /\ ~ At(p, "idle") /\ req[p].deal \in Deals
         /\ deal[req[p].deal] # "absent"
  BY DEF IInv, CallInv, Sound, Standing, At

LEMMA setLocationsKeeps ==
  ASSUME IInv, NEW p \in Requests, setLocations(p)
  PROVE  IInv'
<1> USE PipelineAssumption DEF IInv
<1>1. At(p, "written") /\ UNCHANGED <<asked, deal, stage, account, tracker>>
  BY DEF setLocations
<1>2. /\ req[p] \in Calls /\ Standing(req[p])
      /\ req[p].alone => Agreeing(req[p])
      /\ req[p].kept # None => req[p].alone /\ Keeping(req[p])
      /\ req[p].pc = "written" /\ ~ At(p, "idle") /\ req[p].deal \in Deals
      /\ deal[req[p].deal] # "absent"
  BY <1>1, InFlight DEF Points
<1>3. TypeOK'
  BY <1>1, <1>2 DEF TypeOK, setLocations, tracker
<1>4. OneRowPerDeal' /\ Survives
  BY <1>1 DEF OneRowPerDeal, Survives, tracker
<1>5. PICK r : r = [req[p] EXCEPT !.pc = "located"]
  OBVIOUS
<1>6. /\ r \in Calls /\ r.pc = "located" /\ r.deal = req[p].deal
      /\ r.kept = req[p].kept /\ r.alone = req[p].alone
  BY <1>2, <1>5 DEF Calls, Points
<1>7. Standing(r)' /\ (r.alone => Agreeing(r)')
  BY <1>1, <1>2, <1>6 DEF Standing, Agreeing, Pushing, Editing
<1>8. r.kept # None => Keeping(r)'
  BY <1>1, <1>2, <1>6 DEF Keeping, LinkedTo, tracker
<1> QED
  BY <1>2, <1>3, <1>4, <1>5, <1>6, <1>7, <1>8, Going
    DEF CallsSound, Sound, setLocations, Goto, Continue

(* Call p goes on as r, and the tables stay as they are.                   *)
LEMMA Reading ==
  ASSUME IInv, UNCHANGED <<asked, board, tracker>>
  PROVE  TypeOK' /\ OneRowPerDeal' /\ Survives
<1>1. TypeOK'
  BY DEF IInv, TypeOK, board, tracker
<1> QED
  BY <1>1 DEF IInv, OneRowPerDeal, Survives, board, tracker

LEMMA GetDealKeeps ==
  ASSUME IInv, NEW p \in Requests, GetDeal(p)
  PROVE  IInv'
<1> USE PipelineAssumption
<1>1. At(p, "located") /\ UNCHANGED <<asked, board, tracker>>
  BY DEF GetDeal
<1>2. /\ req[p] \in Calls /\ Standing(req[p])
      /\ req[p].alone => Agreeing(req[p])
      /\ req[p].kept # None => req[p].alone /\ Keeping(req[p])
      /\ req[p].pc = "located" /\ ~ At(p, "idle") /\ req[p].deal \in Deals
      /\ deal[req[p].deal] # "absent"
  BY <1>1, InFlight DEF Points
<1>3. TypeOK' /\ OneRowPerDeal' /\ Survives
  BY <1>1, Reading
<1>4. CASE deal[req[p].deal] = "live"
  <2>1. /\ stage[req[p].deal] \in StoredStages
        /\ site[req[p].deal] \in Sites \cup {None}
    BY <1>2, <1>4 DEF IInv, TypeOK
  <2>2. PICK r : r = [req[p] EXCEPT !.pc = "read", !.stage = stage[req[p].deal],
                                    !.site = site[req[p].deal]]
    OBVIOUS
  <2>3. /\ r \in Calls /\ r.pc = "read" /\ r.deal = req[p].deal
        /\ r.kept = req[p].kept /\ r.alone = req[p].alone
        /\ r.stage = stage[r.deal] /\ r.site = site[r.deal]
    BY <1>2, <2>1, <2>2 DEF Calls, Points
  <2>4. Standing(r)' /\ Agreeing(r)'
    BY <1>1, <1>2, <1>4, <2>1, <2>3 DEF Standing, Agreeing, Pushing, Editing, board
  <2>5. r.kept # None => Keeping(r)'
    BY <1>1, <1>2, <2>3 DEF Keeping, LinkedTo, tracker, board
  <2> QED
    BY <1>2, <1>3, <1>4, <2>2, <2>3, <2>4, <2>5, Going
      DEF CallsSound, Sound, GetDeal, Continue, IInv
<1>5. CASE deal[req[p].deal] # "live"
  <2>1. ~ req[p].alone
    BY <1>2, <1>5 DEF Agreeing
  <2>2. PICK r : r = [req[p] EXCEPT !.pc = "error", !.stage = None, !.site = None,
                                    !.label = None, !.scan = None]
    OBVIOUS
  <2>3. /\ r \in Calls /\ r.pc = "error" /\ r.deal = req[p].deal
        /\ r.kept = req[p].kept /\ r.alone = req[p].alone
    BY <1>2, <2>2 DEF Calls, Points
  <2>4. Standing(r)'
    BY <1>1, <1>2, <2>3 DEF Standing, Pushing, Editing, board
  <2> QED
    BY <1>2, <1>3, <1>5, <2>1, <2>2, <2>3, <2>4, Going
      DEF CallsSound, Sound, GetDeal, Continue, Finish, IInv
<1> QED
  BY <1>4, <1>5

(* The snapshot of EnsureRowForDeal finds what a call that is alone may    *)
(* rely on.                                                                *)
LEMMA EnsureScanKeeps ==
  ASSUME IInv, NEW p \in Requests, EnsureScan(p)
  PROVE  IInv'
<1> USE PipelineAssumption
<1> DEFINE d == req[p].deal
<1>1. At(p, "read") /\ UNCHANGED <<asked, board, tracker>>
  BY DEF EnsureScan
<1>2. /\ req[p] \in Calls /\ Standing(req[p])
      /\ req[p].alone => Agreeing(req[p])
      /\ req[p].kept # None => req[p].alone /\ Keeping(req[p])
      /\ req[p].pc = "read" /\ ~ At(p, "idle") /\ req[p].deal \in Deals
      /\ deal[req[p].deal] # "absent"
  BY <1>1, InFlight DEF Points
<1>3. TypeOK' /\ OneRowPerDeal' /\ Survives
  BY <1>1, Reading
<1>4. CASE deal[d] = "live" /\ LinkedTo(d) = {}
  <2>1. PICK found : found = {w \in LinkedTo(None) : client[w] = account[d]}
    OBVIOUS
  <2>2. PICK scan : scan = [client |-> account[d], site |-> site[d], found |-> found]
    OBVIOUS
  <2>3. found \in SUBSET Rows /\ account[d] \in Clients \cup {None} /\ site[d] \in Sites \cup {None}
    BY <1>2, <2>1 DEF IInv, TypeOK, LinkedTo
  <2>4. scan \in Scans
    BY <2>2, <2>3 DEF Scans
  <2>5. PICK r : r = [req[p] EXCEPT !.pc = "scanned", !.scan = scan]
    OBVIOUS
  <2>6. /\ r \in Calls /\ r.pc = "scanned" /\ r.deal = d /\ r.scan = scan
        /\ r.kept = req[p].kept /\ r.alone = req[p].alone
        /\ r.stage = req[p].stage /\ r.site = req[p].site
    BY <1>2, <2>4, <2>5 DEF Calls, Points
  <2>7. Standing(r)'
    BY <1>1, <1>2, <2>4, <2>6 DEF Standing, Pushing, Editing, board
  <2>8. r.alone => Agreeing(r)'
    BY <1>1, <1>2, <1>4, <2>6 DEF Agreeing, Pushing, Editing, board, tracker, LinkedTo
  <2>9. r.kept = None
    BY <1>2, <1>4, <2>6 DEF Keeping
  <2>10. req' = [req EXCEPT ![p] = r]
    BY <1>4, <2>1, <2>2, <2>5 DEF EnsureScan, Continue
  <2> QED
    BY <1>2, <1>3, <2>6, <2>7, <2>8, <2>9, <2>10, Going DEF CallsSound, Sound, IInv
<1>5. CASE ~ (deal[d] = "live" /\ LinkedTo(d) = {})
  <2>1. PICK r : r = [req[p] EXCEPT !.pc = "ensured"]
    OBVIOUS
  <2>2. /\ r \in Calls /\ r.pc = "ensured" /\ r.deal = d
        /\ r.kept = req[p].kept /\ r.alone = req[p].alone
        /\ r.stage = req[p].stage /\ r.site = req[p].site
    BY <1>2, <2>1 DEF Calls, Points
  <2>3. deal[d] = "retired" \/ LinkedTo(d) # {}
    BY <1>2, <1>5 DEF IInv, TypeOK
  <2>4. Standing(r)'
    BY <1>1, <1>2, <2>2, <2>3 DEF Standing, Pushing, Editing, board, tracker, Tracked, LinkedTo
  <2>5. r.alone => Agreeing(r)'
    BY <1>1, <1>2, <2>2 DEF Agreeing, Pushing, Editing, board, tracker, LinkedTo
  <2>6. r.kept # None => Keeping(r)'
    BY <1>1, <1>2, <2>2 DEF Keeping, LinkedTo, tracker, board
  <2>7. req' = [req EXCEPT ![p] = r]
    BY <1>5, <2>1 DEF EnsureScan, Goto, Continue
  <2> QED
    BY <1>2, <1>3, <2>2, <2>4, <2>5, <2>6, <2>7, Going DEF CallsSound, Sound, IInv
<1> QED
  BY <1>4, <1>5

(* The call has its row: what follows a write of link that gives it one.   *)
LEMMA Ensured ==
  ASSUME IInv, NEW p \in Requests, At(p, "scanned"), UNCHANGED <<asked, board>>,
         Continue(p, [req[p] EXCEPT !.pc = "ensured", !.scan = None]),
         Survives, (\E w \in Rows : link'[w] = req[p].deal) \/ req[p].op = "convert"
  PROVE  CallsSound'
<1> USE PipelineAssumption
<1>1. At(p, "scanned")
  OBVIOUS
<1>2. /\ req[p] \in Calls /\ Standing(req[p])
      /\ req[p].alone => Agreeing(req[p])
      /\ req[p].kept # None => req[p].alone /\ Keeping(req[p])
      /\ req[p].pc = "scanned" /\ ~ At(p, "idle") /\ req[p].deal \in Deals
      /\ deal[req[p].deal] # "absent"
  BY <1>1, InFlight DEF Points
<1>3. PICK r : r = [req[p] EXCEPT !.pc = "ensured", !.scan = None]
  OBVIOUS
<1>4. /\ r \in Calls /\ r.pc = "ensured" /\ r.deal = req[p].deal /\ r.op = req[p].op
      /\ r.kept = req[p].kept /\ r.alone = req[p].alone
      /\ r.stage = req[p].stage /\ r.site = req[p].site
  BY <1>2, <1>3 DEF Calls, Points
<1>5. Standing(r)'
  BY <1>2, <1>4 DEF Standing, Pushing, Editing, board, Tracked, DealWrites, LinkedTo
<1>6. r.alone => Agreeing(r)'
  BY <1>2, <1>4 DEF Agreeing, Pushing, Editing, board
<1>7. r.kept = None
  BY <1>2, <1>4 DEF Agreeing, Keeping
<1> QED
  BY <1>2, <1>3, <1>4, <1>5, <1>6, <1>7, Going DEF Sound, Continue, IInv

(* A row that is adopted or inserted.                                      *)
LEMMA RowGiven ==
  ASSUME IInv, NEW d \in Deals, deal[d] # "absent", LinkedTo(d) = {}, NEW w \in Rows,
         link[w] \notin Deals, link' = [link EXCEPT ![w] = d], UNCHANGED <<asked, board>>
  PROVE  OneRowPerDeal' /\ Survives /\ link'[w] = d
<1> USE PipelineAssumption
<1>1. link'[w] = d /\ \A v \in Rows : link[v] # d
  BY DEF IInv, TypeOK, LinkedTo
<1>2. OneRowPerDeal'
  BY <1>1 DEF IInv, TypeOK, OneRowPerDeal, board
<1> QED
  BY <1>1, <1>2 DEF IInv, TypeOK, Survives, board

LEMMA EnsureAdoptKeeps ==
  ASSUME IInv, NEW p \in Requests, EnsureAdopt(p)
  PROVE  IInv'
<1> USE PipelineAssumption
<1>1. /\ At(p, "scanned") /\ LinkedTo(req[p].deal) = {}
      /\ UNCHANGED <<asked, board, label, client>>
  BY DEF EnsureAdopt, RowTaken
<1>2. /\ req[p] \in Calls /\ Standing(req[p])
      /\ req[p].alone => Agreeing(req[p])
      /\ req[p].kept # None => req[p].alone /\ Keeping(req[p])
      /\ req[p].pc = "scanned" /\ ~ At(p, "idle") /\ req[p].deal \in Deals
      /\ deal[req[p].deal] # "absent"
  BY <1>1, InFlight DEF Points
<1>3. PICK w \in Rows :
        /\ Adoptable(p) = {w}
        /\ link' = [link EXCEPT ![w] = req[p].deal]
        /\ place' = [place EXCEPT ![w] = IF req[p].scan.site = None THEN @ ELSE req[p].scan.site]
  BY DEF EnsureAdopt
<1>4. link[w] = None /\ req[p].scan.site \in Sites \cup {None}
  BY <1>2, <1>3 DEF Adoptable, Standing, Scans
<1>5. OneRowPerDeal' /\ Survives /\ link'[w] = req[p].deal
  BY <1>1, <1>2, <1>3, <1>4, RowGiven
<1>6. TypeOK'
  BY <1>1, <1>2, <1>3, <1>4 DEF IInv, TypeOK, board
<1> QED
  BY <1>1, <1>5, <1>6, Ensured DEF EnsureAdopt, IInv, CallsSound

LEMMA EnsureInsertKeeps ==
  ASSUME IInv, NEW p \in Requests, EnsureInsert(p)
  PROVE  IInv'
<1> USE PipelineAssumption
<1>1. /\ At(p, "scanned") /\ LinkedTo(req[p].deal) = {}
      /\ UNCHANGED <<asked, board>>
  BY DEF EnsureInsert, RowTaken
<1>2. /\ req[p] \in Calls /\ Standing(req[p])
      /\ req[p].alone => Agreeing(req[p])
      /\ req[p].kept # None => req[p].alone /\ Keeping(req[p])
      /\ req[p].pc = "scanned" /\ ~ At(p, "idle") /\ req[p].deal \in Deals
      /\ deal[req[p].deal] # "absent"
  BY <1>1, InFlight DEF Points
<1>3. PICK w \in Rows :
        /\ link[w] = Absent
        /\ link' = [link EXCEPT ![w] = req[p].deal]
        /\ WriteRow(w, req[p].scan.client, None, req[p].scan.site)
  BY DEF EnsureInsert, LinkedTo
<1>4. req[p].scan.site \in Sites \cup {None} /\ req[p].scan.client \in Clients \cup {None}
  BY <1>2, <1>3 DEF Standing, Scans
<1>5. OneRowPerDeal' /\ Survives /\ link'[w] = req[p].deal
  BY <1>1, <1>2, <1>3, RowGiven
<1>6. TypeOK'
  BY <1>1, <1>2, <1>3, <1>4 DEF IInv, TypeOK, board, WriteRow
<1> QED
  BY <1>1, <1>5, <1>6, Ensured DEF EnsureInsert, IInv, CallsSound

LEMMA EnsureRefusedKeeps ==
  ASSUME IInv, NEW p \in Requests, EnsureRefused(p)
  PROVE  IInv'
<1> USE PipelineAssumption
<1>1. At(p, "scanned") /\ UNCHANGED <<asked, board, tracker>>
  BY DEF EnsureRefused
<1>2. /\ req[p] \in Calls /\ Standing(req[p])
      /\ req[p].alone => Agreeing(req[p])
      /\ req[p].kept # None => req[p].alone /\ Keeping(req[p])
      /\ req[p].pc = "scanned" /\ ~ At(p, "idle") /\ req[p].deal \in Deals
      /\ deal[req[p].deal] # "absent"
  BY <1>1, InFlight DEF Points
<1>3. TypeOK' /\ OneRowPerDeal' /\ Survives
  BY <1>1, Reading
<1>4. CASE req[p].op = "convert"
  BY <1>1, <1>3, <1>4, Ensured DEF EnsureRefused, IInv, CallsSound
<1>5. CASE req[p].op # "convert"
  <2>1. PICK r : r = [req[p] EXCEPT !.pc = "error", !.stage = None, !.site = None,
                                    !.label = None, !.scan = None]
    OBVIOUS
  <2>2. /\ r \in Calls /\ r.pc = "error" /\ r.deal = req[p].deal
        /\ r.kept = req[p].kept /\ r.alone = req[p].alone
    BY <1>2, <2>1 DEF Calls, Points
  <2>3. Standing(r)' /\ Agreeing(r)'
    BY <1>1, <1>2, <2>2 DEF Standing, Agreeing, Pushing, Editing, board
  <2>4. r.kept = None
    BY <1>2, <2>2 DEF Agreeing, Keeping
  <2> QED
    BY <1>2, <1>3, <1>5, <2>1, <2>2, <2>3, <2>4, Going, ZenonT(60)
      DEF CallsSound, Sound, EnsureRefused, Continue, Finish, IInv
<1> QED
  BY <1>4, <1>5

(* The push: the row says afterwards what the call read of its deal.       *)
LEMMA SyncFromDealKeeps ==
  ASSUME IInv, NEW p \in Requests, SyncFromDeal(p)
  PROVE  IInv'
<1> USE PipelineAssumption
<1> DEFINE d == req[p].deal
<1>1. /\ At(p, "ensured") /\ UNCHANGED <<asked, board, link, client>>
      /\ label' = [w \in Rows |-> IF link[w] = d
                                    THEN PushedLabel(req[p].stage, label[w]) ELSE label[w]]
      /\ place' = [w \in Rows |-> IF link[w] = d THEN req[p].site ELSE place[w]]
      /\ Finish(p, "ok")
  BY DEF SyncFromDeal
<1>2. /\ req[p] \in Calls /\ Standing(req[p])
      /\ req[p].alone => Agreeing(req[p])
      /\ req[p].kept # None => req[p].alone /\ Keeping(req[p])
      /\ req[p].pc = "ensured" /\ ~ At(p, "idle") /\ req[p].deal \in Deals
      /\ deal[req[p].deal] # "absent"
  BY <1>1, InFlight DEF Points
<1>3. req[p].stage \in StoredStages /\ req[p].site \in Sites \cup {None}
  BY <1>2 DEF Standing, Pushing, Calls
<1>4. ASSUME NEW l
      PROVE  /\ PushedLabel(req[p].stage, l) \in trackerLabelsFor(req[p].stage)
             /\ PushedLabel(req[p].stage, l) \in Labels
  BY <1>3, Vocabularies DEF PushedLabel
<1>5. TypeOK'
  BY <1>1, <1>2, <1>3, <1>4 DEF IInv, TypeOK, board
<1>6. OneRowPerDeal' /\ Survives
  BY <1>1 DEF OneRowPerDeal, Survives, board, IInv
<1>7. PICK r : r = [req[p] EXCEPT !.pc = "ok", !.stage = None, !.site = None,
                                  !.label = None, !.scan = None]
  OBVIOUS
<1>8. /\ r \in Calls /\ r.pc = "ok" /\ r.deal = d /\ r.op = req[p].op /\ r.cut = req[p].cut
      /\ r.kept = req[p].kept /\ r.alone = req[p].alone
  BY <1>2, <1>7 DEF Calls, Points
<1>9. Standing(r)'
  BY <1>1, <1>2, <1>8 DEF Standing, Pushing, Editing, board, Tracked, LinkedTo
<1>10. ASSUME r.alone PROVE Agreeing(r)'
  <2>1. req[p].stage = stage[d] /\ req[p].site = site[d]
    BY <1>2, <1>8, <1>10 DEF Agreeing, Pushing
  <2>2. \A w \in Rows : link'[w] = r.deal => InStep(r.deal, w)'
    BY <1>1, <1>2, <1>4, <1>8, <2>1 DEF InStep, board
  <2> QED
    BY <1>8, <2>2 DEF Agreeing, Pushing, Editing, LinkedTo, InStep
<1>11. ASSUME r.kept # None PROVE Keeping(r)'
  <2>1. req[p].stage = stage[d] /\ req[p].site = site[d] /\ Keeping(req[p])
    BY <1>2, <1>8, <1>11 DEF Agreeing, Pushing
  <2>2. PICK w \in Rows : /\ link[w] = d /\ req[p].kept = <<stage[d], label[w]>>
                          /\ label[w] \in trackerLabelsFor(stage[d])
    BY <1>2, <2>1 DEF Keeping, LinkedTo
  <2>3. label'[w] = label[w] /\ place'[w] = site[d] /\ link'[w] = d
    BY <1>1, <2>1, <2>2 DEF PushedLabel
  <2> QED
    BY <1>1, <1>8, <2>2, <2>3 DEF Keeping, LinkedTo, board
<1> QED
  BY <1>1, <1>2, <1>5, <1>6, <1>7, <1>8, <1>9, <1>10, <1>11, Going
    DEF CallsSound, Sound, Continue, Finish, IInv

-----------------------------------------------------------------------------
(* Calls on the tracker, and the two deletions.                            *)
LEMMA DeleteDealKeeps ==
  ASSUME IInv, DeleteDeal
  PROVE  IInv'
<1> USE PipelineAssumption DEF IInv
<1>1. PICK d \in Deals :
        /\ deal[d] = "live"
        /\ deal' = [deal EXCEPT ![d] = "retired"]
        /\ stage' = [stage EXCEPT ![d] = None]
        /\ site' = [site EXCEPT ![d] = None]
        /\ account' = [account EXCEPT ![d] = None]
        /\ link' = [w \in Rows |-> IF link[w] = d THEN None ELSE link[w]]
        /\ req' = [q \in Requests |-> Disturbed(q)]
        /\ UNCHANGED <<asked, label, place, client>>
  BY DEF DeleteDeal
<1>2. TypeOK'
  BY <1>1 DEF TypeOK
<1>3. OneRowPerDeal'
  BY <1>1 DEF TypeOK, OneRowPerDeal
<1>4. Survives
  BY <1>1 DEF TypeOK, Survives
<1> QED
  BY <1>1, <1>2, <1>3, <1>4, Disturbing DEF CallsSound

LEMMA CreateRowKeeps ==
  ASSUME IInv, CreateRow
  PROVE  IInv'
<1> USE PipelineAssumption DEF IInv
<1>1. PICK w \in Rows, c \in Clients, l \in asked.labels, at \in asked.sites \cup {None} :
        /\ link[w] = Absent
        /\ link' = [link EXCEPT ![w] = None]
        /\ WriteRow(w, c, l, at)
        /\ req' = [q \in Requests |-> Disturbed(q)]
        /\ UNCHANGED <<asked, board>>
  BY DEF CreateRow, LinkedTo
<1>2. TypeOK'
  BY <1>1 DEF TypeOK, WriteRow, board
<1>3. OneRowPerDeal'
  BY <1>1 DEF TypeOK, OneRowPerDeal, board
<1>4. Survives
  BY <1>1 DEF TypeOK, Survives, board
<1> QED
  BY <1>1, <1>2, <1>3, <1>4, Disturbing DEF CallsSound

LEMMA UpdateUnlinkedRowKeeps ==
  ASSUME IInv, UpdateUnlinkedRow
  PROVE  IInv'
<1> USE PipelineAssumption DEF IInv
<1>1. PICK w \in Rows, c \in Clients, l \in asked.labels, at \in asked.sites \cup {None} :
        /\ link[w] = None \/ (link[w] \in Deals /\ deal[link[w]] = "retired")
        /\ WriteRow(w, c, l, at)
  BY DEF UpdateUnlinkedRow
<1>2. req' = [q \in Requests |-> Disturbed(q)] /\ UNCHANGED <<asked, board, link>>
  BY DEF UpdateUnlinkedRow
<1>3. TypeOK'
  BY <1>1, <1>2 DEF TypeOK, WriteRow, board
<1>4. OneRowPerDeal' /\ Survives
  BY <1>2 DEF OneRowPerDeal, Survives, board
<1> QED
  BY <1>2, <1>3, <1>4, Disturbing DEF CallsSound

LEMMA UpdateRowKeeps ==
  ASSUME IInv, NEW p \in Requests, UpdateRow(p)
  PROVE  IInv'
<1> USE PipelineAssumption DEF IInv
<1>1. PICK w \in Rows, a \in Clients, l \in asked.labels, at \in asked.sites \cup {None} :
        /\ link[w] \in Deals /\ deal[link[w]] = "live"
        /\ WriteRow(w, a, l, at)
        /\ Begin(p, [Call("edit", link[w], "written-row") EXCEPT
                       !.label = l, !.site = at,
                       !.kept = IF l = label[w] THEN Said(link[w]) ELSE None])
  BY DEF UpdateRow
<1>2. UNCHANGED <<asked, board, link>>
  BY DEF UpdateRow
<1>3. TypeOK'
  BY <1>1, <1>2 DEF TypeOK, WriteRow, board
<1>4. OneRowPerDeal' /\ Survives
  BY <1>2 DEF OneRowPerDeal, Survives, board
<1>5. PICK d \in Deals : d = link[w]
  BY <1>1
<1>6. PICK c : c = [Call("edit", d, "written-row") EXCEPT
                      !.label = l, !.site = at,
                      !.kept = IF l = label[w] THEN Said(d) ELSE None]
  OBVIOUS
<1>7. /\ c \in Calls /\ c.pc = "written-row" /\ c.op = "edit" /\ c.deal = d
      /\ c.label = l /\ c.site = at
      /\ c.kept # None => l = label[w] /\ c.kept = Said(d)
  <2>1. PICK b : b = Call("edit", d, "written-row")
    OBVIOUS
  <2>2. b \in Calls /\ b.pc = "written-row" /\ b.op = "edit" /\ b.deal = d
    BY <2>1, NewCall DEF Ops, Points
  <2>3. c = [b EXCEPT !.label = l, !.site = at,
                      !.kept = IF l = label[w] THEN Said(d) ELSE None]
    BY <1>6, <2>1
  <2>4. at \in Sites \cup {None}
    BY DEF TypeOK
  <2> QED
    BY <2>2, <2>3, <2>4, SaidWhole, ZenonT(30) DEF Calls
<1>8. \A v \in Rows : link'[v] = d => v = w
  BY <1>2, <1>5 DEF OneRowPerDeal
<1>9. label'[w] = l /\ place'[w] = at /\ link'[w] = d
  BY <1>1, <1>2, <1>5 DEF WriteRow, TypeOK
<1>10. Standing(c)'
  BY <1>1, <1>2, <1>5, <1>7 DEF Standing, Pushing, Editing, DealWrites, board
<1>11. Agreeing(c)'
  BY <1>1, <1>2, <1>5, <1>7, <1>8, <1>9 DEF Agreeing, Pushing, Editing, LinkedTo, board
<1>12. ASSUME c.kept # None PROVE Keeping(c)'
  <2>1. PICK v \in Rows : InStep(d, v) /\ Said(d) = <<stage[d], label[v]>>
    BY <1>7, <1>12, SaidWhole
  <2>2. v = w
    BY <1>2, <1>8, <2>1 DEF InStep
  <2> QED
    BY <1>2, <1>7, <1>9, <1>12, <2>1, <2>2 DEF Keeping, InStep, LinkedTo, board
<1>13. Begin(p, c)
  BY <1>1, <1>5, <1>6
<1> QED
  BY <1>3, <1>4, <1>7, <1>10, <1>11, <1>12, <1>13, Starting, SMTT(60) DEF CallsSound

LEMMA PushRowKeeps ==
  ASSUME IInv, NEW p \in Requests, PushRow(p)
  PROVE  IInv'
<1> USE PipelineAssumption
<1> DEFINE d == req[p].deal
<1>1. /\ At(p, "written-row") /\ UNCHANGED <<asked, deal, stage, account, tracker>>
      /\ site' = IF deal[d] = "live" THEN [site EXCEPT ![d] = req[p].site] ELSE site
      /\ IF req[p].label = None THEN Finish(p, "ok") ELSE Goto(p, "pushed")
  BY DEF PushRow
<1>2. /\ req[p] \in Calls /\ Standing(req[p])
      /\ req[p].alone => Agreeing(req[p])
      /\ req[p].kept # None => req[p].alone /\ Keeping(req[p])
      /\ req[p].pc = "written-row" /\ ~ At(p, "idle") /\ req[p].deal \in Deals
      /\ deal[req[p].deal] # "absent"
  BY <1>1, InFlight DEF Points
<1>3. TypeOK'
  BY <1>1, <1>2 DEF IInv, TypeOK, tracker, Calls
<1>4. OneRowPerDeal' /\ Survives
  BY <1>1 DEF OneRowPerDeal, Survives, tracker, IInv
<1>5. req[p].alone => \A w \in Rows : link'[w] = d =>
        /\ label'[w] = req[p].label /\ place'[w] = req[p].site
        /\ place'[w] = site'[d] /\ deal'[d] = "live"
  BY <1>1, <1>2 DEF Agreeing, Editing, LinkedTo, IInv, TypeOK, tracker
<1>6. req[p].alone => deal'[d] = "live"
  BY <1>1, <1>2 DEF Agreeing, Editing
<1>7. CASE req[p].label = None
  <2>1. PICK r : r = [req[p] EXCEPT !.pc = "ok", !.stage = None, !.site = None,
                                    !.label = None, !.scan = None]
    OBVIOUS
  <2>2. /\ r \in Calls /\ r.pc = "ok" /\ r.deal = d /\ r.op = "edit"
        /\ r.kept = req[p].kept /\ r.alone = req[p].alone
    BY <1>2, <2>1 DEF Calls, Points, Standing, Editing
  <2>3. Standing(r)'
    BY <1>1, <1>2, <2>2 DEF Standing, Pushing, Editing, DealWrites
  <2>4. MapTrackerStageToDeal(None) = None
    BY DEF MapTrackerStageToDeal
  <2>5. r.alone => Agreeing(r)'
    BY <1>5, <1>7, <2>2, <2>4 DEF Agreeing, Pushing, Editing, LinkedTo
  <2>6. r.kept # None => Keeping(r)'
    BY <1>1, <1>2, <1>5, <2>2 DEF Keeping, LinkedTo, tracker
  <2> QED
    BY <1>1, <1>2, <1>3, <1>4, <1>7, <2>1, <2>2, <2>3, <2>5, <2>6, Going, ZenonT(60)
      DEF CallsSound, Sound, Continue, Finish, IInv
<1>8. CASE req[p].label # None
  <2>1. PICK r : r = [req[p] EXCEPT !.pc = "pushed"]
    OBVIOUS
  <2>2. /\ r \in Calls /\ r.pc = "pushed" /\ r.deal = d /\ r.op = "edit"
        /\ r.label = req[p].label
        /\ r.kept = req[p].kept /\ r.alone = req[p].alone
    BY <1>2, <2>1 DEF Calls, Points, Standing, Editing
  <2>3. Standing(r)'
    BY <1>1, <1>2, <2>2 DEF Standing, Pushing, Editing, DealWrites
  <2>4. r.alone => Agreeing(r)'
    BY <1>5, <1>6, <2>2 DEF Agreeing, Pushing, Editing, LinkedTo
  <2>5. r.kept # None => Keeping(r)'
    BY <1>1, <1>2, <2>2 DEF Keeping, LinkedTo, tracker
  <2> QED
    BY <1>1, <1>2, <1>3, <1>4, <1>8, <2>1, <2>2, <2>3, <2>4, <2>5, Going, ZenonT(60)
      DEF CallsSound, Sound, Continue, Goto, IInv
<1> QED
  BY <1>7, <1>8

(* The two guards of the push onto a deal: a stage that is displayed as    *)
(* the label stays, and so does the target itself.                         *)
LEMMA Displayed ==
  ASSUME NEW s \in Stages, NEW l
  PROVE  /\ MapTrackerStageToDeal(l) # None =>
              (s \in {MapTrackerStageToDeal(l)} \cup dealStagesFor(l) <=> l \in trackerLabelsFor(s))
         /\ MapTrackerStageToDeal(l) # None =>
              /\ MapTrackerStageToDeal(l) \in Stages
              /\ l \in trackerLabelsFor(MapTrackerStageToDeal(l))
         /\ l \in trackerLabelsFor(s) => MapTrackerStageToDeal(l) # None
  BY PipelineAssumption, Vocabularies
    DEF MapTrackerStageToDeal, dealStagesFor, trackerLabelsFor

LEMMA SyncStageToDealKeeps ==
  ASSUME IInv, NEW p \in Requests, SyncStageToDeal(p)
  PROVE  IInv'
<1> USE PipelineAssumption
<1> DEFINE d == req[p].deal
           target == MapTrackerStageToDeal(req[p].label)
           moves == /\ target # None /\ deal[d] = "live"
                    /\ stage[d] \notin {target} \cup dealStagesFor(req[p].label)
           answer == IF moves /\ target \notin StoredStages THEN "error" ELSE "ok"
<1>1. /\ At(p, "pushed") /\ UNCHANGED <<asked, deal, site, account, tracker>>
      /\ stage' = IF moves /\ target \in StoredStages
                    THEN [stage EXCEPT ![d] = target] ELSE stage
      /\ Finish(p, answer)
  BY DEF SyncStageToDeal
<1>2. /\ req[p] \in Calls /\ Standing(req[p])
      /\ req[p].alone => Agreeing(req[p])
      /\ req[p].kept # None => req[p].alone /\ Keeping(req[p])
      /\ req[p].pc = "pushed" /\ ~ At(p, "idle") /\ req[p].deal \in Deals
      /\ deal[req[p].deal] # "absent"
  BY <1>1, InFlight DEF Points
<1> HIDE DEF target
<1>3. None \notin StoredStages
  BY DEF StoredStages
<1>4. TypeOK'
  BY <1>1, <1>2, <1>3 DEF IInv, TypeOK, tracker
<1>5. OneRowPerDeal' /\ Survives
  BY <1>1 DEF OneRowPerDeal, Survives, tracker, IInv
<1>6. PICK r : r = [req[p] EXCEPT !.pc = answer, !.stage = None, !.site = None,
                                  !.label = None, !.scan = None]
  OBVIOUS
<1>7. /\ r \in Calls /\ r.pc = answer /\ r.deal = d /\ r.op = "edit"
      /\ r.kept = req[p].kept /\ r.alone = req[p].alone
  BY <1>2, <1>6, ZenonT(60) DEF Calls, Points, Standing, Editing
<1>8. Standing(r)'
  BY <1>1, <1>2, <1>7 DEF Standing, Pushing, Editing, DealWrites
<1>9. req[p].alone => deal[d] = "live" /\ stage[d] \in StoredStages /\ stage[d] \in Stages
  BY <1>2 DEF Agreeing, Editing, IInv, TypeOK, StoredStages
<1>10. req[p].alone /\ target # None /\ answer = "ok" => req[p].label \in trackerLabelsFor(stage'[d])
  BY <1>1, <1>2, <1>9, Displayed DEF IInv, TypeOK, target
<1>11. req[p].alone => \A w \in Rows : link'[w] = d =>
         label'[w] = req[p].label /\ place'[w] = site'[d]
  BY <1>1, <1>2 DEF Agreeing, Editing, LinkedTo, tracker
<1>12. r.alone => Agreeing(r)'
  BY <1>7, <1>10, <1>11 DEF Agreeing, Pushing, Editing, LinkedTo, InStep, target
<1>13. ASSUME r.kept # None PROVE Keeping(r)'
  <2>1. PICK w \in Rows : /\ link[w] = d /\ req[p].kept = <<stage[d], label[w]>>
                          /\ label[w] \in trackerLabelsFor(stage[d])
    BY <1>2, <1>7, <1>13 DEF Keeping, LinkedTo
  <2>2. req[p].alone /\ label[w] = req[p].label
    BY <1>2, <1>7, <1>13, <2>1 DEF Agreeing, Editing, LinkedTo
  <2>3. ~ moves
    BY <1>9, <2>1, <2>2, Displayed DEF target
  <2>4. stage' = stage
    BY <1>1, <2>3
  <2>5. link'[w] = d /\ place'[w] = site'[d] /\ label'[w] = label[w]
    BY <1>1, <1>11, <2>1, <2>2 DEF tracker
  <2> QED
    BY <1>7, <2>1, <2>4, <2>5 DEF Keeping, LinkedTo
<1>14. req' = [req EXCEPT ![p] = r]
  BY <1>1, <1>6 DEF Finish, Continue
<1>15. r.pc # "idle"
  BY <1>7
<1>16. Sound(r)'
  BY <1>8, <1>12, <1>13, <1>15, <1>2, <1>7 DEF Sound
<1> HIDE DEF answer
<1> QED
  BY <1>2, <1>4, <1>5, <1>7, <1>14, <1>16, Going DEF CallsSound, IInv

LEMMA AnswerKeeps ==
  ASSUME IInv, NEW p \in Requests, Answer(p)
  PROVE  IInv'
<1> USE PipelineAssumption
<1>1. TypeOK' /\ OneRowPerDeal' /\ Survives
  BY Reading DEF Answer
<1>2. PICK r : r = Idle
  OBVIOUS
<1>3. r \in Calls /\ r.pc = "idle" /\ ~ r.alone /\ r.kept = None /\ r = Idle
  BY <1>2 DEF Idle, Calls, Points, Ops
<1>4. Standing(r)'
  BY <1>3 DEF Standing, Pushing, Editing, Idle
<1> QED
  BY <1>1, <1>2, <1>3, <1>4, Going DEF CallsSound, Sound, Continue, IInv, Answer, At

(* A call whose row is deleted under it remembers that it was.             *)
LEMMA DeleteRowKeeps ==
  ASSUME IInv, DeleteRow
  PROVE  IInv'
<1> USE PipelineAssumption
<1>1. PICK w \in Rows :
        /\ link[w] # Absent
        /\ link' = [link EXCEPT ![w] = Absent]
        /\ WriteRow(w, None, None, None)
        /\ req' = [q \in Requests |->
             [Disturbed(q) EXCEPT !.cut = @ \/ (~ At(q, "idle") /\ req[q].deal = link[w])]]
  BY DEF DeleteRow
<1>2. UNCHANGED <<asked, board>>
  BY DEF DeleteRow
<1>3. TypeOK'
  BY <1>1, <1>2 DEF IInv, TypeOK, WriteRow, board
<1>4. OneRowPerDeal'
  BY <1>1, <1>2 DEF IInv, TypeOK, OneRowPerDeal, board
<1>5. Calls' = Calls
  BY <1>2 DEF Calls, Said2
<1>6. ASSUME NEW q \in Requests
      PROVE  req'[q] \in Calls /\ Sound(req[q])' /\ ~ req'[q].alone
  <2>1. PICK r : r = [Disturbed(q) EXCEPT
                        !.cut = @ \/ (~ At(q, "idle") /\ req[q].deal = link[w])]
    OBVIOUS
  <2>2. req'[q] = r
    BY <1>1, <2>1
  <2>3. req[q] \in Calls /\ Standing(req[q])
    BY DEF IInv, CallInv, Sound
  <2>4. CASE req[q].pc = "idle"
    <3>1. r = [Idle EXCEPT !.cut = FALSE]
      BY <2>1, <2>4 DEF Disturbed, Idle, At
    <3>2. r = Idle
      BY <3>1 DEF Idle
    <3>3. Idle \in Calls /\ Standing(Idle)' /\ ~ Idle.alone /\ Idle.kept = None
      BY DEF Idle, Calls, Points, Ops, Standing, Pushing, Editing
    <3> QED
      BY <2>2, <3>2, <3>3 DEF Sound
  <2>5. CASE req[q].pc # "idle"
    <3>1. PICK cut \in BOOLEAN : cut = (req[q].cut \/ req[q].deal = link[w])
      OBVIOUS
    <3>2. r = Sever(req[q], cut)
      BY <2>1, <2>3, <2>5, <3>1 DEF Sever, Disturbed, At, Calls
    <3>3. /\ r \in Calls /\ ~ r.alone /\ r.kept = None /\ r.pc = req[q].pc
          /\ r.deal = req[q].deal /\ r.op = req[q].op
          /\ r.stage = req[q].stage /\ r.scan = req[q].scan
          /\ r.cut = (req[q].cut \/ req[q].deal = link[w])
      BY <2>3, <3>1, <3>2, Severed
    <3>4. ASSUME Tracked(req[q]) PROVE Tracked(r)'
      <4>1. CASE req[q].deal = link[w] \/ req[q].cut
        BY <3>3, <4>1 DEF Tracked
      <4>2. CASE deal[req[q].deal] = "retired"
        BY <1>2, <3>3, <4>2 DEF Tracked, board
      <4>3. CASE LinkedTo(req[q].deal) # {} /\ req[q].deal # link[w]
        <5>1. PICK v \in Rows : link[v] = req[q].deal
          BY <4>3 DEF LinkedTo
        <5>2. link'[v] = r.deal
          BY <1>1, <3>3, <4>3, <5>1 DEF IInv, TypeOK
        <5> QED
          BY <5>2 DEF Tracked, LinkedTo
      <4> QED
        BY <3>4, <4>1, <4>2, <4>3 DEF Tracked
    <3>5. Standing(r)'
      BY <1>2, <2>3, <2>5, <3>3, <3>4 DEF Standing, board
    <3> QED
      BY <2>2, <3>3, <3>5 DEF Sound
  <2> QED
    BY <2>4, <2>5
<1>7. CallsSound'
  BY <1>1, <1>5, <1>6 DEF CallsSound, CallInv, OneAlone
<1> QED
  BY <1>3, <1>4, <1>7 DEF IInv, CallsSound

LEMMA Inductive == IInv /\ [Next]_vars => IInv'
<1> SUFFICES ASSUME IInv, [Next]_vars PROVE IInv'
  OBVIOUS
<1>1. CASE UNCHANGED vars
  <2>1. TypeOK' /\ OneRowPerDeal' /\ Calls' = Calls
    BY <1>1, Reading DEF vars, Calls, Said2
  <2>2. \A r : Sound(r)' = Sound(r)
    BY <1>1 DEF vars, board, tracker, Sound, Standing, Agreeing, Keeping, Tracked, InStep, LinkedTo
  <2> QED
    BY <1>1, <2>1, <2>2 DEF IInv, CallInv, OneAlone, vars
<1>2. ASSUME NEW p \in Requests,
             \/ CreateDeal(p) \/ UpdateDeal(p) \/ MoveDeal(p) \/ ConvertLead(p)
             \/ setLocations(p) \/ GetDeal(p) \/ EnsureScan(p)
             \/ EnsureAdopt(p) \/ EnsureInsert(p) \/ EnsureRefused(p) \/ SyncFromDeal(p)
             \/ UpdateRow(p) \/ PushRow(p) \/ SyncStageToDeal(p)
             \/ Answer(p)
      PROVE  IInv'
  BY <1>2, CreateDealKeeps, UpdateDealKeeps, MoveDealKeeps, ConvertLeadKeeps,
     setLocationsKeeps, GetDealKeeps, EnsureScanKeeps, EnsureAdoptKeeps, EnsureInsertKeeps,
     EnsureRefusedKeeps, SyncFromDealKeeps, UpdateRowKeeps, PushRowKeeps,
     SyncStageToDealKeeps, AnswerKeeps
<1> QED
  BY <1>1, <1>2, DeleteDealKeeps, CreateRowKeeps, UpdateUnlinkedRowKeeps, DeleteRowKeeps DEF Next

(* The induction: what a call in flight may rely on is true throughout.    *)
THEOREM Invariance == Spec => []IInv
  BY InitIInv, Inductive, PTL DEF Spec

-----------------------------------------------------------------------------
(* The tables keep their types, a deal that is not live has no stage and a *)
(* row that does not exist no label.                                       *)
THEOREM TypeCorrect == Spec => []TypeOK
<1>1. IInv => TypeOK
  BY DEF IInv
<1> QED
  BY <1>1, Invariance, PTL

(* However many calls race, EnsureRowForDeal's index keeps a deal at one   *)
(* row, and every call that was told "ok" has left its deal with one.      *)
THEOREM EveryDealIsTracked == Spec => []DealsAreTracked
<1>1. IInv => DealsAreTracked
  <2> SUFFICES ASSUME IInv PROVE DealsAreTracked
    OBVIOUS
  <2>1. AnsweredMeansTracked
    BY DEF IInv, CallInv, Sound, Standing, AnsweredMeansTracked, At, Tracked
  <2> QED
    BY <2>1 DEF IInv, DealsAreTracked
<1> QED
  BY <1>1, Invariance, PTL

(* link.go's loop closes: a write that nothing interleaved with leaves the *)
(* board and the tracker in agreement, and a repeated one moves nothing.   *)
THEOREM TheBoardsAgree == Spec => []BoardsAgree
<1>1. IInv => BoardsAgree
  <2> SUFFICES ASSUME IInv PROVE BoardsAgree
    OBVIOUS
  <2>1. UndisturbedWriteAgrees
    BY DEF IInv, CallInv, Sound, Agreeing, UndisturbedWriteAgrees, At, LinkedTo
  <2>2. ASSUME NEW p \in Requests, Ended(p), req[p].kept # None
        PROVE  Said(req[p].deal) = req[p].kept
    <3>1. Keeping(req[p]) /\ (At(p, "ok") \/ At(p, "error")) /\ req[p].deal \in Deals
      BY <2>2 DEF IInv, CallInv, Sound, Standing, Ended, At
    <3>2. PICK w \in Rows : /\ InStep(req[p].deal, w)
                            /\ req[p].kept = <<stage[req[p].deal], label[w]>>
      BY <3>1 DEF Keeping, LinkedTo, InStep, At
    <3>3. \A v \in Rows : InStep(req[p].deal, v) => v = w
      BY <3>1, <3>2 DEF IInv, OneRowPerDeal, InStep
    <3>4. (CHOOSE v \in Rows : InStep(req[p].deal, v)) = w
      BY <3>2, <3>3
    <3> QED
      BY <3>2, <3>4 DEF Said
  <2> QED
    BY <2>1, <2>2 DEF BoardsAgree, SavingAgainMovesNothing
<1> QED
  BY <1>1, Invariance, PTL

(* No write of one deal, and no adoption, takes the row of another: a row  *)
(* leaves its deal when the deal is retired or the row is deleted.         *)
THEOREM NoRowIsTaken == Spec => RowsAreNotTaken
<1> DEFINE Taken == \A w \in Rows :
             link[w] \in Deals /\ link'[w] # link[w] =>
               link'[w] = Absent \/ (link'[w] = None /\ deal'[link[w]] = "retired")
<1>1. IInv /\ [Next]_vars => [Taken]_vars
  <2> SUFFICES ASSUME IInv, Next PROVE Taken
    BY DEF vars
  <2> USE PipelineAssumption DEF tracker
  <2>1. CASE link' = link
    BY <2>1
  <2>2. ASSUME NEW p \in Requests, EnsureAdopt(p) PROVE Taken
    BY <2>2 DEF EnsureAdopt, Adoptable, IInv, TypeOK
  <2>3. ASSUME NEW p \in Requests, EnsureInsert(p) PROVE Taken
    BY <2>3 DEF EnsureInsert, LinkedTo, IInv, TypeOK
  <2>4. CASE DeleteDeal
    BY <2>4 DEF DeleteDeal, IInv, TypeOK
  <2>5. CASE CreateRow
    BY <2>5 DEF CreateRow, LinkedTo, IInv, TypeOK
  <2>6. CASE DeleteRow
    BY <2>6, SMTT(60) DEF DeleteRow, IInv, TypeOK
  <2>7. ASSUME NEW p \in Requests,
               \/ CreateDeal(p) \/ UpdateDeal(p) \/ MoveDeal(p) \/ ConvertLead(p)
               \/ setLocations(p) \/ GetDeal(p) \/ EnsureScan(p)
               \/ EnsureRefused(p) \/ SyncFromDeal(p) \/ Answer(p)
               \/ UpdateRow(p) \/ PushRow(p) \/ SyncStageToDeal(p)
        PROVE  link' = link
    BY <2>7 DEF CreateDeal, UpdateDeal, MoveDeal, ConvertLead, setLocations, GetDeal,
       EnsureScan, EnsureRefused, SyncFromDeal, Answer, UpdateRow, PushRow, SyncStageToDeal
  <2>8. CASE UpdateUnlinkedRow
    BY <2>8 DEF UpdateUnlinkedRow
  <2> QED
    BY <2>1, <2>2, <2>3, <2>4, <2>5, <2>6, <2>7, <2>8 DEF Next
<1> QED
  BY <1>1, Invariance, PTL DEF Spec, RowsAreNotTaken

-----------------------------------------------------------------------------
(* Sites: what its variables hold.                                         *)
Placing == UNION {[S -> Nat] : S \in SUBSET Plants}
Names   == SiteNames \cup {NoSite}
Wording == Typed \cup {<<>>} \cup UNION {[1 .. n -> Names] : n \in Nat}
Choices == Picks \cup {<<>>}
Typing  == Typed \cup {<<>>}
SavePoints == {"rest", "clear", "cut", "link", "join", "type", "text", "commit"}
PlantType  == [owner : Owners \cup {NoSite}, name : Names, archived : BOOLEAN]
JobType    == [text : Wording, links : Placing]
SaveType   == [pc : SavePoints, d : Jobs \cup {NoSite}, ids : Choices, typed : Typing,
               seen : SUBSET Plants, cut : SUBSET Plants, put : Placing, text : Wording]
PickType   == [ids : Choices, typed : Typing, stored : SUBSET Plants]

SitesType ==
  /\ plant \in [Plants -> PlantType] /\ open \subseteq Owners
  /\ job \in [Jobs -> JobType]
  /\ save \in [Saves -> SaveType]
  /\ pick \in [Jobs -> PickType]
  /\ torn \subseteq Jobs

(* The links are those of the choice of deal d.                            *)
Chosen(links, d) ==
  /\ pick[d].stored \subseteq DOMAIN links /\ DOMAIN links \subseteq Picked(pick[d].ids)
  /\ \A p \in DOMAIN links : links[p] = FirstAt(pick[d].ids, p)

(* The text is that of the links.                                          *)
Told(text, links, d) ==
  IF DOMAIN links = {} THEN text = pick[d].typed ELSE text \in Joined(links)

AllStored(S) == \A p \in S : Stored(p)

(* What a save knows that no other has crossed.                            *)
SaveKnows(me) ==
  LET d == me.d IN
  /\ me.ids = pick[d].ids /\ me.typed = pick[d].typed /\ job[d].text = me.typed
  /\ me.pc = "cut" => me.seen = DOMAIN job[d].links
  /\ me.pc \in {"link", "join", "type", "text", "commit"} => me.cut = DOMAIN job[d].links
  /\ me.pc = "type" => me.ids = <<>>
  /\ me.pc \in {"type", "join", "text", "commit"} => Chosen(me.put, d)
  /\ me.pc = "text" => \/ DOMAIN me.put = {} /\ me.text = <<>>
                       \/ Told(me.text, me.put, d)
  /\ me.pc = "commit" => Told(me.text, me.put, d)

SaveRight(c) ==
  LET me == save[c] IN
  /\ me.pc = "rest" <=> me.d = NoSite
  /\ AllStored(DOMAIN me.put)
  /\ me.pc \in {"clear", "cut", "link", "type"} => DOMAIN me.put = {}
  /\ me.pc # "rest" /\ me.d \notin torn => SaveKnows(me)

JobRight(d) ==
  /\ AllStored(DOMAIN job[d].links)
  /\ pick[d].stored \subseteq Picked(pick[d].ids) /\ AllStored(pick[d].stored)
  /\ Settled(d) => Chosen(job[d].links, d) /\ Told(job[d].text, job[d].links, d)

AloneInv ==
  /\ \A b, c \in Saves : save[b].d = save[c].d /\ save[b].pc = "commit" /\ save[c].pc = "commit" => b = c
  /\ \A b, c \in Saves : save[b].d = save[c].d /\ save[b].d # NoSite /\ save[b].d \notin torn => b = c

SitesInv ==
  /\ SitesType
  /\ \A c \in Saves : SaveRight(c)
  /\ \A d \in Jobs : JobRight(d)
  /\ AloneInv

-----------------------------------------------------------------------------
(* Numbers, and the order of what was picked.                              *)
LEMMA Least == ASSUME NEW T \in SUBSET Nat, T # {} PROVE \E n \in T : \A m \in T : n <= m
<1>1. PICK R : R = OpToRel(<,Nat)
  OBVIOUS
<1>2. IsWellFoundedOn(R, Nat)
  BY <1>1, NatLessThanWellFounded, Zenon
<1>3. \A i, j \in Nat : i < j => <<i, j>> \in R
  BY <1>1 DEF OpToRel
<1>4. PICK n \in T : \A m \in T : ~ (<<m, n>> \in R)
  BY <1>2, WFMin, Zenon
<1>5. ASSUME NEW m \in T PROVE n <= m
  <2>1. ~ (m < n)
    BY <1>3, <1>4
  <2> QED
    BY <2>1
<1> QED
  BY <1>5

LEMMA FirstAtFinds ==
  ASSUME NEW ids \in Seq(Plants), NEW p \in Picked(ids)
  PROVE  FirstAt(ids, p) \in DOMAIN ids /\ FirstAt(ids, p) \in Nat /\ ids[FirstAt(ids, p)] = p
<1>1. DOMAIN ids = 1 .. Len(ids) /\ Len(ids) \in Nat
  BY LenProperties
<1> DEFINE at == {k \in DOMAIN ids : ids[k] = p}
<1>2. at \in SUBSET Nat /\ at # {}
  BY <1>1 DEF Picked
<1>3. PICK n \in at : \A m \in at : n <= m
  BY <1>2, Least
<1>4. ids[n] = p /\ n \in DOMAIN ids /\ \A j \in 1 .. n-1 : ids[j] # p
  BY <1>1, <1>3
<1>5. ids[FirstAt(ids, p)] = p /\ FirstAt(ids, p) \in DOMAIN ids
  BY <1>4 DEF FirstAt
<1> QED
  BY <1>1, <1>5

LEMMA ChoicesAreTexts == \A ids \in Choices : ids \in Seq(Plants)
  BY SitesAssumption, EmptySeq DEF Choices

(* Whatever is chosen has a place of its own.                              *)
LEMMA ChosenApart ==
  ASSUME NEW d \in Jobs, pick[d] \in PickType, NEW links, Chosen(links, d),
         NEW p \in DOMAIN links, NEW q \in DOMAIN links, links[p] = links[q]
  PROVE  p = q
<1>1. pick[d].ids \in Seq(Plants)
  BY ChoicesAreTexts DEF PickType
<1>2. p \in Picked(pick[d].ids) /\ q \in Picked(pick[d].ids)
  BY DEF Chosen
<1>3. links[p] = FirstAt(pick[d].ids, p) /\ links[q] = FirstAt(pick[d].ids, q)
  BY DEF Chosen
<1> QED
  BY <1>1, <1>2, <1>3, FirstAtFinds

(* The orders of some sites by position.                                   *)
Orders(links) ==
  {q \in [1 .. Cardinality(DOMAIN links) -> DOMAIN links] :
     \A i, j \in DOMAIN q : i < j => q[i] # q[j] /\ links[q[i]] <= links[q[j]]}

LEMMA OrdersJoin == \A links : Joined(links) = {[k \in DOMAIN q |-> plant[q[k]].name] : q \in Orders(links)}
  BY DEF Joined, Orders

LEMMA PlacedSites ==
  ASSUME NEW links \in Placing
  PROVE  /\ DOMAIN links \subseteq Plants /\ links \in [DOMAIN links -> Nat]
         /\ IsFiniteSet(DOMAIN links) /\ Cardinality(DOMAIN links) \in Nat
         /\ Cardinality(DOMAIN links) = 0 <=> DOMAIN links = {}
<1>1. DOMAIN links \subseteq Plants /\ links \in [DOMAIN links -> Nat]
  BY DEF Placing
<1>2. IsFiniteSet(DOMAIN links)
  BY <1>1, SitesAssumption, FS_Subset
<1> QED
  BY <1>1, <1>2, FS_CardinalityType, FS_EmptySet

(* An order names every site.                                              *)
LEMMA OrderNamesAll ==
  ASSUME NEW links \in Placing, NEW q \in Orders(links)
  PROVE  \A p \in DOMAIN links : \E i \in 1 .. Cardinality(DOMAIN links) : q[i] = p
<1> DEFINE n == Cardinality(DOMAIN links)
<1>1. n \in Nat /\ IsFiniteSet(DOMAIN links)
  BY PlacedSites
<1>2. q \in [1 .. n -> DOMAIN links]
  BY DEF Orders
<1>3. \A i, j \in 1 .. n : q[i] = q[j] => i = j
  BY <1>1 DEF Orders
<1>4. q \in Injection(1 .. n, DOMAIN links)
  BY <1>2, <1>3, Fun_IsInj
<1>5. Cardinality(1 .. n) = n
  BY <1>1, FS_Interval
<1>6. q \in Surjection(1 .. n, DOMAIN links)
  BY <1>1, <1>4, <1>5, FS_Injection
<1> QED
  BY <1>6 DEF Surjection

(* Sites at places of their own have one order.                            *)
LEMMA OneOrder ==
  ASSUME NEW links \in Placing, \A p, r \in DOMAIN links : links[p] = links[r] => p = r,
         NEW q \in Orders(links), NEW r \in Orders(links)
  PROVE  q = r
<1> DEFINE n == Cardinality(DOMAIN links)
           apart == {k \in 1 .. n : q[k] # r[k]}
<1>1. n \in Nat /\ links \in [DOMAIN links -> Nat]
  BY PlacedSites
<1>2. q \in [1 .. n -> DOMAIN links] /\ r \in [1 .. n -> DOMAIN links]
  BY DEF Orders
<1>3. \A i, j \in 1 .. n : i < j => links[q[i]] <= links[q[j]] /\ q[i] # q[j]
  BY <1>2 DEF Orders
<1>4. \A i, j \in 1 .. n : i < j => links[r[i]] <= links[r[j]] /\ r[i] # r[j]
  BY <1>2 DEF Orders
<1>5. \A p \in DOMAIN links : (\E i \in 1 .. n : q[i] = p) /\ (\E i \in 1 .. n : r[i] = p)
  BY OrderNamesAll
<1> HIDE DEF n
<1>6. apart = {}
  <2> SUFFICES ASSUME apart # {} PROVE FALSE
    OBVIOUS
  <2>1. apart \in SUBSET Nat
    BY <1>1
  <2>2. PICK k \in apart : \A m \in apart : k <= m
    BY <2>1, Least
  <2>3. k \in 1 .. n /\ q[k] # r[k] /\ \A j \in 1 .. n : j < k => q[j] = r[j]
    BY <1>1, <2>2
  <2>4. PICK i \in 1 .. n : r[i] = q[k]
    BY <1>2, <1>5, <2>3
  <2>5. PICK j \in 1 .. n : q[j] = r[k]
    BY <1>2, <1>5, <2>3
  <2>6. i > k
    BY <1>1, <1>3, <2>3, <2>4
  <2>7. j > k
    BY <1>1, <1>4, <2>3, <2>5
  <2>8. links[r[k]] <= links[r[i]] /\ links[q[k]] <= links[q[j]]
    BY <1>3, <1>4, <1>1, <2>3, <2>6, <2>7
  <2>9. links[q[k]] = links[r[k]]
    <3>1. links[q[k]] \in Nat /\ links[r[k]] \in Nat
      BY <1>1, <1>2, <2>3
    <3> QED
      BY <2>4, <2>5, <2>8, <3>1
  <2> QED
    BY <1>2, <2>3, <2>9
<1>7. \A k \in 1 .. n : q[k] = r[k]
  BY <1>6
<1>8. [k \in 1 .. n |-> q[k]] = [k \in 1 .. n |-> r[k]]
  BY <1>7
<1>9. q = [k \in 1 .. n |-> q[k]] /\ r = [k \in 1 .. n |-> r[k]]
  BY <1>2
<1> QED
  BY <1>8, <1>9

LEMMA OneText ==
  ASSUME NEW links \in Placing, \A p, r \in DOMAIN links : links[p] = links[r] => p = r,
         NEW text, text \in Joined(links)
  PROVE  Joined(links) = {text}
<1>1. PICK q \in Orders(links) : text = [k \in DOMAIN q |-> plant[q[k]].name]
  BY OrdersJoin
<1>2. \A r \in Orders(links) : r = q
  BY OneOrder
<1> QED
  BY <1>1, <1>2, OrdersJoin

LEMMA TextType ==
  ASSUME SitesType, NEW links \in Placing, NEW text \in Joined(links)
  PROVE  /\ text \in Wording
         /\ DOMAIN links = {} => text = <<>>
         /\ DOMAIN links # {} => text # <<>>
<1> DEFINE n == Cardinality(DOMAIN links)
<1>1. PICK q \in Orders(links) : text = [k \in DOMAIN q |-> plant[q[k]].name]
  BY OrdersJoin
<1>2. n \in Nat /\ DOMAIN links \subseteq Plants /\ (n = 0 <=> DOMAIN links = {})
  BY PlacedSites
<1>3. q \in [1 .. n -> DOMAIN links]
  BY DEF Orders
<1> HIDE DEF n
<1>4. \A p \in Plants : plant[p].name \in Names
  BY DEF SitesType, PlantType
<1>5. text \in [1 .. n -> Names]
  BY <1>1, <1>2, <1>3, <1>4
<1>6. text \in Wording
  BY <1>2, <1>5 DEF Wording
<1>7. text \in Seq(Names) /\ Len(text) = n
  BY <1>2, <1>5, SeqDef
<1> QED
  BY <1>2, <1>6, <1>7, EmptySeq

-----------------------------------------------------------------------------
(* What stays the same.                                                    *)
LEMMA JoinedStays ==
  ASSUME NEW links \in Placing, \A p \in DOMAIN links : plant'[p].name = plant[p].name
  PROVE  Joined(links)' = Joined(links)
<1>1. \A q \in Orders(links) :
        [k \in DOMAIN q |-> plant'[q[k]].name] = [k \in DOMAIN q |-> plant[q[k]].name]
  BY DEF Orders
<1>2. Joined(links)' = {[k \in DOMAIN q |-> plant'[q[k]].name] : q \in Orders(links)}
  BY DEF Joined, Orders
<1> QED
  BY <1>1, <1>2, OrdersJoin

LEMMA ToldStays ==
  ASSUME NEW links \in Placing, NEW text, NEW d, pick'[d] = pick[d],
         \A p \in DOMAIN links : plant'[p].name = plant[p].name
  PROVE  Told(text, links, d)' <=> Told(text, links, d)
BY JoinedStays DEF Told

LEMMA ChosenStays ==
  ASSUME NEW links, NEW d, pick'[d] = pick[d]
  PROVE  Chosen(links, d)' <=> Chosen(links, d)
BY DEF Chosen, FirstAt, Picked

(* A save knows what it knew, while its deal and the names of the sites it *)
(* links keep.                                                             *)
LEMMA KnowsStays ==
  ASSUME NEW me \in SaveType, SaveKnows(me), pick'[me.d] = pick[me.d], job'[me.d] = job[me.d],
         \A p \in DOMAIN me.put : plant'[p].name = plant[p].name
  PROVE  SaveKnows(me)'
<1>1. me.put \in Placing
  BY DEF SaveType
<1>2. /\ Chosen(me.put, me.d)' <=> Chosen(me.put, me.d)
      /\ Told(me.text, me.put, me.d)' <=> Told(me.text, me.put, me.d)
  BY <1>1, ChosenStays, ToldStays
<1> HIDE DEF Chosen, Told
<1> QED
  BY <1>2 DEF SaveKnows

LEMMA JobStays ==
  ASSUME SitesInv, NEW d \in Jobs, pick'[d] = pick[d], job'[d] = job[d],
         \A p \in Plants : Stored(p) => Stored(p)', Settled(d)' => Settled(d),
         Settled(d)' => \A p \in DOMAIN job[d].links : plant'[p].name = plant[p].name
  PROVE  JobRight(d)'
<1>1. JobRight(d) /\ job[d].links \in Placing /\ DOMAIN job[d].links \subseteq Plants /\ pick[d].stored \subseteq Plants
  BY PlacedSites DEF SitesInv, SitesType, JobType, PickType
<1>2. AllStored(DOMAIN job[d].links)' /\ AllStored(pick[d].stored)'
  BY <1>1 DEF JobRight, AllStored
<1>3. (pick[d].stored \subseteq Picked(pick[d].ids))'
  BY <1>1 DEF JobRight, Picked
<1>4. ASSUME Settled(d)'
      PROVE  Chosen(job[d].links, d)' /\ Told(job[d].text, job[d].links, d)'
  <2>1. Chosen(job[d].links, d) /\ Told(job[d].text, job[d].links, d)
    BY <1>1, <1>4 DEF JobRight
  <2>2. PICK links \in Placing : links = job[d].links
    BY <1>1
  <2>3. PICK text : text = job[d].text
    OBVIOUS
  <2>4. Chosen(links, d)' /\ Told(text, links, d)'
    BY <1>4, <2>1, <2>2, <2>3, ChosenStays, ToldStays
  <2> QED
    BY <2>2, <2>3, <2>4
<1> QED
  BY <1>2, <1>3, <1>4 DEF JobRight

(* Sites are added, renamed and archived: no save goes on.                 *)
LEMMA PlantsChange ==
  ASSUME SitesInv, SitesType', UNCHANGED <<job, save, pick>>, torn \subseteq torn',
         \A p \in Plants : Stored(p) => Stored(p)',
         \A d \in Jobs \ torn', p \in Plants :
           /\ Stored(p)
           /\ p \in DOMAIN job[d].links \/ \E c \in SavesOf(d) : p \in Picked(save[c].ids)
           => plant'[p].name = plant[p].name
  PROVE  SitesInv'
<1>1. ASSUME NEW c \in Saves PROVE SaveRight(c)'
  <2>1. SaveRight(c) /\ save[c] \in SaveType /\ save'[c] = save[c]
    BY DEF SitesInv, SitesType
  <2>2. save[c].put \in Placing /\ DOMAIN save[c].put \subseteq Plants /\ save[c].d \in Jobs \cup {NoSite}
    BY <2>1, PlacedSites DEF SaveType
  <2>3. AllStored(DOMAIN save[c].put)'
    BY <2>1, <2>2 DEF SaveRight, AllStored
  <2>4. ASSUME save[c].pc # "rest", save[c].d \notin torn' PROVE SaveKnows(save[c])'
    <3>1. SaveKnows(save[c]) /\ save[c].d \in Jobs \ torn' /\ c \in SavesOf(save[c].d)
      BY <2>1, <2>2, <2>4 DEF SaveRight, SavesOf
    <3>2. ASSUME NEW p \in DOMAIN save[c].put PROVE plant'[p].name = plant[p].name
      <4>1. Stored(p) /\ p \in Plants
        BY <2>1, <2>2, SMTT(60) DEF SaveRight, AllStored
      <4>2. p \in Picked(save[c].ids)
        BY <2>1, <2>4, <3>1 DEF SaveRight, SaveKnows, Chosen, SaveType, SavePoints
      <4> QED
        BY <3>1, <4>1, <4>2
    <3> QED
      BY <2>1, <3>1, <3>2, KnowsStays
  <2> QED
    BY <2>1, <2>3, <2>4 DEF SaveRight
<1>2. ASSUME NEW d \in Jobs PROVE JobRight(d)'
  <2>1. Settled(d)' => Settled(d) /\ d \notin torn'
    BY DEF Settled, SavesOf
  <2>2. ASSUME d \notin torn', NEW p \in DOMAIN job[d].links PROVE plant'[p].name = plant[p].name
    <3>1. Stored(p) /\ p \in Plants
      BY PlacedSites DEF SitesInv, SitesType, JobType, JobRight, AllStored
    <3> QED
      BY <2>2, <3>1
  <2> QED
    BY <2>1, <2>2, JobStays
<1>3. AloneInv'
  BY DEF SitesInv, AloneInv
<1> QED
  BY <1>1, <1>2, <1>3 DEF SitesInv

(* The save c goes on as x.                                                *)
LEMMA SaveGoesOn ==
  ASSUME SitesInv, NEW c \in Saves, NEW x \in SaveType, save' = [save EXCEPT ![c] = x],
         UNCHANGED <<plant, open, job, pick, torn>>,
         save[c].pc # "rest", x.pc # "rest", x.d = save[c].d, AllStored(DOMAIN x.put),
         x.pc \in {"clear", "cut", "link", "type"} => DOMAIN x.put = {},
         x.d \notin torn => SaveKnows(x), x.pc = "commit" => ~ TextHeld(x.d)
  PROVE  SitesInv'
<1>1. /\ SitesType /\ save \in [Saves -> SaveType] /\ save'[c] = x
      /\ \A b \in Saves \ {c} : save'[b] = save[b]
      /\ \A b \in Saves : save'[b].d = save[b].d
  BY DEF SitesInv, SitesType
<1>2. SitesType'
  BY <1>1 DEF SitesType
<1>3. ASSUME NEW me \in SaveType, me.pc # "rest" => SaveKnows(me) \/ me.d \in torn
      PROVE  me.pc # "rest" => SaveKnows(me)' \/ me.d \in torn
  BY <1>3, KnowsStays
<1>4. ASSUME NEW b \in Saves PROVE SaveRight(b)'
  <2>1. CASE b = c
    <3>1. x.d # NoSite
      BY <1>1 DEF SitesInv, SaveRight
    <3>2. x.d \notin torn => SaveKnows(x)'
      BY <1>3
    <3> QED
      BY <1>1, <2>1, <3>1, <3>2 DEF SaveRight, AllStored, Stored
  <2>2. CASE b # c
    <3>1. SaveRight(b) /\ save'[b] = save[b] /\ save[b] \in SaveType
      BY <1>1, <2>2 DEF SitesInv
    <3>2. save[b].pc # "rest" /\ save[b].d \notin torn => SaveKnows(save[b])'
      BY <1>3, <3>1 DEF SaveRight
    <3> QED
      BY <3>1, <3>2 DEF SaveRight, AllStored, Stored
  <2> QED
    BY <2>1, <2>2
<1>5. ASSUME NEW d \in Jobs PROVE JobRight(d)'
  <2>1. Settled(d)' => Settled(d)
    BY <1>1 DEF Settled, SavesOf
  <2>2. \A p \in Plants : Stored(p) => Stored(p)'
    BY DEF Stored
  <2> QED
    BY <2>1, <2>2, JobStays
<1>6. AloneInv'
  <2>1. x.pc = "commit" => \A b \in Saves \ {c} : save[b].d = x.d => save[b].pc # "commit"
    BY DEF TextHeld, SavesOf, Reached
  <2> QED
    BY <1>1, <2>1 DEF SitesInv, AloneInv
<1> QED
  BY <1>2, <1>4, <1>5, <1>6 DEF SitesInv

-----------------------------------------------------------------------------
(* The steps.                                                              *)
LEMMA PlantSteps ==
  ASSUME SitesInv,
         \/ \E p \in Plants, o \in Owners, n \in SiteNames : AddSite(p, o, n)
         \/ \E p \in Plants : archiveLocation(p) \/ \E n \in SiteNames : RenameSite(p, n)
         \/ \E o \in Owners : CloseOwner(o)
  PROVE  SitesInv'
<1>1. SitesType
  BY DEF SitesInv
<1>2. CASE \E p \in Plants, o \in Owners, n \in SiteNames : AddSite(p, o, n)
  <2>1. PICK p \in Plants, o \in Owners, n \in SiteNames : AddSite(p, o, n)
    BY <1>2
  <2>2. SitesType'
    BY <1>1, <2>1 DEF AddSite, SitesType, PlantType, Names
  <2>3. ASSUME NEW q \in Plants, Stored(q) PROVE Stored(q)' /\ plant'[q].name = plant[q].name
    BY <1>1, <2>1, <2>3 DEF AddSite, Stored, SitesType
  <2> QED
    BY <2>1, <2>2, <2>3, PlantsChange DEF AddSite
<1>3. CASE \E p \in Plants : archiveLocation(p)
  <2>1. PICK p \in Plants : archiveLocation(p)
    BY <1>3
  <2>2. SitesType'
    BY <1>1, <2>1 DEF archiveLocation, SitesType, PlantType
  <2>3. ASSUME NEW q \in Plants, Stored(q) PROVE Stored(q)' /\ plant'[q].name = plant[q].name
    BY <1>1, <2>1, <2>3 DEF archiveLocation, Stored, SitesType, PlantType
  <2> QED
    BY <2>1, <2>2, <2>3, PlantsChange DEF archiveLocation
<1>4. CASE \E p \in Plants, n \in SiteNames : RenameSite(p, n)
  <2>1. PICK p \in Plants, n \in SiteNames : RenameSite(p, n)
    BY <1>4
  <2>2. SitesType'
    BY <1>1, <2>1 DEF RenameSite, SitesType, PlantType, Names, Naming
  <2>3. ASSUME NEW q \in Plants, Stored(q) PROVE Stored(q)' /\ (q # p => plant'[q].name = plant[q].name)
    BY <1>1, <2>1, <2>3 DEF RenameSite, Stored, SitesType, PlantType
  <2>4. ASSUME NEW d \in Jobs \ torn'
        PROVE  ~ (p \in DOMAIN job[d].links \/ \E c \in SavesOf(d) : p \in Picked(save[c].ids))
    BY <2>1 DEF RenameSite, Naming
  <2> QED
    BY <2>1, <2>2, <2>3, <2>4, PlantsChange DEF RenameSite
<1>5. CASE \E o \in Owners : CloseOwner(o)
  <2>1. SitesType'
    BY <1>1, <1>5 DEF CloseOwner, SitesType
  <2> QED
    BY <1>5, <2>1, PlantsChange DEF CloseOwner, Stored
<1> QED
  BY <1>2, <1>3, <1>4, <1>5

(* What the transaction of c sees: of a deal that no other save crosses,   *)
(* what it put.                                                            *)
LEMMA SeenRight ==
  ASSUME SitesInv, NEW c \in Saves, save[c].pc \in {"join", "text", "commit"}
  PROVE  /\ Seen(c) \in Placing /\ AllStored(DOMAIN Seen(c)) /\ save[c].d \in Jobs
         /\ save[c].d \notin torn => Seen(c) = save[c].put
<1>1. /\ save[c] \in SaveType /\ SaveRight(c) /\ save[c].d \in Jobs
      /\ save[c].put \in Placing
  BY DEF SitesInv, SitesType, SaveType, SaveRight
<1>2. job[save[c].d] \in JobType /\ JobRight(save[c].d) /\ job[save[c].d].links \in Placing
  BY <1>1 DEF SitesInv, SitesType, JobType
<1> DEFINE old == job[save[c].d].links
           put == save[c].put
<1>3. DOMAIN Seen(c) = Kept(c) \cup DOMAIN put /\ Kept(c) \subseteq DOMAIN old
  BY DEF Seen, Kept
<1>4. /\ old \in [DOMAIN old -> Nat] /\ DOMAIN old \subseteq Plants
      /\ put \in [DOMAIN put -> Nat] /\ DOMAIN put \subseteq Plants
  BY <1>1, <1>2, PlacedSites
<1>5. Seen(c) \in [Kept(c) \cup DOMAIN put -> Nat]
  BY <1>3, <1>4 DEF Seen
<1>6. Seen(c) \in Placing
  BY <1>3, <1>4, <1>5 DEF Placing
<1>7. AllStored(DOMAIN Seen(c))
  BY <1>1, <1>2, <1>3 DEF AllStored, SaveRight, JobRight
<1>8. ASSUME save[c].d \notin torn PROVE Seen(c) = save[c].put
  <2>1. Kept(c) = {}
    BY <1>1, <1>8 DEF SaveRight, SaveKnows, Kept
  <2>2. Seen(c) = [p \in DOMAIN put |-> put[p]]
    BY <2>1 DEF Seen
  <2> QED
    BY <1>4, <2>2
<1> QED
  BY <1>1, <1>6, <1>7, <1>8

LEMMA SeeStep ==
  ASSUME SitesInv, NEW c \in Saves, SeeLinks(c)
  PROVE  SitesInv'
<1>1. /\ save[c] \in SaveType /\ SaveRight(c) /\ save[c].d \in Jobs /\ save[c].pc = "clear"
      /\ save \in [Saves -> SaveType]
  BY DEF SitesInv, SitesType, SaveType, SaveRight, SeeLinks, Reached
<1>2. job[save[c].d].links \in Placing /\ DOMAIN job[save[c].d].links \in SUBSET Plants
  BY <1>1, PlacedSites DEF SitesInv, SitesType, JobType
<1>3. PICK s \in SUBSET Plants : s = DOMAIN job[save[c].d].links
  BY <1>2
<1> DEFINE x == [save[c] EXCEPT !.pc = "cut", !.seen = s]
<1>4. /\ x \in SaveType /\ x.pc = "cut" /\ x.seen = s /\ x.d = save[c].d /\ x.put = save[c].put
      /\ x.ids = save[c].ids /\ x.typed = save[c].typed
  BY <1>1 DEF SaveType, SavePoints
<1>5. save' = [save EXCEPT ![c] = x]
  BY <1>1, <1>3 DEF SeeLinks
<1> HIDE DEF x
<1>6. x.d \notin torn => SaveKnows(x)
  BY <1>1, <1>3, <1>4 DEF SaveKnows, SaveRight
<1>7. AllStored(DOMAIN x.put) /\ DOMAIN x.put = {}
  BY <1>1, <1>4 DEF SaveRight
<1> QED
  BY <1>1, <1>4, <1>5, <1>6, <1>7, SaveGoesOn DEF SeeLinks

LEMMA CutStep ==
  ASSUME SitesInv, NEW c \in Saves, CutLinks(c)
  PROVE  SitesInv'
<1>1. /\ save[c] \in SaveType /\ SaveRight(c) /\ save[c].d \in Jobs /\ save[c].pc = "cut"
      /\ save \in [Saves -> SaveType]
  BY DEF SitesInv, SitesType, SaveType, SaveRight, CutLinks, Reached
<1>2. PICK s \in SUBSET Plants : s = save[c].seen \cap DOMAIN job[save[c].d].links
  BY <1>1 DEF SaveType
<1>3. PICK pc \in {"link", "type"} : pc = IF save[c].ids # <<>> THEN "link" ELSE "type"
  OBVIOUS
<1> DEFINE x == [save[c] EXCEPT !.pc = pc, !.cut = s]
<1>4. /\ x \in SaveType /\ x.pc = pc /\ x.cut = s /\ x.d = save[c].d /\ x.put = save[c].put
      /\ x.ids = save[c].ids /\ x.typed = save[c].typed
  BY <1>1 DEF SaveType, SavePoints
<1>5. save' = [save EXCEPT ![c] = x]
  BY <1>1, <1>2, <1>3 DEF CutLinks
<1> HIDE DEF x
<1>6. AllStored(DOMAIN x.put) /\ DOMAIN x.put = {}
  BY <1>1, <1>4 DEF SaveRight
<1>7. ASSUME x.d \notin torn PROVE SaveKnows(x)
  <2>1. SaveKnows(save[c]) /\ s = DOMAIN job[x.d].links
    BY <1>1, <1>2, <1>4, <1>7 DEF SaveRight, SaveKnows
  <2>2. ASSUME pc = "type" PROVE x.ids = <<>> /\ Chosen(x.put, x.d)
    <3>1. x.ids = <<>> /\ pick[x.d].ids = <<>>
      BY <1>3, <1>4, <2>1, <2>2 DEF SaveKnows
    <3>2. Picked(<<>>) = {}
      BY DEF Picked
    <3>3. pick[x.d].stored = {}
      BY <1>1, <1>4, <3>1, <3>2, SMTT(60) DEF SitesInv, JobRight
    <3> QED
      BY <1>6, <3>1, <3>3 DEF Chosen
  <2> QED
    BY <1>3, <1>4, <2>1, <2>2 DEF SaveKnows
<1> QED
  BY <1>1, <1>3, <1>4, <1>5, <1>6, <1>7, SaveGoesOn DEF CutLinks

LEMMA LinkStep ==
  ASSUME SitesInv, NEW c \in Saves, InsertLinks(c)
  PROVE  SitesInv'
<1>1. /\ save[c] \in SaveType /\ SaveRight(c) /\ save[c].d \in Jobs /\ save[c].pc = "link"
      /\ save \in [Saves -> SaveType] /\ save[c].ids \in Seq(Plants)
  BY ChoicesAreTexts DEF SitesInv, SitesType, SaveType, SaveRight, InsertLinks, Reached
<1>2. /\ Relinked(c) \subseteq Picked(save[c].ids) /\ AllStored(Relinked(c))
      /\ Picked(save[c].ids) \subseteq Plants
  <2>1. Picked(save[c].ids) \subseteq Plants
    BY <1>1, LenProperties DEF Picked
  <2> QED
    BY <2>1 DEF Relinked, AllStored
<1>3. PICK put \in Placing : put = [p \in Relinked(c) |-> FirstAt(save[c].ids, p)]
  <2>1. \A p \in Relinked(c) : FirstAt(save[c].ids, p) \in Nat
    BY <1>1, <1>2, FirstAtFinds
  <2>2. [p \in Relinked(c) |-> FirstAt(save[c].ids, p)] \in [Relinked(c) -> Nat]
    BY <2>1
  <2> QED
    BY <1>2, <2>2 DEF Placing
<1> DEFINE x == [save[c] EXCEPT !.pc = "join", !.put = put]
<1>4. /\ x \in SaveType /\ x.pc = "join" /\ x.put = put /\ x.d = save[c].d /\ x.cut = save[c].cut
      /\ x.ids = save[c].ids /\ x.typed = save[c].typed
  BY <1>1 DEF SaveType, SavePoints
<1>5. save' = [save EXCEPT ![c] = x]
  BY <1>1, <1>3 DEF InsertLinks
<1> HIDE DEF x
<1>6. DOMAIN put = Relinked(c) /\ \A p \in Relinked(c) : put[p] = FirstAt(save[c].ids, p)
  BY <1>3
<1>7. ASSUME x.d \notin torn PROVE SaveKnows(x)
  <2>1. SaveKnows(save[c])
    BY <1>1, <1>4, <1>7 DEF SaveRight
  <2>2. Kept(c) = {}
    BY <1>1, <2>1 DEF SaveKnows, Kept
  <2>3. pick[x.d].ids = save[c].ids
    BY <1>4, <2>1 DEF SaveKnows
  <2>4. pick[x.d].stored \subseteq Picked(save[c].ids) /\ AllStored(pick[x.d].stored)
    BY <1>1, <1>4, <2>3 DEF SitesInv, JobRight
  <2>5. pick[x.d].stored \subseteq Relinked(c)
    BY <2>2, <2>4 DEF Relinked, AllStored
  <2>6. Chosen(put, x.d)
    BY <1>2, <1>6, <2>3, <2>5 DEF Chosen
  <2> QED
    BY <1>1, <1>4, <2>1, <2>6 DEF SaveKnows
<1>8. AllStored(DOMAIN x.put)
  BY <1>2, <1>4, <1>6
<1> QED
  BY <1>1, <1>4, <1>5, <1>7, <1>8, SaveGoesOn DEF InsertLinks

(* The text of a save is found: the names of its links, or what was typed. *)
LEMMA WordStep ==
  ASSUME SitesInv, NEW c \in Saves, NEW pc \in {"text", "commit"}, NEW text \in Wording,
         save' = [save EXCEPT ![c] = [save[c] EXCEPT !.pc = pc, !.text = text]],
         UNCHANGED <<plant, open, job, pick, torn>>,
         save[c].pc \in {"join", "type", "text"},
         pc = "commit" => ~ TextHeld(save[c].d),
         save[c].d \notin torn =>
           \/ pc = "text" /\ DOMAIN save[c].put = {} /\ text = <<>>
           \/ Told(text, save[c].put, save[c].d)
  PROVE  SitesInv'
<1>1. /\ save[c] \in SaveType /\ SaveRight(c) /\ save[c].d \in Jobs
  BY DEF SitesInv, SitesType, SaveType, SaveRight
<1> DEFINE x == [save[c] EXCEPT !.pc = pc, !.text = text]
<1>2. /\ x \in SaveType /\ x.pc = pc /\ x.put = save[c].put /\ x.d = save[c].d /\ x.cut = save[c].cut
      /\ x.ids = save[c].ids /\ x.typed = save[c].typed /\ x.text = text
  BY <1>1 DEF SaveType, SavePoints
<1> HIDE DEF x
<1>3. ASSUME x.d \notin torn PROVE SaveKnows(x)
  <2>1. SaveKnows(save[c])
    BY <1>1, <1>2, <1>3 DEF SaveRight
  <2>2. Chosen(x.put, x.d) /\ x.cut = DOMAIN job[x.d].links
    BY <1>2, <2>1 DEF SaveKnows
  <2>3. (x.pc = "text" /\ DOMAIN x.put = {} /\ x.text = <<>>) \/ Told(x.text, x.put, x.d)
    BY <1>2, <1>3
  <2> QED
    BY <1>2, <2>1, <2>2, <2>3 DEF SaveKnows
<1>4. AllStored(DOMAIN x.put)
  BY <1>1, <1>2 DEF SaveRight
<1>5. save' = [save EXCEPT ![c] = x]
  BY DEF x
<1> QED
  BY <1>1, <1>2, <1>3, <1>4, <1>5, SaveGoesOn

LEMMA JoinStep ==
  ASSUME SitesInv, NEW c \in Saves, JoinNames(c)
  PROVE  SitesInv'
<1>1. save[c].pc = "join" /\ UNCHANGED <<plant, open, job, pick, torn>> /\ SitesType
  BY DEF JoinNames, Reached, SitesInv
<1>2. PICK text \in Joined(Seen(c)) : save' = [save EXCEPT ![c].pc = "text", ![c].text = text]
  BY DEF JoinNames
<1>3. Seen(c) \in Placing /\ (save[c].d \notin torn => Seen(c) = save[c].put)
  BY <1>1, SeenRight
<1>4. /\ text \in Wording /\ (DOMAIN Seen(c) = {} => text = <<>>)
  BY <1>1, <1>3, TextType
<1>5. save' = [save EXCEPT ![c] = [save[c] EXCEPT !.pc = "text", !.text = text]]
  BY <1>2 DEF SitesInv, SitesType
<1>6. save[c].d \notin torn =>
        \/ DOMAIN save[c].put = {} /\ text = <<>>
        \/ Told(text, save[c].put, save[c].d)
  BY <1>3, <1>4 DEF Told
<1> QED
  BY <1>1, <1>4, <1>5, <1>6, WordStep

LEMMA TypeStep ==
  ASSUME SitesInv, NEW c \in Saves, TypeText(c)
  PROVE  SitesInv'
<1>1. /\ save[c].pc = "type" /\ UNCHANGED <<plant, open, job, pick, torn>>
      /\ save[c] \in SaveType /\ SaveRight(c)
  BY DEF TypeText, Reached, SitesInv, SitesType
<1>2. save[c].typed \in Wording
  BY <1>1 DEF SaveType, Typing, Wording
<1>3. save' = [save EXCEPT ![c] = [save[c] EXCEPT !.pc = "text", !.text = save[c].typed]]
  BY DEF TypeText, SitesInv, SitesType
<1>4. save[c].d \notin torn => Told(save[c].typed, save[c].put, save[c].d)
  BY <1>1 DEF SaveRight, SaveKnows, Told
<1> QED
  BY <1>1, <1>2, <1>3, <1>4, WordStep

LEMMA HoldStep ==
  ASSUME SitesInv, NEW c \in Saves, HoldText(c)
  PROVE  SitesInv'
<1>1. /\ save[c].pc = "text" /\ UNCHANGED <<plant, open, job, pick, torn>> /\ ~ TextHeld(save[c].d)
      /\ save[c] \in SaveType /\ SaveRight(c) /\ SitesType /\ save[c].d \in Jobs
  BY DEF HoldText, Reached, SitesInv, SitesType, SaveRight, SaveType
<1>2. PICK text \in Wording : text = IF save[c].text = <<>> THEN job[save[c].d].text ELSE save[c].text
  BY <1>1 DEF SaveType, SitesType, JobType
<1>3. save' = [save EXCEPT ![c] = [save[c] EXCEPT !.pc = "commit", !.text = text]]
  BY <1>1, <1>2 DEF HoldText, SitesType
<1>4. ASSUME save[c].d \notin torn PROVE Told(text, save[c].put, save[c].d)
  <2>1. SaveKnows(save[c])
    BY <1>1, <1>4 DEF SaveRight
  <2>2. job[save[c].d].text = pick[save[c].d].typed
    BY <2>1 DEF SaveKnows
  <2>3. (DOMAIN save[c].put = {} /\ save[c].text = <<>>) \/ Told(save[c].text, save[c].put, save[c].d)
    BY <1>1, <2>1 DEF SaveKnows
  <2>4. CASE DOMAIN save[c].put = {}
    BY <1>2, <2>2, <2>3, <2>4 DEF Told
  <2>5. CASE DOMAIN save[c].put # {}
    <3>1. save[c].text \in Joined(save[c].put) /\ save[c].put \in Placing
      BY <1>1, <2>3, <2>5 DEF Told, SaveType
    <3>2. save[c].text # <<>>
      BY <1>1, <2>5, <3>1, TextType
    <3> QED
      BY <1>2, <2>5, <3>1, <3>2 DEF Told
  <2> QED
    BY <2>4, <2>5
<1> QED
  BY <1>1, <1>3, <1>4, WordStep

LEMMA NothingPlaced == NoLinks \in Placing /\ DOMAIN NoLinks = {}
<1>1. NoLinks \in [{} -> Nat] /\ DOMAIN NoLinks = {}
  BY DEF NoLinks
<1> QED
  BY <1>1 DEF Placing

LEMMA StartStep ==
  ASSUME SitesInv, NEW c \in Saves, NEW d \in Jobs, NEW ids \in Picks, NEW typed \in Typed,
         SaveText(c, d, ids, typed)
  PROVE  SitesInv'
<1>1. /\ SitesType /\ save[c].pc = "rest" /\ save[c].d = NoSite /\ d # NoSite
      /\ UNCHANGED <<plant, open>>
  BY SitesAssumption DEF SitesInv, SaveText, Reached, SaveRight
<1>2. PICK x : x = [AtRest EXCEPT !.pc = "clear", !.d = d, !.ids = ids, !.typed = typed]
  OBVIOUS
<1>3. NoLinks \in Placing /\ DOMAIN NoLinks = {}
  BY NothingPlaced
<1>4. /\ x \in SaveType /\ x.pc = "clear" /\ x.d = d /\ x.ids = ids /\ x.typed = typed
      /\ DOMAIN x.put = {}
  <2>1. AtRest \in SaveType /\ AtRest.put = NoLinks
    BY <1>3, SitesAssumption DEF AtRest, SaveType, SavePoints, Choices, Typing, Wording
  <2> HIDE DEF AtRest
  <2> QED
    BY <1>2, <1>3, <2>1 DEF SaveType, SavePoints, Choices, Typing
<1>5. PICK y : y = [ids |-> ids, typed |-> typed, stored |-> {p \in Picked(ids) : Stored(p)}]
  OBVIOUS
<1>6. /\ y \in PickType /\ y.ids = ids /\ y.typed = typed
      /\ y.stored \subseteq Picked(ids) /\ AllStored(y.stored)
  <2>1. {p \in Picked(ids) : Stored(p)} \in SUBSET Plants
    BY SitesAssumption, LenProperties DEF Picked
  <2> QED
    BY <1>5, <2>1 DEF PickType, Choices, Typing, AllStored
<1>7. /\ save' = [save EXCEPT ![c] = x] /\ pick' = [pick EXCEPT ![d] = y]
      /\ job' = [job EXCEPT ![d] = [job[d] EXCEPT !.text = typed]]
      /\ torn' = IF SavesOf(d) = {} THEN torn \ {d} ELSE torn \cup {d}
  BY <1>1, <1>2, <1>5 DEF SaveText, SitesType
<1>8. /\ save'[c] = x /\ \A b \in Saves \ {c} : save'[b] = save[b]
      /\ pick'[d] = y /\ \A e \in Jobs \ {d} : pick'[e] = pick[e]
      /\ job'[d].text = typed /\ job'[d].links = job[d].links /\ job'[d] \in JobType
      /\ \A e \in Jobs \ {d} : job'[e] = job[e]
  BY <1>1, <1>7 DEF SitesType, JobType, Wording
<1>9. SitesType'
  BY <1>1, <1>4, <1>6, <1>7, <1>8 DEF SitesType
<1>10. ASSUME NEW b \in Saves PROVE SaveRight(b)'
  <2>1. CASE b = c
    <3>1. SaveKnows(x)'
      BY <1>4, <1>6, <1>8 DEF SaveKnows
    <3>2. AllStored(DOMAIN x.put)'
      BY <1>4 DEF AllStored
    <3> QED
      BY <1>1, <1>4, <1>8, <2>1, <3>1, <3>2 DEF SaveRight
  <2>2. CASE b # c
    <3>1. SaveRight(b) /\ save'[b] = save[b] /\ save[b] \in SaveType
      BY <1>1, <1>8, <2>2 DEF SitesInv, SitesType
    <3>2. AllStored(DOMAIN save[b].put)'
      BY <1>1, <3>1 DEF SaveRight, AllStored, Stored
    <3>3. ASSUME save[b].pc # "rest", save[b].d \notin torn' PROVE SaveKnows(save[b])'
      <4>1. save[b].d # d /\ save[b].d \in Jobs /\ save[b].d \notin torn
        BY <1>7, <3>1, <3>3 DEF SavesOf, SaveRight, SaveType
      <4>2. SaveKnows(save[b])
        BY <3>1, <3>3, <4>1 DEF SaveRight
      <4> QED
        BY <1>1, <1>8, <3>1, <4>1, <4>2, KnowsStays
    <3> QED
      BY <3>1, <3>2, <3>3 DEF SaveRight
  <2> QED
    BY <2>1, <2>2
<1>11. ASSUME NEW e \in Jobs PROVE JobRight(e)'
  <2>1. CASE e = d
    <3>1. JobRight(d)
      BY DEF SitesInv
    <3>2. ~ Settled(d)'
      BY <1>4, <1>8 DEF Settled, SavesOf
    <3>3. AllStored(DOMAIN job[d].links)' /\ AllStored(pick[d].stored)'
      BY <1>1, <1>6, <1>8, <3>1 DEF JobRight, AllStored, Stored
    <3>4. (pick[d].stored \subseteq Picked(pick[d].ids))'
      BY <1>6, <1>8 DEF Picked
    <3> QED
      BY <2>1, <3>2, <3>3, <3>4 DEF JobRight
  <2>2. CASE e # d
    <3>1. SavesOf(e)' = SavesOf(e)
      BY <1>1, <1>4, <1>8, <2>2, SitesAssumption DEF SavesOf
    <3>2. Settled(e)' => Settled(e)
      BY <1>7, <2>2, <3>1 DEF Settled
    <3> QED
      BY <1>1, <1>8, <2>2, <3>2, JobStays DEF Stored
  <2> QED
    BY <2>1, <2>2
<1>12. AloneInv'
  <2>1. ASSUME NEW b \in Saves, b # c, save[b].d = d PROVE d \in torn'
    BY <1>7, <2>1 DEF SavesOf
  <2>2. AloneInv
    BY DEF SitesInv
  <2>3. \A b \in Saves \ {c} : save[b].d # d /\ save[b].d \notin torn' => save[b].d \notin torn
    BY <1>7
  <2> QED
    BY <1>4, <1>8, <2>1, <2>2, <2>3 DEF AloneInv
<1> QED
  BY <1>9, <1>10, <1>11, <1>12 DEF SitesInv

(* The save c is over: it has left the deal as y, or failed.               *)
LEMMA OverStep ==
  ASSUME SitesInv, NEW c \in Saves, save[c].pc # "rest", NEW y \in JobType,
         save' = [save EXCEPT ![c] = AtRest], job' = [job EXCEPT ![save[c].d] = y],
         UNCHANGED <<plant, open, pick>>,
         torn' = torn \/ torn' = torn \cup {save[c].d},
         AllStored(DOMAIN y.links),
         save[c].d \notin torn' => /\ Chosen(y.links, save[c].d)
                                   /\ Told(y.text, y.links, save[c].d)
  PROVE  SitesInv'
<1>0. PICK d \in Jobs : d = save[c].d
  BY DEF SitesInv, SitesType, SaveType, SaveRight
<1>1. SitesType /\ d # NoSite
  BY SitesAssumption DEF SitesInv
<1>2. DOMAIN NoLinks = {} /\ NoLinks \in Placing
  BY NothingPlaced
<1>3. AtRest \in SaveType /\ AtRest.pc = "rest" /\ AtRest.d = NoSite /\ DOMAIN AtRest.put = {}
  BY <1>2 DEF AtRest, SaveType, SavePoints, Choices, Typing, Wording
<1>4. /\ save'[c] = AtRest /\ \A b \in Saves \ {c} : save'[b] = save[b]
      /\ job'[d] = y /\ \A e \in Jobs \ {d} : job'[e] = job[e]
  BY <1>0, <1>1 DEF SitesType
<1>5. torn' = torn \/ torn' = torn \cup {d}
  BY <1>0
<1>6. SitesType'
  BY <1>1, <1>3, <1>4, <1>5 DEF SitesType
<1>7. AloneInv
  BY DEF SitesInv
<1>8. ASSUME NEW b \in Saves PROVE SaveRight(b)'
  <2>1. CASE b = c
    BY <1>3, <1>4, <2>1 DEF SaveRight, AllStored
  <2>2. CASE b # c
    <3>1. SaveRight(b) /\ save'[b] = save[b] /\ save[b] \in SaveType
      BY <1>1, <1>4, <2>2 DEF SitesInv, SitesType
    <3>2. AllStored(DOMAIN save[b].put)'
      BY <1>1, <3>1 DEF SaveRight, AllStored, Stored
    <3>3. ASSUME save[b].pc # "rest", save[b].d \notin torn' PROVE SaveKnows(save[b])'
      <4>1. save[b].d \notin torn /\ save[b].d \in Jobs /\ SaveKnows(save[b])
        BY <1>5, <3>1, <3>3 DEF SaveRight, SaveType
      <4>2. save[b].d # d
        BY <1>0, <1>1, <1>7, <2>2, <4>1 DEF AloneInv
      <4> QED
        BY <1>4, <3>1, <4>1, <4>2, KnowsStays
    <3> QED
      BY <3>1, <3>2, <3>3 DEF SaveRight
  <2> QED
    BY <2>1, <2>2
<1>9. ASSUME NEW e \in Jobs PROVE JobRight(e)'
  <2>1. CASE e = d
    <3>1. JobRight(d) /\ y.links \in Placing
      BY <1>1 DEF SitesInv, JobType
    <3>2. AllStored(DOMAIN job[d].links)' /\ AllStored(pick[d].stored)'
      BY <1>4, <3>1 DEF JobRight, AllStored, Stored
    <3>3. (pick[d].stored \subseteq Picked(pick[d].ids))'
      BY <3>1 DEF JobRight, Picked
    <3>4. ASSUME d \notin torn' PROVE Chosen(y.links, d)' /\ Told(y.text, y.links, d)'
      BY <1>0, <3>1, <3>4, ChosenStays, ToldStays
    <3> QED
      BY <1>4, <2>1, <3>2, <3>3, <3>4 DEF JobRight, Settled
  <2>2. CASE e # d
    <3>1. SavesOf(e)' = SavesOf(e)
      BY <1>0, <1>1, <1>3, <1>4, <2>2, SitesAssumption DEF SavesOf
    <3>2. Settled(e)' => Settled(e)
      BY <1>5, <3>1 DEF Settled
    <3> QED
      BY <1>4, <2>2, <3>2, JobStays DEF Stored
  <2> QED
    BY <2>1, <2>2
<1>10. AloneInv'
  BY <1>3, <1>4, <1>5, <1>7 DEF AloneInv
<1> QED
  BY <1>6, <1>8, <1>9, <1>10 DEF SitesInv

LEMMA CommitStep ==
  ASSUME SitesInv, NEW c \in Saves, CommitSave(c)
  PROVE  SitesInv'
<1>1. save[c].pc = "commit" /\ UNCHANGED <<plant, open, pick, torn>> /\ save' = [save EXCEPT ![c] = AtRest]
  BY DEF CommitSave, Reached
<1>2. save[c] \in SaveType /\ SaveRight(c)
  BY DEF SitesInv, SitesType
<1>3. PICK text \in Wording : text = save[c].text
  BY <1>2 DEF SaveType
<1>4. /\ AllStored(DOMAIN Seen(c)) /\ (save[c].d \notin torn => Seen(c) = save[c].put)
      /\ Seen(c) \in Placing
  BY <1>1, SeenRight
<1>5. PICK links \in Placing : links = Seen(c)
  BY <1>4
<1>6. PICK y \in JobType : y = [text |-> text, links |-> links]
  BY DEF JobType
<1>7. y.text = text /\ y.links = links /\ job' = [job EXCEPT ![save[c].d] = y]
  BY <1>3, <1>5, <1>6 DEF CommitSave
<1>8. ASSUME save[c].d \notin torn
      PROVE  Chosen(links, save[c].d) /\ Told(text, links, save[c].d)
  BY <1>1, <1>2, <1>3, <1>4, <1>5, <1>8 DEF SaveRight, SaveKnows
<1> QED
  BY <1>1, <1>4, <1>5, <1>7, <1>8, OverStep

LEMMA FailStep ==
  ASSUME SitesInv, NEW c \in Saves, FailSave(c)
  PROVE  SitesInv'
<1>1. /\ save[c].pc # "rest" /\ save' = [save EXCEPT ![c] = AtRest]
      /\ torn' = torn \cup {save[c].d} /\ UNCHANGED <<plant, job, open, pick>>
  BY DEF FailSave, Reached
<1>2. save[c].d \in Jobs
  BY <1>1 DEF SitesInv, SitesType, SaveType, SaveRight
<1>3. PICK y \in JobType : y = job[save[c].d]
  BY <1>2 DEF SitesInv, SitesType
<1>4. job' = [job EXCEPT ![save[c].d] = y]
  BY <1>1, <1>2, <1>3 DEF SitesInv, SitesType
<1>5. AllStored(DOMAIN y.links)
  BY <1>2, <1>3 DEF SitesInv, JobRight
<1> QED
  BY <1>1, <1>3, <1>4, <1>5, OverStep

LEMMA InitSitesInv == SitesInit => SitesInv
<1> SUFFICES ASSUME SitesInit PROVE SitesInv
  OBVIOUS
<1>1. NoLinks \in Placing /\ DOMAIN NoLinks = {}
  BY NothingPlaced
<1>2. /\ AtRest \in SaveType /\ AtRest.pc = "rest" /\ AtRest.d = NoSite /\ DOMAIN AtRest.put = {}
  BY <1>1 DEF AtRest, SaveType, SavePoints, Choices, Typing, Wording
<1>3. /\ \A d \in Jobs : job[d].text = <<>> /\ job[d].links = NoLinks
      /\ \A d \in Jobs : pick[d].ids = <<>> /\ pick[d].typed = <<>> /\ pick[d].stored = {}
      /\ \A c \in Saves : save[c] = AtRest
  BY DEF SitesInit
<1> HIDE DEF AtRest, NoLinks
<1>4. SitesType
  <2>1. plant \in [Plants -> PlantType] /\ open \subseteq Owners /\ torn \subseteq Jobs
    BY DEF SitesInit, PlantType, Names
  <2>2. job \in [Jobs -> JobType]
    BY <1>1 DEF SitesInit, JobType, Wording
  <2>3. save \in [Saves -> SaveType]
    BY <1>2 DEF SitesInit
  <2>4. pick \in [Jobs -> PickType]
    BY DEF SitesInit, PickType, Choices, Typing
  <2> QED
    BY <2>1, <2>2, <2>3, <2>4 DEF SitesType
<1>5. \A c \in Saves : SaveRight(c)
  BY <1>2, <1>3 DEF SaveRight, AllStored
<1>6. \A d \in Jobs : JobRight(d)
  <2>1. \A d \in Jobs : Chosen(job[d].links, d) /\ Told(job[d].text, job[d].links, d)
    BY <1>1, <1>3 DEF Chosen, Told
  <2> QED
    BY <1>1, <1>3, <2>1 DEF JobRight, AllStored
<1>7. AloneInv
  BY <1>2, <1>3 DEF AloneInv
<1> QED
  BY <1>4, <1>5, <1>6, <1>7 DEF SitesInv

LEMMA SitesInvKept == SitesInv /\ [SitesNext]_siteVars => SitesInv'
<1> SUFFICES ASSUME SitesInv, [SitesNext]_siteVars PROVE SitesInv'
  OBVIOUS
<1>1. CASE UNCHANGED siteVars
  <2>1. SitesType'
    BY <1>1 DEF SitesInv, SitesType, siteVars
  <2> QED
    BY <1>1, <2>1, PlantsChange DEF siteVars, Stored
<1>2. ASSUME NEW c \in Saves,
             \/ \E d \in Jobs, ids \in Picks, typed \in Typed : SaveText(c, d, ids, typed)
             \/ SeeLinks(c) \/ CutLinks(c) \/ InsertLinks(c) \/ JoinNames(c) \/ TypeText(c)
             \/ HoldText(c) \/ CommitSave(c) \/ FailSave(c)
      PROVE  SitesInv'
  BY <1>2, StartStep, SeeStep, CutStep, LinkStep, JoinStep, TypeStep, HoldStep, CommitStep, FailStep
<1> QED
  BY <1>1, <1>2, PlantSteps DEF SitesNext

(* What the invariant says of deals at rest.                               *)
LEMMA SitesInvAgrees == SitesInv => SitesTypeOK /\ SitesAgree
<1> SUFFICES ASSUME SitesInv PROVE SitesTypeOK /\ SitesAgree
  OBVIOUS
<1>1. SitesTypeOK
  <2>1. plant \in [Plants -> [owner : Owners \cup {NoSite}, name : SiteNames \cup {NoSite}, archived : BOOLEAN]]
    BY DEF SitesInv, SitesType, PlantType, Names
  <2>2. \A d \in Jobs : DOMAIN job[d].links \subseteq {p \in Plants : Stored(p)}
    BY PlacedSites DEF SitesInv, SitesType, JobType, JobRight, AllStored
  <2>3. \A d \in Jobs : \A b, c \in SavesOf(d) : Reached(b, "commit") /\ Reached(c, "commit") => b = c
    BY DEF SitesInv, AloneInv, SavesOf, Reached
  <2> QED
    BY <2>1, <2>2, <2>3 DEF SitesTypeOK
<1>2. ASSUME NEW d \in Jobs, Settled(d)
      PROVE  /\ Chosen(job[d].links, d) /\ Told(job[d].text, job[d].links, d)
             /\ job[d].links \in Placing /\ pick[d] \in PickType
  BY <1>2 DEF SitesInv, SitesType, JobRight, JobType
<1>3. LinksAreTheChoice
  BY <1>2 DEF LinksAreTheChoice, Chosen
<1>4. TextNamesTheSites
  <2> SUFFICES ASSUME NEW d \in Jobs, Settled(d)
               PROVE  IF job[d].links = NoLinks THEN job[d].text = pick[d].typed
                      ELSE Joined(job[d].links) = {job[d].text}
    BY DEF TextNamesTheSites
  <2>1. job[d].links = NoLinks <=> DOMAIN job[d].links = {}
    BY <1>2, PlacedSites DEF NoLinks
  <2>2. PICK links \in Placing : links = job[d].links
    BY <1>2
  <2>3. \A p, r \in DOMAIN links : links[p] = links[r] => p = r
    BY <1>2, <2>2, ChosenApart
  <2>4. ASSUME DOMAIN links # {} PROVE Joined(links) = {job[d].text}
    BY <1>2, <2>2, <2>3, <2>4, OneText DEF Told
  <2> QED
    BY <1>2, <2>1, <2>2, <2>4 DEF Told
<1> QED
  BY <1>1, <1>3, <1>4 DEF SitesAgree

(* A link is to a site that there is, and of the saves of one deal one at  *)
(* most holds its text (the row lock of UPDATE deals in setLocations).     *)
THEOREM SitesTypeCorrect == SitesSpec => []SitesTypeOK
<1> QED
  BY InitSitesInv, SitesInvKept, SitesInvAgrees, PTL DEF SitesSpec

(* A deal at rest links to the sites its last save chose, and its text is  *)
(* their names in that order, unless saves overlapped, one failed half-way *)
(* or a site was renamed (setLocations: not a cache allowed to drift).     *)
THEOREM SitesHoldTogether == SitesSpec => []SitesAgree
<1> QED
  BY InitSitesInv, SitesInvKept, SitesInvAgrees, PTL DEF SitesSpec

-----------------------------------------------------------------------------
(* TrackerImport: what its variables hold.                                 *)
Running == {"row", "deal", "write", "push", "end"}
ImportPoints == Running \cup {"idle", "shown", "ok", "error"}

RowTables  == UNION {[S -> RowType] : S \in SUBSET Ids}
DealTables == UNION {[S -> DealType] : S \in SUBSET Booked}
Showings   == UNION {[S -> Ids \cup {Null}] : S \in SUBSET Nat}
ImportType == [pc : ImportPoints, lines : Sheets \cup {<<>>}, at : Nat, birth : Nat,
               found : Ids \cup {Null}, deal : Booked \cup {Null},
               rows : RowTables, deals : DealTables, shown : Showings, hit : Seq(Ids),
               alone : BOOLEAN, exact : BOOLEAN, same : RowType \cup {Null}, cut : BOOLEAN]

ImportTypes ==
  /\ row \in RowTables /\ book \in [Booked -> DealType]
  /\ imp \in [Imports -> ImportType]
  /\ born \in 0 .. Births /\ others \in 0 .. Others

(* The rows a call has written or is about to write.                       *)
RowsNamed(c) == {c.hit[i] : i \in DOMAIN c.hit} \cup
                (IF c.pc \in {"deal", "write"} THEN {c.found} \ {Null} ELSE {})

(* A transaction writes over what is committed, and empties none of it.    *)
Covers(c) ==
  /\ \A w \in DOMAIN c.rows \cap DOMAIN row :
       /\ row[w].deal # Null => c.rows[w].deal = row[w].deal
       /\ row[w].place # Null => c.rows[w].place # Null
       /\ row[w].count # Null => c.rows[w].count # Null
  /\ \A d \in DOMAIN c.deals :
       /\ book[d].place # Null => c.deals[d].place # Null
       /\ book[d].count # Null => c.deals[d].count # Null

(* It links no deal that another row holds.                                *)
LinksOnce(c) ==
  \A v \in DOMAIN c.rows : c.rows[v].deal # Null =>
    /\ \A w \in DOMAIN c.rows : c.rows[w].deal = c.rows[v].deal => w = v
    /\ \A w \in DOMAIN row : row[w].deal = c.rows[v].deal => w = v

(* What the last line to say something of a row said is what the row that  *)
(* was written says.                                                       *)
SaysLast(c, i) ==
  LET after == {k \in DOMAIN c.hit : k > i /\ c.hit[k] = c.hit[i]} IN
  /\ c.lines[i].place # Null /\ (\A k \in after : c.lines[k].place = Null)
       => c.rows[c.hit[i]].place = c.lines[i].place
  /\ c.lines[i].count # Null /\ (\A k \in after : c.lines[k].count = Null)
       => c.rows[c.hit[i]].count = c.lines[i].count
Carries(c) == \A i \in DOMAIN c.hit : c.hit[i] \in DOMAIN c.rows => SaysLast(c, i)

(* Ids are of the transaction or of the tables; where a row is gone it     *)
(* does not come back.                                                     *)
IdsRight(c) ==
  /\ c.birth \in 1 .. born
  /\ \A w \in DOMAIN row : w[1] # c.birth
  /\ \A w \in DOMAIN c.rows : w[1] <= born /\ (w \in DOMAIN row \/ w[1] = c.birth)
  /\ \A w \in RowsNamed(c) : w[1] <= born /\ (w[1] = c.birth => w \in DOMAIN c.rows)
  /\ \A i \in DOMAIN c.hit : c.hit[i] \in DOMAIN c.rows \/ (c.cut /\ c.hit[i] \notin DOMAIN row)

InPlace(c) ==
  /\ c.lines \in Sheets /\ c.at \in 1 .. Len(c.lines)
  /\ Len(c.hit) = IF c.pc \in {"row", "deal", "write"} THEN c.at - 1 ELSE c.at
  /\ c.pc = "end" => c.at = Len(c.lines)
  /\ c.pc = "push" => c.deal # Null

Underway(c) == InPlace(c) /\ IdsRight(c) /\ Covers(c) /\ LinksOnce(c) /\ Carries(c)

(* The row w says what line l carries, and so does the live deal it is     *)
(* linked to.                                                              *)
RowSays(rows, w, l) ==
  /\ w \in DOMAIN rows
  /\ l.place # Null => rows[w].place = l.place
  /\ l.count # Null => rows[w].count = l.count

BothSay(rows, deals, w, l) ==
  /\ RowSays(rows, w, l)
  /\ rows[w].deal # Null /\ deals[rows[w].deal].live =>
       /\ l.place # Null => deals[rows[w].deal].place = l.place
       /\ l.count # Null => deals[rows[w].deal].count = l.count

(* What a call knows that nobody has disturbed: of the row it found, of    *)
(* its last line, and of the one row that its first line was shown.        *)
FoundRight(c) ==
  /\ c.pc = "deal" => c.deal = Null
  /\ c.pc \in {"deal", "write"} /\ c.found # Null =>
       /\ c.found \in DOMAIN Over(c.rows, row)
       /\ Over(c.rows, row)[c.found].deal \in {Null, c.deal}

LastRight(c) ==
  /\ c.pc = "push" => /\ RowSays(c.rows, c.hit[c.at], c.lines[c.at])
                      /\ c.rows[c.hit[c.at]].deal \in {Null, c.deal}
  /\ c.pc = "end" => BothSay(c.rows, Over(c.deals, book), c.hit[c.at], c.lines[c.at])
  /\ c.pc = "ok" => BothSay(row, book, c.hit[c.at], c.lines[c.at])

OneThere(rows, l, w) == OfClient(rows, l.client) \cap Placed(rows, l.place) = {w}

ExactRight(c) ==
  c.exact =>
    /\ c.pc = "shown" \/ (c.pc = "row" /\ c.at = 1) =>
         /\ c.lines[1].title = Null /\ c.lines[1].place # Null
         /\ OneThere(row, c.lines[1], c.shown[1]) /\ DOMAIN c.rows = {}
    /\ c.pc \in {"deal", "write"} /\ c.at = 1 => c.found = c.shown[1] /\ c.found # Null
    /\ c.pc \in Running \cup {"ok"} /\ Len(c.hit) # 0 => c.hit[1] = c.shown[1]

CallRight(c) ==
  /\ c.pc \in Running => Underway(c)
  /\ c.pc \notin Running => DOMAIN c.rows = {} /\ DOMAIN c.deals = {}
  /\ c.pc \in {"idle", "shown", "error"} => c.at = 0 /\ Len(c.hit) = 0
  /\ c.pc \in {"shown", "ok"} => c.lines \in Sheets
  /\ c.pc = "ok" => c.at = Len(c.lines) /\ Len(c.hit) = c.at
  /\ c.alone => FoundRight(c) /\ LastRight(c) /\ ExactRight(c)

(* Two transactions do not meet.                                           *)
Parted(c, e) ==
  /\ DOMAIN c.rows \cap DOMAIN e.rows = {} /\ DOMAIN c.deals \cap DOMAIN e.deals = {}
  /\ \A v \in DOMAIN c.rows, w \in DOMAIN e.rows : c.rows[v].deal = e.rows[w].deal => c.rows[v].deal = Null
  /\ c.pc \in Running /\ e.pc \in Running =>
       c.birth # e.birth /\ \A w \in RowsNamed(c) \cup DOMAIN c.rows : w[1] # e.birth

TablesRight == DealKeepsOneRow /\ \A w \in DOMAIN row : w[1] <= born

ImportInv ==
  /\ ImportTypes /\ TablesRight
  /\ \A p \in Imports : CallRight(imp[p])
  /\ \A p, q \in Imports : p # q => Parted(imp[p], imp[q])

(* What a call has read and written is all that these ask of it.           *)
LEMMA SameTables ==
  ASSUME NEW c, NEW x, x.hit = c.hit, x.lines = c.lines, x.rows = c.rows, x.deals = c.deals
  PROVE  /\ Carries(c) => Carries(x)
         /\ Covers(c) => Covers(x)
         /\ LinksOnce(c) => LinksOnce(x)
<1>1. \A i : SaysLast(c, i) => SaysLast(x, i)
  BY DEF SaysLast
<1>2. Carries(c) => Carries(x)
  BY <1>1 DEF Carries
<1>3. Covers(c) => Covers(x)
  BY DEF Covers
<1>4. LinksOnce(c) => LinksOnce(x)
  BY DEF LinksOnce
<1> QED
  BY <1>2, <1>3, <1>4

(* Tables, and one laid over another.                                      *)
LEMMA Tables ==
  /\ \A t : t \in RowTables <=> DOMAIN t \subseteq Ids /\ t \in [DOMAIN t -> RowType]
  /\ \A t : t \in DealTables <=> DOMAIN t \subseteq Booked /\ t \in [DOMAIN t -> DealType]
<1>1. ASSUME NEW t, t \in RowTables PROVE DOMAIN t \subseteq Ids /\ t \in [DOMAIN t -> RowType]
  <2>1. PICK S \in SUBSET Ids : t \in [S -> RowType]
    BY <1>1 DEF RowTables
  <2> QED
    BY <2>1
<1>2. ASSUME NEW t, t \in DealTables PROVE DOMAIN t \subseteq Booked /\ t \in [DOMAIN t -> DealType]
  <2>1. PICK S \in SUBSET Booked : t \in [S -> DealType]
    BY <1>2 DEF DealTables
  <2> QED
    BY <2>1
<1>3. ASSUME NEW t, DOMAIN t \subseteq Ids, t \in [DOMAIN t -> RowType] PROVE t \in RowTables
  BY <1>3 DEF RowTables
<1>4. ASSUME NEW t, DOMAIN t \subseteq Booked, t \in [DOMAIN t -> DealType] PROVE t \in DealTables
  BY <1>4 DEF DealTables
<1> QED
  BY <1>1, <1>2, <1>3, <1>4

LEMMA LaidOver ==
  ASSUME NEW f, NEW g
  PROVE  /\ DOMAIN Over(f, g) = DOMAIN f \cup DOMAIN g
         /\ \A x \in DOMAIN f : Over(f, g)[x] = f[x]
         /\ \A x \in DOMAIN g \ DOMAIN f : Over(f, g)[x] = g[x]
BY DEF Over

LEMMA OnePut ==
  ASSUME NEW f, NEW a, NEW b
  PROVE  /\ DOMAIN Put(f, a, b) = DOMAIN f \cup {a}
         /\ Put(f, a, b)[a] = b
         /\ \A x \in DOMAIN f \ {a} : Put(f, a, b)[x] = f[x]
BY DEF Put

LEMMA RowsOver ==
  ASSUME NEW f \in RowTables, NEW g \in RowTables PROVE Over(f, g) \in RowTables
<1>1. /\ DOMAIN f \subseteq Ids /\ f \in [DOMAIN f -> RowType]
      /\ DOMAIN g \subseteq Ids /\ g \in [DOMAIN g -> RowType]
  BY Tables
<1>2. Over(f, g) \in [DOMAIN f \cup DOMAIN g -> RowType]
  BY <1>1 DEF Over
<1> QED
  BY <1>1, <1>2, Tables

LEMMA DealsOver ==
  ASSUME NEW f \in DealTables, NEW g \in [Booked -> DealType] PROVE Over(f, g) \in [Booked -> DealType]
<1>1. DOMAIN f \subseteq Booked /\ f \in [DOMAIN f -> DealType]
  BY Tables
<1> QED
  BY <1>1 DEF Over

LEMMA OneRowOver ==
  ASSUME NEW f \in RowTables, NEW w \in Ids, NEW r \in RowType PROVE Put(f, w, r) \in RowTables
<1>1. DOMAIN f \subseteq Ids /\ f \in [DOMAIN f -> RowType]
  BY Tables
<1>2. Put(f, w, r) \in [DOMAIN f \cup {w} -> RowType]
  BY <1>1 DEF Put
<1> QED
  BY <1>1, <1>2, Tables

LEMMA OneDealOver ==
  ASSUME NEW f \in DealTables, NEW d \in Booked, NEW r \in DealType PROVE Put(f, d, r) \in DealTables
<1>1. DOMAIN f \subseteq Booked /\ f \in [DOMAIN f -> DealType]
  BY Tables
<1>2. Put(f, d, r) \in [DOMAIN f \cup {d} -> DealType]
  BY <1>1 DEF Put
<1> QED
  BY <1>1, <1>2, Tables

LEMMA EmptyTables ==
  /\ <<>> \in RowTables /\ <<>> \in DealTables /\ <<>> \in Showings
  /\ DOMAIN <<>> = {}
<1>1. DOMAIN <<>> = {}
  OBVIOUS
<1>2. <<>> \in [{} -> RowType] /\ <<>> \in [{} -> DealType] /\ <<>> \in [{} -> Ids \cup {Null}]
  OBVIOUS
<1> QED
  BY <1>1, <1>2 DEF RowTables, DealTables, Showings

(* The row of a client and the deal of a line.                             *)
LEMMA IdsAre == \A w \in Ids : w[1] \in Nat /\ w[2] \in Nat /\ w = <<w[1], w[2]>> /\ w # Null
BY ImportAssumption DEF Ids

LEMMA FirstOfFinds ==
  ASSUME NEW rows, NEW S \in SUBSET Ids, S # {} PROVE FirstOf(rows, S) \in S
<1> DEFINE level(w) == IF Linked(rows, w) THEN 1 ELSE 0
           T == {w \in S : \A v \in S : level(w) <= level(v)}
           U == {w \in T : \A v \in T : w[1] <= v[1]}
<1>1. T # {}
  <2>1. PICK n \in {level(w) : w \in S} : \A m \in {level(w) : w \in S} : n <= m
    BY Least
  <2> QED
    BY <2>1
<1>2. U # {}
  <2> DEFINE N == {w[1] : w \in T}
  <2>0. N \in SUBSET Nat /\ N # {}
    BY <1>1, IdsAre
  <2>1. PICK n \in N : \A m \in N : n <= m
    BY <2>0, Least
  <2> QED
    BY <2>1
<1>3. PICK w \in U : \A v \in U : w[2] <= v[2]
  <2> DEFINE N == {w[2] : w \in U}
  <2>0. N \in SUBSET Nat /\ N # {}
    BY <1>2, IdsAre
  <2>1. PICK n \in N : \A m \in N : n <= m
    BY <2>0, Least
  <2> QED
    BY <2>1
<1>4. ASSUME NEW v \in S \ {w} PROVE Before(rows, w, v)
  <2>1. /\ v[1] \in Nat /\ v[2] \in Nat /\ v = <<v[1], v[2]>> /\ v # w
        /\ w[1] \in Nat /\ w[2] \in Nat /\ w = <<w[1], w[2]>>
    BY IdsAre
  <2>2. level(w) <= level(v)
    OBVIOUS
  <2>3. CASE ~ Linked(rows, w) /\ Linked(rows, v)
    BY <2>3 DEF Before
  <2>4. CASE Linked(rows, w) <=> Linked(rows, v)
    <3>1. v \in T
      BY <2>4
    <3>2. w[1] <= v[1]
      BY <3>1
    <3>3. CASE w[1] < v[1]
      BY <2>4, <3>3 DEF Before, Older
    <3>4. CASE w[1] = v[1]
      <4>1. v \in U
        BY <3>1, <3>4
      <4>2. w[2] < v[2]
        BY <1>3, <2>1, <3>4, <4>1
      <4> QED
        BY <2>4, <3>4, <4>2 DEF Before, Older
    <3> QED
      BY <2>1, <3>2, <3>3, <3>4
  <2> QED
    BY <2>2, <2>3, <2>4
<1>5. \E x \in S : \A v \in S \ {x} : Before(rows, x, v)
  BY <1>4
<1> QED
  BY <1>5 DEF FirstOf

LEMMA FirstOfOne == ASSUME NEW rows, NEW w PROVE FirstOf(rows, {w}) = w
BY DEF FirstOf

LEMMA RowOfClientFound ==
  ASSUME NEW rows \in RowTables, NEW l PROVE RowOfClient(rows, l) \in DOMAIN rows \cup {Null}
<1>1. \A S \in SUBSET DOMAIN rows : FirstOf(rows, S) \in DOMAIN rows \cup {Null}
  <2>1. DOMAIN rows \subseteq Ids
    BY Tables
  <2> SUFFICES ASSUME NEW S \in SUBSET DOMAIN rows PROVE FirstOf(rows, S) \in DOMAIN rows \cup {Null}
    OBVIOUS
  <2>2. CASE S = {}
    BY <2>2 DEF FirstOf
  <2>3. CASE S # {}
    BY <2>1, <2>3, FirstOfFinds
  <2> QED
    BY <2>2, <2>3
<1>2. /\ OfClient(rows, l.client) \subseteq DOMAIN rows /\ Cleaned(rows, l.client) \subseteq DOMAIN rows
      /\ Placed(rows, l.place) \subseteq DOMAIN rows /\ Unplaced(rows) \subseteq DOMAIN rows
  BY DEF OfClient, Cleaned, Placed, Unplaced
<1>3. PICK S \in SUBSET DOMAIN rows : RowOfClient(rows, l) = FirstOf(rows, S)
  BY <1>2 DEF RowOfClient
<1> QED
  BY <1>1, <1>3

LEMMA RowOfOneThere ==
  ASSUME NEW rows, NEW l, NEW w, l.place # Null, OneThere(rows, l, w) PROVE RowOfClient(rows, l) = w
BY FirstOfOne DEF RowOfClient, OneThere

LEMMA ResolvedFound ==
  ASSUME NEW rows \in RowTables, NEW deals, NEW l, NEW r \in Resolved(rows, deals, l)
  PROVE  /\ r.row \in DOMAIN rows \cup {Null} /\ r.deal \in Booked \cup {Null}
         /\ r.row # Null => rows[r.row].deal = r.deal
         /\ \A w : l.title = Null /\ l.place # Null /\ OneThere(rows, l, w) => r.row = w
<1> DEFINE titled == {d \in Booked : deals[d].live /\ l.title # Null /\ Title[d] = l.title}
           RowOf(d) == {w \in DOMAIN rows : d # Null /\ rows[w].deal = d}
           found == RowOfClient(rows, l)
<1>1. PICK d \in IF titled = {} THEN {Null} ELSE titled :
        r = IF RowOf(d) # {} THEN [row |-> CHOOSE w \in RowOf(d) : TRUE, deal |-> d]
            ELSE [row |-> found, deal |-> IF found # Null THEN rows[found].deal ELSE d]
  BY DEF Resolved
<1>2. d \in Booked \cup {Null} /\ (l.title = Null => d = Null)
  OBVIOUS
<1>3. found \in DOMAIN rows \cup {Null}
  BY RowOfClientFound
<1>4. \A w \in DOMAIN rows : w # Null /\ rows[w].deal \in Booked \cup {Null}
  BY Tables, IdsAre DEF RowType
<1>5. CASE RowOf(d) # {}
  <2>1. PICK w \in RowOf(d) : r.row = w /\ r.deal = d
    BY <1>1, <1>5
  <2> QED
    BY <1>2, <1>4, <2>1
<1>6. CASE RowOf(d) = {}
  <2>1. r.row = found /\ r.deal = IF found # Null THEN rows[found].deal ELSE d
    BY <1>1, <1>6
  <2>2. \A w : l.title = Null /\ l.place # Null /\ OneThere(rows, l, w) => r.row = w
    BY <2>1, RowOfOneThere
  <2> HIDE DEF found
  <2> QED
    BY <1>2, <1>3, <1>4, <2>1, <2>2
<1> QED
  BY <1>5, <1>6

LEMMA DealOfClientFound ==
  ASSUME NEW deals, NEW l PROVE DealOfClient(deals, l) \in Booked \cup {Null}
<1>1. ASSUME NEW S \in SUBSET Booked, S # {} PROVE (CHOOSE d \in S : \A e \in S : e <= d) \in Booked
  <2>1. PICK n \in Nat : Booked = 1 .. n
    BY ImportAssumption, FS_CardinalityType
  <2> DEFINE N == {n - d : d \in S}
  <2>2. N \in SUBSET Nat /\ N # {}
    <3>1. \A d \in S : d \in 1 .. n
      BY <2>1
    <3>2. \A d \in S : n - d \in Nat
      BY <2>1, <3>1
    <3> QED
      BY <1>1, <3>2
  <2>3. PICK m \in N : \A k \in N : m <= k
    BY <2>2, Least
  <2>4. PICK d \in S : m = n - d
    BY <2>3
  <2>5. ASSUME NEW e \in S PROVE e <= d
    <3>1. m <= n - e
      BY <2>3
    <3> QED
      BY <2>1, <2>4, <3>1
  <2> QED
    BY <2>5
<1>2. PICK S \in SUBSET Booked : DealOfClient(deals, l) = IF S = {} THEN Null ELSE CHOOSE d \in S : \A e \in S : e <= d
  <2> DEFINE named == {d \in Booked : deals[d].live /\ l.client \in {Title[d], Account[d]}}
             there == {d \in named : deals[d].place = l.place}
             nowhere == {d \in named : deals[d].place = Null}
             found == IF l.place = Null THEN named ELSE IF there # {} THEN there ELSE nowhere
  <2>1. found \in SUBSET Booked
    OBVIOUS
  <2>2. DealOfClient(deals, l) = IF found = {} THEN Null ELSE CHOOSE d \in found : \A e \in found : e <= d
    BY DEF DealOfClient
  <2> HIDE DEF found
  <2> QED
    BY <2>1, <2>2
<1> QED
  BY <1>1, <1>2

(* What is written to a row, and what a deal is told.                      *)
LEMMA WrittenRow ==
  ASSUME NEW rows \in RowTables, NEW w \in Ids, NEW d \in Booked \cup {Null}, NEW l \in LineType,
         NEW r, r = Written(rows, w, d, l)
  PROVE  /\ r \in RowType
         /\ l.place # Null => r.place = l.place
         /\ l.count # Null => r.count = l.count
         /\ w \in DOMAIN rows =>
              /\ l.place = Null => r.place = rows[w].place
              /\ l.count = Null => r.count = rows[w].count
              /\ rows[w].deal # Null => r.deal = rows[w].deal
         /\ r.deal = Null \/ (w \in DOMAIN rows /\ r.deal = rows[w].deal)
              \/ (r.deal = d /\ \A v \in DOMAIN rows \ {w} : rows[v].deal # d)
<1> DEFINE blank == [client |-> l.client, place |-> Null, count |-> Null, deal |-> Null]
           old == IF w \in DOMAIN rows THEN rows[w] ELSE blank
<1>1. /\ l.client \in Words /\ l.place \in Words \cup {Null} /\ l.count \in Nat \cup {Null}
      /\ \A v \in DOMAIN rows : rows[v] \in RowType
  BY Tables DEF LineType
<1>2. old \in RowType /\ (w \in DOMAIN rows => old = rows[w]) /\ (w \notin DOMAIN rows => old.deal = Null)
  BY <1>1 DEF RowType
<1> HIDE DEF old
<1>3. PICK a \in Booked \cup {Null} :
        /\ a = IF old.deal # Null \/ d = Null THEN old.deal ELSE Assigned(rows, w, d)
        /\ a = old.deal \/ a = Null \/ (a = d /\ \A v \in DOMAIN rows \ {w} : rows[v].deal # d)
        /\ old.deal # Null => a = old.deal
  BY <1>2 DEF Assigned, RowType
<1>4. r = [client |-> l.client, place |-> Carried(l.place, old.place),
           count |-> Carried(l.count, old.count), deal |-> a]
  BY <1>3 DEF Written, old
<1>5. r \in RowType
  BY <1>1, <1>2, <1>4 DEF RowType, Carried
<1>6. /\ r.place = IF l.place = Null THEN old.place ELSE l.place
      /\ r.count = IF l.count = Null THEN old.count ELSE l.count
      /\ r.deal = a
  BY <1>4 DEF Carried
<1> QED
  BY <1>2, <1>3, <1>5, <1>6

LEMMA PushedDeal ==
  ASSUME NEW b \in DealType, NEW l \in LineType, NEW r, r = Pushed(b, l)
  PROVE  /\ r \in DealType /\ r.live = b.live
         /\ b.place # Null => r.place # Null
         /\ b.count # Null => r.count # Null
         /\ b.live /\ l.place # Null => r.place = l.place
         /\ b.live /\ l.count # Null => r.count = l.count
BY DEF Pushed, Carried, DealType, LineType

LEMMA SheetsAre ==
  ASSUME NEW lines \in Sheets
  PROVE  /\ lines \in Seq(LineType) /\ Len(lines) \in Nat \ {0}
         /\ DOMAIN lines = 1 .. Len(lines) /\ \A i \in 1 .. Len(lines) : lines[i] \in LineType
<1>1. lines \in Seq(LineType) /\ lines # <<>>
  BY ImportAssumption DEF Sheets
<1> QED
  BY <1>1

LEMMA HitsAre ==
  ASSUME NEW s \in Seq(Ids)
  PROVE  Len(s) \in Nat /\ DOMAIN s = 1 .. Len(s) /\ \A i \in 1 .. Len(s) : s[i] \in Ids
OBVIOUS

LEMMA HitAppended ==
  ASSUME NEW s \in Seq(Ids), NEW w \in Ids
  PROVE  /\ Append(s, w) \in Seq(Ids) /\ Len(Append(s, w)) = Len(s) + 1
         /\ DOMAIN Append(s, w) = 1 .. Len(s) + 1
         /\ \A i \in 1 .. Len(s) : Append(s, w)[i] = s[i]
         /\ Append(s, w)[Len(s) + 1] = w
OBVIOUS

-----------------------------------------------------------------------------
(* What a step leaves of the calls it does not take.                       *)
Undamaged(c) == IdsRight(c) /\ Covers(c) /\ LinksOnce(c)

LEMMA CallsAre ==
  ASSUME NEW c \in ImportType
  PROVE  /\ c.rows \in RowTables /\ DOMAIN c.rows \subseteq Ids
         /\ \A w \in DOMAIN c.rows : c.rows[w] \in RowType
         /\ c.deals \in DealTables /\ DOMAIN c.deals \subseteq Booked
         /\ \A d \in DOMAIN c.deals : c.deals[d] \in DealType
         /\ c.hit \in Seq(Ids) /\ c.found \in Ids \cup {Null} /\ c.deal \in Booked \cup {Null}
         /\ c.at \in Nat /\ c.birth \in Nat
         /\ RowsNamed(c) \subseteq Ids
<1>1. /\ c.rows \in RowTables /\ c.deals \in DealTables /\ c.hit \in Seq(Ids)
      /\ c.found \in Ids \cup {Null} /\ c.deal \in Booked \cup {Null} /\ c.at \in Nat /\ c.birth \in Nat
  BY DEF ImportType
<1>2. RowsNamed(c) \subseteq Ids
  BY <1>1, HitsAre DEF RowsNamed
<1> QED
  BY <1>1, <1>2, Tables

LEMMA NoImportIs ==
  /\ NoImport \in ImportType
  /\ NoImport.pc = "idle" /\ NoImport.at = 0 /\ Len(NoImport.hit) = 0 /\ ~ NoImport.alone
  /\ DOMAIN NoImport.rows = {} /\ DOMAIN NoImport.deals = {}
<1>1. <<>> \in Seq(Ids) /\ Len(<<>>) = 0
  OBVIOUS
<1> QED
  BY <1>1, EmptyTables DEF NoImport, ImportType, ImportPoints

LEMMA RestIsRight ==
  ASSUME NEW c, c.pc \in {"idle", "error"}, ~ c.alone, c.at = 0, Len(c.hit) = 0,
         DOMAIN c.rows = {}, DOMAIN c.deals = {}
  PROVE  CallRight(c) /\ CallRight(c)' /\ \A e : Parted(c, e) /\ Parted(e, c)
<1>1. c.pc \notin Running
  BY DEF Running
<1>2. CallRight(c) /\ CallRight(c)'
  BY <1>1 DEF CallRight
<1>3. \A e : Parted(c, e) /\ Parted(e, c)
  BY <1>1 DEF Parted
<1> QED
  BY <1>2, <1>3

LEMMA Interruption ==
  ASSUME ImportTypes, NEW q \in Imports, NEW c, c = imp[q], CallRight(c), NEW x, x = Interrupted[q],
         c.pc \in Running => Undamaged(c)'
  PROVE  /\ x \in ImportType /\ CallRight(x)' /\ x.pc = c.pc
         /\ \A e : Parted(c, e) => Parted(x, e)
         /\ \A e : Parted(e, c) => Parted(e, x)
<1>1. c \in ImportType
  BY DEF ImportTypes
<1>2. CASE c.pc = "idle"
  <2>1. x = NoImport
    BY <1>2 DEF Interrupted, Stands
  <2>2. /\ x \in ImportType /\ x.pc = c.pc /\ x.pc = "idle" /\ ~ x.alone /\ x.at = 0
        /\ Len(x.hit) = 0 /\ DOMAIN x.rows = {} /\ DOMAIN x.deals = {}
    BY <1>2, <2>1, NoImportIs
  <2>3. CallRight(x)' /\ \A e : Parted(x, e) /\ Parted(e, x)
    BY <2>2, RestIsRight
  <2> QED
    BY <2>2, <2>3
<1>3. CASE c.pc # "idle"
  <2>1. x = [c EXCEPT !.alone = FALSE]
    BY <1>3 DEF Interrupted, Stands
  <2>2. /\ x \in ImportType /\ ~ x.alone /\ x.pc = c.pc /\ x.lines = c.lines /\ x.at = c.at
        /\ x.birth = c.birth /\ x.found = c.found /\ x.deal = c.deal /\ x.rows = c.rows
        /\ x.deals = c.deals /\ x.hit = c.hit /\ x.cut = c.cut
    BY <1>1, <2>1 DEF ImportType
  <2>3. c.pc \in Running => Underway(x)'
    <3>1. RowsNamed(x) = RowsNamed(c)
      BY <2>2 DEF RowsNamed
    <3>2. SUFFICES ASSUME c.pc \in Running PROVE Underway(x)'
      OBVIOUS
    <3>3. InPlace(x) /\ Carries(x)
      <4>1. InPlace(c) /\ Carries(c)
        BY <3>2 DEF CallRight, Underway
      <4>2. InPlace(x)
        BY <2>2, <4>1 DEF InPlace
      <4>3. Carries(x)
        BY <2>2, <4>1, SameTables
      <4> QED
        BY <4>2, <4>3
    <3>4. IdsRight(x)'
      BY <2>2, <3>1, <3>2, SMTT(60) DEF Undamaged, IdsRight
    <3>5. Covers(x)' /\ LinksOnce(x)'
      BY <2>2, <3>2, SMTT(30) DEF Undamaged, Covers, LinksOnce
    <3> QED
      BY <3>3, <3>4, <3>5 DEF Underway
  <2>4. CallRight(x)'
    BY <2>2, <2>3, SMTT(60) DEF CallRight
  <2>5. \A e : (Parted(c, e) => Parted(x, e)) /\ (Parted(e, c) => Parted(e, x))
    BY <2>2 DEF Parted, RowsNamed
  <2> QED
    BY <2>2, <2>4, <2>5
<1> QED
  BY <1>2, <1>3

(* Another call wrote one of the tables.                                   *)
LEMMA TablesChange ==
  ASSUME ImportInv, row' \in RowTables, book' \in [Booked -> DealType], TablesRight',
         born' \in 0 .. Births, others' \in 0 .. Others, imp' = Interrupted,
         \A c \in ImportType : c.pc \in Running /\ (\E q \in Imports : c = imp[q]) => Undamaged(c)'
  PROVE  ImportInv'
<1>1. ImportTypes /\ imp \in [Imports -> ImportType]
  BY DEF ImportInv, ImportTypes
<1>2. ASSUME NEW q \in Imports
      PROVE  /\ Interrupted[q] \in ImportType /\ CallRight(imp[q])'
             /\ \A e : Parted(imp[q], e) => Parted(Interrupted[q], e)
             /\ \A e : Parted(e, imp[q]) => Parted(e, Interrupted[q])
  <2>1. PICK c : c = imp[q]
    OBVIOUS
  <2>2. PICK x : x = Interrupted[q]
    OBVIOUS
  <2>3. c \in ImportType /\ CallRight(c) /\ (c.pc \in Running => Undamaged(c)')
    BY <1>1, <2>1 DEF ImportInv
  <2>4. /\ x \in ImportType /\ CallRight(x)'
        /\ \A e : Parted(c, e) => Parted(x, e)
        /\ \A e : Parted(e, c) => Parted(e, x)
    BY <1>1, <2>1, <2>2, <2>3, Interruption
  <2>5. imp'[q] = x
    BY <2>2
  <2> QED
    BY <2>1, <2>2, <2>4, <2>5
<1>3. imp' \in [Imports -> ImportType]
  BY <1>2 DEF Interrupted
<1>4. ImportTypes'
  BY <1>3 DEF ImportTypes
<1>5. ASSUME NEW q \in Imports, NEW o \in Imports, q # o PROVE Parted(imp'[q], imp'[o])
  <2>1. Parted(imp[q], imp[o])
    BY <1>5 DEF ImportInv
  <2> QED
    BY <1>2, <2>1
<1> QED
  BY <1>2, <1>4, <1>5 DEF ImportInv

LEMMA CallStays ==
  ASSUME NEW x, row' = row, book' = book, born' = born, CallRight(x) PROVE CallRight(x)'
<1>1. x.pc \in Running => Underway(x)'
  <2>1. IdsRight(x) => IdsRight(x)'
    BY DEF IdsRight
  <2>2. Covers(x) => Covers(x)'
    BY DEF Covers
  <2>3. LinksOnce(x) => LinksOnce(x)'
    BY DEF LinksOnce
  <2> QED
    BY <2>1, <2>2, <2>3 DEF CallRight, Underway
<1>2. FoundRight(x) => FoundRight(x)'
  BY DEF FoundRight
<1>3. LastRight(x) => LastRight(x)'
  BY DEF LastRight
<1>4. ExactRight(x) => ExactRight(x)'
  BY DEF ExactRight
<1> QED
  BY <1>1, <1>2, <1>3, <1>4 DEF CallRight

(* The step of one call, which writes no table.                            *)
LEMMA OneCall ==
  ASSUME ImportInv, NEW p \in Imports, NEW x \in ImportType, imp' = [imp EXCEPT ![p] = x],
         row' = row, book' = book, others' = others, born' \in born .. Births, CallRight(x)',
         \A q \in Elsewhere(p) : Parted(x, imp[q]) /\ Parted(imp[q], x)
  PROVE  ImportInv'
<1>1. /\ ImportTypes /\ TablesRight /\ imp \in [Imports -> ImportType] /\ row \in RowTables
      /\ born \in Nat /\ born' \in Nat /\ born <= born' /\ born' \in 0 .. Births
  BY ImportAssumption DEF ImportInv, ImportTypes
<1>2. ImportTypes'
  BY <1>1 DEF ImportTypes
<1>3. TablesRight'
  BY <1>1, Tables, IdsAre DEF TablesRight, DealKeepsOneRow, Linked
<1>4. ASSUME NEW q \in Imports PROVE CallRight(imp[q])'
  <2>1. CASE q = p
    BY <1>1, <2>1
  <2>2. CASE q # p
    <3>1. PICK c \in ImportType : c = imp[q] /\ CallRight(c)
      BY <1>1 DEF ImportInv
    <3>2. IdsRight(c) => IdsRight(c)'
      BY <1>1, CallsAre, IdsAre DEF IdsRight
    <3>3. Underway(c) => Underway(c)'
      BY <3>2, SMTT(60) DEF Underway, Covers, LinksOnce
    <3>4. CallRight(c)'
      BY <3>1, <3>3 DEF CallRight, FoundRight, LastRight, ExactRight
    <3> QED
      BY <1>1, <2>2, <3>1, <3>4
  <2> QED
    BY <2>1, <2>2
<1>5. ASSUME NEW q \in Imports, NEW o \in Imports, q # o PROVE Parted(imp'[q], imp'[o])
  BY <1>1, <1>5 DEF ImportInv, Elsewhere
<1> QED
  BY <1>2, <1>3, <1>4, <1>5 DEF ImportInv

-----------------------------------------------------------------------------
LEMMA InitImportInv == ImportInit => ImportInv
<1> SUFFICES ASSUME ImportInit PROVE ImportInv
  OBVIOUS
<1>1. PICK w \in Worlds : row = w.row /\ book = w.book
  BY DEF ImportInit
<1>2. born = 0 /\ others = 0 /\ \A p \in Imports : imp[p] = NoImport
  BY DEF ImportInit
<1>3. /\ DOMAIN row \subseteq {0} \X (1 .. 3) /\ row \in [DOMAIN row -> RowType]
      /\ book \in [Booked -> DealType]
      /\ \A u, v \in DOMAIN row : row[u].deal = row[v].deal /\ Linked(row, u) => u = v
  BY <1>1, ImportAssumption
<1>4. DOMAIN row \subseteq Ids /\ \A v \in DOMAIN row : v[1] = 0
  BY <1>3, ImportAssumption DEF Ids
<1>5. ImportTypes
  <2>1. row \in RowTables
    BY <1>3, <1>4, Tables
  <2>2. imp \in [Imports -> ImportType]
    BY NoImportIs DEF ImportInit
  <2>3. 0 \in 0 .. Births /\ 0 \in 0 .. Others
    BY ImportAssumption
  <2> QED
    BY <1>2, <1>3, <2>1, <2>2, <2>3 DEF ImportTypes
<1>6. TablesRight
  BY <1>2, <1>3, <1>4 DEF TablesRight, DealKeepsOneRow
<1>7. CallRight(NoImport) /\ \A e : Parted(NoImport, e) /\ Parted(e, NoImport)
  BY NoImportIs, RestIsRight
<1> QED
  BY <1>2, <1>5, <1>6, <1>7 DEF ImportInv

(* A call is begun, given up or put away.                                  *)
LEMMA RestStep ==
  ASSUME ImportInv, NEW p \in Imports, NEW x \in ImportType, imp' = [imp EXCEPT ![p] = x],
         UNCHANGED <<row, book, born, others>>,
         x.pc \in {"idle", "error"}, ~ x.alone, x.at = 0, Len(x.hit) = 0,
         DOMAIN x.rows = {}, DOMAIN x.deals = {}
  PROVE  ImportInv'
<1>1. CallRight(x)' /\ \A e : Parted(x, e) /\ Parted(e, x)
  BY RestIsRight
<1>2. born' \in born .. Births
  BY DEF ImportInv, ImportTypes
<1> QED
  BY <1>1, <1>2, OneCall

LEMMA FailImportStep == ASSUME ImportInv, NEW p \in Imports, Fail(p) PROVE ImportInv'
<1>1. PICK x : x = [NoImport EXCEPT !.pc = "error"]
  OBVIOUS
<1>2. /\ x \in ImportType /\ x.pc = "error" /\ ~ x.alone /\ x.at = 0 /\ Len(x.hit) = 0
      /\ DOMAIN x.rows = {} /\ DOMAIN x.deals = {}
  <2>1. <<>> \in Seq(Ids) /\ Len(<<>>) = 0
    OBVIOUS
  <2> QED
    BY <1>1, <2>1, EmptyTables DEF NoImport, ImportType, ImportPoints
<1>3. imp' = [imp EXCEPT ![p] = x] /\ UNCHANGED <<row, book, born, others>>
  BY <1>1 DEF Fail, Proceed
<1> QED
  BY <1>2, <1>3, RestStep

LEMMA EndStep == ASSUME ImportInv, NEW p \in Imports, EndImport(p) PROVE ImportInv'
<1>1. imp' = [imp EXCEPT ![p] = NoImport] /\ UNCHANGED <<row, book, born, others>>
  BY DEF EndImport, Proceed
<1> QED
  BY <1>1, NoImportIs, RestStep

LEMMA ShownWhereOne ==
  ASSUME NEW rows, NEW l, NEW s \in ShownRows(rows, l), Exact(rows, l), IsFiniteSet(DOMAIN rows)
  PROVE  l.title = Null /\ l.place # Null /\ OneThere(rows, l, s) /\ s \in DOMAIN rows
<1> DEFINE there == OfClient(rows, l.client) \cap Placed(rows, l.place)
<1>1. l.title = Null /\ l.place # Null /\ Cardinality(there) = 1
  BY DEF Exact
<1>2. there \subseteq DOMAIN rows /\ IsFiniteSet(there)
  BY FS_Subset DEF Placed
<1>3. PICK w : there = {w}
  BY <1>1, <1>2, FS_Singleton
<1>4. OfClient(rows, l.client) # {} /\ there # {}
  BY <1>3
<1>5. s \in Preferred(rows, there)
  BY <1>1, <1>4 DEF ShownRows
<1>6. s = w
  BY <1>3, <1>5 DEF Preferred
<1> QED
  BY <1>1, <1>2, <1>3, <1>6 DEF OneThere

LEMMA IdsAreFinite == IsFiniteSet(Ids)
<1>1. 0 \in Int /\ 1 \in Int /\ 3 \in Int /\ Births \in Int
  BY ImportAssumption
<1>2. IsFiniteSet(0 .. Births) /\ IsFiniteSet(1 .. 3)
  BY <1>1, FS_Interval, Zenon
<1> QED
  BY <1>2, FS_Product DEF Ids

LEMMA Previewed ==
  ASSUME ImportInv, NEW p \in Imports, Preview(p)
  PROVE  \E x \in ImportType :
           /\ imp' = [imp EXCEPT ![p] = x] /\ UNCHANGED <<row, book, born, others>>
           /\ x.pc = "shown" /\ x.lines \in Sheets /\ x.alone /\ x.at = 0 /\ Len(x.hit) = 0
           /\ DOMAIN x.rows = {} /\ DOMAIN x.deals = {}
           /\ x.exact => /\ x.lines[1].title = Null /\ x.lines[1].place # Null
                         /\ OneThere(row, x.lines[1], x.shown[1]) /\ x.shown[1] \in DOMAIN row
           /\ x.same # Null => /\ x.exact /\ Len(x.lines) = 1 /\ x.same = row[x.shown[1]]
                               /\ ~ diff(x.same, x.lines[1])
<1>1. PICK lines \in Sheets : \E shown \in [DOMAIN lines -> DOMAIN row \cup {Null}] :
        /\ \A i \in DOMAIN lines : shown[i] \in ShownRows(row, lines[i])
        /\ imp' = [imp EXCEPT ![p] = [NoImport EXCEPT !.pc = "shown", !.lines = lines,
             !.alone = TRUE, !.shown = shown, !.exact = Exact(row, lines[1]),
             !.same = IF Exact(row, lines[1]) /\ Len(lines) = 1 /\ ~ diff(row[shown[1]], lines[1])
                        THEN row[shown[1]] ELSE Null]]
        /\ UNCHANGED <<row, book, born, others>>
  BY DEF Preview, Proceed
<1>0. PICK shown \in [DOMAIN lines -> DOMAIN row \cup {Null}] :
        /\ \A i \in DOMAIN lines : shown[i] \in ShownRows(row, lines[i])
        /\ imp' = [imp EXCEPT ![p] = [NoImport EXCEPT !.pc = "shown", !.lines = lines,
             !.alone = TRUE, !.shown = shown, !.exact = Exact(row, lines[1]),
             !.same = IF Exact(row, lines[1]) /\ Len(lines) = 1 /\ ~ diff(row[shown[1]], lines[1])
                        THEN row[shown[1]] ELSE Null]]
        /\ UNCHANGED <<row, book, born, others>>
  BY <1>1, Zenon
<1>2. row \in RowTables /\ DOMAIN row \subseteq Ids /\ row \in [DOMAIN row -> RowType]
  BY Tables DEF ImportInv, ImportTypes
<1>3. 1 \in DOMAIN lines /\ DOMAIN lines \in SUBSET Nat
  BY SheetsAre
<1>4. Exact(row, lines[1]) =>
        /\ lines[1].title = Null /\ lines[1].place # Null
        /\ OneThere(row, lines[1], shown[1]) /\ shown[1] \in DOMAIN row
  BY <1>0, <1>2, <1>3, IdsAreFinite, FS_Subset, ShownWhereOne
<1>5. PICK same \in RowType \cup {Null} :
        same = IF Exact(row, lines[1]) /\ Len(lines) = 1 /\ ~ diff(row[shown[1]], lines[1])
                 THEN row[shown[1]] ELSE Null
  BY <1>2, <1>4
<1>6. PICK x : x = [NoImport EXCEPT !.pc = "shown", !.lines = lines, !.alone = TRUE,
                      !.shown = shown, !.exact = Exact(row, lines[1]), !.same = same]
  OBVIOUS
<1>7. imp' = [imp EXCEPT ![p] = x]
  BY <1>0, <1>5, <1>6, Zenon
<1>8. shown \in Showings /\ Exact(row, lines[1]) \in BOOLEAN
  BY <1>0, <1>2, <1>3 DEF Showings, Exact
<1>9. /\ x \in ImportType /\ x.pc = "shown" /\ x.lines = lines /\ x.alone /\ x.at = 0
      /\ x.shown = shown /\ (x.exact <=> Exact(row, lines[1])) /\ Len(x.hit) = 0 /\ x.same = same
      /\ DOMAIN x.rows = {} /\ DOMAIN x.deals = {}
  <2>1. <<>> \in Seq(Ids) /\ Len(<<>>) = 0
    OBVIOUS
  <2> QED
    BY <1>5, <1>6, <1>8, <2>1, EmptyTables DEF NoImport, ImportType, ImportPoints
<1>10. x.same # Null => /\ x.exact /\ Len(x.lines) = 1 /\ x.same = row[x.shown[1]]
                        /\ ~ diff(x.same, x.lines[1])
  BY <1>5, <1>9
<1> QED
  BY <1>0, <1>4, <1>7, <1>9, <1>10

LEMMA PreviewStep == ASSUME ImportInv, NEW p \in Imports, Preview(p) PROVE ImportInv'
<1>1. PICK x \in ImportType :
        /\ imp' = [imp EXCEPT ![p] = x] /\ UNCHANGED <<row, book, born, others>>
        /\ x.pc = "shown" /\ x.lines \in Sheets /\ x.alone /\ x.at = 0 /\ Len(x.hit) = 0
        /\ DOMAIN x.rows = {} /\ DOMAIN x.deals = {}
        /\ x.exact => /\ x.lines[1].title = Null /\ x.lines[1].place # Null
                      /\ OneThere(row, x.lines[1], x.shown[1]) /\ x.shown[1] \in DOMAIN row
  BY Previewed
<1>2. x.pc \notin Running
  BY <1>1 DEF Running
<1>3. CallRight(x)'
  <2>1. FoundRight(x)' /\ LastRight(x)'
    BY <1>1 DEF FoundRight, LastRight
  <2>2. ExactRight(x)'
    BY <1>1, <1>2 DEF ExactRight, OneThere
  <2> QED
    BY <1>1, <1>2, <2>1, <2>2 DEF CallRight
<1>4. \A e : Parted(x, e) /\ Parted(e, x)
  BY <1>1, <1>2 DEF Parted
<1>5. born' \in born .. Births
  BY <1>1 DEF ImportInv, ImportTypes
<1> QED
  BY <1>1, <1>3, <1>4, <1>5, OneCall

LEMMA ConfirmStep == ASSUME ImportInv, NEW p \in Imports, Confirm(p) PROVE ImportInv'
<1>1. PICK c : c = imp[p]
  OBVIOUS
<1>2. /\ c \in ImportType /\ CallRight(c) /\ ImportTypes /\ TablesRight
      /\ row \in RowTables /\ DOMAIN row \subseteq Ids
      /\ born \in Nat /\ born < Births /\ born' = born + 1 /\ born' \in born .. Births
      /\ c.pc = "shown" /\ UNCHANGED <<row, book, others>>
  BY <1>1, ImportAssumption, Tables DEF ImportInv, ImportTypes, Confirm, Stands
<1>3. PICK x : x = [c EXCEPT !.pc = "row", !.at = 1, !.birth = born + 1]
  OBVIOUS
<1>4. imp' = [imp EXCEPT ![p] = x]
  BY <1>1, <1>3 DEF Confirm, Proceed
<1>5. /\ x \in ImportType /\ x.pc = "row" /\ x.at = 1 /\ x.birth = born + 1 /\ x.lines = c.lines
      /\ x.hit = c.hit /\ x.rows = c.rows /\ x.deals = c.deals /\ x.alone = c.alone
      /\ x.exact = c.exact /\ x.shown = c.shown
  <2>1. born + 1 \in Nat
    BY <1>2
  <2>2. c \in ImportType /\ "row" \in ImportPoints
    BY <1>2 DEF ImportPoints, Running
  <2> QED
    BY <1>3, <2>1, <2>2 DEF ImportType
<1>6. /\ c.lines \in Sheets /\ Len(c.hit) = 0 /\ c.hit \in Seq(Ids)
      /\ DOMAIN c.rows = {} /\ DOMAIN c.deals = {}
  BY <1>2, CallsAre DEF CallRight, Running
<1>7. RowsNamed(x) = {} /\ DOMAIN x.hit = {}
  BY <1>5, <1>6, HitsAre DEF RowsNamed
<1>8. Underway(x)'
  <2>1. InPlace(x)
    BY <1>5, <1>6, SheetsAre DEF InPlace
  <2>2. IdsRight(x)'
    BY <1>2, <1>5, <1>6, <1>7, IdsAre DEF IdsRight, TablesRight
  <2>3. Covers(x)' /\ LinksOnce(x)' /\ Carries(x)
    BY <1>5, <1>6, <1>7 DEF Covers, LinksOnce, Carries
  <2> QED
    BY <2>1, <2>2, <2>3 DEF Underway
<1>9. x.alone => FoundRight(x)' /\ LastRight(x)' /\ ExactRight(x)'
  <2>1. FoundRight(x)' /\ LastRight(x)'
    BY <1>5 DEF FoundRight, LastRight
  <2>2. ASSUME x.alone PROVE ExactRight(x)'
    BY <1>2, <1>5, <1>6, <2>2 DEF CallRight, ExactRight, OneThere, OfClient, Placed
  <2> QED
    BY <2>1, <2>2
<1>10. CallRight(x)'
  BY <1>5, <1>8, <1>9 DEF CallRight, Running
<1>11. ASSUME NEW q \in Elsewhere(p) PROVE Parted(x, imp[q]) /\ Parted(imp[q], x)
  <2>1. PICK e \in ImportType : e = imp[q] /\ CallRight(e)
    BY DEF ImportInv, ImportTypes, Elsewhere
  <2>2. e.pc \in Running => IdsRight(e)
    BY <2>1 DEF CallRight, Underway
  <2>3. e.pc \in Running => \A w \in RowsNamed(e) \cup DOMAIN e.rows : w[1] # born + 1
    BY <1>2, <2>1, <2>2, CallsAre, IdsAre DEF IdsRight
  <2>4. e.pc \in Running => e.birth # born + 1
    BY <1>2, <2>2 DEF IdsRight
  <2> QED
    BY <1>5, <1>6, <1>7, <2>1, <2>3, <2>4 DEF Parted
<1> QED
  BY <1>2, <1>4, <1>5, <1>10, <1>11, OneCall

(* What a call may use of the tables and of itself.                        *)
LEMMA CallKnows ==
  ASSUME ImportInv, NEW p \in Imports, NEW c, c = imp[p]
  PROVE  /\ c \in ImportType /\ CallRight(c) /\ imp \in [Imports -> ImportType]
         /\ row \in RowTables /\ DOMAIN row \subseteq Ids /\ \A w \in DOMAIN row : row[w] \in RowType
         /\ book \in [Booked -> DealType] /\ born \in Nat
         /\ born \in born .. Births /\ born \in 0 .. Births /\ others \in 0 .. Others
         /\ RowsSeen(p) = Over(c.rows, row) /\ RowsSeen(p) \in RowTables
         /\ DealsSeen(p) = Over(c.deals, book) /\ DealsSeen(p) \in [Booked -> DealType]
         /\ c.pc \in Running => /\ Underway(c) /\ Line(p) = c.lines[c.at] /\ Line(p) \in LineType
                                /\ c.lines \in Sheets /\ Len(c.lines) \in Nat /\ c.at \in 1 .. Len(c.lines)
<1>1. /\ c \in ImportType /\ CallRight(c) /\ imp \in [Imports -> ImportType]
      /\ row \in RowTables /\ book \in [Booked -> DealType] /\ born \in 0 .. Births /\ others \in 0 .. Others
  BY DEF ImportInv, ImportTypes
<1>2. c.rows \in RowTables /\ c.deals \in DealTables
  BY <1>1, CallsAre
<1>3. Over(c.rows, row) \in RowTables /\ Over(c.deals, book) \in [Booked -> DealType]
  BY <1>1, <1>2, RowsOver, DealsOver
<1>4. ASSUME c.pc \in Running
      PROVE  /\ Underway(c) /\ Line(p) = c.lines[c.at] /\ Line(p) \in LineType
             /\ c.lines \in Sheets /\ Len(c.lines) \in Nat /\ c.at \in 1 .. Len(c.lines)
  <2>1. Underway(c) /\ Line(p) = c.lines[c.at] /\ c.lines \in Sheets /\ c.at \in 1 .. Len(c.lines)
    BY <1>1, <1>4 DEF CallRight, Underway, InPlace, Line
  <2> QED
    BY <2>1, SheetsAre
<1>5. DOMAIN row \subseteq Ids /\ \A w \in DOMAIN row : row[w] \in RowType
  BY <1>1, Tables
<1> QED
  BY <1>1, <1>3, <1>4, <1>5, ImportAssumption DEF RowsSeen, DealsSeen

(* A transaction stays apart from the others, if it names no rows but      *)
(* those it sees and its own.                                              *)
LEMMA StaysApart ==
  ASSUME ImportInv, NEW p \in Imports, NEW c, c = imp[p], c.pc \in Running,
         NEW x \in ImportType, x.birth = c.birth,
         \A w \in RowsNamed(x) \cup DOMAIN x.rows :
           w \in RowsNamed(c) \cup DOMAIN c.rows \cup DOMAIN row \/ w[1] = c.birth,
         \A q \in Elsewhere(p) :
           /\ DOMAIN x.rows \cap DOMAIN imp[q].rows = {}
           /\ DOMAIN x.deals \cap DOMAIN imp[q].deals = {}
           /\ \A v \in DOMAIN x.rows, w \in DOMAIN imp[q].rows :
                x.rows[v].deal = imp[q].rows[w].deal => x.rows[v].deal = Null
  PROVE  \A q \in Elsewhere(p) : Parted(x, imp[q]) /\ Parted(imp[q], x)
<1> SUFFICES ASSUME NEW q \in Elsewhere(p) PROVE Parted(x, imp[q]) /\ Parted(imp[q], x)
  OBVIOUS
<1>1. PICK e : e = imp[q]
  OBVIOUS
<1>2. CallRight(e) /\ Parted(c, e) /\ Parted(e, c)
  BY <1>1 DEF ImportInv, Elsewhere
<1>3. ASSUME e.pc \in Running
      PROVE  /\ x.birth # e.birth
             /\ \A w \in RowsNamed(x) \cup DOMAIN x.rows : w[1] # e.birth
             /\ \A w \in RowsNamed(e) \cup DOMAIN e.rows : w[1] # x.birth
  <2>1. IdsRight(e)
    BY <1>2, <1>3 DEF CallRight, Underway
  <2>2. /\ c.birth # e.birth /\ \A w \in RowsNamed(c) \cup DOMAIN c.rows : w[1] # e.birth
        /\ \A w \in RowsNamed(e) \cup DOMAIN e.rows : w[1] # c.birth
    BY <1>2, <1>3 DEF Parted
  <2>3. \A w \in DOMAIN row : w[1] # e.birth
    BY <2>1 DEF IdsRight
  <2> QED
    BY <2>2, <2>3
<1> QED
  BY <1>1, <1>3 DEF Parted

LEMMA RowsApart ==
  ASSUME ImportInv, NEW p \in Imports, NEW c, c = imp[p], NEW q \in Elsewhere(p)
  PROVE  /\ DOMAIN c.rows \cap DOMAIN imp[q].rows = {}
         /\ DOMAIN c.deals \cap DOMAIN imp[q].deals = {}
         /\ \A v \in DOMAIN c.rows, w \in DOMAIN imp[q].rows :
              c.rows[v].deal = imp[q].rows[w].deal => c.rows[v].deal = Null
BY DEF ImportInv, Elsewhere, Parted

(* x goes on where c is, with the tables as c left them.                   *)
GoesOn(x, c) ==
  /\ x.lines = c.lines /\ x.birth = c.birth /\ x.shown = c.shown
  /\ x.alone <=> c.alone
  /\ x.exact <=> c.exact
  /\ x.rows = c.rows /\ x.deals = c.deals /\ x.hit = c.hit /\ x.same = c.same
  /\ x.cut <=> c.cut

(* A call has found a row, or a deal.                                      *)
LEMMA Resolving ==
  ASSUME ImportInv, NEW p \in Imports, NEW c, c = imp[p], c.pc \in {"row", "deal"},
         NEW x \in ImportType, imp' = [imp EXCEPT ![p] = x],
         UNCHANGED <<row, book, born, others>>,
         GoesOn(x, c), x.at = c.at, x.pc \in {"deal", "write"},
         x.found \in DOMAIN RowsSeen(p) \cup {Null} \/ (c.pc = "deal" /\ x.found = c.found),
         x.pc = "deal" => x.deal = Null,
         c.alone /\ x.found # Null =>
           x.found \in DOMAIN RowsSeen(p) /\ RowsSeen(p)[x.found].deal \in {Null, x.deal},
         c.alone /\ c.exact /\ c.at = 1 => x.found = c.shown[1] /\ x.found # Null
  PROVE  ImportInv'
<1>1. /\ c \in ImportType /\ CallRight(c) /\ row \in RowTables /\ DOMAIN row \subseteq Ids
      /\ born \in Nat /\ born \in born .. Births /\ RowsSeen(p) = Over(c.rows, row)
      /\ c.pc \in Running /\ Underway(c)
  BY CallKnows DEF Running
<1>2. /\ DOMAIN RowsSeen(p) = DOMAIN c.rows \cup DOMAIN row /\ DOMAIN RowsSeen(p) \subseteq Ids
      /\ c.hit \in Seq(Ids) /\ c.found \in Ids \cup {Null} /\ c.rows \in RowTables /\ c.at \in Nat
  <2>1. /\ c.hit \in Seq(Ids) /\ c.found \in Ids \cup {Null} /\ c.rows \in RowTables /\ c.at \in Nat
        /\ DOMAIN c.rows \subseteq Ids
    BY <1>1, CallsAre
  <2>2. DOMAIN RowsSeen(p) = DOMAIN c.rows \cup DOMAIN row
    BY <1>1 DEF Over
  <2> QED
    BY <1>1, <2>1, <2>2
<1>5. /\ x.lines = c.lines /\ x.birth = c.birth /\ x.rows = c.rows /\ x.deals = c.deals
      /\ x.hit = c.hit /\ x.shown = c.shown
      /\ (x.alone <=> c.alone) /\ (x.exact <=> c.exact) /\ (x.cut <=> c.cut)
  BY DEF GoesOn
<1>6. /\ \A w \in RowsNamed(x) : w \in RowsNamed(c) \cup DOMAIN c.rows \cup DOMAIN row
      /\ RowsNamed(x) \subseteq Ids
  <2>1. \A w \in RowsNamed(x) : (w = x.found /\ x.found # Null) \/ \E i \in DOMAIN c.hit : w = c.hit[i]
    BY <1>5 DEF RowsNamed
  <2>2. x.found # Null => x.found \in RowsNamed(c) \cup DOMAIN c.rows \cup DOMAIN row
    BY <1>2 DEF RowsNamed
  <2>3. \A i \in DOMAIN c.hit : c.hit[i] \in RowsNamed(c)
    BY DEF RowsNamed
  <2> QED
    BY <1>5, <2>1, <2>2, <2>3, CallsAre
<1>7. InPlace(x) /\ Covers(x) /\ LinksOnce(x) /\ Carries(x)
  <2>1. InPlace(c) /\ Covers(c) /\ LinksOnce(c) /\ Carries(c)
    BY <1>1 DEF Underway
  <2>2. InPlace(x)
    BY <1>5, <2>1 DEF InPlace
  <2>3. Covers(x) /\ LinksOnce(x)
    BY <1>5, <2>1, SameTables
  <2>4. Carries(x)
    BY <1>5, <2>1, SameTables
  <2> QED
    BY <2>2, <2>3, <2>4
<1>8. IdsRight(x)
  <2>1. IdsRight(c) /\ TablesRight
    BY <1>1 DEF Underway, ImportInv
  <2>2. ASSUME NEW w \in RowsNamed(x) PROVE w[1] <= born /\ (w[1] = c.birth => w \in DOMAIN c.rows)
    BY <1>6, <2>1, <2>2 DEF IdsRight, TablesRight
  <2> QED
    BY <1>5, <2>1, <2>2 DEF IdsRight
<1>9. x.alone => FoundRight(x) /\ LastRight(x) /\ ExactRight(x)
  <2>1. SUFFICES ASSUME x.alone PROVE FoundRight(x) /\ LastRight(x) /\ ExactRight(x)
    OBVIOUS
  <2>2. FoundRight(x)
    BY <1>1, <1>5, <2>1, SMTT(60) DEF FoundRight
  <2>3. LastRight(x)
    BY <1>5, SMTT(60) DEF LastRight
  <2>4. ExactRight(x)
    BY <1>1, <1>5, <2>1 DEF CallRight, ExactRight, Running
  <2> QED
    BY <2>2, <2>3, <2>4
<1>10. CallRight(x)
  BY <1>5, <1>7, <1>8, <1>9 DEF CallRight, Underway, Running
<1>11. CallRight(x)'
  <2>1. row' = row /\ book' = book /\ born' = born
    OBVIOUS
  <2> QED
    BY <1>10, <2>1, CallStays
<1>12. \A q \in Elsewhere(p) : Parted(x, imp[q]) /\ Parted(imp[q], x)
  <2>1. \A w \in RowsNamed(x) \cup DOMAIN x.rows :
          w \in RowsNamed(c) \cup DOMAIN c.rows \cup DOMAIN row \/ w[1] = c.birth
    BY <1>5, <1>6
  <2>2. ASSUME NEW q \in Elsewhere(p)
        PROVE  /\ DOMAIN x.rows \cap DOMAIN imp[q].rows = {}
               /\ DOMAIN x.deals \cap DOMAIN imp[q].deals = {}
               /\ \A v \in DOMAIN x.rows, w \in DOMAIN imp[q].rows :
                    x.rows[v].deal = imp[q].rows[w].deal => x.rows[v].deal = Null
    <3>1. /\ DOMAIN c.rows \cap DOMAIN imp[q].rows = {} /\ DOMAIN c.deals \cap DOMAIN imp[q].deals = {}
          /\ \A v \in DOMAIN c.rows, w \in DOMAIN imp[q].rows :
               c.rows[v].deal = imp[q].rows[w].deal => c.rows[v].deal = Null
      BY RowsApart, ZenonT(60)
    <3> QED
      BY <1>5, <3>1
  <2> QED
    BY <1>1, <1>5, <2>1, <2>2, StaysApart
<1> QED
  BY <1>1, <1>5, <1>11, <1>12, OneCall

LEMMA ResolveRowStep == ASSUME ImportInv, NEW p \in Imports, ResolveRow(p) PROVE ImportInv'
<1>1. PICK c : c = imp[p]
  OBVIOUS
<1>2. PICK r \in Resolved(RowsSeen(p), DealsSeen(p), Line(p)) :
        imp' = [imp EXCEPT ![p] = [c EXCEPT !.pc = IF r.deal = Null THEN "deal" ELSE "write",
                                            !.found = r.row, !.deal = r.deal]]
  BY <1>1 DEF ResolveRow, Proceed
<1>3. c.pc = "row" /\ UNCHANGED <<row, book, born, others>>
  BY <1>1 DEF ResolveRow, Stands
<1>4. /\ CallRight(c) /\ RowsSeen(p) = Over(c.rows, row) /\ RowsSeen(p) \in RowTables
      /\ Line(p) = c.lines[c.at] /\ DOMAIN row \subseteq Ids
  BY <1>1, <1>3, CallKnows DEF Running
<1>5. /\ r.row \in DOMAIN RowsSeen(p) \cup {Null} /\ r.deal \in Booked \cup {Null}
      /\ r.row # Null => RowsSeen(p)[r.row].deal = r.deal
      /\ \A w : Line(p).title = Null /\ Line(p).place # Null /\ OneThere(RowsSeen(p), Line(p), w) => r.row = w
  BY <1>4, ResolvedFound
<1>6. ASSUME c.alone, c.exact, c.at = 1 PROVE r.row = c.shown[1] /\ r.row # Null
  <2>1. /\ c.lines[1].title = Null /\ c.lines[1].place # Null
        /\ OneThere(row, c.lines[1], c.shown[1]) /\ DOMAIN c.rows = {}
    BY <1>3, <1>4, <1>6 DEF CallRight, ExactRight
  <2>2. OneThere(RowsSeen(p), c.lines[1], c.shown[1])
    <3>1. DOMAIN RowsSeen(p) = DOMAIN row /\ \A w \in DOMAIN row : RowsSeen(p)[w] = row[w]
      BY <1>4, <2>1 DEF Over
    <3> QED
      BY <2>1, <3>1 DEF OneThere, OfClient, Placed
  <2>3. c.shown[1] \in DOMAIN row
    BY <2>1 DEF OneThere, OfClient
  <2> QED
    BY <1>4, <1>5, <1>6, <2>1, <2>2, <2>3, IdsAre
<1>7. PICK x : x = [c EXCEPT !.pc = IF r.deal = Null THEN "deal" ELSE "write",
                             !.found = r.row, !.deal = r.deal]
  OBVIOUS
<1>8. imp' = [imp EXCEPT ![p] = x]
  BY <1>2, <1>7, Zenon
<1>9. /\ x \in ImportType /\ GoesOn(x, c) /\ x.at = c.at /\ x.found = r.row /\ x.deal = r.deal
      /\ x.pc = IF r.deal = Null THEN "deal" ELSE "write"
  <2>1. c \in ImportType /\ r.row \in Ids \cup {Null}
    BY <1>1, <1>4, <1>5, CallKnows, Tables
  <2>2. PICK s \in ImportPoints : s = IF r.deal = Null THEN "deal" ELSE "write"
    BY DEF ImportPoints, Running
  <2>3. x = [c EXCEPT !.pc = s, !.found = r.row, !.deal = r.deal]
    BY <1>7, <2>2
  <2> QED
    BY <1>5, <2>1, <2>2, <2>3, ZenonT(60) DEF ImportType, GoesOn
<1> QED
  BY <1>1, <1>3, <1>5, <1>6, <1>8, <1>9, Resolving

LEMMA ResolveDealStep == ASSUME ImportInv, NEW p \in Imports, ResolveDeal(p) PROVE ImportInv'
<1>1. PICK c : c = imp[p]
  OBVIOUS
<1>2. PICK d \in Booked \cup {Null} : d = DealOfClient(DealsSeen(p), Line(p))
  BY DealOfClientFound
<1>3. /\ c.pc = "deal" /\ UNCHANGED <<row, book, born, others>>
      /\ imp' = [imp EXCEPT ![p] = [c EXCEPT !.pc = "write", !.deal = d]]
  BY <1>1, <1>2 DEF ResolveDeal, Proceed, Stands
<1>4. c \in ImportType /\ CallRight(c) /\ RowsSeen(p) = Over(c.rows, row)
  BY <1>1, CallKnows
<1>5. PICK x : x = [c EXCEPT !.pc = "write", !.deal = d]
  OBVIOUS
<1>6. imp' = [imp EXCEPT ![p] = x]
  BY <1>3, <1>5
<1>7. /\ x \in ImportType /\ GoesOn(x, c) /\ x.at = c.at /\ x.found = c.found /\ x.deal = d
      /\ x.pc = "write"
  <2>1. "write" \in ImportPoints
    BY DEF ImportPoints, Running
  <2> QED
    BY <1>2, <1>4, <1>5, <2>1, ZenonT(60) DEF ImportType, GoesOn
<1>8. c.alone /\ x.found # Null =>
        x.found \in DOMAIN RowsSeen(p) /\ RowsSeen(p)[x.found].deal \in {Null, x.deal}
  BY <1>3, <1>4, <1>7 DEF CallRight, FoundRight
<1>9. c.alone /\ c.exact /\ c.at = 1 => x.found = c.shown[1] /\ x.found # Null
  BY <1>3, <1>4, <1>7 DEF CallRight, ExactRight
<1> QED
  BY <1>1, <1>3, <1>6, <1>7, <1>8, <1>9, Resolving

-----------------------------------------------------------------------------
(* Writing a line: to its row, then to its deal.                           *)
MovesOn(x, c) ==
  /\ GoesOn(x, c)
  /\ IF c.at = Len(c.lines) THEN x.pc = "end" /\ x.at = c.at ELSE x.pc = "row" /\ x.at = c.at + 1

WroteRow(x, c) ==
  \/ c.deal = Null /\ MovesOn(x, c)
  \/ c.deal # Null /\ GoesOn(x, c) /\ x.pc = "push" /\ x.at = c.at /\ x.deal = c.deal

LEMMA NextLineIs ==
  ASSUME NEW c \in ImportType, NEW x, x = NextLine(c) PROVE x \in ImportType /\ MovesOn(x, c)
<1>1. "end" \in ImportPoints /\ "row" \in ImportPoints
  BY DEF ImportPoints, Running
<1>2. CASE c.at = Len(c.lines)
  <2>1. x = [c EXCEPT !.pc = "end", !.found = Null, !.deal = Null]
    BY <1>2 DEF NextLine
  <2> QED
    BY <1>1, <1>2, <2>1, ZenonT(60) DEF ImportType, MovesOn, GoesOn
<1>3. CASE c.at # Len(c.lines)
  <2>1. PICK n \in Nat : n = c.at + 1
    BY DEF ImportType
  <2>2. x = [c EXCEPT !.pc = "row", !.at = n, !.found = Null, !.deal = Null]
    BY <1>3, <2>1 DEF NextLine, ImportType
  <2> QED
    BY <1>1, <1>3, <2>1, <2>2, ZenonT(60) DEF ImportType, MovesOn, GoesOn
<1> QED
  BY <1>2, <1>3

LEMMA AfterWriteIs ==
  ASSUME NEW c \in ImportType, NEW x, x = AfterWrite(c) PROVE x \in ImportType /\ WroteRow(x, c)
<1>1. CASE c.deal = Null
  BY <1>1, NextLineIs DEF AfterWrite, WroteRow
<1>2. CASE c.deal # Null
  <2>1. x = [c EXCEPT !.pc = "push"] /\ "push" \in ImportPoints
    BY <1>2 DEF AfterWrite, ImportPoints, Running
  <2> QED
    BY <1>2, <2>1 DEF ImportType, WroteRow, GoesOn
<1> QED
  BY <1>1, <1>2

(* What a transaction sees: of each deal one row, and nothing less than is *)
(* committed.                                                              *)
LEMMA SeenRows ==
  ASSUME ImportInv, NEW p \in Imports, NEW c, c = imp[p], c.pc \in Running
  PROVE  /\ DOMAIN RowsSeen(p) = DOMAIN c.rows \cup DOMAIN row
         /\ \A w \in DOMAIN c.rows : RowsSeen(p)[w] = c.rows[w]
         /\ \A w \in DOMAIN row \ DOMAIN c.rows : RowsSeen(p)[w] = row[w]
         /\ \A w \in DOMAIN row :
              /\ row[w].deal # Null => RowsSeen(p)[w].deal = row[w].deal
              /\ row[w].place # Null => RowsSeen(p)[w].place # Null
              /\ row[w].count # Null => RowsSeen(p)[w].count # Null
         /\ \A v, w \in DOMAIN RowsSeen(p) :
              RowsSeen(p)[v].deal # Null /\ RowsSeen(p)[w].deal = RowsSeen(p)[v].deal => w = v
         /\ \A w \in DOMAIN RowsSeen(p) : w \in Ids /\ w[1] <= born /\ (w \in DOMAIN row \/ w[1] = c.birth)
<1>1. /\ Underway(c) /\ c \in ImportType /\ DOMAIN row \subseteq Ids /\ RowsSeen(p) = Over(c.rows, row)
  BY CallKnows
<1>2. Covers(c) /\ LinksOnce(c) /\ IdsRight(c) /\ TablesRight
  BY <1>1 DEF Underway, ImportInv
<1>3. PICK seen : seen = RowsSeen(p)
  OBVIOUS
<1>4. /\ DOMAIN seen = DOMAIN c.rows \cup DOMAIN row
      /\ \A w \in DOMAIN c.rows : seen[w] = c.rows[w]
      /\ \A w \in DOMAIN row \ DOMAIN c.rows : seen[w] = row[w]
  BY <1>1, <1>3 DEF Over
<1>5. ASSUME NEW w \in DOMAIN row
      PROVE  /\ row[w].deal # Null => seen[w].deal = row[w].deal
             /\ row[w].place # Null => seen[w].place # Null
             /\ row[w].count # Null => seen[w].count # Null
  BY <1>2, <1>4 DEF Covers
<1>6. ASSUME NEW v \in DOMAIN seen, NEW w \in DOMAIN seen, seen[v].deal # Null, seen[w].deal = seen[v].deal
      PROVE  w = v
  <2>1. CASE v \in DOMAIN c.rows
    BY <1>2, <1>4, <1>6, <2>1 DEF LinksOnce
  <2>2. CASE w \in DOMAIN c.rows
    BY <1>2, <1>4, <1>6, <2>2 DEF LinksOnce
  <2>3. CASE v \notin DOMAIN c.rows /\ w \notin DOMAIN c.rows
    BY <1>2, <1>4, <1>6, <2>3 DEF TablesRight, DealKeepsOneRow, Linked
  <2> QED
    BY <2>1, <2>2, <2>3
<1>7. \A w \in DOMAIN seen : w \in Ids /\ w[1] <= born /\ (w \in DOMAIN row \/ w[1] = c.birth)
  BY <1>1, <1>2, <1>4, CallsAre DEF IdsRight, TablesRight
<1> QED
  BY <1>3, <1>4, <1>5, <1>6, <1>7

(* The place in the sheet once a line was written.                         *)
LEMMA InPlaceAfter ==
  ASSUME NEW c \in ImportType, InPlace(c), c.pc = "write", NEW w \in Ids,
         NEW y, y.lines = c.lines, y.at = c.at, y.deal = c.deal, y.hit = Append(c.hit, w),
         NEW x, WroteRow(x, y)
  PROVE  /\ InPlace(x) /\ x.pc \in {"push", "end", "row"} /\ x.lines = c.lines
         /\ x.hit = Append(c.hit, w) /\ Len(c.hit) \in Nat /\ Len(c.hit) + 1 = c.at
         /\ x.pc = "row" => x.at = c.at + 1
         /\ x.pc # "row" => x.at = c.at
         /\ x.pc = "push" => c.deal # Null /\ x.deal = c.deal
         /\ x.pc # "push" => c.deal = Null
<1>1. /\ c.lines \in Sheets /\ c.at \in 1 .. Len(c.lines) /\ Len(c.hit) = c.at - 1 /\ c.hit \in Seq(Ids)
      /\ Len(c.lines) \in Nat \ {0}
  BY CallsAre, SheetsAre DEF InPlace
<1>2. Len(c.hit) \in Nat /\ Len(Append(c.hit, w)) = c.at /\ Len(c.hit) + 1 = c.at
  BY <1>1, HitAppended
<1>3. x.lines = c.lines /\ x.hit = Append(c.hit, w)
  BY DEF WroteRow, MovesOn, GoesOn
<1>4. /\ x.pc = "push" => x.at = c.at /\ x.deal = c.deal /\ c.deal # Null
      /\ x.pc = "end" => x.at = c.at /\ c.deal = Null /\ c.at = Len(c.lines)
      /\ x.pc = "row" => x.at = c.at + 1 /\ c.deal = Null /\ c.at # Len(c.lines)
      /\ x.pc \in {"push", "end", "row"}
  BY DEF WroteRow, MovesOn
<1>5. InPlace(x)
  <2>1. CASE x.pc = "row"
    BY <1>1, <1>2, <1>3, <1>4, <2>1, SMTT(60) DEF InPlace
  <2>2. CASE x.pc # "row"
    BY <1>1, <1>2, <1>3, <1>4, <2>2 DEF InPlace
  <2> QED
    BY <2>1, <2>2
<1> QED
  BY <1>2, <1>3, <1>4, <1>5

(* A call that has written a row: what it was and what it is.              *)
WritesTo(p, c, x, w) ==
  /\ c.pc = "write" /\ w \in Ids /\ x \in ImportType
  /\ x.lines = c.lines /\ x.birth = c.birth /\ x.shown = c.shown /\ x.same = c.same
  /\ (x.alone <=> c.alone) /\ (x.exact <=> c.exact) /\ (x.cut <=> c.cut)
  /\ x.rows = Put(c.rows, w, Written(RowsSeen(p), w, c.deal, Line(p)))
  /\ x.deals = c.deals /\ x.hit = Append(c.hit, w)
  /\ InPlace(x) /\ x.pc \in {"push", "end", "row"}
  /\ Len(c.hit) \in Nat /\ Len(c.hit) + 1 = c.at
  /\ x.pc = "row" => x.at = c.at + 1
  /\ x.pc # "row" => x.at = c.at
  /\ x.pc = "push" => x.deal = c.deal
  /\ x.pc # "push" => c.deal = Null
  /\ \/ c.found = Null /\ w[1] = c.birth /\ w \notin DOMAIN RowsSeen(p)
     \/ c.found = w /\ w \in DOMAIN RowsSeen(p)

LEMMA WroteWhat ==
  ASSUME ImportInv, NEW p \in Imports, NEW c, c = imp[p], NEW x, NEW w, WritesTo(p, c, x, w)
  PROVE  LET r == x.rows[w]
             l == c.lines[c.at]
             seen == RowsSeen(p)
         IN
         /\ DOMAIN x.rows = DOMAIN c.rows \cup {w}
         /\ \A v \in DOMAIN c.rows \ {w} : x.rows[v] = c.rows[v]
         /\ l.place # Null => r.place = l.place
         /\ l.count # Null => r.count = l.count
         /\ w \in DOMAIN seen =>
              /\ l.place = Null => r.place = seen[w].place
              /\ l.count = Null => r.count = seen[w].count
              /\ seen[w].deal # Null => r.deal = seen[w].deal
         /\ r.deal # Null => /\ (w \in DOMAIN seen /\ r.deal = seen[w].deal) \/ r.deal = c.deal
                             /\ \A v \in DOMAIN seen \ {w} : seen[v].deal # r.deal
<1>1. PICK r : r = Written(RowsSeen(p), w, c.deal, Line(p))
  OBVIOUS
<1>2. c.pc \in Running /\ w \in Ids /\ x.rows = Put(c.rows, w, r)
  BY <1>1 DEF WritesTo, Running
<1>3. /\ RowsSeen(p) \in RowTables /\ c.deal \in Booked \cup {Null} /\ Line(p) = c.lines[c.at]
      /\ Line(p) \in LineType
  BY <1>2, CallKnows, CallsAre
<1>4. /\ DOMAIN x.rows = DOMAIN c.rows \cup {w} /\ x.rows[w] = r
      /\ \A v \in DOMAIN c.rows \ {w} : x.rows[v] = c.rows[v]
  BY <1>2 DEF Put
<1>5. PICK l \in LineType : l = Line(p)
  BY <1>3
<1>6. PICK seen \in RowTables : seen = RowsSeen(p)
  BY <1>3
<1>7. PICK d \in Booked \cup {Null} : d = c.deal
  BY <1>3
<1>8. r = Written(seen, w, d, l)
  BY <1>1, <1>5, <1>6, <1>7
<1>9. /\ l.place # Null => r.place = l.place
      /\ l.count # Null => r.count = l.count
      /\ w \in DOMAIN seen =>
           /\ l.place = Null => r.place = seen[w].place
           /\ l.count = Null => r.count = seen[w].count
           /\ seen[w].deal # Null => r.deal = seen[w].deal
      /\ r.deal = Null \/ (w \in DOMAIN seen /\ r.deal = seen[w].deal)
           \/ (r.deal = d /\ \A v \in DOMAIN seen \ {w} : seen[v].deal # d)
  BY <1>2, <1>8, WrittenRow
<1>10. \A v, u \in DOMAIN seen : seen[v].deal # Null /\ seen[u].deal = seen[v].deal => u = v
  BY <1>2, <1>6, SeenRows
<1>11. r.deal # Null => \A v \in DOMAIN seen \ {w} : seen[v].deal # r.deal
  BY <1>9, <1>10
<1> QED
  BY <1>3, <1>4, <1>5, <1>6, <1>7, <1>9, <1>11

LEMMA WroteUnderway ==
  ASSUME ImportInv, NEW p \in Imports, NEW c, c = imp[p], NEW x, NEW w, WritesTo(p, c, x, w)
  PROVE  Underway(x)
<1>1. /\ c.pc \in Running /\ Underway(c) /\ c \in ImportType /\ TablesRight /\ born \in Nat
      /\ DOMAIN c.rows \subseteq Ids /\ w \in Ids /\ x \in ImportType /\ InPlace(x)
  <2>1. c.pc \in Running /\ w \in Ids /\ x \in ImportType /\ InPlace(x)
    BY DEF WritesTo, Running
  <2> QED
    BY <2>1, CallKnows, CallsAre DEF ImportInv
<1>2. PICK r : r = x.rows[w]
  OBVIOUS
<1>3. PICK l : l = c.lines[c.at]
  OBVIOUS
<1>4. PICK seen : seen = RowsSeen(p)
  OBVIOUS
<1>5. /\ DOMAIN x.rows = DOMAIN c.rows \cup {w}
      /\ \A v \in DOMAIN c.rows \ {w} : x.rows[v] = c.rows[v]
      /\ l.place # Null => r.place = l.place
      /\ l.count # Null => r.count = l.count
      /\ w \in DOMAIN seen =>
           /\ l.place = Null => r.place = seen[w].place
           /\ l.count = Null => r.count = seen[w].count
           /\ seen[w].deal # Null => r.deal = seen[w].deal
      /\ r.deal # Null => \A v \in DOMAIN seen \ {w} : seen[v].deal # r.deal
  BY <1>2, <1>3, <1>4, WroteWhat
<1>6. /\ DOMAIN seen = DOMAIN c.rows \cup DOMAIN row
      /\ \A v \in DOMAIN c.rows : seen[v] = c.rows[v]
      /\ \A v \in DOMAIN row :
           /\ row[v].deal # Null => seen[v].deal = row[v].deal
           /\ row[v].place # Null => seen[v].place # Null
           /\ row[v].count # Null => seen[v].count # Null
      /\ \A u, v \in DOMAIN seen : seen[u].deal # Null /\ seen[v].deal = seen[u].deal => v = u
      /\ \A v \in DOMAIN seen : v[1] <= born /\ (v \in DOMAIN row \/ v[1] = c.birth)
  BY <1>1, <1>4, SeenRows
<1>7. /\ (c.found = Null /\ w[1] = c.birth /\ w \notin DOMAIN seen) \/ (c.found = w /\ w \in DOMAIN seen)
      /\ x.lines = c.lines /\ x.birth = c.birth /\ x.deals = c.deals /\ x.hit = Append(c.hit, w)
      /\ (x.cut <=> c.cut) /\ x.pc \notin {"deal", "write"} /\ Len(c.hit) + 1 = c.at
  BY <1>4 DEF WritesTo
<1>8. /\ Len(c.hit) \in Nat /\ DOMAIN c.hit = 1 .. Len(c.hit) /\ c.hit \in Seq(Ids)
      /\ DOMAIN x.hit = 1 .. Len(c.hit) + 1 /\ x.hit[Len(c.hit) + 1] = w
      /\ \A i \in 1 .. Len(c.hit) : x.hit[i] = c.hit[i]
  BY <1>1, <1>7, CallsAre, HitsAre, HitAppended
<1>9. Covers(c) /\ LinksOnce(c) /\ IdsRight(c) /\ Carries(c)
  BY <1>1 DEF Underway
<1>10. Covers(x)
  <2>1. ASSUME NEW v \in DOMAIN x.rows \cap DOMAIN row
        PROVE  /\ row[v].deal # Null => x.rows[v].deal = row[v].deal
               /\ row[v].place # Null => x.rows[v].place # Null
               /\ row[v].count # Null => x.rows[v].count # Null
    <3>1. CASE v = w
      BY <1>2, <1>5, <1>6, <3>1
    <3>2. CASE v # w
      BY <1>5, <1>9, <3>2 DEF Covers
    <3> QED
      BY <3>1, <3>2
  <2> QED
    BY <1>7, <1>9, <2>1 DEF Covers
<1>11. LinksOnce(x)
  <2>1. ASSUME NEW v \in DOMAIN x.rows, x.rows[v].deal # Null
        PROVE  /\ \A u \in DOMAIN x.rows : x.rows[u].deal = x.rows[v].deal => u = v
               /\ \A u \in DOMAIN row : row[u].deal = x.rows[v].deal => u = v
    <3>1. CASE v = w
      BY <1>2, <1>5, <1>6, <2>1, <3>1
    <3>2. CASE v # w
      <4>1. v \in DOMAIN seen /\ seen[v].deal = x.rows[v].deal
        BY <1>5, <1>6, <3>2
      <4>2. r.deal # seen[v].deal
        BY <1>2, <1>5, <2>1, <3>2, <4>1
      <4> QED
        BY <1>2, <1>5, <1>6, <2>1, <4>1, <4>2
    <3> QED
      BY <3>1, <3>2
  <2> QED
    BY <2>1 DEF LinksOnce
<1>12. IdsRight(x)
  <2>1. w[1] <= born /\ (w \in DOMAIN row \/ w[1] = c.birth)
    BY <1>1, <1>6, <1>7, <1>9 DEF IdsRight
  <2>2. \A v \in RowsNamed(x) : v \in RowsNamed(c) \/ v = w
    BY <1>7, <1>8 DEF RowsNamed
  <2>3. \A i \in DOMAIN x.hit : x.hit[i] \in DOMAIN x.rows \/ (x.cut /\ x.hit[i] \notin DOMAIN row)
    <3> SUFFICES ASSUME NEW i \in DOMAIN x.hit
                 PROVE  x.hit[i] \in DOMAIN x.rows \/ (x.cut /\ x.hit[i] \notin DOMAIN row)
      OBVIOUS
    <3>1. (i \in DOMAIN c.hit /\ x.hit[i] = c.hit[i]) \/ x.hit[i] = w
      BY <1>8, SMTT(60)
    <3> QED
      BY <1>5, <1>7, <1>9, <3>1 DEF IdsRight
  <2> QED
    BY <1>5, <1>7, <1>9, <2>1, <2>2, <2>3 DEF IdsRight
<1>13. Carries(x)
  <2> SUFFICES ASSUME NEW i \in DOMAIN x.hit, x.hit[i] \in DOMAIN x.rows PROVE SaysLast(x, i)
    BY DEF Carries
  <2>1. CASE i = Len(c.hit) + 1
    BY <1>2, <1>3, <1>5, <1>7, <1>8, <2>1, ZenonT(60) DEF SaysLast
  <2>2. CASE i \in DOMAIN c.hit
    <3> DEFINE after == {k \in DOMAIN c.hit : k > i /\ c.hit[k] = c.hit[i]}
    <3>1. x.hit[i] = c.hit[i]
      BY <1>8, <2>2
    <3>2. after \subseteq {k \in DOMAIN x.hit : k > i /\ x.hit[k] = x.hit[i]}
      BY <1>8, <3>1
    <3>3. CASE c.hit[i] # w
      <4>1. c.hit[i] \in DOMAIN c.rows /\ x.rows[c.hit[i]] = c.rows[c.hit[i]]
        BY <1>5, <3>1, <3>3
      <4>2. SaysLast(c, i)
        BY <1>9, <2>2, <4>1 DEF Carries
      <4> DEFINE later == {k \in DOMAIN x.hit : k > i /\ x.hit[k] = x.hit[i]}
      <4>3. /\ c.lines[i].place # Null /\ (\A k \in after : c.lines[k].place = Null)
                 => c.rows[c.hit[i]].place = c.lines[i].place
            /\ c.lines[i].count # Null /\ (\A k \in after : c.lines[k].count = Null)
                 => c.rows[c.hit[i]].count = c.lines[i].count
        BY <4>2 DEF SaysLast
      <4>4. after \subseteq later /\ x.lines = c.lines /\ x.rows[x.hit[i]] = c.rows[c.hit[i]]
        BY <1>7, <3>1, <3>2, <4>1, SMTT(60)
      <4>5. /\ x.lines[i].place # Null /\ (\A k \in later : x.lines[k].place = Null)
                 => x.rows[x.hit[i]].place = x.lines[i].place
            /\ x.lines[i].count # Null /\ (\A k \in later : x.lines[k].count = Null)
                 => x.rows[x.hit[i]].count = x.lines[i].count
        <5> HIDE DEF after, later
        <5> QED
          BY <4>3, <4>4
      <4> QED
        BY <4>5 DEF SaysLast
    <3>4. CASE c.hit[i] = w
      <4>1. w \in DOMAIN c.rows
        <5>1. w \in RowsNamed(c) /\ (w \in DOMAIN c.rows \/ w \notin DOMAIN row)
          BY <1>9, <2>2, <3>4 DEF IdsRight, RowsNamed
        <5>2. w[1] = c.birth => w \in DOMAIN c.rows
          BY <1>9, <5>1 DEF IdsRight
        <5> QED
          BY <1>6, <1>7, <5>1, <5>2
      <4>2. SaysLast(c, i)
        BY <1>9, <2>2, <3>4, <4>1 DEF Carries
      <4>3. Len(c.hit) + 1 \in {k \in DOMAIN x.hit : k > i /\ x.hit[k] = x.hit[i]}
        BY <1>8, <2>2, <3>1, <3>4
      <4>4. l.place = Null => r.place = c.rows[w].place
        BY <1>5, <1>6, <4>1
      <4>5. l.count = Null => r.count = c.rows[w].count
        BY <1>5, <1>6, <4>1
      <4>6. x.lines[Len(c.hit) + 1] = l
        BY <1>3, <1>7
      <4> QED
        BY <1>2, <1>7, <3>1, <3>2, <3>4, <4>2, <4>3, <4>4, <4>5, <4>6, SMTT(60) DEF SaysLast
    <3> QED
      BY <3>3, <3>4
  <2> QED
    BY <1>8, <2>1, <2>2, SMTT(60)
<1> QED
  BY <1>1, <1>10, <1>11, <1>12, <1>13 DEF Underway

LEMMA WroteApart ==
  ASSUME ImportInv, NEW p \in Imports, NEW c, c = imp[p], NEW x, NEW w, WritesTo(p, c, x, w),
         \A q \in Elsewhere(p) : w \notin DOMAIN imp[q].rows,
         c.deal = Null \/ ~ LinkHeld(Elsewhere(p), c.deal)
  PROVE  \A q \in Elsewhere(p) : Parted(x, imp[q]) /\ Parted(imp[q], x)
<1>1. c.pc \in Running /\ x \in ImportType /\ x.birth = c.birth /\ x.deals = c.deals
  BY DEF WritesTo, Running
<1>2. PICK seen : seen = RowsSeen(p)
  OBVIOUS
<1>3. /\ DOMAIN x.rows = DOMAIN c.rows \cup {w}
      /\ \A v \in DOMAIN c.rows \ {w} : x.rows[v] = c.rows[v]
      /\ x.rows[w].deal # Null => (w \in DOMAIN seen /\ x.rows[w].deal = seen[w].deal) \/ x.rows[w].deal = c.deal
  <2>1. PICK r : r = x.rows[w]
    OBVIOUS
  <2>2. /\ DOMAIN x.rows = DOMAIN c.rows \cup {w}
        /\ \A v \in DOMAIN c.rows \ {w} : x.rows[v] = c.rows[v]
        /\ r.deal # Null => (w \in DOMAIN seen /\ r.deal = seen[w].deal) \/ r.deal = c.deal
    BY <1>2, <2>1, WroteWhat
  <2> QED
    BY <2>1, <2>2
<1>4. /\ DOMAIN seen = DOMAIN c.rows \cup DOMAIN row
      /\ \A v \in DOMAIN c.rows : seen[v] = c.rows[v]
      /\ \A v \in DOMAIN row \ DOMAIN c.rows : seen[v] = row[v]
  BY <1>1, <1>2, SeenRows
<1>5. /\ w \in DOMAIN seen \/ w[1] = c.birth
      /\ DOMAIN x.hit = 1 .. Len(c.hit) + 1 /\ x.hit[Len(c.hit) + 1] = w
      /\ \A i \in 1 .. Len(c.hit) : x.hit[i] = c.hit[i]
      /\ Len(c.hit) \in Nat /\ DOMAIN c.hit = 1 .. Len(c.hit) /\ x.pc \notin {"deal", "write"}
  <2>1. c.hit \in Seq(Ids)
    BY <1>1, CallKnows, CallsAre
  <2>2. x.hit = Append(c.hit, w) /\ w \in Ids
    BY DEF WritesTo
  <2> QED
    BY <1>2, <2>1, <2>2, HitsAre, HitAppended DEF WritesTo
<1>6. \A v \in RowsNamed(x) \cup DOMAIN x.rows :
        v \in RowsNamed(c) \cup DOMAIN c.rows \cup DOMAIN row \/ v[1] = c.birth
  <2>1. \A v \in RowsNamed(x) : v \in RowsNamed(c) \/ v = w
    BY <1>5, SMTT(60) DEF RowsNamed
  <2> QED
    BY <1>3, <1>4, <1>5, <2>1
<1>7. ASSUME NEW q \in Elsewhere(p)
      PROVE  /\ DOMAIN x.rows \cap DOMAIN imp[q].rows = {}
             /\ DOMAIN x.deals \cap DOMAIN imp[q].deals = {}
             /\ \A v \in DOMAIN x.rows, u \in DOMAIN imp[q].rows :
                  x.rows[v].deal = imp[q].rows[u].deal => x.rows[v].deal = Null
  <2>1. PICK e : e = imp[q]
    OBVIOUS
  <2>2. /\ DOMAIN c.rows \cap DOMAIN e.rows = {} /\ DOMAIN c.deals \cap DOMAIN e.deals = {}
        /\ \A v \in DOMAIN c.rows, u \in DOMAIN e.rows : c.rows[v].deal = e.rows[u].deal => c.rows[v].deal = Null
        /\ w \notin DOMAIN e.rows
    BY <2>1, RowsApart
  <2>3. ASSUME NEW u \in DOMAIN e.rows, x.rows[w].deal = e.rows[u].deal PROVE x.rows[w].deal = Null
    <3>1. SUFFICES ASSUME x.rows[w].deal # Null PROVE FALSE
      OBVIOUS
    <3>2. e.pc \in Running
      BY <1>7, <2>1, <2>3 DEF ImportInv, CallRight, Elsewhere
    <3>3. LinksOnce(e)
      BY <1>7, <2>1, <3>2 DEF ImportInv, CallRight, Elsewhere, Underway
    <3>4. CASE x.rows[w].deal = c.deal
      BY <1>7, <2>1, <2>3, <3>1, <3>4 DEF LinkHeld
    <3>5. CASE w \in DOMAIN c.rows /\ x.rows[w].deal = c.rows[w].deal
      BY <2>2, <2>3, <3>1, <3>5
    <3>6. CASE w \in DOMAIN row /\ x.rows[w].deal = row[w].deal
      BY <2>2, <2>3, <3>1, <3>3, <3>6 DEF LinksOnce
    <3> QED
      BY <1>3, <1>4, <3>1, <3>4, <3>5, <3>6
  <2>4. ASSUME NEW v \in DOMAIN x.rows, NEW u \in DOMAIN e.rows, x.rows[v].deal = e.rows[u].deal
        PROVE  x.rows[v].deal = Null
    BY <1>3, <2>2, <2>3, <2>4
  <2> QED
    BY <1>1, <1>3, <2>1, <2>2, <2>4
<1> QED
  BY <1>1, <1>6, <1>7, StaysApart

LEMMA WroteKnows ==
  ASSUME ImportInv, NEW p \in Imports, NEW c, c = imp[p], NEW x, NEW w, WritesTo(p, c, x, w), x.alone
  PROVE  FoundRight(x) /\ LastRight(x) /\ ExactRight(x)
<1>1. /\ c.pc = "write" /\ c.pc \in Running /\ c.alone /\ (x.exact <=> c.exact)
      /\ x.pc \in {"push", "end", "row"} /\ x.lines = c.lines /\ x.shown = c.shown
      /\ x.pc # "row" => x.at = c.at
      /\ x.pc = "row" => x.at = c.at + 1
      /\ x.pc = "push" => x.deal = c.deal
      /\ x.pc # "push" => c.deal = Null
      /\ Len(c.hit) \in Nat /\ Len(c.hit) + 1 = c.at
      /\ x.hit = Append(c.hit, w) /\ w \in Ids
      /\ (c.found = Null /\ w \notin DOMAIN RowsSeen(p)) \/ (c.found = w /\ w \in DOMAIN RowsSeen(p))
  BY DEF WritesTo, Running
<1>2. CallRight(c) /\ RowsSeen(p) = Over(c.rows, row) /\ c \in ImportType
  BY CallKnows
<1>3. /\ x.hit[c.at] = w /\ \A i \in 1 .. Len(c.hit) : x.hit[i] = c.hit[i]
  BY <1>1, <1>2, CallsAre, HitAppended
<1>4. /\ w \in DOMAIN x.rows /\ RowSays(x.rows, w, c.lines[c.at])
      /\ x.rows[w].deal \in {Null, c.deal}
  <2>1. FoundRight(c)
    BY <1>1, <1>2 DEF CallRight
  <2>2. w \in DOMAIN RowsSeen(p) => RowsSeen(p)[w].deal \in {Null, c.deal}
    BY <1>1, <1>2, <2>1, IdsAre DEF FoundRight
  <2>3. PICK r : r = x.rows[w]
    OBVIOUS
  <2>4. PICK l : l = c.lines[c.at]
    OBVIOUS
  <2>5. PICK seen : seen = RowsSeen(p)
    OBVIOUS
  <2>6. /\ DOMAIN x.rows = DOMAIN c.rows \cup {w}
        /\ l.place # Null => r.place = l.place
        /\ l.count # Null => r.count = l.count
        /\ r.deal # Null => (w \in DOMAIN seen /\ r.deal = seen[w].deal) \/ r.deal = c.deal
    BY <2>3, <2>4, <2>5, WroteWhat
  <2> QED
    BY <2>2, <2>3, <2>4, <2>5, <2>6 DEF RowSays
<1>5. FoundRight(x)
  BY <1>1, SMTT(60) DEF FoundRight
<1>6. LastRight(x)
  BY <1>1, <1>3, <1>4 DEF LastRight, BothSay
<1>7. ExactRight(x)
  <2>1. ASSUME x.exact PROVE x.hit[1] = x.shown[1]
    <3>1. ExactRight(c) /\ c.exact
      BY <1>1, <1>2, <2>1 DEF CallRight
    <3>2. CASE Len(c.hit) = 0
      <4>1. c.at = 1 /\ c.found = c.shown[1] /\ c.found # Null
        BY <1>1, <3>1, <3>2 DEF ExactRight
      <4> QED
        BY <1>1, <1>3, <4>1
    <3>3. CASE Len(c.hit) # 0
      BY <1>1, <1>3, <3>1, <3>3 DEF ExactRight
    <3> QED
      BY <3>2, <3>3
  <2>2. ~ (x.pc = "row" /\ x.at = 1)
    BY <1>1
  <2> QED
    BY <1>1, <2>1, <2>2 DEF ExactRight
<1> QED
  BY <1>5, <1>6, <1>7

AfterWriting(p, c, w) ==
  AfterWrite([c EXCEPT !.rows = Put(@, w, Written(RowsSeen(p), w, c.deal, Line(p))),
                       !.hit = Append(@, w)])
AfterCut(c) == AfterWrite([c EXCEPT !.cut = TRUE, !.hit = Append(@, c.found)])

LEMMA WritesSo ==
  ASSUME ImportInv, NEW p \in Imports, NEW c, c = imp[p], c.pc = "write", NEW w \in Ids,
         (c.found = Null /\ w[1] = c.birth /\ w \notin DOMAIN RowsSeen(p))
           \/ (c.found = w /\ w \in DOMAIN RowsSeen(p)),
         NEW x, x = AfterWriting(p, c, w)
  PROVE  WritesTo(p, c, x, w)
<1>1. /\ c.pc \in Running /\ c \in ImportType /\ Underway(c) /\ RowsSeen(p) \in RowTables
      /\ Line(p) \in LineType /\ c.deal \in Booked \cup {Null} /\ c.rows \in RowTables
      /\ c.hit \in Seq(Ids)
  <2>1. c.pc \in Running /\ c \in ImportType
    BY CallKnows DEF Running
  <2> QED
    BY <2>1, CallKnows, CallsAre
<1>2. PICK r : r = Written(RowsSeen(p), w, c.deal, Line(p))
  OBVIOUS
<1>3. r \in RowType
  BY <1>1, <1>2, WrittenRow
<1>4. PICK rows \in RowTables : rows = Put(c.rows, w, r)
  BY <1>1, <1>3, OneRowOver
<1>5. PICK hit \in Seq(Ids) : hit = Append(c.hit, w)
  BY <1>1, HitAppended
<1>6. PICK y : y = [c EXCEPT !.rows = rows, !.hit = hit]
  OBVIOUS
<1>7. /\ y \in ImportType /\ y.rows = rows /\ y.hit = hit /\ y.lines = c.lines /\ y.at = c.at
      /\ y.deal = c.deal /\ y.birth = c.birth /\ y.shown = c.shown /\ y.deals = c.deals /\ y.same = c.same
      /\ (y.alone <=> c.alone) /\ (y.exact <=> c.exact) /\ (y.cut <=> c.cut)
  BY <1>1, <1>6 DEF ImportType
<1>8. y = [c EXCEPT !.rows = Put(@, w, Written(RowsSeen(p), w, c.deal, Line(p))), !.hit = Append(@, w)]
  BY <1>1, <1>2, <1>4, <1>5, <1>6 DEF ImportType
<1>9. x = AfterWrite(y)
  BY <1>8 DEF AfterWriting
<1>10. x \in ImportType /\ WroteRow(x, y)
  BY <1>7, <1>9, AfterWriteIs
<1>11. InPlace(c)
  BY <1>1 DEF Underway
<1>12. /\ InPlace(x) /\ x.pc \in {"push", "end", "row"} /\ x.lines = c.lines
       /\ x.hit = Append(c.hit, w) /\ Len(c.hit) \in Nat /\ Len(c.hit) + 1 = c.at
       /\ x.pc = "row" => x.at = c.at + 1
       /\ x.pc # "row" => x.at = c.at
       /\ x.pc = "push" => c.deal # Null /\ x.deal = c.deal
       /\ x.pc # "push" => c.deal = Null
  <2>1. y.lines = c.lines /\ y.at = c.at /\ y.deal = c.deal /\ y.hit = Append(c.hit, w)
    BY <1>5, <1>7
  <2>2. c \in ImportType /\ InPlace(c) /\ WroteRow(x, y)
    BY <1>1, <1>10, <1>11
  <2> QED
    BY <2>1, <2>2, InPlaceAfter, SMTT(60)
<1>13. GoesOn(x, y)
  BY <1>10 DEF WroteRow, MovesOn
<1> QED
  BY <1>2, <1>4, <1>7, <1>10, <1>12, <1>13 DEF WritesTo, GoesOn

LEMMA Writing ==
  ASSUME ImportInv, NEW p \in Imports, NEW c, c = imp[p], NEW x, NEW w, WritesTo(p, c, x, w),
         \A q \in Elsewhere(p) : w \notin DOMAIN imp[q].rows,
         c.deal = Null \/ ~ LinkHeld(Elsewhere(p), c.deal),
         imp' = [imp EXCEPT ![p] = x], UNCHANGED <<row, book, born, others>>
  PROVE  ImportInv'
<1>1. Underway(x) /\ (x.alone => FoundRight(x) /\ LastRight(x) /\ ExactRight(x))
  BY WroteUnderway, WroteKnows
<1>2. \A q \in Elsewhere(p) : Parted(x, imp[q]) /\ Parted(imp[q], x)
  BY WroteApart
<1>3. x \in ImportType /\ x.pc \in {"push", "end", "row"}
  BY DEF WritesTo
<1>4. CallRight(x)
  BY <1>1, <1>3 DEF CallRight, Running
<1>5. CallRight(x)'
  <2>1. row' = row /\ book' = book /\ born' = born
    OBVIOUS
  <2> QED
    BY <1>4, <2>1, CallStays
<1>6. born' \in born .. Births
  BY CallKnows
<1> QED
  BY <1>2, <1>3, <1>5, <1>6, OneCall

LEMMA InsertRowWrites ==
  ASSUME ImportInv, NEW p \in Imports, InsertRow(p), NEW c, c = imp[p]
  PROVE  \E w \in NewIds(p) : \E x : /\ WritesTo(p, c, x, w) /\ imp' = [imp EXCEPT ![p] = x]
                                       /\ w \in Ids /\ w[1] = c.birth
<1>2. PICK w \in NewIds(p) : imp' = [imp EXCEPT ![p] = AfterWriting(p, c, w)]
  BY Zenon DEF InsertRow, Proceed, AfterWriting
<1>3. c.pc = "write" /\ c.found = Null
  BY DEF InsertRow, Stands
<1>4. c.pc \in Running /\ IdsRight(c) /\ born \in 0 .. Births
  <2>1. c.pc \in Running
    BY <1>3 DEF Running
  <2> QED
    BY <2>1, CallKnows DEF Underway, ImportInv, ImportTypes
<1>5. w \in Ids /\ w[1] = c.birth /\ w \notin DOMAIN RowsSeen(p)
  BY <1>4, ImportAssumption DEF NewIds, Ids, IdsRight
<1>6. PICK x : x = AfterWriting(p, c, w)
  OBVIOUS
<1>7. WritesTo(p, c, x, w)
  <2>1. (c.found = Null /\ w[1] = c.birth /\ w \notin DOMAIN RowsSeen(p))
           \/ (c.found = w /\ w \in DOMAIN RowsSeen(p))
    BY <1>3, <1>5
  <2> QED
    BY <1>3, <1>5, <1>6, <2>1, WritesSo
<1>8. imp' = [imp EXCEPT ![p] = x]
  BY <1>2, <1>6, Zenon
<1> QED
  BY <1>5, <1>7, <1>8

LEMMA InsertRowStep == ASSUME ImportInv, NEW p \in Imports, InsertRow(p) PROVE ImportInv'
<1>1. PICK c : c = imp[p]
  OBVIOUS
<1>0. PICK w \in NewIds(p) : \E x : /\ WritesTo(p, c, x, w) /\ imp' = [imp EXCEPT ![p] = x]
                                      /\ w \in Ids /\ w[1] = c.birth
  BY <1>1, InsertRowWrites
<1>2. PICK x : WritesTo(p, c, x, w) /\ imp' = [imp EXCEPT ![p] = x] /\ w \in Ids /\ w[1] = c.birth
  BY <1>0
<1>3. /\ c.deal = Null \/ ~ LinkHeld(Elsewhere(p), c.deal)
      /\ UNCHANGED <<row, book, born, others>>
  BY <1>1 DEF InsertRow
<1>4. c.pc \in Running
  BY <1>1 DEF InsertRow, Stands, Running
<1>5. ASSUME NEW q \in Elsewhere(p) PROVE w \notin DOMAIN imp[q].rows
  <2>1. PICK e : e = imp[q]
    OBVIOUS
  <2>2. CallRight(e) /\ Parted(e, c)
    BY <1>1, <2>1 DEF ImportInv, Elsewhere
  <2> QED
    BY <1>2, <1>4, <2>1, <2>2 DEF CallRight, Parted
<1> QED
  BY <1>1, <1>2, <1>3, <1>5, Writing

(* The row that was found is gone: the line counts all the same.           *)
LEMMA CutLine ==
  ASSUME ImportInv, NEW p \in Imports, NEW c, c = imp[p], c.pc = "write", c.found # Null,
         c.found \notin DOMAIN RowsSeen(p),
         NEW x, x = AfterCut(c),
         imp' = [imp EXCEPT ![p] = x], UNCHANGED <<row, book, born, others>>
  PROVE  ImportInv'
<1>1. /\ c.pc \in Running /\ c \in ImportType /\ CallRight(c) /\ Underway(c) /\ born \in born .. Births
      /\ c.hit \in Seq(Ids) /\ c.found \in Ids /\ RowsSeen(p) = Over(c.rows, row)
  <2>1. c.pc \in Running /\ c \in ImportType
    BY CallKnows DEF Running
  <2> QED
    BY <2>1, CallKnows, CallsAre
<1>2. PICK w \in Ids : w = c.found
  BY <1>1
<1>3. w \notin DOMAIN c.rows /\ w \notin DOMAIN row /\ ~ c.alone
  <2>1. w \notin DOMAIN c.rows /\ w \notin DOMAIN row
    BY <1>1, <1>2 DEF Over
  <2> QED
    BY <1>1, <1>2, <2>1 DEF CallRight, FoundRight
<1>4. PICK hit \in Seq(Ids) : hit = Append(c.hit, w)
  BY <1>1, HitAppended
<1>5. PICK y : y = [c EXCEPT !.cut = TRUE, !.hit = hit]
  OBVIOUS
<1>6. /\ y \in ImportType /\ y.rows = c.rows /\ y.hit = hit /\ y.lines = c.lines /\ y.at = c.at
      /\ y.deal = c.deal /\ y.birth = c.birth /\ y.deals = c.deals
      /\ (y.alone <=> c.alone) /\ y.cut
  BY <1>1, <1>5 DEF ImportType
<1>7. y = [c EXCEPT !.cut = TRUE, !.hit = Append(@, c.found)]
  BY <1>1, <1>2, <1>4, <1>5 DEF ImportType
<1>8. x \in ImportType /\ WroteRow(x, y)
  BY <1>6, <1>7, AfterWriteIs DEF AfterCut
<1>9. InPlace(c) /\ IdsRight(c) /\ Covers(c) /\ LinksOnce(c) /\ Carries(c)
  BY <1>1 DEF Underway
<1>10. InPlace(x) /\ x.pc \in {"push", "end", "row"} /\ x.lines = c.lines
  <2>1. y.lines = c.lines /\ y.at = c.at /\ y.deal = c.deal /\ y.hit = Append(c.hit, w)
    BY <1>4, <1>6
  <2>2. c \in ImportType /\ InPlace(c) /\ WroteRow(x, y)
    BY <1>1, <1>8, <1>9
  <2> QED
    BY <2>1, <2>2, InPlaceAfter, SMTT(60)
<1>11. x.rows = c.rows /\ x.birth = c.birth /\ x.deals = c.deals /\ ~ x.alone /\ x.cut /\ x.hit = hit
  BY <1>3, <1>6, <1>8 DEF WroteRow, MovesOn, GoesOn
<1>12. /\ Len(c.hit) \in Nat /\ DOMAIN c.hit = 1 .. Len(c.hit)
       /\ DOMAIN x.hit = 1 .. Len(c.hit) + 1 /\ x.hit[Len(c.hit) + 1] = w
       /\ \A i \in 1 .. Len(c.hit) : x.hit[i] = c.hit[i]
  BY <1>1, <1>4, <1>11, HitsAre, HitAppended, SMTT(60)
<1>13. Covers(x) /\ LinksOnce(x)
  BY <1>9, <1>11 DEF Covers, LinksOnce
<1>14. RowsNamed(x) \subseteq RowsNamed(c)
  <2>1. \A v \in RowsNamed(x) : v = w \/ \E i \in DOMAIN c.hit : v = c.hit[i]
    <3> SUFFICES ASSUME NEW v \in RowsNamed(x) PROVE v = w \/ \E i \in DOMAIN c.hit : v = c.hit[i]
      OBVIOUS
    <3>1. PICK i \in DOMAIN x.hit : v = x.hit[i]
      BY <1>10 DEF RowsNamed
    <3>2. i \in DOMAIN c.hit \/ i = Len(c.hit) + 1
      BY <1>12
    <3> QED
      BY <1>12, <3>1, <3>2
  <2>2. w \in RowsNamed(c) /\ \A i \in DOMAIN c.hit : c.hit[i] \in RowsNamed(c)
    BY <1>2 DEF RowsNamed
  <2> QED
    BY <2>1, <2>2
<1>15. IdsRight(x)
  <2>1. \A i \in DOMAIN x.hit : x.hit[i] \in DOMAIN x.rows \/ (x.cut /\ x.hit[i] \notin DOMAIN row)
    BY <1>3, <1>9, <1>11, <1>12, SMTT(60) DEF IdsRight
  <2>2. /\ x.birth \in 1 .. born
        /\ \A v \in DOMAIN row : v[1] # x.birth
        /\ \A v \in DOMAIN x.rows : v[1] <= born /\ (v \in DOMAIN row \/ v[1] = x.birth)
        /\ \A v \in RowsNamed(x) : v[1] <= born /\ (v[1] = x.birth => v \in DOMAIN x.rows)
    BY <1>9, <1>11, <1>14 DEF IdsRight
  <2> QED
    BY <2>1, <2>2 DEF IdsRight
<1>16. Carries(x)
  <2> SUFFICES ASSUME NEW i \in DOMAIN x.hit, x.hit[i] \in DOMAIN x.rows PROVE SaysLast(x, i)
    BY DEF Carries
  <2>1. i \in DOMAIN c.hit /\ x.hit[i] = c.hit[i]
    BY <1>3, <1>11, <1>12
  <2>2. SaysLast(c, i)
    BY <1>9, <1>11, <2>1 DEF Carries
  <2>3. {k \in DOMAIN c.hit : k > i /\ c.hit[k] = c.hit[i]} \subseteq {k \in DOMAIN x.hit : k > i /\ x.hit[k] = x.hit[i]}
    BY <1>12, <2>1, SMTT(60)
  <2> DEFINE after == {k \in DOMAIN c.hit : k > i /\ c.hit[k] = c.hit[i]}
             later == {k \in DOMAIN x.hit : k > i /\ x.hit[k] = x.hit[i]}
  <2>4. /\ c.lines[i].place # Null /\ (\A k \in after : c.lines[k].place = Null)
             => c.rows[c.hit[i]].place = c.lines[i].place
        /\ c.lines[i].count # Null /\ (\A k \in after : c.lines[k].count = Null)
             => c.rows[c.hit[i]].count = c.lines[i].count
    BY <2>2 DEF SaysLast
  <2>5. after \subseteq later /\ x.lines = c.lines /\ x.rows[x.hit[i]] = c.rows[c.hit[i]]
    BY <1>10, <1>11, <2>1, <2>3, SMTT(60)
  <2>6. /\ x.lines[i].place # Null /\ (\A k \in later : x.lines[k].place = Null)
             => x.rows[x.hit[i]].place = x.lines[i].place
        /\ x.lines[i].count # Null /\ (\A k \in later : x.lines[k].count = Null)
             => x.rows[x.hit[i]].count = x.lines[i].count
    <3> HIDE DEF after, later
    <3> QED
      BY <2>4, <2>5
  <2> QED
    BY <2>6 DEF SaysLast
<1>17. CallRight(x)
  BY <1>10, <1>11, <1>13, <1>15, <1>16 DEF CallRight, Underway, Running
<1>18. CallRight(x)'
  <2>1. row' = row /\ book' = book /\ born' = born
    OBVIOUS
  <2> QED
    BY <1>17, <2>1, CallStays
<1>19. \A q \in Elsewhere(p) : Parted(x, imp[q]) /\ Parted(imp[q], x)
  <2>1. \A v \in RowsNamed(x) \cup DOMAIN x.rows :
          v \in RowsNamed(c) \cup DOMAIN c.rows \cup DOMAIN row \/ v[1] = c.birth
    BY <1>11, <1>14
  <2>2. ASSUME NEW q \in Elsewhere(p)
        PROVE  /\ DOMAIN x.rows \cap DOMAIN imp[q].rows = {}
               /\ DOMAIN x.deals \cap DOMAIN imp[q].deals = {}
               /\ \A v \in DOMAIN x.rows, u \in DOMAIN imp[q].rows :
                    x.rows[v].deal = imp[q].rows[u].deal => x.rows[v].deal = Null
    <3>1. /\ DOMAIN c.rows \cap DOMAIN imp[q].rows = {}
          /\ DOMAIN c.deals \cap DOMAIN imp[q].deals = {}
          /\ \A v \in DOMAIN c.rows, u \in DOMAIN imp[q].rows :
               c.rows[v].deal = imp[q].rows[u].deal => c.rows[v].deal = Null
      BY RowsApart
    <3> QED
      BY <1>11, <3>1
  <2> QED
    BY <1>1, <1>8, <1>11, <2>1, <2>2, StaysApart, SMTT(60)
<1> QED
  BY <1>1, <1>8, <1>18, <1>19, OneCall

LEMMA OverwriteRowWrites ==
  ASSUME ImportInv, NEW p \in Imports, OverwriteRow(p), NEW c, c = imp[p]
  PROVE  IF c.found \in DOMAIN RowsSeen(p)
           THEN \E x : WritesTo(p, c, x, c.found) /\ imp' = [imp EXCEPT ![p] = x]
           ELSE imp' = [imp EXCEPT ![p] = AfterCut(c)]
<1>1. CASE c.found \in DOMAIN RowsSeen(p)
  <2>1. PICK w : w = c.found
    OBVIOUS
  <2>2. w \in Ids /\ c.pc = "write"
    BY <1>1, <2>1, CallKnows, Tables DEF OverwriteRow, Stands
  <2>3. PICK x : x = AfterWriting(p, c, w)
    OBVIOUS
  <2>4. imp' = [imp EXCEPT ![p] = x]
    BY <1>1, <2>1, <2>3, Zenon DEF OverwriteRow, Proceed, AfterWriting
  <2>5. WritesTo(p, c, x, w)
    BY <1>1, <2>1, <2>2, <2>3, WritesSo
  <2> QED
    BY <1>1, <2>1, <2>4, <2>5
<1>2. CASE c.found \notin DOMAIN RowsSeen(p)
  <2>1. imp' = [imp EXCEPT ![p] = AfterCut(c)]
    BY <1>2, Zenon DEF OverwriteRow, Proceed, AfterCut
  <2> QED
    BY <1>2, <2>1
<1> QED
  BY <1>1, <1>2

LEMMA OverwriteRowStep == ASSUME ImportInv, NEW p \in Imports, OverwriteRow(p) PROVE ImportInv'
<1>1. PICK c : c = imp[p]
  OBVIOUS
<1>2. /\ c.pc = "write" /\ c.found # Null /\ ~ RowHeld(p, c.found)
      /\ c.deal = Null \/ ~ LinkHeld(Elsewhere(p), c.deal)
      /\ UNCHANGED <<row, book, born, others>>
  BY <1>1 DEF OverwriteRow, Stands
<1>3. CASE c.found \in DOMAIN RowsSeen(p)
  <2>1. PICK w : w = c.found
    OBVIOUS
  <2>2. PICK x : WritesTo(p, c, x, w) /\ imp' = [imp EXCEPT ![p] = x]
    BY <1>1, <1>3, <2>1, OverwriteRowWrites
  <2>3. \A q \in Elsewhere(p) : w \notin DOMAIN imp[q].rows
    BY <1>2, <2>1 DEF RowHeld
  <2> QED
    BY <1>1, <1>2, <2>2, <2>3, Writing
<1>4. CASE c.found \notin DOMAIN RowsSeen(p)
  <2>1. PICK x : x = AfterCut(c)
    OBVIOUS
  <2>2. imp' = [imp EXCEPT ![p] = x]
    BY <1>1, <1>4, <2>1, OverwriteRowWrites
  <2> QED
    BY <1>1, <1>2, <1>4, <2>1, <2>2, CutLine
<1> QED
  BY <1>3, <1>4

(* A call that has told its deal.                                          *)
TellsDeal(p, c, x) ==
  /\ c.pc = "push" /\ c.deal \in Booked /\ c.deal # Null /\ x \in ImportType /\ Len(c.hit) = c.at
  /\ x.rows = c.rows /\ x.hit = c.hit /\ x.lines = c.lines /\ x.birth = c.birth
  /\ x.deals = Put(c.deals, c.deal, Pushed(DealsSeen(p)[c.deal], c.lines[c.at]))
  /\ x.shown = c.shown /\ x.same = c.same
  /\ (x.alone <=> c.alone) /\ (x.exact <=> c.exact) /\ (x.cut <=> c.cut)
  /\ x.pc \in {"row", "end"}
  /\ x.pc = "end" => c.at = Len(c.lines) /\ x.at = c.at
  /\ x.pc = "row" => c.at # Len(c.lines) /\ x.at = c.at + 1

LEMMA PushDealTells ==
  ASSUME ImportInv, NEW p \in Imports, PushDeal(p), NEW c, c = imp[p]
  PROVE  \E x : TellsDeal(p, c, x) /\ imp' = [imp EXCEPT ![p] = x]
<1>1. PICK d : d = c.deal
  OBVIOUS
<1>2. c.pc = "push" /\ c.pc \in Running
  BY DEF PushDeal, Stands, Running
<1>3. /\ c \in ImportType /\ Underway(c) /\ DealsSeen(p) \in [Booked -> DealType]
      /\ Line(p) = c.lines[c.at] /\ Line(p) \in LineType
  BY <1>2, CallKnows
<1>4. d \in Booked /\ d # Null /\ c.deals \in DealTables /\ Len(c.hit) = c.at
  BY <1>1, <1>2, <1>3, CallsAre DEF InPlace, Underway
<1>5. PICK l \in LineType : l = Line(p)
  BY <1>3
<1>6. PICK b \in DealType : b = DealsSeen(p)[d]
  BY <1>3, <1>4
<1>7. PICK r \in DealType : r = Pushed(b, l)
  BY PushedDeal
<1>8. PICK deals \in DealTables : deals = Put(c.deals, d, r)
  BY <1>4, OneDealOver
<1>9. PICK y : y = [c EXCEPT !.deals = deals]
  OBVIOUS
<1>10. /\ y \in ImportType /\ y.rows = c.rows /\ y.hit = c.hit /\ y.lines = c.lines /\ y.at = c.at
       /\ y.birth = c.birth /\ y.deals = deals /\ y.shown = c.shown /\ y.same = c.same
       /\ (y.alone <=> c.alone) /\ (y.exact <=> c.exact) /\ (y.cut <=> c.cut)
  BY <1>3, <1>9, SMTT(60) DEF ImportType
<1>11. PICK x : x = NextLine(y)
  OBVIOUS
<1>12. x \in ImportType /\ MovesOn(x, y)
  BY <1>10, <1>11, NextLineIs
<1>13. imp' = [imp EXCEPT ![p] = x]
  <2>1. y = [c EXCEPT !.deals = Put(@, d, Pushed(DealsSeen(p)[d], Line(p)))]
    BY <1>3, <1>5, <1>6, <1>7, <1>8, <1>9, SMTT(60) DEF ImportType
  <2> QED
    BY <1>1, <1>11, <2>1, Zenon DEF PushDeal, Proceed
<1>14. x.deals = Put(c.deals, c.deal, Pushed(DealsSeen(p)[c.deal], c.lines[c.at]))
  <2>1. x.deals = deals
    BY <1>10, <1>12 DEF MovesOn, GoesOn
  <2> QED
    BY <1>1, <1>3, <1>5, <1>6, <1>7, <1>8, <2>1
<1>15. TellsDeal(p, c, x)
  BY <1>1, <1>2, <1>4, <1>10, <1>12, <1>14 DEF TellsDeal, MovesOn, GoesOn
<1> QED
  BY <1>13, <1>15

LEMMA PushDealStep == ASSUME ImportInv, NEW p \in Imports, PushDeal(p) PROVE ImportInv'
<1>1. PICK c : c = imp[p]
  OBVIOUS
<1>2. PICK d : d = c.deal
  OBVIOUS
<1>3. c.pc = "push" /\ ~ DealHeld(p, d) /\ UNCHANGED <<row, book, born, others>>
  BY <1>1, <1>2 DEF PushDeal, Stands
<1>4. c.pc \in Running
  BY <1>3 DEF Running
<1>5. /\ c \in ImportType /\ CallRight(c) /\ Underway(c) /\ born \in born .. Births /\ born \in Nat
      /\ DealsSeen(p) = Over(c.deals, book) /\ DealsSeen(p) \in [Booked -> DealType]
      /\ Line(p) = c.lines[c.at] /\ Line(p) \in LineType /\ Len(c.lines) \in Nat /\ c.at \in 1 .. Len(c.lines)
  BY <1>1, <1>4, CallKnows
<1>6. InPlace(c) /\ IdsRight(c) /\ Covers(c) /\ LinksOnce(c) /\ Carries(c)
  BY <1>5 DEF Underway
<1>7. d \in Booked /\ d # Null /\ c.deals \in DealTables /\ Len(c.hit) = c.at
  BY <1>2, <1>3, <1>5, <1>6, CallsAre DEF InPlace
<1>8. PICK l : l = Line(p)
  OBVIOUS
<1>9. PICK b : b = DealsSeen(p)[d]
  OBVIOUS
<1>10. b \in DealType /\ (d \in DOMAIN c.deals => b = c.deals[d]) /\ (d \notin DOMAIN c.deals => b = book[d])
  BY <1>5, <1>7, <1>9 DEF Over
<1>11. PICK r : r = Pushed(b, l)
  OBVIOUS
<1>12. /\ r \in DealType /\ r.live = b.live
       /\ b.place # Null => r.place # Null
       /\ b.count # Null => r.count # Null
       /\ b.live /\ l.place # Null => r.place = l.place
       /\ b.live /\ l.count # Null => r.count = l.count
  BY <1>5, <1>8, <1>10, <1>11, PushedDeal
<1>13. PICK x : TellsDeal(p, c, x) /\ imp' = [imp EXCEPT ![p] = x]
  BY <1>1, PushDealTells
<1>14. PICK deals : deals = x.deals /\ deals = Put(c.deals, d, r)
  BY <1>2, <1>5, <1>8, <1>9, <1>11, <1>13 DEF TellsDeal
<1>15. /\ x.rows = c.rows /\ x.hit = c.hit /\ x.lines = c.lines /\ x.birth = c.birth /\ x.deals = deals
       /\ x.shown = c.shown /\ (x.alone <=> c.alone) /\ (x.exact <=> c.exact) /\ (x.cut <=> c.cut)
       /\ x.pc \in {"row", "end"} /\ x \in ImportType
       /\ x.pc = "end" => c.at = Len(c.lines) /\ x.at = c.at
       /\ x.pc = "row" => c.at # Len(c.lines) /\ x.at = c.at + 1
  BY <1>13, <1>14 DEF TellsDeal
<1>16. /\ DOMAIN deals = DOMAIN c.deals \cup {d} /\ deals[d] = r
       /\ \A e \in DOMAIN c.deals \ {d} : deals[e] = c.deals[e]
  BY <1>14 DEF Put
<1>17. RowsNamed(x) \subseteq RowsNamed(c)
  BY <1>15 DEF RowsNamed
<1>18. Underway(x)
  <2>1. InPlace(x)
    BY <1>5, <1>6, <1>7, <1>15 DEF InPlace
  <2>2. IdsRight(x)
    BY <1>6, <1>15, <1>17 DEF IdsRight
  <2>3. Covers(x)
    <3>1. ASSUME NEW e \in DOMAIN deals
          PROVE  /\ book[e].place # Null => deals[e].place # Null
                 /\ book[e].count # Null => deals[e].count # Null
      <4>1. CASE e = d
        BY <1>6, <1>10, <1>12, <1>16, <4>1 DEF Covers
      <4>2. CASE e # d
        BY <1>6, <1>16, <4>2 DEF Covers
      <4> QED
        BY <4>1, <4>2
    <3> QED
      BY <1>6, <1>15, <3>1 DEF Covers
  <2>4. LinksOnce(x) /\ Carries(x)
    BY <1>6, <1>15 DEF LinksOnce, Carries, SaysLast
  <2> QED
    BY <2>1, <2>2, <2>3, <2>4 DEF Underway
<1>19. x.alone => FoundRight(x) /\ LastRight(x) /\ ExactRight(x)
  <2>1. SUFFICES ASSUME x.alone PROVE FoundRight(x) /\ LastRight(x) /\ ExactRight(x)
    OBVIOUS
  <2>2. FoundRight(x)
    BY <1>15, SMTT(60) DEF FoundRight
  <2>3. LastRight(x)
    <3>1. SUFFICES ASSUME x.pc = "end" PROVE BothSay(c.rows, Over(deals, book), c.hit[c.at], l)
      BY <1>5, <1>8, <1>15 DEF LastRight
    <3>2. RowSays(c.rows, c.hit[c.at], l) /\ c.rows[c.hit[c.at]].deal \in {Null, d}
      BY <1>2, <1>3, <1>5, <1>8, <1>15, <2>1 DEF CallRight, LastRight
    <3>3. Over(deals, book)[d] = r
      BY <1>16 DEF Over
    <3> QED
      BY <1>12, <3>2, <3>3 DEF BothSay
  <2>4. ExactRight(x)
    BY <1>4, <1>5, <1>15, <2>1 DEF CallRight, ExactRight, Running
  <2> QED
    BY <2>2, <2>3, <2>4
<1>20. CallRight(x)
  BY <1>15, <1>18, <1>19 DEF CallRight, Running
<1>21. CallRight(x)'
  <2>1. row' = row /\ book' = book /\ born' = born
    BY <1>3
  <2> QED
    BY <1>20, <2>1, CallStays
<1>22. \A q \in Elsewhere(p) : Parted(x, imp[q]) /\ Parted(imp[q], x)
  <2>1. \A v \in RowsNamed(x) \cup DOMAIN x.rows :
          v \in RowsNamed(c) \cup DOMAIN c.rows \cup DOMAIN row \/ v[1] = c.birth
    BY <1>15, <1>17
  <2>2. ASSUME NEW q \in Elsewhere(p)
        PROVE  /\ DOMAIN x.rows \cap DOMAIN imp[q].rows = {}
               /\ DOMAIN x.deals \cap DOMAIN imp[q].deals = {}
               /\ \A v \in DOMAIN x.rows, u \in DOMAIN imp[q].rows :
                    x.rows[v].deal = imp[q].rows[u].deal => x.rows[v].deal = Null
    <3>1. d \notin DOMAIN imp[q].deals
      BY <1>3, <2>2 DEF DealHeld
    <3>2. /\ DOMAIN c.rows \cap DOMAIN imp[q].rows = {}
          /\ DOMAIN c.deals \cap DOMAIN imp[q].deals = {}
          /\ \A v \in DOMAIN c.rows, u \in DOMAIN imp[q].rows :
               c.rows[v].deal = imp[q].rows[u].deal => c.rows[v].deal = Null
      BY <1>1, RowsApart
    <3> QED
      BY <1>15, <1>16, <3>1, <3>2
  <2> QED
    BY <1>1, <1>4, <1>15, <2>1, <2>2, StaysApart
<1>23. born' \in born .. Births
  BY <1>3, <1>5
<1> QED
  BY <1>3, <1>13, <1>15, <1>21, <1>22, <1>23, OneCall

-----------------------------------------------------------------------------
(* What others write under a transaction.                                  *)
LEMMA Undisturbed ==
  ASSUME ImportInv, NEW q \in Imports, NEW c, c = imp[q], c.pc \in Running, born' \in born .. Births,
         \A w \in DOMAIN row' : w[1] # c.birth /\ (w \in DOMAIN row \/ w \notin RowsNamed(c)),
         \A w \in DOMAIN row \cap DOMAIN c.rows : w \in DOMAIN row',
         \A w \in DOMAIN row' \cap DOMAIN c.rows : w \in DOMAIN row /\ row'[w] = row[w],
         \A w \in DOMAIN row' : row'[w].deal # Null =>
           \/ w \in DOMAIN row /\ row[w].deal = row'[w].deal
           \/ \A v \in DOMAIN c.rows : c.rows[v].deal # row'[w].deal,
         \A d \in DOMAIN c.deals : book'[d] = book[d]
  PROVE  Undamaged(c)'
<1>1. /\ IdsRight(c) /\ Covers(c) /\ LinksOnce(c) /\ c \in ImportType /\ born \in Nat
  BY CallKnows DEF Underway
<1>2. /\ DOMAIN c.rows \subseteq Ids /\ RowsNamed(c) \subseteq Ids /\ \A w \in Ids : w[1] \in Nat
      /\ born' \in Nat /\ born <= born'
  BY <1>1, CallsAre, IdsAre, ImportAssumption
<1>3. \A i \in DOMAIN c.hit : c.hit[i] \in RowsNamed(c)
  BY DEF RowsNamed
<1>4. IdsRight(c)'
  <2>1. c.birth \in 1 .. born'
    BY <1>1, <1>2 DEF IdsRight
  <2>2. \A w \in DOMAIN c.rows : w[1] <= born' /\ (w \in DOMAIN row' \/ w[1] = c.birth)
    BY <1>1, <1>2 DEF IdsRight
  <2>3. \A w \in RowsNamed(c) : w[1] <= born' /\ (w[1] = c.birth => w \in DOMAIN c.rows)
    BY <1>1, <1>2 DEF IdsRight
  <2>4. \A i \in DOMAIN c.hit : c.hit[i] \in DOMAIN c.rows \/ (c.cut /\ c.hit[i] \notin DOMAIN row')
    BY <1>1, <1>3 DEF IdsRight
  <2> QED
    BY <2>1, <2>2, <2>3, <2>4 DEF IdsRight
<1>5. Covers(c)'
  BY <1>1 DEF Covers
<1>6. LinksOnce(c)'
  BY <1>1 DEF LinksOnce
<1> QED
  BY <1>4, <1>5, <1>6 DEF Undamaged

(* The call that commits.                                                  *)
LEMMA CommittedCall ==
  ASSUME ImportInv, NEW p \in Imports, NEW c, c = imp[p], c.pc = "end",
         NEW x, x = [c EXCEPT !.pc = "ok", !.rows = <<>>, !.deals = <<>>],
         row' = RowsSeen(p), book' = DealsSeen(p)
  PROVE  x \in ImportType /\ CallRight(x)' /\ \A e : Parted(x, e) /\ Parted(e, x)
<1>1. c.pc \in Running
  BY DEF Running
<1>2. /\ c \in ImportType /\ CallRight(c) /\ InPlace(c) /\ c.lines \in Sheets
      /\ RowsSeen(p) = Over(c.rows, row) /\ DealsSeen(p) = Over(c.deals, book)
  BY <1>1, CallKnows DEF Underway
<1>3. /\ x \in ImportType /\ x.pc = "ok" /\ x.hit = c.hit /\ x.lines = c.lines /\ x.at = c.at
      /\ DOMAIN x.rows = {} /\ DOMAIN x.deals = {} /\ x.shown = c.shown
      /\ (x.alone <=> c.alone) /\ (x.exact <=> c.exact)
  BY <1>2, EmptyTables DEF ImportType, ImportPoints
<1>4. c.at = Len(c.lines) /\ Len(c.hit) = c.at
  BY <1>2 DEF InPlace
<1>5. ASSUME x.alone PROVE FoundRight(x)' /\ LastRight(x)' /\ ExactRight(x)'
  <2>1. FoundRight(x)'
    BY <1>3 DEF FoundRight
  <2>2. LastRight(x)'
    <3>1. BothSay(c.rows, Over(c.deals, book), c.hit[c.at], c.lines[c.at])
      BY <1>2, <1>3, <1>5 DEF CallRight, LastRight
    <3>2. \A w \in DOMAIN c.rows : w \in DOMAIN row' /\ row'[w] = c.rows[w]
      BY <1>2 DEF Over
    <3>3. BothSay(row', book', c.hit[c.at], c.lines[c.at])
      BY <1>2, <3>1, <3>2 DEF BothSay, RowSays
    <3> QED
      BY <1>3, <3>3, ZenonT(60) DEF LastRight, BothSay, RowSays
  <2>3. ExactRight(x)'
    BY <1>1, <1>2, <1>3, <1>5 DEF CallRight, ExactRight, Running
  <2> QED
    BY <2>1, <2>2, <2>3
<1>6. CallRight(x)'
  BY <1>2, <1>3, <1>4, <1>5 DEF CallRight, Running
<1>7. \A e : Parted(x, e) /\ Parted(e, x)
  BY <1>3 DEF Parted, Running
<1> QED
  BY <1>3, <1>6, <1>7

LEMMA CommitImportStep == ASSUME ImportInv, NEW p \in Imports, Commit(p) PROVE ImportInv'
<1>1. PICK c : c = imp[p]
  OBVIOUS
<1>2. /\ c.pc = "end" /\ row' = RowsSeen(p) /\ book' = DealsSeen(p) /\ born' = born /\ others' = others
      /\ imp' = [Interrupted EXCEPT ![p] = [c EXCEPT !.pc = "ok", !.rows = <<>>, !.deals = <<>>]]
  BY <1>1 DEF Commit, Stands
<1>3. c.pc \in Running
  BY <1>2 DEF Running
<1>4. /\ RowsSeen(p) \in RowTables /\ DealsSeen(p) \in [Booked -> DealType] /\ IdsRight(c)
      /\ DealsSeen(p) = Over(c.deals, book) /\ ImportTypes /\ born' \in born .. Births
      /\ born \in 0 .. Births /\ others \in 0 .. Others
  BY <1>1, <1>2, <1>3, CallKnows DEF Underway, ImportInv
<1>5. /\ DOMAIN row' = DOMAIN c.rows \cup DOMAIN row
      /\ \A w \in DOMAIN c.rows : row'[w] = c.rows[w]
      /\ \A w \in DOMAIN row \ DOMAIN c.rows : row'[w] = row[w]
      /\ \A v, w \in DOMAIN row' : row'[v].deal # Null /\ row'[w].deal = row'[v].deal => w = v
      /\ \A w \in DOMAIN row' : w[1] <= born
  BY <1>1, <1>2, <1>3, SeenRows, SMTT(60)
<1>6. PICK x : x = [c EXCEPT !.pc = "ok", !.rows = <<>>, !.deals = <<>>]
  OBVIOUS
<1>7. x \in ImportType /\ CallRight(x)' /\ \A e : Parted(x, e) /\ Parted(e, x)
  BY <1>1, <1>2, <1>6, CommittedCall
<1>8. ASSUME NEW q \in Imports, q # p, NEW e, e = imp[q], e.pc \in Running PROVE Undamaged(e)'
  <2>1. /\ Parted(c, e) /\ Parted(e, c) /\ CallRight(e)
    BY <1>1, <1>8 DEF ImportInv
  <2>2. \A w \in DOMAIN row' : w[1] # e.birth /\ (w \in DOMAIN row \/ w \notin RowsNamed(e))
    <3>1. IdsRight(e)
      BY <1>8, <2>1 DEF CallRight, Underway
    <3>2. /\ \A w \in DOMAIN c.rows : w[1] # e.birth
          /\ \A w \in RowsNamed(e) : w[1] # c.birth
      BY <1>3, <1>8, <2>1 DEF Parted
    <3> QED
      BY <1>4, <1>5, <3>1, <3>2 DEF IdsRight
  <2>3. DOMAIN e.rows \cap DOMAIN c.rows = {} /\ DOMAIN e.deals \cap DOMAIN c.deals = {}
    BY <2>1 DEF Parted
  <2>4. /\ \A w \in DOMAIN row \cap DOMAIN e.rows : w \in DOMAIN row'
        /\ \A w \in DOMAIN row' \cap DOMAIN e.rows : w \in DOMAIN row /\ row'[w] = row[w]
    BY <1>5, <2>3
  <2>5. \A w \in DOMAIN row' : row'[w].deal # Null =>
          \/ w \in DOMAIN row /\ row[w].deal = row'[w].deal
          \/ \A v \in DOMAIN e.rows : e.rows[v].deal # row'[w].deal
    BY <1>5, <2>1 DEF Parted
  <2>6. \A d \in DOMAIN e.deals : book'[d] = book[d]
    <3>1. e \in ImportType /\ book \in [Booked -> DealType]
      BY <1>4, <1>8 DEF ImportTypes
    <3>2. DOMAIN e.deals \subseteq Booked /\ DOMAIN book = Booked
      BY <3>1, CallsAre
    <3> QED
      BY <1>2, <1>4, <2>3, <3>2 DEF Over
  <2> QED
    BY <1>4, <1>8, <2>2, <2>4, <2>5, <2>6, Undisturbed
<1>9. imp' = [Interrupted EXCEPT ![p] = x] /\ DOMAIN Interrupted = Imports
  BY <1>2, <1>6, Zenon DEF Interrupted
<1>10. imp'[p] = x
  BY <1>9
<1>11. ASSUME NEW q \in Imports, q # p
       PROVE  /\ imp'[q] \in ImportType /\ CallRight(imp[q])'
              /\ \A a : Parted(imp[q], a) => Parted(imp'[q], a)
              /\ \A a : Parted(a, imp[q]) => Parted(a, imp'[q])
  <2>1. PICK e : e = imp[q]
    OBVIOUS
  <2>2. PICK z : z = Interrupted[q]
    OBVIOUS
  <2>3. CallRight(e) /\ (e.pc \in Running => Undamaged(e)')
    BY <1>8, <1>11, <2>1 DEF ImportInv
  <2>4. /\ z \in ImportType /\ CallRight(z)'
        /\ \A a : Parted(e, a) => Parted(z, a)
        /\ \A a : Parted(a, e) => Parted(a, z)
    BY <1>4, <2>1, <2>2, <2>3, Interruption
  <2>5. imp'[q] = z
    BY <1>9, <1>11, <2>2
  <2> QED
    BY <2>1, <2>4, <2>5
<1>12. imp' \in [Imports -> ImportType]
  <2>1. DOMAIN imp' = Imports /\ imp' = [q \in Imports |-> imp'[q]]
    BY <1>9
  <2> QED
    BY <1>7, <1>10, <1>11, <2>1
<1>13. ImportTypes'
  BY <1>2, <1>4, <1>12 DEF ImportTypes
<1>14. TablesRight'
  BY <1>2, <1>5 DEF TablesRight, DealKeepsOneRow, Linked
<1>15. ASSUME NEW q \in Imports PROVE CallRight(imp[q])'
  <2>1. CASE q = p
    BY <1>7, <1>10, <2>1
  <2>2. CASE q # p
    BY <1>11, <2>2
  <2> QED
    BY <2>1, <2>2
<1>16. ASSUME NEW q \in Imports, NEW o \in Imports, q # o PROVE Parted(imp'[q], imp'[o])
  <2>1. Parted(imp[q], imp[o])
    BY <1>16 DEF ImportInv
  <2>2. CASE q = p
    BY <1>7, <1>10, <2>2
  <2>3. CASE o = p
    BY <1>7, <1>10, <2>3
  <2>4. CASE q # p /\ o # p
    BY <1>11, <2>1, <2>4
  <2> QED
    BY <2>2, <2>3, <2>4
<1> QED
  BY <1>13, <1>14, <1>15, <1>16 DEF ImportInv

LEMMA EditRowStep == ASSUME ImportInv, EditRow PROVE ImportInv'
<1>1. PICK w \in DOMAIN row \ HeldRows, v \in DOMAIN row :
        row' = [row EXCEPT ![w].place = IF row[v].place = Null THEN @ ELSE row[v].place]
  BY DEF EditRow
<1>2. /\ others < Others /\ others' = others + 1 /\ imp' = Interrupted /\ book' = book /\ born' = born
  BY DEF EditRow, Other
<1>3. /\ row \in RowTables /\ DOMAIN row \subseteq Ids /\ row \in [DOMAIN row -> RowType]
      /\ book \in [Booked -> DealType] /\ born \in 0 .. Births /\ others \in 0 .. Others /\ TablesRight
  BY Tables DEF ImportInv, ImportTypes
<1>4. others' \in 0 .. Others /\ born' \in 0 .. Births /\ born' \in born .. Births
  BY <1>2, <1>3, ImportAssumption
<1>5. /\ DOMAIN row' = DOMAIN row /\ row' \in [DOMAIN row -> RowType]
      /\ \A u \in DOMAIN row : row'[u].deal = row[u].deal /\ (u # w => row'[u] = row[u])
  <2>1. PICK a \in Words \cup {Null} : row' = [row EXCEPT ![w].place = a]
    BY <1>1, <1>3 DEF RowType
  <2> QED
    BY <1>1, <1>3, <2>1 DEF RowType
<1>6. row' \in RowTables
  BY <1>3, <1>5, Tables
<1>7. TablesRight'
  BY <1>2, <1>3, <1>5 DEF TablesRight, DealKeepsOneRow, Linked
<1>8. ASSUME NEW c \in ImportType, c.pc \in Running, NEW q \in Imports, c = imp[q] PROVE Undamaged(c)'
  <2>1. w \notin DOMAIN c.rows
    BY <1>1, <1>8 DEF HeldRows
  <2>2. \A u \in DOMAIN row : u[1] # c.birth
    BY <1>8, CallKnows DEF Underway, IdsRight
  <2> QED
    BY <1>2, <1>4, <1>5, <1>8, <2>1, <2>2, Undisturbed
<1> QED
  BY <1>2, <1>3, <1>4, <1>6, <1>7, <1>8, TablesChange

LEMMA DropRowStep == ASSUME ImportInv, DropRow PROVE ImportInv'
<1>1. PICK w \in DOMAIN row \ HeldRows : row' = [v \in DOMAIN row \ {w} |-> row[v]]
  BY DEF DropRow
<1>2. /\ others < Others /\ others' = others + 1 /\ imp' = Interrupted /\ book' = book /\ born' = born
  BY DEF DropRow, Other
<1>3. /\ row \in RowTables /\ DOMAIN row \subseteq Ids /\ row \in [DOMAIN row -> RowType]
      /\ book \in [Booked -> DealType] /\ born \in 0 .. Births /\ others \in 0 .. Others /\ TablesRight
  BY Tables DEF ImportInv, ImportTypes
<1>4. others' \in 0 .. Others /\ born' \in 0 .. Births /\ born' \in born .. Births
  BY <1>2, <1>3, ImportAssumption
<1>5. /\ DOMAIN row' = DOMAIN row \ {w} /\ \A u \in DOMAIN row \ {w} : row'[u] = row[u]
  BY <1>1
<1>6. row' \in RowTables
  <2>1. row' \in [DOMAIN row' -> RowType]
    BY <1>1, <1>3
  <2> QED
    BY <1>3, <1>5, <2>1, Tables
<1>7. TablesRight'
  BY <1>2, <1>3, <1>5 DEF TablesRight, DealKeepsOneRow, Linked
<1>8. ASSUME NEW c \in ImportType, c.pc \in Running, NEW q \in Imports, c = imp[q] PROVE Undamaged(c)'
  <2>1. w \notin DOMAIN c.rows
    BY <1>1, <1>8 DEF HeldRows
  <2>2. \A u \in DOMAIN row : u[1] # c.birth
    BY <1>8, CallKnows DEF Underway, IdsRight
  <2> QED
    BY <1>2, <1>4, <1>5, <1>8, <2>1, <2>2, Undisturbed
<1> QED
  BY <1>2, <1>3, <1>4, <1>6, <1>7, <1>8, TablesChange

LEMMA TrackDealStep == ASSUME ImportInv, TrackDeal PROVE ImportInv'
<1>1. /\ others < Others /\ others' = others + 1 /\ imp' = Interrupted /\ book' = book
      /\ born < Births /\ born' = born + 1
  BY DEF TrackDeal, Other
<1>2. PICK d \in Booked :
        /\ ~ LinkHeld(Imports, d) /\ \A u \in DOMAIN row : row[u].deal # d
        /\ \/ row' = Put(row, <<born + 1, 1>>, [client |-> Account[d], place |-> book[d].place,
                                                count |-> Null, deal |-> d])
           \/ \E w \in OfClient(row, Account[d]) \ HeldRows :
                row' = [row EXCEPT ![w].deal = d, ![w].place = Carried(book[d].place, @)] /\ row[w].deal = Null
  BY DEF TrackDeal, Linked
<1>3. /\ row \in RowTables /\ DOMAIN row \subseteq Ids /\ row \in [DOMAIN row -> RowType]
      /\ book \in [Booked -> DealType] /\ born \in 0 .. Births /\ others \in 0 .. Others /\ TablesRight
      /\ born \in Nat
  BY Tables DEF ImportInv, ImportTypes
<1>4. /\ others' \in 0 .. Others /\ born' \in 0 .. Births /\ born' \in born .. Births
      /\ d # Null /\ born + 1 \in Nat
  BY <1>1, <1>3, ImportAssumption
<1>5. \E w \in Ids :
        /\ (w \in DOMAIN row \ HeldRows /\ row[w].deal = Null) \/ w[1] = born + 1
        /\ DOMAIN row' = DOMAIN row \cup {w} /\ row' \in [DOMAIN row' -> RowType] /\ row'[w].deal = d
        /\ \A u \in DOMAIN row \ {w} : row'[u] = row[u]
  <2>1. CASE row' = Put(row, <<born + 1, 1>>, [client |-> Account[d], place |-> book[d].place,
                                               count |-> Null, deal |-> d])
    <3>1. PICK w \in Ids : w = <<born + 1, 1>>
      <4>1. born + 1 \in 0 .. Births /\ 1 \in 1 .. 3
        BY <1>1, <1>4
      <4> QED
        BY <4>1 DEF Ids
    <3>2. PICK r \in RowType : r = [client |-> Account[d], place |-> book[d].place, count |-> Null, deal |-> d]
      BY <1>3, ImportAssumption DEF RowType, DealType
    <3>3. row' = Put(row, w, r)
      BY <2>1, <3>1, <3>2
    <3>4. /\ DOMAIN row' = DOMAIN row \cup {w} /\ row' \in [DOMAIN row' -> RowType] /\ row'[w] = r
          /\ \A u \in DOMAIN row \ {w} : row'[u] = row[u]
      BY <1>3, <3>3 DEF Put
    <3> QED
      BY <3>1, <3>2, <3>4
  <2>2. ASSUME NEW w \in OfClient(row, Account[d]) \ HeldRows, row[w].deal = Null,
               row' = [row EXCEPT ![w].deal = d, ![w].place = Carried(book[d].place, @)]
        PROVE  /\ w \in Ids /\ w \in DOMAIN row \ HeldRows
               /\ DOMAIN row' = DOMAIN row \cup {w} /\ row' \in [DOMAIN row' -> RowType] /\ row'[w].deal = d
               /\ \A u \in DOMAIN row \ {w} : row'[u] = row[u]
    <3>1. w \in DOMAIN row /\ w \in Ids
      BY <1>3 DEF OfClient
    <3>2. PICK a \in Words \cup {Null} : a = Carried(book[d].place, row[w].place)
      BY <1>3, <3>1 DEF Carried, RowType, DealType
    <3>3. row' = [row EXCEPT ![w].deal = d, ![w].place = a]
      BY <1>3, <2>2, <3>1, <3>2 DEF RowType
    <3>4. row' = [row EXCEPT ![w] = [row[w] EXCEPT !.deal = d, !.place = a]]
      BY <1>3, <3>1, <3>3 DEF RowType
    <3>5. PICK r \in RowType : r = [row[w] EXCEPT !.deal = d, !.place = a] /\ r.deal = d
      <4>1. PICK old \in RowType : old = row[w]
        BY <1>3, <3>1
      <4>2. PICK r \in RowType : r = [old EXCEPT !.deal = d]
        BY <4>1 DEF RowType
      <4>3. PICK s \in RowType : s = [r EXCEPT !.place = a]
        BY <3>2 DEF RowType
      <4>4. s = [old EXCEPT !.deal = d, !.place = a] /\ s.deal = d
        BY <4>1, <4>2, <4>3 DEF RowType
      <4> QED
        BY <4>1, <4>3, <4>4
    <3>6. row' = [row EXCEPT ![w] = r]
      BY <3>4, <3>5
    <3> QED
      BY <1>3, <2>2, <3>1, <3>5, <3>6, ZenonT(60)
  <2> QED
    BY <1>2, <2>1, <2>2
<1>6. PICK w \in Ids :
        /\ (w \in DOMAIN row \ HeldRows /\ row[w].deal = Null) \/ w[1] = born + 1
        /\ DOMAIN row' = DOMAIN row \cup {w} /\ row' \in [DOMAIN row' -> RowType] /\ row'[w].deal = d
        /\ \A u \in DOMAIN row \ {w} : row'[u] = row[u]
  BY <1>5
<1>7. row' \in RowTables
  BY <1>3, <1>6, Tables
<1>8. TablesRight'
  <2>1. \A u \in DOMAIN row' : u[1] <= born'
    BY <1>1, <1>3, <1>4, <1>6, IdsAre DEF TablesRight
  <2>2. DealKeepsOneRow'
    BY <1>2, <1>3, <1>4, <1>6 DEF TablesRight, DealKeepsOneRow, Linked
  <2> QED
    BY <2>1, <2>2 DEF TablesRight
<1>9. ASSUME NEW c \in ImportType, c.pc \in Running, NEW q \in Imports, c = imp[q] PROVE Undamaged(c)'
  <2>1. /\ IdsRight(c) /\ c.birth # born + 1 /\ \A u \in RowsNamed(c) \cup DOMAIN c.rows : u[1] # born + 1
    <3>1. IdsRight(c)
      BY <1>9, CallKnows DEF Underway
    <3> QED
      BY <1>3, <3>1, CallsAre, IdsAre DEF IdsRight
  <2>2. \A u \in DOMAIN row : u[1] # c.birth
    BY <2>1 DEF IdsRight
  <2>3. w \notin DOMAIN c.rows /\ w[1] # c.birth /\ (w \in DOMAIN row \/ w \notin RowsNamed(c))
    BY <1>6, <1>9, <2>1, <2>2 DEF HeldRows
  <2>4. \A v \in DOMAIN c.rows : c.rows[v].deal # d
    BY <1>2, <1>9 DEF LinkHeld
  <2> QED
    BY <1>1, <1>4, <1>6, <1>9, <2>2, <2>3, <2>4, Undisturbed
<1> QED
  BY <1>1, <1>3, <1>4, <1>7, <1>8, <1>9, TablesChange

LEMMA RetireDealStep == ASSUME ImportInv, RetireDeal PROVE ImportInv'
<1>1. PICK d \in Booked \ HeldDeals :
        /\ {w \in DOMAIN row : row[w].deal = d} \cap HeldRows = {}
        /\ book' = [book EXCEPT ![d].live = FALSE]
        /\ row' = [w \in DOMAIN row |->
             IF w \in {v \in DOMAIN row : row[v].deal = d} THEN [row[w] EXCEPT !.deal = Null] ELSE row[w]]
  BY DEF RetireDeal
<1>2. /\ others < Others /\ others' = others + 1 /\ imp' = Interrupted /\ born' = born
  BY DEF RetireDeal, Other
<1>3. /\ row \in RowTables /\ DOMAIN row \subseteq Ids /\ row \in [DOMAIN row -> RowType]
      /\ book \in [Booked -> DealType] /\ born \in 0 .. Births /\ others \in 0 .. Others /\ TablesRight
  BY Tables DEF ImportInv, ImportTypes
<1>4. others' \in 0 .. Others /\ born' \in 0 .. Births /\ born' \in born .. Births
  BY <1>2, <1>3, ImportAssumption
<1>5. /\ DOMAIN row' = DOMAIN row /\ row' \in [DOMAIN row -> RowType]
      /\ \A u \in DOMAIN row : /\ row'[u].deal \in {Null, row[u].deal}
                               /\ row[u].deal # d => row'[u] = row[u]
  BY <1>1, <1>3, SMTT(60) DEF RowType
<1>6. book' \in [Booked -> DealType] /\ \A e \in Booked \ {d} : book'[e] = book[e]
  BY <1>1, <1>3 DEF DealType
<1>7. row' \in RowTables
  BY <1>3, <1>5, Tables
<1>8. TablesRight'
  <2>1. ASSUME NEW u \in DOMAIN row', NEW v \in DOMAIN row', row'[v].deal # Null, row'[u].deal = row'[v].deal
        PROVE  u = v
    BY <1>3, <1>5, <2>1 DEF TablesRight, DealKeepsOneRow, Linked
  <2> QED
    BY <1>2, <1>3, <1>5, <2>1 DEF TablesRight, DealKeepsOneRow, Linked
<1>9. ASSUME NEW c \in ImportType, c.pc \in Running, NEW q \in Imports, c = imp[q] PROVE Undamaged(c)'
  <2>1. \A u \in DOMAIN row \cap DOMAIN c.rows : row[u].deal # d
    BY <1>1, <1>9 DEF HeldRows
  <2>2. d \notin DOMAIN c.deals
    BY <1>1, <1>9 DEF HeldDeals
  <2>3. \A u \in DOMAIN row : u[1] # c.birth
    BY <1>9, CallKnows DEF Underway, IdsRight
  <2>4. DOMAIN c.deals \subseteq Booked
    BY <1>9, CallsAre
  <2>5. \A e \in DOMAIN c.deals : book'[e] = book[e]
    BY <1>6, <2>2, <2>4
  <2> QED
    BY <1>4, <1>5, <1>9, <2>1, <2>3, <2>5, Undisturbed
<1> QED
  BY <1>2, <1>3, <1>4, <1>6, <1>7, <1>8, <1>9, TablesChange

-----------------------------------------------------------------------------
LEMMA ImportInvKept == ImportInv /\ [ImportNext]_importVars => ImportInv'
<1> SUFFICES ASSUME ImportInv, [ImportNext]_importVars PROVE ImportInv'
  OBVIOUS
<1>1. CASE UNCHANGED importVars
  <2>1. row' = row /\ book' = book /\ born' = born /\ others' = others /\ imp' = imp
    BY <1>1 DEF importVars
  <2>2. ImportTypes' /\ TablesRight'
    BY <2>1 DEF ImportInv, ImportTypes, TablesRight, DealKeepsOneRow
  <2>3. ASSUME NEW p \in Imports PROVE CallRight(imp[p])'
    <3>1. PICK x : x = imp[p]
      OBVIOUS
    <3>2. CallRight(x)'
      BY <2>1, <3>1, CallStays DEF ImportInv
    <3> QED
      BY <2>1, <3>1, <3>2
  <2> QED
    BY <2>1, <2>2, <2>3 DEF ImportInv
<1>2. ASSUME NEW p \in Imports,
             \/ Preview(p) \/ Confirm(p) \/ ResolveRow(p) \/ ResolveDeal(p)
             \/ InsertRow(p) \/ OverwriteRow(p) \/ PushDeal(p)
             \/ Commit(p) \/ Fail(p) \/ EndImport(p)
      PROVE  ImportInv'
  BY <1>2, PreviewStep, ConfirmStep, ResolveRowStep, ResolveDealStep, InsertRowStep,
     OverwriteRowStep, PushDealStep, CommitImportStep, FailImportStep, EndStep
<1> QED
  BY <1>1, <1>2, EditRowStep, DropRowStep, TrackDealStep, RetireDealStep DEF ImportNext

(* What imports in flight may rely on is true throughout.                  *)
THEOREM ImportsInvariant == ImportSpec => []ImportInv
<1> QED
  BY InitImportInv, ImportInvKept, PTL DEF ImportSpec

(* The tables and the imports keep their types, and no two transactions    *)
(* hold one row.                                                           *)
THEOREM ImportTypeCorrect == ImportSpec => []ImportTypeOK
<1>1. ImportInv => ImportTypeOK
  <2> SUFFICES ASSUME ImportInv PROVE ImportTypeOK
    OBVIOUS
  <2>1. /\ DOMAIN row \subseteq Ids /\ row \in [DOMAIN row -> RowType]
        /\ book \in [Booked -> DealType] /\ born \in 0 .. Births /\ others \in 0 .. Others
    BY Tables DEF ImportInv, ImportTypes
  <2>2. ASSUME NEW p \in Imports
        PROVE  /\ imp[p].at \in 0 .. Len(imp[p].lines)
               /\ DOMAIN imp[p].rows \subseteq Ids /\ DOMAIN imp[p].deals \subseteq Booked
               /\ \A q \in Elsewhere(p) : DOMAIN imp[p].rows \cap DOMAIN imp[q].rows = {}
    <3>1. PICK c \in ImportType : c = imp[p]
      BY DEF ImportInv, ImportTypes
    <3>2. c.at \in 0 .. Len(c.lines)
      <4>1. CallRight(c) /\ c.pc \in ImportPoints /\ Len(<<>>) = 0
        BY <3>1 DEF ImportInv, ImportType
      <4>2. CASE c.pc \in Running
        <5>1. c.at \in 1 .. Len(c.lines) /\ Len(c.lines) \in Nat
          BY <3>1, <4>2, CallKnows
        <5> QED
          BY <5>1
      <4>3. CASE c.pc = "ok"
        BY <4>1, <4>3, SheetsAre DEF CallRight
      <4>4. CASE c.pc \in {"idle", "shown", "error"}
        <5>1. c.at = 0 /\ c.lines \in Sheets \cup {<<>>}
          BY <3>1, <4>1, <4>4 DEF CallRight, ImportType
        <5>2. Len(c.lines) \in Nat
          BY <4>1, <5>1, SheetsAre
        <5> QED
          BY <5>1, <5>2
      <4> QED
        BY <4>1, <4>2, <4>3, <4>4 DEF ImportPoints
    <3>3. DOMAIN c.rows \subseteq Ids /\ DOMAIN c.deals \subseteq Booked
      BY CallsAre
    <3> QED
      BY <3>1, <3>2, <3>3, RowsApart
  <2> QED
    BY <2>1, <2>2 DEF ImportTypeOK
<1> QED
  BY <1>1, ImportsInvariant, PTL

(* No two rows hold one deal, whatever imports and saves ran together; and *)
(* of an import that nobody disturbed, the first line is written where the *)
(* preview showed it, and after the last the board and the deal say what   *)
(* it carried.                                                             *)
THEOREM ImportsExact == ImportSpec => []ImportIsExact
<1>1. ImportInv => ImportIsExact
  <2> SUFFICES ASSUME ImportInv PROVE ImportIsExact
    OBVIOUS
  <2>1. DealKeepsOneRow
    BY DEF ImportInv, TablesRight
  <2>2. ASSUME NEW p \in Imports, NEW c, c = imp[p], c.pc = "ok", c.alone
        PROVE  /\ BothSay(row, book, c.hit[Len(c.lines)], c.lines[Len(c.lines)])
               /\ c.exact => c.hit[1] = c.shown[1]
    <3>1. CallRight(c) /\ c.at = Len(c.lines) /\ Len(c.hit) = c.at /\ Len(c.hit) # 0
      <4>1. CallRight(c)
        BY <2>2 DEF ImportInv
      <4>2. c.lines \in Sheets /\ c.at = Len(c.lines) /\ Len(c.hit) = c.at
        BY <2>2, <4>1, SMTT(60) DEF CallRight
      <4> QED
        BY <4>1, <4>2, SheetsAre
    <3> QED
      BY <2>2, <3>1 DEF CallRight, LastRight, ExactRight
  <2>3. LastLineReachesBoth
    <3> SUFFICES ASSUME NEW p \in Imports, Done(p)
                 PROVE  LET l == imp[p].lines[Len(imp[p].lines)]
                            w == imp[p].hit[Len(imp[p].lines)]
                        IN Linked(row, w) /\ book[row[w].deal].live =>
                             /\ l.place # Null => book[row[w].deal].place = row[w].place
                             /\ l.count # Null => book[row[w].deal].count = row[w].count
      BY Zenon DEF LastLineReachesBoth
    <3>1. PICK w, l : /\ w = imp[p].hit[Len(imp[p].lines)] /\ l = imp[p].lines[Len(imp[p].lines)]
                      /\ BothSay(row, book, w, l)
      BY <2>2 DEF Done, Stands
    <3> QED
      BY <3>1 DEF BothSay, RowSays, Linked
  <2>4. ExactMatchesAgree
    BY <2>2 DEF ExactMatchesAgree, Done, Stands
  <2> QED
    BY <2>1, <2>3, <2>4 DEF ImportIsExact
<1> QED
  BY <1>1, ImportsInvariant, PTL

-----------------------------------------------------------------------------
(* A sheet that is imported again.  Names that are one client, a row that  *)
(* a line may be written to, a row that says of a line where it is, and a  *)
(* deal that says what a line carries.                                     *)
AlikeTo(a, b) == a = b \/ (Clean[b] # Null /\ Clean[a] = Clean[b])

FitsLine(rows, w, l) ==
  /\ w \in DOMAIN rows /\ AlikeTo(rows[w].client, l.client)
  /\ l.place # Null => rows[w].place \in {l.place, Null}

HasLine(rows, l) ==
  \E w \in DOMAIN rows : /\ AlikeTo(rows[w].client, l.client)
                         /\ l.place # Null => rows[w].place = l.place

DealSays(deals, d, l) ==
  /\ l.place # Null => deals[d].place = l.place
  /\ l.count # Null => deals[d].count = l.count

HeldElsewhere(rows, w, d) == \E v \in DOMAIN rows \ {w} : rows[v].deal = d

(* The candidates for the row of a line.                                   *)
CandidatesFor(rows, l) ==
  LET ofClient == OfClient(rows, l.client)
      there    == ofClient \cap Placed(rows, l.place)
      nowhere  == ofClient \cap Unplaced(rows)
      alike    == Cleaned(rows, l.client)
  IN IF l.place # Null
       THEN IF there # {} THEN there
            ELSE IF nowhere # {} THEN nowhere
            ELSE alike \cap (Placed(rows, l.place) \cup Unplaced(rows))
       ELSE IF ofClient # {} THEN ofClient ELSE alike

LEMMA CandidatesFit ==
  ASSUME NEW rows, NEW l
  PROVE  /\ CandidatesFor(rows, l) \subseteq DOMAIN rows
         /\ \A w \in CandidatesFor(rows, l) : FitsLine(rows, w, l)
         /\ HasLine(rows, l) => CandidatesFor(rows, l) # {}
         /\ RowOfClient(rows, l) = FirstOf(rows, CandidatesFor(rows, l))
<1>1. \A w \in CandidatesFor(rows, l) : w \in DOMAIN rows /\ FitsLine(rows, w, l)
  BY DEF CandidatesFor, FitsLine, AlikeTo, OfClient, Placed, Unplaced, Cleaned
<1>2. ASSUME HasLine(rows, l) PROVE CandidatesFor(rows, l) # {}
  <2>1. PICK w \in DOMAIN rows : /\ AlikeTo(rows[w].client, l.client)
                                 /\ l.place # Null => rows[w].place = l.place
    BY <1>2 DEF HasLine
  <2>2. CASE rows[w].client = l.client
    <3>1. w \in OfClient(rows, l.client) /\ (l.place # Null => w \in Placed(rows, l.place))
      BY <2>1, <2>2 DEF OfClient, Placed
    <3> QED
      BY <3>1 DEF CandidatesFor
  <2>3. CASE Clean[l.client] # Null /\ Clean[rows[w].client] = Clean[l.client]
    <3>1. w \in Cleaned(rows, l.client) /\ (l.place # Null => w \in Placed(rows, l.place))
      BY <2>1, <2>3 DEF Cleaned, Placed
    <3> QED
      BY <3>1 DEF CandidatesFor
  <2> QED
    BY <2>1, <2>2, <2>3 DEF AlikeTo
<1>3. RowOfClient(rows, l) = FirstOf(rows, CandidatesFor(rows, l))
  BY Zenon DEF RowOfClient, CandidatesFor
<1> QED
  BY <1>1, <1>2, <1>3

(* The row that is found fits, and one is found of what the tracker has.   *)
LEMMA FoundFits ==
  ASSUME NEW rows \in RowTables, NEW l, NEW w, w = RowOfClient(rows, l)
  PROVE  /\ w # Null => FitsLine(rows, w, l)
         /\ HasLine(rows, l) => w # Null
<1> DEFINE S == CandidatesFor(rows, l)
<1>1. /\ S \subseteq DOMAIN rows /\ w = FirstOf(rows, S)
      /\ \A v \in S : FitsLine(rows, v, l)
      /\ HasLine(rows, l) => S # {}
  BY CandidatesFit
<1>2. DOMAIN rows \subseteq Ids
  BY Tables
<1> HIDE DEF S
<1>3. CASE S = {}
  BY <1>1, <1>3 DEF FirstOf
<1>4. CASE S # {}
  <2>1. w \in S
    BY <1>1, <1>2, <1>4, FirstOfFinds
  <2> QED
    BY <1>1, <1>2, <2>1, IdsAre
<1> QED
  BY <1>3, <1>4

(* A line that names no deal resolves to that row and its deal.            *)
LEMMA ResolvedUntitled ==
  ASSUME NEW rows, NEW deals, NEW l, l.title = Null, NEW w, w = RowOfClient(rows, l)
  PROVE  Resolved(rows, deals, l) = {[row |-> w, deal |-> IF w # Null THEN rows[w].deal ELSE Null]}
<1> DEFINE titled == {d \in Booked : deals[d].live /\ l.title # Null /\ Title[d] = l.title}
           RowOf(d) == {v \in DOMAIN rows : d # Null /\ rows[v].deal = d}
           found == RowOfClient(rows, l)
           One(d) == IF RowOf(d) # {} THEN [row |-> CHOOSE v \in RowOf(d) : TRUE, deal |-> d]
                     ELSE [row |-> found, deal |-> IF found # Null THEN rows[found].deal ELSE d]
<1>1. titled = {} /\ RowOf(Null) = {}
  OBVIOUS
<1>2. Resolved(rows, deals, l) = {One(d) : d \in IF titled = {} THEN {Null} ELSE titled}
  BY Zenon DEF Resolved
<1>3. One(Null) = [row |-> w, deal |-> IF w # Null THEN rows[w].deal ELSE Null]
  BY <1>1
<1> HIDE DEF One, titled
<1>4. Resolved(rows, deals, l) = {One(Null)}
  BY <1>1, <1>2
<1> QED
  BY <1>3, <1>4, Zenon

-----------------------------------------------------------------------------
(* The deal of a line is the newest of some.                               *)
LEMMA NewestIs ==
  ASSUME NEW S \in SUBSET Booked, S # {}
  PROVE  (CHOOSE d \in S : \A e \in S : e <= d) \in S
<1>1. PICK n \in Nat : Booked = 1 .. n
  BY ImportAssumption, FS_CardinalityType
<1> DEFINE N == {n - d : d \in S}
<1>2. N \in SUBSET Nat /\ N # {}
  <2>1. \A d \in S : d \in 1 .. n
    BY <1>1
  <2>2. \A d \in S : n - d \in Nat
    BY <1>1, <2>1
  <2> QED
    BY <2>2
<1>3. PICK m \in N : \A k \in N : m <= k
  BY <1>2, Least
<1>4. PICK d \in S : m = n - d
  BY <1>3
<1>5. ASSUME NEW e \in S PROVE e <= d
  <2>1. m <= n - e
    BY <1>3
  <2> QED
    BY <1>1, <1>4, <2>1
<1> QED
  BY <1>5

DealsNamed(deals, l) == {d \in Booked : deals[d].live /\ l.client \in {Title[d], Account[d]}}
DealsFor(deals, l) ==
  LET there   == {d \in DealsNamed(deals, l) : deals[d].place = l.place}
      nowhere == {d \in DealsNamed(deals, l) : deals[d].place = Null}
  IN  IF l.place = Null THEN DealsNamed(deals, l) ELSE IF there # {} THEN there ELSE nowhere

LEMMA DealOfClientIs ==
  ASSUME NEW deals, NEW l, NEW d, d = DealOfClient(deals, l)
  PROVE  /\ d = Null <=> DealsFor(deals, l) = {}
         /\ d # Null => /\ d \in DealsFor(deals, l) /\ d \in DealsNamed(deals, l) /\ d \in Booked
                        /\ l.place # Null => deals[d].place \in {l.place, Null}
         /\ d = IF DealsFor(deals, l) = {} THEN Null
                ELSE CHOOSE e \in DealsFor(deals, l) : \A a \in DealsFor(deals, l) : a <= e
<1>1. d = IF DealsFor(deals, l) = {} THEN Null
          ELSE CHOOSE e \in DealsFor(deals, l) : \A a \in DealsFor(deals, l) : a <= e
  BY Zenon DEF DealOfClient, DealsFor, DealsNamed
<1>2. \A e \in DealsFor(deals, l) : /\ e \in DealsNamed(deals, l) /\ e \in Booked
                                    /\ l.place # Null => deals[e].place \in {l.place, Null}
  BY DEF DealsFor, DealsNamed
<1>3. CASE DealsFor(deals, l) = {}
  BY <1>1, <1>3
<1>4. CASE DealsFor(deals, l) # {}
  <2>1. d \in DealsFor(deals, l)
    BY <1>1, <1>2, <1>4, NewestIs
  <2> QED
    BY <1>1, <1>2, <1>4, <2>1, ImportAssumption
<1> QED
  BY <1>3, <1>4

(* A deal that names the client and says the place is not missed, and what *)
(* was told is found again.                                                *)
LEMMA ToldIsFound ==
  ASSUME NEW deals, NEW l, NEW d \in DealsNamed(deals, l), l.place # Null => deals[d].place = l.place
  PROVE  DealOfClient(deals, l) # Null
<1>1. DealsFor(deals, l) # {}
  BY DEF DealsFor
<1> QED
  BY <1>1, DealOfClientIs

LEMMA FoundAgain ==
  ASSUME NEW deals, NEW l, NEW d, d = DealOfClient(deals, l), d # Null,
         NEW after, after[d].live, l.place # Null => after[d].place = l.place,
         l.place = Null => after[d].place = deals[d].place,
         \A e \in Booked \ {d} : after[e] = deals[e]
  PROVE  DealOfClient(after, l) = d
<1>1. /\ d \in DealsFor(deals, l) /\ d \in DealsNamed(deals, l) /\ d \in Booked
      /\ d = CHOOSE e \in DealsFor(deals, l) : \A a \in DealsFor(deals, l) : a <= e
  BY DealOfClientIs
<1>2. DealsNamed(after, l) = DealsNamed(deals, l)
  BY <1>1 DEF DealsNamed
<1> DEFINE there == {e \in DealsNamed(deals, l) : deals[e].place = l.place}
<1>3. CASE l.place = Null
  <2>1. DealsFor(after, l) = DealsFor(deals, l)
    BY <1>2, <1>3 DEF DealsFor
  <2> QED
    BY <1>1, <2>1, DealOfClientIs
<1>4. CASE l.place # Null /\ there # {}
  <2>1. d \in there
    BY <1>1, <1>4 DEF DealsFor
  <2>2. {e \in DealsNamed(after, l) : after[e].place = l.place} = there
    BY <1>2, <1>4, <2>1 DEF DealsNamed
  <2>3. DealsFor(after, l) = DealsFor(deals, l)
    BY <1>4, <2>2 DEF DealsFor
  <2> QED
    BY <1>1, <2>3, DealOfClientIs
<1>5. CASE l.place # Null /\ there = {}
  <2>1. {e \in DealsNamed(after, l) : after[e].place = l.place} = {d}
    BY <1>1, <1>2, <1>5 DEF DealsNamed
  <2>2. DealsFor(after, l) = {d}
    BY <1>5, <2>1 DEF DealsFor
  <2>3. PICK e : e = DealOfClient(after, l)
    OBVIOUS
  <2>4. e # Null /\ e \in DealsFor(after, l)
    BY <2>2, <2>3, DealOfClientIs
  <2> QED
    BY <2>2, <2>3, <2>4
<1> QED
  BY <1>3, <1>4, <1>5

-----------------------------------------------------------------------------
(* What a call that nobody disturbed knows of a sheet that names no deals: *)
(* of the row it found, of its deal, and of the lines it has brought in.   *)
UntitledLines(c) == \A i \in DOMAIN c.lines : c.lines[i].title = Null
DistinctLines(c) ==
  /\ \A i \in DOMAIN c.lines : Clean[c.lines[i].client] # Null
  /\ \A i, j \in DOMAIN c.lines : Clean[c.lines[i].client] = Clean[c.lines[j].client] => i = j

(* The deal of a row, where it is the one that a line finds, or finds when *)
(* another row holds it.                                                   *)
FindsDeal(c, rows, deals) ==
  /\ c.pc \in {"deal", "write"} /\ c.found # Null => FitsLine(rows, c.found, c.lines[c.at])
  /\ c.pc = "write" => \/ c.found # Null /\ rows[c.found].deal # Null
                       \/ c.deal = DealOfClient(deals, c.lines[c.at])
  /\ c.pc = "push" => \/ rows[c.hit[c.at]].deal = c.deal
                      \/ /\ rows[c.hit[c.at]].deal = Null
                         /\ HeldElsewhere(rows, c.hit[c.at], c.deal)
                         /\ c.deal = DealOfClient(deals, c.lines[c.at])

BroughtIn(c, rows) == \A i \in DOMAIN c.hit : HasLine(rows, c.lines[i])

(* A line that was told to deal d without being linked to it.              *)
ToldAside(c, rows, deals, d, j) ==
  /\ rows[c.hit[j]].deal = Null /\ d \in DealsNamed(deals, c.lines[j])
  /\ c.lines[j].place # Null => deals[d].place = c.lines[j].place

(* The deal of a row says what the line of the row carried, or what a line *)
(* carried that is not linked to it.                                       *)
DealKnows(c, rows, deals, d, i) ==
  d # Null /\ deals[d].live =>
    DealSays(deals, d, c.lines[i]) \/ \E j \in DOMAIN c.hit : ToldAside(c, rows, deals, d, j)

EachOnce(c, rows, deals) ==
  \A i \in DOMAIN c.hit :
    /\ rows[c.hit[i]].client = c.lines[i].client /\ RowSays(rows, c.hit[i], c.lines[i])
    /\ (c.pc = "push" /\ i = c.at) \/ DealKnows(c, rows, deals, rows[c.hit[i]].deal, i)

(* The one line of a sheet told no deal, its row's, or another row's.      *)
OneLine(c, rows, deals) ==
  c.pc \in {"end", "ok"} /\ Len(c.lines) = 1 /\ rows[c.hit[1]].deal = Null =>
    LET d == DealOfClient(deals, c.lines[1])
    IN  d # Null => HeldElsewhere(rows, c.hit[1], d) /\ DealSays(deals, d, c.lines[1])

Remembers(c, rows, deals) ==
  UntitledLines(c) =>
    /\ FindsDeal(c, rows, deals) /\ BroughtIn(c, rows) /\ OneLine(c, rows, deals)
    /\ DistinctLines(c) => EachOnce(c, rows, deals)

(* The row that was shown as unchanged is the one that is written, and it  *)
(* keeps its cells.                                                        *)
SameCells(r, s) == r.client = s.client /\ r.place = s.place /\ r.count = s.count

StaysSame(c, rows) ==
  c.same # Null =>
    /\ c.same \in RowType /\ Len(c.lines) = 1 /\ c.exact /\ ~ diff(c.same, c.lines[1])
    /\ Len(c.hit) = 0 => c.shown[1] \in DOMAIN rows /\ SameCells(rows[c.shown[1]], c.same)
    /\ Len(c.hit) # 0 => c.hit[1] \in DOMAIN rows /\ SameCells(rows[c.hit[1]], c.same)

AgainRight(c) == c.alone => /\ Remembers(c, Over(c.rows, row), Over(c.deals, book))
                            /\ StaysSame(c, Over(c.rows, row))
AgainInv == \A p \in Imports : AgainRight(imp[p])

(* What a call remembers of its lines hangs on the lines and on the rows   *)
(* they went to, not on where the call is.                                 *)
LEMMA SameLines ==
  ASSUME NEW c, NEW x, NEW rows, NEW deals, x.hit = c.hit, x.lines = c.lines
  PROVE  /\ UntitledLines(x) <=> UntitledLines(c)
         /\ DistinctLines(x) <=> DistinctLines(c)
         /\ BroughtIn(x, rows) <=> BroughtIn(c, rows)
         /\ c.pc # "push" /\ EachOnce(c, rows, deals) => EachOnce(x, rows, deals)
<1>1. (UntitledLines(x) <=> UntitledLines(c)) /\ (DistinctLines(x) <=> DistinctLines(c))
  BY DEF UntitledLines, DistinctLines
<1>2. BroughtIn(x, rows) <=> BroughtIn(c, rows)
  BY DEF BroughtIn
<1>3. \A d, i : DealKnows(x, rows, deals, d, i) <=> DealKnows(c, rows, deals, d, i)
  BY DEF DealKnows, ToldAside
<1>4. c.pc # "push" /\ EachOnce(c, rows, deals) => EachOnce(x, rows, deals)
  BY <1>3 DEF EachOnce
<1> QED
  BY <1>1, <1>2, <1>4

-----------------------------------------------------------------------------
(* What is written to a row, and what the transaction sees after.          *)
LEMMA WrittenMore ==
  ASSUME NEW rows \in RowTables, NEW w \in Ids, NEW d \in Booked \cup {Null}, NEW l \in LineType,
         NEW r, r = Written(rows, w, d, l)
  PROVE  /\ r.client = l.client
         /\ r.deal = Null => /\ w \in DOMAIN rows => rows[w].deal = Null
                             /\ d = Null \/ HeldElsewhere(rows, w, d)
<1> DEFINE blank == [client |-> l.client, place |-> Null, count |-> Null, deal |-> Null]
           old == IF w \in DOMAIN rows THEN rows[w] ELSE blank
<1>1. w \in DOMAIN rows => old = rows[w]
  OBVIOUS
<1> HIDE DEF old
<1>2. PICK a : a = IF old.deal # Null \/ d = Null THEN old.deal ELSE Assigned(rows, w, d)
  OBVIOUS
<1>3. r = [client |-> l.client, place |-> Carried(l.place, old.place),
           count |-> Carried(l.count, old.count), deal |-> a]
  BY <1>2 DEF Written, old
<1>4. r.client = l.client /\ r.deal = a
  BY <1>3
<1>5. a = Null => old.deal = Null /\ (d = Null \/ HeldElsewhere(rows, w, d))
  BY <1>2 DEF Assigned, HeldElsewhere
<1> QED
  BY <1>1, <1>4, <1>5

SeenAfter(c, seen, w, l, after) ==
  /\ DOMAIN after = DOMAIN seen \cup {w}
  /\ \A v \in DOMAIN seen \ {w} : after[v] = seen[v]
  /\ after[w].client = l.client /\ RowSays(after, w, l)
  /\ w \in DOMAIN seen =>
       /\ l.place = Null => after[w].place = seen[w].place
       /\ l.count = Null => after[w].count = seen[w].count
       /\ seen[w].deal # Null => after[w].deal = seen[w].deal
  /\ after[w].deal = Null => c.deal = Null \/ HeldElsewhere(seen, w, c.deal)
  /\ after[w].deal # Null => (w \in DOMAIN seen /\ after[w].deal = seen[w].deal) \/ after[w].deal = c.deal

LEMMA WroteSeen ==
  ASSUME ImportInv, NEW p \in Imports, NEW c, c = imp[p], NEW x, NEW w, WritesTo(p, c, x, w)
  PROVE  SeenAfter(c, RowsSeen(p), w, c.lines[c.at], Over(x.rows, row))
<1> DEFINE seen  == RowsSeen(p)
           after == Over(x.rows, row)
           l     == c.lines[c.at]
<1>1. PICK r : r = Written(RowsSeen(p), w, c.deal, Line(p))
  OBVIOUS
<1>2. c.pc \in Running /\ w \in Ids /\ x.rows = Put(c.rows, w, r)
  BY <1>1 DEF WritesTo, Running
<1>3. /\ RowsSeen(p) \in RowTables /\ c.deal \in Booked \cup {Null} /\ Line(p) = c.lines[c.at]
      /\ Line(p) \in LineType /\ RowsSeen(p) = Over(c.rows, row)
  BY <1>2, CallKnows, CallsAre
<1>4. /\ DOMAIN x.rows = DOMAIN c.rows \cup {w} /\ x.rows[w] = r
      /\ \A v \in DOMAIN c.rows \ {w} : x.rows[v] = c.rows[v]
  BY <1>2 DEF Put
<1> HIDE DEF seen, after, l
<1>5. /\ DOMAIN after = DOMAIN seen \cup {w} /\ after[w] = r
      /\ \A v \in DOMAIN seen \ {w} : after[v] = seen[v]
  <2>1. /\ DOMAIN seen = DOMAIN c.rows \cup DOMAIN row
        /\ \A v \in DOMAIN c.rows : seen[v] = c.rows[v]
        /\ \A v \in DOMAIN row \ DOMAIN c.rows : seen[v] = row[v]
    BY <1>3 DEF Over, seen
  <2>2. /\ DOMAIN after = DOMAIN x.rows \cup DOMAIN row
        /\ \A v \in DOMAIN x.rows : after[v] = x.rows[v]
        /\ \A v \in DOMAIN row \ DOMAIN x.rows : after[v] = row[v]
    BY DEF Over, after
  <2> QED
    BY <1>4, <2>1, <2>2
<1>6. PICK a \in RowTables : a = seen
  BY <1>3 DEF seen
<1>7. PICK d \in Booked \cup {Null} : d = c.deal
  BY <1>3
<1>8. PICK m \in LineType : m = l
  BY <1>3 DEF l
<1>9. r = Written(a, w, d, m)
  BY <1>1, <1>3, <1>6, <1>7, <1>8 DEF seen, l
<1>10. /\ r.client = m.client
       /\ r.deal = Null => /\ w \in DOMAIN a => a[w].deal = Null
                           /\ d = Null \/ HeldElsewhere(a, w, d)
  BY <1>2, <1>9, WrittenMore
<1>11. /\ m.place # Null => r.place = m.place
       /\ m.count # Null => r.count = m.count
       /\ w \in DOMAIN a =>
            /\ m.place = Null => r.place = a[w].place
            /\ m.count = Null => r.count = a[w].count
            /\ a[w].deal # Null => r.deal = a[w].deal
       /\ r.deal = Null \/ (w \in DOMAIN a /\ r.deal = a[w].deal) \/ r.deal = d
  BY <1>2, <1>9, WrittenRow
<1>12. SeenAfter(c, seen, w, l, after)
  BY <1>5, <1>6, <1>7, <1>8, <1>10, <1>11 DEF SeenAfter, RowSays
<1> QED
  BY <1>12 DEF seen, l, after

(* A row that a line was written to still says where another one is.       *)
LEMMA LineStays ==
  ASSUME NEW seen, NEW w, NEW after, NEW l, NEW m,
         DOMAIN after = DOMAIN seen \cup {w}, \A v \in DOMAIN seen \ {w} : after[v] = seen[v],
         after[w].client = l.client, l.place # Null => after[w].place = l.place,
         w \in DOMAIN seen => FitsLine(seen, w, l) /\ (l.place = Null => after[w].place = seen[w].place),
         HasLine(seen, m)
  PROVE  HasLine(after, m)
<1>1. PICK v \in DOMAIN seen : /\ AlikeTo(seen[v].client, m.client)
                               /\ m.place # Null => seen[v].place = m.place
  BY DEF HasLine
<1>2. CASE v # w
  BY <1>1, <1>2 DEF HasLine
<1>3. CASE v = w
  <2>1. AlikeTo(seen[w].client, l.client) /\ (l.place # Null => seen[w].place \in {l.place, Null})
    BY <1>1, <1>3 DEF FitsLine
  <2>2. AlikeTo(after[w].client, m.client)
    BY <1>1, <1>3, <2>1 DEF AlikeTo
  <2>3. m.place # Null => after[w].place = m.place
    BY <1>1, <1>3, <2>1
  <2> QED
    BY <2>2, <2>3 DEF HasLine
<1> QED
  BY <1>2, <1>3

(* A line was written to its row.                                          *)
LEMMA WroteRemembers ==
  ASSUME ImportInv, NEW p \in Imports, NEW c, c = imp[p], NEW x, NEW w, WritesTo(p, c, x, w), c.alone,
         NEW deals, Remembers(c, RowsSeen(p), deals)
  PROVE  Remembers(x, Over(x.rows, row), deals)
<1>a. PICK seen : seen = RowsSeen(p)
  OBVIOUS
<1>b. PICK after : after = Over(x.rows, row)
  OBVIOUS
<1>c. Remembers(c, seen, deals)
  BY <1>a
<1>d. SUFFICES Remembers(x, after, deals)
  BY <1>b
<1>1. /\ c.pc = "write" /\ w \in Ids /\ x.lines = c.lines
      /\ x.pc \in {"push", "end", "row"} /\ c.hit \in Seq(Ids) /\ c.lines \in Sheets
      /\ x.pc = "push" => x.deal = c.deal /\ x.deal # Null /\ x.at = c.at
      /\ x.pc = "end" => x.at = c.at /\ c.at = Len(c.lines)
      /\ x.pc # "push" => c.deal = Null
      /\ (c.found = Null /\ w \notin DOMAIN seen) \/ (c.found = w /\ w \in DOMAIN seen)
      /\ c.found # Null => c.found \in DOMAIN seen /\ seen[c.found].deal \in {Null, c.deal}
  <2>1. c.pc = "write" /\ c.pc \in Running /\ InPlace(x) /\ x.lines = c.lines
    BY DEF WritesTo, Running
  <2>2. c \in ImportType /\ CallRight(c) /\ RowsSeen(p) = Over(c.rows, row) /\ c.lines \in Sheets
    BY <2>1, CallKnows
  <2>3. c.hit \in Seq(Ids)
    BY <2>2, CallsAre
  <2>4. c.found # Null => c.found \in DOMAIN seen /\ seen[c.found].deal \in {Null, c.deal}
    BY <1>a, <2>1, <2>2 DEF CallRight, FoundRight
  <2> QED
    BY <1>a, <2>1, <2>2, <2>3, <2>4 DEF WritesTo, InPlace
<1>2. PICK k \in Nat : k = c.at /\ k = Len(c.hit) + 1
  BY DEF WritesTo
<1>3. PICK l : l = c.lines[k]
  OBVIOUS
<1>4. /\ DOMAIN c.hit = 1 .. k - 1 /\ DOMAIN x.hit = 1 .. k /\ x.hit[k] = w
      /\ \A i \in 1 .. k - 1 : x.hit[i] = c.hit[i]
  <2>1. x.hit = Append(c.hit, w)
    BY DEF WritesTo
  <2> QED
    BY <1>1, <1>2, <2>1, HitsAre, HitAppended
<1>5. /\ DOMAIN after = DOMAIN seen \cup {w}
      /\ \A v \in DOMAIN seen \ {w} : after[v] = seen[v]
      /\ after[w].client = l.client /\ RowSays(after, w, l)
      /\ w \in DOMAIN seen =>
           /\ l.place = Null => after[w].place = seen[w].place
           /\ l.count = Null => after[w].count = seen[w].count
           /\ seen[w].deal # Null => after[w].deal = seen[w].deal
      /\ after[w].deal = Null => c.deal = Null \/ HeldElsewhere(seen, w, c.deal)
      /\ after[w].deal # Null => (w \in DOMAIN seen /\ after[w].deal = seen[w].deal) \/ after[w].deal = c.deal
  <2>1. SeenAfter(c, seen, w, l, after)
    BY <1>a, <1>b, <1>2, <1>3, WroteSeen
  <2> QED
    BY <2>1 DEF SeenAfter
<1>6. after[w].deal \in {Null, c.deal}
  BY <1>1, <1>5, IdsAre
<1> SUFFICES ASSUME UntitledLines(c)
             PROVE  /\ FindsDeal(x, after, deals) /\ BroughtIn(x, after) /\ OneLine(x, after, deals)
                    /\ DistinctLines(c) => EachOnce(x, after, deals)
  BY <1>1 DEF Remembers, UntitledLines, DistinctLines
<1>7. FindsDeal(c, seen, deals) /\ BroughtIn(c, seen) /\ (DistinctLines(c) => EachOnce(c, seen, deals))
  BY <1>c DEF Remembers
<1>8. w \in DOMAIN seen => FitsLine(seen, w, l)
  <2> SUFFICES ASSUME w \in DOMAIN seen PROVE FitsLine(seen, w, l)
    OBVIOUS
  <2>1. c.found = w /\ c.found # Null
    BY <1>1, IdsAre
  <2>2. c.pc = "write" /\ l = c.lines[c.at]
    BY <1>1, <1>2, <1>3, SMTT(60)
  <2> QED
    BY <1>7, <2>1, <2>2 DEF FindsDeal
<1>9. after[w].deal = Null => c.deal = DealOfClient(deals, l)
  BY <1>1, <1>2, <1>3, <1>5, <1>7, SMTT(60) DEF FindsDeal
<1>10. FindsDeal(x, after, deals)
  <2>1. HeldElsewhere(seen, w, c.deal) => HeldElsewhere(after, w, c.deal)
    BY <1>5 DEF HeldElsewhere
  <2> QED
    <3>1. x.pc \notin {"deal", "write"}
      BY <1>1
    <3>2. ASSUME x.pc = "push"
          PROVE  \/ after[x.hit[x.at]].deal = x.deal
                 \/ /\ after[x.hit[x.at]].deal = Null /\ HeldElsewhere(after, x.hit[x.at], x.deal)
                    /\ x.deal = DealOfClient(deals, x.lines[x.at])
      <4>1. x.hit[x.at] = w /\ x.deal = c.deal /\ x.deal # Null /\ x.lines[x.at] = l
        BY <1>1, <1>2, <1>3, <1>4, <3>2
      <4> QED
        BY <1>5, <1>6, <1>9, <2>1, <4>1, SMTT(60)
    <3> QED
      BY <3>1, <3>2 DEF FindsDeal
<1>11. BroughtIn(x, after)
  <2> SUFFICES ASSUME NEW i \in 1 .. k PROVE HasLine(after, c.lines[i])
    BY <1>1, <1>4, SMTT(60) DEF BroughtIn
  <2>1. CASE i = k
    BY <1>3, <1>5, <2>1 DEF HasLine, RowSays, AlikeTo
  <2>2. CASE i # k
    <3>1. HasLine(seen, c.lines[i])
      BY <1>2, <1>4, <1>7, <2>2 DEF BroughtIn
    <3>2. l.place # Null => after[w].place = l.place
      BY <1>5 DEF RowSays
    <3> QED
      BY <1>5, <1>8, <3>1, <3>2, LineStays
  <2> QED
    BY <2>1, <2>2
<1>12. OneLine(x, after, deals)
  BY <1>1, <1>2, <1>3, <1>4, <1>9 DEF OneLine
<1>13. ASSUME DistinctLines(c) PROVE EachOnce(x, after, deals)
  <2>1. EachOnce(c, seen, deals)
    BY <1>7, <1>13
  <2>2. ASSUME NEW i \in 1 .. k - 1
        PROVE  /\ x.hit[i] = c.hit[i] /\ c.hit[i] # w /\ after[c.hit[i]] = seen[c.hit[i]]
               /\ c.hit[i] \in DOMAIN seen
    <3>1. seen[c.hit[i]].client = c.lines[i].client /\ c.hit[i] \in DOMAIN seen
      BY <1>4, <2>1, SMTT(60) DEF EachOnce, RowSays
    <3>2. c.hit[i] # w
      <4>1. i \in DOMAIN c.lines /\ k \in DOMAIN c.lines /\ i # k
        <5>1. k \in DOMAIN c.lines /\ DOMAIN c.lines = 1 .. Len(c.lines) /\ Len(c.lines) \in Nat
          <6>1. c.pc \in Running
            BY <1>1 DEF Running
          <6>2. c.at \in 1 .. Len(c.lines)
            BY <6>1, CallKnows
          <6> QED
            BY <1>1, <1>2, <6>2, SheetsAre
        <5> QED
          BY <1>2, <5>1
      <4>2. SUFFICES ASSUME c.hit[i] = w PROVE FALSE
        OBVIOUS
      <4>3. AlikeTo(c.lines[i].client, c.lines[k].client)
        BY <1>3, <1>8, <3>1, <4>2 DEF FitsLine
      <4> QED
        BY <1>13, <4>1, <4>3 DEF DistinctLines, AlikeTo
    <3> QED
      BY <1>4, <1>5, <3>1, <3>2, SMTT(60)
  <2>3. ASSUME NEW i \in 1 .. k - 1
        PROVE  /\ after[x.hit[i]].client = x.lines[i].client /\ RowSays(after, x.hit[i], x.lines[i])
               /\ DealKnows(x, after, deals, after[x.hit[i]].deal, i)
    <3>1. /\ seen[c.hit[i]].client = c.lines[i].client /\ RowSays(seen, c.hit[i], c.lines[i])
          /\ DealKnows(c, seen, deals, seen[c.hit[i]].deal, i)
      BY <1>1, <1>4, <2>1 DEF EachOnce
    <3>2. \A d, j : j \in DOMAIN c.hit /\ ToldAside(c, seen, deals, d, j) =>
                      j \in DOMAIN x.hit /\ ToldAside(x, after, deals, d, j)
      <4> SUFFICES ASSUME NEW d, NEW j \in DOMAIN c.hit, ToldAside(c, seen, deals, d, j)
                   PROVE  j \in DOMAIN x.hit /\ ToldAside(x, after, deals, d, j)
        OBVIOUS
      <4>1. j \in 1 .. k - 1 /\ j \in DOMAIN x.hit
        BY <1>2, <1>4
      <4>2. x.hit[j] = c.hit[j] /\ after[x.hit[j]] = seen[c.hit[j]] /\ x.lines = c.lines
        BY <1>1, <2>2, <4>1
      <4> QED
        BY <4>1, <4>2 DEF ToldAside
    <3>3. RowSays(after, c.hit[i], c.lines[i])
      BY <1>5, <2>2, <3>1 DEF RowSays
    <3> QED
      BY <1>1, <2>2, <3>1, <3>2, <3>3, ZenonT(60) DEF DealKnows
  <2>4. /\ after[x.hit[k]].client = x.lines[k].client /\ RowSays(after, x.hit[k], x.lines[k])
        /\ (x.pc = "push" /\ k = x.at) \/ DealKnows(x, after, deals, after[x.hit[k]].deal, k)
    BY <1>1, <1>2, <1>3, <1>4, <1>5, <1>6 DEF DealKnows
  <2> SUFFICES ASSUME NEW i \in 1 .. k
               PROVE  /\ after[x.hit[i]].client = x.lines[i].client /\ RowSays(after, x.hit[i], x.lines[i])
                      /\ (x.pc = "push" /\ i = x.at) \/ DealKnows(x, after, deals, after[x.hit[i]].deal, i)
    BY <1>4 DEF EachOnce
  <2>5. CASE i = k
    BY <2>4, <2>5
  <2>6. CASE i # k
    BY <1>2, <2>3, <2>6
  <2> QED
    BY <2>5, <2>6
<1> QED
  BY <1>10, <1>11, <1>12, <1>13

LEMMA WroteSame ==
  ASSUME ImportInv, NEW p \in Imports, NEW c, c = imp[p], NEW x, NEW w, WritesTo(p, c, x, w), c.alone,
         StaysSame(c, RowsSeen(p))
  PROVE  StaysSame(x, Over(x.rows, row))
<1>1. PICK seen : seen = RowsSeen(p)
  OBVIOUS
<1>2. PICK after : after = Over(x.rows, row)
  OBVIOUS
<1>3. SUFFICES ASSUME c.same # Null PROVE StaysSame(x, after)
  BY <1>2 DEF WritesTo, StaysSame
<1>4. /\ c.same \in RowType /\ Len(c.lines) = 1 /\ c.exact /\ ~ diff(c.same, c.lines[1])
      /\ Len(c.hit) = 0 => c.shown[1] \in DOMAIN seen /\ SameCells(seen[c.shown[1]], c.same)
  BY <1>1, <1>3 DEF StaysSame
<1>5. /\ c.pc = "write" /\ c.pc \in Running /\ w \in Ids /\ x.lines = c.lines /\ x.same = c.same /\ (x.exact <=> c.exact)
      /\ Len(c.hit) \in Nat /\ Len(c.hit) + 1 = c.at /\ (c.found = Null \/ c.found = w)
      /\ x.hit = Append(c.hit, w)
  BY DEF WritesTo, Running
<1>6. CallRight(c) /\ c.at \in 1 .. Len(c.lines) /\ c.hit \in Seq(Ids) /\ c.lines \in Sheets
  BY <1>5, CallKnows, CallsAre
<1>7. c.at = 1 /\ Len(c.hit) = 0
  BY <1>4, <1>5, <1>6
<1>8. c.found = c.shown[1] /\ c.found = w
  BY <1>4, <1>5, <1>6, <1>7 DEF CallRight, ExactRight
<1>9. x.hit[1] = w /\ Len(x.hit) = 1
  BY <1>5, <1>6, <1>7, HitAppended
<1>10. PICK l : l = c.lines[1]
  OBVIOUS
<1>11. SeenAfter(c, seen, w, l, after)
  BY <1>1, <1>2, <1>7, <1>10, WroteSeen
<1>12. w \in DOMAIN after /\ SameCells(after[w], c.same)
  BY <1>4, <1>7, <1>8, <1>10, <1>11 DEF SeenAfter, RowSays, SameCells, diff
<1> QED
  BY <1>4, <1>5, <1>9, <1>12 DEF StaysSame

LEMMA WroteAgain ==
  ASSUME ImportInv, NEW p \in Imports, NEW c, c = imp[p], NEW x, NEW w, WritesTo(p, c, x, w), AgainRight(c)
  PROVE  AgainRight(x)
<1>1. SUFFICES ASSUME x.alone
               PROVE  Remembers(x, Over(x.rows, row), Over(x.deals, book)) /\ StaysSame(x, Over(x.rows, row))
  BY DEF AgainRight
<1>2. c.alone /\ x.deals = c.deals
  BY <1>1 DEF WritesTo
<1>3. PICK seen : seen = RowsSeen(p)
  OBVIOUS
<1>4. PICK after : after = Over(x.rows, row)
  OBVIOUS
<1>5. PICK deals : deals = Over(c.deals, book)
  OBVIOUS
<1>6. seen = Over(c.rows, row)
  BY <1>3 DEF RowsSeen
<1>7. Remembers(c, seen, deals) /\ StaysSame(c, seen)
  BY <1>2, <1>5, <1>6 DEF AgainRight
<1>8. Remembers(x, after, deals)
  BY <1>2, <1>3, <1>4, <1>7, WroteRemembers
<1>9. StaysSame(x, Over(x.rows, row))
  BY <1>2, <1>3, <1>7, WroteSame
<1> QED
  BY <1>2, <1>4, <1>5, <1>8, <1>9

(* A line was told to its deal.                                            *)
LEMMA ToldRemembers ==
  ASSUME ImportInv, NEW p \in Imports, NEW c, c = imp[p], NEW x, TellsDeal(p, c, x),
         Remembers(c, RowsSeen(p), DealsSeen(p))
  PROVE  Remembers(x, RowsSeen(p), Over(x.deals, book))
<1>a. PICK rows : rows = RowsSeen(p)
  OBVIOUS
<1>b. PICK deals : deals = DealsSeen(p)
  OBVIOUS
<1>c. PICK after : after = Over(x.deals, book)
  OBVIOUS
<1>d. Remembers(c, rows, deals)
  BY <1>a, <1>b
<1>e. SUFFICES Remembers(x, rows, after)
  BY <1>a, <1>c
<1>1. PICK d : d = c.deal
  OBVIOUS
<1>2. PICK k : k = c.at
  OBVIOUS
<1>3. /\ c.pc = "push" /\ d \in Booked /\ d # Null /\ Len(c.hit) = k
      /\ x.hit = c.hit /\ x.lines = c.lines /\ x.pc \in {"row", "end"}
      /\ x.pc = "end" => k = Len(c.lines) /\ x.at = k
  BY <1>1, <1>2 DEF TellsDeal
<1>4. c.pc \in Running /\ c \in ImportType
  BY <1>3, CallKnows DEF Running
<1>5. PICK l \in LineType : l = c.lines[k]
  BY <1>2, <1>4, CallKnows
<1>6. /\ deals \in [Booked -> DealType] /\ deals = Over(c.deals, book) /\ DOMAIN c.deals \subseteq Booked
      /\ k \in 1 .. Len(c.lines) /\ Len(c.lines) \in Nat /\ c.hit \in Seq(Ids) /\ DOMAIN c.lines = 1 .. Len(c.lines)
      /\ book \in [Booked -> DealType]
  BY <1>b, <1>2, <1>4, CallKnows, CallsAre, SheetsAre
<1>7. DOMAIN c.hit = 1 .. k /\ k \in Nat
  BY <1>3, <1>6, HitsAre
<1>8. PICK r : r = Pushed(deals[d], l)
  OBVIOUS
<1>9. x.deals = Put(c.deals, d, r)
  BY <1>b, <1>1, <1>2, <1>5, <1>8, SMTT(60) DEF TellsDeal
<1>10. after[d] = r /\ \A e \in Booked \ {d} : after[e] = deals[e]
  BY <1>c, <1>3, <1>6, <1>9 DEF Over, Put
<1>11. /\ r.live = deals[d].live
       /\ r.live /\ l.place # Null => r.place = l.place
       /\ r.live /\ l.count # Null => r.count = l.count
       /\ l.place = Null => r.place = deals[d].place
  <2>1. deals[d] \in DealType
    BY <1>3, <1>6
  <2>2. l.place = Null => r.place = deals[d].place
    BY <1>8, <2>1 DEF Pushed, Carried, DealType
  <2> QED
    BY <1>8, <2>1, <2>2, PushedDeal
<1>12. \A m : DealsNamed(after, m) = DealsNamed(deals, m)
  BY <1>3, <1>10, <1>11 DEF DealsNamed
<1>13. r.live => DealSays(after, d, l)
  BY <1>10, <1>11, SMTT(60) DEF DealSays
<1> SUFFICES ASSUME UntitledLines(c)
             PROVE  /\ FindsDeal(x, rows, after) /\ BroughtIn(x, rows) /\ OneLine(x, rows, after)
                    /\ DistinctLines(c) => EachOnce(x, rows, after)
  BY <1>3, SMTT(30) DEF Remembers, UntitledLines, DistinctLines
<1>14. FindsDeal(c, rows, deals) /\ BroughtIn(c, rows) /\ (DistinctLines(c) => EachOnce(c, rows, deals))
  BY <1>d DEF Remembers
<1>15. \/ rows[c.hit[k]].deal = d
       \/ rows[c.hit[k]].deal = Null /\ HeldElsewhere(rows, c.hit[k], d) /\ d = DealOfClient(deals, l)
  BY <1>1, <1>2, <1>3, <1>5, <1>14, SMTT(60) DEF FindsDeal
<1>16. FindsDeal(x, rows, after) /\ BroughtIn(x, rows)
  BY <1>3, <1>14 DEF FindsDeal, BroughtIn
<1>17. OneLine(x, rows, after)
  <2> SUFFICES ASSUME x.pc = "end", Len(c.lines) = 1, rows[c.hit[1]].deal = Null, NEW e, e = DealOfClient(after, l), e # Null
               PROVE  HeldElsewhere(rows, c.hit[1], e) /\ DealSays(after, e, l)
    <3>1. Len(c.lines) = 1 => l = c.lines[1]
      BY <1>5, <1>6
    <3> QED
      BY <1>3, <3>1 DEF OneLine
  <2>1. k = 1
    BY <1>6
  <2>2. HeldElsewhere(rows, c.hit[1], d) /\ d = DealOfClient(deals, l)
    BY <1>3, <1>15, <2>1
  <2>3. d \in DealsNamed(deals, l)
    BY <1>3, <2>2, DealOfClientIs
  <2>4. deals[d].live
    BY <2>3 DEF DealsNamed
  <2>5. DealOfClient(after, l) = d
    <3>1. /\ after[d].live /\ (l.place # Null => after[d].place = l.place)
          /\ l.place = Null => after[d].place = deals[d].place
          /\ \A a \in Booked \ {d} : after[a] = deals[a]
      BY <1>10, <1>11, <2>4, SMTT(60)
    <3> QED
      BY <1>3, <2>2, <3>1, FoundAgain
  <2> QED
    BY <1>11, <1>13, <2>2, <2>4, <2>5
<1>18. ASSUME DistinctLines(c) PROVE EachOnce(x, rows, after)
  <2>1. ASSUME NEW i \in 1 .. k
        PROVE  rows[c.hit[i]].client = c.lines[i].client /\ RowSays(rows, c.hit[i], c.lines[i])
    BY <1>7, <1>14, <1>18, SMTT(60) DEF EachOnce
  <2>2. DealKnows(x, rows, after, rows[c.hit[k]].deal, k)
    BY <1>3, <1>5, <1>10, <1>13, <1>15 DEF DealKnows
  <2>3. ASSUME NEW i \in 1 .. k, i # k PROVE DealKnows(x, rows, after, rows[c.hit[i]].deal, i)
    <3>1. PICK e : e = rows[c.hit[i]].deal
      OBVIOUS
    <3>2. DealKnows(c, rows, deals, e, i)
      BY <1>2, <1>7, <1>14, <1>18, <2>3, <3>1, SMTT(60) DEF EachOnce
    <3>3. SUFFICES ASSUME e # Null, after[e].live PROVE DealKnows(x, rows, after, e, i)
      BY <3>1 DEF DealKnows
    <3>4. CASE e = d
      <4>1. c.hit[i] # c.hit[k]
        <5>1. i \in DOMAIN c.lines /\ k \in DOMAIN c.lines
          BY <1>6, <1>7
        <5>2. c.lines[i].client # c.lines[k].client
          BY <1>18, <2>3, <5>1 DEF DistinctLines
        <5>3. rows[c.hit[i]].client = c.lines[i].client /\ rows[c.hit[k]].client = c.lines[k].client
          BY <1>6, <2>1, <2>3
        <5> QED
          BY <5>2, <5>3
      <4>2. rows[c.hit[k]].deal = Null /\ d = DealOfClient(deals, l)
        <5>1. c.hit[i] \in DOMAIN rows /\ c.hit[k] \in DOMAIN rows
          BY <1>6, <2>1, <2>3, SMTT(30) DEF RowSays
        <5>2. \A v, w \in DOMAIN rows : rows[v].deal # Null /\ rows[w].deal = rows[v].deal => w = v
          BY <1>a, <1>4, SeenRows
        <5>3. rows[c.hit[k]].deal # d
          BY <3>1, <3>3, <3>4, <4>1, <5>1, <5>2
        <5> QED
          BY <1>15, <5>3
      <4>3. d \in DealsNamed(after, l)
        BY <1>3, <1>12, <4>2, DealOfClientIs, SMTT(60)
      <4>4. ToldAside(x, rows, after, d, k)
        BY <1>3, <1>5, <1>10, <1>11, <3>3, <3>4, <4>2, <4>3 DEF ToldAside
      <4> QED
        BY <1>3, <1>7, <3>4, <4>4 DEF DealKnows
    <3>5. CASE e # d
      <4>1. e \in Booked => after[e] = deals[e]
        BY <1>10, <3>5
      <4>2. e \in Booked
        <5>1. rows \in RowTables /\ c.hit[i] \in DOMAIN rows
          BY <1>a, <2>1, <2>3, CallKnows DEF RowSays
        <5> QED
          BY <3>1, <3>3, <5>1, Tables DEF RowType
      <4>3. deals[e].live
        BY <3>3, <4>1, <4>2
      <4>4. CASE DealSays(deals, e, c.lines[i])
        BY <1>3, <4>1, <4>2, <4>4 DEF DealKnows, DealSays
      <4>5. ASSUME NEW j \in DOMAIN c.hit, ToldAside(c, rows, deals, e, j) PROVE ToldAside(x, rows, after, e, j)
        BY <1>3, <1>12, <4>1, <4>2, <4>5 DEF ToldAside
      <4> QED
        BY <1>3, <3>2, <3>3, <4>3, <4>4, <4>5 DEF DealKnows
    <3> QED
      BY <3>4, <3>5
  <2> QED
    BY <1>3, <1>7, <2>1, <2>2, <2>3 DEF EachOnce
<1> QED
  BY <1>16, <1>17, <1>18

LEMMA ToldAgain ==
  ASSUME ImportInv, NEW p \in Imports, NEW c, c = imp[p], NEW x, TellsDeal(p, c, x), AgainRight(c)
  PROVE  AgainRight(x)
<1>1. SUFFICES ASSUME x.alone
               PROVE  Remembers(x, Over(x.rows, row), Over(x.deals, book)) /\ StaysSame(x, Over(x.rows, row))
  BY DEF AgainRight
<1>2. c.alone /\ x.rows = c.rows
  BY <1>1 DEF TellsDeal
<1>3. RowsSeen(p) = Over(c.rows, row) /\ DealsSeen(p) = Over(c.deals, book)
  BY DEF RowsSeen, DealsSeen
<1>4. Remembers(c, RowsSeen(p), DealsSeen(p)) /\ StaysSame(c, RowsSeen(p))
  BY <1>2, <1>3 DEF AgainRight
<1>5. Remembers(x, RowsSeen(p), Over(x.deals, book))
  BY <1>4, ToldRemembers
<1>6. StaysSame(x, RowsSeen(p))
  BY <1>4, SMTT(60) DEF TellsDeal, StaysSame
<1> QED
  BY <1>2, <1>3, <1>5, <1>6

-----------------------------------------------------------------------------
(* The steps.                                                              *)
LEMMA AgainStays ==
  ASSUME NEW z, row' = row, book' = book, AgainRight(z) PROVE AgainRight(z)'
BY DEF AgainRight, Remembers, StaysSame, FindsDeal, BroughtIn, OneLine, EachOnce, DealKnows, ToldAside

LEMMA AgainOneCall ==
  ASSUME ImportInv, AgainInv, NEW p \in Imports, NEW x, imp' = [imp EXCEPT ![p] = x],
         row' = row, book' = book, AgainRight(x)
  PROVE  AgainInv'
<1>1. imp \in [Imports -> ImportType]
  BY DEF ImportInv, ImportTypes
<1>2. ASSUME NEW q \in Imports PROVE AgainRight(imp[q])'
  <2>1. CASE q = p
    <3>1. imp'[q] = x
      BY <1>1, <2>1
    <3> QED
      BY <3>1, AgainStays
  <2>2. CASE q # p
    <3>1. PICK z : z = imp[q]
      OBVIOUS
    <3>2. imp'[q] = z
      BY <1>1, <2>2, <3>1
    <3>3. AgainRight(z)
      BY <3>1 DEF AgainInv
    <3> QED
      BY <3>2, <3>3, AgainStays
  <2> QED
    BY <2>1, <2>2
<1> QED
  BY <1>2 DEF AgainInv

LEMMA PreviewAgain == ASSUME ImportInv, AgainInv, NEW p \in Imports, Preview(p) PROVE AgainInv'
<1>1. PICK x \in ImportType :
        /\ imp' = [imp EXCEPT ![p] = x] /\ row' = row /\ book' = book
        /\ x.pc = "shown" /\ Len(x.hit) = 0 /\ DOMAIN x.rows = {}
        /\ x.exact => x.shown[1] \in DOMAIN row
        /\ x.same # Null => /\ x.exact /\ Len(x.lines) = 1 /\ x.same = row[x.shown[1]]
                            /\ ~ diff(x.same, x.lines[1])
  BY Previewed
<1>2. DOMAIN x.hit = {}
  BY <1>1, CallsAre, HitsAre
<1>3. Remembers(x, Over(x.rows, row), Over(x.deals, book))
  BY <1>1, <1>2 DEF Remembers, FindsDeal, BroughtIn, OneLine, EachOnce
<1>4. StaysSame(x, Over(x.rows, row))
  <2>1. PICK rows : rows = Over(x.rows, row)
    OBVIOUS
  <2>2. DOMAIN rows = DOMAIN row /\ \A w \in DOMAIN row : rows[w] = row[w]
    BY <1>1, <2>1 DEF Over
  <2>3. x.same \in RowType \cup {Null}
    BY DEF ImportType
  <2>4. StaysSame(x, rows)
    BY <1>1, <2>2, <2>3 DEF StaysSame, SameCells
  <2> QED
    BY <2>1, <2>4
<1>5. AgainRight(x)
  BY <1>3, <1>4 DEF AgainRight
<1> QED
  BY <1>1, <1>5, AgainOneCall

LEMMA ConfirmAgain == ASSUME ImportInv, AgainInv, NEW p \in Imports, Confirm(p) PROVE AgainInv'
<1>1. PICK c : c = imp[p]
  OBVIOUS
<1>2. /\ c \in ImportType /\ CallRight(c) /\ c.pc = "shown" /\ row' = row /\ book' = book /\ born \in Nat
      /\ AgainRight(c)
  BY <1>1, CallKnows DEF Confirm, Stands, AgainInv
<1>3. PICK x : x = [c EXCEPT !.pc = "row", !.at = 1, !.birth = born + 1]
  OBVIOUS
<1>4. imp' = [imp EXCEPT ![p] = x]
  BY <1>1, <1>3 DEF Confirm, Proceed
<1>5. /\ x.pc = "row" /\ GoesOn(x, [c EXCEPT !.birth = born + 1])
      /\ x.hit = c.hit /\ x.rows = c.rows /\ x.deals = c.deals /\ x.lines = c.lines
      /\ x.same = c.same /\ x.shown = c.shown /\ (x.exact <=> c.exact) /\ (x.alone <=> c.alone)
  BY <1>2, <1>3 DEF ImportType, GoesOn
<1>6. DOMAIN c.hit = {}
  <2>1. Len(c.hit) = 0 /\ c.hit \in Seq(Ids)
    BY <1>2, CallsAre DEF CallRight
  <2> QED
    BY <2>1, HitsAre
<1>7. Remembers(x, Over(x.rows, row), Over(x.deals, book))
  BY <1>5, <1>6 DEF Remembers, FindsDeal, BroughtIn, OneLine, EachOnce
<1>8. c.alone => StaysSame(x, Over(x.rows, row))
  BY <1>2, <1>5 DEF AgainRight, StaysSame
<1>9. AgainRight(x)
  BY <1>5, <1>7, <1>8 DEF AgainRight
<1> QED
  BY <1>2, <1>4, <1>9, AgainOneCall

LEMMA ResolveRowAgain == ASSUME ImportInv, AgainInv, NEW p \in Imports, ResolveRow(p) PROVE AgainInv'
<1>1. PICK c : c = imp[p]
  OBVIOUS
<1>2. PICK r \in Resolved(RowsSeen(p), DealsSeen(p), Line(p)) :
        imp' = [imp EXCEPT ![p] = [c EXCEPT !.pc = IF r.deal = Null THEN "deal" ELSE "write",
                                            !.found = r.row, !.deal = r.deal]]
  BY <1>1 DEF ResolveRow, Proceed
<1>3. c.pc = "row" /\ row' = row /\ book' = book
  BY <1>1 DEF ResolveRow, Stands
<1>4. /\ c \in ImportType /\ RowsSeen(p) = Over(c.rows, row) /\ RowsSeen(p) \in RowTables
      /\ Line(p) = c.lines[c.at] /\ c.lines \in Sheets /\ c.at \in DOMAIN c.lines /\ AgainRight(c)
      /\ DealsSeen(p) = Over(c.deals, book)
  BY <1>1, <1>3, CallKnows, SheetsAre DEF Running, AgainInv
<1>5. PICK s : s = IF r.deal = Null THEN "deal" ELSE "write"
  OBVIOUS
<1>6. PICK x : x = [c EXCEPT !.pc = s, !.found = r.row, !.deal = r.deal]
  OBVIOUS
<1>7. imp' = [imp EXCEPT ![p] = x]
  BY <1>2, <1>5, <1>6, Zenon
<1>8. /\ x.pc = s /\ x.found = r.row /\ x.deal = r.deal /\ x.at = c.at
      /\ x.hit = c.hit /\ x.rows = c.rows /\ x.deals = c.deals /\ x.lines = c.lines
      /\ x.same = c.same /\ x.shown = c.shown /\ (x.exact <=> c.exact) /\ (x.alone <=> c.alone)
  BY <1>4, <1>6 DEF ImportType
<1> SUFFICES ASSUME c.alone PROVE AgainRight(x)
  <2>1. AgainRight(x)
    BY <1>8 DEF AgainRight
  <2> QED
    BY <1>3, <1>7, <2>1, AgainOneCall
<1>9. PICK rows \in RowTables : rows = RowsSeen(p)
  BY <1>4
<1>10. PICK deals : deals = DealsSeen(p)
  OBVIOUS
<1>11. Remembers(c, rows, deals) /\ StaysSame(c, rows)
  BY <1>4, <1>9, <1>10 DEF AgainRight
<1>12. StaysSame(x, rows)
  BY <1>8, <1>11 DEF StaysSame
<1>13. ASSUME UntitledLines(x) PROVE FindsDeal(x, rows, deals)
  <2>1. PICK l : l = Line(p) /\ l = c.lines[c.at]
    BY <1>4
  <2>2. l.title = Null
    BY <1>4, <1>8, <1>13, <2>1 DEF UntitledLines
  <2>3. PICK w : w = RowOfClient(rows, l)
    OBVIOUS
  <2>4. r = [row |-> w, deal |-> IF w # Null THEN rows[w].deal ELSE Null]
    BY <1>9, <1>10, <2>1, <2>2, <2>3, ResolvedUntitled
  <2>5. r.row # Null => FitsLine(rows, r.row, l)
    BY <2>3, <2>4, FoundFits
  <2>6. r.deal # Null => r.row # Null /\ rows[r.row].deal # Null
    BY <2>4
  <2> QED
    BY <1>5, <1>8, <2>1, <2>5, <2>6 DEF FindsDeal
<1>14. Remembers(x, rows, deals)
  <2>1. x.pc \in {"deal", "write"}
    BY <1>5, <1>8
  <2> QED
    <3>1. OneLine(x, rows, deals)
      BY <2>1 DEF OneLine
    <3>2. c.pc # "push"
      BY <1>3
    <3>3. /\ UntitledLines(x) <=> UntitledLines(c)
          /\ DistinctLines(x) <=> DistinctLines(c)
          /\ BroughtIn(x, rows) <=> BroughtIn(c, rows)
          /\ EachOnce(c, rows, deals) => EachOnce(x, rows, deals)
      BY <1>8, <3>2, SameLines
    <3> QED
      BY <1>11, <1>13, <3>1, <3>3 DEF Remembers
<1> QED
  BY <1>4, <1>8, <1>9, <1>10, <1>12, <1>14 DEF AgainRight

LEMMA ResolveDealAgain == ASSUME ImportInv, AgainInv, NEW p \in Imports, ResolveDeal(p) PROVE AgainInv'
<1>1. PICK c : c = imp[p]
  OBVIOUS
<1>2. PICK d \in Booked \cup {Null} : d = DealOfClient(DealsSeen(p), Line(p))
  BY DealOfClientFound
<1>3. /\ c.pc = "deal" /\ row' = row /\ book' = book
      /\ imp' = [imp EXCEPT ![p] = [c EXCEPT !.pc = "write", !.deal = d]]
  BY <1>1, <1>2 DEF ResolveDeal, Proceed, Stands
<1>4. /\ c \in ImportType /\ RowsSeen(p) = Over(c.rows, row) /\ AgainRight(c)
      /\ Line(p) = c.lines[c.at] /\ DealsSeen(p) = Over(c.deals, book)
  BY <1>1, <1>3, CallKnows DEF Running, AgainInv
<1>5. PICK x : x = [c EXCEPT !.pc = "write", !.deal = d]
  OBVIOUS
<1>6. imp' = [imp EXCEPT ![p] = x]
  BY <1>3, <1>5
<1>7. /\ x.pc = "write" /\ x.found = c.found /\ x.deal = d /\ x.at = c.at
      /\ x.hit = c.hit /\ x.rows = c.rows /\ x.deals = c.deals /\ x.lines = c.lines
      /\ x.same = c.same /\ x.shown = c.shown /\ (x.exact <=> c.exact) /\ (x.alone <=> c.alone)
  BY <1>4, <1>5 DEF ImportType
<1> SUFFICES ASSUME c.alone PROVE AgainRight(x)
  <2>1. AgainRight(x)
    BY <1>7 DEF AgainRight
  <2> QED
    BY <1>3, <1>6, <2>1, AgainOneCall
<1>8. PICK rows : rows = RowsSeen(p)
  OBVIOUS
<1>9. PICK deals : deals = DealsSeen(p)
  OBVIOUS
<1>10. Remembers(c, rows, deals) /\ StaysSame(c, rows)
  BY <1>4, <1>8, <1>9 DEF AgainRight
<1>11. StaysSame(x, rows)
  BY <1>7, <1>10 DEF StaysSame
<1>12. Remembers(x, rows, deals)
  <2>1. d = DealOfClient(deals, c.lines[c.at])
    BY <1>2, <1>4, <1>9
  <2>2. FindsDeal(c, rows, deals) => FindsDeal(x, rows, deals)
    BY <1>3, <1>7, <2>1 DEF FindsDeal
  <2>3. OneLine(x, rows, deals)
    BY <1>7 DEF OneLine
  <2>4. /\ UntitledLines(x) <=> UntitledLines(c)
        /\ DistinctLines(x) <=> DistinctLines(c)
        /\ BroughtIn(x, rows) <=> BroughtIn(c, rows)
        /\ EachOnce(c, rows, deals) => EachOnce(x, rows, deals)
    <3>1. c.pc # "push"
      BY <1>3
    <3> QED
      BY <1>7, <3>1, SameLines
  <2> QED
    BY <1>10, <2>2, <2>3, <2>4 DEF Remembers
<1> QED
  BY <1>4, <1>7, <1>8, <1>9, <1>11, <1>12 DEF AgainRight

LEMMA WriteAgain == ASSUME ImportInv, AgainInv, NEW p \in Imports, InsertRow(p) \/ OverwriteRow(p) PROVE AgainInv'
<1>1. PICK c : c = imp[p]
  OBVIOUS
<1>2. /\ row' = row /\ book' = book /\ AgainRight(c) /\ c.pc = "write" /\ c.pc \in Running
  BY <1>1 DEF InsertRow, OverwriteRow, Stands, AgainInv, Running
<1>3. ASSUME NEW x, NEW w, WritesTo(p, c, x, w), imp' = [imp EXCEPT ![p] = x] PROVE AgainInv'
  <2>1. AgainRight(x)
    BY <1>1, <1>2, <1>3, WroteAgain
  <2> QED
    BY <1>2, <1>3, <2>1, AgainOneCall
<1>4. CASE InsertRow(p)
  <2>0. PICK w \in NewIds(p) : \E x : WritesTo(p, c, x, w) /\ imp' = [imp EXCEPT ![p] = x]
    BY <1>1, <1>4, InsertRowWrites
  <2>1. PICK x : WritesTo(p, c, x, w) /\ imp' = [imp EXCEPT ![p] = x]
    BY <2>0
  <2> QED
    BY <1>3, <2>1
<1>5. CASE OverwriteRow(p) /\ c.found \in DOMAIN RowsSeen(p)
  <2>1. PICK x : WritesTo(p, c, x, c.found) /\ imp' = [imp EXCEPT ![p] = x]
    BY <1>1, <1>5, OverwriteRowWrites
  <2> QED
    BY <1>3, <2>1
<1>6. CASE OverwriteRow(p) /\ c.found \notin DOMAIN RowsSeen(p)
  <2>1. PICK x : x = AfterCut(c)
    OBVIOUS
  <2>2. imp' = [imp EXCEPT ![p] = x]
    BY <1>1, <1>6, <2>1, OverwriteRowWrites
  <2>3. ~ c.alone /\ c \in ImportType
    <3>1. c.found # Null /\ CallRight(c) /\ c \in ImportType /\ RowsSeen(p) = Over(c.rows, row)
      BY <1>1, <1>6, CallKnows DEF OverwriteRow
    <3> QED
      BY <1>2, <1>6, <3>1 DEF CallRight, FoundRight
  <2>4. ~ x.alone
    <3>1. PICK y : y = [c EXCEPT !.cut = TRUE, !.hit = Append(@, c.found)]
      OBVIOUS
    <3>2. x = AfterWrite(y)
      BY <2>1, <3>1 DEF AfterCut
    <3>3. y \in ImportType /\ ~ y.alone
      <4>1. c.found \in Ids /\ c.hit \in Seq(Ids)
        BY <1>1, <1>6, <2>3, CallsAre DEF OverwriteRow
      <4>2. PICK hit \in Seq(Ids) : hit = Append(c.hit, c.found)
        BY <4>1, HitAppended
      <4>3. y = [c EXCEPT !.cut = TRUE, !.hit = hit]
        BY <2>3, <3>1, <4>2 DEF ImportType
      <4> QED
        BY <2>3, <4>3 DEF ImportType
    <3> QED
      BY <3>2, <3>3, AfterWriteIs DEF WroteRow, MovesOn, GoesOn
  <2>5. AgainRight(x)
    BY <2>4 DEF AgainRight
  <2> QED
    BY <1>2, <2>2, <2>5, AgainOneCall
<1> QED
  BY <1>4, <1>5, <1>6

LEMMA PushDealAgain == ASSUME ImportInv, AgainInv, NEW p \in Imports, PushDeal(p) PROVE AgainInv'
<1>1. PICK c : c = imp[p]
  OBVIOUS
<1>2. row' = row /\ book' = book /\ AgainRight(c)
  BY <1>1 DEF PushDeal, AgainInv
<1>3. PICK x : TellsDeal(p, c, x) /\ imp' = [imp EXCEPT ![p] = x]
  BY <1>1, PushDealTells
<1>4. AgainRight(x)
  BY <1>1, <1>2, <1>3, ToldAgain
<1> QED
  BY <1>2, <1>3, <1>4, AgainOneCall

LEMMA RestAgain ==
  ASSUME ImportInv, AgainInv, NEW p \in Imports, Fail(p) \/ EndImport(p) PROVE AgainInv'
<1>1. PICK x : ~ x.alone /\ imp' = [imp EXCEPT ![p] = x]
  <2>1. ~ NoImport.alone
    BY NoImportIs
  <2>2. ~ [NoImport EXCEPT !.pc = "error"].alone
    BY DEF NoImport
  <2> QED
    BY <2>1, <2>2 DEF Fail, EndImport, Proceed
<1>2. AgainRight(x) /\ row' = row /\ book' = book
  BY <1>1 DEF AgainRight, Fail, EndImport
<1> QED
  BY <1>1, <1>2, AgainOneCall

(* Another call, or a commit, interrupts everybody else.                   *)
LEMMA NobodyAlone == \A q \in Imports : imp \in [Imports -> ImportType] => ~ Interrupted[q].alone
<1> SUFFICES ASSUME NEW q \in Imports, imp \in [Imports -> ImportType] PROVE ~ Interrupted[q].alone
  OBVIOUS
<1>1. CASE Stands(q, "idle")
  BY <1>1, NoImportIs DEF Interrupted
<1>2. CASE ~ Stands(q, "idle")
  BY <1>2 DEF Interrupted, ImportType
<1> QED
  BY <1>1, <1>2

LEMMA CommitAgain == ASSUME ImportInv, AgainInv, NEW p \in Imports, Commit(p) PROVE AgainInv'
<1>1. PICK c : c = imp[p]
  OBVIOUS
<1>2. PICK x : x = [c EXCEPT !.pc = "ok", !.rows = <<>>, !.deals = <<>>]
  OBVIOUS
<1>3. c.pc = "end" /\ row' = RowsSeen(p) /\ book' = DealsSeen(p) /\ c.pc \in Running
  BY <1>1 DEF Commit, Stands, Running
<1>4. imp' = [Interrupted EXCEPT ![p] = x] /\ DOMAIN Interrupted = Imports
  BY <1>1, <1>2, Zenon DEF Commit, Interrupted
<1>5. /\ c \in ImportType /\ imp \in [Imports -> ImportType] /\ AgainRight(c) /\ InPlace(c)
      /\ RowsSeen(p) = Over(c.rows, row) /\ DealsSeen(p) = Over(c.deals, book)
      /\ RowsSeen(p) \in RowTables /\ DealsSeen(p) \in [Booked -> DealType]
  BY <1>1, <1>3, CallKnows DEF Underway, AgainInv
<1>6. /\ x.pc = "ok" /\ x.rows = <<>> /\ x.deals = <<>> /\ x.hit = c.hit /\ x.lines = c.lines
      /\ x.same = c.same /\ x.shown = c.shown /\ (x.exact <=> c.exact) /\ (x.alone <=> c.alone) /\ x.at = c.at
  BY <1>2, <1>5 DEF ImportType
<1>7. ASSUME NEW t, t = [k \in DOMAIN t |-> t[k]] PROVE Over(<<>>, t) = t
  <2>1. DOMAIN <<>> = {}
    OBVIOUS
  <2> QED
    BY <1>7, <2>1 DEF Over
<1>8. Over(x.rows, row') = row' /\ Over(x.deals, book') = book'
  <2>1. row' = [k \in DOMAIN row' |-> row'[k]] /\ book' = [k \in DOMAIN book' |-> book'[k]]
    BY <1>3 DEF RowsSeen, DealsSeen, Over
  <2> QED
    BY <1>6, <1>7, <2>1
<1>9. AgainRight(x)'
  <2> SUFFICES ASSUME c.alone PROVE Remembers(x, row', book') /\ StaysSame(x, row')
    BY <1>6, <1>8 DEF AgainRight
  <2>1. PICK rows : rows = row'
    OBVIOUS
  <2>2. PICK deals : deals = book'
    OBVIOUS
  <2>3. Remembers(c, rows, deals) /\ StaysSame(c, rows)
    BY <1>3, <1>5, <2>1, <2>2 DEF AgainRight
  <2>4. Remembers(x, rows, deals) /\ StaysSame(x, rows)
    <3>1. /\ UntitledLines(x) <=> UntitledLines(c)
          /\ DistinctLines(x) <=> DistinctLines(c)
          /\ BroughtIn(x, rows) <=> BroughtIn(c, rows)
          /\ EachOnce(c, rows, deals) => EachOnce(x, rows, deals)
      <4>1. c.pc # "push"
        BY <1>3
      <4> QED
        BY <1>6, <4>1, SameLines
    <3>2. FindsDeal(x, rows, deals)
      BY <1>6 DEF FindsDeal
    <3>3. OneLine(c, rows, deals) => OneLine(x, rows, deals)
      BY <1>3, <1>6 DEF OneLine
    <3>4. StaysSame(x, rows)
      BY <1>6, <2>3 DEF StaysSame
    <3> QED
      BY <2>3, <3>1, <3>2, <3>3, <3>4 DEF Remembers
  <2> QED
    BY <2>1, <2>2, <2>4
<1>10. ASSUME NEW q \in Imports PROVE AgainRight(imp[q])'
  <2>1. CASE q = p
    <3>1. imp'[q] = x
      BY <1>4, <2>1
    <3> QED
      BY <1>9, <3>1
  <2>2. CASE q # p
    <3>1. ~ imp'[q].alone
      BY <1>4, <1>5, <2>2, NobodyAlone
    <3> QED
      BY <3>1 DEF AgainRight
  <2> QED
    BY <2>1, <2>2
<1> QED
  BY <1>10 DEF AgainInv

LEMMA OthersAgain ==
  ASSUME ImportInv, EditRow \/ DropRow \/ TrackDeal \/ RetireDeal PROVE AgainInv'
<1>1. imp' = Interrupted /\ imp \in [Imports -> ImportType]
  BY DEF EditRow, DropRow, TrackDeal, RetireDeal, Other, ImportInv, ImportTypes
<1>2. \A q \in Imports : ~ imp'[q].alone
  BY <1>1, NobodyAlone
<1> QED
  BY <1>2 DEF AgainInv, AgainRight

LEMMA AgainInvKept == ImportInv /\ AgainInv /\ [ImportNext]_importVars => AgainInv'
<1> SUFFICES ASSUME ImportInv, AgainInv, [ImportNext]_importVars PROVE AgainInv'
  OBVIOUS
<1>1. CASE UNCHANGED importVars
  <2>1. row' = row /\ book' = book /\ imp' = imp
    BY <1>1 DEF importVars
  <2>2. ASSUME NEW q \in Imports PROVE AgainRight(imp[q])'
    <3>1. PICK z : z = imp[q]
      OBVIOUS
    <3>2. AgainRight(z)'
      BY <2>1, <3>1, AgainStays DEF AgainInv
    <3> QED
      BY <2>1, <3>1, <3>2
  <2> QED
    BY <2>2 DEF AgainInv
<1>2. ASSUME NEW p \in Imports,
             \/ Preview(p) \/ Confirm(p) \/ ResolveRow(p) \/ ResolveDeal(p)
             \/ InsertRow(p) \/ OverwriteRow(p) \/ PushDeal(p)
             \/ Commit(p) \/ Fail(p) \/ EndImport(p)
      PROVE  AgainInv'
  BY <1>2, PreviewAgain, ConfirmAgain, ResolveRowAgain, ResolveDealAgain, WriteAgain,
     PushDealAgain, CommitAgain, RestAgain
<1> QED
  BY <1>1, <1>2, OthersAgain DEF ImportNext

LEMMA InitAgain == ImportInit => AgainInv
<1> SUFFICES ASSUME ImportInit, NEW q \in Imports PROVE AgainRight(imp[q])
  BY DEF AgainInv
<1>1. imp[q] = NoImport
  BY DEF ImportInit
<1> QED
  BY <1>1, NoImportIs DEF AgainRight

-----------------------------------------------------------------------------
(* Importing a line again.                                                 *)
PushesNothing(deals, d, l) ==
  d \in Booked /\ deals[d].live => DealSays(deals, d, l)

LEMMA PushedSame ==
  ASSUME NEW b \in DealType, NEW l \in LineType,
         b.live => (l.place # Null => b.place = l.place) /\ (l.count # Null => b.count = l.count)
  PROVE  Pushed(b, l) = b
<1>1. CASE ~ b.live
  BY <1>1 DEF Pushed
<1>2. CASE b.live
  <2>1. Carried(l.place, b.place) = b.place /\ Carried(l.count, b.count) = b.count
    BY <1>2 DEF Carried
  <2>2. Pushed(b, l) = [b EXCEPT !.place = Carried(l.place, b.place), !.count = Carried(l.count, b.count)]
    BY <1>2 DEF Pushed
  <2> QED
    BY <2>1, <2>2 DEF DealType
<1> QED
  BY <1>1, <1>2

LEMMA WrittenSame ==
  ASSUME NEW rows \in RowTables, NEW w \in DOMAIN rows, NEW l \in LineType, NEW d \in Booked \cup {Null},
         rows[w].client = l.client, RowSays(rows, w, l),
         rows[w].deal = Null => d = Null \/ HeldElsewhere(rows, w, d)
  PROVE  Put(rows, w, Written(rows, w, d, l)) = rows
<1>1. rows[w] \in RowType /\ rows \in [DOMAIN rows -> RowType]
  BY Tables
<1>2. PICK old \in RowType : old = rows[w]
  BY <1>1
<1>3. PICK a : a = IF old.deal # Null \/ d = Null THEN old.deal ELSE Assigned(rows, w, d)
  OBVIOUS
<1>4. Written(rows, w, d, l) =
        [client |-> l.client, place |-> Carried(l.place, old.place), count |-> Carried(l.count, old.count),
         deal |-> a]
  BY <1>2, <1>3 DEF Written
<1>5. a = old.deal
  BY <1>2, <1>3 DEF Assigned, HeldElsewhere
<1>6. Carried(l.place, old.place) = old.place /\ Carried(l.count, old.count) = old.count /\ l.client = old.client
  BY <1>2 DEF Carried, RowSays
<1>7. Written(rows, w, d, l) = old
  BY <1>4, <1>5, <1>6 DEF RowType
<1>8. PICK r : r = Written(rows, w, d, l)
  OBVIOUS
<1>9. r = rows[w]
  BY <1>2, <1>7, <1>8
<1>10. Put(rows, w, r) = rows
  BY <1>1, <1>9 DEF Put
<1> QED
  BY <1>8, <1>10

LEMMA AppliedSame ==
  ASSUME NEW rows \in RowTables, NEW deals \in [Booked -> DealType], NEW l \in LineType, l.title = Null,
         NEW w \in DOMAIN rows, w = RowOfClient(rows, l), w # Null,
         rows[w].client = l.client, RowSays(rows, w, l),
         rows[w].deal # Null => PushesNothing(deals, rows[w].deal, l),
         NEW e, e = DealOfClient(deals, l),
         rows[w].deal = Null /\ e # Null => HeldElsewhere(rows, w, e) /\ DealSays(deals, e, l)
  PROVE  Applied([rows |-> rows, deals |-> deals], l) = [rows |-> rows, deals |-> deals]
<1>0. PICK db : db = [rows |-> rows, deals |-> deals]
  OBVIOUS
<1>1. db.rows = rows /\ db.deals = deals
  BY <1>0
<1>2. PICK d : d = IF rows[w].deal = Null THEN e ELSE rows[w].deal
  OBVIOUS
<1>a. PICK r : r = [row |-> w, deal |-> rows[w].deal]
  OBVIOUS
<1>3. r.row = w /\ r.deal = rows[w].deal
  BY <1>a
<1>4. Resolved(rows, deals, l) = {r}
  BY <1>a, ResolvedUntitled
<1>5. (CHOOSE s \in Resolved(rows, deals, l) : TRUE) = r
  BY <1>4
<1>6. Applied(db, l) = [rows  |-> Put(rows, w, Written(rows, w, d, l)),
                        deals |-> [b \in Booked |-> IF b = d THEN Pushed(deals[b], l) ELSE deals[b]]]
  BY <1>1, <1>2, <1>3, <1>5 DEF Applied
<1>7. d \in Booked \cup {Null} /\ (rows[w].deal = Null => d = Null \/ HeldElsewhere(rows, w, d))
  <2>1. rows[w].deal \in Booked \cup {Null}
    BY Tables DEF RowType
  <2>2. e \in Booked \cup {Null}
    BY DealOfClientIs
  <2> QED
    BY <1>2, <2>1, <2>2
<1>8. Put(rows, w, Written(rows, w, d, l)) = rows
  BY <1>7, WrittenSame
<1>9. [b \in Booked |-> IF b = d THEN Pushed(deals[b], l) ELSE deals[b]] = deals
  <2>1. ASSUME NEW b \in Booked, b = d PROVE Pushed(deals[b], l) = deals[b]
    <3>1. deals[b].live => DealSays(deals, b, l)
      BY <1>2, <2>1, ImportAssumption DEF PushesNothing
    <3> QED
      BY <3>1, PushedSame DEF DealSays
  <2> QED
    BY <2>1
<1> QED
  BY <1>0, <1>6, <1>8, <1>9

(* What is left of a call that nobody disturbed, when it is over.          *)
LeftBy(p, c) ==
  /\ c \in ImportType /\ c.pc = "ok" /\ c.lines \in Sheets /\ Len(c.hit) = Len(c.lines)
  /\ DOMAIN c.hit = DOMAIN c.lines /\ DOMAIN c.lines = 1 .. Len(c.lines) /\ Len(c.lines) \in Nat \ {0}
  /\ Lines(p) \subseteq LineType
  /\ \A m : m \in Lines(p) <=> \E i \in DOMAIN c.lines : m = c.lines[i]
  /\ row \in RowTables /\ book \in [Booked -> DealType]
  /\ Remembers(c, row, book) /\ StaysSame(c, row)

LEMMA DoneKnows ==
  ASSUME ImportInv, AgainInv, NEW p \in Imports, NEW c, c = imp[p], Done(p)
  PROVE  LeftBy(p, c)
<1>1. /\ c \in ImportType /\ CallRight(c) /\ c.pc = "ok" /\ c.alone /\ AgainRight(c)
      /\ row \in RowTables /\ book \in [Booked -> DealType]
  BY CallKnows DEF Done, Stands, AgainInv
<1>2. /\ c.lines \in Sheets /\ Len(c.hit) = Len(c.lines) /\ DOMAIN c.rows = {} /\ DOMAIN c.deals = {}
  BY <1>1 DEF CallRight, Running
<1>3. /\ DOMAIN c.lines = 1 .. Len(c.lines) /\ Len(c.lines) \in Nat \ {0}
      /\ \A i \in DOMAIN c.lines : c.lines[i] \in LineType
  BY <1>2, SheetsAre
<1>4. DOMAIN c.hit = DOMAIN c.lines
  BY <1>1, <1>2, <1>3, CallsAre, HitsAre
<1>5. Over(c.rows, row) = row /\ Over(c.deals, book) = book
  <2>1. row \in [DOMAIN row -> RowType]
    BY <1>1, Tables
  <2> QED
    BY <1>1, <1>2, <2>1 DEF Over
<1>6. Remembers(c, row, book) /\ StaysSame(c, row)
  BY <1>1, <1>5 DEF AgainRight
<1>7. /\ Lines(p) \subseteq LineType
      /\ \A m : m \in Lines(p) <=> \E i \in DOMAIN c.lines : m = c.lines[i]
  BY <1>3 DEF Lines
<1> QED
  BY <1>1, <1>2, <1>3, <1>4, <1>6, <1>7 DEF LeftBy

LEMMA GrowsNothing == ImportInv /\ AgainInv => ReimportGrowsNothing
<1> SUFFICES ASSUME ImportInv, AgainInv, NEW p \in Imports, NEW c, c = imp[p], Done(p), Untitled(p), NEW l \in Lines(p)
             PROVE  RowOfClient(row, l) # Null
  BY DEF ReimportGrowsNothing
<1>1. LeftBy(p, c)
  BY DoneKnows
<1>2. /\ DOMAIN c.hit = DOMAIN c.lines /\ row \in RowTables /\ Remembers(c, row, book)
      /\ \A m : m \in Lines(p) <=> \E i \in DOMAIN c.lines : m = c.lines[i]
  BY <1>1 DEF LeftBy
<1>3. UntitledLines(c)
  BY <1>2 DEF Untitled, UntitledLines
<1>4. PICK i \in DOMAIN c.hit : l = c.lines[i]
  BY <1>2
<1>5. HasLine(row, l)
  BY <1>2, <1>3, <1>4 DEF Remembers, BroughtIn
<1> QED
  BY <1>2, <1>5, FoundFits

LEMMA ShownUnchanged == ImportInv /\ AgainInv => UnchangedMeansUnchanged
<1> SUFFICES ASSUME ImportInv, AgainInv, NEW p \in Imports, NEW c, c = imp[p], Done(p), c.same # Null
             PROVE  [row[c.hit[1]] EXCEPT !.deal = Null] = [c.same EXCEPT !.deal = Null]
  BY DEF UnchangedMeansUnchanged
<1>2. /\ c \in ImportType /\ Len(c.hit) = Len(c.lines) /\ Len(c.lines) \in Nat \ {0}
      /\ row \in RowTables /\ StaysSame(c, row)
  BY DoneKnows DEF LeftBy
<1>3. c.same \in RowType /\ SameCells(row[c.hit[1]], c.same)
  BY <1>2 DEF StaysSame
<1>4. row[c.hit[1]] \in RowType
  <2>1. c.hit[1] \in DOMAIN row
    BY <1>2 DEF StaysSame
  <2> QED
    BY <1>2, <2>1, Tables
<1>5. PICK r \in RowType : r = row[c.hit[1]]
  BY <1>4
<1>6. PICK s \in RowType : s = c.same
  BY <1>3
<1>7. [r EXCEPT !.deal = Null] = [s EXCEPT !.deal = Null]
  BY <1>3, <1>5, <1>6 DEF SameCells, RowType
<1> QED
  BY <1>5, <1>6, <1>7

LEMMA ChangesNothing == ImportInv /\ AgainInv => ReimportChangesNothing
<1> SUFFICES ASSUME ImportInv, AgainInv, NEW p \in Imports, NEW c, c = imp[p], Done(p), Untitled(p),
                    \A i, j \in DOMAIN c.lines : Clean[c.lines[i].client] = Clean[c.lines[j].client] => i = j,
                    \A m \in Lines(p) :
                      /\ Cardinality(Cleaned(row, m.client)) = 1
                      /\ \/ Len(c.lines) = 1 \/ DealOfClient(book, m) = Null
                         \/ \A w \in Cleaned(row, m.client) : Linked(row, w),
                    NEW l \in Lines(p)
             PROVE  Applied([rows |-> row, deals |-> book], l) = [rows |-> row, deals |-> book]
  BY DEF ReimportChangesNothing
<1>1. /\ c \in ImportType /\ c.pc = "ok" /\ c.lines \in Sheets /\ Len(c.hit) = Len(c.lines)
      /\ DOMAIN c.hit = DOMAIN c.lines /\ DOMAIN c.lines = 1 .. Len(c.lines) /\ Len(c.lines) \in Nat \ {0}
      /\ Lines(p) \subseteq LineType
      /\ \A m : m \in Lines(p) <=> \E i \in DOMAIN c.lines : m = c.lines[i]
      /\ row \in RowTables /\ book \in [Booked -> DealType]
      /\ Remembers(c, row, book) /\ StaysSame(c, row)
  BY DoneKnows, ZenonT(30) DEF LeftBy
<1>2. UntitledLines(c) /\ l.title = Null
  BY <1>1 DEF Untitled, UntitledLines
<1>3. ASSUME NEW m \in Lines(p) PROVE Clean[m.client] # Null /\ \E w : Cleaned(row, m.client) = {w}
  <2>1. Cardinality(Cleaned(row, m.client)) = 1
    OBVIOUS
  <2>2. IsFiniteSet(Cleaned(row, m.client))
    <3>1. Cleaned(row, m.client) \subseteq Ids
      BY <1>1, Tables DEF Cleaned
    <3> QED
      BY <3>1, IdsAreFinite, FS_Subset
  <2>3. PICK w : Cleaned(row, m.client) = {w}
    BY <2>1, <2>2, FS_Singleton
  <2> QED
    BY <2>3 DEF Cleaned
<1>4. DistinctLines(c)
  BY <1>1, <1>3 DEF DistinctLines
<1>5. EachOnce(c, row, book) /\ OneLine(c, row, book)
  BY <1>1, <1>2, <1>4 DEF Remembers
<1>6. PICK i \in DOMAIN c.hit : l = c.lines[i]
  BY <1>1
<1>7. PICK w : w = c.hit[i]
  OBVIOUS
<1>8. /\ row[w].client = l.client /\ RowSays(row, w, l) /\ DealKnows(c, row, book, row[w].deal, i)
      /\ w \in DOMAIN row /\ w # Null /\ w \in Ids
  <2>1. row[w].client = l.client /\ RowSays(row, w, l) /\ DealKnows(c, row, book, row[w].deal, i)
    BY <1>1, <1>5, <1>6, <1>7 DEF EachOnce
  <2>2. w \in DOMAIN row
    BY <2>1 DEF RowSays
  <2> QED
    BY <1>1, <2>1, <2>2, Tables, IdsAre, SMTT(60)
<1>9. Cleaned(row, l.client) = {w} /\ Clean[l.client] # Null
  BY <1>3, <1>8 DEF Cleaned
<1>10. w = RowOfClient(row, l)
  <2>1. PICK v : v = RowOfClient(row, l)
    OBVIOUS
  <2>2. HasLine(row, l)
    BY <1>8 DEF HasLine, AlikeTo, RowSays
  <2>3. v # Null /\ FitsLine(row, v, l)
    BY <1>1, <2>1, <2>2, FoundFits
  <2>4. v \in Cleaned(row, l.client)
    BY <1>9, <2>3 DEF FitsLine, AlikeTo, Cleaned
  <2> QED
    BY <1>9, <2>1, <2>4
<1>11. ASSUME NEW j \in DOMAIN c.hit, NEW d, ToldAside(c, row, book, d, j), d # Null
       PROVE  Len(c.lines) = 1
  <2>1. PICK m : m = c.lines[j]
    OBVIOUS
  <2>2. m \in Lines(p) /\ row[c.hit[j]].client = m.client /\ RowSays(row, c.hit[j], m)
    BY <1>1, <1>5, <2>1 DEF EachOnce
  <2>3. c.hit[j] \in Cleaned(row, m.client) /\ ~ Linked(row, c.hit[j])
    BY <1>3, <1>11, <2>2 DEF Cleaned, RowSays, ToldAside, Linked
  <2>4. DealOfClient(book, m) # Null
    BY <1>11, <2>1, ToldIsFound DEF ToldAside
  <2> QED
    BY <2>2, <2>3, <2>4
<1>12. row[w].deal # Null => PushesNothing(book, row[w].deal, l)
  <2> SUFFICES ASSUME row[w].deal # Null, book[row[w].deal].live PROVE DealSays(book, row[w].deal, l)
    BY DEF PushesNothing
  <2>1. PICK d : d = row[w].deal
    OBVIOUS
  <2>2. CASE DealSays(book, d, c.lines[i])
    BY <1>6, <2>1, <2>2, SMTT(60)
  <2>3. ASSUME NEW j \in DOMAIN c.hit, ToldAside(c, row, book, d, j) PROVE FALSE
    <3>1. Len(c.lines) = 1
      BY <1>11, <2>1, <2>3
    <3>2. i = 1 /\ j = 1
      BY <1>1, <1>6, <2>3, <3>1
    <3> QED
      BY <1>7, <2>1, <2>3, <3>2 DEF ToldAside
  <2> QED
    BY <1>8, <2>1, <2>2, <2>3 DEF DealKnows
<1>13. PICK e : e = DealOfClient(book, l)
  OBVIOUS
<1>14. row[w].deal = Null /\ e # Null => HeldElsewhere(row, w, e) /\ DealSays(book, e, l)
  <2> SUFFICES ASSUME row[w].deal = Null, e # Null PROVE HeldElsewhere(row, w, e) /\ DealSays(book, e, l)
    OBVIOUS
  <2>1. ~ Linked(row, w) /\ w \in Cleaned(row, l.client)
    BY <1>9 DEF Linked
  <2>2. Len(c.lines) = 1
    BY <1>13, <2>1
  <2>3. i = 1
    BY <1>1, <1>6, <2>2
  <2> QED
    BY <1>1, <1>5, <1>6, <1>7, <1>13, <2>2, <2>3 DEF OneLine
<1> QED
  BY <1>1, <1>2, <1>8, <1>10, <1>12, <1>13, <1>14, AppliedSame

(* What calls know of sheets that name no deals is true throughout.        *)
THEOREM ImportsRemember == ImportSpec => [](ImportInv /\ AgainInv)
<1> QED
  BY InitImportInv, InitAgain, ImportInvKept, AgainInvKept, PTL DEF ImportSpec

(* A sheet that names no deals and is imported again, after an import that *)
(* nobody disturbed, finds a row for every line; where every client has    *)
(* one row and tells no other row's deal it changes nothing; and a line    *)
(* that the preview called unchanged leaves its row as it was.             *)
THEOREM ReimportsIdle == ImportSpec => []ReimportIsIdle
<1>1. ImportInv /\ AgainInv => ReimportIsIdle
  BY GrowsNothing, ChangesNothing, ShownUnchanged DEF ReimportIsIdle
<1> QED
  BY <1>1, ImportsRemember, PTL

-----------------------------------------------------------------------------
(* What a step may do to the tables.                                       *)
NothingEmptied ==
  /\ \A w \in DOMAIN row \cap DOMAIN row' :
       /\ row[w].place # Null => row'[w].place # Null
       /\ row[w].count # Null => row'[w].count # Null
       /\ Linked(row, w) => row'[w].deal = row[w].deal \/ ~ book'[row[w].deal].live
  /\ \A d \in Booked :
       /\ book[d].place # Null => book'[d].place # Null
       /\ book[d].count # Null => book'[d].count # Null


LandsWhole ==
  others' = others =>
    IF \E p \in Imports : Stands(p, "end") /\ imp'[p].pc = "ok"
      THEN \A p \in Imports : Stands(p, "end") /\ imp'[p].pc = "ok" =>
             /\ Len(imp[p].hit) = Len(imp[p].lines)
             /\ ~ imp[p].cut => \A i \in DOMAIN imp[p].hit : imp[p].hit[i] \in DOMAIN row'
             /\ Landed(p, row')
      ELSE UNCHANGED <<row, book>>

LEMMA CommitLands ==
  ASSUME ImportInv, NEW p \in Imports, Commit(p) PROVE NothingEmptied /\ LandsWhole
<1>1. PICK c : c = imp[p]
  OBVIOUS
<1>2. /\ c.pc = "end" /\ row' = RowsSeen(p) /\ book' = DealsSeen(p)
      /\ imp' = [Interrupted EXCEPT ![p] = [c EXCEPT !.pc = "ok", !.rows = <<>>, !.deals = <<>>]]
  BY <1>1 DEF Commit, Stands
<1>3. c.pc \in Running
  BY <1>2 DEF Running
<1>4. /\ InPlace(c) /\ IdsRight(c) /\ Carries(c) /\ Covers(c) /\ c \in ImportType /\ c.lines \in Sheets
      /\ imp \in [Imports -> ImportType] /\ DealsSeen(p) = Over(c.deals, book) /\ book \in [Booked -> DealType]
  BY <1>1, <1>3, CallKnows DEF Underway
<1>5. /\ DOMAIN row' = DOMAIN c.rows \cup DOMAIN row
      /\ \A w \in DOMAIN c.rows : row'[w] = c.rows[w]
      /\ \A w \in DOMAIN row :
           /\ row[w].deal # Null => row'[w].deal = row[w].deal
           /\ row[w].place # Null => row'[w].place # Null
           /\ row[w].count # Null => row'[w].count # Null
  BY <1>1, <1>2, <1>3, SeenRows, SMTT(60)
<1>6. ASSUME NEW d \in Booked
      PROVE  /\ book[d].place # Null => book'[d].place # Null
             /\ book[d].count # Null => book'[d].count # Null
  BY <1>2, <1>4 DEF Over, Covers
<1>7. NothingEmptied
  BY <1>5, <1>6 DEF NothingEmptied, Linked
<1>8. /\ Len(c.hit) = Len(c.lines) /\ c.at = Len(c.lines)
      /\ DOMAIN c.lines = DOMAIN c.hit
  BY <1>2, <1>4, CallsAre, HitsAre, SheetsAre DEF InPlace
<1>9. ASSUME NEW i \in DOMAIN c.hit PROVE c.hit[i] \in DOMAIN c.rows \/ (c.cut /\ c.hit[i] \notin DOMAIN row')
  BY <1>4, <1>5 DEF IdsRight
<1>10. Landed(p, row')
  <2>1. ASSUME NEW i \in DOMAIN c.lines, c.hit[i] \in DOMAIN row'
        PROVE  LET later == {c.lines[j] : j \in {k \in DOMAIN c.hit : k > i /\ c.hit[k] = c.hit[i]}} IN
               /\ c.lines[i].place # Null /\ (\A m \in later : m.place = Null) => row'[c.hit[i]].place = c.lines[i].place
               /\ c.lines[i].count # Null /\ (\A m \in later : m.count = Null) => row'[c.hit[i]].count = c.lines[i].count
    <3>1. i \in DOMAIN c.hit /\ c.hit[i] \in DOMAIN c.rows
      BY <1>8, <1>9, <2>1
    <3>2. SaysLast(c, i) /\ row'[c.hit[i]] = c.rows[c.hit[i]]
      BY <1>4, <1>5, <3>1 DEF Carries
    <3> QED
      BY <3>2 DEF SaysLast
  <2> QED
    BY <1>1, <2>1 DEF Landed
<1>11. ASSUME NEW q \in Imports, q # p, imp[q].pc = "end" PROVE imp'[q].pc # "ok"
  <2>1. imp'[q] = [imp[q] EXCEPT !.alone = FALSE]
    BY <1>2, <1>11 DEF Interrupted, Stands
  <2> QED
    BY <1>4, <1>11, <2>1 DEF ImportType
<1>12. imp'[p].pc = "ok"
  <2>1. PICK x : x = [c EXCEPT !.pc = "ok", !.rows = <<>>, !.deals = <<>>]
    OBVIOUS
  <2>2. imp'[p] = x
    BY <1>2, <2>1 DEF Interrupted
  <2> QED
    BY <1>4, <2>1, <2>2 DEF ImportType
<1>13. LandsWhole
  <2>1. Stands(p, "end") /\ imp'[p].pc = "ok"
    BY <1>1, <1>2, <1>12 DEF Stands
  <2>2. \A q \in Imports : Stands(q, "end") /\ imp'[q].pc = "ok" => q = p
    BY <1>11 DEF Stands
  <2>3. /\ Len(imp[p].hit) = Len(imp[p].lines)
        /\ ~ imp[p].cut => \A i \in DOMAIN imp[p].hit : imp[p].hit[i] \in DOMAIN row'
    BY <1>1, <1>5, <1>8, <1>9
  <2> QED
    BY <1>10, <2>1, <2>2, <2>3 DEF LandsWhole
<1> QED
  BY <1>7, <1>13

LEMMA CallsWriteNoTable ==
  ASSUME ImportInv, NEW p \in Imports,
         \/ Preview(p) \/ Confirm(p) \/ ResolveRow(p) \/ ResolveDeal(p)
         \/ InsertRow(p) \/ OverwriteRow(p) \/ PushDeal(p) \/ Fail(p) \/ EndImport(p)
  PROVE  NothingEmptied /\ LandsWhole
<1>1. row' = row /\ book' = book
  BY DEF Preview, Confirm, ResolveRow, ResolveDeal, InsertRow, OverwriteRow, PushDeal, Fail, EndImport
<1>2. imp \in [Imports -> ImportType]
  BY SMTT(60) DEF ImportInv, ImportTypes
<1>3. PICK x : imp' = [imp EXCEPT ![p] = x]
  BY ZenonT(60) DEF Preview, Confirm, ResolveRow, ResolveDeal, InsertRow, OverwriteRow, PushDeal, Fail, EndImport, Proceed
<1>4. imp[p].pc = "end" => imp'[p].pc # "ok"
  <2>1. imp[p].pc # "end" \/ Fail(p)
    BY DEF Preview, Confirm, ResolveRow, ResolveDeal, InsertRow, OverwriteRow, PushDeal, EndImport, Stands
  <2>2. ASSUME Fail(p) PROVE imp'[p].pc = "error"
    BY <1>2, <2>2 DEF Fail, Proceed, NoImport
  <2> QED
    BY <2>1, <2>2, SMTT(60)
<1>5. \A q \in Imports : ~ (imp[q].pc = "end" /\ imp'[q].pc = "ok")
  BY <1>2, <1>3, <1>4
<1>6. LandsWhole
  BY <1>1, <1>5 DEF LandsWhole, Stands
<1>7. NothingEmptied
  BY <1>1 DEF NothingEmptied
<1> QED
  BY <1>6, <1>7, SMTT(60)

LEMMA OthersEmptyNothing ==
  ASSUME ImportInv, EditRow \/ DropRow \/ TrackDeal \/ RetireDeal PROVE NothingEmptied /\ LandsWhole
<1>1. /\ row \in [DOMAIN row -> RowType] /\ book \in [Booked -> DealType] /\ others \in Nat
      /\ born \in Nat /\ \A w \in DOMAIN row : w[1] <= born /\ w[1] \in Nat
  BY Tables, IdsAre, ImportAssumption, SMTT(60) DEF ImportInv, ImportTypes, TablesRight
<1>2. LandsWhole
  BY <1>1 DEF EditRow, DropRow, TrackDeal, RetireDeal, Other, LandsWhole
<1>3. ASSUME EditRow PROVE NothingEmptied
  <2>1. PICK w \in DOMAIN row, v \in DOMAIN row :
          row' = [row EXCEPT ![w].place = IF row[v].place = Null THEN @ ELSE row[v].place]
    BY <1>3 DEF EditRow
  <2>2. book' = book
    BY <1>3 DEF EditRow
  <2>3. PICK a : a = (IF row[v].place = Null THEN row[w].place ELSE row[v].place)
    OBVIOUS
  <2>4. row' = [row EXCEPT ![w].place = a]
    BY <1>1, <2>1, <2>3
  <2>5. \A u \in DOMAIN row : /\ row'[u].place = IF u = w THEN a ELSE row[u].place
                              /\ row'[u].count = row[u].count /\ row'[u].deal = row[u].deal
    BY <1>1, <2>4 DEF RowType
  <2> QED
    BY <2>2, <2>3, <2>5 DEF NothingEmptied
<1>4. ASSUME DropRow PROVE NothingEmptied
  <2>1. \A u \in DOMAIN row \cap DOMAIN row' : row'[u] = row[u]
    BY <1>4 DEF DropRow
  <2>2. book' = book
    BY <1>4, SMTT(60) DEF DropRow
  <2> QED
    BY <2>1, <2>2 DEF NothingEmptied
<1>5. ASSUME TrackDeal PROVE NothingEmptied
  <2>1. PICK d \in Booked :
          \/ row' = Put(row, <<born + 1, 1>>, [client |-> Account[d], place |-> book[d].place,
                                               count |-> Null, deal |-> d])
          \/ \E w \in DOMAIN row : row' = [row EXCEPT ![w].deal = d, ![w].place = Carried(book[d].place, @)]
                                   /\ row[w].deal = Null
    BY <1>5 DEF TrackDeal, OfClient, Linked
  <2>2. book' = book
    BY <1>5 DEF TrackDeal
  <2>3. CASE row' = Put(row, <<born + 1, 1>>, [client |-> Account[d], place |-> book[d].place,
                                               count |-> Null, deal |-> d])
    <3>1. <<born + 1, 1>> \notin DOMAIN row
      BY <1>1
    <3>2. \A w \in DOMAIN row : row'[w] = row[w]
      BY <2>3, <3>1 DEF Put
    <3>3. \A w \in DOMAIN row \cap DOMAIN row' : row'[w] = row[w]
      BY <3>2
    <3> QED
      BY <2>2, <3>3, Zenon DEF NothingEmptied
  <2>4. ASSUME NEW w \in DOMAIN row, row[w].deal = Null,
               row' = [row EXCEPT ![w].deal = d, ![w].place = Carried(book[d].place, @)]
        PROVE  NothingEmptied
    <3>1. PICK a : a = Carried(book[d].place, row[w].place)
      OBVIOUS
    <3>2. row[w].place # Null => a # Null
      BY <3>1 DEF Carried
    <3>3. row' = [row EXCEPT ![w] = [row[w] EXCEPT !.deal = d, !.place = a]]
      BY <1>1, <2>4, <3>1 DEF RowType
    <3>4. row[w] \in RowType
      BY <1>1
    <3>5. PICK r : r = [row[w] EXCEPT !.deal = d, !.place = a]
      OBVIOUS
    <3>6. r.place = a /\ r.count = row[w].count
      BY <3>4, <3>5 DEF RowType
    <3>7. row' = [row EXCEPT ![w] = r]
      BY <3>3, <3>5
    <3>8. \A u \in DOMAIN row : row'[u] = IF u = w THEN r ELSE row[u]
      BY <1>1, <3>7
    <3> QED
      BY <2>2, <2>4, <3>2, <3>6, <3>8 DEF NothingEmptied, Linked
  <2> QED
    BY <2>1, <2>3, <2>4, ZenonT(60)
<1>6. ASSUME RetireDeal PROVE NothingEmptied
  <2>1. PICK d \in Booked :
          /\ book' = [book EXCEPT ![d].live = FALSE]
          /\ row' = [w \in DOMAIN row |->
               IF w \in {v \in DOMAIN row : row[v].deal = d} THEN [row[w] EXCEPT !.deal = Null] ELSE row[w]]
    BY <1>6 DEF RetireDeal
  <2>2. /\ ~ book'[d].live
        /\ \A e \in Booked : book'[e].place = book[e].place /\ book'[e].count = book[e].count
    BY <1>1, <2>1 DEF DealType
  <2>3. \A w \in DOMAIN row : /\ row'[w].place = row[w].place /\ row'[w].count = row[w].count
                              /\ row'[w].deal = row[w].deal \/ row[w].deal = d
    BY <1>1, <2>1 DEF RowType
  <2>4. ASSUME NEW w \in DOMAIN row, Linked(row, w)
        PROVE  row'[w].deal = row[w].deal \/ ~ book'[row[w].deal].live
    BY <2>2, <2>3, <2>4
  <2> QED
    BY <2>2, <2>3, <2>4 DEF NothingEmptied
<1> QED
  BY <1>2, <1>3, <1>4, <1>5, <1>6

(* A sheet is applied as a whole or not at all, every line to a row that   *)
(* then says what it said, and neither an import nor another save of the   *)
(* board empties a cell or takes a row from its live deal.                 *)
THEOREM SheetsApplied == ImportSpec => SheetsAreApplied
<1>1. ImportInv /\ [ImportNext]_importVars => [NothingEmptied]_importVars /\ [LandsWhole]_importVars
  BY CommitLands, CallsWriteNoTable, OthersEmptyNothing DEF ImportNext
<1> QED
  BY <1>1, ImportsInvariant, PTL
     DEF ImportSpec, SheetsAreApplied, BlankMeansNoOpinion, SheetLandsWhole, NothingEmptied, LandsWhole
=============================================================================
