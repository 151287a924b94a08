------------------------------ MODULE Pipeline ------------------------------
(***************************************************************************)
(* The deal board and the delivery tracker, two tables that say the same   *)
(* thing and are kept in step by the calls that write them                 *)
(* (internal/deals/store.go, internal/delivery/store.go and link.go, and   *)
(* the tail of internal/leads/convert.go).  A call is a sequence of        *)
(* statements, each committed on its own: another call may run between     *)
(* any two of them, and nothing undoes the first ones when a later one     *)
(* fails.  EnsureRowForDeal is one statement in two steps, its snapshot    *)
(* and its writes.                                                         *)
(*                                                                         *)
(* Of the columns the tables share, the location stands for all three;     *)
(* setLocations rewrites only that one.  A deal's client is the name       *)
(* EnsureRowForDeal files it under.                                        *)
(***************************************************************************)
EXTENDS Stages, FiniteSets, Naturals

CONSTANTS Deals, Rows,    \* ids the database may hand out
          Requests,       \* calls that may be in flight at once
          Clients, Sites,
          Absent,         \* the link of a row that does not exist
          Asked           \* bound: the sets of inputs one behaviour draws from

ASSUME PipelineAssumption ==
  /\ \A a \in Asked : /\ a.stages \subseteq Stages /\ a.sites \subseteq Sites
  /\ None \notin Deals \cup Rows \cup Clients \cup Sites \cup Stages \cup Labels
  /\ Absent \notin Deals \cup {None}

VARIABLES
  deal,   \* absent, live or retired (deleted_at)
  stage,  \* deals.stage
  site,   \* deals.location
  account,\* the client a deal is filed under
  link,   \* delivery_tracker.deal_id, Absent for no row
  label,  \* delivery_tracker.current_stages
  place,  \* delivery_tracker.locations
  client, \* delivery_tracker.client
  req,    \* the calls in flight
  asked   \* bound: the stages, labels and locations that calls ask for, and
          \* how many deals they make

board   == <<deal, stage, site, account>>
tracker == <<link, label, place, client>>
vars    == <<board, tracker, req, asked>>

(* A call at rest.  alone, cut and kept are history: no other call ran     *)
(* since this one began; the deal's row has been deleted since then; what  *)
(* both sides said when the call began, if it only saves that again.       *)
Idle == [pc |-> "idle", op |-> "none", deal |-> None,
         stage |-> None, site |-> None, label |-> None, scan |-> None,
         alone |-> FALSE, cut |-> FALSE, kept |-> None]

Init ==
  /\ deal = [d \in Deals |-> "absent"]
  /\ stage = [d \in Deals |-> None]
  /\ site = [d \in Deals |-> None]
  /\ account = [d \in Deals |-> None]
  /\ link = [w \in Rows |-> Absent]
  /\ label = [w \in Rows |-> None]
  /\ place = [w \in Rows |-> None]
  /\ client = [w \in Rows |-> None]
  /\ req = [p \in Requests |-> Idle]
  /\ asked \in Asked

DealWrites == {"create", "save", "move"}
LinkedTo(d) == {w \in Rows : link[w] = d}

(* Both sides say the same.                                                *)
InStep(d, w) ==
  /\ link[w] = d
  /\ place[w] = site[d]
  /\ label[w] \in trackerLabelsFor(stage[d])

(* What both sides say of a deal, when they agree.                         *)
Said(d) ==
  IF \E w \in Rows : InStep(d, w)
    THEN <<stage[d], label[CHOOSE w \in Rows : InStep(d, w)]>>
    ELSE None

WriteRow(w, c, l, at) ==
  /\ label' = [label EXCEPT ![w] = l]
  /\ place' = [place EXCEPT ![w] = at]
  /\ client' = [client EXCEPT ![w] = c]

(* The other calls are no longer alone.                                    *)
Disturbed(q) ==
  IF req[q].pc = "idle" THEN Idle ELSE [req[q] EXCEPT !.alone = FALSE, !.kept = None]

Begin(p, call) ==
  LET alone == \A o \in Requests \ {p} : req[o].pc = "idle" IN
  req' = [q \in Requests |->
            IF q # p THEN Disturbed(q)
            ELSE [call EXCEPT !.alone = alone, !.kept = IF alone THEN @ ELSE None]]

Continue(p, call) == req' = [req EXCEPT ![p] = call]
Goto(p, point)    == Continue(p, [req[p] EXCEPT !.pc = point])
Finish(p, answer) == Continue(p, [req[p] EXCEPT !.pc = answer, !.stage = None,
                                    !.site = None, !.label = None, !.scan = None])
At(p, point)      == req[p].pc = point

Call(op, d, point) == [Idle EXCEPT !.pc = point, !.op = op, !.deal = d]

-----------------------------------------------------------------------------
(* Calls on the board.                                                     *)

(* INSERT INTO deals of a new deal.  A stage that deals_stage_check does   *)
(* not admit is refused, here as in the two UPDATEs below, and a refused   *)
(* first statement changes nothing.                                        *)
Insert(d, s) ==
  \E c \in Clients, at \in asked.sites \cup {None} :
    /\ deal[d] = "absent"
    /\ Cardinality({e \in Deals : deal[e] # "absent"}) < asked.deals
    /\ deal' = [deal EXCEPT ![d] = "live"]
    /\ stage' = [stage EXCEPT ![d] = s]
    /\ site' = [site EXCEPT ![d] = at]
    /\ account' = [account EXCEPT ![d] = c]

CreateDeal(p) ==
  /\ At(p, "idle")
  /\ \E d \in Deals, s \in asked.stages \cap StoredStages :
       /\ Insert(d, s)
       /\ Begin(p, Call("create", d, "written"))
  /\ UNCHANGED <<asked, tracker>>

(* The UPDATE of deals.update: a whole PUT.                                *)
UpdateDeal(p) ==
  /\ At(p, "idle")
  /\ \E d \in Deals, s \in asked.stages \cap StoredStages,
        c \in Clients, at \in asked.sites \cup {None} :
       /\ deal[d] = "live"
       /\ stage' = [stage EXCEPT ![d] = s]
       /\ site' = [site EXCEPT ![d] = at]
       /\ account' = [account EXCEPT ![d] = c]
       /\ Begin(p, [Call("save", d, "written") EXCEPT
                      !.kept = IF s = stage[d] THEN Said(d) ELSE None])
  /\ UNCHANGED <<asked, deal, tracker>>

MoveDeal_Retired(p) ==  \* mutation: no filter on deleted_at
  /\ At(p, "idle")
  /\ \E d \in Deals, s \in asked.stages \cap StoredStages :
       /\ deal[d] # "absent"
       /\ stage' = [stage EXCEPT ![d] = s]
       /\ Begin(p, Call("move", d, "located"))
  /\ UNCHANGED <<asked, deal, site, account, tracker>>

(* The UPDATE of deals.move.                                               *)
MoveDeal(p) ==
  /\ At(p, "idle")
  /\ \E d \in Deals, s \in asked.stages \cap StoredStages :
       /\ deal[d] = "live"
       /\ stage' = [stage EXCEPT ![d] = s]
       /\ Begin(p, Call("move", d, "located"))
  /\ UNCHANGED <<asked, deal, site, account, tracker>>

(* The transaction of leads.convert commits its deal; what it stored is    *)
(* what it will push.                                                      *)
ConvertLead(p) ==
  /\ At(p, "idle")
  /\ \E d \in Deals, s \in asked.stages \cap StoredStages :
       /\ Insert(d, s)
       /\ Begin(p, [Call("convert", d, "read") EXCEPT !.stage = s, !.site = site'[d]])
  /\ UNCHANGED <<asked, tracker>>

(* The chosen sites are joined into deals.location, or the caller's own    *)
(* text is written again, or neither.  Nobody would see it in a deal that  *)
(* has been retired.                                                       *)
setLocations(p) ==
  /\ At(p, "written")
  /\ \E at \in asked.sites \cup {site[req[p].deal]} :
       site' = IF deal[req[p].deal] = "live" THEN [site EXCEPT ![req[p].deal] = at] ELSE site
  /\ Goto(p, "located")
  /\ UNCHANGED <<asked, deal, stage, account, tracker>>

(* The deal is read back; what is read is what will be pushed.             *)
GetDeal(p) ==
  LET d == req[p].deal IN
  /\ At(p, "located")
  /\ IF deal[d] = "live"
       THEN Continue(p, [req[p] EXCEPT !.pc = "read", !.stage = stage[d], !.site = site[d]])
       ELSE Finish(p, "error")
  /\ UNCHANGED <<asked, board, tracker>>

(* The snapshot of EnsureRowForDeal: nothing to do for a deal that is gone *)
(* or has a row; else the unlinked rows of its client may be adopted.      *)
EnsureScan(p) ==
  LET d == req[p].deal IN
  /\ At(p, "read")
  /\ IF deal[d] = "live" /\ LinkedTo(d) = {}
       THEN Continue(p, [req[p] EXCEPT !.pc = "scanned", !.scan =
              [client |-> account[d], site |-> site[d],
               found |-> {w \in LinkedTo(None) : client[w] = account[d]}]])
       ELSE Goto(p, "ensured")
  /\ UNCHANGED <<asked, board, tracker>>

Adoptable_Unchecked(p) == req[p].scan.found \ LinkedTo(Absent)  \* mutation: no recheck

(* Rows found by the snapshot that another statement has changed are       *)
(* looked at again.                                                        *)
Adoptable(p) ==
  {w \in req[p].scan.found : link[w] = None /\ client[w] = req[p].scan.client}

RowTaken_Never(p) == FALSE  \* mutation: no unique index

(* delivery_tracker_deal_idx: one row per deal.                            *)
RowTaken(p) == LinkedTo(req[p].deal) # {}

EnsureAdopt(p) ==
  /\ At(p, "scanned")
  /\ ~ RowTaken(p)
  /\ \E w \in Rows :
       /\ Adoptable(p) = {w}
       /\ link' = [link EXCEPT ![w] = req[p].deal]
       /\ place' = [place EXCEPT ![w] =
                      IF req[p].scan.site = None THEN @ ELSE req[p].scan.site]
  /\ Continue(p, [req[p] EXCEPT !.pc = "ensured", !.scan = None])
  /\ UNCHANGED <<asked, board, label, client>>

EnsureInsert(p) ==
  /\ At(p, "scanned")
  /\ ~ RowTaken(p)
  /\ Adoptable(p) = {}
  /\ \E w \in LinkedTo(Absent) :
       /\ link' = [link EXCEPT ![w] = req[p].deal]
       /\ WriteRow(w, req[p].scan.client, None, req[p].scan.site)
  /\ Continue(p, [req[p] EXCEPT !.pc = "ensured", !.scan = None])
  /\ UNCHANGED <<asked, board>>

EnsureRefused_Swallowed(p) ==  \* mutation: every caller ignores the error
  /\ At(p, "scanned")
  /\ RowTaken(p) \/ \E v, w \in Adoptable(p) : v # w
  /\ Continue(p, [req[p] EXCEPT !.scan = None, !.pc = "ensured"])
  /\ UNCHANGED <<asked, board, tracker>>

(* The unique index refuses a second row, and two adoptions at once; a     *)
(* conversion ignores the error.                                           *)
EnsureRefused(p) ==
  /\ At(p, "scanned")
  /\ RowTaken(p) \/ \E v, w \in Adoptable(p) : v # w
  /\ IF req[p].op = "convert"
       THEN Continue(p, [req[p] EXCEPT !.pc = "ensured", !.scan = None])
       ELSE Finish(p, "error")
  /\ UNCHANGED <<asked, board, tracker>>

(* A label that already describes the stage is left alone.                 *)
PushedLabel(s, l) == IF l \in trackerLabelsFor(s) THEN l ELSE trackerStageByDeal[s]

SyncFromDeal(p) ==
  /\ At(p, "ensured")
  /\ label' = [w \in Rows |-> IF link[w] = req[p].deal
                                 THEN PushedLabel(req[p].stage, label[w]) ELSE label[w]]
  /\ place' = [w \in Rows |-> IF link[w] = req[p].deal THEN req[p].site ELSE place[w]]
  /\ Finish(p, "ok")
  /\ UNCHANGED <<asked, board, link, client>>

(* The soft delete and the unlinking commit together.  Every later         *)
(* statement filters deleted_at, so what a retired deal says is forgotten. *)
DeleteDeal ==
  \E d \in Deals :
    /\ deal[d] = "live"
    /\ deal' = [deal EXCEPT ![d] = "retired"]
    /\ stage' = [stage EXCEPT ![d] = None]
    /\ site' = [site EXCEPT ![d] = None]
    /\ account' = [account EXCEPT ![d] = None]
    /\ link' = [w \in Rows |-> IF link[w] = d THEN None ELSE link[w]]
    /\ req' = [q \in Requests |-> Disturbed(q)]
    /\ UNCHANGED <<asked, label, place, client>>

-----------------------------------------------------------------------------
(* Calls on the tracker.                                                   *)

(* A row typed by hand.                                                    *)
CreateRow ==
  \E w \in LinkedTo(Absent), c \in Clients, l \in asked.labels, at \in asked.sites \cup {None} :
    /\ link' = [link EXCEPT ![w] = None]
    /\ WriteRow(w, c, l, at)
    /\ req' = [q \in Requests |-> Disturbed(q)]
    /\ UNCHANGED <<asked, board>>

(* The UPDATE of delivery.update: the whole row, and a look at its deal,   *)
(* which a retired deal does not show.                                     *)
UpdateRow(p) ==
  /\ At(p, "idle")
  /\ \E w \in Rows, c \in Clients, l \in asked.labels, at \in asked.sites \cup {None} :
       /\ link[w] \in Deals /\ deal[link[w]] = "live"
       /\ WriteRow(w, c, l, at)
       /\ Begin(p, [Call("edit", link[w], "written-row") EXCEPT
                      !.label = l, !.site = at,
                      !.kept = IF l = label[w] THEN Said(link[w]) ELSE None])
  /\ UNCHANGED <<asked, board, link>>

(* A row with no deal to show is written by that statement alone.          *)
UpdateUnlinkedRow ==
  /\ \E w \in Rows, c \in Clients, l \in asked.labels, at \in asked.sites \cup {None} :
       /\ link[w] = None \/ (link[w] \in Deals /\ deal[link[w]] = "retired")
       /\ WriteRow(w, c, l, at)
  /\ req' = [q \in Requests |-> Disturbed(q)]
  /\ UNCHANGED <<asked, board, link>>

PushRow_NotBlank(p) ==  \* mutation: a blank cell is no opinion
  LET d == req[p].deal IN
  /\ At(p, "written-row")
  /\ site' = IF deal[d] = "live" /\ req[p].site # None
               THEN [site EXCEPT ![d] = req[p].site] ELSE site
  /\ IF req[p].label = None THEN Finish(p, "ok") ELSE Goto(p, "pushed")
  /\ UNCHANGED <<asked, deal, stage, account, tracker>>

(* The location is pushed onto the deal.                                   *)
PushRow(p) ==
  LET d == req[p].deal IN
  /\ At(p, "written-row")
  /\ site' = IF deal[d] = "live" THEN [site EXCEPT ![d] = req[p].site] ELSE site
  /\ IF req[p].label = None THEN Finish(p, "ok") ELSE Goto(p, "pushed")
  /\ UNCHANGED <<asked, deal, stage, account, tracker>>

(* A deal that is already displayed as the label stays where it is; so     *)
(* does one whose label has no stage, and deals_stage_check may refuse.    *)
SyncStageToDeal(p) ==
  LET d == req[p].deal
      target == MapTrackerStageToDeal(req[p].label)
      moves  == /\ target # None /\ deal[d] = "live"
                /\ stage[d] \notin {target} \cup dealStagesFor(req[p].label)
  IN
  /\ At(p, "pushed")
  /\ stage' = IF moves /\ target \in StoredStages THEN [stage EXCEPT ![d] = target] ELSE stage
  /\ Finish(p, IF moves /\ target \notin StoredStages THEN "error" ELSE "ok")
  /\ UNCHANGED <<asked, deal, site, account, tracker>>

DeleteRow ==
  \E w \in Rows :
    /\ link[w] # Absent
    /\ link' = [link EXCEPT ![w] = Absent]
    /\ WriteRow(w, None, None, None)
    /\ req' = [q \in Requests |->
                 [Disturbed(q) EXCEPT !.cut = @ \/ (~ At(q, "idle") /\ req[q].deal = link[w])]]
    /\ UNCHANGED <<asked, board>>

-----------------------------------------------------------------------------
Answer(p) ==
  /\ At(p, "ok") \/ At(p, "error")
  /\ Continue(p, Idle)
  /\ UNCHANGED <<asked, board, tracker>>

Next ==
  \/ \E p \in Requests :
       \/ CreateDeal(p) \/ UpdateDeal(p) \/ MoveDeal(p) \/ ConvertLead(p)
       \/ setLocations(p) \/ GetDeal(p) \/ EnsureScan(p)
       \/ EnsureAdopt(p) \/ EnsureInsert(p) \/ EnsureRefused(p) \/ SyncFromDeal(p)
       \/ UpdateRow(p) \/ PushRow(p) \/ SyncStageToDeal(p)
       \/ Answer(p)
  \/ DeleteDeal \/ CreateRow \/ UpdateUnlinkedRow \/ DeleteRow

Spec == Init /\ [][Next]_vars

-----------------------------------------------------------------------------
Ended(p) == At(p, "ok") \/ At(p, "error")

(* The tables and the calls keep their types, and an absent row is blank.  *)
TypeOK ==
  /\ deal \in [Deals -> {"absent", "live", "retired"}]
  /\ stage \in [Deals -> StoredStages \cup {None}]
  /\ site \in [Deals -> Sites \cup {None}]
  /\ account \in [Deals -> Clients \cup {None}]
  /\ link \in [Rows -> Deals \cup {None, Absent}]
  /\ label \in [Rows -> Labels \cup asked.labels \cup {None}]
  /\ place \in [Rows -> Sites \cup {None}]
  /\ client \in [Rows -> Clients \cup {None}]
  /\ asked \in Asked
  /\ \A d \in Deals : deal[d] = "live" <=> stage[d] # None
  /\ \A w \in Rows : link[w] = Absent => label[w] = None

(* A deal has at most one tracker row and a row never names a deal that    *)
(* was never stored (EnsureRowForDeal racing itself, imports aside).       *)
OneRowPerDeal ==
  \A v, w \in Rows :
    link[w] \in Deals => deal[link[w]] # "absent" /\ (link[v] = link[w] => v = w)

(* A row leaves its deal only when the deal is retired or the row deleted: *)
(* no write of another deal adopts it (link.go's three cases).             *)
RowsAreNotTaken ==
  [][\A w \in Rows :
       link[w] \in Deals /\ link'[w] # link[w] =>
         link'[w] = Absent \/ (link'[w] = None /\ deal'[link[w]] = "retired")]_vars

(* When a write of a deal is answered without error, the deal has a        *)
(* tracker row, whatever ran meanwhile, unless the deal was retired or its *)
(* row deleted (syncDelivery: failures are returned, not swallowed).       *)
AnsweredMeansTracked ==
  \A p \in Requests :
    At(p, "ok") /\ req[p].op \in DealWrites =>
      deal[req[p].deal] = "retired" \/ req[p].cut \/ LinkedTo(req[p].deal) # {}

(* A call that nothing interleaved with leaves both tables saying the      *)
(* same, whatever disagreement earlier races left behind; a label with no  *)
(* stage is the one difference (SyncFromDeal, delivery.update).            *)
UndisturbedWriteAgrees ==
  \A p \in Requests : At(p, "ok") /\ req[p].alone =>
    \A w \in Rows : link[w] \in Deals /\ link[w] = req[p].deal =>
      \/ InStep(req[p].deal, w)
      \/ /\ req[p].op = "edit" /\ place[w] = site[req[p].deal]
         /\ MapTrackerStageToDeal(label[w]) = None

(* Saving again what both sides already say moves nothing on the other     *)
(* side: a deal in negotiation is not dragged back to quote_sent by its    *)
(* "Quotation Sent" cell, a sub-stage is not flattened by an edit of its   *)
(* deal (the two guards of link.go and stages.go).                         *)
SavingAgainMovesNothing ==
  \A p \in Requests :
    Ended(p) /\ req[p].kept # None => Said(req[p].deal) = req[p].kept

(* Finding: EnsureRowForDeal gives every created deal its row.             *)
CreatedDealIsTracked ==
  \A p \in Requests :
    Ended(p) /\ req[p].alone /\ req[p].op = "create" /\ req[p].deal # None =>
      LinkedTo(req[p].deal) # {}

(* A deal has one row and no more: none of two that adopt or insert it at  *)
(* once gives it a second, and whoever is answered has given it its first. *)
DealsAreTracked == OneRowPerDeal /\ AnsweredMeansTracked

(* A write of a deal or of a row that no other one disturbs leaves both in *)
(* agreement, and repeating it changes nothing.                            *)
BoardsAgree == UndisturbedWriteAgrees /\ SavingAgainMovesNothing
=============================================================================
