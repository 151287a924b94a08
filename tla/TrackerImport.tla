--------------------------- MODULE TrackerImport ---------------------------
(***************************************************************************)
(* Importing a sheet into the delivery tracker: the preview of an upload   *)
(* (internal/delivery/importer.go) and the transaction that applies what   *)
(* was confirmed (upsertMany, resolveByClient in internal/delivery/        *)
(* store.go).  A transaction sees what is committed under what it wrote    *)
(* itself, and holds the rows and deals it wrote until it ends; a step     *)
(* resolves the row of a line, resolves its deal, or is one write.  Around *)
(* the imports, other calls write the tables statement by statement.       *)
(*                                                                         *)
(* Rows are ordered by created_at, the moment their transaction began, and *)
(* rows of one transaction by a random id.  The camera count stands for    *)
(* the columns a row shares with its deal, besides the location.           *)
(***************************************************************************)
EXTENDS Sheet
LOCAL Ext == INSTANCE SequencesExt

CONSTANTS Imports,   \* imports that may be in flight at once
          Booked,     \* 1, 2, ...: in the order they were made
          Words,      \* what a cell of text may say
          Title, Account, \* the title of a deal, the name of its company
          Clean,     \* cleanIdentifier: what is left of a name, or Null
          Worlds,    \* the tables a behaviour starts with
          Uploads,   \* the workbooks that are uploaded
          Births,    \* bound: transactions that may add rows
          Others     \* bound: writes of other calls

VARIABLES
  row,   \* delivery_tracker, a function of the ids in it
  book,  \* deals: [live, place, count]
  imp,   \* the imports in flight
  born,  \* bound: transactions that added rows so far
  others \* bound: writes of other calls so far

importVars == <<row, book, imp, born, others>>

Ids == (0 .. Births) \X (1 .. 3)
LineType == [client : Words, title : Words \cup {Null},
             place : Words \cup {Null}, count : Nat \cup {Null}]
RowType  == [client : Words, place : Words \cup {Null}, count : Nat \cup {Null},
             deal : Booked \cup {Null}]
DealType == [live : BOOLEAN, place : Words \cup {Null}, count : Nat \cup {Null}]

(* A table with one entry written, and one table laid over another.        *)
Put(table, key, entry) == [k \in DOMAIN table \cup {key} |-> IF k = key THEN entry ELSE table[k]]
Over(written, table)   == [k \in DOMAIN written \cup DOMAIN table |->
                             IF k \in DOMAIN written THEN written[k] ELSE table[k]]

Linked(rows, w) == rows[w].deal # Null
Older(v, w) == v[1] < w[1] \/ (v[1] = w[1] /\ v[2] < w[2])

(* hit and shown name a row per line, Null for a new one.  alone, exact,   *)
(* same and cut are history: nothing else was written since the preview;   *)
(* the first line names no deal and had one row of its client and place;   *)
(* what that row said, when the preview called it unchanged; a row of the  *)
(* import was deleted by another call before it was written.               *)
NoImport == [pc |-> "idle", lines |-> <<>>, at |-> 0, birth |-> 0, found |-> Null,
         deal |-> Null, rows |-> <<>>, deals |-> <<>>,
         shown |-> <<>>, hit |-> <<>>, alone |-> FALSE, exact |-> FALSE,
         same |-> Null, cut |-> FALSE]

ImportInit ==
  /\ \E w \in Worlds : row = w.row /\ book = w.book
  /\ imp = [p \in Imports |-> NoImport]
  /\ born = 0
  /\ others = 0

Stands(p, point) == imp[p].pc = point
Line(p)      == imp[p].lines[imp[p].at]

(* What the transaction of p sees, and what others may not touch.          *)
RowsSeen(p)  == Over(imp[p].rows, row)
DealsSeen(p) == Over(imp[p].deals, book)
HeldRows     == UNION {DOMAIN imp[q].rows : q \in Imports}
HeldDeals    == UNION {DOMAIN imp[q].deals : q \in Imports}
Elsewhere(p) == Imports \ {p}
RowHeld_Never(p, w) == FALSE  \* mutation: no row locks
RowHeld(p, w)  == \E q \in Elsewhere(p) : w \in DOMAIN imp[q].rows
DealHeld(p, d) == \E q \in Elsewhere(p) : d \in DOMAIN imp[q].deals
LinkHeld(S, d) == \E q \in S : \E w \in DOMAIN imp[q].rows : imp[q].rows[w].deal = d

Proceed(p, call) == imp' = [imp EXCEPT ![p] = call]

-----------------------------------------------------------------------------
(* The row and the deal of a line.                                         *)

(* ORDER BY (deal_id IS NOT NULL), created_at, id.                         *)
Before(rows, v, w) ==
  \/ ~ Linked(rows, v) /\ Linked(rows, w)
  \/ (Linked(rows, v) <=> Linked(rows, w)) /\ Older(v, w)

FirstOf(rows, S) ==
  IF S = {} THEN Null ELSE CHOOSE w \in S : \A v \in S \ {w} : Before(rows, w, v)

OfClient(rows, c) == {w \in DOMAIN rows : rows[w].client = c}
Cleaned(rows, c)  == {w \in DOMAIN rows : Clean[c] # Null /\ Clean[rows[w].client] = Clean[c]}
Unplaced(rows)    == {w \in DOMAIN rows : rows[w].place = Null}
Placed(rows, at)  == {w \in DOMAIN rows : rows[w].place = at}

RowOfClient_AnyPlace(rows, l) ==  \* mutation: the location is no part of the match
  LET ofClient == OfClient(rows, l.client) IN
  FirstOf(rows, IF ofClient # {} THEN ofClient ELSE Cleaned(rows, l.client))

RowOfClient_Placeless(rows, l) ==  \* mutation: a line without a location finds no row that has one
  LET ofClient == OfClient(rows, l.client)
      there    == ofClient \cap Placed(rows, l.place)
  IN  FirstOf(rows, IF there # {} THEN there ELSE ofClient \cap Unplaced(rows))

(* The client and the location, then the client without a location, or any *)
(* row of the client when the line names no location; then the same for    *)
(* names that differ in punctuation only.                                  *)
RowOfClient(rows, l) ==
  LET ofClient == OfClient(rows, l.client)
      there    == ofClient \cap Placed(rows, l.place)
      nowhere  == ofClient \cap Unplaced(rows)
      alike    == Cleaned(rows, l.client)
  IN
  FirstOf(rows,
    IF l.place # Null
      THEN IF there # {} THEN there
           ELSE IF nowhere # {} THEN nowhere
           ELSE alike \cap (Placed(rows, l.place) \cup Unplaced(rows))
      ELSE IF ofClient # {} THEN ofClient ELSE alike)

(* What a line may resolve to: its titled deal (any, when titles repeat)   *)
(* and that deal's row, else a row of its client.  The deal of the row     *)
(* that is found replaces the titled one, also when it has none.           *)
Resolved(rows, deals, l) ==
  LET titled == {d \in Booked : deals[d].live /\ l.title # Null /\ Title[d] = l.title}
      RowOf(d) == {w \in DOMAIN rows : d # Null /\ rows[w].deal = d}
      found == RowOfClient(rows, l)
  IN
  {IF RowOf(d) # {} THEN [row |-> CHOOSE w \in RowOf(d) : TRUE, deal |-> d]
   ELSE [row |-> found, deal |-> IF found # Null THEN rows[found].deal ELSE d] :
     d \in IF titled = {} THEN {Null} ELSE titled}

(* The deal of a line whose row has none: the newest of its client there,  *)
(* else the newest without a location.                                     *)
DealOfClient(deals, l) ==
  LET named == {d \in Booked : deals[d].live /\ l.client \in {Title[d], Account[d]}}
      there == {d \in named : deals[d].place = l.place}
      nowhere == {d \in named : deals[d].place = Null}
      found == IF l.place = Null THEN named ELSE IF there # {} THEN there ELSE nowhere
  IN  IF found = {} THEN Null ELSE CHOOSE d \in found : \A e \in found : e <= d

Carried_Blank(new, old) == new  \* mutation: a blank cell clears the column

(* COALESCE: a blank cell is no opinion.                                   *)
Carried(new, old) == IF new = Null THEN old ELSE new

Assigned_Any(rows, w, d) == d  \* mutation: the deal is claimed whoever holds it

(* A deal is claimed only if no other row is seen to hold it.              *)
Assigned(rows, w, d) == IF \E v \in DOMAIN rows \ {w} : rows[v].deal = d THEN Null ELSE d

(* The row after a line was written to it, w among them or not yet.        *)
Written(rows, w, d, l) ==
  LET old == IF w \in DOMAIN rows THEN rows[w]
             ELSE [client |-> l.client, place |-> Null, count |-> Null, deal |-> Null] IN
  [client |-> l.client,
   place  |-> Carried(l.place, old.place),
   count  |-> Carried(l.count, old.count),
   deal   |-> IF old.deal # Null \/ d = Null THEN old.deal ELSE Assigned(rows, w, d)]

Pushed(deal, l) ==
  IF deal.live THEN [deal EXCEPT !.place = Carried(l.place, @), !.count = Carried(l.count, @)]
  ELSE deal

-----------------------------------------------------------------------------
(* The preview.                                                            *)

locKey(l) == <<l.client, l.place>>

(* Unlinked beats linked, then the oldest; rows of one age keep the order  *)
(* they were arranged in, which may be any.  The list shows a row whose    *)
(* deal was retired as unlinked.                                           *)
ListedLinked(rows, w) == Linked(rows, w) /\ book[rows[w].deal].live

preferRow(rows, v, w) ==
  \/ ~ ListedLinked(rows, v) /\ ListedLinked(rows, w)
  \/ (ListedLinked(rows, v) <=> ListedLinked(rows, w)) /\ v[1] < w[1]

Preferred(rows, S) == {w \in S : \A v \in S : ~ preferRow(rows, v, w)}

(* The rows a line may be shown against: of its client and location, else  *)
(* what its client is filed under, which is the first of its rows or a     *)
(* preferred one without a location.                                       *)
ShownRows(rows, l) ==
  LET ofClient == OfClient(rows, l.client)
      there    == ofClient \cap Placed(rows, l.place)
      nowhere  == ofClient \cap Unplaced(rows)
  IN
  CASE ofClient = {} -> {Null}
    [] l.place # Null /\ there # {} -> Preferred(rows, there)
    [] OTHER -> UNION {Preferred(rows, nowhere \cup {first}) : first \in ofClient}

(* A line repeated for one client and location folds: the later one wins,  *)
(* at the place of the earlier.                                            *)
Folded(lines) ==
  LET firsts == {i \in DOMAIN lines : \A j \in 1 .. i-1 : locKey(lines[j]) # locKey(lines[i])}
      kept   == Ext!SetToSortSeq(firsts, <)
      last(i) == Ext!Max({j \in DOMAIN lines : locKey(lines[j]) = locKey(lines[i])})
  IN  [k \in DOMAIN kept |-> lines[last(kept[k])]]

(* What is shown of an upload that has headings and a client column.       *)
Shown(up) ==
  LET rows == parseSheet(up).rows IN Folded([k \in DOMAIN rows |-> rows[k].values])

Sheets == {Shown(up) : up \in {u \in Uploads : HasClients(u.master)}} \ {<<>>}

(* The deals are numbered; ids, deals and the blank are told apart; a      *)
(* sheet is a list of lines that name a client (the heading of one was     *)
(* found, and a line without is refused); at first every row has an age    *)
(* and no two rows have one deal (delivery_tracker_deal_idx).              *)
ASSUME ImportAssumption ==
  /\ IsFiniteSet(Booked) /\ Booked = 1 .. Cardinality(Booked)
  /\ Births \in Nat /\ Others \in Nat /\ Null \notin Booked \cup Ids
  /\ Account \in [Booked -> Words]
  /\ Sheets \subseteq Seq(LineType)
  /\ \A w \in Worlds :
       /\ DOMAIN w.row \subseteq {0} \X (1 .. 3) /\ w.row \in [DOMAIN w.row -> RowType]
       /\ w.book \in [Booked -> DealType]
       /\ \A u, v \in DOMAIN w.row : w.row[u].deal = w.row[v].deal /\ Linked(w.row, u) => u = v

(* Whether a line would change a cell of a row.                            *)
diff(old, l) ==
  \/ old.client # l.client
  \/ l.place # Null /\ old.place # l.place
  \/ l.count # Null /\ old.count # l.count

Exact(rows, l) ==
  /\ l.title = Null /\ l.place # Null
  /\ Cardinality(OfClient(rows, l.client) \cap Placed(rows, l.place)) = 1

(* POST of a file: nothing is written.                                     *)
Preview(p) ==
  \E lines \in Sheets :
    /\ Stands(p, "idle")
    /\ born < Births
    /\ \E shown \in [DOMAIN lines -> DOMAIN row \cup {Null}] :
         /\ \A i \in DOMAIN lines : shown[i] \in ShownRows(row, lines[i])
         /\ Proceed(p, [NoImport EXCEPT !.pc = "shown", !.lines = lines,
               !.alone = TRUE, !.shown = shown, !.exact = Exact(row, lines[1]),
               !.same = IF Exact(row, lines[1]) /\ Len(lines) = 1
                             /\ ~ diff(row[shown[1]], lines[1])
                          THEN row[shown[1]] ELSE Null])
    /\ UNCHANGED <<row, book, born, others>>

-----------------------------------------------------------------------------
(* The transaction of upsertMany.                                          *)

(* The rows that were shown are sent back and the transaction begins.      *)
Confirm(p) ==
  /\ Stands(p, "shown")
  /\ born < Births
  /\ born' = born + 1
  /\ Proceed(p, [imp[p] EXCEPT !.pc = "row", !.at = 1, !.birth = born + 1])
  /\ UNCHANGED <<row, book, others>>

ResolveRow(p) ==
  /\ Stands(p, "row")
  /\ \E r \in Resolved(RowsSeen(p), DealsSeen(p), Line(p)) :
       Proceed(p, [imp[p] EXCEPT !.pc = IF r.deal = Null THEN "deal" ELSE "write",
                                  !.found = r.row, !.deal = r.deal])
  /\ UNCHANGED <<row, book, born, others>>

ResolveDeal(p) ==
  /\ Stands(p, "deal")
  /\ Proceed(p, [imp[p] EXCEPT !.pc = "write", !.deal = DealOfClient(DealsSeen(p), Line(p))])
  /\ UNCHANGED <<row, book, born, others>>

NextLine_Short(call) ==  \* mutation: the last line is forgotten
  IF call.at + 1 >= Len(call.lines) THEN [call EXCEPT !.pc = "end", !.found = Null, !.deal = Null]
  ELSE [call EXCEPT !.pc = "row", !.at = @ + 1, !.found = Null, !.deal = Null]

(* On to the next line.                                                    *)
NextLine(call) ==
  IF call.at = Len(call.lines) THEN [call EXCEPT !.pc = "end", !.found = Null, !.deal = Null]
  ELSE [call EXCEPT !.pc = "row", !.at = @ + 1, !.found = Null, !.deal = Null]

AfterWrite(call) == IF call.deal = Null THEN NextLine(call) ELSE [call EXCEPT !.pc = "push"]

NewIds(p) == {w \in {imp[p].birth} \X (1 .. 3) : w \notin DOMAIN RowsSeen(p)}

InsertRow(p) ==
  /\ Stands(p, "write") /\ imp[p].found = Null
  /\ imp[p].deal = Null \/ ~ LinkHeld(Elsewhere(p), imp[p].deal)
  /\ \E w \in NewIds(p) :
       Proceed(p, AfterWrite([imp[p] EXCEPT
         !.rows = Put(@, w, Written(RowsSeen(p), w, imp[p].deal, Line(p))),
         !.hit = Append(@, w)]))
  /\ UNCHANGED <<row, book, born, others>>

(* The write waits for a row, or a deal's link, that another import holds. *)
(* A row deleted meanwhile is not written, and the line counts as updated. *)
OverwriteRow(p) ==
  LET w == imp[p].found IN
  /\ Stands(p, "write") /\ w # Null
  /\ ~ RowHeld(p, w)
  /\ imp[p].deal = Null \/ ~ LinkHeld(Elsewhere(p), imp[p].deal)
  /\ Proceed(p, AfterWrite(
       IF w \in DOMAIN RowsSeen(p)
         THEN [imp[p] EXCEPT
                 !.rows = Put(@, w, Written(RowsSeen(p), w, imp[p].deal, Line(p))),
                 !.hit = Append(@, w)]
         ELSE [imp[p] EXCEPT !.cut = TRUE, !.hit = Append(@, w)]))
  /\ UNCHANGED <<row, book, born, others>>

PushDeal_Skipped(p) ==  \* mutation: the deal is not told
  /\ Stands(p, "push")
  /\ Proceed(p, NextLine(imp[p]))
  /\ UNCHANGED <<row, book, born, others>>

(* The deal is told, linked to the row or not.                             *)
PushDeal(p) ==
  LET d == imp[p].deal IN
  /\ Stands(p, "push")
  /\ ~ DealHeld(p, d)
  /\ Proceed(p, NextLine([imp[p] EXCEPT !.deals = Put(@, d, Pushed(DealsSeen(p)[d], Line(p)))]))
  /\ UNCHANGED <<row, book, born, others>>

(* Another call wrote something: nobody is alone any longer.               *)
Interrupted == [q \in Imports |-> IF Stands(q, "idle") THEN NoImport ELSE [imp[q] EXCEPT !.alone = FALSE]]

Commit(p) ==
  /\ Stands(p, "end")
  /\ row' = RowsSeen(p)
  /\ book' = DealsSeen(p)
  /\ imp' = [Interrupted EXCEPT ![p] = [imp[p] EXCEPT !.pc = "ok", !.rows = <<>>, !.deals = <<>>]]
  /\ UNCHANGED <<born, others>>

(* Any statement may be refused: a unique index, a deadlock, a lost        *)
(* connection.  Nothing of the sheet remains.                              *)
Fail(p) ==
  /\ imp[p].at > 0 /\ ~ Stands(p, "ok")
  /\ Proceed(p, [NoImport EXCEPT !.pc = "error"])
  /\ UNCHANGED <<row, book, born, others>>

(* The preview is put away, or the answer is read.                         *)
EndImport(p) ==
  /\ Stands(p, "shown") \/ Stands(p, "ok") \/ Stands(p, "error")
  /\ Proceed(p, NoImport)
  /\ UNCHANGED <<row, book, born, others>>

-----------------------------------------------------------------------------
(* Single statements of the other calls that write these tables; each      *)
(* waits for the rows and deals that an import holds.                      *)

Other ==
  /\ others < Others
  /\ others' = others + 1
  /\ imp' = Interrupted

EditRow ==
  /\ Other
  /\ \E w \in DOMAIN row \ HeldRows, v \in DOMAIN row :
       row' = [row EXCEPT ![w].place = IF row[v].place = Null THEN @ ELSE row[v].place]
  /\ UNCHANGED <<book, born>>

DropRow ==
  /\ Other
  /\ \E w \in DOMAIN row \ HeldRows :
       row' = [v \in DOMAIN row \ {w} |-> row[v]]
  /\ UNCHANGED <<book, born>>

(* EnsureRowForDeal: the one unlinked row of the company, or a new row.    *)
TrackDeal ==
  /\ Other
  /\ born < Births
  /\ born' = born + 1
  /\ \E d \in Booked :
       LET free == {w \in OfClient(row, Account[d]) : ~ Linked(row, w)} IN
       /\ book[d].live /\ ~ LinkHeld(Imports, d)
       /\ \A w \in DOMAIN row : row[w].deal # d
       /\ \/ /\ free = {}
             /\ row' = Put(row, <<born + 1, 1>>, [client |-> Account[d], place |-> book[d].place,
                                                count |-> Null, deal |-> d])
          \/ \E w \in free \ HeldRows :
                /\ free = {w}
                /\ row' = [row EXCEPT ![w].deal = d, ![w].place = Carried(book[d].place, @)]
  /\ UNCHANGED book

RetireDeal ==
  /\ Other
  /\ \E d \in Booked \ HeldDeals :
       LET linked == {w \in DOMAIN row : row[w].deal = d} IN
       /\ book[d].live /\ linked \cap HeldRows = {}
       /\ book' = [book EXCEPT ![d].live = FALSE]
       /\ row' = [w \in DOMAIN row |-> IF w \in linked THEN [row[w] EXCEPT !.deal = Null] ELSE row[w]]
  /\ UNCHANGED born

ImportNext ==
  \/ \E p \in Imports :
       \/ Preview(p) \/ Confirm(p) \/ ResolveRow(p) \/ ResolveDeal(p)
       \/ InsertRow(p) \/ OverwriteRow(p) \/ PushDeal(p)
       \/ Commit(p) \/ Fail(p) \/ EndImport(p)
  \/ EditRow \/ DropRow \/ TrackDeal \/ RetireDeal

ImportSpec == ImportInit /\ [][ImportNext]_importVars

-----------------------------------------------------------------------------
Done(p)  == Stands(p, "ok") /\ imp[p].alone
Lines(p) == {imp[p].lines[i] : i \in DOMAIN imp[p].lines}

(* The tables and the imports keep their types.                            *)
ImportTypeOK ==
  /\ DOMAIN row \subseteq Ids /\ row \in [DOMAIN row -> RowType]
  /\ book \in [Booked -> DealType]
  /\ born \in 0 .. Births /\ others \in 0 .. Others
  /\ \A p \in Imports :
       /\ imp[p].at \in 0 .. Len(imp[p].lines)
       /\ DOMAIN imp[p].rows \subseteq Ids /\ DOMAIN imp[p].deals \subseteq Booked
       /\ \A q \in Elsewhere(p) : DOMAIN imp[p].rows \cap DOMAIN imp[q].rows = {}

(* No two rows hold one deal, whatever imports and saves of the board ran  *)
(* together (the claim in upsertMany, delivery_tracker_deal_idx).          *)
DealKeepsOneRow ==
  \A v, w \in DOMAIN row :
    Linked(row, w) /\ row[v].deal = row[w].deal => v = w

(* A cell that says something is never emptied by an import: a blank in    *)
(* the sheet is no opinion, for the row and for its deal (the COALESCEs of *)
(* upsertMany); and a row is not taken from its deal.                      *)
BlankMeansNoOpinion ==
  [][/\ \A w \in DOMAIN row \cap DOMAIN row' :
          /\ row[w].place # Null => row'[w].place # Null
          /\ row[w].count # Null => row'[w].count # Null
          /\ Linked(row, w) => row'[w].deal = row[w].deal \/ ~ book'[row[w].deal].live
     /\ \A d \in Booked :
          /\ book[d].place # Null => book'[d].place # Null
          /\ book[d].count # Null => book'[d].count # Null]_importVars

(* What the last line to say something of a row said is what the row says. *)
Landed(p, rows) ==
  \A i \in DOMAIN imp[p].lines :
    LET l == imp[p].lines[i]
        w == imp[p].hit[i]
        later == {imp[p].lines[j] : j \in {k \in DOMAIN imp[p].hit : k > i /\ imp[p].hit[k] = w}}
    IN w \in DOMAIN rows =>
         /\ l.place # Null /\ (\A m \in later : m.place = Null) => rows[w].place = l.place
         /\ l.count # Null /\ (\A m \in later : m.count = Null) => rows[w].count = l.count

(* A sheet lands whole or not at all: the tables change under an import    *)
(* only when it ends, and then every one of its lines has its row, save    *)
(* the rows that others deleted under it (the transaction of upsertMany).  *)
SheetLandsWhole ==
  [][others' = others =>
       IF \E p \in Imports : Stands(p, "end") /\ imp'[p].pc = "ok"
         THEN \A p \in Imports : Stands(p, "end") /\ imp'[p].pc = "ok" =>
                /\ Len(imp[p].hit) = Len(imp[p].lines)
                /\ ~ imp[p].cut => \A i \in DOMAIN imp[p].hit : imp[p].hit[i] \in DOMAIN row'
                /\ Landed(p, row')
         ELSE UNCHANGED <<row, book>>]_importVars

(* After an import that nothing disturbed, the row of the last line and    *)
(* the live deal it is linked to say the same of what the line carried:    *)
(* the board does not keep the count that the sheet replaced.              *)
LastLineReachesBoth ==
  \A p \in Imports : Done(p) =>
    LET l == imp[p].lines[Len(imp[p].lines)]
        w == imp[p].hit[Len(imp[p].lines)]
    IN Linked(row, w) /\ book[row[w].deal].live =>
         /\ l.place # Null => book[row[w].deal].place = row[w].place
         /\ l.count # Null => book[row[w].deal].count = row[w].count

(* What importing one more line would make of the tables.                  *)
Applied(db, l) ==
  LET r == CHOOSE r \in Resolved(db.rows, db.deals, l) : TRUE
      d == IF r.deal = Null THEN DealOfClient(db.deals, l) ELSE r.deal
      w == IF r.row = Null THEN <<Births + 1, 1>> ELSE r.row
  IN [rows  |-> Put(db.rows, w, Written(db.rows, w, d, l)),
      deals |-> [e \in Booked |-> IF e = d THEN Pushed(db.deals[e], l) ELSE db.deals[e]]]

Untitled(p) == \A l \in Lines(p) : l.title = Null

(* An undisturbed sheet that names no deals and is imported again finds a  *)
(* row for every line, so the tracker does not grow duplicates.            *)
ReimportGrowsNothing ==
  \A p \in Imports : Done(p) /\ Untitled(p) =>
    \A l \in Lines(p) : RowOfClient(row, l) # Null

(* Where besides every client of the sheet has one line and one row, and   *)
(* tells no deal but the one its row is linked to, importing it again      *)
(* changes nothing at all, neither the tracker nor the deals.  A sheet of  *)
(* one line may tell the deal of another row.  (With a second row, the     *)
(* next import prefers the row that the first did not link; a deal that    *)
(* two lines tell says what the later one said, and the earlier one may    *)
(* find another deal there the next time.)                                 *)
ReimportChangesNothing ==
  \A p \in Imports :
    LET lines == imp[p].lines
        db    == [rows |-> row, deals |-> book]
    IN
    /\ Done(p) /\ Untitled(p)
    /\ \A i, j \in DOMAIN lines : Clean[lines[i].client] = Clean[lines[j].client] => i = j
    /\ \A l \in Lines(p) :
         /\ Cardinality(Cleaned(row, l.client)) = 1
         /\ \/ Len(lines) = 1 \/ DealOfClient(book, l) = Null
            \/ \A w \in Cleaned(row, l.client) : Linked(row, w)
    => \A l \in Lines(p) : Applied(db, l) = db

(* Of an undisturbed import, the first line is written where the preview   *)
(* showed it, if it names no deal and the preview had one row of its       *)
(* client and location (that far Preview and resolveByClient agree).       *)
ExactMatchesAgree ==
  \A p \in Imports : Done(p) /\ imp[p].exact => imp[p].hit[1] = imp[p].shown[1]

(* A line that was shown as unchanged, in an undisturbed import of its     *)
(* own, leaves the cells of its row as they were (diff and the COALESCEs   *)
(* of upsertMany have the same notion of no opinion).                      *)
UnchangedMeansUnchanged ==
  \A p \in Imports : Done(p) /\ imp[p].same # Null =>
    [row[imp[p].hit[1]] EXCEPT !.deal = Null] = [imp[p].same EXCEPT !.deal = Null]

(* A line lands where it was shown to: in one row, of its deal if it has   *)
(* one, and the last line of a row is what the row and its deal say in the *)
(* end.                                                                    *)
ImportIsExact == DealKeepsOneRow /\ LastLineReachesBoth /\ ExactMatchesAgree

(* What the tracker has already is not brought in again, by a second       *)
(* import of a sheet or by a line that was shown as unchanged.             *)
ReimportIsIdle == ReimportGrowsNothing /\ ReimportChangesNothing /\ UnchangedMeansUnchanged

(* A sheet is applied as a whole, and its blank cells take nothing away.   *)
SheetsAreApplied == BlankMeansNoOpinion /\ SheetLandsWhole
=============================================================================
