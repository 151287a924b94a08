----------------------------- MODULE Timeline -----------------------------
(***************************************************************************)
(* The activities timeline (internal/activities) and the strip of recent   *)
(* entries on the dashboard.  An entry is about one record: the schema     *)
(* keeps an (entity_type, entity_id) pair, and whoever writes an entry may *)
(* name records of several tables.  The app logs what it did, after the    *)
(* fact and as far as it can; people log, edit and delete entries of their *)
(* own.  Each statement here stands alone, so a request is one step.       *)
(***************************************************************************)
EXTENDS Sequences, Naturals

CONSTANTS Entries,    \* ids of activities rows
          Ids,        \* uuids; one may be of several tables
          InTable,    \* the records there are: pairs of a table and an id
          Naming,     \* what writers name: for each table an id, or Blank
          Authors,    \* profiles
          Stranger,   \* a caller without a profile
          Texts,      \* bodies
          Blank

(* The tables an entry may be about, the most specific first.              *)
Order    == <<"lead", "deal", "company", "contact", "quote", "invoice">>
Subjects == {Order[i] : i \in DOMAIN Order}

ASSUME TimelineAssumption ==
  /\ Stranger \notin Authors
  /\ Blank \notin Ids \cup Texts \cup Authors
  /\ InTable \subseteq Subjects \X Ids
  /\ Naming \subseteq [Subjects -> Ids \cup {Blank}]

VARIABLE entry   \* activities; with named and app, history: what the writer
                 \* named, and whether it was the app's own record
timelineVars == <<entry>>

Kinds       == {"note", "call", "email", "meeting", "site_visit"}
StoredKinds == {"note", "call", "email", "meeting", "system"}  \* CHECK on activities.type

TimelineInit == entry = [e \in Entries |-> Blank]

-----------------------------------------------------------------------------
Mentioned(named) == {i \in DOMAIN Order : named[Order[i]] # Blank}
About(named, t)  == [type |-> t, id |-> named[t]]

entityOf_Last(named) ==  \* mutation: the last wins
  About(named, Order[CHOOSE i \in Mentioned(named) : \A j \in Mentioned(named) : j <= i])

(* entityOf, and subjectOf for people's entries: the first table wins.     *)
entityOf(named) ==
  About(named, Order[CHOOSE i \in Mentioned(named) : \A j \in Mentioned(named) : i <= j])

resolveKind(kind) == IF kind \in Kinds THEN kind ELSE "system"

Insert_AnyKind(e, named, kind, text, author, app) ==  \* mutation: no CHECK on the column
  /\ entry[e] = Blank /\ Mentioned(named) # {}
  /\ entry' = [entry EXCEPT ![e] =
       [about |-> entityOf(named), kind |-> kind, body |-> text, author |-> author,
        named |-> named, app |-> app]]

(* The row is of one pair, and of a kind the CHECK of the column knows:    *)
(* the site visits that the service lets through are refused here.         *)
Insert(e, named, kind, text, author, app) ==
  /\ entry[e] = Blank
  /\ Mentioned(named) # {}
  /\ kind \in StoredKinds
  /\ entry' = [entry EXCEPT ![e] =
       [about |-> entityOf(named), kind |-> kind, body |-> text, author |-> author,
        named |-> named, app |-> app]]

(* Log: nothing is inserted for an actor without a profile, and no caller  *)
(* hears of it.  Handlers leave the kind out but for a note and a call.    *)
Log(e) ==
  \E named \in Naming, kind \in {"", "note", "call"}, text \in Texts, actor \in Authors :
    Insert(e, named, resolveKind(kind), text, actor, kind = "")

(* Create: every record named exists; a caller without a profile is no     *)
(* author.  An entry without a body is refused by the column.              *)
CreateEntry(e) ==
  \E named \in Naming, kind \in Kinds, text \in Texts, actor \in Authors \cup {Stranger} :
    /\ \A t \in Subjects : named[t] # Blank => <<t, named[t]>> \in InTable
    /\ Insert(e, named, kind, text, IF actor = Stranger THEN Blank ELSE actor, FALSE)

UpdateEntry_Any(e) ==  \* mutation: no AND type <> 'system'
  /\ entry[e] # Blank
  /\ \E kind \in Kinds \cap StoredKinds, text \in Texts :
       entry' = [entry EXCEPT ![e].kind = kind, ![e].body = text]

UpdateEntry(e) ==
  /\ entry[e] # Blank /\ entry[e].kind # "system"
  /\ \E kind \in Kinds \cap StoredKinds, text \in Texts :
       entry' = [entry EXCEPT ![e].kind = kind, ![e].body = text]

DeleteEntry(e) ==
  /\ entry[e] # Blank /\ entry[e].kind # "system"
  /\ entry' = [entry EXCEPT ![e] = Blank]

TimelineNext ==
  \E e \in Entries : Log(e) \/ CreateEntry(e) \/ UpdateEntry(e) \/ DeleteEntry(e)

TimelineSpec == TimelineInit /\ [][TimelineNext]_timelineVars

-----------------------------------------------------------------------------
Rows == {e \in Entries : entry[e] # Blank}

(* list: the entries of the records a page asks for.                       *)
listEntries(asked) ==
  {e \in Rows : \A t \in Subjects :
     asked[t] # Blank => entry[e].about = [type |-> t, id |-> asked[t]]}

(* The labels of a row: each table is joined on the id, and on the type of *)
(* the row.  The dashboard joins "account", a type no row has.             *)
joined_AnyTable(e, tables) ==  \* mutation: joined on the id alone
  {r \in InTable : r[1] \in tables /\ r[2] = entry[e].about.id}

joined(e, tables) ==
  {r \in InTable : r[1] \in tables /\ entry[e].about = [type |-> r[1], id |-> r[2]]}

labels(e) == joined(e, {"lead", "deal", "company", "contact"})
recent(e) == joined(e, {"lead", "deal", "account"})

-----------------------------------------------------------------------------
(* A row is of a kind and about a table the schema knows.                  *)
TimelineTypeOK ==
  \A e \in Rows :
    /\ entry[e].about.type \in Subjects /\ entry[e].about.id \in Ids
    /\ entry[e].kind \in StoredKinds /\ entry[e].body \in Texts
    /\ entry[e].author \in Authors \cup {Blank}

(* An entry comes back on the page of one record, and that is the first of *)
(* those its writer named, whichever of the two writers it was: the two    *)
(* reductions to one pair and the six filters agree.  (So a conversion,    *)
(* "logged against every record the conversion touched", shows on the lead *)
(* alone: leads/handler.go.)                                               *)
ShownOnOnePage ==
  \A e \in Rows, t \in Subjects, i \in Ids :
    LET asked == [u \in Subjects |-> IF u = t THEN i ELSE Blank]
        Before(u) == \E p, q \in DOMAIN Order : p < q /\ Order[p] = u /\ Order[q] = t
    IN e \in listEntries(asked)
         <=> entry[e].named[t] = i /\ \A u \in Subjects : Before(u) => entry[e].named[u] = Blank

(* A row never wears the name of another record, not even of one with the  *)
(* same uuid in another table (store.go:84), on a page or on the strip.    *)
LabelsAreItsOwn ==
  \A e \in Rows :
    labels(e) \cup recent(e) \subseteq {<<entry[e].about.type, entry[e].about.id>>}

(* What the app recorded is its own and stands: no edit or deletion by     *)
(* people touches it, nor turns an entry of theirs into one.               *)
RecordsOfTheAppStand ==
  [][\A e \in Entries :
       /\ entry[e] # Blank /\ entry[e].app => entry'[e] = entry[e]
       /\ entry'[e] # Blank => (entry'[e].kind = "system" <=> entry'[e].app)]_timelineVars

(* An entry is on one page under its own label, and those of the app are   *)
(* nobody's to change.                                                     *)
EntriesAreTrue ==
  /\ [](ShownOnOnePage /\ LabelsAreItsOwn)
  /\ RecordsOfTheAppStand
=============================================================================
