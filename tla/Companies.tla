----------------------------- MODULE Companies -----------------------------
(***************************************************************************)
(* Companies and what is filed under them (internal/accounts, contacts,    *)
(* and the account of a converted lead).  Deleting a company retires its   *)
(* contacts, leads, deals, quotes and invoices in one transaction, table   *)
(* by table; its profile is read by one query per table; saving it is two  *)
(* statements; converting a lead finds a company by name, or makes it.     *)
(*                                                                         *)
(* A step is one SQL statement.  A transaction's changes are seen by       *)
(* others when it commits (READ COMMITTED); the rows it has changed are    *)
(* locked until then.  An accounts row is never removed, so a foreign key  *)
(* to it always holds.                                                     *)
(***************************************************************************)
EXTENDS Sequences, Naturals, FiniteSets

CONSTANTS Accounts, Names, Records, Callers,
          Table,    \* the table each record is in
          Unset

ASSUME CompaniesAssumption ==
  /\ Unset \notin Accounts \cup Names
  /\ Table \in [Records -> {"contacts", "leads", "deals", "quotes", "invoices"}]

Tables   == <<"contacts", "leads", "deals", "quotes", "invoices">>
Sections == <<"deals", "quotes", "invoices", "contacts", "leads">>
DealRecords    == {r \in Records : Table[r] = "deals"}

VARIABLES
  acct,   \* the accounts rows: a name (Unset: no row yet), retired or not, the profile
  rec,    \* the records: an account (Unset: no row), retired or not
  row,    \* the deals that have a line in the delivery tracker
  call,   \* the requests that take several statements
  late,   \* history: the records filed under a company being or been deleted
  mixed,  \* history: the companies whose last save overlapped another change
  twin    \* history: the companies that took a name knowing no other had it was stale

companyVars == <<acct, rec, row, call, late, mixed, twin>>
history == <<late, mixed, twin>>

NoCall == [kind |-> "idle", a |-> Unset, n |-> Unset, at |-> 0, taken |-> {}, swept |-> {}]

Exists(a)      == acct[a].name # Unset
Live(a)        == Exists(a) /\ ~ acct[a].dead
LiveUnder(a)   == {r \in Records : rec[r].acct = a /\ ~ rec[r].dead}
Named(n)       == {a \in Accounts : Live(a) /\ acct[a].name = n}
AccountHeld(a) == \E c \in Callers : call[c].kind = "delete" /\ call[c].a = a
Held(r)        == \E c \in Callers : call[c].kind \in {"delete", "retire"} /\ r \in call[c].taken
Saving(a)      == \E c \in Callers : call[c].kind = "save" /\ call[c].a = a
Deleting(a)    == AccountHeld(a) \/ (Exists(a) /\ acct[a].dead)

CompaniesInit ==
  /\ acct = [a \in Accounts |-> [name |-> Unset, dead |-> FALSE, profile |-> Unset]]
  /\ rec = [r \in Records |-> [acct |-> Unset, dead |-> FALSE]]
  /\ row = {}
  /\ call = [c \in Callers |-> NoCall]
  /\ late = {} /\ mixed = {} /\ twin = {}

(* Whoever is reading the profile of a company learns that r has changed.  *)
Touch(calls, rs) ==
  [c \in Callers |-> IF calls[c].kind = "read" THEN [calls[c] EXCEPT !.swept = @ \ rs] ELSE calls[c]]

-----------------------------------------------------------------------------
(* Records under a company.                                                *)

(* The new account of a record, deleted or not: accountInOrg asks whether  *)
(* it exists, and so does the foreign key.                                 *)
MayFileUnder(a) == Exists(a)

NoteLate(r, a) == late' = IF Deleting(a) THEN late \cup {r} ELSE late \ {r}

(* contacts.create, and the other creates.                                 *)
File(r, a) ==
  /\ rec[r].acct = Unset /\ MayFileUnder(a)
  /\ rec' = [rec EXCEPT ![r] = [acct |-> a, dead |-> FALSE]]
  /\ NoteLate(r, a)
  /\ UNCHANGED <<acct, row, call, mixed, twin>>

(* contacts.update and deals.update set the account of a live record.      *)
Refile(r, a) ==
  /\ rec[r].acct \notin {Unset, a} /\ ~ rec[r].dead /\ ~ Held(r) /\ MayFileUnder(a)
  /\ rec' = [rec EXCEPT ![r].acct = a]
  /\ call' = Touch(call, {r})
  /\ NoteLate(r, a)
  /\ UNCHANGED <<acct, row, mixed, twin>>

(* contacts.delete removes the row, retired or not.                        *)
DropContact(r) ==
  /\ Table[r] = "contacts" /\ rec[r].acct # Unset /\ ~ Held(r)
  /\ rec' = [rec EXCEPT ![r] = [acct |-> Unset, dead |-> FALSE]]
  /\ call' = Touch(call, {r})
  /\ late' = late \ {r}
  /\ UNCHANGED <<acct, row, mixed, twin>>

(* deals.delete: the deal, then its line lets go of it, one transaction.   *)
BeginRetire(c, r) ==
  /\ call[c] = NoCall /\ r \in DealRecords /\ rec[r].acct # Unset /\ ~ rec[r].dead /\ ~ Held(r)
  /\ call' = [call EXCEPT ![c] = [NoCall EXCEPT !.kind = "retire", !.taken = {r}]]
  /\ UNCHANGED <<acct, rec, row, history>>

CommitRetire(c) ==
  /\ call[c].kind = "retire"
  /\ \A b \in Callers : call[b].kind = "delete" => call[b].swept \cap call[c].taken = {}
  /\ rec' = [r \in Records |-> IF r \in call[c].taken THEN [rec[r] EXCEPT !.dead = TRUE] ELSE rec[r]]
  /\ row' = row \ call[c].taken
  /\ call' = [Touch(call, call[c].taken) EXCEPT ![c] = NoCall]
  /\ UNCHANGED <<acct, history>>

(* syncDelivery gives a live deal a line.                                  *)
TrackDeal(r) ==
  /\ r \in DealRecords \ row /\ rec[r].acct # Unset /\ ~ rec[r].dead
  /\ row' = row \cup {r}
  /\ late' = IF Deleting(rec[r].acct) THEN late \cup {r} ELSE late
  /\ UNCHANGED <<acct, rec, call, mixed, twin>>

-----------------------------------------------------------------------------
(* accounts.create, and accounts.update: the row must be live.             *)
Create(a, n) ==
  /\ ~ Exists(a) /\ \A c \in Callers : ~ (call[c].kind = "convert" /\ call[c].a = a)
  /\ acct' = [acct EXCEPT ![a].name = n]
  /\ twin' = IF Named(n) # {} THEN twin \cup {a} ELSE twin
  /\ UNCHANGED <<rec, row, call, late, mixed>>

Renamed(a, n) ==
  /\ acct' = [acct EXCEPT ![a].name = n]
  /\ twin' = IF Named(n) \subseteq {a} THEN twin ELSE twin \cup {a}

Update(a, n) ==
  /\ Live(a) /\ ~ AccountHeld(a) /\ acct[a].name # n
  /\ Renamed(a, n)
  /\ mixed' = IF acct[a].profile # Unset \/ Saving(a) THEN mixed \cup {a} ELSE mixed
  /\ UNCHANGED <<rec, row, call, late>>

-----------------------------------------------------------------------------
(* store.delete: the account, the tracker lines of its deals, its records  *)
(* table by table, one transaction.                                        *)
BeginDelete_Race(c, a) ==  \* mutation: a company that is being deleted is deleted again
  /\ call[c] = NoCall /\ Live(a)
  /\ call' = [call EXCEPT ![c] = [NoCall EXCEPT !.kind = "delete", !.a = a]]
  /\ UNCHANGED <<acct, rec, row, history>>

BeginDelete(c, a) ==
  /\ call[c] = NoCall /\ Live(a) /\ ~ AccountHeld(a)
  /\ call' = [call EXCEPT ![c] = [NoCall EXCEPT !.kind = "delete", !.a = a]]
  /\ UNCHANGED <<acct, rec, row, history>>

SweptRows_None(a) == {}  \* mutation: the tracker is left alone

SweptRows(a) == {r \in row : rec[r].acct = a}

SweepTracker(c) ==
  /\ call[c].kind = "delete" /\ call[c].at = 0
  /\ call' = [call EXCEPT ![c].at = 1, ![c].swept = SweptRows(call[c].a)]
  /\ UNCHANGED <<acct, rec, row, history>>

Matching_Drafts(a, table) ==  \* mutation: quotes and invoices are left behind
  {r \in LiveUnder(a) : Table[r] = table /\ table \notin {"quotes", "invoices"}}

Matching(a, table) == {r \in LiveUnder(a) : Table[r] = table}

SweepTable_Pool(c) ==  \* mutation: the statement runs outside the transaction
  LET rs == Matching(call[c].a, Tables[call[c].at]) IN
  /\ call[c].kind = "delete" /\ call[c].at \in 1 .. Len(Tables)
  /\ rec' = [r \in Records |-> IF r \in rs THEN [rec[r] EXCEPT !.dead = TRUE] ELSE rec[r]]
  /\ call' = [call EXCEPT ![c].at = @ + 1]
  /\ UNCHANGED <<acct, row, history>>

(* A row that another transaction holds is waited for.                     *)
SweepTable(c) ==
  LET rs == Matching(call[c].a, Tables[call[c].at]) IN
  /\ call[c].kind = "delete" /\ call[c].at \in 1 .. Len(Tables)
  /\ \A r \in rs : ~ Held(r)
  /\ call' = [call EXCEPT ![c].at = @ + 1, ![c].taken = @ \cup rs]
  /\ UNCHANGED <<acct, rec, row, history>>

CommitDelete(c) ==
  /\ call[c].kind = "delete" /\ call[c].at > Len(Tables)
  /\ acct' = [acct EXCEPT ![call[c].a].dead = TRUE]
  /\ rec' = [r \in Records |-> IF r \in call[c].taken THEN [rec[r] EXCEPT !.dead = TRUE] ELSE rec[r]]
  /\ row' = row \ call[c].swept
  /\ call' = [Touch(call, call[c].taken) EXCEPT ![c] = NoCall]
  /\ UNCHANGED history

(* A statement fails and the transaction is rolled back.  Retiring a deal  *)
(* locks the deal and then its line, a deletion the line and then the      *)
(* deal: when they wait for each other the database ends one like this.    *)
Rollback(c) ==
  /\ call[c].kind = "retire" \/ (call[c].kind = "delete" /\ call[c].at > 0)
  /\ call' = [call EXCEPT ![c] = NoCall]
  /\ UNCHANGED <<acct, rec, row, history>>

-----------------------------------------------------------------------------
(* upsertProfile: accounts.update, then the profile row, in statements of  *)
(* their own.                                                              *)
SaveName(c, a, n) ==
  /\ call[c] = NoCall /\ Live(a) /\ ~ AccountHeld(a)
  /\ Renamed(a, n)
  /\ call' = [call EXCEPT ![c] = [NoCall EXCEPT !.kind = "save", !.a = a, !.n = n]]
  /\ mixed' = IF Saving(a) THEN mixed \cup {a} ELSE mixed \ {a}
  /\ UNCHANGED <<rec, row, late>>

NewProfile_First(old, n) == IF old = Unset THEN n ELSE old  \* mutation: ON CONFLICT DO NOTHING

NewProfile(old, n) == n

SaveProfile(c) ==
  /\ call[c].kind = "save"
  /\ acct' = [acct EXCEPT ![call[c].a].profile = NewProfile(@, call[c].n)]
  /\ call' = [call EXCEPT ![c] = NoCall]
  /\ UNCHANGED <<rec, row, history>>

LoseProfile(c) ==
  /\ call[c].kind = "save"
  /\ call' = [call EXCEPT ![c] = NoCall]
  /\ mixed' = mixed \cup {call[c].a}
  /\ UNCHANGED <<acct, rec, row, late, twin>>

-----------------------------------------------------------------------------
(* getFullProfile: the account, then what is linked, a query a section.    *)
(* In a read, taken is what was listed, swept the records of the company   *)
(* nothing has happened to since, n the name first read.                   *)
BeginRead(c, a) ==
  /\ call[c] = NoCall /\ Live(a)
  /\ call' = [call EXCEPT ![c] = [NoCall EXCEPT !.kind = "read", !.a = a, !.n = acct[a].name,
                                              !.at = 1, !.swept = LiveUnder(a)]]
  /\ UNCHANGED <<acct, rec, row, history>>

Listed_ByName(a, n) ==  \* mutation: the account id is forgotten
  {r \in Records : \E b \in Named(n) : r \in LiveUnder(b)}

Listed_ById(a, n) == LiveUnder(a)  \* mutation: companies of the same name are forgotten

Listed(a, n) == UNION {LiveUnder(b) : b \in {a} \cup Named(n)}

ReadSection(c) ==
  /\ call[c].kind = "read" /\ call[c].at \in 1 .. Len(Sections)
  /\ call' = [call EXCEPT ![c].taken = @ \cup {r \in Listed(call[c].a, call[c].n) :
                                                  Table[r] = Sections[call[c].at]},
                          ![c].at = @ + 1]
  /\ UNCHANGED <<acct, rec, row, history>>

Loud_Never(section) == FALSE  \* mutation: a failed query for invoices is swallowed

Loud(section) == section = "invoices"

(* A query fails: the section is empty, or for the invoices the read ends. *)
MissSection(c) ==
  LET me == call[c]
      section == Sections[me.at]
  IN
  /\ me.kind = "read" /\ me.at \in 1 .. Len(Sections)
  /\ \/ Loud(section) /\ call' = [call EXCEPT ![c] = NoCall]
     \/ /\ ~ Loud(section)
        /\ call' = [call EXCEPT ![c] = [me EXCEPT
             !.at = me.at + 1,
             !.swept = {r \in me.swept : Table[r] = "invoices" \/ Table[r] # section}]]
  /\ UNCHANGED <<acct, rec, row, history>>

Show(c) ==
  /\ call[c].kind = "read" /\ call[c].at > Len(Sections)
  /\ call' = [call EXCEPT ![c] = NoCall]
  /\ UNCHANGED <<acct, rec, row, history>>

-----------------------------------------------------------------------------
(* The account of a converted lead: one of that name, or a new one (its    *)
(* row is seen by others with the deal, at the commit).                    *)
FoundByName_Never(n) == {}  \* mutation: a company is always made

FoundByName(n) == Named(n)

LookUp(c, n) ==
  /\ call[c] = NoCall
  /\ \/ \E a \in FoundByName(n) :
          call' = [call EXCEPT ![c] = [NoCall EXCEPT !.kind = "convert", !.a = a, !.n = n]]
     \/ /\ FoundByName(n) = {}
        /\ \E a \in Accounts :
             /\ ~ Exists(a) /\ \A b \in Callers : ~ (call[b].kind = "convert" /\ call[b].a = a)
             /\ call' = [call EXCEPT ![c] = [NoCall EXCEPT !.kind = "convert", !.a = a, !.n = n,
                                                         !.swept = Named(n)]]
  /\ UNCHANGED <<acct, rec, row, history>>

(* twin: another company took the name since it was looked up.             *)
CommitConvert(c, r) ==
  LET a == call[c].a IN
  /\ call[c].kind = "convert" /\ r \in DealRecords /\ rec[r].acct = Unset
  /\ acct' = IF Exists(a) THEN acct ELSE [acct EXCEPT ![a].name = call[c].n]
  /\ rec' = [rec EXCEPT ![r] = [acct |-> a, dead |-> FALSE]]
  /\ NoteLate(r, a)
  /\ twin' = IF ~ Exists(a) /\ ~ (Named(call[c].n) \subseteq call[c].swept) THEN twin \cup {a} ELSE twin
  /\ call' = [call EXCEPT ![c] = NoCall]
  /\ UNCHANGED <<row, mixed>>

CompaniesNext ==
  \/ \E r \in Records, a \in Accounts : File(r, a) \/ Refile(r, a)
  \/ \E r \in Records : DropContact(r) \/ TrackDeal(r)
  \/ \E a \in Accounts, n \in Names : Create(a, n) \/ Update(a, n)
  \/ \E c \in Callers, a \in Accounts : BeginDelete(c, a) \/ BeginRead(c, a)
  \/ \E c \in Callers : \/ SweepTracker(c) \/ SweepTable(c) \/ CommitDelete(c) \/ Rollback(c)
                      \/ CommitRetire(c) \/ SaveProfile(c) \/ LoseProfile(c)
                      \/ ReadSection(c) \/ MissSection(c) \/ Show(c)
  \/ \E c \in Callers, a \in Accounts, n \in Names : SaveName(c, a, n)
  \/ \E c \in Callers, n \in Names : LookUp(c, n)
  \/ \E c \in Callers, r \in Records : BeginRetire(c, r) \/ CommitConvert(c, r)

CompaniesSpec == CompaniesInit /\ [][CompaniesNext]_companyVars

-----------------------------------------------------------------------------
(* The types; two deletions never hold one company or one record.          *)
CompaniesTypeOK ==
  /\ acct \in [Accounts -> [name : Names \cup {Unset}, dead : BOOLEAN, profile : Names \cup {Unset}]]
  /\ rec \in [Records -> [acct : Accounts \cup {Unset}, dead : BOOLEAN]]
  /\ row \subseteq DealRecords
  /\ \A r \in row : rec[r].acct # Unset
  /\ \A b, c \in Callers : b # c /\ call[b].kind = "delete" /\ call[c].kind = "delete" =>
       call[b].a # call[c].a /\ call[b].taken \cap call[c].taken = {}

(* "the company does not leave a trail of records nothing can reach"       *)
(* (store.delete): what is live under a deleted company was filed there    *)
(* after its deletion had begun, because the creates ask only whether the  *)
(* company exists.                                                         *)
DeletionTakesEverything ==
  \A a \in Accounts : acct[a].dead => LiveUnder(a) \subseteq late

(* A tracker line does not go on pointing at a deal its company took with  *)
(* it, unless the line was made while that was happening (deals.delete     *)
(* says what the grid makes of such a line).                               *)
RetiredDealsLeaveNoLine == \A r \in row : rec[r].dead => r \in late

(* A profile that is answered lists each record of the company that stood  *)
(* from the first query to the last, even when the company is renamed      *)
(* meanwhile; a section may be missing because its query failed, but never *)
(* the invoices (getFullProfile: "fail loudly instead").                   *)
StandingRecordsAreListed ==
  \A c \in Callers : call[c].kind = "read" /\ call[c].at > Len(Sections) => call[c].swept \subseteq call[c].taken

(* Two live companies of one name show the same records: that is what      *)
(* makes a second company of that name harmless to a reader.               *)
TwinsShowTheSame ==
  \A a, b \in Accounts :
    Live(a) /\ Live(b) /\ acct[a].name = acct[b].name =>
      Listed(a, acct[a].name) = Listed(b, acct[b].name)

(* A conversion does not make a second company of a name that was there    *)
(* when it looked: twins come from a race, or from people (ConvertLead).   *)
TwinsComeFromRaces ==
  \A a, b \in Accounts :
    a # b /\ Live(a) /\ Live(b) /\ acct[a].name = acct[b].name => {a, b} \cap twin # {}

(* A company's name and its profile are those of one save, unless another  *)
(* save or edit fell between or the second statement failed                *)
(* (upsertProfile is not a transaction).                                   *)
SavedTogether ==
  \A a \in Accounts :
    /\ a \notin mixed
    /\ ~ Saving(a)
    => acct[a].profile \in {Unset, acct[a].name}

(* A deletion happens as a whole or not at all: no step retires a record   *)
(* of a company that stays (store.delete is one transaction).              *)
DeletedAtOnce ==
  [][\A r \in Records : LET a == rec[r].acct IN
       a # Unset /\ ~ rec[r].dead /\ rec'[r].dead /\ Table[r] # "deals" => acct'[a].dead]_companyVars

(* A company is deleted with all that was filed under it, at once and to   *)
(* the last line of the tracker, or it is not deleted.                     *)
DeletionIsWhole ==
  /\ [](DeletionTakesEverything /\ RetiredDealsLeaveNoLine)
  /\ DeletedAtOnce

(* A profile is whole: saved by one save, read without losing a record     *)
(* that was there, and the same for companies of one name, which come from *)
(* races only.                                                             *)
ProfilesAreWhole ==
  /\ SavedTogether /\ StandingRecordsAreListed
  /\ TwinsShowTheSame /\ TwinsComeFromRaces
=============================================================================
