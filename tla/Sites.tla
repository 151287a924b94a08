------------------------------- MODULE Sites -------------------------------
(***************************************************************************)
(* The sites of a company and the sites of a deal (internal/accounts/      *)
(* locations.go, setLocations of internal/deals/store.go).  A site is a    *)
(* row with an id; a deal links to the sites it was delivered to, and      *)
(* keeps their names joined as a text as well, which the quote builder and *)
(* the tracker read.  Saving a deal writes the text that was typed, and    *)
(* then, in a transaction of its own, the links and the joined text.       *)
(*                                                                         *)
(* A step is one SQL statement, or its snapshot and its writes where it    *)
(* may have to wait between them.  A text is the sequence of the names in  *)
(* it; what a person typed is a sequence of one.                           *)
(***************************************************************************)
EXTENDS Sequences, Naturals, FiniteSets

CONSTANTS Plants,    \* the ids of sites
          Owners,    \* the companies
          Jobs,      \* the deals
          SiteNames, \* the names a site may have
          Typed,     \* what people type: a text
          Picks,     \* the choices of sites they save: sequences of ids
          Saves,     \* the requests that save a deal
          NoSite

(* Ids are UUIDs, and what is picked is a list of them.                     *)
ASSUME SitesAssumption ==
  IsFiniteSet(Plants) /\ Picks \subseteq Seq(Plants) /\ NoSite \notin Jobs \cup Owners

VARIABLES
  plant,   \* the sites: a company (NoSite: no row yet), a name, archived or not
  open,    \* the companies that are not deleted
  job,     \* the deals: the text and the links, a position for each site
  save,    \* the requests
  pick,    \* history: what was chosen by the last save of each deal
  torn     \* history: the deals whose last save overlapped another, failed
           \* half-way, or names a site that was renamed since

siteVars == <<plant, open, job, save, pick, torn>>

NoLinks == [p \in {} |-> 0]
AtRest  == [pc |-> "rest", d |-> NoSite, ids |-> <<>>, typed |-> <<>>, seen |-> {},
            cut |-> {}, put |-> NoLinks, text |-> <<>>]

Stored(p)      == plant[p].owner # NoSite
Picked(ids)    == {ids[k] : k \in DOMAIN ids}
SavesOf(d)     == {c \in Saves : save[c].d = d}
TextHeld(d)    == \E c \in SavesOf(d) : save[c].pc = "commit"
Reached(c, pc)      == save[c].pc = pc

SitesInit ==
  /\ plant = [p \in Plants |-> [owner |-> NoSite, name |-> NoSite, archived |-> FALSE]]
  /\ open = Owners
  /\ job = [d \in Jobs |-> [text |-> <<>>, links |-> NoLinks]]
  /\ save = [c \in Saves |-> AtRest]
  /\ pick = [d \in Jobs |-> [ids |-> <<>>, typed |-> <<>>, stored |-> {}]]
  /\ torn = {}

-----------------------------------------------------------------------------
(* The sites.  A name is used once in a company, archived sites included   *)
(* (account_locations_name_idx).                                           *)
NameFree(p, o, n) == \A q \in Plants \ {p} : ~ (plant[q].owner = o /\ plant[q].name = n)

(* createLocation: the company must be live.                               *)
AddSite(p, o, n) ==
  /\ ~ Stored(p) /\ o \in open /\ NameFree(p, o, n)
  /\ plant' = [plant EXCEPT ![p] = [owner |-> o, name |-> n, archived |-> FALSE]]
  /\ UNCHANGED <<open, job, save, pick, torn>>

(* The deals that name p, or are being saved with it.                      *)
Naming(p) ==
  {d \in Jobs : p \in DOMAIN job[d].links \/ \E c \in SavesOf(d) : p \in Picked(save[c].ids)}

(* updateLocation: under any company; no deal is touched.                  *)
RenameSite(p, n) ==
  /\ Stored(p) /\ n # plant[p].name /\ NameFree(p, plant[p].owner, n)
  /\ plant' = [plant EXCEPT ![p].name = n]
  /\ torn' = torn \cup Naming(p)
  /\ UNCHANGED <<open, job, save, pick>>

archiveLocation(p) ==
  /\ Stored(p)
  /\ plant' = [plant EXCEPT ![p].archived = ~ @]
  /\ UNCHANGED <<open, job, save, pick, torn>>

CloseOwner(o) ==
  /\ o \in open
  /\ open' = open \ {o}
  /\ UNCHANGED <<plant, job, save, pick, torn>>

-----------------------------------------------------------------------------
(* A save of deal d.  First deals.create or deals.update, which write what *)
(* was typed and commit.                                                   *)
SaveText(c, d, ids, typed) ==
  /\ Reached(c, "rest") /\ ~ TextHeld(d)
  /\ job' = [job EXCEPT ![d].text = typed]
  /\ save' = [save EXCEPT ![c] = [AtRest EXCEPT !.pc = "clear", !.d = d, !.ids = ids, !.typed = typed]]
  /\ pick' = [pick EXCEPT ![d] = [ids |-> ids, typed |-> typed, stored |-> {p \in Picked(ids) : Stored(p)}]]
  /\ torn' = IF SavesOf(d) = {} THEN torn \ {d} ELSE torn \cup {d}
  /\ UNCHANGED <<plant, open>>

(* setLocations: DELETE takes the links it sees now ...                    *)
SeeLinks(c) ==
  /\ Reached(c, "clear")
  /\ save' = [save EXCEPT ![c].pc = "cut", ![c].seen = DOMAIN job[save[c].d].links]
  /\ UNCHANGED <<plant, open, job, pick, torn>>

Rivals(c) == SavesOf(save[c].d) \ {c}

CutLinks_None(c) ==  \* mutation: the old links stay
  /\ Reached(c, "cut")
  /\ save' = [save EXCEPT ![c].pc = IF save[c].ids # <<>> THEN "link" ELSE "type"]
  /\ UNCHANGED <<plant, open, job, pick, torn>>

(* ... and those that are still there when nobody else is deleting them.   *)
CutLinks(c) ==
  LET me == save[c] IN
  /\ Reached(c, "cut")
  /\ \A b \in Rivals(c) : save[b].cut \cap me.seen = {}
  /\ save' = [save EXCEPT ![c].pc = IF me.ids # <<>> THEN "link" ELSE "type",
                          ![c].cut = me.seen \cap DOMAIN job[me.d].links]
  /\ UNCHANGED <<plant, open, job, pick, torn>>

Kept(c) == DOMAIN job[save[c].d].links \ save[c].cut

FirstAt(ids, p) == CHOOSE k \in DOMAIN ids : ids[k] = p /\ \A j \in 1 .. k-1 : ids[j] # p

Relinked_Live(c) ==  \* mutation: an archived site is not linked again
  {p \in Picked(save[c].ids) \ Kept(c) : Stored(p) /\ ~ plant[p].archived}

(* The sites that INSERT ... ON CONFLICT DO NOTHING links.                 *)
Relinked(c) == {p \in Picked(save[c].ids) \ Kept(c) : Stored(p)}

(* A link that another save is making or deleting is waited for.           *)
InsertLinks(c) ==
  LET me == save[c] IN
  /\ Reached(c, "link")
  /\ \A b \in Rivals(c) : (save[b].cut \cup DOMAIN save[b].put) \cap Picked(me.ids) = {}
  /\ save' = [save EXCEPT ![c].pc = "join", ![c].put = [p \in Relinked(c) |-> FirstAt(me.ids, p)]]
  /\ UNCHANGED <<plant, open, job, pick, torn>>

(* The links as the transaction of c sees them.                            *)
Seen(c) ==
  LET old == job[save[c].d].links
  IN  [p \in Kept(c) \cup DOMAIN save[c].put |-> IF p \in Kept(c) THEN old[p] ELSE save[c].put[p]]

(* The names by position; sites of equal position come in either order.    *)
Joined(links) ==
  {[k \in DOMAIN q |-> plant[q[k]].name] :
     q \in {q \in [1 .. Cardinality(DOMAIN links) -> DOMAIN links] :
              \A i, j \in DOMAIN q : i < j => q[i] # q[j] /\ links[q[i]] <= links[q[j]]}}

(* UPDATE reads the names from its snapshot, and keeps them while it waits *)
(* for the deal's row.  No site at all leaves the text alone.              *)
JoinNames(c) ==
  /\ Reached(c, "join")
  /\ \E text \in Joined(Seen(c)) :
       save' = [save EXCEPT ![c].pc = "text", ![c].text = text]
  /\ UNCHANGED <<plant, open, job, pick, torn>>

TypeText(c) ==
  /\ Reached(c, "type")
  /\ save' = [save EXCEPT ![c].pc = "text", ![c].text = save[c].typed]
  /\ UNCHANGED <<plant, open, job, pick, torn>>

HoldText_Free(c) ==  \* mutation: the deal's row is not waited for
  /\ Reached(c, "text")
  /\ save' = [save EXCEPT ![c].pc = "commit", ![c].text = IF @ = <<>> THEN job[save[c].d].text ELSE @]
  /\ UNCHANGED <<plant, open, job, pick, torn>>

HoldText(c) ==
  /\ Reached(c, "text") /\ ~ TextHeld(save[c].d)
  /\ save' = [save EXCEPT ![c].pc = "commit", ![c].text = IF @ = <<>> THEN job[save[c].d].text ELSE @]
  /\ UNCHANGED <<plant, open, job, pick, torn>>

CommitSave(c) ==
  /\ Reached(c, "commit")
  /\ job' = [job EXCEPT ![save[c].d] = [text |-> save[c].text, links |-> Seen(c)]]
  /\ save' = [save EXCEPT ![c] = AtRest]
  /\ UNCHANGED <<plant, open, pick, torn>>

(* The transaction fails: the typed text has been written all the same.    *)
FailSave(c) ==
  /\ ~ Reached(c, "rest")
  /\ save' = [save EXCEPT ![c] = AtRest]
  /\ torn' = torn \cup {save[c].d}
  /\ UNCHANGED <<plant, open, job, pick>>

SitesNext ==
  \/ \E p \in Plants, o \in Owners, n \in SiteNames : AddSite(p, o, n)
  \/ \E p \in Plants : archiveLocation(p) \/ \E n \in SiteNames : RenameSite(p, n)
  \/ \E o \in Owners : CloseOwner(o)
  \/ \E c \in Saves :
       \/ \E d \in Jobs, ids \in Picks, typed \in Typed : SaveText(c, d, ids, typed)
       \/ SeeLinks(c) \/ CutLinks(c) \/ InsertLinks(c) \/ JoinNames(c) \/ TypeText(c)
       \/ HoldText(c) \/ CommitSave(c) \/ FailSave(c)

SitesSpec == SitesInit /\ [][SitesNext]_siteVars

-----------------------------------------------------------------------------
(* The types; no two saves hold the text of one deal, and a link is to a   *)
(* site that there is (deal_locations has a foreign key to it).            *)
SitesTypeOK ==
  /\ plant \in [Plants -> [owner : Owners \cup {NoSite}, name : SiteNames \cup {NoSite}, archived : BOOLEAN]]
  /\ \A d \in Jobs :
       /\ DOMAIN job[d].links \subseteq {p \in Plants : Stored(p)}
       /\ \A b, c \in SavesOf(d) : Reached(b, "commit") /\ Reached(c, "commit") => b = c

Settled(d) == SavesOf(d) = {} /\ d \notin torn

(* A deal at rest links to the sites its last save chose and no others,    *)
(* archived ones as well, in the order they were picked (setLocations).    *)
LinksAreTheChoice ==
  \A d \in Jobs : Settled(d) =>
    LET links == job[d].links IN
    /\ pick[d].stored \subseteq DOMAIN links /\ DOMAIN links \subseteq Picked(pick[d].ids)
    /\ \A p, q \in DOMAIN links : links[p] < links[q] <=> FirstAt(pick[d].ids, p) < FirstAt(pick[d].ids, q)

(* "not a cache that can be allowed to drift" (setLocations): a deal at    *)
(* rest names its sites in order, and keeps what was typed when it has     *)
(* none.  Saves that overlap, a save that fails after its first statement  *)
(* and a renamed site do make it drift, and only they.                     *)
TextNamesTheSites ==
  \A d \in Jobs : Settled(d) =>
    LET links == job[d].links IN
    IF links = NoLinks THEN job[d].text = pick[d].typed ELSE Joined(links) = {job[d].text}

(* The links of a deal to its sites and the text it keeps of them are      *)
(* those of one choice.                                                    *)
SitesAgree == LinksAreTheChoice /\ TextNamesTheSites
=============================================================================
