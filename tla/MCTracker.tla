----------------------------- MODULE MCTracker -----------------------------
(* Instances for TLC of what keeps the delivery tracker: deals and their   *)
(* rows (Pipeline, in the scenarios of MCPipeline), the sites of deals     *)
(* (Sites), uploads against small worlds (TrackerImport), and sheets,      *)
(* workbooks and dates that are only read (SheetReader).  These share no   *)
(* variable and each property reads one of them, so a behaviour takes the  *)
(* steps of one.                                                           *)
EXTENDS MCPipeline, Sites, TrackerImport, SheetReader

CONSTANTS s1, s2, aDeal, typed

VARIABLE focus
mcVars == <<vars, siteVars, importVars, readerVars, focus>>

(* p1 and p2 are two requests of any kind; w1 and w2 two rows, or two      *)
(* names of sites.                                                         *)
MCPicks == {<<>>, <<s1>>, <<s2, s1>>}
MCTyped == {<<>>, <<typed>>}

Counted(n) == IF n = 0 THEN Blank ELSE Number(n)

(* Uploads of the columns client, deal, place and count.                   *)
Entry(c, d, at, n) == <<Text(c), Text(d), Text(at), Counted(n)>>
Book(lines) ==
  [master |-> <<<<Text("client"), Text("deal"), Text("site"), Text("cameras")>>>> \o lines, tabs |-> <<>>]

MCUploads ==
  {Book(<<Entry("Acme Inc", "", "Pune", 0)>>),
   Book(<<Entry("Acme Inc", "", "", 3), Entry("Acme Inc", "", "Pune", 0)>>),
   Book(<<Entry("Acme, Inc", "", "Goa", 2), Entry("Bolt", "", "", 2)>>),
   Book(<<Entry("Acme Inc", "", "Goa", 2), Entry("Acme Inc", "Pilot", "Pune", 3)>>),
   Book(<<Entry("Acme Inc", "", "Goa", 2), Entry("Bolt", "", "Pune", 0)>>),
   Book(<<Entry("Bolt", "", "Goa", 2), Entry("Bolt", "", "Goa", 3)>>)}

MCClean == [c \in {"Acme, Inc", "Acme Inc", "Bolt", "-"} |->
              CASE c \in {"Acme, Inc", "Acme Inc"} -> "acmeinc" [] c = "Bolt" -> "bolt" [] OTHER -> Null]
MCWords   == {"Acme, Inc", "Acme Inc", "Bolt", "Pilot", "Pune", "Goa"}
MCTitle   == <<"Pilot", "Bolt">>
MCAccount == <<"Acme Inc", "Acme Inc">>

MCRow(c, at, n, d) == [client |-> c, place |-> at, count |-> n, deal |-> d]
MCDeal(at, n)      == [live |-> TRUE, place |-> at, count |-> n]
MCWorlds ==
  {[row |-> <<>>, book |-> <<MCDeal(Null, Null), MCDeal(Null, 1)>>],
   [row |-> <<0, 1>> :> MCRow("Acme Inc", "Pune", 1, Null), book |-> <<MCDeal("Pune", Null), MCDeal("Goa", Null)>>],
   [row |-> <<0, 1>> :> MCRow("Acme Inc", "Goa", Null, 1), book |-> <<MCDeal("Goa", Null), MCDeal(Null, Null)>>],
   [row |-> <<0, 1>> :> MCRow("Acme, Inc", Null, 1, 1) @@ <<0, 2>> :> MCRow("Acme Inc", "Pune", Null, Null),
    book |-> <<MCDeal(Null, 1), MCDeal("Pune", Null)>>],
   [row |-> <<0, 1>> :> MCRow("Acme Inc", Null, Null, Null) @@ <<0, 2>> :> MCRow("Bolt", Null, Null, 2),
    book |-> <<MCDeal("Goa", Null), MCDeal("Goa", Null)>>]}

-----------------------------------------------------------------------------
(* What is only read: two lines under four kinds of headings, or four      *)
(* lines where two are the limit; a master sheet and two tabs; date cells. *)
Heading(a, b, c) == <<Text(a), Text(b), Text(c)>>
Lots == Text("lots")
MCCounts == {Blank, Counted(4), Lots, Text("tbd"), [Counted(2) EXCEPT !.minus = TRUE]}
MCLines == {<<Text(c), Text(at), n>> : c \in {"", "acme"}, at \in {"", "goa"}, n \in MCCounts}
MCHeads == {Heading("client", "site", "cameras"), Heading("customer", "client", "cameras"),
            Heading("site", "deal", "cameras"), Heading("title", "", "")}
MCGrids == {<<Heading("tracker", "", "")>> \o <<h, l, m>> : h \in MCHeads, l \in MCLines, m \in MCLines}
           \cup {<<Heading("client", "site", "cameras")>> \o <<l, l, l, m>> : l \in MCLines, m \in MCLines}

MCTab(name, at) == [name |-> name,
  grid |-> <<Heading(name, "", ""), Heading("site", "cameras", "note"),
             <<Text(at), Counted(2), Blank>>, <<Text(at), Lots, Blank>>, <<Blank, Blank, Blank>>>>]
MCMaster(c) == <<Heading("client", "site", "cameras"), <<Text(c), Text("goa"), Counted(1)>>>>
MCExtends == {<<"acme", "acme labs">>}
MCClients == {"acme", "acme labs", "bolt"}
MCBooks == {[master |-> MCMaster(c), tabs |-> <<MCTab(n, "tbd"), MCTab(m, "goa")>>] :
              c, n, m \in MCClients}

MCNums   == {Num(3, 1), Num(4, 2), Num(5, 2), Num(13, 2), Num(31, 2), Num(26, 2), Num(2026, 4)}
MCMonths == {Month(9, "short"), Month(9, "long"), Month(9, "Sept"), Month(2, "short")}
MCParts  == {<<a, b, c>> : a \in MCNums, b \in MCNums \cup MCMonths, c \in MCNums}
            \cup {<<b, a, c>> : a \in MCNums, b \in MCMonths, c \in MCNums}
            \cup {<<b, c>> : b \in MCNums \cup MCMonths, c \in MCNums}
            \cup {<<Num(46000, 5)>>, <<Num(12, 2)>>}
MCTexts == {[sep |-> s, parts |-> p, weekday |-> w, ordinal |-> w] :
              s \in {"/", "-", ".", " "}, p \in MCParts, w \in BOOLEAN}

-----------------------------------------------------------------------------
MCInit ==
  /\ focus \in {"pipeline", "sites", "import", "reader"}
  /\ Init /\ SitesInit /\ ImportInit /\ ReaderInit
  /\ focus # "pipeline" => asked.deals = 2
  /\ focus # "import" => row = <<>>

MCNext ==
  /\ UNCHANGED focus
  /\ \/ focus = "pipeline" /\ Next /\ UNCHANGED <<siteVars, importVars, readerVars>>
     \/ focus = "sites" /\ SitesNext /\ UNCHANGED <<vars, importVars, readerVars>>
     \/ focus = "import" /\ ImportNext /\ UNCHANGED <<vars, siteVars, readerVars>>
     \/ focus = "reader" /\ Upload /\ UNCHANGED <<vars, siteVars, importVars>>

MCSpec == MCInit /\ [][MCNext]_mcVars

(* An import meets another one, or the write of another call.  A company   *)
(* closes, and a site is archived but the first, between saves.            *)
MCBound ==
  /\ others = 0 \/ \E p \in Imports : Stands(p, "idle")
  /\ open # Owners => \A c \in Saves : save[c] = AtRest
  /\ plant[s2].archived => ~ plant[s1].archived /\ \E c \in Saves : save[c] = AtRest

(* The types of the four (Pipeline, Sites, TrackerImport, SheetReader).    *)
MCTypeOK == TypeOK /\ SitesTypeOK /\ ImportTypeOK /\ ReaderTypeOK
=============================================================================
