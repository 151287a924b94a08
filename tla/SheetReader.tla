---------------------------- MODULE SheetReader ----------------------------
(***************************************************************************)
(* What reading an uploaded sheet promises (internal/delivery/importer.go) *)
(* of whatever grid, workbook or date cell is uploaded, and how a date     *)
(* cell is read (parseSheetDate).  Reading is a pure function of the       *)
(* upload: there is one step, which uploads something.  A date cell is     *)
(* what cleanDateText tells apart in it: its separator, its parts, and the *)
(* decoration it takes off.                                                *)
(***************************************************************************)
EXTENDS Sheet

CONSTANTS Grids, Books, Texts  \* the grids, workbooks and date cells that are read

VARIABLE upload  \* what is uploaded: [kind, body]

Space == " "  \* what stands between the words of a text

Cells == [word : STRING, nums : Seq(Nat), minus : BOOLEAN]
Parts == [n : Nat, digits : Nat \ {0}, name : {"num"}]
         \cup [n : 1 .. 12, digits : {0}, name : {"short", "long", "Sept"}]

(* A grid is a list of lines, each a list of cells; a part of a date cell  *)
(* is a number that has a digit at least, or the name of a month.          *)
ASSUME ReaderAssumption ==
  /\ headerRows \in Nat /\ maxImportRows \in Nat
  /\ Null \notin STRING \cup [y : Nat, m : Nat, d : Nat]
  /\ Grids \subseteq Seq(Seq(Cells))
  /\ Books \subseteq [master : Seq(Seq(Cells)), tabs : Seq([name : STRING, grid : Seq(Seq(Cells))])]
  /\ Texts \subseteq [sep : {"/", "-", ".", Space}, parts : Seq(Parts), weekday : BOOLEAN, ordinal : BOOLEAN]

readerVars == <<upload>>

ReaderInit == upload = [kind |-> "none", body |-> Null]

Upload ==
  /\ upload.kind = "none"
  /\ \/ \E g \in Grids : upload' = [kind |-> "grid", body |-> g]
     \/ \E b \in Books : upload' = [kind |-> "book", body |-> b]
     \/ \E t \in Texts : upload' = [kind |-> "date", body |-> t]

ReaderSpec == ReaderInit /\ [][Upload]_readerVars

Uploaded(kind) == IF upload.kind = kind THEN {upload.body} ELSE {}

-----------------------------------------------------------------------------
(* Dates.  A part is a number with its digits or the name of a month; a    *)
(* cell is [sep, parts, weekday, ordinal]: "Wed, 9th Sept 2026" has a      *)
(* blank separator and the parts 9, Sept, 2026.                            *)
Num(n, digits) == [n |-> n, digits |-> digits, name |-> "num"]
Month(n, name) == [n |-> n, digits |-> 0, name |-> name]  \* "short", "long" or "Sept"
IsNum(part)    == part.name = "num"

AllNums(t) == \A k \in DOMAIN t.parts : IsNum(t.parts[k])

cleanDateText_Kept(t) == [t EXCEPT !.weekday = FALSE, !.ordinal = FALSE]  \* mutation: "Sept" is kept

(* The weekday and the ordinal go, "Sept" is "Sep", and full stops between *)
(* three numbers are slashes.                                              *)
cleanDateText(t) ==
  [sep     |-> IF t.sep = "." /\ AllNums(t) /\ Len(t.parts) = 3 THEN "/" ELSE t.sep,
   parts   |-> [k \in DOMAIN t.parts |->
                  IF t.parts[k].name = "Sept" THEN [t.parts[k] EXCEPT !.name = "short"] ELSE t.parts[k]],
   weekday |-> FALSE, ordinal |-> FALSE]

(* A layout: its separators and its fields.  Capitals take two digits, Y   *)
(* four; a month is a name, of any length under "M".                       *)
dateLayouts_Americans ==  \* mutation: month first
  <<[seps |-> {"-", "/"}, fields |-> <<"Y", "MM", "DD">>],
    [seps |-> {"/"},      fields |-> <<"MM", "DD", "Y">>],
    [seps |-> {"-", "/"}, fields |-> <<"d", "m", "Y">>]>>

dateLayouts ==
  <<[seps |-> {"-", "/"}, fields |-> <<"Y", "MM", "DD">>],
    [seps |-> {"-", "/"}, fields |-> <<"d", "m", "Y">>],
    [seps |-> {"-", "/"}, fields |-> <<"d", "m", "YY">>],
    [seps |-> {"/"},      fields |-> <<"MM", "DD", "Y">>],
    [seps |-> {Space},      fields |-> <<"d", "M", "Y">>],
    [seps |-> {Space},      fields |-> <<"M", "d", "Y">>],
    [seps |-> {"-"},      fields |-> <<"d", "short", "Y">>],
    [seps |-> {"-", Space}, fields |-> <<"d", "short", "YY">>]>>

monthOnlyLayouts ==
  <<[seps |-> {"-", Space}, fields |-> <<"M", "Y">>],
    [seps |-> {"-", Space}, fields |-> <<"M", "YY">>],
    [seps |-> {"-"},      fields |-> <<"Y", "MM">>],
    [seps |-> {"/"},      fields |-> <<"MM", "Y">>]>>

Layouts == dateLayouts \o monthOnlyLayouts

Fits(part, field) ==
  CASE field = "M"             -> part.name \in {"short", "long"}
    [] field = "short"         -> part.name = "short"
    [] field = "Y"             -> IsNum(part) /\ part.digits = 4
    [] field \in {"YY", "MM", "DD"} -> IsNum(part) /\ part.digits = 2
    [] OTHER                   -> IsNum(part) /\ part.digits \in {1, 2}

(* The value of the first field among names, none when there is no such.   *)
Field(t, layout, names, none) ==
  LET ks == {k \in DOMAIN layout.fields : layout.fields[k] \in names}
  IN  IF ks = {} THEN none ELSE t.parts[CHOOSE k \in ks : TRUE].n

daysIn(m, y) ==
  CASE m = 2 -> IF y % 4 = 0 /\ (y % 100 # 0 \/ y % 400 = 0) THEN 29 ELSE 28
    [] m \in {4, 6, 9, 11} -> 30
    [] OTHER -> 31

(* time.Parse under one layout: the date, or Null.                         *)
parseLayout(t, layout) ==
  LET short == Field(t, layout, {"YY"}, 0)
      y == Field(t, layout, {"Y"}, short + IF short >= 69 THEN 1900 ELSE 2000)
      m == Field(t, layout, {"m", "MM", "M", "short"}, 0)
      d == Field(t, layout, {"d", "DD"}, 1)
  IN
  IF /\ t.sep \in layout.seps /\ ~ t.weekday /\ ~ t.ordinal
     /\ Len(t.parts) = Len(layout.fields)
     /\ \A k \in DOMAIN t.parts : Fits(t.parts[k], layout.fields[k])
     /\ m \in 1 .. 12 /\ d \in 1 .. daysIn(m, y)
  THEN [y |-> y, m |-> m, d |-> d] ELSE Null

(* The serial number of a day, in the plausible range.                     *)
isSerial(t) == Len(t.parts) = 1 /\ IsNum(t.parts[1]) /\ t.parts[1].n > 20000 /\ t.parts[1].n < 80000

(* A serial number is taken as it is; of a text, the first layout that     *)
(* fits says which day it is.                                              *)
parseSheetDate(t) ==
  LET clean == cleanDateText(t)
      fits  == {k \in DOMAIN Layouts : parseLayout(clean, Layouts[k]) # Null}
  IN  CASE isSerial(t) -> [y |-> 0, m |-> 0, d |-> t.parts[1].n]
        [] ~ isSerial(t) /\ fits = {} -> Null
        [] OTHER -> parseLayout(clean, Layouts[CHOOSE k \in fits : \A j \in fits : k <= j])

-----------------------------------------------------------------------------
(* What is read of a grid keeps its type: the rows come in order, each     *)
(* once, under a client and within the limit.                              *)
ReaderTypeOK ==
  \A g \in Uploaded("grid") : HasClients(g) =>
    LET rows == rowsFromGrid(g).rows IN
    /\ Len(rows) <= maxImportRows
    /\ \A k \in DOMAIN rows : rows[k].at \in findHeader(g) + 1 .. Len(g) /\ rows[k].values.client # Null
    /\ \A j, k \in DOMAIN rows : j < k => rows[j].at < rows[k].at

(* No line of a sheet disappears without a word: each one is a row, is     *)
(* complained about, or is empty; past the limit one complaint stands for  *)
(* the rest (rowsFromGrid).                                                *)
EveryLineIsAnswered ==
  \A g \in Uploaded("grid") : HasClients(g) =>
    LET out == rowsFromGrid(g) IN
    \A i \in findHeader(g) + 1 .. Len(g) :
      \/ allBlank(g[i]) \/ i \in out.errs
      \/ \E k \in DOMAIN out.rows : out.rows[k].at = i
      \/ Len(out.rows) = maxImportRows /\ 0 \in out.errs

(* A grid as it would be with its unreadable counts left empty.            *)
Wiped(g) ==
  LET header == findHeader(g)
      count  == fieldColumn(Mapping(g[header]), "totalCameras")
  IN  [i \in DOMAIN g |-> [col \in DOMAIN g[i] |->
         IF i > header /\ col = count /\ ~ Readable(g[i][col]) THEN Blank ELSE g[i][col]]]

(* A cell that cannot be read costs itself and not its line: the rows are  *)
(* those of the sheet with that cell left empty, so the client, the place  *)
(* and the deal of the line still land (rowFromCells).                     *)
BadCellCostsItself ==
  \A g \in Uploaded("grid") :
    HasClients(g) /\ (\A i \in DOMAIN g : ~ allBlank(Wiped(g)[i])) =>
      rowsFromGrid(g).rows = rowsFromGrid(Wiped(g)).rows

(* A heading that repeats a field does not shadow the column that people   *)
(* filled in: the first column to be called the client is where each row's *)
(* client comes from (findHeader).                                         *)
RepeatedHeadingIsIgnored ==
  \A g \in Uploaded("grid") : HasClients(g) =>
    LET header == g[findHeader(g)]
        clients == {col \in DOMAIN header : Known(header[col]) /\ headerAliases[header[col].word] = "client"}
        rows == rowsFromGrid(g).rows
    IN \A k \in DOMAIN rows : \A col \in clients :
         (\A c \in clients : col <= c) => rows[k].values.client = g[rows[k].at][col].word

(* What the master sheet says of a client is not said again by a tab, and  *)
(* a spelling variant is the same client: each client comes from one sheet *)
(* (parseXLSX, isClientAlreadySeen).                                       *)
ClientComesFromOnePlace ==
  \A b \in Uploaded("book") : HasClients(b.master) =>
    LET main == rowsFromGrid(b.master)
        rows == parseSheet(b).rows
        own(k) == k <= Len(main.rows)
    IN \A j \in DOMAIN b.tabs :
         LET name == b.tabs[j].name
             said == {k \in DOMAIN rows : rows[k].values.client = name}
         IN \/ \A k \in said : own(k)
            \/ /\ \A k \in said : ~ own(k)
               /\ ~ \E c \in ClientsOf(main) : c = name \/ <<c, name>> \in Extends \/ <<name, c>> \in Extends

(* A date in numbers is read day first whenever it can be: 03/04 is the    *)
(* third of April (dateLayouts).                                           *)
DayComesFirst ==
  \A t \in Uploaded("date") : LET p == t.parts IN
    /\ Len(p) = 3 /\ AllNums(t) /\ t.sep \in {"/", "-"} /\ ~ t.weekday /\ ~ t.ordinal
    /\ p[1].digits < 3 /\ p[2].digits < 3 /\ p[3].digits = 4
    /\ p[2].n \in 1 .. 12 /\ p[1].n \in 1 .. daysIn(p[2].n, p[3].n)
    => parseSheetDate(t) = [y |-> p[3].n, m |-> p[2].n, d |-> p[1].n]

(* A month that is spelled out is understood: with a day, in either order, *)
(* and a year it is read as that day, however it is decorated, and never   *)
(* as another month (cleanDateText keeps which date is meant).             *)
SpelledMonthIsUnderstood ==
  \A t \in Uploaded("date") :
    LET p == t.parts
        day == parseSheetDate(t)
        names == {k \in DOMAIN p : ~ IsNum(p[k])}
    IN
    /\ Cardinality(names) = 1
    => /\ day # Null => \A k \in names : day.m = p[k].n
       /\ /\ Len(p) = 3 /\ names \subseteq {1, 2} /\ t.sep = Space /\ p[3].digits = 4
          => LET number == p[CHOOSE k \in {1, 2} \ names : TRUE] IN
             number.digits < 3 /\ number.n \in 1 .. 28 => day # Null

(* Any upload is read as it is meant, or says where it is not: no line     *)
(* goes without an answer, no cell costs another, no heading or tab hides  *)
(* another, no date is turned around.                                      *)
ReadAsMeant ==
  /\ EveryLineIsAnswered /\ BadCellCostsItself
  /\ RepeatedHeadingIsIgnored /\ ClientComesFromOnePlace
  /\ DayComesFirst /\ SpelledMonthIsUnderstood
=============================================================================
