------------------------------- MODULE Sheet -------------------------------
(***************************************************************************)
(* Reading an uploaded delivery sheet (internal/delivery/importer.go):     *)
(* where its headings are, which columns they name, and what each line     *)
(* says.  A cell is what the reader can tell apart in it: a word and the   *)
(* numbers in it.  Headings and names are taken after normalizeHeader and  *)
(* clientKey, so case, spaces and punctuation are gone.                    *)
(*                                                                         *)
(* The place stands for the text columns (products, status, contacts,      *)
(* steps, notes), the camera count for the two that have to be understood, *)
(* itself and the date.                                                    *)
(***************************************************************************)
EXTENDS Sequences, Naturals, FiniteSets, TLC

CONSTANTS Null,           \* a blank cell, a column that is NULL
          headerRows,     \* 25 in the code: how far down the headings may be
          maxImportRows,  \* 5000 in the code
          Extends         \* the pairs of names <<a, b>> where b begins with a

(* A cell; minus says that a sign precedes its first number.               *)
Text(word)    == [word |-> word, nums |-> <<>>, minus |-> FALSE]
Number(n)     == [word |-> "", nums |-> <<n>>, minus |-> FALSE]
Blank         == Text("")
blankCell(c)  == c = Blank
allBlank(line) == \A col \in DOMAIN line : blankCell(line[col])

(* The spellings a heading is known by.                                    *)
headerAliases ==
     [h \in {"client", "clientname", "customer", "account"} |-> "client"]
  @@ [h \in {"deal", "deals", "dealtitle", "dealname"} |-> "deal"]
  @@ [h \in {"keylocation", "keylocations", "location", "locations", "site",
             "sites", "siteplant", "plant"} |-> "locations"]
  @@ [h \in {"totalcameras", "cameras", "cameracount", "noofcameras"} |-> "totalCameras"]

Known(cell) == cell.word \in DOMAIN headerAliases

HeaderColumns_LastWins(line) ==  \* mutation: a repeated heading shadows the first
  {col \in DOMAIN line : Known(line[col]) /\
     \A later \in col+1 .. Len(line) :
       Known(line[later]) => headerAliases[line[later].word] # headerAliases[line[col].word]}

(* The columns of a heading line that are read: the first to name a field. *)
HeaderColumns(line) ==
  {col \in DOMAIN line : Known(line[col]) /\
     \A first \in 1 .. col-1 :
       Known(line[first]) => headerAliases[line[first].word] # headerAliases[line[col].word]}

(* The first line near the top to name two fields; 0 when there is none.   *)
findHeader(grid) ==
  LET headings == {i \in 1 .. Len(grid) : i <= headerRows /\ Cardinality(HeaderColumns(grid[i])) >= 2}
  IN  IF headings = {} THEN 0 ELSE CHOOSE i \in headings : \A j \in headings : i <= j

(* The field that each column of a heading line is read as.                *)
Mapping(line) == [col \in HeaderColumns(line) |-> headerAliases[line[col].word]]

(* The column a field is read from, 0 for none.                            *)
fieldColumn(mapping, field) ==
  LET cols == {col \in DOMAIN mapping : mapping[col] = field}
  IN  IF cols = {} THEN 0 ELSE CHOOSE col \in cols : TRUE

CellOf(line, mapping, field) ==
  LET col == fieldColumn(mapping, field)
  IN  IF col \in DOMAIN line THEN line[col] ELSE Blank

TextOf(cell) == IF blankCell(cell) THEN Null ELSE cell.word

isPlaceholder(cell) ==
  cell.nums = <<>> /\ cell.word \in {"", "tbd", "tbc", "n/a", "na", "none", "-", "--"}

(* "12", "12 cameras", or the first of "5-6"; never a negative.            *)
Readable(cell)         == cell.nums # <<>> /\ ~ cell.minus
parseCameraCount(cell) == Head(cell.nums)

Values(line, mapping) ==
  LET count == CellOf(line, mapping, "totalCameras") IN
  [client |-> TextOf(CellOf(line, mapping, "client")),
   title  |-> TextOf(CellOf(line, mapping, "deal")),
   place  |-> TextOf(CellOf(line, mapping, "locations")),
   count  |-> IF Readable(count) THEN parseCameraCount(count) ELSE Null]

Warns(line, mapping) ==
  LET count == CellOf(line, mapping, "totalCameras") IN ~ isPlaceholder(count) /\ ~ Readable(count)

rowFromCells_Whole(line, mapping) ==  \* mutation: a bad cell costs the whole line
  [ok |-> (fieldColumn(mapping, "client") # 0 => ~ blankCell(CellOf(line, mapping, "client")))
          /\ ~ Warns(line, mapping),
   warns |-> FALSE, values |-> Values(line, mapping)]

(* One line: a cell that cannot be read is left blank and named, a line    *)
(* without a client is refused where the sheet has a client column.        *)
rowFromCells(line, mapping) ==
  [ok |-> fieldColumn(mapping, "client") # 0 => ~ blankCell(CellOf(line, mapping, "client")),
   warns |-> Warns(line, mapping), values |-> Values(line, mapping)]

-----------------------------------------------------------------------------
(* What was read so far: the rows, each with the line it came from, and    *)
(* the lines that were complained about.                                   *)
Nothing == [rows |-> <<>>, errs |-> {}]

ReadLine_Silent(out, grid, mapping, i) ==  \* mutation: a line without a client is skipped
  LET in == rowFromCells(grid[i], mapping) IN
  IF allBlank(grid[i]) \/ Len(out.rows) >= maxImportRows \/ ~ in.ok THEN out
  ELSE [rows |-> Append(out.rows, [at |-> i, values |-> in.values]),
        errs |-> IF in.warns THEN out.errs \cup {i} ELSE out.errs]

ReadLine_Endless(out, grid, mapping, i) ==  \* mutation: no limit
  LET in == rowFromCells(grid[i], mapping) IN
  IF allBlank(grid[i]) \/ ~ in.ok THEN [out EXCEPT !.errs = @ \cup {i}]
  ELSE [rows |-> Append(out.rows, [at |-> i, values |-> in.values]), errs |-> out.errs]

(* The loop of rowsFromGrid.  Once the limit is reached the first line     *)
(* that follows is complained about and nothing more is read.              *)
ReadLine(out, grid, mapping, i) ==
  LET in == rowFromCells(grid[i], mapping) IN
  CASE Len(out.rows) >= maxImportRows -> [out EXCEPT !.errs = @ \cup {0}]
    [] Len(out.rows) < maxImportRows /\ allBlank(grid[i]) -> out
    [] OTHER ->
         [rows |-> IF in.ok THEN Append(out.rows, [at |-> i, values |-> in.values]) ELSE out.rows,
          errs |-> IF in.ok /\ ~ in.warns THEN out.errs ELSE out.errs \cup {i}]

(* A grid that has headings and a client column.                           *)
HasClients(grid) ==
  LET header == findHeader(grid)
  IN  header # 0 /\ fieldColumn(Mapping(grid[header]), "client") # 0

rowsFromGrid(grid) ==
  LET header  == findHeader(grid)
      mapping == Mapping(grid[header])
      upTo[i \in header .. Len(grid)] ==
        IF i = header THEN Nothing ELSE ReadLine(upTo[i-1], grid, mapping, i)
  IN  upTo[Len(grid)]

-----------------------------------------------------------------------------
(* A workbook: the master sheet, then the tabs of single clients.  A tab   *)
(* is [name, grid]; its name is what parseXLSX takes the client to be (A1, *)
(* unless that is a title).                                                *)
isClientAlreadySeen(seen, name) ==
  \E c \in seen : c = name \/ <<c, name>> \in Extends \/ <<name, c>> \in Extends

ClientsOf(out) == {out.rows[k].values.client : k \in DOMAIN out.rows}

(* A line of a tab is filed under the client of the tab, and one without   *)
(* a client is dropped without a word.                                     *)
ReadTabLine(out, tab, mapping, i) ==
  LET in == rowFromCells(tab.grid[i], mapping) IN
  IF allBlank(tab.grid[i]) \/ ~ in.ok THEN out
  ELSE [rows |-> Append(out.rows, [at |-> i, values |->
                   [in.values EXCEPT !.client = tab.name, !.place = IF @ = "tbd" THEN Null ELSE @]]),
        errs |-> IF in.warns THEN out.errs \cup {i} ELSE out.errs]

TabLines(out, tab) ==
  LET header  == findHeader(tab.grid)
      mapping == Mapping(tab.grid[header])
      upTo[i \in header .. Len(tab.grid)] ==
        IF i = header THEN out ELSE ReadTabLine(upTo[i-1], tab, mapping, i)
  IN  upTo[Len(tab.grid)]

ReadTab_Again(out, tab) ==  \* mutation: a client of the master sheet is read from its tab too
  IF findHeader(tab.grid) = 0 THEN out ELSE TabLines(out, tab)

ReadTab(out, tab) ==
  IF \/ findHeader(tab.grid) = 0 \/ Len(tab.grid) < 5
     \/ isClientAlreadySeen(ClientsOf(out), tab.name)
  THEN out ELSE TabLines(out, tab)

(* parseXLSX; a CSV is a workbook without tabs.                            *)
parseSheet(workbook) ==
  LET upTo[k \in 0 .. Len(workbook.tabs)] ==
        IF k = 0 THEN rowsFromGrid(workbook.master) ELSE ReadTab(upTo[k-1], workbook.tabs[k])
  IN  upTo[Len(workbook.tabs)]
=============================================================================
