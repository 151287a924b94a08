---------------------------- MODULE ReaderProofs ----------------------------
(***************************************************************************)
(* SheetReader for any grid, workbook and date cell: what is read of an    *)
(* upload is what was meant.                                               *)
(*                                                                         *)
(* The loops over the lines of a sheet, over those of a tab and over the   *)
(* tabs are recursive functions.  RowsAreRead, TabIsRead and TabsAreRead   *)
(* say of each what it starts from and how it goes on; ReadSo, SameRows    *)
(* and Added are what stays true of it from one line or tab to the next,   *)
(* and Upward carries them to the last.                                    *)
(***************************************************************************)
EXTENDS SheetReader, FiniteSetTheorems, SequenceTheorems, WellFoundedInduction, TLAPS

LEMMA Least == ASSUME NEW T \in SUBSET Nat, T # {} PROVE \E n \in T : \A m \in T : n <= m
<1>1. PICK R : R = OpToRel(<,Nat)
  OBVIOUS
<1>2. IsWellFoundedOn(R, Nat)
  BY <1>1, NatLessThanWellFounded, Zenon
<1>3. \A i, j \in Nat : i < j => <<i, j>> \in R
  BY <1>1 DEF OpToRel
<1>4. PICK n \in T : \A m \in T : ~ (<<m, n>> \in R)
  BY <1>2, WFMin, Zenon
<1>5. ASSUME NEW m \in T PROVE n <= m
  <2>1. ~ (m < n)
    BY <1>3, <1>4
  <2> QED
    BY <2>1
<1> QED
  BY <1>5
(* What holds of the first line and goes on from each to the next holds of *)
(* all.                                                                    *)
LEMMA Upward ==
  ASSUME NEW a \in Nat, NEW n \in Nat, NEW S, a \in S, \A i \in a+1 .. n : i - 1 \in S => i \in S
  PROVE  \A i \in a .. n : i \in S
<1> DEFINE Bad == {i \in a .. n : i \notin S}
<1>1. SUFFICES ASSUME Bad # {} PROVE FALSE
  OBVIOUS
<1>2. PICK m \in Bad : \A k \in Bad : m <= k
  <2>1. Bad \in SUBSET Nat
    OBVIOUS
  <2> QED
    BY <1>1, <2>1, Least
<1>3. m \in a .. n /\ m \notin S /\ m # a
  BY <1>2
<1>4. m \in a+1 .. n /\ m - 1 \in a .. n
  BY <1>3
<1>5. m - 1 \in S
  <2>1. m - 1 \notin Bad
    BY <1>2, <1>4
  <2> QED
    BY <1>4, <2>1
<1> QED
  BY <1>3, <1>4, <1>5

(* Sheets, and what is read of them; a wiped cell is blank.                *)
AnyCell  == Cells \cup {Blank}
Line     == Seq(AnyCell)
Grid     == Seq(Line)
TextCell == STRING \cup {Null}
RowRead  == [at : Nat, values : [client : TextCell, title : TextCell, place : TextCell, count : Nat \cup {Null}]]
Outs     == [rows : Seq(RowRead), errs : SUBSET Nat]

(* The three loops: over the lines of a sheet, over those of a tab, and    *)
(* over the tabs.                                                          *)
LEMMA RowsAreRead ==
  ASSUME NEW grid \in Grid, NEW h \in Nat, h = findHeader(grid), h <= Len(grid)
  PROVE  \E up : /\ up[h] = Nothing /\ rowsFromGrid(grid) = up[Len(grid)]
                 /\ \A i \in h+1 .. Len(grid) : up[i] = ReadLine(up[i-1], grid, Mapping(grid[h]), i)
<1> DEFINE header  == findHeader(grid)
           mapping == Mapping(grid[header])
           upTo[i \in header .. Len(grid)] ==
             IF i = header THEN Nothing ELSE ReadLine(upTo[i-1], grid, mapping, i)
<1>1. rowsFromGrid(grid) = upTo[Len(grid)]
  BY Zenon DEF rowsFromGrid
<1>2. PICK n \in Nat : n = Len(grid)
  OBVIOUS
<1>3. PICK map : map = Mapping(grid[h])
  OBVIOUS
<1> DEFINE Reads(f, m) == f = [i \in h .. m |-> IF i = h THEN Nothing ELSE ReadLine(f[i-1], grid, map, i)]
<1>4. upTo = CHOOSE f : Reads(f, n)
  BY <1>2, <1>3, Zenon
<1> HIDE DEF Reads
<1>5. \E f : Reads(f, n)
  <2> DEFINE S == {m \in h .. n : \E f : Reads(f, m)}
  <2>1. h \in S
    <3> DEFINE f == [i \in h .. h |-> Nothing]
    <3>1. Reads(f, h)
      BY DEF Reads
    <3> HIDE DEF f
    <3> QED
      BY <1>2, <3>1
  <2>2. ASSUME NEW m \in h+1 .. n, m - 1 \in S PROVE m \in S
    <3>1. PICK f : Reads(f, m - 1)
      BY <2>2
    <3> DEFINE g == [i \in h .. m |-> IF i = m THEN ReadLine(f[m-1], grid, map, m) ELSE f[i]]
    <3>2. ASSUME NEW i \in h .. m PROVE g[i] = IF i = h THEN Nothing ELSE ReadLine(g[i-1], grid, map, i)
      <4>1. CASE i = m
        BY <2>2, <4>1
      <4>2. CASE i # m
        BY <2>2, <3>1, <4>2 DEF Reads
      <4> QED
        BY <4>1, <4>2
    <3>3. Reads(g, m)
      BY <3>2, Zenon DEF Reads
    <3> HIDE DEF g
    <3> QED
      BY <2>2, <3>3
  <2> HIDE DEF S
  <2>3. \A m \in h+1 .. n : m - 1 \in S => m \in S
    BY <2>2
  <2>4. \A m \in h .. n : m \in S
    BY <2>1, <2>3, Upward, Zenon
  <2>5. n \in h .. n
    BY <1>2
  <2> QED
    BY <2>4, <2>5 DEF S
<1> HIDE DEF upTo
<1>6. Reads(upTo, n)
  BY <1>4, <1>5
<1>7. upTo[h] = Nothing /\ \A i \in h+1 .. n : upTo[i] = ReadLine(upTo[i-1], grid, map, i)
  <2>1. \A i \in h .. n : upTo[i] = IF i = h THEN Nothing ELSE ReadLine(upTo[i-1], grid, map, i)
    BY <1>6 DEF Reads
  <2> QED
    BY <1>2, <2>1
<1> QED
  BY <1>1, <1>2, <1>3, <1>7

-----------------------------------------------------------------------------
(* Cells, columns and lines.                                               *)
LEMMA CellsAre ==
  ASSUME NEW c \in AnyCell
  PROVE  TextOf(c) \in TextCell /\ (Readable(c) => parseCameraCount(c) \in Nat)
<1>1. CASE c = Blank
  <2>1. ~ Readable(c)
    BY <1>1 DEF Blank, Text, Readable
  <2> QED
    BY <1>1, <2>1 DEF TextOf, TextCell, blankCell
<1>2. CASE c \in Cells
  <2>1. c.word \in STRING /\ c.nums \in Seq(Nat)
    BY <1>2 DEF Cells
  <2>2. c.nums # <<>> => Head(c.nums) \in Nat
    BY <2>1
  <2> QED
    BY <2>1, <2>2 DEF TextOf, TextCell, Readable, parseCameraCount
<1> QED
  BY <1>1, <1>2 DEF AnyCell

LEMMA ValuesAre ==
  ASSUME NEW line \in Line, NEW mapping
  PROVE  /\ Values(line, mapping).client = TextOf(CellOf(line, mapping, "client"))
         /\ Values(line, mapping) \in [client : TextCell, title : TextCell, place : TextCell, count : Nat \cup {Null}]
         /\ \A field : CellOf(line, mapping, field) \in AnyCell
<1>1. ASSUME NEW field PROVE CellOf(line, mapping, field) \in AnyCell
  BY DEF CellOf, AnyCell, Line
<1>2. PICK count \in AnyCell : count = CellOf(line, mapping, "totalCameras")
  BY <1>1
<1>3. PICK n : n = IF Readable(count) THEN parseCameraCount(count) ELSE Null
  OBVIOUS
<1>4. n \in Nat \cup {Null}
  BY <1>3, CellsAre
<1>5. PICK a \in TextCell : a = TextOf(CellOf(line, mapping, "client"))
  BY <1>1, CellsAre
<1>6. PICK b \in TextCell : b = TextOf(CellOf(line, mapping, "deal"))
  BY <1>1, CellsAre
<1>7. PICK d \in TextCell : d = TextOf(CellOf(line, mapping, "locations"))
  BY <1>1, CellsAre
<1>8. Values(line, mapping) = [client |-> a, title |-> b, place |-> d, count |-> n]
  BY <1>2, <1>3, <1>5, <1>6, <1>7, Zenon DEF Values
<1> QED
  BY <1>1, <1>4, <1>5, <1>8

(* The heading line.                                                       *)
LEMMA HeadingFound ==
  ASSUME NEW grid \in Grid, NEW h, h = findHeader(grid)
  PROVE  /\ h \in 0 .. Len(grid) /\ h \in Nat
         /\ h # 0 => /\ h <= headerRows /\ Cardinality(HeaderColumns(grid[h])) >= 2
                     /\ \A i \in 1 .. h-1 : ~ (i <= headerRows /\ Cardinality(HeaderColumns(grid[i])) >= 2)
         /\ h = 0 => \A i \in 1 .. Len(grid) : ~ (i <= headerRows /\ Cardinality(HeaderColumns(grid[i])) >= 2)
<1> DEFINE H == {i \in 1 .. Len(grid) : i <= headerRows /\ Cardinality(HeaderColumns(grid[i])) >= 2}
<1>1. h = IF H = {} THEN 0 ELSE CHOOSE i \in H : \A j \in H : i <= j
  BY Zenon DEF findHeader
<1>2. H \in SUBSET Nat
  OBVIOUS
<1>3. CASE H = {}
  BY <1>1, <1>3
<1>4. CASE H # {}
  <2>1. h \in H /\ \A j \in H : h <= j
    BY <1>1, <1>2, <1>4, Least
  <2> QED
    BY <2>1
<1> QED
  BY <1>3, <1>4

-----------------------------------------------------------------------------
(* What is read of a grid so far: lines 1 .. n.                            *)
ReadSo(grid, h, mapping, out, n) ==
  /\ out \in Outs /\ Len(out.rows) <= maxImportRows
  /\ \A k \in DOMAIN out.rows :
       LET at == out.rows[k].at IN
       /\ at \in h+1 .. n /\ out.rows[k].values = Values(grid[at], mapping)
       /\ rowFromCells(grid[at], mapping).ok
  /\ \A j, k \in DOMAIN out.rows : j < k => out.rows[j].at < out.rows[k].at
  /\ \A i \in h+1 .. n :
       \/ allBlank(grid[i]) \/ i \in out.errs
       \/ \E k \in DOMAIN out.rows : out.rows[k].at = i
       \/ Len(out.rows) = maxImportRows /\ 0 \in out.errs

LEMMA RowsAppended ==
  ASSUME NEW s \in Seq(RowRead), NEW r \in RowRead
  PROVE  /\ Append(s, r) \in Seq(RowRead) /\ Len(Append(s, r)) = Len(s) + 1 /\ Len(s) \in Nat
         /\ DOMAIN s = 1 .. Len(s) /\ DOMAIN Append(s, r) = 1 .. Len(s) + 1
         /\ \A k \in DOMAIN s : k \in DOMAIN Append(s, r) /\ Append(s, r)[k] = s[k]
         /\ Append(s, r)[Len(s) + 1] = r
OBVIOUS

LEMMA LineIsRead ==
  ASSUME NEW grid \in Grid, NEW h \in Nat, NEW mapping, NEW i \in h+1 .. Len(grid),
         NEW out, ReadSo(grid, h, mapping, out, i - 1),
         NEW out2, out2 = ReadLine(out, grid, mapping, i)
  PROVE  ReadSo(grid, h, mapping, out2, i)
<1>1. /\ out \in Outs /\ out.rows \in Seq(RowRead) /\ out.errs \in SUBSET Nat
      /\ Len(out.rows) <= maxImportRows /\ Len(out.rows) \in Nat
      /\ maxImportRows \in Nat /\ i \in Nat /\ i - 1 \in Nat
      /\ \A m : m \in h+1 .. i <=> m \in h+1 .. i-1 \/ m = i
  <2>1. maxImportRows \in Nat
    BY ReaderAssumption
  <2>2. /\ out \in Outs /\ out.rows \in Seq(RowRead) /\ out.errs \in SUBSET Nat
        /\ Len(out.rows) <= maxImportRows
    BY DEF ReadSo, Outs
  <2>3. i \in Nat /\ i - 1 \in Nat /\ \A m : m \in h+1 .. i <=> m \in h+1 .. i-1 \/ m = i
    OBVIOUS
  <2> QED
    BY <2>1, <2>2, <2>3
<1>2. grid[i] \in Line
  BY DEF Grid
<1>3. PICK in : in = rowFromCells(grid[i], mapping)
  OBVIOUS
<1>4. in.values = Values(grid[i], mapping)
  BY <1>3 DEF rowFromCells
<1>5. PICK r \in RowRead : r = [at |-> i, values |-> in.values] /\ r.at = i /\ r.values = in.values
  <2>1. [at |-> i, values |-> in.values] \in RowRead
    BY <1>1, <1>2, <1>4, ValuesAre DEF RowRead
  <2> QED
    BY <2>1
<1>a. \A k \in DOMAIN out.rows :
        /\ out.rows[k].at \in h+1 .. i-1 /\ out.rows[k].values = Values(grid[out.rows[k].at], mapping)
        /\ rowFromCells(grid[out.rows[k].at], mapping).ok
  BY Zenon DEF ReadSo
<1>6. CASE Len(out.rows) >= maxImportRows
  <2>1. out2 = [out EXCEPT !.errs = out.errs \cup {0}]
    <3>1. ~ (Len(out.rows) < maxImportRows)
      BY <1>1, <1>6
    <3> QED
      BY <1>6, <3>1 DEF ReadLine
  <2>2. out2 \in Outs /\ out2.rows = out.rows /\ out2.errs = out.errs \cup {0} /\ Len(out.rows) = maxImportRows
    BY <1>1, <1>6, <2>1 DEF Outs
  <2> QED
    BY <1>1, <2>2 DEF ReadSo
<1>7. CASE Len(out.rows) < maxImportRows /\ allBlank(grid[i])
  <2>1. out2 = out
    BY <1>1, <1>7 DEF ReadLine
  <2> QED
    BY <1>1, <1>7, <2>1 DEF ReadSo
<1>8. CASE Len(out.rows) < maxImportRows /\ ~ allBlank(grid[i])
  <2>1. out2 = [rows |-> IF in.ok THEN Append(out.rows, r) ELSE out.rows,
                errs |-> IF in.ok /\ ~ in.warns THEN out.errs ELSE out.errs \cup {i}]
    BY <1>1, <1>3, <1>5, <1>8 DEF ReadLine
  <2>2. CASE ~ in.ok
    <3>1. out2 \in Outs /\ out2.rows = out.rows /\ out2.errs = out.errs \cup {i}
      BY <1>1, <2>1, <2>2 DEF Outs
    <3> QED
      BY <1>1, <3>1 DEF ReadSo
  <2>3. CASE in.ok
    <3>1. out2.rows = Append(out.rows, r) /\ out.errs \subseteq out2.errs /\ out2 \in Outs
      BY <1>1, <2>1, <2>3, RowsAppended DEF Outs
    <3>2. PICK k : k = Len(out.rows) + 1
      OBVIOUS
    <3>3. /\ DOMAIN out.rows = 1 .. Len(out.rows) /\ DOMAIN out2.rows = DOMAIN out.rows \cup {k}
          /\ k \in DOMAIN out2.rows /\ out2.rows[k] = r
          /\ \A j \in DOMAIN out.rows : j < k /\ out2.rows[j] = out.rows[j]
          /\ Len(out2.rows) = Len(out.rows) + 1
      BY <1>1, <3>1, <3>2, RowsAppended, SMTT(60)
    <3>4. ASSUME NEW j \in DOMAIN out2.rows
          PROVE  LET at == out2.rows[j].at IN
                 /\ at \in h+1 .. i /\ out2.rows[j].values = Values(grid[at], mapping)
                 /\ rowFromCells(grid[at], mapping).ok
      <4>1. CASE j = k
        BY <1>3, <1>4, <1>5, <2>3, <3>3, <4>1
      <4>2. CASE j \in DOMAIN out.rows
        <5>1. out2.rows[j] = out.rows[j]
          BY <3>3, <4>2
        <5>2. out.rows[j].at \in h+1 .. i
          BY <1>1, <1>a, <4>2
        <5> QED
          BY <1>a, <4>2, <5>1, <5>2
      <4> QED
        BY <3>3, <4>1, <4>2
    <3>5. ASSUME NEW j \in DOMAIN out2.rows, NEW m \in DOMAIN out2.rows, j < m
          PROVE  out2.rows[j].at < out2.rows[m].at
      <4>1. j \in DOMAIN out.rows
        BY <1>1, <3>2, <3>3, <3>5
      <4>2. CASE m = k
        <5>1. out.rows[j].at \in h+1 .. i-1
          BY <1>a, <4>1, Zenon
        <5>2. PICK a : a = out.rows[j].at
          OBVIOUS
        <5>3. a < i
          BY <1>1, <5>1, <5>2, SMTT(60)
        <5>4. out2.rows[j].at = a /\ out2.rows[m].at = i
          BY <1>5, <3>3, <4>1, <4>2, <5>2
        <5> QED
          BY <5>3, <5>4
      <4>3. CASE m # k
        BY <3>3, <3>5, <4>1, <4>3 DEF ReadSo
      <4> QED
        BY <4>2, <4>3
    <3>6. ASSUME NEW m \in h+1 .. i
          PROVE  \/ allBlank(grid[m]) \/ m \in out2.errs
                 \/ \E j \in DOMAIN out2.rows : out2.rows[j].at = m
      <4>1. CASE m = i
        BY <1>5, <3>3, <4>1
      <4>2. CASE m # i
        <5>1. \/ allBlank(grid[m]) \/ m \in out.errs
              \/ \E j \in DOMAIN out.rows : out.rows[j].at = m
          BY <1>1, <1>8, <4>2 DEF ReadSo
        <5> QED
          BY <3>1, <3>3, <5>1
      <4> QED
        BY <4>1, <4>2
    <3>7. Len(out2.rows) <= maxImportRows
      BY <1>1, <1>8, <3>3
    <3> QED
      BY <3>1, <3>4, <3>5, <3>6, <3>7 DEF ReadSo
  <2> QED
    BY <2>2, <2>3
<1> QED
  BY <1>1, <1>6, <1>7, <1>8

-----------------------------------------------------------------------------
(* A sheet.                                                                *)
LEMMA HeadingAndClients ==
  ASSUME NEW grid \in Grid, HasClients(grid)
  PROVE  \E h, map :
           /\ h = findHeader(grid) /\ h \in 1 .. Len(grid) /\ h \in Nat /\ Len(grid) \in Nat
           /\ map = Mapping(grid[h]) /\ grid[h] \in Line
           /\ fieldColumn(map, "client") # 0 /\ fieldColumn(Mapping(grid[h]), "client") # 0
<1>1. PICK h : h = findHeader(grid)
  OBVIOUS
<1>2. h \in 0 .. Len(grid) /\ h # 0 /\ fieldColumn(Mapping(grid[h]), "client") # 0
  BY <1>1, HeadingFound DEF HasClients
<1>3. PICK n \in Nat : n = Len(grid)
  BY DEF Grid
<1>4. h \in 1 .. n
  BY <1>2, <1>3
<1>5. grid[h] \in Line /\ h \in Nat
  BY <1>3, <1>4 DEF Grid
<1> QED
  BY <1>1, <1>2, <1>3, <1>4, <1>5

LEMMA NothingIsRead ==
  ASSUME NEW grid, NEW h \in Nat, NEW mapping
  PROVE  ReadSo(grid, h, mapping, Nothing, h)
<1>1. maxImportRows \in Nat
  BY ReaderAssumption
<1>2. PICK s : s = <<>> /\ s \in Seq(RowRead) /\ Len(s) = 0 /\ DOMAIN s = {}
  <2>1. PICK S : S = RowRead
    OBVIOUS
  <2>2. PICK s \in Seq(S) : s = <<>>
    <3>1. <<>> \in Seq(S)
      OBVIOUS
    <3> QED
      BY <3>1, Zenon
  <2>3. Len(s) = 0
    BY <2>2
  <2>4. DOMAIN s = {}
    BY <2>2
  <2> QED
    BY <2>1, <2>2, <2>3, <2>4
<1>3. PICK e \in SUBSET Nat : e = {}
  OBVIOUS
<1>4. PICK out : out = Nothing
  OBVIOUS
<1>5. out = [rows |-> s, errs |-> e]
  BY <1>2, <1>3, <1>4, Zenon DEF Nothing
<1>6. out \in Outs /\ Len(out.rows) <= maxImportRows /\ out.rows = s
  BY <1>1, <1>2, <1>5 DEF Outs
<1>7. h+1 .. h = {}
  OBVIOUS
<1> QED
  BY <1>2, <1>4, <1>6, <1>7 DEF ReadSo

LEMMA GridIsRead ==
  ASSUME NEW grid \in Grid, NEW h \in 1 .. Len(grid), h \in Nat, h = findHeader(grid),
         NEW mapping, mapping = Mapping(grid[h])
  PROVE  ReadSo(grid, h, mapping, rowsFromGrid(grid), Len(grid))
<1>1. PICK n \in Nat : n = Len(grid)
  BY DEF Grid
<1>2. h <= n /\ h <= Len(grid)
  BY <1>1
<1>3. PICK up : /\ up[h] = Nothing /\ rowsFromGrid(grid) = up[n]
                /\ \A i \in h+1 .. n : up[i] = ReadLine(up[i-1], grid, mapping, i)
  BY <1>1, <1>2, RowsAreRead
<1> DEFINE S == {m \in h .. n : ReadSo(grid, h, mapping, up[m], m)}
<1>4. h \in S
  <2>1. ReadSo(grid, h, mapping, up[h], h)
    BY <1>3, NothingIsRead
  <2> QED
    BY <1>2, <2>1
<1>5. ASSUME NEW i \in h+1 .. n, i - 1 \in S PROVE i \in S
  <2>1. i \in h+1 .. Len(grid)
    BY <1>1
  <2>2. PICK out : out = up[i-1] /\ ReadSo(grid, h, mapping, out, i - 1)
    BY <1>5
  <2>3. PICK out2 : out2 = up[i] /\ out2 = ReadLine(out, grid, mapping, i)
    BY <1>3, <2>2
  <2>4. ReadSo(grid, h, mapping, out2, i)
    BY <2>1, <2>2, <2>3, LineIsRead
  <2>5. i \in h .. n
    BY <1>2
  <2> QED
    BY <2>3, <2>4, <2>5
<1>6. n \in S
  <2> HIDE DEF S
  <2>1. \A i \in h .. n : i \in S
    BY <1>4, <1>5, Upward
  <2>2. n \in h .. n
    BY <1>2
  <2> QED
    BY <2>1, <2>2
<1> QED
  BY <1>1, <1>3, <1>6

(* What is uploaded.                                                       *)
LEMMA SheetsAreSheets == Grids \subseteq Grid
<1>1. Cells \subseteq AnyCell
  BY DEF AnyCell
<1>2. Seq(Cells) \subseteq Line
  BY <1>1 DEF Line
<1>3. PICK A, B : A = Seq(Cells) /\ B = Line /\ A \subseteq B
  BY <1>2
<1>4. Seq(A) \subseteq Seq(B)
  BY <1>3
<1> QED
  BY <1>3, <1>4, ReaderAssumption DEF Grid

(* What is uploaded comes from where uploads come from.                    *)
ReaderInv ==
  /\ upload.kind = "grid" => upload.body \in Grids
  /\ upload.kind = "book" => upload.body \in Books
  /\ upload.kind = "date" => upload.body \in Texts

LEMMA ClientIsRead ==
  ASSUME NEW line, NEW map, fieldColumn(map, "client") # 0, rowFromCells(line, map).ok
  PROVE  /\ ~ blankCell(CellOf(line, map, "client"))
         /\ Values(line, map).client = CellOf(line, map, "client").word
<1>1. ~ blankCell(CellOf(line, map, "client"))
  BY DEF rowFromCells
<1> QED
  BY <1>1 DEF Values, TextOf

(* rowsFromGrid: the rows come in order under a client, every line has an  *)
(* answer, and the first column called the client is the one that is read. *)
THEOREM LinesAnswered ==
  ASSUME ReaderInv
  PROVE  ReaderTypeOK /\ EveryLineIsAnswered /\ RepeatedHeadingIsIgnored
<1>1. SUFFICES ASSUME NEW g \in Grid, HasClients(g)
               PROVE  /\ LET rows == rowsFromGrid(g).rows IN
                         /\ Len(rows) <= maxImportRows
                         /\ \A k \in DOMAIN rows : rows[k].at \in findHeader(g) + 1 .. Len(g)
                                                  /\ rows[k].values.client # Null
                         /\ \A j, k \in DOMAIN rows : j < k => rows[j].at < rows[k].at
                      /\ LET out == rowsFromGrid(g) IN
                         \A i \in findHeader(g) + 1 .. Len(g) :
                           \/ allBlank(g[i]) \/ i \in out.errs
                           \/ \E k \in DOMAIN out.rows : out.rows[k].at = i
                           \/ Len(out.rows) = maxImportRows /\ 0 \in out.errs
                      /\ LET header == g[findHeader(g)]
                             clients == {col \in DOMAIN header :
                                           Known(header[col]) /\ headerAliases[header[col].word] = "client"}
                             rows == rowsFromGrid(g).rows
                         IN \A k \in DOMAIN rows : \A col \in clients :
                              (\A c \in clients : col <= c) => rows[k].values.client = g[rows[k].at][col].word
  <2>1. Uploaded("grid") \subseteq Grid
    BY SheetsAreSheets DEF Uploaded, ReaderInv
  <2> QED
    BY <1>1, <2>1, Zenon DEF ReaderTypeOK, EveryLineIsAnswered, RepeatedHeadingIsIgnored
<1>2. PICK h, map :
           /\ h = findHeader(g) /\ h \in 1 .. Len(g) /\ h \in Nat /\ Len(g) \in Nat
           /\ map = Mapping(g[h]) /\ g[h] \in Line
           /\ fieldColumn(map, "client") # 0
  BY <1>1, HeadingAndClients
<1>3. PICK out : out = rowsFromGrid(g) /\ ReadSo(g, h, map, out, Len(g))
  BY <1>2, GridIsRead
<1>4. ASSUME NEW k \in DOMAIN out.rows
      PROVE  \E at \in h + 1 .. Len(g) :
                /\ at = out.rows[k].at /\ g[at] \in Line
                /\ ~ blankCell(CellOf(g[at], map, "client"))
                /\ out.rows[k].values.client = CellOf(g[at], map, "client").word
  <2>1. PICK at \in h + 1 .. Len(g) :
             /\ at = out.rows[k].at /\ out.rows[k].values = Values(g[at], map)
             /\ rowFromCells(g[at], map).ok
    BY <1>3 DEF ReadSo
  <2>2. at \in DOMAIN g
    BY <1>2, <2>1 DEF Grid
  <2>3. g[at] \in Line
    BY <2>2 DEF Grid
  <2> QED
    BY <1>2, <2>1, <2>3, ClientIsRead
<1>5. ASSUME NEW k \in DOMAIN out.rows PROVE out.rows[k].values.client # Null
  <2>1. PICK at \in h + 1 .. Len(g) :
                /\ at = out.rows[k].at /\ g[at] \in Line
                /\ ~ blankCell(CellOf(g[at], map, "client"))
                /\ out.rows[k].values.client = CellOf(g[at], map, "client").word
    BY <1>4
  <2>2. CellOf(g[at], map, "client") \in Cells
    BY <2>1, ValuesAre DEF AnyCell, blankCell
  <2> QED
    BY <2>1, <2>2, ReaderAssumption DEF Cells
<1> DEFINE clients == {col \in DOMAIN g[h] : Known(g[h][col]) /\ headerAliases[g[h][col].word] = "client"}
<1>6. ASSUME NEW col \in clients, \A c \in clients : col <= c
      PROVE  fieldColumn(map, "client") = col /\ col # 0
  <2>1. \A c \in clients : c \in Nat \ {0}
    BY <1>2 DEF Line
  <2>2. PICK n \in Nat : DOMAIN g[h] = 1 .. n
    BY <1>2 DEF Line
  <2>3. col \in HeaderColumns(g[h])
    <3>1. ASSUME NEW first \in 1 .. col-1, Known(g[h][first])
          PROVE  headerAliases[g[h][first].word] # headerAliases[g[h][col].word]
      <4>1. first \in DOMAIN g[h] /\ first < col /\ first \in Nat /\ col \in Nat
        BY <1>6, <2>1, <2>2
      <4>2. first \notin clients
        BY <1>6, <4>1
      <4> QED
        BY <1>6, <3>1, <4>1, <4>2
    <3> QED
      BY <1>6, <3>1 DEF HeaderColumns
  <2>4. ASSUME NEW c \in HeaderColumns(g[h]), headerAliases[g[h][c].word] = "client"
        PROVE  c = col
    <3>1. c \in clients
      BY <2>4 DEF HeaderColumns
    <3>2. col <= c /\ c \in Nat /\ col \in Nat \ {0}
      BY <1>6, <2>1, <3>1
    <3>3. SUFFICES ASSUME col < c PROVE FALSE
      BY <3>2
    <3>4. col \in 1 .. c-1
      BY <3>2, <3>3
    <3> QED
      BY <1>6, <2>4, <3>4 DEF HeaderColumns
  <2>5. {c \in DOMAIN map : map[c] = "client"} = {col}
    <3>1. DOMAIN map = HeaderColumns(g[h])
      BY <1>2 DEF Mapping
    <3>2. \A c \in DOMAIN map : map[c] = headerAliases[g[h][c].word]
      BY <1>2, <3>1, Zenon DEF Mapping
    <3> QED
      BY <1>6, <2>3, <2>4, <3>1, <3>2
  <2> QED
    BY <1>6, <2>1, <2>5 DEF fieldColumn
<1>7. ASSUME NEW k \in DOMAIN out.rows, NEW col \in clients, \A c \in clients : col <= c
      PROVE  out.rows[k].values.client = g[out.rows[k].at][col].word
  <2>1. PICK at \in h + 1 .. Len(g) :
                /\ at = out.rows[k].at
                /\ ~ blankCell(CellOf(g[at], map, "client"))
                /\ out.rows[k].values.client = CellOf(g[at], map, "client").word
    BY <1>4
  <2>2. fieldColumn(map, "client") = col
    BY <1>6, <1>7
  <2>3. CellOf(g[at], map, "client") = g[at][col]
    BY <2>1, <2>2 DEF CellOf, blankCell
  <2> QED
    BY <2>1, <2>3
<1>8. /\ Len(out.rows) <= maxImportRows
      /\ \A k \in DOMAIN out.rows : out.rows[k].at \in h + 1 .. Len(g)
      /\ \A j, k \in DOMAIN out.rows : j < k => out.rows[j].at < out.rows[k].at
      /\ \A i \in h + 1 .. Len(g) :
           \/ allBlank(g[i]) \/ i \in out.errs
           \/ \E k \in DOMAIN out.rows : out.rows[k].at = i
           \/ Len(out.rows) = maxImportRows /\ 0 \in out.errs
  BY <1>3 DEF ReadSo
<1>9. LET header == g[findHeader(g)]
          clients_ == {col \in DOMAIN header : Known(header[col]) /\ headerAliases[header[col].word] = "client"}
          rows == rowsFromGrid(g).rows
      IN \A k \in DOMAIN rows : \A col \in clients_ :
           (\A c \in clients_ : col <= c) => rows[k].values.client = g[rows[k].at][col].word
  BY <1>2, <1>3, <1>7
<1> HIDE DEF clients
<1>10. LET rows == rowsFromGrid(g).rows IN
         /\ Len(rows) <= maxImportRows
         /\ \A k \in DOMAIN rows : rows[k].at \in findHeader(g) + 1 .. Len(g)
                                  /\ rows[k].values.client # Null
         /\ \A j, k \in DOMAIN rows : j < k => rows[j].at < rows[k].at
  BY <1>2, <1>3, <1>5, <1>8
<1>11. LET out_ == rowsFromGrid(g) IN
         \A i \in findHeader(g) + 1 .. Len(g) :
           \/ allBlank(g[i]) \/ i \in out_.errs
           \/ \E k \in DOMAIN out_.rows : out_.rows[k].at = i
           \/ Len(out_.rows) = maxImportRows /\ 0 \in out_.errs
  BY <1>2, <1>3, <1>8
<1> QED
  BY <1>9, <1>10, <1>11, Zenon

-----------------------------------------------------------------------------
(* A cell that cannot be read, and the line it stands in.                  *)
LEMMA FieldsApart ==
  ASSUME NEW map, NEW f, NEW f2, f # f2
  PROVE  fieldColumn(map, f) # fieldColumn(map, f2) \/ fieldColumn(map, f) = 0
<1> DEFINE C(x) == {col \in DOMAIN map : map[col] = x}
<1>1. ASSUME NEW x PROVE fieldColumn(map, x) = 0 \/ fieldColumn(map, x) \in C(x)
  <2>1. fieldColumn(map, x) = IF C(x) = {} THEN 0 ELSE CHOOSE col \in C(x) : TRUE
    BY Zenon DEF fieldColumn
  <2>2. C(x) # {} => (CHOOSE col \in C(x) : TRUE) \in C(x)
    <3> HIDE DEF C
    <3> QED
      OBVIOUS
  <2> QED
    BY <2>1, <2>2
<1>2. C(f) \cap C(f2) = {}
  OBVIOUS
<1> QED
  BY <1>1, <1>2

(* A line, and the same with its unreadable count left empty.              *)
LEMMA LineWiped ==
  ASSUME NEW line \in Line, NEW map, NEW count, count = fieldColumn(map, "totalCameras"),
         NEW wiped, wiped = [col \in DOMAIN line |->
                               IF col = count /\ ~ Readable(line[col]) THEN Blank ELSE line[col]],
         NEW rest, rest = rowFromCells(line, map), NEW in, in = rowFromCells(wiped, map)
  PROVE  /\ wiped \in Line /\ (allBlank(line) => allBlank(wiped))
         /\ in.ok = rest.ok /\ in.values = rest.values
<1>1. wiped \in Line /\ DOMAIN wiped = DOMAIN line /\ 0 \notin DOMAIN line
  <2>1. PICK n \in Nat : DOMAIN line = 1 .. n
    BY DEF Line
  <2>2. \A col \in 1 .. n : line[col] \in AnyCell /\ wiped[col] \in AnyCell
    BY <2>1 DEF Line, AnyCell
  <2>3. wiped \in [1 .. n -> AnyCell]
    BY <2>1, <2>2
  <2>4. wiped \in Seq(AnyCell)
    BY <2>3
  <2> QED
    BY <2>1, <2>4 DEF Line
<1>2. allBlank(line) => allBlank(wiped)
  BY DEF allBlank, blankCell
<1>3. ASSUME NEW field, field # "totalCameras" PROVE CellOf(wiped, map, field) = CellOf(line, map, field)
  <2>1. PICK c : c = fieldColumn(map, field)
    OBVIOUS
  <2>2. c # count \/ c = 0
    BY <1>3, <2>1, FieldsApart
  <2>3. c \in DOMAIN line => wiped[c] = line[c]
    BY <1>1, <2>2
  <2> QED
    BY <1>1, <2>1, <2>3 DEF CellOf
<1>4. /\ CellOf(wiped, map, "client") = CellOf(line, map, "client")
      /\ CellOf(wiped, map, "deal") = CellOf(line, map, "deal")
      /\ CellOf(wiped, map, "locations") = CellOf(line, map, "locations")
  BY <1>3
<1>5. PICK c, w : c = CellOf(line, map, "totalCameras") /\ w = CellOf(wiped, map, "totalCameras")
  OBVIOUS
<1>6. ~ Readable(Blank)
  BY DEF Readable, Blank, Text
<1>7. IF Readable(c) THEN w = c ELSE ~ Readable(w)
  <2>1. count \in DOMAIN line => c = line[count] /\ w = wiped[count]
    BY <1>1, <1>5 DEF CellOf
  <2>2. count \notin DOMAIN line => c = Blank /\ w = Blank
    BY <1>1, <1>5 DEF CellOf
  <2> QED
    BY <1>6, <2>1, <2>2
<1>8. PICK n : n = (IF Readable(c) THEN parseCameraCount(c) ELSE Null)
               /\ n = (IF Readable(w) THEN parseCameraCount(w) ELSE Null)
  BY <1>7
<1>9. Values(wiped, map) = Values(line, map)
  <2>1. Values(line, map) = [client |-> TextOf(CellOf(line, map, "client")),
                             title |-> TextOf(CellOf(line, map, "deal")),
                             place |-> TextOf(CellOf(line, map, "locations")), count |-> n]
    BY <1>5, <1>8, Zenon DEF Values
  <2>2. Values(wiped, map) = [client |-> TextOf(CellOf(wiped, map, "client")),
                              title |-> TextOf(CellOf(wiped, map, "deal")),
                              place |-> TextOf(CellOf(wiped, map, "locations")), count |-> n]
    BY <1>5, <1>8, Zenon DEF Values
  <2> QED
    BY <1>4, <2>1, <2>2
<1>10. in.ok = rest.ok /\ in.values = rest.values
  BY <1>4, <1>9 DEF rowFromCells
<1> QED
  BY <1>1, <1>2, <1>10

(* What is read of two sheets that have the same rows so far.              *)
LEMMA SameRowsOn ==
  ASSUME NEW grid, NEW grid2, NEW map, NEW i,
         ~ allBlank(grid[i]), ~ allBlank(grid2[i]),
         rowFromCells(grid[i], map).ok = rowFromCells(grid2[i], map).ok,
         rowFromCells(grid[i], map).values = rowFromCells(grid2[i], map).values,
         NEW out, out \in Outs, NEW out2, out2 \in Outs, out.rows = out2.rows
  PROVE  ReadLine(out, grid, map, i).rows = ReadLine(out2, grid2, map, i).rows
<1>0. PICK a : a = rowFromCells(grid[i], map)
  OBVIOUS
<1>1. PICK b : b = rowFromCells(grid2[i], map) /\ b.ok = a.ok /\ b.values = a.values
  BY <1>0
<1>2. maxImportRows \in Nat /\ Len(out.rows) \in Nat
  <2>1. maxImportRows \in Nat
    BY ReaderAssumption
  <2>2. out.rows \in Seq(RowRead)
    BY DEF Outs
  <2> QED
    BY <2>1, <2>2
<1>3. CASE Len(out.rows) >= maxImportRows
  <2>1. ~ (Len(out.rows) < maxImportRows)
    BY <1>2, <1>3
  <2>2. ReadLine(out, grid, map, i) = [out EXCEPT !.errs = out.errs \cup {0}]
    BY <1>3, <2>1 DEF ReadLine
  <2>3. ReadLine(out2, grid2, map, i) = [out2 EXCEPT !.errs = out2.errs \cup {0}]
    BY <1>3, <2>1 DEF ReadLine
  <2> QED
    BY <2>2, <2>3 DEF Outs
<1>4. CASE Len(out.rows) < maxImportRows
  <2>1. ~ (Len(out.rows) >= maxImportRows)
    BY <1>2, <1>4
  <2>2. ReadLine(out, grid, map, i).rows = IF a.ok THEN Append(out.rows, [at |-> i, values |-> a.values]) ELSE out.rows
    BY <1>0, <1>1, <1>4, <2>1 DEF ReadLine
  <2>3. ReadLine(out2, grid2, map, i).rows = IF a.ok THEN Append(out2.rows, [at |-> i, values |-> a.values]) ELSE out2.rows
    BY <1>0, <1>1, <1>4, <2>1 DEF ReadLine
  <2> QED
    BY <2>2, <2>3
<1> QED
  BY <1>2, <1>3, <1>4

LEMMA HeadingStays ==
  ASSUME NEW grid \in Grid, NEW grid2 \in Grid, Len(grid2) = Len(grid),
         NEW h \in 1 .. Len(grid), h = findHeader(grid),
         \A i \in 1 .. h : grid2[i] = grid[i]
  PROVE  findHeader(grid2) = h
<1>1. PICK n \in Nat : n = Len(grid) /\ n = Len(grid2)
  BY DEF Grid
<1>2. h \in Nat /\ h # 0 /\ h \in 1 .. h
  BY <1>1
<1>3. /\ h <= headerRows /\ Cardinality(HeaderColumns(grid[h])) >= 2
      /\ \A i \in 1 .. h-1 : ~ (i <= headerRows /\ Cardinality(HeaderColumns(grid[i])) >= 2)
  BY <1>2, HeadingFound
<1>4. PICK k : k = findHeader(grid2)
  OBVIOUS
<1>5. /\ k \in 0 .. n
      /\ k # 0 => /\ k <= headerRows /\ Cardinality(HeaderColumns(grid2[k])) >= 2
                  /\ \A i \in 1 .. k-1 : ~ (i <= headerRows /\ Cardinality(HeaderColumns(grid2[i])) >= 2)
      /\ k = 0 => \A i \in 1 .. n : ~ (i <= headerRows /\ Cardinality(HeaderColumns(grid2[i])) >= 2)
  BY <1>1, <1>4, HeadingFound
<1>6. h <= headerRows /\ Cardinality(HeaderColumns(grid2[h])) >= 2
  BY <1>2, <1>3
<1>7. k # 0 /\ k <= h
  BY <1>1, <1>2, <1>5, <1>6
<1>8. SUFFICES ASSUME k < h PROVE FALSE
  BY <1>2, <1>4, <1>5, <1>7
<1>9. k \in 1 .. h-1 /\ k \in 1 .. h
  BY <1>2, <1>5, <1>7, <1>8
<1>10. grid2[k] = grid[k]
  BY <1>9
<1> QED
  BY <1>3, <1>5, <1>7, <1>9, <1>10

LEMMA SameRows ==
  ASSUME NEW grid \in Grid, NEW grid2 \in Grid, Len(grid2) = Len(grid),
         NEW h \in 1 .. Len(grid), h \in Nat, h = findHeader(grid),
         \A i \in 1 .. h : grid2[i] = grid[i],
         NEW map, map = Mapping(grid[h]),
         \A i \in h+1 .. Len(grid) :
           /\ ~ allBlank(grid[i]) /\ ~ allBlank(grid2[i])
           /\ rowFromCells(grid[i], map).ok = rowFromCells(grid2[i], map).ok
           /\ rowFromCells(grid[i], map).values = rowFromCells(grid2[i], map).values
  PROVE  rowsFromGrid(grid).rows = rowsFromGrid(grid2).rows
<1>1. PICK n \in Nat : n = Len(grid) /\ n = Len(grid2)
  BY DEF Grid
<1>2. h <= n /\ h \in 1 .. h
  BY <1>1
<1>3. h = findHeader(grid2) /\ map = Mapping(grid2[h])
  <2>1. h = findHeader(grid2)
    BY HeadingStays
  <2> QED
    BY <1>2, <2>1
<1>4. PICK up : /\ up[h] = Nothing /\ rowsFromGrid(grid) = up[n]
                /\ \A i \in h+1 .. n : up[i] = ReadLine(up[i-1], grid, map, i)
  BY <1>1, <1>2, RowsAreRead, SMTT(60)
<1>5. PICK up2 : /\ up2[h] = Nothing /\ rowsFromGrid(grid2) = up2[n]
                 /\ \A i \in h+1 .. n : up2[i] = ReadLine(up2[i-1], grid2, map, i)
  BY <1>1, <1>2, <1>3, RowsAreRead
<1> DEFINE S == {m \in h .. n : /\ up[m].rows = up2[m].rows
                               /\ ReadSo(grid, h, map, up[m], m) /\ ReadSo(grid2, h, map, up2[m], m)}
<1>6. h \in S
  <2>1. ReadSo(grid, h, map, up[h], h) /\ ReadSo(grid2, h, map, up2[h], h)
    BY <1>4, <1>5, NothingIsRead
  <2> QED
    BY <1>2, <1>4, <1>5, <2>1
<1>7. ASSUME NEW i \in h+1 .. n, i - 1 \in S PROVE i \in S
  <2>1. i \in h+1 .. Len(grid) /\ i \in h+1 .. Len(grid2) /\ i \in h .. n
    BY <1>1, <1>2
  <2>2. PICK a, b : /\ a = up[i-1] /\ b = up2[i-1] /\ a.rows = b.rows
                    /\ ReadSo(grid, h, map, a, i - 1) /\ ReadSo(grid2, h, map, b, i - 1)
    BY <1>7
  <2>3. PICK c : c = up[i] /\ c = ReadLine(a, grid, map, i)
    BY <1>4, <2>2
  <2>4. PICK d : d = up2[i] /\ d = ReadLine(b, grid2, map, i)
    BY <1>5, <2>2
  <2>5. ReadSo(grid, h, map, c, i)
    BY <2>1, <2>2, <2>3, LineIsRead
  <2>6. ReadSo(grid2, h, map, d, i)
    BY <2>1, <2>2, <2>4, LineIsRead, SMTT(60)
  <2>7. a \in Outs /\ b \in Outs
    BY <2>2 DEF ReadSo
  <2>8. /\ ~ allBlank(grid[i]) /\ ~ allBlank(grid2[i])
        /\ rowFromCells(grid[i], map).ok = rowFromCells(grid2[i], map).ok
        /\ rowFromCells(grid[i], map).values = rowFromCells(grid2[i], map).values
    BY <2>1
  <2>9. ReadLine(a, grid, map, i).rows = ReadLine(b, grid2, map, i).rows
    BY <2>2, <2>7, <2>8, SameRowsOn, SMTT(60)
  <2> QED
    BY <2>1, <2>3, <2>4, <2>5, <2>6, <2>9
<1>8. n \in S
  <2> HIDE DEF S
  <2>1. \A i \in h .. n : i \in S
    BY <1>6, <1>7, Upward
  <2>2. n \in h .. n
    BY <1>2
  <2> QED
    BY <2>1, <2>2
<1> QED
  BY <1>4, <1>5, <1>8

(* rowFromCells: the rows are those of the sheet without its unreadable    *)
(* counts.                                                                 *)
THEOREM CellsCostThemselves ==
  ASSUME ReaderInv
  PROVE  BadCellCostsItself
<1>1. SUFFICES ASSUME NEW g \in Grid, HasClients(g), \A i \in DOMAIN g : ~ allBlank(Wiped(g)[i])
               PROVE  rowsFromGrid(g).rows = rowsFromGrid(Wiped(g)).rows
  <2>1. Uploaded("grid") \subseteq Grid
    BY SheetsAreSheets DEF Uploaded, ReaderInv
  <2> QED
    BY <1>1, <2>1, Zenon DEF BadCellCostsItself
<1>2. PICK h, map :
           /\ h = findHeader(g) /\ h \in 1 .. Len(g) /\ h \in Nat /\ Len(g) \in Nat
           /\ map = Mapping(g[h])
  BY <1>1, HeadingAndClients
<1>3. PICK count : count = fieldColumn(map, "totalCameras")
  OBVIOUS
<1> DEFINE W == [i \in DOMAIN g |-> [col \in DOMAIN g[i] |->
                  IF i > h /\ col = count /\ ~ Readable(g[i][col]) THEN Blank ELSE g[i][col]]]
<1>4. Wiped(g) = W
  BY <1>2, <1>3, Zenon DEF Wiped
<1>5. PICK n \in Nat : n = Len(g) /\ DOMAIN g = 1 .. n
  BY DEF Grid
<1>6. ASSUME NEW i \in 1 .. h PROVE i \in 1 .. n /\ W[i] = g[i]
  <2>1. i \in 1 .. n /\ ~ (i > h)
    BY <1>2, <1>5
  <2>2. g[i] \in Line
    BY <1>5, <2>1 DEF Grid
  <2>3. W[i] = [col \in DOMAIN g[i] |-> g[i][col]]
    BY <1>5, <2>1
  <2>4. g[i] = [col \in DOMAIN g[i] |-> g[i][col]]
    BY <2>2 DEF Line
  <2> QED
    BY <2>1, <2>3, <2>4
<1>7. ASSUME NEW i \in h+1 .. n
      PROVE  /\ i \in 1 .. n /\ W[i] \in Line /\ ~ allBlank(g[i]) /\ ~ allBlank(W[i])
             /\ rowFromCells(g[i], map).ok = rowFromCells(W[i], map).ok
             /\ rowFromCells(g[i], map).values = rowFromCells(W[i], map).values
  <2>1. i \in 1 .. n /\ i > h
    BY <1>2, <1>5
  <2>2. g[i] \in Line
    BY <1>5, <2>1 DEF Grid
  <2>3. PICK w : w = W[i] /\ w = [col \in DOMAIN g[i] |->
                      IF col = count /\ ~ Readable(g[i][col]) THEN Blank ELSE g[i][col]]
    BY <1>5, <2>1
  <2>4. /\ w \in Line /\ (allBlank(g[i]) => allBlank(w))
        /\ rowFromCells(w, map).ok = rowFromCells(g[i], map).ok
        /\ rowFromCells(w, map).values = rowFromCells(g[i], map).values
    BY <1>3, <2>2, <2>3, LineWiped, SMTT(30)
  <2>5. ~ allBlank(w)
    BY <1>1, <1>4, <1>5, <2>1, <2>3
  <2> QED
    BY <2>1, <2>3, <2>4, <2>5
<1>8. W \in Grid /\ Len(W) = Len(g)
  <2>1. ASSUME NEW i \in 1 .. n PROVE W[i] \in Line
    <3>1. i \in 1 .. h => g[i] \in Line
      BY <1>5 DEF Grid
    <3>2. i \in 1 .. h \/ i \in h+1 .. n
      BY <1>2
    <3> QED
      BY <1>6, <1>7, <3>1, <3>2
  <2> HIDE DEF W
  <2>2. DOMAIN W = 1 .. n /\ W = [i \in 1 .. n |-> W[i]]
    BY <1>5 DEF W
  <2>3. W \in [1 .. n -> Line]
    BY <2>1, <2>2
  <2> QED
    BY <1>5, <2>2, <2>3 DEF Grid
<1> HIDE DEF W
<1>9. rowsFromGrid(g).rows = rowsFromGrid(W).rows
  BY <1>2, <1>5, <1>6, <1>7, <1>8, SameRows, SMTT(60)
<1> QED
  BY <1>4, <1>9

-----------------------------------------------------------------------------
(* Dates: the text of a cell, its layouts, and the one that is found.      *)
DateText == [sep : {"/", "-", ".", Space}, parts : Seq(Parts), weekday : BOOLEAN, ordinal : BOOLEAN]

LEMMA TextCleaned ==
  ASSUME NEW t \in DateText, NEW c, c = cleanDateText(t)
  PROVE  /\ t.parts \in Seq(Parts) /\ DOMAIN c.parts = DOMAIN t.parts /\ Len(c.parts) = Len(t.parts)
         /\ ~ c.weekday /\ ~ c.ordinal /\ (t.sep # "." => c.sep = t.sep)
         /\ \A k \in DOMAIN t.parts :
              /\ c.parts[k].n = t.parts[k].n /\ c.parts[k].digits = t.parts[k].digits
              /\ (IsNum(t.parts[k]) => c.parts[k] = t.parts[k])
              /\ (~ IsNum(t.parts[k]) => c.parts[k].name \in {"short", "long"})
<1>1. t.parts \in Seq(Parts)
  BY DEF DateText
<1>2. PICK p : p = [k \in DOMAIN t.parts |->
          IF t.parts[k].name = "Sept" THEN [t.parts[k] EXCEPT !.name = "short"] ELSE t.parts[k]]
  OBVIOUS
<1>3. c = [sep |-> IF t.sep = "." /\ AllNums(t) /\ Len(t.parts) = 3 THEN "/" ELSE t.sep,
           parts |-> p, weekday |-> FALSE, ordinal |-> FALSE]
  BY <1>2, Zenon DEF cleanDateText
<1>4. c.parts = p /\ ~ c.weekday /\ ~ c.ordinal /\ (t.sep # "." => c.sep = t.sep)
  BY <1>3
<1>5. PICK n \in Nat : DOMAIN t.parts = 1 .. n /\ Len(t.parts) = n
  BY <1>1
<1>6. DOMAIN p = 1 .. n /\ Len(p) = n
  <2>1. DOMAIN p = 1 .. n
    BY <1>2, <1>5
  <2>2. p = [k \in 1 .. n |-> p[k]]
    BY <1>2, <1>5
  <2> QED
    BY <1>5, <2>1, <2>2
<1>7. ASSUME NEW k \in DOMAIN t.parts
      PROVE  /\ p[k].n = t.parts[k].n /\ p[k].digits = t.parts[k].digits
             /\ (IsNum(t.parts[k]) => p[k] = t.parts[k])
             /\ (~ IsNum(t.parts[k]) => p[k].name \in {"short", "long"})
  <2>1. t.parts[k] \in Parts
    BY <1>1
  <2>2. PICK q \in Parts : q = t.parts[k]
    BY <2>1
  <2>3. p[k] = IF q.name = "Sept" THEN [q EXCEPT !.name = "short"] ELSE q
    BY <1>2, <2>2
  <2>4. q.name \in {"num", "short", "long", "Sept"}
    BY DEF Parts
  <2>5. CASE q.name = "Sept"
    <3>1. p[k].n = q.n /\ p[k].digits = q.digits /\ p[k].name = "short"
      BY <2>3, <2>5 DEF Parts
    <3> QED
      BY <2>2, <2>5, <3>1 DEF IsNum
  <2>6. CASE q.name # "Sept"
    BY <2>2, <2>3, <2>4, <2>6 DEF IsNum
  <2> QED
    BY <2>5, <2>6
<1> QED
  BY <1>1, <1>4, <1>5, <1>6, <1>7

LEMMA FieldIs ==
  ASSUME NEW t, NEW layout, NEW names, NEW none, NEW k \in DOMAIN layout.fields, layout.fields[k] \in names,
         \A j \in DOMAIN layout.fields : layout.fields[j] \in names => j = k
  PROVE  Field(t, layout, names, none) = t.parts[k].n
<1>1. {j \in DOMAIN layout.fields : layout.fields[j] \in names} = {k}
  OBVIOUS
<1> QED
  BY <1>1 DEF Field

(* The layouts, in the order they are tried.                               *)
LEMMA Joined ==
  ASSUME NEW S, NEW a \in Seq(S), NEW b \in Seq(S), Len(a) = 8, Len(b) = 4,
         NEW c \in Seq(S), Len(c) = Len(a) + Len(b),
         \A i \in 1 .. Len(a) + Len(b) : c[i] = IF i <= Len(a) THEN a[i] ELSE b[i - Len(a)]
  PROVE  /\ DOMAIN c = 1 .. 12
         /\ \A k \in 1 .. 8 : c[k] = a[k]
         /\ \A k \in 9 .. 12 : c[k] = b[k - 8]
<1>1. Len(a) + Len(b) = 12
  OBVIOUS
<1>2. DOMAIN c = 1 .. 12
  BY <1>1
<1>3. \A i \in 1 .. 12 : c[i] = IF i <= 8 THEN a[i] ELSE b[i - 8]
  BY <1>1
<1> QED
  BY <1>2, <1>3

LEMMA Eight ==
  ASSUME NEW S, NEW a \in S, NEW b \in S, NEW c \in S, NEW d \in S,
         NEW e \in S, NEW f \in S, NEW g \in S, NEW h \in S
  PROVE  /\ <<a, b, c, d, e, f, g, h>> \in Seq(S) /\ Len(<<a, b, c, d, e, f, g, h>>) = 8
         /\ <<a, b, c, d>> \in Seq(S) /\ Len(<<a, b, c, d>>) = 4
OBVIOUS

LEMMA LayoutsAre ==
  /\ DOMAIN Layouts = 1 .. 12
  /\ \A k \in 1 .. 8 : Layouts[k] = dateLayouts[k]
  /\ \A k \in 9 .. 12 : Layouts[k] = monthOnlyLayouts[k - 8]
<1>1. \E l1, l2, l3, l4, l5, l6, l7, l8 : dateLayouts = <<l1, l2, l3, l4, l5, l6, l7, l8>>
  BY Zenon DEF dateLayouts
<1>2. \E l1, l2, l3, l4 : monthOnlyLayouts = <<l1, l2, l3, l4>>
  BY Zenon DEF monthOnlyLayouts
<1>3. PICK l1, l2, l3, l4, l5, l6, l7, l8 : dateLayouts = <<l1, l2, l3, l4, l5, l6, l7, l8>>
  BY <1>1
<1>4. PICK m1, m2, m3, m4 : monthOnlyLayouts = <<m1, m2, m3, m4>>
  BY <1>2
<1>5. PICK S : S = {l1, l2, l3, l4, l5, l6, l7, l8, m1, m2, m3, m4}
  OBVIOUS
<1>6. /\ l1 \in S /\ l2 \in S /\ l3 \in S /\ l4 \in S /\ l5 \in S /\ l6 \in S /\ l7 \in S /\ l8 \in S
      /\ m1 \in S /\ m2 \in S /\ m3 \in S /\ m4 \in S
  BY <1>5
<1>7. PICK a : a = dateLayouts /\ a \in Seq(S) /\ Len(a) = 8
  <2>1. /\ <<l1, l2, l3, l4, l5, l6, l7, l8>> \in Seq(S)
        /\ Len(<<l1, l2, l3, l4, l5, l6, l7, l8>>) = 8
    BY <1>6, Eight
  <2> QED
    BY <1>3, <2>1
<1>8. PICK b : b = monthOnlyLayouts /\ b \in Seq(S) /\ Len(b) = 4
  <2>1. <<m1, m2, m3, m4>> \in Seq(S) /\ Len(<<m1, m2, m3, m4>>) = 4
    BY <1>6, Eight
  <2> QED
    BY <1>4, <2>1
<1>9. Layouts = a \o b
  BY <1>7, <1>8, Zenon DEF Layouts
<1>10. PICK c : c = Layouts /\ c = a \o b
  BY <1>9
<1>11. /\ DOMAIN c = 1 .. 12
       /\ \A k \in 1 .. 8 : c[k] = a[k]
       /\ \A k \in 9 .. 12 : c[k] = b[k - 8]
  <2>1. /\ a \o b \in Seq(S) /\ Len(a \o b) = Len(a) + Len(b)
        /\ \A i \in 1 .. Len(a) + Len(b) : (a \o b)[i] = IF i <= Len(a) THEN a[i] ELSE b[i - Len(a)]
    BY <1>7, <1>8, ConcatProperties, ZenonT(60)
  <2>2. /\ c \in Seq(S) /\ Len(c) = Len(a) + Len(b)
        /\ \A i \in 1 .. Len(a) + Len(b) : c[i] = IF i <= Len(a) THEN a[i] ELSE b[i - Len(a)]
    BY <1>10, <2>1, Zenon
  <2>3. a \in Seq(S) /\ Len(a) = 8 /\ b \in Seq(S) /\ Len(b) = 4
    BY <1>7, <1>8
  <2> QED
    BY <2>2, <2>3, Joined, ZenonT(60)
<1> QED
  BY <1>7, <1>8, <1>10, <1>11

LEMMA FieldsAre ==
  /\ Layouts[1].fields = <<"Y", "MM", "DD">>
  /\ Layouts[2] = [seps |-> {"-", "/"}, fields |-> <<"d", "m", "Y">>]
  /\ Layouts[3].fields = <<"d", "m", "YY">>
  /\ Layouts[4].fields = <<"MM", "DD", "Y">>
  /\ Layouts[5] = [seps |-> {Space}, fields |-> <<"d", "M", "Y">>]
  /\ Layouts[6] = [seps |-> {Space}, fields |-> <<"M", "d", "Y">>]
  /\ Layouts[7].fields = <<"d", "short", "Y">>
  /\ Layouts[8].fields = <<"d", "short", "YY">>
  /\ Layouts[9].fields = <<"M", "Y">>
  /\ Layouts[10].fields = <<"M", "YY">>
  /\ Layouts[11].fields = <<"Y", "MM">>
  /\ Layouts[12].fields = <<"MM", "Y">>
<1>1. /\ dateLayouts[1].fields = <<"Y", "MM", "DD">>
      /\ dateLayouts[2] = [seps |-> {"-", "/"}, fields |-> <<"d", "m", "Y">>]
      /\ dateLayouts[3].fields = <<"d", "m", "YY">>
      /\ dateLayouts[4].fields = <<"MM", "DD", "Y">>
      /\ dateLayouts[5] = [seps |-> {Space}, fields |-> <<"d", "M", "Y">>]
      /\ dateLayouts[6] = [seps |-> {Space}, fields |-> <<"M", "d", "Y">>]
      /\ dateLayouts[7].fields = <<"d", "short", "Y">>
      /\ dateLayouts[8].fields = <<"d", "short", "YY">>
  BY DEF dateLayouts
<1>2. /\ monthOnlyLayouts[1].fields = <<"M", "Y">>
      /\ monthOnlyLayouts[2].fields = <<"M", "YY">>
      /\ monthOnlyLayouts[3].fields = <<"Y", "MM">>
      /\ monthOnlyLayouts[4].fields = <<"MM", "Y">>
  BY DEF monthOnlyLayouts
<1>3. /\ 9 - 8 = 1 /\ 10 - 8 = 2 /\ 11 - 8 = 3 /\ 12 - 8 = 4
      /\ {1, 2, 3, 4, 5, 6, 7, 8} \subseteq 1 .. 8 /\ {9, 10, 11, 12} \subseteq 9 .. 12
  OBVIOUS
<1>4. /\ \A k \in {1, 2, 3, 4, 5, 6, 7, 8} : Layouts[k] = dateLayouts[k]
      /\ \A k \in {9, 10, 11, 12} : Layouts[k] = monthOnlyLayouts[k - 8]
  BY <1>3, LayoutsAre
<1>5. /\ Layouts[1] = dateLayouts[1] /\ Layouts[2] = dateLayouts[2] /\ Layouts[3] = dateLayouts[3]
      /\ Layouts[4] = dateLayouts[4] /\ Layouts[5] = dateLayouts[5] /\ Layouts[6] = dateLayouts[6]
      /\ Layouts[7] = dateLayouts[7] /\ Layouts[8] = dateLayouts[8]
      /\ Layouts[9] = monthOnlyLayouts[1] /\ Layouts[10] = monthOnlyLayouts[2]
      /\ Layouts[11] = monthOnlyLayouts[3] /\ Layouts[12] = monthOnlyLayouts[4]
  BY <1>3, <1>4
<1> QED
  BY <1>1, <1>2, <1>5, Zenon

MonthFields == {"m", "MM", "M", "short"}
DateFields  == {"Y", "YY", "d", "DD"} \cup MonthFields

(* A layout names the month once, as a number or by its name.              *)
MonthOnce(f) ==
  /\ DOMAIN f = 1 .. Len(f) /\ Len(f) \in {2, 3} /\ \A i \in DOMAIN f : f[i] \in DateFields
  /\ \A i, j \in DOMAIN f : f[i] \in MonthFields /\ f[j] \in MonthFields => i = j

LEMMA FieldsNameTheMonth ==
  ASSUME NEW a \in DateFields, NEW b \in DateFields, NEW c \in DateFields,
         a \notin MonthFields \/ b \notin MonthFields,
         a \notin MonthFields \/ c \notin MonthFields, b \notin MonthFields \/ c \notin MonthFields
  PROVE  MonthOnce(<<a, b>>) /\ MonthOnce(<<a, b, c>>)
<1> HIDE DEF DateFields, MonthFields
<1>1. MonthOnce(<<a, b>>)
  <2>1. PICK f : f = <<a, b>>
    OBVIOUS
  <2>2. DOMAIN f = 1 .. 2 /\ Len(f) = 2 /\ f[1] = a /\ f[2] = b
    BY <2>1
  <2> QED
    BY <2>1, <2>2 DEF MonthOnce
<1>2. MonthOnce(<<a, b, c>>)
  <2>1. PICK f : f = <<a, b, c>>
    OBVIOUS
  <2>2. DOMAIN f = 1 .. 3 /\ Len(f) = 3 /\ f[1] = a /\ f[2] = b /\ f[3] = c
    BY <2>1
  <2> QED
    BY <2>1, <2>2 DEF MonthOnce
<1> QED
  BY <1>1, <1>2

LEMMA LayoutsNameTheMonth == \A k \in 1 .. 12 : MonthOnce(Layouts[k].fields)
<1>1. /\ MonthOnce(<<"Y", "MM", "DD">>) /\ MonthOnce(<<"d", "m", "Y">>) /\ MonthOnce(<<"d", "m", "YY">>)
      /\ MonthOnce(<<"MM", "DD", "Y">>) /\ MonthOnce(<<"d", "M", "Y">>) /\ MonthOnce(<<"M", "d", "Y">>)
      /\ MonthOnce(<<"d", "short", "Y">>) /\ MonthOnce(<<"d", "short", "YY">>)
      /\ MonthOnce(<<"M", "Y">>) /\ MonthOnce(<<"M", "YY">>) /\ MonthOnce(<<"Y", "MM">>)
      /\ MonthOnce(<<"MM", "Y">>)
  <2>1. {"Y", "YY", "d", "DD", "m", "MM", "M", "short"} \subseteq DateFields
        /\ {"Y", "YY", "d", "DD"} \cap MonthFields = {}
    BY DEF DateFields, MonthFields
  <2> QED
    BY <2>1, FieldsNameTheMonth
<1>2. \A k \in 1 .. 12 : k \in {1, 2, 3, 4, 5, 6, 7, 8, 9, 10, 11, 12}
  OBVIOUS
<1>3. PICK l2, l5, l6 :
           /\ l2 = [seps |-> {"-", "/"}, fields |-> <<"d", "m", "Y">>]
           /\ l5 = [seps |-> {Space}, fields |-> <<"d", "M", "Y">>]
           /\ l6 = [seps |-> {Space}, fields |-> <<"M", "d", "Y">>]
  BY Zenon
<1>4. l2.fields = <<"d", "m", "Y">> /\ l5.fields = <<"d", "M", "Y">> /\ l6.fields = <<"M", "d", "Y">>
  BY <1>3
<1>5. /\ MonthOnce(Layouts[1].fields) /\ MonthOnce(Layouts[2].fields) /\ MonthOnce(Layouts[3].fields)
      /\ MonthOnce(Layouts[4].fields) /\ MonthOnce(Layouts[5].fields) /\ MonthOnce(Layouts[6].fields)
      /\ MonthOnce(Layouts[7].fields) /\ MonthOnce(Layouts[8].fields) /\ MonthOnce(Layouts[9].fields)
      /\ MonthOnce(Layouts[10].fields) /\ MonthOnce(Layouts[11].fields) /\ MonthOnce(Layouts[12].fields)
  BY <1>1, <1>3, <1>4, FieldsAre, Zenon
<1>6. ASSUME NEW k \in {1, 2, 3, 4, 5, 6, 7, 8, 9, 10, 11, 12} PROVE MonthOnce(Layouts[k].fields)
  BY <1>5, Zenon
<1> QED
  BY <1>2, <1>6

(* The first layout that fits is taken.                                    *)
LEMMA DateFound ==
  ASSUME NEW t, NEW c, c = cleanDateText(t), ~ isSerial(t), NEW day, day = parseSheetDate(t)
  PROVE  /\ day # Null => \E k \in 1 .. 12 : day = parseLayout(c, Layouts[k])
         /\ \A k \in 1 .. 12 : parseLayout(c, Layouts[k]) # Null =>
              \E j \in 1 .. 12 : j <= k /\ parseLayout(c, Layouts[j]) # Null /\ day = parseLayout(c, Layouts[j])
<1> DEFINE fits == {k \in DOMAIN Layouts : parseLayout(c, Layouts[k]) # Null}
           first == CHOOSE k \in fits : \A j \in fits : k <= j
<1>1. fits = {k \in 1 .. 12 : parseLayout(c, Layouts[k]) # Null}
  BY LayoutsAre
<1>2. fits \in SUBSET Nat /\ fits \subseteq 1 .. 12
  BY <1>1
<1>3. fits # {} => first \in fits /\ \A j \in fits : first <= j
  <2> HIDE DEF fits
  <2> QED
    BY <1>2, Least
<1>4. day = CASE isSerial(t) -> [y |-> 0, m |-> 0, d |-> t.parts[1].n]
              [] ~ isSerial(t) /\ fits = {} -> Null
              [] OTHER -> parseLayout(c, Layouts[first])
  BY Zenon DEF parseSheetDate
<1> HIDE DEF first
<1>5. (fits = {} => day = Null) /\ (fits # {} => day = parseLayout(c, Layouts[first]))
  <2> HIDE DEF fits
  <2> QED
    BY <1>4
<1> QED
  BY <1>1, <1>2, <1>3, <1>5

(* What a layout asks of a text, and what it makes of it.                  *)
LEMMA LayoutRead ==
  ASSUME NEW t, NEW layout,
         NEW short, short = Field(t, layout, {"YY"}, 0),
         NEW y, y = Field(t, layout, {"Y"}, short + IF short >= 69 THEN 1900 ELSE 2000),
         NEW m, m = Field(t, layout, {"m", "MM", "M", "short"}, 0), NEW d, d = Field(t, layout, {"d", "DD"}, 1)
  PROVE  parseLayout(t, layout) =
           IF /\ t.sep \in layout.seps /\ ~ t.weekday /\ ~ t.ordinal
              /\ Len(t.parts) = Len(layout.fields)
              /\ \A k \in DOMAIN t.parts : Fits(t.parts[k], layout.fields[k])
              /\ m \in 1 .. 12 /\ d \in 1 .. daysIn(m, y)
           THEN [y |-> y, m |-> m, d |-> d] ELSE Null
BY DEF parseLayout

LEMMA LayoutRefused ==
  ASSUME NEW t, NEW layout, ~ \A k \in DOMAIN t.parts : Fits(t.parts[k], layout.fields[k])
  PROVE  parseLayout(t, layout) = Null
<1>1. PICK short : short = Field(t, layout, {"YY"}, 0)
  OBVIOUS
<1>2. PICK y : y = Field(t, layout, {"Y"}, short + IF short >= 69 THEN 1900 ELSE 2000)
  OBVIOUS
<1>3. PICK m : m = Field(t, layout, {"m", "MM", "M", "short"}, 0)
  OBVIOUS
<1>4. PICK d : d = Field(t, layout, {"d", "DD"}, 1)
  OBVIOUS
<1>5. parseLayout(t, layout) =
        IF /\ t.sep \in layout.seps /\ ~ t.weekday /\ ~ t.ordinal
           /\ Len(t.parts) = Len(layout.fields)
           /\ \A k \in DOMAIN t.parts : Fits(t.parts[k], layout.fields[k])
           /\ m \in 1 .. 12 /\ d \in 1 .. daysIn(m, y)
        THEN [y |-> y, m |-> m, d |-> d] ELSE Null
  BY <1>1, <1>2, <1>3, <1>4, LayoutRead
<1> QED
  BY <1>5

LEMMA FieldsFit ==
  ASSUME NEW part, NEW field \in DateFields
  PROVE  /\ field \in {"M", "short"} /\ Fits(part, field) => ~ IsNum(part)
         /\ field \notin {"M", "short"} /\ Fits(part, field) => IsNum(part)
         /\ field = "Y" => (Fits(part, field) <=> IsNum(part) /\ part.digits = 4)
         /\ field \in {"d", "m"} => (Fits(part, field) <=> IsNum(part) /\ part.digits \in {1, 2})
         /\ field = "M" => (Fits(part, field) <=> part.name \in {"short", "long"})
BY DEF DateFields, MonthFields, Fits, IsNum

(* parseSheetDate: a date that is read of a text with the name of a month  *)
(* is in that month.                                                       *)
THEOREM MonthsAreMeant ==
  ASSUME NEW t \in DateText, NEW k \in DOMAIN t.parts, ~ IsNum(t.parts[k]),
         \A j \in DOMAIN t.parts : ~ IsNum(t.parts[j]) => j = k,
         parseSheetDate(t) # Null
  PROVE  parseSheetDate(t).m = t.parts[k].n
<1>1. PICK c : c = cleanDateText(t)
  OBVIOUS
<1>2. PICK day : day = parseSheetDate(t)
  OBVIOUS
<1>3. DOMAIN t.parts = 1 .. Len(t.parts) /\ Len(t.parts) \in Nat
  <2>1. t.parts \in Seq(Parts)
    BY DEF DateText
  <2> QED
    BY <2>1
<1>4. ~ isSerial(t)
  <2>1. Len(t.parts) = 1 => k = 1
    BY <1>3
  <2>2. isSerial(t) => Len(t.parts) = 1 /\ IsNum(t.parts[1])
    BY DEF isSerial
  <2> QED
    BY <2>1, <2>2, Zenon
<1>5. PICK l \in 1 .. 12 : day = parseLayout(c, Layouts[l])
  BY <1>1, <1>2, <1>4, DateFound
<1>6. PICK layout : layout = Layouts[l] /\ MonthOnce(layout.fields)
  BY LayoutsNameTheMonth
<1>7. PICK f : f = layout.fields
  OBVIOUS
<1>8. PICK short : short = Field(c, layout, {"YY"}, 0)
  OBVIOUS
<1>9. PICK y : y = Field(c, layout, {"Y"}, short + IF short >= 69 THEN 1900 ELSE 2000)
  OBVIOUS
<1>10. PICK m : m = Field(c, layout, {"m", "MM", "M", "short"}, 0)
  OBVIOUS
<1>11. PICK d : d = Field(c, layout, {"d", "DD"}, 1)
  OBVIOUS
<1>12. day = IF /\ c.sep \in layout.seps /\ ~ c.weekday /\ ~ c.ordinal
                /\ Len(c.parts) = Len(layout.fields)
                /\ \A j \in DOMAIN c.parts : Fits(c.parts[j], layout.fields[j])
                /\ m \in 1 .. 12 /\ d \in 1 .. daysIn(m, y)
             THEN [y |-> y, m |-> m, d |-> d] ELSE Null
  BY <1>5, <1>6, <1>8, <1>9, <1>10, <1>11, LayoutRead, SMTT(60)
<1>13. /\ day = [y |-> y, m |-> m, d |-> d] /\ Len(c.parts) = Len(f) /\ m \in 1 .. 12
      /\ \A j \in DOMAIN c.parts : Fits(c.parts[j], f[j])
  BY <1>2, <1>7, <1>12
<1>14. day.m = m
  BY <1>13
<1>15. /\ DOMAIN c.parts = DOMAIN t.parts /\ Len(c.parts) = Len(t.parts)
       /\ \A j \in DOMAIN t.parts : c.parts[j].n = t.parts[j].n
       /\ \A j \in DOMAIN t.parts : IsNum(t.parts[j]) => IsNum(c.parts[j])
       /\ ~ IsNum(c.parts[k])
  <2>1. \A j \in DOMAIN t.parts :
          /\ c.parts[j].n = t.parts[j].n
          /\ (IsNum(t.parts[j]) => c.parts[j] = t.parts[j])
          /\ (~ IsNum(t.parts[j]) => c.parts[j].name \in {"short", "long"})
    BY <1>1, TextCleaned
  <2>2. c.parts[k].name \in {"short", "long"}
    BY <2>1
  <2> QED
    BY <1>1, <2>1, <2>2, TextCleaned DEF IsNum
<1>16. DOMAIN f = DOMAIN c.parts
  BY <1>3, <1>6, <1>7, <1>13, <1>15 DEF MonthOnce
<1>17. f[k] \in {"M", "short"}
  <2>1. f[k] \in DateFields /\ Fits(c.parts[k], f[k])
    BY <1>6, <1>7, <1>13, <1>15, <1>16 DEF MonthOnce
  <2> QED
    BY <1>15, <2>1, FieldsFit
<1>18. m = c.parts[k].n
  <2>1. f[k] \in MonthFields /\ \A j \in DOMAIN f : f[j] \in MonthFields => j = k
    BY <1>6, <1>7, <1>15, <1>16, <1>17 DEF MonthOnce, MonthFields
  <2>2. k \in DOMAIN layout.fields /\ layout.fields[k] \in {"m", "MM", "M", "short"}
        /\ \A j \in DOMAIN layout.fields : layout.fields[j] \in {"m", "MM", "M", "short"} => j = k
    BY <1>7, <1>15, <1>16, <2>1 DEF MonthFields
  <2> QED
    BY <1>10, <2>2, FieldIs
<1> QED
  BY <1>2, <1>14, <1>15, <1>18

(* A text of three parts that the layout <<a, b, "Y">> fits.               *)
LEMMA Fitted ==
  ASSUME NEW c, NEW layout, NEW seps, NEW a, NEW b, layout = [seps |-> seps, fields |-> <<a, b, "Y">>],
         (a = "d" /\ b \in {"m", "M"}) \/ (a = "M" /\ b = "d"),
         Len(c.parts) = 3, DOMAIN c.parts = 1 .. 3, c.sep \in seps, ~ c.weekday, ~ c.ordinal,
         Fits(c.parts[1], a), Fits(c.parts[2], b), Fits(c.parts[3], "Y"),
         NEW y, y = c.parts[3].n,
         NEW m, m = c.parts[IF b = "d" THEN 1 ELSE 2].n, m \in 1 .. 12,
         NEW d, d = c.parts[IF b = "d" THEN 2 ELSE 1].n, d \in 1 .. daysIn(m, y)
  PROVE  parseLayout(c, layout) = [y |-> y, m |-> m, d |-> d]
<1>1. PICK f : f = layout.fields /\ f = <<a, b, "Y">>
  OBVIOUS
<1>2. DOMAIN f = 1 .. 3 /\ Len(f) = 3 /\ f[1] = a /\ f[2] = b /\ f[3] = "Y" /\ 1 .. 3 = {1, 2, 3}
  BY <1>1
<1>3. PICK short : short = Field(c, layout, {"YY"}, 0)
  OBVIOUS
<1>4. y = Field(c, layout, {"Y"}, short + IF short >= 69 THEN 1900 ELSE 2000)
  <2>1. 3 \in DOMAIN layout.fields /\ layout.fields[3] \in {"Y"}
        /\ \A j \in DOMAIN layout.fields : layout.fields[j] \in {"Y"} => j = 3
    BY <1>1, <1>2
  <2> QED
    BY <2>1, FieldIs
<1>5. m = Field(c, layout, {"m", "MM", "M", "short"}, 0)
  <2>1. PICK k : k = IF b = "d" THEN 1 ELSE 2
    OBVIOUS
  <2>2. k \in DOMAIN layout.fields /\ layout.fields[k] \in {"m", "MM", "M", "short"}
        /\ \A j \in DOMAIN layout.fields : layout.fields[j] \in {"m", "MM", "M", "short"} => j = k
    BY <1>1, <1>2, <2>1
  <2> QED
    BY <2>1, <2>2, FieldIs
<1>6. d = Field(c, layout, {"d", "DD"}, 1)
  <2>1. PICK k : k = IF b = "d" THEN 2 ELSE 1
    OBVIOUS
  <2>2. k \in DOMAIN layout.fields /\ layout.fields[k] \in {"d", "DD"}
        /\ \A j \in DOMAIN layout.fields : layout.fields[j] \in {"d", "DD"} => j = k
    BY <1>1, <1>2, <2>1
  <2> QED
    BY <2>1, <2>2, FieldIs
<1>7. \A k \in DOMAIN c.parts : Fits(c.parts[k], layout.fields[k])
  BY <1>1, <1>2
<1>8. c.sep \in layout.seps /\ Len(c.parts) = Len(layout.fields)
  BY <1>1, <1>2
<1>9. parseLayout(c, layout) =
        IF /\ c.sep \in layout.seps /\ ~ c.weekday /\ ~ c.ordinal
           /\ Len(c.parts) = Len(layout.fields)
           /\ \A k \in DOMAIN c.parts : Fits(c.parts[k], layout.fields[k])
           /\ m \in 1 .. 12 /\ d \in 1 .. daysIn(m, y)
        THEN [y |-> y, m |-> m, d |-> d] ELSE Null
  BY <1>3, <1>4, <1>5, <1>6, LayoutRead, SMTT(60)
<1> QED
  BY <1>7, <1>8, <1>9

LEMMA PartsAre ==
  ASSUME NEW part \in Parts
  PROVE  /\ part.n \in Nat /\ part.digits \in Nat
         /\ IsNum(part) => part.digits # 0
         /\ ~ IsNum(part) => part.n \in 1 .. 12
BY DEF Parts, IsNum

LEMMA DatesAre ==
  ASSUME NEW y \in Nat, NEW m \in Nat, NEW d \in Nat
  PROVE  [y |-> y, m |-> m, d |-> d] # Null
<1>1. [y |-> y, m |-> m, d |-> d] \in [y : Nat, m : Nat, d : Nat]
  OBVIOUS
<1> QED
  BY <1>1, ReaderAssumption

(* dateLayouts: no layout that puts the month first is asked before the    *)
(* one that puts the day first.                                            *)
THEOREM DaysComeFirst ==
  ASSUME NEW t \in DateText, NEW p, p = t.parts, Len(p) = 3, AllNums(t),
         t.sep \in {"/", "-"}, ~ t.weekday, ~ t.ordinal,
         p[1].digits < 3, p[2].digits < 3, p[3].digits = 4,
         p[2].n \in 1 .. 12, p[1].n \in 1 .. daysIn(p[2].n, p[3].n)
  PROVE  parseSheetDate(t) = [y |-> p[3].n, m |-> p[2].n, d |-> p[1].n]
<1>1. PICK c : c = cleanDateText(t)
  OBVIOUS
<1>2. DOMAIN p = 1 .. 3 /\ p[1] \in Parts /\ p[2] \in Parts /\ p[3] \in Parts
  <2>1. p \in Seq(Parts)
    BY DEF DateText
  <2> QED
    BY <2>1
<1>3. ~ isSerial(t)
  BY DEF isSerial
<1>4. /\ DOMAIN c.parts = 1 .. 3 /\ Len(c.parts) = 3 /\ c.sep \in {"-", "/"} /\ ~ c.weekday /\ ~ c.ordinal
      /\ c.parts[1] = p[1] /\ c.parts[2] = p[2] /\ c.parts[3] = p[3]
      /\ IsNum(p[1]) /\ IsNum(p[2]) /\ IsNum(p[3])
  <2>1. IsNum(p[1]) /\ IsNum(p[2]) /\ IsNum(p[3])
    BY <1>2 DEF AllNums
  <2>2. \A k \in DOMAIN p : IsNum(p[k]) => c.parts[k] = p[k]
    BY <1>1, TextCleaned
  <2>3. /\ DOMAIN c.parts = DOMAIN p /\ Len(c.parts) = Len(p) /\ ~ c.weekday /\ ~ c.ordinal
        /\ c.sep = t.sep
    BY <1>1, TextCleaned
  <2> QED
    BY <1>2, <2>1, <2>2, <2>3
<1>5. /\ p[1].n \in Nat /\ p[2].n \in Nat /\ p[3].n \in Nat
      /\ p[1].digits \in {1, 2} /\ p[2].digits \in {1, 2}
  BY <1>2, <1>4, PartsAre
<1>6. Fits(p[1], "d") /\ Fits(p[2], "m") /\ Fits(p[3], "Y") /\ ~ Fits(p[1], "Y")
  <2>1. "d" \in DateFields /\ "m" \in DateFields /\ "Y" \in DateFields
    BY DEF DateFields, MonthFields
  <2> QED
    BY <1>4, <1>5, <2>1, FieldsFit
<1>7. parseLayout(c, Layouts[1]) = Null
  <2>1. PICK layout : layout = Layouts[1] /\ layout.fields = <<"Y", "MM", "DD">>
    BY FieldsAre
  <2>2. layout.fields[1] = "Y" /\ 1 \in DOMAIN c.parts
    BY <1>4, <2>1
  <2>3. ~ \A k \in DOMAIN c.parts : Fits(c.parts[k], layout.fields[k])
    BY <1>4, <1>6, <2>2
  <2> QED
    BY <2>1, <2>3, LayoutRefused
<1>8. PICK day : day = [y |-> p[3].n, m |-> p[2].n, d |-> p[1].n] /\ day # Null
  BY <1>5, DatesAre
<1>9. parseLayout(c, Layouts[2]) = day
  <2>1. PICK layout : layout = Layouts[2] /\ layout = [seps |-> {"-", "/"}, fields |-> <<"d", "m", "Y">>]
    BY FieldsAre
  <2>11. PICK a : a = "d"
    OBVIOUS
  <2>12. PICK b : b = "m" /\ b # "d"
    OBVIOUS
  <2>13. PICK seps : seps = {"-", "/"}
    OBVIOUS
  <2>2. a = "d" /\ b = "m" /\ b # "d" /\ seps = {"-", "/"} /\ c.sep \in seps
    BY <1>4, <2>11, <2>12, <2>13
  <2>3. PICK y, m, d : /\ y = c.parts[3].n /\ m = c.parts[2].n /\ m \in 1 .. 12
                       /\ d = c.parts[1].n /\ d \in 1 .. daysIn(m, y)
    BY <1>4
  <2>4. m = c.parts[IF b = "d" THEN 1 ELSE 2].n /\ d = c.parts[IF b = "d" THEN 2 ELSE 1].n
    BY <2>2, <2>3
  <2>5. Fits(c.parts[1], a) /\ Fits(c.parts[2], b) /\ Fits(c.parts[3], "Y")
    BY <1>4, <1>6, <2>2
  <2>6. layout = [seps |-> seps, fields |-> <<a, b, "Y">>]
    BY <2>1, <2>2
  <2>7. parseLayout(c, layout) = [y |-> y, m |-> m, d |-> d]
    <3>1. (a = "d" /\ b \in {"m", "M"}) \/ (a = "M" /\ b = "d")
      <4>1. b \in {"m", "M"}
        BY <2>12
      <4> QED
        BY <2>11, <4>1
    <3>2. Len(c.parts) = 3 /\ DOMAIN c.parts = 1 .. 3 /\ ~ c.weekday /\ ~ c.ordinal
      BY <1>4
    <3> QED
      BY <2>2, <2>3, <2>4, <2>5, <2>6, <3>1, <3>2, Fitted
  <2> QED
    BY <1>4, <1>8, <2>1, <2>3, <2>7
<1>10. PICK j \in 1 .. 12 : j <= 2 /\ parseLayout(c, Layouts[j]) # Null
                          /\ parseSheetDate(t) = parseLayout(c, Layouts[j])
  <2>1. 2 \in 1 .. 12
    OBVIOUS
  <2> QED
    BY <1>1, <1>3, <1>8, <1>9, <2>1, DateFound
<1>11. j = 2
  BY <1>7, <1>10
<1> QED
  BY <1>8, <1>9, <1>10, <1>11

LEMMA SpaceIs == Space # "."
BY Zenon DEF Space

LEMMA MonthDays == ASSUME NEW m, NEW y, NEW d \in 1 .. 28 PROVE d \in 1 .. daysIn(m, y)
<1>1. PICK n : n = daysIn(m, y)
  OBVIOUS
<1>2. n \in {28, 29, 30, 31}
  BY <1>1, Zenon DEF daysIn
<1> QED
  BY <1>1, <1>2

(* A day, a spelled month and a year fit a layout in either order.         *)
LEMMA MonthsAreRead ==
  ASSUME NEW t \in DateText, NEW p, p = t.parts, Len(p) = 3, t.sep = Space,
         NEW k \in {1, 2}, ~ IsNum(p[k]), NEW j \in {1, 2}, j # k, IsNum(p[j]), IsNum(p[3]),
         p[3].digits = 4, p[j].digits < 3, p[j].n \in 1 .. 28
  PROVE  parseSheetDate(t) # Null
<1>1. PICK c : c = cleanDateText(t)
  OBVIOUS
<1>2. DOMAIN p = 1 .. 3 /\ p[1] \in Parts /\ p[2] \in Parts /\ p[3] \in Parts
  <2>1. p \in Seq(Parts)
    BY DEF DateText
  <2> QED
    BY <2>1
<1>3. ~ isSerial(t)
  BY DEF isSerial
<1>4. /\ DOMAIN c.parts = 1 .. 3 /\ Len(c.parts) = 3 /\ c.sep = Space /\ ~ c.weekday /\ ~ c.ordinal
      /\ c.parts[j] = p[j] /\ c.parts[3] = p[3]
      /\ c.parts[k].n = p[k].n /\ c.parts[k].name \in {"short", "long"}
  <2>1. /\ DOMAIN c.parts = DOMAIN p /\ Len(c.parts) = Len(p) /\ ~ c.weekday /\ ~ c.ordinal
        /\ (t.sep # "." => c.sep = t.sep)
        /\ \A i \in DOMAIN p :
             /\ c.parts[i].n = p[i].n
             /\ (IsNum(p[i]) => c.parts[i] = p[i])
             /\ (~ IsNum(p[i]) => c.parts[i].name \in {"short", "long"})
    BY <1>1, TextCleaned
  <2>2. j \in DOMAIN p /\ k \in DOMAIN p /\ 3 \in DOMAIN p
    BY <1>2
  <2> QED
    BY <1>2, <2>1, <2>2, SpaceIs
<1>5. /\ p[j].n \in Nat /\ p[j].digits \in {1, 2} /\ p[3].n \in Nat /\ p[k].n \in 1 .. 12
  <2>1. p[j] \in Parts /\ p[k] \in Parts
    BY <1>2
  <2> QED
    BY <1>2, <2>1, PartsAre
<1>6. PICK y, m, d : y = c.parts[3].n /\ m = c.parts[k].n /\ d = c.parts[j].n
  OBVIOUS
<1>7. y \in Nat /\ m \in Nat /\ d \in Nat /\ m \in 1 .. 12 /\ d \in 1 .. daysIn(m, y)
  BY <1>4, <1>5, <1>6, MonthDays
<1>8. Fits(c.parts[j], "d") /\ Fits(c.parts[k], "M") /\ Fits(c.parts[3], "Y")
  <2>1. "d" \in DateFields /\ "M" \in DateFields /\ "Y" \in DateFields
    BY DEF DateFields, MonthFields
  <2> QED
    BY <1>4, <1>5, <2>1, FieldsFit
<1>9. PICK seps : seps = {Space}
  OBVIOUS
<1>10. \E l \in 1 .. 12 : parseLayout(c, Layouts[l]) = [y |-> y, m |-> m, d |-> d]
  <2>1. CASE k = 2
    <3>1. PICK layout : layout = Layouts[5] /\ layout = [seps |-> {Space}, fields |-> <<"d", "M", "Y">>]
      BY FieldsAre
    <3>2. PICK a : a = "d"
      OBVIOUS
    <3>3. PICK b : b = "M" /\ b # "d" /\ b \in {"m", "M"}
      OBVIOUS
    <3>4. layout = [seps |-> seps, fields |-> <<a, b, "Y">>] /\ c.sep \in seps
      BY <1>4, <1>9, <3>1, <3>2, <3>3
    <3>5. j = 1
      BY <2>1
    <3>6. Fits(c.parts[1], a) /\ Fits(c.parts[2], b) /\ Fits(c.parts[3], "Y")
      BY <1>8, <2>1, <3>2, <3>3, <3>5
    <3>7. m = c.parts[IF b = "d" THEN 1 ELSE 2].n /\ d = c.parts[IF b = "d" THEN 2 ELSE 1].n
      BY <1>6, <2>1, <3>3, <3>5
    <3>8. (a = "d" /\ b \in {"m", "M"}) \/ (a = "M" /\ b = "d")
      BY <3>2, <3>3
    <3>9. parseLayout(c, layout) = [y |-> y, m |-> m, d |-> d]
      <4>1. /\ Len(c.parts) = 3 /\ DOMAIN c.parts = 1 .. 3 /\ ~ c.weekday /\ ~ c.ordinal
            /\ y = c.parts[3].n /\ m \in 1 .. 12 /\ d \in 1 .. daysIn(m, y)
        BY <1>4, <1>6, <1>7
      <4> QED
        BY <3>4, <3>6, <3>7, <3>8, <4>1, Fitted
    <3>10. 5 \in 1 .. 12 /\ parseLayout(c, Layouts[5]) = [y |-> y, m |-> m, d |-> d]
      BY <3>1, <3>9
    <3> QED
      BY <3>10, Zenon
  <2>2. CASE k = 1
    <3>1. PICK layout : layout = Layouts[6] /\ layout = [seps |-> {Space}, fields |-> <<"M", "d", "Y">>]
      BY FieldsAre
    <3>2. PICK a : a = "M"
      OBVIOUS
    <3>3. PICK b : b = "d"
      OBVIOUS
    <3>4. layout = [seps |-> seps, fields |-> <<a, b, "Y">>] /\ c.sep \in seps
      BY <1>4, <1>9, <3>1, <3>2, <3>3
    <3>5. j = 2
      BY <2>2
    <3>6. Fits(c.parts[1], a) /\ Fits(c.parts[2], b) /\ Fits(c.parts[3], "Y")
      BY <1>8, <2>2, <3>2, <3>3, <3>5
    <3>7. m = c.parts[IF b = "d" THEN 1 ELSE 2].n /\ d = c.parts[IF b = "d" THEN 2 ELSE 1].n
      BY <1>6, <2>2, <3>3, <3>5
    <3>8. (a = "d" /\ b \in {"m", "M"}) \/ (a = "M" /\ b = "d")
      BY <3>2, <3>3
    <3>9. parseLayout(c, layout) = [y |-> y, m |-> m, d |-> d]
      <4>1. /\ Len(c.parts) = 3 /\ DOMAIN c.parts = 1 .. 3 /\ ~ c.weekday /\ ~ c.ordinal
            /\ y = c.parts[3].n /\ m \in 1 .. 12 /\ d \in 1 .. daysIn(m, y)
        BY <1>4, <1>6, <1>7
      <4> QED
        BY <3>4, <3>6, <3>7, <3>8, <4>1, Fitted
    <3>10. 6 \in 1 .. 12 /\ parseLayout(c, Layouts[6]) = [y |-> y, m |-> m, d |-> d]
      BY <3>1, <3>9
    <3> QED
      BY <3>10, Zenon
  <2> QED
    BY <2>1, <2>2
<1>11. PICK l \in 1 .. 12 : parseLayout(c, Layouts[l]) # Null
  BY <1>7, <1>10, DatesAre
<1> QED
  BY <1>1, <1>3, <1>11, DateFound

(* What parseSheetDate reads of any date cell is what the cell says.       *)
THEOREM DatesAreRead ==
  ASSUME ReaderInv
  PROVE  DayComesFirst /\ SpelledMonthIsUnderstood
<1>1. Uploaded("date") \subseteq DateText
  BY ReaderAssumption DEF Uploaded, ReaderInv, DateText
<1>2. DayComesFirst
  BY <1>1, DaysComeFirst, Zenon DEF DayComesFirst
<1>3. ASSUME NEW t \in DateText, NEW p, p = t.parts, NEW names, names = {k \in DOMAIN p : ~ IsNum(p[k])},
             Cardinality(names) = 1
      PROVE  /\ parseSheetDate(t) # Null => \A k \in names : parseSheetDate(t).m = p[k].n
             /\ /\ Len(p) = 3 /\ names \subseteq {1, 2} /\ t.sep = Space /\ p[3].digits = 4
                => LET number == p[CHOOSE k \in {1, 2} \ names : TRUE] IN
                   number.digits < 3 /\ number.n \in 1 .. 28 => parseSheetDate(t) # Null
  <2>1. PICK n \in Nat : DOMAIN p = 1 .. n /\ n = Len(p)
    BY <1>3 DEF DateText
  <2>2. IsFiniteSet(names)
    <3>1. IsFiniteSet(1 .. n)
      BY FS_Interval
    <3> QED
      BY <1>3, <2>1, <3>1, FS_Subset
  <2>3. PICK k : names = {k}
    BY <1>3, <2>2, FS_Singleton
  <2>4. k \in DOMAIN t.parts /\ ~ IsNum(t.parts[k]) /\ \A j \in DOMAIN t.parts : ~ IsNum(t.parts[j]) => j = k
    BY <1>3, <2>3
  <2>5. parseSheetDate(t) # Null => parseSheetDate(t).m = t.parts[k].n
    BY <1>3, <2>4, MonthsAreMeant
  <2>6. ASSUME Len(p) = 3, names \subseteq {1, 2}, t.sep = Space, p[3].digits = 4,
               NEW j, j = CHOOSE i \in {1, 2} \ names : TRUE, p[j].digits < 3, p[j].n \in 1 .. 28
        PROVE  parseSheetDate(t) # Null
    <3>1. k \in {1, 2} /\ {1, 2} \ names # {}
      BY <2>3, <2>6
    <3>2. j \in {1, 2} /\ j # k
      BY <2>3, <2>6, <3>1
    <3>3. IsNum(p[j]) /\ IsNum(p[3])
      BY <1>3, <2>1, <2>4, <2>6, <3>1, <3>2
    <3> QED
      BY <1>3, <2>4, <2>6, <3>1, <3>2, <3>3, MonthsAreRead
  <2> QED
    BY <1>3, <2>3, <2>5, <2>6, Zenon
<1>4. SpelledMonthIsUnderstood
  BY <1>1, <1>3, Zenon DEF SpelledMonthIsUnderstood
<1> QED
  BY <1>2, <1>4

-----------------------------------------------------------------------------
(* A workbook.                                                             *)
TabReads(up, out, tab, map, h, n) ==
  up[h] = out /\ \A i \in h+1 .. n : up[i] = ReadTabLine(up[i-1], tab, map, i)

LEMMA TabIsRead ==
  ASSUME NEW tab, NEW out, NEW h \in Nat, h = findHeader(tab.grid), NEW n \in Nat, n = Len(tab.grid), h <= n
  PROVE  \E up, map : TabLines(out, tab) = up[n] /\ TabReads(up, out, tab, map, h, n)
<1> DEFINE header  == findHeader(tab.grid)
           mapping == Mapping(tab.grid[header])
           upTo[i \in header .. Len(tab.grid)] ==
             IF i = header THEN out ELSE ReadTabLine(upTo[i-1], tab, mapping, i)
<1>1. TabLines(out, tab) = upTo[Len(tab.grid)]
  BY Zenon DEF TabLines
<1>2. PICK map : map = Mapping(tab.grid[h])
  OBVIOUS
<1> DEFINE Reads(f, m) == f = [i \in h .. m |-> IF i = h THEN out ELSE ReadTabLine(f[i-1], tab, map, i)]
<1>3. upTo = CHOOSE f : Reads(f, n)
  BY <1>2, Zenon
<1> HIDE DEF Reads
<1>4. \E f : Reads(f, n)
  <2> DEFINE S == {m \in h .. n : \E f : Reads(f, m)}
  <2>1. h \in S
    <3> DEFINE f == [i \in h .. h |-> out]
    <3>1. Reads(f, h)
      BY DEF Reads
    <3> HIDE DEF f
    <3> QED
      BY <3>1
  <2>2. ASSUME NEW m \in h+1 .. n, m - 1 \in S PROVE m \in S
    <3>1. PICK f : Reads(f, m - 1)
      BY <2>2
    <3> DEFINE g == [i \in h .. m |-> IF i = m THEN ReadTabLine(f[m-1], tab, map, m) ELSE f[i]]
    <3>2. ASSUME NEW i \in h .. m PROVE g[i] = IF i = h THEN out ELSE ReadTabLine(g[i-1], tab, map, i)
      <4>1. CASE i = m
        BY <2>2, <4>1
      <4>2. CASE i # m
        BY <2>2, <3>1, <4>2, SMTT(60) DEF Reads
      <4> QED
        BY <4>1, <4>2
    <3>3. Reads(g, m)
      BY <3>2, Zenon DEF Reads
    <3> HIDE DEF g
    <3> QED
      BY <2>2, <3>3
  <2> HIDE DEF S
  <2>3. \A m \in h+1 .. n : m - 1 \in S => m \in S
    BY <2>2
  <2>4. \A m \in h .. n : m \in S
    BY <2>1, <2>3, Upward, Zenon
  <2>5. n \in h .. n
    OBVIOUS
  <2> QED
    BY <2>4, <2>5 DEF S
<1> HIDE DEF upTo
<1>5. Reads(upTo, n)
  BY <1>3, <1>4
<1>6. upTo[h] = out /\ \A i \in h+1 .. n : upTo[i] = ReadTabLine(upTo[i-1], tab, map, i)
  <2>1. \A i \in h .. n : upTo[i] = IF i = h THEN out ELSE ReadTabLine(upTo[i-1], tab, map, i)
    BY <1>5 DEF Reads
  <2> QED
    BY <2>1
<1>7. TabReads(upTo, out, tab, map, h, n)
  BY <1>6 DEF TabReads
<1> QED
  BY <1>1, <1>7

LEMMA TabsAreRead ==
  ASSUME NEW book, NEW n \in Nat, n = Len(book.tabs)
  PROVE  \E up : /\ up[0] = rowsFromGrid(book.master) /\ parseSheet(book) = up[n]
                 /\ \A k \in 1 .. n : up[k] = ReadTab(up[k-1], book.tabs[k])
<1> DEFINE upTo[k \in 0 .. Len(book.tabs)] ==
             IF k = 0 THEN rowsFromGrid(book.master) ELSE ReadTab(upTo[k-1], book.tabs[k])
<1>1. parseSheet(book) = upTo[Len(book.tabs)]
  BY Zenon DEF parseSheet
<1>2. PICK out : out = rowsFromGrid(book.master)
  OBVIOUS
<1>3. PICK tabs : tabs = book.tabs
  OBVIOUS
<1> DEFINE Reads(f, m) == f = [k \in 0 .. m |-> IF k = 0 THEN out ELSE ReadTab(f[k-1], tabs[k])]
<1>4. upTo = CHOOSE f : Reads(f, n)
  BY <1>2, <1>3, Zenon
<1> HIDE DEF Reads
<1>5. \E f : Reads(f, n)
  <2> DEFINE S == {m \in 0 .. n : \E f : Reads(f, m)}
  <2>1. 0 \in S
    <3> DEFINE f == [k \in 0 .. 0 |-> out]
    <3>1. Reads(f, 0)
      BY DEF Reads
    <3> HIDE DEF f
    <3> QED
      BY <3>1
  <2>2. ASSUME NEW m \in 0+1 .. n, m - 1 \in S PROVE m \in S
    <3>1. PICK f : Reads(f, m - 1)
      BY <2>2
    <3> DEFINE g == [k \in 0 .. m |-> IF k = m THEN ReadTab(f[m-1], tabs[m]) ELSE f[k]]
    <3>2. ASSUME NEW k \in 0 .. m PROVE g[k] = IF k = 0 THEN out ELSE ReadTab(g[k-1], tabs[k])
      <4>1. CASE k = m
        BY <2>2, <4>1
      <4>2. CASE k # m
        BY <2>2, <3>1, <4>2 DEF Reads
      <4> QED
        BY <4>1, <4>2
    <3>3. Reads(g, m)
      BY <3>2, Zenon DEF Reads
    <3> HIDE DEF g
    <3> QED
      BY <2>2, <3>3
  <2> HIDE DEF S
  <2>3. \A m \in 0+1 .. n : m - 1 \in S => m \in S
    BY <2>2
  <2>4. 0 \in Nat
    OBVIOUS
  <2>5. \A m \in 0 .. n : m \in S
    BY <2>1, <2>3, <2>4, Upward, Zenon
  <2>6. n \in 0 .. n
    OBVIOUS
  <2> QED
    BY <2>5, <2>6 DEF S
<1> HIDE DEF upTo
<1>6. Reads(upTo, n)
  BY <1>4, <1>5
<1>7. upTo[0] = out /\ \A k \in 1 .. n : upTo[k] = ReadTab(upTo[k-1], tabs[k])
  <2>1. \A k \in 0 .. n : upTo[k] = IF k = 0 THEN out ELSE ReadTab(upTo[k-1], tabs[k])
    BY <1>6 DEF Reads
  <2> QED
    BY <2>1
<1> QED
  BY <1>1, <1>2, <1>3, <1>7

(* What is read after a sheet of which the rows were main: they stay, and  *)
(* no client of them gets another row.                                     *)
Added(seen, main, out) ==
  /\ out.rows \in Seq(RowRead) /\ Len(main) <= Len(out.rows)
  /\ \A k \in DOMAIN main : out.rows[k] = main[k]
  /\ \A k \in DOMAIN out.rows : k > Len(main) => ~ isClientAlreadySeen(seen, out.rows[k].values.client)

LEMMA TabLineAdds ==
  ASSUME NEW main \in Seq(RowRead), NEW seen, NEW out, Added(seen, main, out),
         NEW tab, tab.name \in STRING, ~ isClientAlreadySeen(seen, tab.name),
         NEW i \in Nat, tab.grid[i] \in Line, NEW map, NEW out2, out2 = ReadTabLine(out, tab, map, i)
  PROVE  Added(seen, main, out2)
<1>1. PICK in : in = rowFromCells(tab.grid[i], map)
  OBVIOUS
<1>2. PICK v : v = in.values /\ v \in [client : TextCell, title : TextCell, place : TextCell, count : Nat \cup {Null}]
  <2>1. in.values = Values(tab.grid[i], map)
    BY <1>1 DEF rowFromCells
  <2> QED
    BY <2>1, ValuesAre
<1>3. PICK w : w = [v EXCEPT !.client = tab.name, !.place = IF @ = "tbd" THEN Null ELSE @]
  OBVIOUS
<1>4. w \in [client : TextCell, title : TextCell, place : TextCell, count : Nat \cup {Null}] /\ w.client = tab.name
  BY <1>2, <1>3 DEF TextCell
<1>5. PICK r : r = [at |-> i, values |-> w] /\ r \in RowRead /\ r.values.client = tab.name
  <2>1. [at |-> i, values |-> w] \in RowRead
    BY <1>4 DEF RowRead
  <2> QED
    BY <1>4, <2>1
<1>6. out2.rows = out.rows \/ out2.rows = Append(out.rows, r)
  BY <1>1, <1>2, <1>3, <1>5 DEF ReadTabLine
<1>7. CASE out2.rows = out.rows
  BY <1>7 DEF Added
<1>8. CASE out2.rows = Append(out.rows, r)
  <2>1. PICK s, n : s = out.rows /\ s \in Seq(RowRead) /\ n = Len(s) /\ n \in Nat
    BY DEF Added
  <2>2. PICK s2 : s2 = out2.rows /\ s2 = Append(s, r)
    BY <1>8, <2>1
  <2>3. /\ s2 \in Seq(RowRead) /\ Len(s2) = n + 1
        /\ DOMAIN s = 1 .. n /\ DOMAIN s2 = 1 .. n + 1
        /\ \A k \in DOMAIN s : s2[k] = s[k]
        /\ s2[n + 1] = r
    BY <1>5, <2>1, <2>2, RowsAppended
  <2>4. PICK m \in Nat : m = Len(main) /\ m <= n /\ DOMAIN main = 1 .. m
    BY <2>1 DEF Added
  <2>5. \A k \in DOMAIN main : s2[k] = main[k]
    BY <2>1, <2>3, <2>4 DEF Added
  <2>6. ASSUME NEW k \in DOMAIN s2, k > Len(main) PROVE ~ isClientAlreadySeen(seen, s2[k].values.client)
    <3>1. CASE k = n + 1
      BY <1>5, <2>3, <3>1
    <3>2. CASE k # n + 1
      <4>1. k \in DOMAIN s
        BY <2>1, <2>3, <3>2
      <4>2. ~ isClientAlreadySeen(seen, s[k].values.client)
        BY <2>1, <2>6, <4>1 DEF Added
      <4> QED
        BY <2>3, <4>1, <4>2
    <3> QED
      BY <3>1, <3>2
  <2>7. Len(main) <= Len(s2)
    BY <2>1, <2>3, <2>4
  <2> QED
    BY <2>2, <2>3, <2>4, <2>5, <2>6, <2>7 DEF Added
<1> QED
  BY <1>6, <1>7, <1>8

(* A tab adds rows of its own client only, and not of one that was seen.   *)
LEMMA TabAdds ==
  ASSUME NEW main \in Seq(RowRead), NEW seen, seen = {main[k].values.client : k \in DOMAIN main},
         NEW out, Added(seen, main, out),
         NEW tab, tab.name \in STRING, tab.grid \in Grid, NEW out2, out2 = ReadTab(out, tab)
  PROVE  Added(seen, main, out2)
<1>1. CASE \/ findHeader(tab.grid) = 0 \/ Len(tab.grid) < 5
           \/ isClientAlreadySeen(ClientsOf(out), tab.name)
  BY <1>1 DEF ReadTab
<1>2. CASE /\ findHeader(tab.grid) # 0 /\ ~ (Len(tab.grid) < 5)
           /\ ~ isClientAlreadySeen(ClientsOf(out), tab.name)
  <2>1. out2 = TabLines(out, tab)
    BY <1>2 DEF ReadTab
  <2>2. seen \subseteq ClientsOf(out)
    <3>1. ASSUME NEW k \in DOMAIN main PROVE k \in DOMAIN out.rows /\ out.rows[k] = main[k]
      <4>1. PICK m \in Nat : m = Len(main) /\ DOMAIN main = 1 .. m
        OBVIOUS
      <4>2. PICK s : s = out.rows /\ s \in Seq(RowRead) /\ m <= Len(s)
        BY <4>1 DEF Added
      <4>3. DOMAIN s = 1 .. Len(s) /\ Len(s) \in Nat
        BY <4>2
      <4> QED
        BY <4>1, <4>2, <4>3 DEF Added
    <3> QED
      BY <3>1 DEF ClientsOf
  <2>3. ~ isClientAlreadySeen(seen, tab.name)
    BY <1>2, <2>2 DEF isClientAlreadySeen
  <2>4. PICK n \in Nat : n = Len(tab.grid) /\ DOMAIN tab.grid = 1 .. n
    <3>1. PICK g \in Grid : g = tab.grid
      OBVIOUS
    <3>2. Len(g) \in Nat /\ DOMAIN g = 1 .. Len(g)
      BY DEF Grid
    <3> QED
      BY <3>1, <3>2
  <2>5. PICK h \in Nat : h = findHeader(tab.grid) /\ h <= n
    <3>1. PICK g \in Grid : g = tab.grid
      OBVIOUS
    <3>2. findHeader(g) \in 0 .. Len(g)
      BY HeadingFound
    <3> QED
      BY <2>4, <3>1, <3>2
  <2>6. PICK up, map : TabLines(out, tab) = up[n] /\ TabReads(up, out, tab, map, h, n)
    BY <2>4, <2>5, TabIsRead
  <2> DEFINE S == {i \in h .. n : Added(seen, main, up[i])}
  <2>7. h \in S
    BY <2>5, <2>6 DEF TabReads
  <2>8. ASSUME NEW i \in h+1 .. n, i - 1 \in S PROVE i \in S
    <3>1. i \in DOMAIN tab.grid /\ i \in Nat /\ i \in h .. n
      BY <2>4, <2>5
    <3>2. tab.grid[i] \in Line
      BY <3>1 DEF Grid
    <3>3. PICK a : a = up[i-1] /\ Added(seen, main, a)
      BY <2>8
    <3>4. PICK b : b = up[i] /\ b = ReadTabLine(a, tab, map, i)
      BY <2>6, <3>3 DEF TabReads
    <3>5. Added(seen, main, b)
      BY <2>3, <3>1, <3>2, <3>3, <3>4, TabLineAdds
    <3> QED
      BY <3>1, <3>4, <3>5
  <2> HIDE DEF S
  <2>9. n \in S
    <3>1. \A i \in h .. n : i \in S
      BY <2>7, <2>8, Upward
    <3>2. n \in h .. n
      BY <2>4, <2>5
    <3> QED
      BY <3>1, <3>2
  <2> QED
    BY <2>1, <2>6, <2>9 DEF S
<1> QED
  BY <1>1, <1>2

LEMMA BookAdds ==
  ASSUME NEW book, book.tabs \in Seq([name : STRING, grid : Grid]),
         NEW main \in Seq(RowRead), main = rowsFromGrid(book.master).rows,
         NEW seen, seen = {main[k].values.client : k \in DOMAIN main}
  PROVE  Added(seen, main, parseSheet(book))
<1>1. PICK n \in Nat : n = Len(book.tabs) /\ DOMAIN book.tabs = 1 .. n
  <2>1. PICK s \in Seq([name : STRING, grid : Grid]) : s = book.tabs
    OBVIOUS
  <2>2. Len(s) \in Nat /\ DOMAIN s = 1 .. Len(s)
    OBVIOUS
  <2> QED
    BY <2>1, <2>2
<1>2. PICK up : /\ up[0] = rowsFromGrid(book.master) /\ parseSheet(book) = up[n]
                /\ \A k \in 1 .. n : up[k] = ReadTab(up[k-1], book.tabs[k])
  BY <1>1, TabsAreRead
<1> DEFINE S == {k \in 0 .. n : Added(seen, main, up[k])}
<1>3. 0 \in S
  <2>1. PICK m \in Nat : m = Len(main) /\ DOMAIN main = 1 .. m
    OBVIOUS
  <2>2. \A k \in DOMAIN main : ~ (k > m)
    BY <2>1
  <2>3. PICK a : a = up[0] /\ a.rows = main
    BY <1>2
  <2>4. Added(seen, main, a)
    BY <2>1, <2>2, <2>3 DEF Added
  <2> QED
    BY <2>3, <2>4
<1>4. ASSUME NEW k \in 0+1 .. n, k - 1 \in S PROVE k \in S
  <2>1. k \in 1 .. n /\ k \in 0 .. n
    BY <1>1
  <2>2. PICK tab \in [name : STRING, grid : Grid] : tab = book.tabs[k]
    <3>1. PICK T : T = [name : STRING, grid : Grid] /\ book.tabs \in Seq(T)
      OBVIOUS
    <3>2. book.tabs \in Seq(T) /\ k \in DOMAIN book.tabs
      BY <1>1, <2>1, <3>1
    <3>3. book.tabs[k] \in T
      BY <3>2
    <3> QED
      BY <3>1, <3>3
  <2>3. tab.name \in STRING /\ tab.grid \in Grid
    BY <2>2
  <2>4. PICK a : a = up[k-1] /\ Added(seen, main, a)
    BY <1>4
  <2>5. PICK b : b = up[k] /\ b = ReadTab(a, tab)
    BY <1>2, <2>1, <2>2, <2>4
  <2>6. Added(seen, main, b)
    BY <2>3, <2>4, <2>5, TabAdds
  <2> QED
    BY <2>1, <2>5, <2>6
<1> HIDE DEF S
<1>5. n \in S
  <2>1. 0 \in Nat /\ n \in 0 .. n
    BY <1>1
  <2>2. \A k \in 0 .. n : k \in S
    BY <1>1, <1>3, <1>4, <2>1, Upward
  <2> QED
    BY <2>1, <2>2
<1> QED
  BY <1>2, <1>5 DEF S

LEMMA LongerLists == ASSUME NEW A, NEW B, A \subseteq B PROVE Seq(A) \subseteq Seq(B)
OBVIOUS

LEMMA BooksAreBooks == Books \subseteq [master : Grid, tabs : Seq([name : STRING, grid : Grid])]
<1>1. Cells \subseteq AnyCell
  BY DEF AnyCell
<1>2. Seq(Cells) \subseteq Line
  BY <1>1 DEF Line
<1>3. PICK A, B : A = Seq(Cells) /\ B = Line /\ A \subseteq B
  BY <1>2
<1>4. PICK C, D : C = Seq(A) /\ D = Grid /\ C \subseteq D
  BY <1>3 DEF Grid
<1>5. PICK E : E = [name : STRING, grid : C]
  OBVIOUS
<1>f. PICK F : F = [name : STRING, grid : D]
  OBVIOUS
<1>6. Seq(E) \subseteq Seq(F)
  <2>1. E \subseteq F
    BY <1>4, <1>5, <1>f
  <2> QED
    BY <2>1, LongerLists
<1>7. [master : C, tabs : Seq(E)] \subseteq [master : D, tabs : Seq(F)]
  BY <1>4, <1>6
<1> QED
  BY <1>3, <1>4, <1>5, <1>f, <1>7, ReaderAssumption

(* parseXLSX: a client of the master sheet gets no row from a tab.         *)
THEOREM ClientsComeFromOnePlace ==
  ASSUME ReaderInv
  PROVE  ClientComesFromOnePlace
<1>1. SUFFICES
        ASSUME NEW b \in Books, HasClients(b.master), NEW j \in DOMAIN b.tabs,
               NEW main, main = rowsFromGrid(b.master), NEW rows, rows = parseSheet(b).rows,
               NEW name, name = b.tabs[j].name
        PROVE  LET said == {k \in DOMAIN rows : rows[k].values.client = name} IN
               \/ \A k \in said : k <= Len(main.rows)
               \/ /\ \A k \in said : ~ (k <= Len(main.rows))
                  /\ ~ \E c \in ClientsOf(main) : c = name \/ <<c, name>> \in Extends \/ <<name, c>> \in Extends
  <2>1. Uploaded("book") \subseteq Books
    BY DEF Uploaded, ReaderInv
  <2> QED
    BY <1>1, <2>1, Zenon DEF ClientComesFromOnePlace
<1>2. b.master \in Grid /\ b.tabs \in Seq([name : STRING, grid : Grid])
  <2>1. b \in [master : Grid, tabs : Seq([name : STRING, grid : Grid])]
    BY BooksAreBooks
  <2>2. PICK T : T = Seq([name : STRING, grid : Grid])
    OBVIOUS
  <2>3. PICK G : G = Grid
    OBVIOUS
  <2>4. b.master \in G /\ b.tabs \in T
    BY <2>1, <2>2, <2>3
  <2> QED
    BY <2>2, <2>3, <2>4
<1>3. main.rows \in Seq(RowRead)
  <2>1. PICK g \in Grid : g = b.master
    BY <1>2
  <2>2. PICK h, map :
           /\ h = findHeader(g) /\ h \in 1 .. Len(g) /\ h \in Nat /\ map = Mapping(g[h])
    BY <1>1, <2>1, HeadingAndClients
  <2>3. ReadSo(g, h, map, main, Len(g))
    BY <1>1, <2>1, <2>2, GridIsRead
  <2> QED
    BY <2>3 DEF ReadSo, Outs
<1>4. PICK m : m = main.rows /\ m \in Seq(RowRead) /\ m = rowsFromGrid(b.master).rows
  BY <1>1, <1>3
<1>5. PICK seen : seen = {m[k].values.client : k \in DOMAIN m} /\ seen = ClientsOf(main)
  BY <1>4 DEF ClientsOf
<1>6. Added(seen, m, parseSheet(b))
  BY <1>2, <1>4, <1>5, BookAdds
<1>7. /\ Len(m) \in Nat /\ DOMAIN m = 1 .. Len(m)
      /\ rows \in Seq(RowRead)
      /\ \A k \in DOMAIN m : rows[k] = m[k]
      /\ \A k \in DOMAIN rows : k > Len(m) => ~ isClientAlreadySeen(seen, rows[k].values.client)
  BY <1>1, <1>4, <1>6 DEF Added
<1>8. \A k \in DOMAIN rows : k \in Nat /\ k # 0
  BY <1>7
<1>9. CASE isClientAlreadySeen(seen, name)
  <2>1. \A k \in DOMAIN rows : rows[k].values.client = name => k <= Len(m)
    BY <1>7, <1>8, <1>9
  <2> QED
    BY <1>4, <2>1
<1>10. CASE ~ isClientAlreadySeen(seen, name)
  <2>1. ASSUME NEW k \in DOMAIN rows, rows[k].values.client = name, k <= Len(m) PROVE FALSE
    <3>1. k \in DOMAIN m
      BY <1>7, <1>8, <2>1
    <3>2. name \in seen
      BY <1>5, <1>7, <2>1, <3>1
    <3> QED
      BY <1>10, <3>2 DEF isClientAlreadySeen
  <2>2. ~ \E c \in ClientsOf(main) : c = name \/ <<c, name>> \in Extends \/ <<name, c>> \in Extends
    BY <1>5, <1>10 DEF isClientAlreadySeen
  <2> QED
    BY <1>4, <2>1, <2>2
<1> QED
  BY <1>9, <1>10

(* Any upload is read as it is meant, whatever is uploaded: rowsFromGrid   *)
(* answers every line, no cell costs its line, no heading or tab hides     *)
(* another, and parseSheetDate turns no date around.                       *)
THEOREM SheetsAreReadAsMeant == ReaderSpec => [](ReaderTypeOK /\ ReadAsMeant)
<1>1. ReaderInit => ReaderInv
  BY DEF ReaderInit, ReaderInv
<1>2. ReaderInv /\ [Upload]_readerVars => ReaderInv'
  <2>1. ASSUME ReaderInv, Upload PROVE ReaderInv'
    <3>1. CASE \E g \in Grids : upload' = [kind |-> "grid", body |-> g]
      BY <3>1 DEF ReaderInv
    <3>2. CASE \E b \in Books : upload' = [kind |-> "book", body |-> b]
      BY <3>2 DEF ReaderInv
    <3>3. CASE \E t \in Texts : upload' = [kind |-> "date", body |-> t]
      BY <3>3 DEF ReaderInv
    <3> QED
      BY <2>1, <3>1, <3>2, <3>3 DEF Upload
  <2>2. ASSUME ReaderInv, UNCHANGED readerVars PROVE ReaderInv'
    BY <2>2 DEF ReaderInv, readerVars
  <2> QED
    BY <2>1, <2>2
<1>3. ReaderInv => ReaderTypeOK /\ ReadAsMeant
  BY LinesAnswered, CellsCostThemselves, DatesAreRead, ClientsComeFromOnePlace DEF ReadAsMeant
<1> QED
  BY <1>1, <1>2, <1>3, PTL DEF ReaderSpec
=============================================================================
