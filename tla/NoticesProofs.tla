--------------------------- MODULE NoticesProofs ---------------------------
(***************************************************************************)
(* Notices for any number of people, moves and streams.  A colleague whom  *)
(* a move has told is off the list of those it still has to tell; and a    *)
(* notice that an open stream should have got but has not is in the hands  *)
(* of a goroutine that waits for the hub or holds it with that stream      *)
(* among its targets.                                                      *)
(***************************************************************************)
EXTENDS Notices, SequenceTheorems, TLAPS

Points == {"new", "write", "load", "list", "insert", "lock", "show", "over"}

MoveType ==
  [pc : Points, by : People \cup {Nemo}, to : Columns \cup {Nemo}, from : Columns \cup {Nemo},
   now : Columns \cup {Nemo}, left : SUBSET People, at : Nat, targets : SUBSET Streams,
   asked : SUBSET People, cut : BOOLEAN]
BellType   == [to : People, of : Moves, stage : Columns \cup {Nemo}]
StreamType == [up : BOOLEAN, since : Nat, buffer : Seq(Nat), shown : SUBSET Nat, lost : SUBSET Nat]

TypeInv ==
  /\ column \in Columns /\ colleague \subseteq People
  /\ move \in [Moves -> MoveType]
  /\ bell \in Seq(BellType)
  /\ stream \in [Streams -> StreamType]

Told(p, m) == \E k \in DOMAIN bell : bell[k].to = p /\ bell[k].of = m

MoveRight(m) ==
  /\ In(m, "write") => move[m].to \in Columns
  /\ move[m].by \notin move[m].left
  /\ move[m].targets # {} => In(m, "show")
  /\ move[m].pc \in {"lock", "show"} => move[m].at \in DOMAIN bell
  /\ \A s \in move[m].targets : stream[s].up /\ Viewer[s] = bell[move[m].at].to
  /\ move[m].pc \in {"new", "write", "load", "list"} => \A k \in DOMAIN bell : bell[k].of # m
  /\ move[m].pc \in {"insert", "lock", "show"} =>
       \A p \in move[m].asked \ {move[m].by} : p \in move[m].left \/ Told(p, m)
  /\ In(m, "over") /\ ~ move[m].cut /\ move[m].from # move[m].now =>
       \A p \in move[m].asked \ {move[m].by} : Told(p, m)

MoveInv == \A m \in Moves : MoveRight(m)

BellInv ==
  /\ \A k \in DOMAIN bell : /\ bell[k].to # move[bell[k].of].by
                            /\ bell[k].to \notin move[bell[k].of].left
  /\ \A j, k \in DOMAIN bell : bell[j] = bell[k] => j = k

(* What a stream has got, and the notices that are still on their way.     *)
Got(s) == stream[s].shown \cup stream[s].lost \cup {stream[s].buffer[k] : k \in DOMAIN stream[s].buffer}

Underway(s, k) ==
  \E m \in Moves : move[m].at = k /\ (In(m, "lock") \/ (In(m, "show") /\ s \in move[m].targets))

StreamRight(s) ==
  /\ Len(stream[s].buffer) <= Room
  /\ stream[s].up =>
       /\ \A k \in Got(s) : k \in DOMAIN bell /\ bell[k].to = Viewer[s]
       /\ \A k \in DOMAIN bell :
            bell[k].to = Viewer[s] /\ k > stream[s].since => k \in Got(s) \/ Underway(s, k)

StreamInv == \A s \in Streams : StreamRight(s)

IInv == TypeInv /\ MoveInv /\ BellInv /\ StreamInv

(* What is in the bell, place by place.                                    *)
LEMMA BellPlaces ==
  ASSUME TypeInv
  PROVE  /\ Len(bell) \in Nat /\ DOMAIN bell = 1 .. Len(bell)
         /\ \A k \in DOMAIN bell : bell[k] \in BellType
<1>1. bell \in Seq(BellType)
  BY DEF TypeInv
<1> QED
  BY <1>1, LenProperties, ElementOfSeq

LEMMA InitIInv == NoticesInit => IInv
<1> SUFFICES ASSUME NoticesInit PROVE IInv
  OBVIOUS
<1>1. DOMAIN bell = {}
  BY DEF NoticesInit
<1>2. TypeInv
  <2>1. NewMove \in MoveType
    BY DEF NewMove, MoveType, Points
  <2>2. Shut \in StreamType
    BY DEF Shut, StreamType
  <2>3. bell \in Seq(BellType)
    BY DEF NoticesInit
  <2> QED
    BY <2>1, <2>2, <2>3, NoticesAssumption DEF NoticesInit, TypeInv
<1>3. MoveInv
  BY <1>1 DEF NoticesInit, MoveInv, MoveRight, NewMove, In
<1>4. BellInv
  BY <1>1 DEF BellInv
<1>5. StreamInv
  BY <1>1, NoticesAssumption DEF NoticesInit, StreamInv, StreamRight, Shut
<1> QED
  BY <1>2, <1>3, <1>4, <1>5 DEF IInv

-----------------------------------------------------------------------------
(* A step of a move that is not on the hub and does not tell anyone.       *)
LEMMA QuietMove ==
  ASSUME IInv, NEW m \in Moves, NEW x \in MoveType, move' = [move EXCEPT ![m] = x],
         UNCHANGED <<bell, stream>>, column' \in Columns, colleague' \subseteq People,
         ~ In(m, "lock"), In(m, "show") => move[m].targets = {},
         x.pc \notin {"lock", "show"}, x.targets = {}, x.by \notin x.left,
         x.pc = "write" => x.to \in Columns,
         \/ move[m].pc \in {"new", "write", "load", "list"}
         \/ x.by = move[m].by /\ x.left = move[m].left /\ x.pc \in {"insert", "over"},
         x.pc = "insert" => \A p \in x.asked \ {x.by} : p \in x.left \/ Told(p, m),
         x.pc = "over" /\ ~ x.cut /\ x.from # x.now => \A p \in x.asked \ {x.by} : Told(p, m)
  PROVE  IInv'
<1>1. move \in [Moves -> MoveType] /\ bell \in Seq(BellType) /\ stream \in [Streams -> StreamType]
  BY DEF IInv, TypeInv
<1>2. move'[m] = x /\ \A n \in Moves : n # m => move'[n] = move[n]
  BY <1>1
<1>3. TypeInv'
  BY <1>1 DEF IInv, TypeInv
<1>4. \A k \in DOMAIN bell : bell[k] \in BellType /\ bell[k].of \in Moves
  BY BellPlaces DEF BellType, IInv
<1>5. \A k \in DOMAIN bell : bell[k].of = m => ~ move[m].pc \in {"new", "write", "load", "list"}
  BY DEF IInv, MoveInv, MoveRight
<1>6. MoveInv'
  <2>1. MoveRight(m)'
    BY <1>2, <1>5 DEF MoveRight, Told, In
  <2>2. ASSUME NEW n \in Moves, n # m PROVE MoveRight(n)'
    BY <1>2, <2>2 DEF IInv, MoveInv, MoveRight, Told, In
  <2> QED
    BY <2>1, <2>2 DEF MoveInv
<1>7. BellInv'
  <2>1. ASSUME NEW k \in DOMAIN bell
        PROVE  bell[k].to # move'[bell[k].of].by /\ bell[k].to \notin move'[bell[k].of].left
    BY <1>2, <1>4, <1>5 DEF IInv, BellInv
  <2> QED
    BY <2>1 DEF IInv, BellInv
<1>8. \A s, k : Underway(s, k) => Underway(s, k)'
  BY <1>2 DEF Underway, In
<1>9. StreamInv'
  BY <1>8 DEF IInv, StreamInv, StreamRight, Got
<1> QED
  BY <1>3, <1>6, <1>7, <1>9 DEF IInv

LEMMA SnapStep ==
  ASSUME IInv, NEW m \in Moves, NEW by \in People, NEW to \in Columns, SnapMove(m, by, to)
  PROVE  IInv'
<1> DEFINE x == [NewMove EXCEPT !.pc = "write", !.by = by, !.to = to, !.from = column]
<1>1. x \in MoveType /\ x.pc = "write" /\ x.to = to /\ x.left = {} /\ x.targets = {}
  BY DEF NewMove, MoveType, Points, IInv, TypeInv
<1>2. /\ In(m, "new") /\ move' = [move EXCEPT ![m] = x]
      /\ UNCHANGED <<column, colleague, bell, stream>>
  BY DEF SnapMove
<1> HIDE DEF x
<1> QED
  BY <1>1, <1>2, QuietMove DEF IInv, TypeInv, In

LEMMA WriteStep ==
  ASSUME IInv, NEW m \in Moves, WriteMove(m)
  PROVE  IInv'
<1> DEFINE x == [move[m] EXCEPT !.pc = "load"]
<1>1. move \in [Moves -> MoveType] /\ move[m].to \in Columns /\ MoveRight(m)
  BY DEF WriteMove, IInv, TypeInv, MoveInv, MoveRight
<1>2. /\ x \in MoveType /\ x.pc = "load" /\ x.targets = move[m].targets
      /\ x.by = move[m].by /\ x.left = move[m].left
  BY <1>1 DEF MoveType, Points
<1>3. move' = [move EXCEPT ![m] = x] /\ In(m, "write") /\ column' = move[m].to
      /\ UNCHANGED <<colleague, bell, stream>>
  BY <1>1 DEF WriteMove, Moved
<1> HIDE DEF x
<1>4. x.targets = {} /\ x.by \notin x.left
  BY <1>1, <1>2, <1>3 DEF MoveRight, In
<1> QED
  BY <1>1, <1>2, <1>3, <1>4, QuietMove DEF IInv, TypeInv, In

LEMMA LoadStep ==
  ASSUME IInv, NEW m \in Moves, LoadMoved(m) \/ FailMove(m)
  PROVE  IInv'
<1>1. move \in [Moves -> MoveType] /\ MoveRight(m) /\ column \in Columns
  BY DEF IInv, TypeInv, MoveInv
<1>2. In(m, "load") /\ UNCHANGED <<column, colleague, bell, stream>>
  BY DEF LoadMoved, FailMove
<1>3. move[m].targets = {} /\ move[m].by \notin move[m].left
  BY <1>1, <1>2 DEF MoveRight, In
<1>4. CASE LoadMoved(m)
  <2> DEFINE x == [move[m] EXCEPT !.now = column, !.pc = IF move[m].from = column THEN "over" ELSE "list"]
  <2>1. /\ x \in MoveType /\ x.pc \in {"over", "list"} /\ x.targets = move[m].targets
        /\ x.by = move[m].by /\ x.left = move[m].left /\ (x.pc = "over" => x.from = x.now)
    BY <1>1, ZenonT(60) DEF MoveType, Points
  <2>2. move' = [move EXCEPT ![m] = x]
    BY <1>1, <1>4 DEF LoadMoved
  <2> HIDE DEF x
  <2> QED
    BY <1>1, <1>2, <1>3, <2>1, <2>2, QuietMove DEF IInv, TypeInv, In
<1>5. CASE FailMove(m)
  <2> DEFINE x == [move[m] EXCEPT !.pc = "over", !.cut = TRUE]
  <2>1. /\ x \in MoveType /\ x.pc = "over" /\ x.targets = move[m].targets
        /\ x.by = move[m].by /\ x.left = move[m].left /\ x.cut
    BY <1>1, ZenonT(60) DEF MoveType, Points
  <2>2. move' = [move EXCEPT ![m] = x]
    BY <1>1, <1>5 DEF FailMove
  <2> HIDE DEF x
  <2> QED
    BY <1>1, <1>2, <1>3, <2>1, <2>2, QuietMove DEF IInv, TypeInv, In
<1> QED
  BY <1>4, <1>5

LEMMA ListStep ==
  ASSUME IInv, NEW m \in Moves, ListColleagues(m)
  PROVE  IInv'
<1>1. move \in [Moves -> MoveType] /\ MoveRight(m) /\ colleague \subseteq People
  BY DEF IInv, TypeInv, MoveInv
<1> DEFINE x == [move[m] EXCEPT !.left = Audience(m), !.asked = colleague, !.pc = "insert"]
<1>2. In(m, "list") /\ UNCHANGED <<column, colleague, bell, stream>>
  BY DEF ListColleagues
<1>3. Audience(m) \subseteq People
  BY <1>1 DEF Audience
<1>4. /\ x \in MoveType /\ x.pc = "insert" /\ x.targets = move[m].targets
      /\ x.by = move[m].by /\ x.left = Audience(m) /\ x.asked = colleague
  BY <1>1, <1>3, ZenonT(60) DEF MoveType, Points
<1>5. move' = [move EXCEPT ![m] = x]
  BY ONLY ListColleagues(m), <1>1 DEF ListColleagues
<1> HIDE DEF x
<1>6. x.targets = {} /\ x.by \notin x.left /\ \A p \in x.asked \ {x.by} : p \in x.left
  BY <1>1, <1>2, <1>4 DEF MoveRight, In, Audience
<1> QED
  BY <1>2, <1>4, <1>5, <1>6, QuietMove DEF IInv, TypeInv, In

LEMMA EndStep ==
  ASSUME IInv, NEW m \in Moves, AllTold(m) \/ StopTelling(m) \/ UnlockHub(m)
  PROVE  IInv'
<1>1. move \in [Moves -> MoveType] /\ MoveRight(m)
  BY DEF IInv, TypeInv, MoveInv
<1>2. UNCHANGED <<column, colleague, bell, stream>> /\ move[m].pc \in {"list", "insert", "show"}
  BY DEF AllTold, StopTelling, UnlockHub, In
<1>3. move[m].targets = {} /\ move[m].by \notin move[m].left
  BY <1>1 DEF AllTold, StopTelling, UnlockHub, MoveRight, In
<1>4. CASE AllTold(m)
  <2> DEFINE x == [move[m] EXCEPT !.pc = "over"]
  <2>1. /\ x \in MoveType /\ x.pc = "over" /\ x.targets = move[m].targets
        /\ x.by = move[m].by /\ x.left = move[m].left /\ x.asked = move[m].asked
    BY <1>1 DEF MoveType, Points
  <2>2. move' = [move EXCEPT ![m] = x]
    BY <1>1, <1>4 DEF AllTold, Moved
  <2> HIDE DEF x
  <2>3. \A p \in x.asked \ {x.by} : Told(p, m)
    BY <1>1, <1>4, <2>1 DEF AllTold, MoveRight, In
  <2> QED
    BY <1>2, <1>3, <1>4, <2>1, <2>2, <2>3, QuietMove, ZenonT(60) DEF IInv, TypeInv, In, AllTold
<1>5. CASE StopTelling(m)
  <2> DEFINE x == [move[m] EXCEPT !.pc = "over", !.cut = TRUE]
  <2>1. /\ x \in MoveType /\ x.pc = "over" /\ x.targets = move[m].targets
        /\ x.by = move[m].by /\ x.left = move[m].left /\ x.cut
    BY <1>1, ZenonT(60) DEF MoveType, Points
  <2>2. move' = [move EXCEPT ![m] = x]
    BY <1>1, <1>5 DEF StopTelling
  <2> HIDE DEF x
  <2> QED
    BY <1>2, <1>3, <2>1, <2>2, QuietMove DEF IInv, TypeInv, In
<1>6. CASE UnlockHub(m)
  <2> DEFINE x == [move[m] EXCEPT !.pc = "insert"]
  <2>1. /\ x \in MoveType /\ x.pc = "insert" /\ x.targets = move[m].targets
        /\ x.by = move[m].by /\ x.left = move[m].left /\ x.asked = move[m].asked
    BY <1>1 DEF MoveType, Points
  <2>2. move' = [move EXCEPT ![m] = x]
    BY <1>1, <1>6 DEF UnlockHub, Moved
  <2> HIDE DEF x
  <2>3. \A p \in x.asked \ {x.by} : p \in x.left \/ Told(p, m)
    BY <1>1, <1>6, <2>1 DEF UnlockHub, MoveRight, In
  <2> QED
    BY <1>2, <1>3, <2>1, <2>2, <2>3, QuietMove DEF IInv, TypeInv, In
<1> QED
  BY <1>4, <1>5, <1>6

-----------------------------------------------------------------------------
LEMMA InsertStep ==
  ASSUME IInv, NEW m \in Moves, InsertNotice(m)
  PROVE  IInv'
<1>1. /\ move \in [Moves -> MoveType] /\ bell \in Seq(BellType)
      /\ stream \in [Streams -> StreamType] /\ MoveRight(m)
  BY DEF IInv, TypeInv, MoveInv
<1>2. PICK n \in Nat : n = Len(bell) + 1
  BY <1>1, LenProperties
<1>3. PICK p \in move[m].left :
        /\ bell' = Append(bell, [to |-> p, of |-> m, stage |-> News(m)])
        /\ move' = [move EXCEPT ![m] = [move[m] EXCEPT !.left = @ \ {p}, !.at = n, !.pc = "lock"]]
  BY <1>2, <1>1, ZenonT(60) DEF InsertNotice
<1>4. In(m, "insert") /\ UNCHANGED <<column, colleague, stream>>
  BY DEF InsertNotice
<1> DEFINE notice == [to |-> p, of |-> m, stage |-> News(m)]
<1>5. notice \in BellType /\ notice.to = p /\ notice.of = m
  BY <1>1 DEF MoveType, BellType, News
<1> HIDE DEF notice
<1>6. /\ Len(bell) \in Nat /\ DOMAIN bell = 1 .. Len(bell)
      /\ \A k \in DOMAIN bell : bell[k] \in BellType
  BY BellPlaces DEF IInv
<1>7. /\ bell' \in Seq(BellType) /\ DOMAIN bell' = DOMAIN bell \cup {n} /\ n \notin DOMAIN bell
      /\ bell'[n] = notice /\ \A k \in DOMAIN bell : bell'[k] = bell[k]
  <2>1. bell' = Append(bell, notice)
    BY <1>3 DEF notice
  <2>2. /\ bell' \in Seq(BellType) /\ Len(bell') = n /\ bell'[n] = notice
        /\ \A k \in 1 .. Len(bell) : bell'[k] = bell[k]
    BY <1>2, <1>1, <1>5, <2>1, AppendProperties
  <2>3. DOMAIN bell' = 1 .. n
    BY <2>2, LenProperties
  <2> QED
    BY <1>2, <1>6, <2>2, <2>3
<1>8. /\ move'[m].left = move[m].left \ {p} /\ move'[m].at = n /\ move'[m].pc = "lock"
      /\ move'[m].by = move[m].by /\ move'[m].asked = move[m].asked
      /\ move'[m].targets = move[m].targets /\ move'[m] \in MoveType
  <2> DEFINE x == [move[m] EXCEPT !.left = @ \ {p}, !.at = n, !.pc = "lock"]
  <2>0. PICK r \in MoveType : r = move[m]
    BY <1>1
  <2>1. /\ x.left = move[m].left \ {p} /\ x.at = n /\ x.pc = "lock"
        /\ x.by = move[m].by /\ x.asked = move[m].asked
        /\ x.targets = move[m].targets /\ x \in MoveType
    <3>1. x = [r EXCEPT !.left = @ \ {p}, !.at = n, !.pc = "lock"]
      BY <2>0
    <3> QED
      BY ONLY <2>0, <3>1, n \in Nat DEF MoveType, Points
  <2>2. move'[m] = x
    BY <1>1, <1>3
  <2> QED
    BY <2>1, <2>2
<1>9. \A l \in Moves : l # m => move'[l] = move[l]
  BY <1>1, <1>3
<1>10. TypeInv'
  <2>1. move' \in [Moves -> MoveType]
    BY <1>1, <1>3, <1>8
  <2> QED
    BY <1>1, <1>4, <1>7, <2>1 DEF IInv, TypeInv
<1>11. MoveInv'
  <2>1. \A q, l : Told(q, l) => Told(q, l)'
    BY <1>7 DEF Told
  <2>2. Told(p, m)'
    BY <1>5, <1>7 DEF Told
  <2>3. MoveRight(m)'
    <3>1. move[m].targets = {} /\ move[m].by \notin move[m].left
      BY <1>1, <1>4 DEF MoveRight, In
    <3>2. \A q \in move[m].asked \ {move[m].by} : q \in move[m].left \/ Told(q, m)
      BY <1>1, <1>4 DEF MoveRight, In
    <3> QED
      BY <1>7, <1>8, <2>1, <2>2, <3>1, <3>2 DEF MoveRight, In
  <2>4. ASSUME NEW l \in Moves, l # m PROVE MoveRight(l)'
    <3>1. MoveRight(l) /\ move'[l] = move[l]
      BY <1>9, <2>4 DEF IInv, MoveInv
    <3>2. \A k \in DOMAIN bell' : bell'[k].of = l => k \in DOMAIN bell /\ bell[k].of = l
      BY <1>5, <1>7, <2>4
    <3>3. move[l].targets # {} => move[l].at \in DOMAIN bell
      BY <3>1 DEF MoveRight, In
    <3> QED
      BY <1>4, <1>7, <2>1, <3>1, <3>2, <3>3 DEF MoveRight, In
  <2> QED
    BY <2>3, <2>4 DEF MoveInv
<1>12. BellInv'
  <2>1. p # move[m].by
    BY <1>1, <1>3 DEF MoveRight
  <2>2. \A k \in DOMAIN bell : /\ bell[k].of \in Moves /\ bell[k].to # move[bell[k].of].by
                               /\ bell[k].to \notin move[bell[k].of].left
    BY <1>6 DEF IInv, BellInv, BellType
  <2>3. ASSUME NEW k \in DOMAIN bell'
        PROVE  bell'[k].to # move'[bell'[k].of].by /\ bell'[k].to \notin move'[bell'[k].of].left
    BY <1>5, <1>7, <1>8, <1>9, <2>1, <2>2
  <2>4. \A k \in DOMAIN bell : bell[k] # notice
    BY <1>3, <1>5, <2>2
  <2>5. \A j, k \in DOMAIN bell' : bell'[j] = bell'[k] => j = k
    BY <1>7, <2>4 DEF IInv, BellInv
  <2> QED
    BY <2>3, <2>5 DEF BellInv
<1>13. StreamInv'
  <2>1. ASSUME NEW s, NEW k, Underway(s, k) PROVE Underway(s, k)'
    <3>1. PICK l \in Moves : move[l].at = k /\ (In(l, "lock") \/ (In(l, "show") /\ s \in move[l].targets))
      BY <2>1 DEF Underway
    <3>2. l # m
      BY <1>4, <3>1 DEF In
    <3> QED
      BY <1>9, <3>1, <3>2 DEF Underway, In
  <2>2. \A s : Underway(s, n)'
    BY <1>8 DEF Underway, In
  <2>3. ASSUME NEW s \in Streams PROVE StreamRight(s)'
    <3>1. StreamRight(s) /\ Got(s)' = Got(s) /\ stream' = stream
      BY <1>4 DEF IInv, StreamInv, Got
    <3>2. \A k \in Got(s) : stream[s].up => k \in DOMAIN bell' /\ bell'[k].to = Viewer[s]
      BY <1>7, <3>1 DEF StreamRight
    <3>3. \A k \in DOMAIN bell' : stream[s].up /\ bell'[k].to = Viewer[s] /\ k > stream[s].since =>
            k \in Got(s) \/ Underway(s, k)'
      BY <1>7, <2>1, <2>2, <3>1 DEF StreamRight
    <3> QED
      BY <3>1, <3>2, <3>3 DEF StreamRight
  <2> QED
    BY <2>3 DEF StreamInv
<1> QED
  BY <1>10, <1>11, <1>12, <1>13 DEF IInv

LEMMA LockStep ==
  ASSUME IInv, NEW m \in Moves, LockHub(m)
  PROVE  IInv'
<1>1. /\ move \in [Moves -> MoveType] /\ stream \in [Streams -> StreamType] /\ MoveRight(m)
  BY DEF IInv, TypeInv, MoveInv
<1>2. PICK tabs \in SUBSET Streams : tabs = TabsOf(bell[move[m].at].to)
  BY DEF TabsOf
<1>3. /\ In(m, "lock")
      /\ column' = column /\ colleague' = colleague /\ bell' = bell /\ stream' = stream
  BY DEF LockHub
<1>4. move' = [move EXCEPT ![m] = [move[m] EXCEPT !.targets = tabs, !.pc = "show"]]
  BY <1>2, <1>1 DEF LockHub
<1>5. tabs \subseteq Streams /\ \A s \in Streams : s \in tabs <=> stream[s].up /\ Viewer[s] = bell[move[m].at].to
  BY <1>2 DEF TabsOf
<1>6. /\ move'[m].targets = tabs /\ move'[m].pc = "show"
      /\ move'[m].by = move[m].by /\ move'[m].asked = move[m].asked /\ move'[m].at = move[m].at
      /\ move'[m].left = move[m].left /\ move'[m] \in MoveType
  <2> DEFINE x == [move[m] EXCEPT !.targets = tabs, !.pc = "show"]
  <2>1. /\ x.targets = tabs /\ x.pc = "show" /\ x.by = move[m].by /\ x.asked = move[m].asked
        /\ x.at = move[m].at /\ x.left = move[m].left /\ x \in MoveType
    <3>1. move[m] \in MoveType /\ tabs \subseteq Streams
      BY <1>1
    <3> QED
      BY <3>1 DEF MoveType, Points
  <2>2. move'[m] = x
    BY <1>1, <1>4
  <2> QED
    BY <2>1, <2>2
<1>7. \A l \in Moves : l # m => move'[l] = move[l]
  BY <1>1, <1>4
<1>8. TypeInv'
  <2>1. move' \in [Moves -> MoveType]
    BY <1>1, <1>6, <1>4
  <2> QED
    BY <1>3, <2>1 DEF IInv, TypeInv
<1>9. MoveInv'
  <2>1. MoveRight(m)'
    BY <1>1, <1>3, <1>6, <1>5 DEF MoveRight, In, Told
  <2>2. ASSUME NEW l \in Moves, l # m PROVE MoveRight(l)'
    <3>1. MoveRight(l) /\ move'[l] = move[l]
      BY <1>7, <2>2 DEF IInv, MoveInv
    <3> QED
      BY <1>3, <3>1 DEF MoveRight, In, Told
  <2> QED
    BY <2>1, <2>2 DEF MoveInv
<1>10. BellInv'
  <2>1. \A k \in DOMAIN bell : bell[k].of \in Moves
    BY BellPlaces DEF IInv, BellType
  <2>2. \A l \in Moves : move'[l].by = move[l].by /\ move'[l].left = move[l].left
    BY <1>6, <1>7
  <2> QED
    BY <1>3, <2>1, <2>2 DEF IInv, BellInv
<1>11. StreamInv'
  <2>1. ASSUME NEW s \in Streams, NEW k \in DOMAIN bell, stream[s].up, bell[k].to = Viewer[s], Underway(s, k)
        PROVE  Underway(s, k)'
    <3>1. PICK l \in Moves : move[l].at = k /\ (In(l, "lock") \/ (In(l, "show") /\ s \in move[l].targets))
      BY <2>1 DEF Underway
    <3>2. CASE l = m
      BY <1>6, <1>5, <2>1, <3>1, <3>2 DEF Underway, In
    <3>3. CASE l # m
      BY <1>7, <3>1, <3>3 DEF Underway, In
    <3> QED
      BY <3>2, <3>3
  <2>2. ASSUME NEW s \in Streams PROVE StreamRight(s)'
    <3>1. StreamRight(s) /\ Got(s)' = Got(s)
      BY <1>3 DEF IInv, StreamInv, Got
    <3> QED
      BY <1>3, <2>1, <3>1 DEF StreamRight
  <2> QED
    BY <2>2 DEF StreamInv
<1> QED
  BY <1>8, <1>9, <1>10, <1>11 DEF IInv

(* What the buffer of a stream holds, when a place is added or taken.      *)
LEMMA Buffered ==
  ASSUME NEW q \in Seq(Nat), NEW k \in Nat
  PROVE  /\ Append(q, k) \in Seq(Nat) /\ Len(Append(q, k)) = Len(q) + 1
         /\ {Append(q, k)[i] : i \in DOMAIN Append(q, k)} = {q[i] : i \in DOMAIN q} \cup {k}
<1>1. Len(q) \in Nat /\ DOMAIN q = 1 .. Len(q)
  BY LenProperties
<1>2. /\ Append(q, k) \in Seq(Nat) /\ Len(Append(q, k)) = Len(q) + 1
      /\ Append(q, k)[Len(q) + 1] = k
      /\ \A i \in 1 .. Len(q) : Append(q, k)[i] = q[i]
  BY AppendProperties
<1>3. DOMAIN Append(q, k) = 1 .. Len(q) \cup {Len(q) + 1}
  BY <1>1, <1>2, LenProperties
<1> QED
  BY <1>1, <1>2, <1>3

LEMMA Unbuffered ==
  ASSUME NEW q \in Seq(Nat), q # <<>>
  PROVE  /\ Tail(q) \in Seq(Nat) /\ Len(Tail(q)) = Len(q) - 1 /\ Head(q) \in Nat /\ Len(q) \in Nat
         /\ {q[i] : i \in DOMAIN q} = {Tail(q)[i] : i \in DOMAIN Tail(q)} \cup {Head(q)}
<1>1. Len(q) \in Nat /\ DOMAIN q = 1 .. Len(q) /\ Len(q) > 0
  BY LenProperties, EmptySeq
<1>2. /\ Tail(q) \in Seq(Nat) /\ Len(Tail(q)) = Len(q) - 1
      /\ \A i \in 1 .. Len(Tail(q)) : Tail(q)[i] = q[i + 1]
  BY HeadTailProperties
<1>3. Head(q) = q[1] /\ Head(q) \in Nat
  BY <1>1, HeadTailProperties, ElementOfSeq
<1>4. DOMAIN Tail(q) = 1 .. Len(q) - 1
  BY <1>1, <1>2, LenProperties
<1>5. ASSUME NEW i \in DOMAIN q PROVE q[i] \in {Tail(q)[j] : j \in DOMAIN Tail(q)} \cup {Head(q)}
  <2>1. CASE i = 1
    BY <1>3, <2>1
  <2>2. CASE i # 1
    <3>1. i - 1 \in DOMAIN Tail(q) /\ Tail(q)[i - 1] = q[i]
      BY <1>1, <1>2, <1>4, <2>2
    <3> QED
      BY <3>1
  <2> QED
    BY <2>1, <2>2
<1>6. ASSUME NEW j \in DOMAIN Tail(q) PROVE Tail(q)[j] \in {q[i] : i \in DOMAIN q}
  BY <1>1, <1>2, <1>4
<1>7. Head(q) \in {q[i] : i \in DOMAIN q}
  BY <1>1, <1>3
<1>8. {q[i] : i \in DOMAIN q} = {Tail(q)[j] : j \in DOMAIN Tail(q)} \cup {Head(q)}
  BY <1>5, <1>6, <1>7
<1> QED
  BY <1>1, <1>2, <1>3, <1>8

LEMMA ShowStep ==
  ASSUME IInv, NEW m \in Moves, ShowNotice(m)
  PROVE  IInv'
<1>1. /\ move \in [Moves -> MoveType] /\ stream \in [Streams -> StreamType] /\ MoveRight(m)
  BY DEF IInv, TypeInv, MoveInv
<1>2. PICK s \in move[m].targets :
        /\ move' = [move EXCEPT ![m].targets = @ \ {s}]
        /\ stream' = IF HasRoom(s) THEN [stream EXCEPT ![s].buffer = Append(@, move[m].at)]
                     ELSE [stream EXCEPT ![s].lost = @ \cup {move[m].at}]
  BY DEF ShowNotice
<1>3. In(m, "show") /\ column' = column /\ colleague' = colleague /\ bell' = bell
  BY DEF ShowNotice
<1>4. s \in Streams /\ move[m].at \in Nat /\ move[m].targets \subseteq Streams
  BY <1>1, <1>2 DEF MoveType
<1>5. /\ move'[m].targets = move[m].targets \ {s} /\ move'[m].pc = move[m].pc
      /\ move'[m].by = move[m].by /\ move'[m].asked = move[m].asked /\ move'[m].at = move[m].at
      /\ move'[m].left = move[m].left /\ move'[m] \in MoveType
  <2> DEFINE x == [move[m] EXCEPT !.targets = @ \ {s}]
  <2>1. /\ x.targets = move[m].targets \ {s} /\ x.pc = move[m].pc /\ x.by = move[m].by
        /\ x.asked = move[m].asked /\ x.at = move[m].at /\ x.left = move[m].left /\ x \in MoveType
    BY <1>1, <1>4 DEF MoveType
  <2>2. move'[m] = x
    BY <1>1, <1>2
  <2> QED
    BY <2>1, <2>2
<1>6. \A l \in Moves : l # m => move'[l] = move[l]
  BY <1>1, <1>2
<1>7. /\ stream[s] \in StreamType /\ stream[s].buffer \in Seq(Nat)
      /\ stream[s].up /\ Viewer[s] = bell[move[m].at].to /\ move[m].at \in DOMAIN bell
  BY <1>1, <1>2, <1>3, <1>4 DEF StreamType, MoveRight, In
<1>8. /\ stream' \in [Streams -> StreamType]
      /\ stream'[s].up = stream[s].up /\ stream'[s].since = stream[s].since
      /\ Len(stream'[s].buffer) <= Room /\ Got(s)' = Got(s) \cup {move[m].at}
      /\ \A r \in Streams : r # s => stream'[r] = stream[r]
  <2>1. Len(stream[s].buffer) <= Room
    BY <1>4 DEF IInv, StreamInv, StreamRight
  <2>2. CASE HasRoom(s)
    <3> DEFINE q == Append(stream[s].buffer, move[m].at)
               y == [stream[s] EXCEPT !.buffer = q]
    <3>1. /\ q \in Seq(Nat) /\ Len(q) = Len(stream[s].buffer) + 1 /\ Len(stream[s].buffer) \in Nat
          /\ {q[i] : i \in DOMAIN q} = {stream[s].buffer[i] : i \in DOMAIN stream[s].buffer} \cup {move[m].at}
      BY <1>4, <1>7, Buffered, LenProperties
    <3>2. stream' = [stream EXCEPT ![s] = y]
      BY <1>1, <1>2, <1>4, <2>2
    <3> HIDE DEF q
    <3>3. /\ y \in StreamType /\ y.up = stream[s].up /\ y.since = stream[s].since
          /\ y.buffer = q /\ y.shown = stream[s].shown /\ y.lost = stream[s].lost
      BY <1>7, <3>1 DEF StreamType
    <3> HIDE DEF y
    <3>4. stream'[s] = y /\ \A r \in Streams : r # s => stream'[r] = stream[r]
      BY <1>1, <1>4, <3>2
    <3>5. Len(q) <= Room
      BY <2>2, <3>1, NoticesAssumption DEF HasRoom
    <3>6. Got(s)' = y.shown \cup y.lost \cup {q[k] : k \in DOMAIN q}
      BY <3>3, <3>4 DEF Got
    <3>7. Got(s)' = Got(s) \cup {move[m].at}
      BY <3>1, <3>3, <3>6 DEF Got
    <3>8. stream' \in [Streams -> StreamType]
      BY <1>1, <3>2, <3>3
    <3> QED
      BY <3>3, <3>4, <3>5, <3>7, <3>8
  <2>3. CASE ~ HasRoom(s)
    <3> DEFINE y == [stream[s] EXCEPT !.lost = @ \cup {move[m].at}]
    <3>1. stream' = [stream EXCEPT ![s] = y]
      BY <1>1, <1>2, <1>4, <2>3
    <3>2. /\ y \in StreamType /\ y.up = stream[s].up /\ y.since = stream[s].since
          /\ y.buffer = stream[s].buffer /\ y.shown = stream[s].shown
          /\ y.lost = stream[s].lost \cup {move[m].at}
      BY <1>4, <1>7 DEF StreamType
    <3> HIDE DEF y
    <3>3. stream'[s] = y /\ \A r \in Streams : r # s => stream'[r] = stream[r]
      BY <1>1, <1>4, <3>1
    <3>4. Got(s)' = y.shown \cup y.lost \cup {y.buffer[k] : k \in DOMAIN y.buffer}
      BY <3>3 DEF Got
    <3>5. Got(s)' = Got(s) \cup {move[m].at}
      BY <3>2, <3>4 DEF Got
    <3>6. stream' \in [Streams -> StreamType]
      BY <1>1, <3>1, <3>2
    <3> QED
      BY <2>1, <3>2, <3>3, <3>5, <3>6
  <2> QED
    BY <2>2, <2>3
<1>9. TypeInv'
  <2>1. move' \in [Moves -> MoveType]
    BY <1>1, <1>2, <1>5
  <2> QED
    BY <1>3, <1>8, <2>1 DEF IInv, TypeInv
<1>10. MoveInv'
  <2>1. \A r \in Streams : stream'[r].up = stream[r].up
    BY <1>8
  <2>2. MoveRight(m)'
    BY <1>1, <1>3, <1>4, <1>5, <2>1 DEF MoveRight, In, Told
  <2>3. ASSUME NEW l \in Moves, l # m PROVE MoveRight(l)'
    <3>1. MoveRight(l) /\ move'[l] = move[l] /\ move[l].targets \subseteq Streams
      BY <1>1, <1>6, <2>3 DEF IInv, MoveInv, MoveType
    <3> QED
      BY <1>3, <2>1, <3>1 DEF MoveRight, In, Told
  <2> QED
    BY <2>2, <2>3 DEF MoveInv
<1>11. BellInv'
  <2>1. \A k \in DOMAIN bell : bell[k].of \in Moves
    BY BellPlaces DEF IInv, BellType
  <2>2. \A l \in Moves : move'[l].by = move[l].by /\ move'[l].left = move[l].left
    BY <1>5, <1>6
  <2> QED
    BY <1>3, <2>1, <2>2 DEF IInv, BellInv
<1>12. StreamInv'
  <2>1. ASSUME NEW r \in Streams, NEW k, Underway(r, k), ~ Underway(r, k)'
        PROVE  r = s /\ k = move[m].at
    <3>1. PICK l \in Moves : move[l].at = k /\ (In(l, "lock") \/ (In(l, "show") /\ r \in move[l].targets))
      BY <2>1 DEF Underway
    <3>2. l = m
      BY <1>6, <2>1, <3>1 DEF Underway, In
    <3>3. r \notin move[m].targets \ {s}
      BY <1>3, <1>5, <2>1, <3>1, <3>2 DEF Underway, In
    <3> QED
      BY <1>3, <3>1, <3>2, <3>3 DEF In
  <2>2. ASSUME NEW r \in Streams, r # s PROVE StreamRight(r)'
    <3>1. StreamRight(r) /\ Got(r)' = Got(r) /\ stream'[r] = stream[r]
      BY <1>8, <2>2 DEF IInv, StreamInv, Got
    <3> QED
      BY <1>3, <2>1, <2>2, <3>1 DEF StreamRight
  <2>3. StreamRight(s)'
    <3>1. StreamRight(s)
      BY <1>4 DEF IInv, StreamInv
    <3>2. \A k \in Got(s)' : k \in DOMAIN bell /\ bell[k].to = Viewer[s]
      BY <1>7, <1>8, <3>1 DEF StreamRight
    <3>3. \A k \in DOMAIN bell : bell[k].to = Viewer[s] /\ k > stream[s].since => k \in Got(s)' \/ Underway(s, k)'
      BY <1>4, <1>7, <1>8, <2>1, <3>1 DEF StreamRight
    <3> QED
      BY <1>3, <1>8, <3>2, <3>3 DEF StreamRight
  <2> QED
    BY <2>2, <2>3 DEF StreamInv
<1> QED
  BY <1>9, <1>10, <1>11, <1>12 DEF IInv

-----------------------------------------------------------------------------
(* A stream that comes up keeps what it holds.                             *)
LEMMA Opened ==
  ASSUME NEW x \in StreamType, NEW n \in Nat
  PROVE  \E y \in StreamType : /\ y = [x EXCEPT !.up = TRUE, !.since = n]
                               /\ y.buffer = x.buffer /\ y.shown = x.shown
                               /\ y.lost = x.lost /\ y.since = n
<1> DEFINE z == [x EXCEPT !.up = TRUE, !.since = n]
<1>1. /\ z \in StreamType /\ z.buffer = x.buffer /\ z.shown = x.shown
      /\ z.lost = x.lost /\ z.since = n
  BY DEF StreamType
<1> QED
  BY <1>1

(* Nobody who tells is on the hub when a stream comes or goes.             *)
LEMMA StreamStep ==
  ASSUME IInv, NEW s \in Streams, OpenStream(s) \/ CloseStream(s)
  PROVE  IInv'
<1>1. /\ move \in [Moves -> MoveType] /\ stream \in [Streams -> StreamType]
      /\ \A k \in DOMAIN bell : k \in Nat /\ k <= Len(bell)
      /\ Len(bell) \in Nat
  BY BellPlaces DEF IInv, TypeInv
<1>2. Showing = {} /\ column' = column /\ colleague' = colleague /\ bell' = bell /\ move' = move
  BY DEF OpenStream, CloseStream
<1>3. PICK y \in StreamType :
        /\ stream' = [stream EXCEPT ![s] = y]
        /\ y.buffer = <<>> /\ y.shown = {} /\ y.lost = {}
        /\ y.up => y.since = Len(bell)
  <2>1. CASE OpenStream(s)
    <3>1. Shut \in StreamType /\ Shut.buffer = <<>> /\ Shut.shown = {} /\ Shut.lost = {}
      BY DEF Shut, StreamType
    <3>2. Len(bell) \in Nat
      BY <1>1
    <3>3. PICK y \in StreamType :
            /\ y = [Shut EXCEPT !.up = TRUE, !.since = Len(bell)]
            /\ y.buffer = Shut.buffer /\ y.shown = Shut.shown /\ y.lost = Shut.lost /\ y.since = Len(bell)
      BY <3>1, <3>2, Opened, ZenonT(60)
    <3>4. stream' = [stream EXCEPT ![s] = y]
      BY <2>1, <3>3 DEF OpenStream
    <3> QED
      BY <3>1, <3>3, <3>4
  <2>2. CASE CloseStream(s)
    <3>1. Shut \in StreamType
      BY DEF Shut, StreamType
    <3> QED
      BY <2>2, <3>1 DEF CloseStream, Shut
  <2> QED
    BY <2>1, <2>2
<1>4. stream'[s] = y /\ \A r \in Streams : r # s => stream'[r] = stream[r]
  BY <1>1, <1>3
<1>5. TypeInv'
  BY <1>1, <1>2, <1>3 DEF IInv, TypeInv
<1>6. MoveInv'
  <2>1. \A m \in Moves : move[m].targets = {}
    BY <1>2 DEF Showing, In, IInv, MoveInv, MoveRight
  <2> QED
    BY <1>2, <2>1 DEF IInv, MoveInv, MoveRight, In, Told
<1>7. BellInv'
  BY <1>2 DEF IInv, BellInv
<1>8. StreamInv'
  <2>1. \A r, k : Underway(r, k)' <=> Underway(r, k)
    BY <1>2 DEF Underway, In
  <2>2. ASSUME NEW r \in Streams, r # s PROVE StreamRight(r)'
    <3>1. StreamRight(r) /\ Got(r)' = Got(r) /\ stream'[r] = stream[r]
      BY <1>4, <2>2 DEF IInv, StreamInv, Got
    <3> QED
      BY <1>2, <2>1, <3>1 DEF StreamRight
  <2>3. Got(s)' = {}
    BY <1>3, <1>4 DEF Got
  <2>4. StreamRight(s)'
    BY <1>1, <1>2, <1>3, <1>4, <2>3, NoticesAssumption DEF StreamRight
  <2> QED
    BY <2>2, <2>4 DEF StreamInv
<1> QED
  BY <1>5, <1>6, <1>7, <1>8 DEF IInv

LEMMA ReadStep ==
  ASSUME IInv, NEW s \in Streams, ReadStream(s)
  PROVE  IInv'
<1>1. move \in [Moves -> MoveType] /\ stream \in [Streams -> StreamType]
  BY DEF IInv, TypeInv
<1>2. /\ stream[s].buffer # <<>>
      /\ column' = column /\ colleague' = colleague /\ bell' = bell /\ move' = move
  BY DEF ReadStream
<1>3. /\ Tail(stream[s].buffer) \in Seq(Nat) /\ Len(Tail(stream[s].buffer)) = Len(stream[s].buffer) - 1
      /\ Head(stream[s].buffer) \in Nat /\ Len(stream[s].buffer) \in Nat
      /\ {stream[s].buffer[i] : i \in DOMAIN stream[s].buffer} =
           {Tail(stream[s].buffer)[i] : i \in DOMAIN Tail(stream[s].buffer)} \cup {Head(stream[s].buffer)}
  BY <1>1, <1>2, Unbuffered DEF StreamType
<1> DEFINE y == [stream[s] EXCEPT !.buffer = Tail(@), !.shown = @ \cup {Head(stream[s].buffer)}]
<1>4. stream' = [stream EXCEPT ![s] = y]
  BY <1>1 DEF ReadStream
<1>5. /\ y \in StreamType /\ y.up = stream[s].up /\ y.since = stream[s].since /\ y.lost = stream[s].lost
      /\ y.buffer = Tail(stream[s].buffer) /\ y.shown = stream[s].shown \cup {Head(stream[s].buffer)}
  BY <1>1, <1>3 DEF StreamType
<1> HIDE DEF y
<1>6. stream'[s] = y /\ \A r \in Streams : r # s => stream'[r] = stream[r]
  BY <1>1, <1>4
<1>7. \A r \in Streams : stream'[r].up = stream[r].up
  BY <1>5, <1>6
<1>8. TypeInv'
  BY <1>1, <1>2, <1>4, <1>5 DEF IInv, TypeInv
<1>9. MoveInv'
  <2>1. ASSUME NEW m \in Moves PROVE MoveRight(m)'
    <3>1. MoveRight(m) /\ move[m].targets \subseteq Streams
      BY <1>1 DEF IInv, MoveInv, MoveType
    <3> QED
      BY <1>2, <1>7, <3>1 DEF MoveRight, In, Told
  <2> QED
    BY <2>1 DEF MoveInv
<1>10. BellInv'
  BY <1>2 DEF IInv, BellInv
<1>11. StreamInv'
  <2>1. \A r, k : Underway(r, k)' <=> Underway(r, k)
    BY <1>2 DEF Underway, In
  <2>2. ASSUME NEW r \in Streams, r # s PROVE StreamRight(r)'
    <3>1. StreamRight(r) /\ Got(r)' = Got(r) /\ stream'[r] = stream[r]
      BY <1>6, <2>2 DEF IInv, StreamInv, Got
    <3> QED
      BY <1>2, <2>1, <3>1 DEF StreamRight
  <2>3. Got(s)' = y.shown \cup y.lost \cup {y.buffer[k] : k \in DOMAIN y.buffer}
    BY <1>6 DEF Got
  <2>4. Got(s)' = Got(s)
    BY <1>3, <1>5, <2>3 DEF Got
  <2>5. Len(y.buffer) <= Room
    BY <1>3, <1>5, NoticesAssumption DEF IInv, StreamInv, StreamRight
  <2>6. StreamRight(s)'
    BY <1>2, <1>5, <1>6, <2>1, <2>4, <2>5, ZenonT(60) DEF IInv, StreamInv, StreamRight
  <2> QED
    BY <2>2, <2>6 DEF StreamInv
<1> QED
  BY <1>8, <1>9, <1>10, <1>11 DEF IInv

LEMMA LoseStep ==
  ASSUME IInv, NEW p \in People, LoseColleague(p)
  PROVE  IInv'
<1>1. /\ column' = column /\ colleague' \subseteq colleague
      /\ bell' = bell /\ move' = move /\ stream' = stream
  BY DEF LoseColleague
<1>2. TypeInv'
  BY <1>1 DEF IInv, TypeInv
<1>3. MoveInv' /\ BellInv'
  BY <1>1 DEF IInv, MoveInv, MoveRight, BellInv, In, Told
<1>4. StreamInv'
  BY <1>1 DEF IInv, StreamInv, StreamRight, Got, Underway, In
<1> QED
  BY <1>2, <1>3, <1>4 DEF IInv

(* A restart ends every goroutine in the middle and shuts every stream.    *)
LEMMA RestartStep ==
  ASSUME IInv, Restart
  PROVE  IInv'
<1>1. move \in [Moves -> MoveType] /\ stream \in [Streams -> StreamType]
  BY DEF IInv, TypeInv
<1>2. column' = column /\ colleague' = colleague /\ bell' = bell /\ stream' = [s \in Streams |-> Shut]
  BY DEF Restart
<1>3. ASSUME NEW m \in Moves
      PROVE  /\ move'[m] \in MoveType /\ move'[m].by = move[m].by /\ move'[m].left = move[m].left
             /\ \/ move'[m] = move[m] /\ move[m].pc \in {"new", "over"}
                \/ move'[m].pc = "over" /\ move'[m].cut /\ move'[m].targets = {} /\ move[m].pc # "new"
  <2>1. CASE m \in Going
    <3> DEFINE x == [move[m] EXCEPT !.pc = "over", !.targets = {}, !.cut = TRUE]
    <3>1. /\ x \in MoveType /\ x.by = move[m].by /\ x.left = move[m].left
          /\ x.pc = "over" /\ x.cut /\ x.targets = {}
      BY <1>1, ZenonT(60) DEF MoveType, Points
    <3>2. move'[m] = x /\ move[m].pc # "new"
      BY <2>1 DEF Restart, Going
    <3> QED
      BY <3>1, <3>2
  <2>2. CASE m \notin Going
    <3>1. move'[m] = move[m] /\ move[m].pc \in {"new", "over"}
      BY <2>2 DEF Restart, Going
    <3> QED
      BY <1>1, <3>1
  <2> QED
    BY <2>1, <2>2
<1>4. TypeInv'
  <2>1. move' \in [Moves -> MoveType]
    <3>1. move' = [m \in Moves |-> move'[m]]
      BY DEF Restart
    <3> QED
      BY <1>3, <3>1
  <2>2. Shut \in StreamType
    BY DEF Shut, StreamType
  <2> QED
    BY <1>2, <2>1, <2>2 DEF IInv, TypeInv
<1>5. MoveInv'
  <2>1. ASSUME NEW m \in Moves PROVE MoveRight(m)'
    <3>1. CASE move'[m] = move[m] /\ move[m].pc \in {"new", "over"}
      <4>1. MoveRight(m) /\ move[m].targets = {}
        BY <3>1 DEF IInv, MoveInv, MoveRight, In
      <4> QED
        BY <1>2, <3>1, <4>1 DEF MoveRight, In, Told
    <3>2. CASE move'[m].pc = "over" /\ move'[m].cut /\ move'[m].targets = {}
      <4>1. move[m].by \notin move[m].left
        BY DEF IInv, MoveInv, MoveRight
      <4> QED
        BY <1>3, <3>2, <4>1 DEF MoveRight, In
    <3> QED
      BY <1>3, <3>1, <3>2
  <2> QED
    BY <2>1 DEF MoveInv
<1>6. BellInv'
  <2>1. \A k \in DOMAIN bell : bell[k].of \in Moves
    BY BellPlaces DEF IInv, BellType
  <2> QED
    BY <1>2, <1>3, <2>1 DEF IInv, BellInv
<1>7. StreamInv'
  BY <1>2, NoticesAssumption DEF StreamInv, StreamRight, Shut
<1> QED
  BY <1>4, <1>5, <1>6, <1>7 DEF IInv

LEMMA NextIInv == IInv /\ [NoticesNext]_noticeVars => IInv'
<1> SUFFICES ASSUME IInv, [NoticesNext]_noticeVars PROVE IInv'
  OBVIOUS
<1>1. ASSUME NEW m \in Moves, \E p \in People, to \in Columns : SnapMove(m, p, to) PROVE IInv'
  BY <1>1, SnapStep
<1>2. ASSUME NEW m \in Moves,
             \/ WriteMove(m) \/ LoadMoved(m) \/ FailMove(m) \/ ListColleagues(m) \/ InsertNotice(m)
             \/ LockHub(m) \/ ShowNotice(m) \/ UnlockHub(m) \/ AllTold(m) \/ StopTelling(m)
      PROVE  IInv'
  BY <1>2, WriteStep, LoadStep, ListStep, InsertStep, LockStep, ShowStep, EndStep
<1>3. ASSUME NEW s \in Streams, OpenStream(s) \/ CloseStream(s) \/ ReadStream(s) PROVE IInv'
  BY <1>3, StreamStep, ReadStep
<1>4. ASSUME NEW p \in People, LoseColleague(p) PROVE IInv'
  BY <1>4, LoseStep
<1>5. CASE UNCHANGED noticeVars
  <2>1. column' = column /\ colleague' = colleague /\ move' = move /\ bell' = bell /\ stream' = stream
    BY <1>5 DEF noticeVars
  <2>2. TypeInv' /\ MoveInv' /\ BellInv'
    BY <2>1 DEF IInv, TypeInv, MoveInv, MoveRight, BellInv, In, Told
  <2>3. StreamInv'
    BY <2>1 DEF IInv, StreamInv, StreamRight, Got, Underway, In
  <2> QED
    BY <2>2, <2>3 DEF IInv
<1> QED
  BY <1>1, <1>2, <1>3, <1>4, <1>5, RestartStep DEF NoticesNext

LEMMA Invariance == NoticesSpec => []IInv
  BY InitIInv, NextIInv, PTL DEF NoticesSpec

-----------------------------------------------------------------------------
(* No goroutine ever sends on the channel of a stream that was closed.     *)
THEOREM TypeCorrect == NoticesSpec => []NoticesTypeOK
<1>1. IInv => NoticesTypeOK
  BY DEF IInv, TypeInv, StreamInv, StreamRight, MoveInv, MoveRight, NoticesTypeOK
<1> QED
  BY <1>1, Invariance, PTL

(* Nobody is told twice of a move, nor is who made it.                     *)
THEOREM Once == NoticesSpec => []ToldOnce
<1>1. IInv => ToldOnce
  BY DEF IInv, BellInv, ToldOnce
<1> QED
  BY <1>1, Invariance, PTL

(* A goroutine that ends without a failure has told everyone.              *)
THEOREM All == NoticesSpec => []EveryoneIsTold
<1>1. IInv => EveryoneIsTold
  BY DEF IInv, MoveInv, MoveRight, Told, EveryoneIsTold
<1> QED
  BY <1>1, Invariance, PTL

(* A notice is shown on every tab that was open before it was written, or  *)
(* dropped by a full buffer, and nothing else is shown.                    *)
THEOREM Live == NoticesSpec => []OpenTabsShowIt
<1>1. IInv => OpenTabsShowIt
  <2> SUFFICES ASSUME IInv, NEW s \in Streams, stream[s].up
               PROVE  /\ \A k \in Got(s) : bell[k].to = Viewer[s]
                      /\ \A k \in DOMAIN bell :
                           /\ bell[k].to = Viewer[s] /\ k > stream[s].since
                           /\ \A m \in Going : move[m].at # k
                           => k \in Got(s)
    BY DEF OpenTabsShowIt, Got
  <2>1. \A k : Underway(s, k) => \E m \in Going : move[m].at = k
    BY DEF Underway, Going, In
  <2>2. StreamRight(s)
    BY DEF IInv, StreamInv
  <2> QED
    BY <2>1, <2>2 DEF StreamRight
<1> QED
  BY <1>1, Invariance, PTL

(* Every colleague but the mover is told once, and every open stream shows *)
(* it (notify/dealmoved.go:80, notify/store.go:87).                        *)
THEOREM NoticesRight == NoticesSpec => []NoticesReachEveryone
  BY Once, All, Live, PTL DEF NoticesReachEveryone

-----------------------------------------------------------------------------
(* What people know.  As long as moves and their goroutines do not         *)
(* overlap, whoever has not moved the deal knows the column it was in      *)
(* before the move that is under way, and the one it is in once they are   *)
(* off the list of those it still has to tell.                             *)
Latest(p, k) ==
  /\ k \in DOMAIN bell /\ bell[k].to = p
  /\ \A j \in DOMAIN bell : bell[j].to = p => j <= k

Knows(p, stage) == \A k \in DOMAIN bell : Latest(p, k) => bell[k].stage = stage

Bystander(p) == p \in colleague /\ \A m \in Moves : ~ In(m, "new") => move[m].by # p

Untold    == {"write", "load", "list"}
Telling   == {"insert", "lock", "show"}
Busy(m) == move[m].pc \in Untold \cup Telling

StagesRight(m) ==
  /\ In(m, "write") => move[m].from = column
  /\ move[m].pc \in {"list"} \cup Telling => move[m].now = column

PeopleKnow(p) ==
  /\ (\A m \in Moves : ~ Busy(m)) => Knows(p, column)
  /\ \A m \in Moves :
       /\ move[m].pc \in Untold => Knows(p, move[m].from)
       /\ move[m].pc \in Telling /\ p \notin move[m].left => Knows(p, column)

OrderlyInv ==
  ~ tangled =>
    /\ \A m, l \in Moves : Busy(m) /\ Busy(l) => m = l
    /\ \A m \in Moves : StagesRight(m)
    /\ \A p \in People : Bystander(p) => PeopleKnow(p)

(* Whoever was told something was told something last.                     *)
LatestInv ==
  \A p \in People : (\E k \in DOMAIN bell : bell[k].to = p) => \E k \in DOMAIN bell : Latest(p, k)

LEMMA InitOrderly == NoticesInit => OrderlyInv /\ LatestInv
<1> SUFFICES ASSUME NoticesInit PROVE OrderlyInv /\ LatestInv
  OBVIOUS
<1>1. DOMAIN bell = {} /\ \A m \in Moves : ~ Busy(m) /\ In(m, "new") /\ move[m].pc \notin Untold \cup Telling
  BY DEF NoticesInit, NewMove, Busy, In, Untold, Telling
<1> QED
  BY <1>1 DEF OrderlyInv, LatestInv, StagesRight, PeopleKnow, Knows, In, Telling

(* Only a notice changes what people know.                                 *)
LEMMA NoNews ==
  ASSUME bell' = bell
  PROVE  /\ \A p, c : Knows(p, c)' <=> Knows(p, c)
         /\ LatestInv => LatestInv'
BY DEF Knows, Latest, LatestInv

(* A step of m alone, that tells nobody.                                   *)
OnlyMoves(m) ==
  /\ bell' = bell /\ colleague' = colleague
  /\ \A l \in Moves : l # m => move'[l] = move[l]

LEMMA QuietOrderly ==
  ASSUME OrderlyInv, ~ tangled, NEW m \in Moves, OnlyMoves(m), Busy(m) \/ \A l \in Moves : ~ Busy(l),
         ~ In(m, "new") => move'[m].by = move[m].by,
         In(m, "new") \/ Busy(m), move'[m].pc # "new",
         StagesRight(m)',
         \A p \in People : Bystander(p)' /\ PeopleKnow(p) =>
           /\ ~ Busy(m)' => Knows(p, column')
           /\ move'[m].pc \in Untold => Knows(p, move'[m].from)
           /\ move'[m].pc \in Telling /\ p \notin move'[m].left => Knows(p, column')
  PROVE  OrderlyInv'
<1>1. \A l \in Moves : l # m => ~ Busy(l) /\ ~ Busy(l)' /\ move'[l] = move[l]
  BY DEF OrderlyInv, Busy, OnlyMoves
<1>2. \A l, n \in Moves : Busy(l)' /\ Busy(n)' => l = n
  BY <1>1
<1>3. \A l \in Moves : StagesRight(l)'
  BY <1>1 DEF StagesRight, In, Busy, Untold, Telling
<1>4. ASSUME NEW p \in People, Bystander(p)' PROVE PeopleKnow(p)'
  <2>1. Bystander(p)
    BY <1>1, <1>4 DEF Bystander, In, OnlyMoves
  <2>2. PeopleKnow(p)
    BY <2>1 DEF OrderlyInv
  <2>3. \A c : Knows(p, c)' <=> Knows(p, c)
    BY NoNews DEF OnlyMoves
  <2>4. (\A l \in Moves : ~ Busy(l)') => Knows(p, column)'
    BY <1>4, <2>2, <2>3 DEF Knows
  <2>5. ASSUME NEW l \in Moves
        PROVE  /\ move'[l].pc \in Untold => Knows(p, move[l].from)'
               /\ move'[l].pc \in Telling /\ p \notin move'[l].left => Knows(p, column)'
    <3>1. CASE l # m
      BY <1>1, <3>1 DEF Busy
    <3>2. CASE l = m
      <4>1. /\ move'[m].pc \in Untold => Knows(p, move'[m].from)
            /\ move'[m].pc \in Telling /\ p \notin move'[m].left => Knows(p, column')
        BY <1>4, <2>2
      <4>2. /\ move'[m].pc \in Untold => Knows(p, move[m].from)'
            /\ move'[m].pc \in Telling /\ p \notin move'[m].left => Knows(p, column)'
        BY <2>3, <4>1 DEF Knows
      <4> QED
        BY <3>2, <4>2
    <3> QED
      BY <3>1, <3>2
  <2> QED
    BY <2>4, <2>5 DEF PeopleKnow
<1> QED
  BY <1>2, <1>3, <1>4 DEF OrderlyInv

LEMMA SnapOrderly ==
  ASSUME IInv, OrderlyInv, NEW m \in Moves, NEW by \in People, NEW to \in Columns, SnapMove(m, by, to)
  PROVE  OrderlyInv'
<1> SUFFICES ASSUME ~ tangled' PROVE OrderlyInv'
  BY DEF OrderlyInv
<1> DEFINE x == [NewMove EXCEPT !.pc = "write", !.by = by, !.to = to, !.from = column]
<1>1. x.pc = "write" /\ x.from = column
  BY DEF NewMove
<1>2. move' = [move EXCEPT ![m] = x] /\ move \in [Moves -> MoveType]
  BY DEF SnapMove, IInv, TypeInv
<1> HIDE DEF x
<1>3. OnlyMoves(m) /\ ~ tangled /\ Going = {} /\ In(m, "new") /\ column' = column
  <2>1. \A l \in Moves : l # m => move'[l] = move[l]
    BY <1>2
  <2>2. ~ tangled /\ Going = {}
    BY Zenon DEF SnapMove
  <2> QED
    BY <2>1, <2>2 DEF SnapMove, OnlyMoves
<1>4. move'[m].pc = "write" /\ move'[m].from = column
  BY <1>1, <1>2
<1>5. \A l \in Moves : ~ Busy(l)
  BY <1>3 DEF Going, Busy, Untold, Telling
<1> QED
  BY <1>3, <1>4, <1>5, QuietOrderly DEF StagesRight, In, PeopleKnow, Busy, Untold, Telling

LEMMA WriteOrderly ==
  ASSUME IInv, OrderlyInv, NEW m \in Moves, WriteMove(m)
  PROVE  OrderlyInv'
<1> SUFFICES ASSUME ~ tangled' PROVE OrderlyInv'
  BY DEF OrderlyInv
<1>1. move \in [Moves -> MoveType] /\ In(m, "write")
  BY DEF WriteMove, IInv, TypeInv
<1>2. /\ OnlyMoves(m) /\ ~ tangled /\ Busy(m)
      /\ move'[m].pc = "load" /\ move'[m].from = move[m].from /\ move'[m].by = move[m].by
  BY <1>1 DEF WriteMove, Moved, OnlyMoves, MoveType, Busy, In, Untold
<1> QED
  BY <1>1, <1>2, QuietOrderly DEF StagesRight, In, PeopleKnow, Busy, Untold, Telling

LEMMA LoadOrderly ==
  ASSUME IInv, OrderlyInv, NEW m \in Moves, LoadMoved(m)
  PROVE  OrderlyInv'
<1> SUFFICES ASSUME ~ tangled' PROVE OrderlyInv'
  BY DEF OrderlyInv
<1>1. move \in [Moves -> MoveType] /\ In(m, "load")
  BY DEF LoadMoved, IInv, TypeInv
<1>2. /\ OnlyMoves(m) /\ ~ tangled /\ Busy(m) /\ column' = column
      /\ move'[m].from = move[m].from /\ move'[m].by = move[m].by /\ move'[m].now = column
      /\ \/ move'[m].pc = "over" /\ move[m].from = column
         \/ move'[m].pc = "list"
  BY <1>1 DEF LoadMoved, OnlyMoves, MoveType, Busy, In, Untold
<1> QED
  BY <1>1, <1>2, QuietOrderly DEF StagesRight, In, PeopleKnow, Busy, Untold, Telling

LEMMA ListOrderly ==
  ASSUME IInv, OrderlyInv, NEW m \in Moves, ListColleagues(m)
  PROVE  OrderlyInv'
<1> SUFFICES ASSUME ~ tangled' PROVE OrderlyInv'
  BY DEF OrderlyInv
<1>1. move \in [Moves -> MoveType] /\ In(m, "list")
  BY DEF ListColleagues, IInv, TypeInv
<1>2. /\ OnlyMoves(m) /\ ~ tangled /\ Busy(m) /\ column' = column
      /\ move'[m].by = move[m].by /\ move'[m].now = move[m].now
      /\ move'[m].pc = "insert" /\ move'[m].left = Audience(m)
  BY <1>1 DEF ListColleagues, OnlyMoves, MoveType, Busy, In, Untold
<1>3. \A p \in People : Bystander(p)' => p \in Audience(m)
  BY <1>2 DEF Bystander, Audience, In, OnlyMoves
<1>4. StagesRight(m)'
  BY <1>1, <1>2 DEF OrderlyInv, StagesRight, In, Telling
<1> QED
  BY <1>1, <1>2, <1>3, <1>4, QuietOrderly DEF In, Busy, Untold, Telling

LEMMA HubOrderly ==
  ASSUME IInv, OrderlyInv, NEW m \in Moves, LockHub(m) \/ ShowNotice(m) \/ UnlockHub(m) \/ AllTold(m)
  PROVE  OrderlyInv'
<1> SUFFICES ASSUME ~ tangled' PROVE OrderlyInv'
  BY DEF OrderlyInv
<1>1. move \in [Moves -> MoveType] /\ move[m].pc \in Telling
  BY DEF LockHub, ShowNotice, UnlockHub, AllTold, IInv, TypeInv, In, Telling
<1>2. /\ OnlyMoves(m) /\ ~ tangled /\ Busy(m) /\ column' = column
      /\ move'[m].by = move[m].by /\ move'[m].now = move[m].now /\ move'[m].left = move[m].left
      /\ \/ move'[m].pc \in Telling
         \/ move'[m].pc = "over" /\ move[m].left = {}
  <2>1. CASE LockHub(m)
    BY <1>1, <2>1 DEF LockHub, OnlyMoves, MoveType, Busy, In, Telling
  <2>2. CASE ShowNotice(m)
    BY <1>1, <2>2 DEF ShowNotice, OnlyMoves, MoveType, Busy, In, Telling
  <2>3. CASE UnlockHub(m)
    BY <1>1, <2>3 DEF UnlockHub, Moved, OnlyMoves, MoveType, Busy, In, Telling
  <2>4. CASE AllTold(m)
    BY <1>1, <2>4 DEF AllTold, Moved, OnlyMoves, MoveType, Busy, In, Telling
  <2> QED
    BY <2>1, <2>2, <2>3, <2>4
<1>3. StagesRight(m)'
  BY <1>1, <1>2 DEF OrderlyInv, StagesRight, In, Telling
<1> QED
  BY <1>1, <1>2, <1>3, QuietOrderly DEF In, PeopleKnow, Busy, Untold, Telling

(* The bell with one notice more.                                          *)
LEMMA NoticeAdded ==
  ASSUME IInv, NEW m \in Moves, InsertNotice(m)
  PROVE  \E p \in move[m].left, n \in Nat :
           /\ n \notin DOMAIN bell /\ DOMAIN bell' = DOMAIN bell \cup {n}
           /\ bell'[n].to = p /\ bell'[n].stage = move[m].now
           /\ \A k \in DOMAIN bell : bell'[k] = bell[k] /\ k \in Nat /\ k < n
           /\ move'[m].pc = "lock" /\ move'[m].left = move[m].left \ {p}
           /\ move'[m].by = move[m].by /\ move'[m].now = move[m].now
<1>1. move \in [Moves -> MoveType] /\ bell \in Seq(BellType) /\ move[m].now \in Columns \cup {Nemo}
  BY DEF IInv, TypeInv, MoveType
<1>2. PICK p \in move[m].left :
        /\ bell' = Append(bell, [to |-> p, of |-> m, stage |-> News(m)])
        /\ move' = [move EXCEPT ![m].left = @ \ {p}, ![m].at = Len(bell) + 1, ![m].pc = "lock"]
  BY DEF InsertNotice
<1> DEFINE notice == [to |-> p, of |-> m, stage |-> News(m)]
<1>3. notice \in BellType /\ notice.to = p /\ notice.stage = move[m].now
  BY <1>1 DEF MoveType, BellType, News
<1>4. bell' = Append(bell, notice)
  BY <1>2
<1> HIDE DEF notice
<1>5. /\ Len(bell) \in Nat /\ bell' \in Seq(BellType) /\ Len(bell') = Len(bell) + 1
      /\ bell'[Len(bell) + 1] = notice /\ \A k \in 1 .. Len(bell) : bell'[k] = bell[k]
  BY <1>1, <1>3, <1>4, AppendProperties, LenProperties
<1>6. DOMAIN bell = 1 .. Len(bell) /\ DOMAIN bell' = 1 .. Len(bell) + 1
  BY <1>1, <1>5, LenProperties
<1>7. /\ move'[m].pc = "lock" /\ move'[m].left = move[m].left \ {p}
      /\ move'[m].by = move[m].by /\ move'[m].now = move[m].now
  BY <1>1, <1>2 DEF MoveType
<1>8. /\ Len(bell) + 1 \in Nat /\ Len(bell) + 1 \notin DOMAIN bell
      /\ DOMAIN bell' = DOMAIN bell \cup {Len(bell) + 1}
      /\ \A k \in DOMAIN bell : bell'[k] = bell[k] /\ k \in Nat /\ k < Len(bell) + 1
  BY <1>5, <1>6
<1> QED
  BY <1>3, <1>5, <1>7, <1>8

LEMMA InsertOrderly ==
  ASSUME IInv, OrderlyInv, LatestInv, NEW m \in Moves, InsertNotice(m)
  PROVE  OrderlyInv' /\ LatestInv'
<1>1. PICK p \in move[m].left, n \in Nat :
        /\ n \notin DOMAIN bell /\ DOMAIN bell' = DOMAIN bell \cup {n}
        /\ bell'[n].to = p /\ bell'[n].stage = move[m].now
        /\ \A k \in DOMAIN bell : bell'[k] = bell[k] /\ k \in Nat /\ k < n
        /\ move'[m].pc = "lock" /\ move'[m].left = move[m].left \ {p}
        /\ move'[m].by = move[m].by /\ move'[m].now = move[m].now
  BY NoticeAdded
<1>2. /\ move \in [Moves -> MoveType] /\ In(m, "insert")
      /\ column' = column /\ colleague' = colleague /\ tangled' = tangled
      /\ \A l \in Moves : l # m => move'[l] = move[l]
  BY DEF InsertNotice, IInv, TypeInv
<1>3. Latest(p, n)' /\ \A k : Latest(p, k)' => k = n
  BY <1>1 DEF Latest
<1>4. \A q, k : q # p => (Latest(q, k)' <=> Latest(q, k))
  BY <1>1 DEF Latest
<1>5. LatestInv'
  <2> SUFFICES ASSUME NEW q \in People, NEW k \in DOMAIN bell', bell'[k].to = q
               PROVE  \E j \in DOMAIN bell' : Latest(q, j)'
    BY DEF LatestInv
  <2>1. CASE q = p
    BY <2>1, <1>1, <1>3
  <2>2. CASE q # p
    <3>1. k \in DOMAIN bell /\ bell[k].to = q
      BY <1>1, <2>2
    <3>2. PICK j \in DOMAIN bell : Latest(q, j)
      BY <3>1 DEF LatestInv
    <3> QED
      BY <1>1, <1>4, <2>2, <3>2
  <2> QED
    BY <2>1, <2>2
<1>6. OrderlyInv'
  <2> SUFFICES ASSUME ~ tangled PROVE OrderlyInv'
    BY <1>2 DEF OrderlyInv
  <2>1. \A l \in Moves : l # m => ~ Busy(l) /\ ~ Busy(l)'
    BY <1>2 DEF OrderlyInv, Busy, In, Telling
  <2>2. \A l, k \in Moves : Busy(l)' /\ Busy(k)' => l = k
    BY <2>1
  <2>3. move[m].now = column
    BY <1>2 DEF OrderlyInv, StagesRight, In, Telling
  <2>4. \A l \in Moves : StagesRight(l)'
    BY <1>1, <1>2, <2>1, <2>3 DEF StagesRight, In, Busy, Untold, Telling
  <2>5. ASSUME NEW q \in People, Bystander(q)' PROVE PeopleKnow(q)'
    <3>1. Bystander(q)
      BY <1>1, <1>2, <2>5 DEF Bystander, In
    <3>2. PeopleKnow(q)
      BY <2>5, <3>1 DEF OrderlyInv
    <3>3. Busy(m)' /\ move'[m].pc \notin Untold
      BY <1>1 DEF Busy, Telling, Untold
    <3>4. q \notin move'[m].left => Knows(q, column)'
      <4>1. CASE q = p
        BY <1>1, <1>2, <1>3, <2>3, <4>1 DEF Knows
      <4>2. CASE q # p
        <5>1. q \notin move'[m].left => Knows(q, column)
          BY <1>1, <1>2, <3>2, <4>2 DEF PeopleKnow, In, Telling
        <5> QED
          BY <1>1, <1>2, <1>4, <4>2, <5>1 DEF Knows, Latest
      <4> QED
        BY <4>1, <4>2
    <3>5. ASSUME NEW l \in Moves
          PROVE  /\ move'[l].pc \in Untold => Knows(q, move[l].from)'
                 /\ move'[l].pc \in Telling /\ q \notin move'[l].left => Knows(q, column)'
      BY <2>1, <3>3, <3>4 DEF Busy
    <3> QED
      BY <3>3, <3>5 DEF PeopleKnow
  <2> QED
    BY <2>2, <2>4, <2>5 DEF OrderlyInv
<1> QED
  BY <1>5, <1>6

LEMMA NextOrderly ==
  IInv /\ OrderlyInv /\ LatestInv /\ [NoticesNext]_noticeVars => OrderlyInv' /\ LatestInv'
<1> SUFFICES ASSUME IInv, OrderlyInv, LatestInv, [NoticesNext]_noticeVars
             PROVE  OrderlyInv' /\ LatestInv'
  OBVIOUS
<1>1. ASSUME NEW m \in Moves, \E p \in People, to \in Columns : SnapMove(m, p, to)
      PROVE  OrderlyInv' /\ LatestInv'
  BY <1>1, SnapOrderly, NoNews DEF SnapMove
<1>2. ASSUME NEW m \in Moves,
             \/ WriteMove(m) \/ LoadMoved(m) \/ ListColleagues(m)
             \/ LockHub(m) \/ ShowNotice(m) \/ UnlockHub(m) \/ AllTold(m)
      PROVE  OrderlyInv' /\ LatestInv'
  <2>1. bell' = bell
    BY <1>2 DEF WriteMove, LoadMoved, ListColleagues, LockHub, ShowNotice, UnlockHub, AllTold
  <2> QED
    BY <1>2, <2>1, NoNews, WriteOrderly, LoadOrderly, ListOrderly, HubOrderly
<1>3. ASSUME NEW m \in Moves, InsertNotice(m) PROVE OrderlyInv' /\ LatestInv'
  BY <1>3, InsertOrderly
<1>4. ASSUME tangled' = TRUE, bell' = bell PROVE OrderlyInv' /\ LatestInv'
  BY <1>4, NoNews DEF OrderlyInv
<1>5. ASSUME UNCHANGED <<column, colleague, move, bell, tangled>> PROVE OrderlyInv' /\ LatestInv'
  BY <1>5, NoNews DEF OrderlyInv, StagesRight, PeopleKnow, Bystander, Busy, In, Knows, Latest
<1>6. ASSUME NEW s \in Streams, OpenStream(s) \/ CloseStream(s) \/ ReadStream(s)
      PROVE  OrderlyInv' /\ LatestInv'
  BY <1>5, <1>6 DEF OpenStream, CloseStream, ReadStream
<1>7. ASSUME NEW m \in Moves, FailMove(m) \/ StopTelling(m) PROVE OrderlyInv' /\ LatestInv'
  BY <1>4, <1>7 DEF FailMove, StopTelling
<1>8. ASSUME NEW p \in People, LoseColleague(p) PROVE OrderlyInv' /\ LatestInv'
  BY <1>4, <1>8 DEF LoseColleague
<1>9. CASE Restart
  BY <1>4, <1>9 DEF Restart
<1>10. CASE UNCHANGED noticeVars
  BY <1>5, <1>10 DEF noticeVars
<1> QED
  BY <1>1, <1>2, <1>3, <1>6, <1>7, <1>8, <1>9, <1>10 DEF NoticesNext

(* The last thing a bystander was told of a deal is the column it is in,   *)
(* when moves and their goroutines do not overlap (the goroutine of        *)
(* internal/deals reloads the deal and tells the stage it finds).          *)
THEOREM LastNoticeHolds == NoticesSpec => []LastNoticeIsTrue
<1>1. IInv /\ OrderlyInv /\ LatestInv => LastNoticeIsTrue
  <2> SUFFICES ASSUME IInv, OrderlyInv, LatestInv, NEW p \in colleague, ~ tangled, Going = {},
                      \E k \in DOMAIN bell : bell[k].to = p, \A m \in Moves : move[m].by # p
               PROVE  \E k \in DOMAIN bell :
                        /\ bell[k].to = p /\ bell[k].stage = column
                        /\ \A j \in DOMAIN bell : bell[j].to = p => j <= k
    BY DEF LastNoticeIsTrue
  <2>1. p \in People /\ Bystander(p)
    BY DEF IInv, TypeInv, Bystander
  <2>2. Knows(p, column)
    BY <2>1 DEF OrderlyInv, PeopleKnow, Going, Busy, Untold, Telling
  <2> QED
    BY <2>1, <2>2 DEF LatestInv, Latest, Knows
<1> QED
  BY <1>1, InitOrderly, NextOrderly, Invariance, PTL DEF NoticesSpec
=============================================================================
