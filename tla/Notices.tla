------------------------------ MODULE Notices ------------------------------
(***************************************************************************)
(* Telling people that a deal has moved (internal/notify, and the move of  *)
(* internal/deals).  A move is answered at once; a goroutine of its own    *)
(* then writes a row for each colleague and shows it on the streams that   *)
(* are open.  The streams hang off a hub in memory, behind a read-write    *)
(* lock; a stream that is behind loses what does not fit its buffer.  The  *)
(* mail that is sent besides, and which rows are read, are left out.       *)
(*                                                                         *)
(* A step is one query, one send on a channel, or one critical section     *)
(* that does nothing in between.  There is one deal and one organisation.  *)
(***************************************************************************)
EXTENDS Naturals, Sequences, FiniteSets

CONSTANTS Columns,    \* the columns of the board
          First,      \* the one the deal starts in
          People, Moves, Streams,
          Viewer,     \* the person behind each stream
          Room,       \* 10 in the code: the buffer of a stream
          Nemo

ASSUME NoticesAssumption ==
  First \in Columns /\ Viewer \in [Streams -> People] /\ Room \in Nat

VARIABLES
  column,   \* the stage of the deal
  colleague,\* the members of the organisation
  move,     \* the moves and the goroutine of each
  bell,     \* the notifications, oldest first: [to, of, stage]
  stream,   \* the streams: open or not, the buffer, what was shown
  tangled   \* history: a move overlapped another, or was not told in full
            \* (in a move, asked and cut are history too)

noticeVars == <<column, colleague, move, bell, stream, tangled>>

NewMove == [pc |-> "new", by |-> Nemo, to |-> Nemo, from |-> Nemo, now |-> Nemo,
            left |-> {}, at |-> 0, targets |-> {}, asked |-> {}, cut |-> FALSE]
Shut    == [up |-> FALSE, since |-> 0, buffer |-> <<>>, shown |-> {}, lost |-> {}]

NoticesInit ==
  /\ column = First
  /\ colleague = People
  /\ move = [m \in Moves |-> NewMove]
  /\ bell = <<>>
  /\ stream = [s \in Streams |-> Shut]
  /\ tangled = FALSE

In(m, pc)  == move[m].pc = pc
Going      == {m \in Moves : move[m].pc \notin {"new", "over"}}
Showing    == {m \in Moves : In(m, "show")}   \* the readers of the hub's lock
Moved(m, pc) == [move EXCEPT ![m].pc = pc]

-----------------------------------------------------------------------------
(* deals.move.  The statement reads the stage in its snapshot and may then *)
(* wait for the row; it reports the stage of the snapshot.                 *)
SnapMove(m, by, to) ==
  /\ In(m, "new") /\ by \in colleague
  /\ move' = [move EXCEPT ![m] = [NewMove EXCEPT !.pc = "write", !.by = by, !.to = to, !.from = column]]
  /\ tangled' = (tangled \/ Going # {})
  /\ UNCHANGED <<column, colleague, bell, stream>>

WriteMove(m) ==
  /\ In(m, "write")
  /\ column' = move[m].to
  /\ move' = Moved(m, "load")
  /\ UNCHANGED <<colleague, bell, stream, tangled>>

(* The deal is loaded again, and what is told is the stage it is in then;  *)
(* a move within a column is not news.                                     *)
LoadMoved(m) ==
  /\ In(m, "load")
  /\ move' = [move EXCEPT ![m].now = column,
                          ![m].pc = IF move[m].from = column THEN "over" ELSE "list"]
  /\ UNCHANGED <<column, colleague, bell, stream, tangled>>

(* The request fails after the write: nobody is told.                      *)
FailMove(m) ==
  /\ In(m, "load")
  /\ move' = [move EXCEPT ![m].pc = "over", ![m].cut = TRUE]
  /\ tangled' = TRUE
  /\ UNCHANGED <<column, colleague, bell, stream>>

-----------------------------------------------------------------------------
(* recordDealMoved.                                                        *)
Audience_All(m) == colleague  \* mutation: the mover is told as well

Audience(m) == colleague \ {move[m].by}

ListColleagues(m) ==
  /\ In(m, "list")
  /\ move' = [move EXCEPT ![m].left = Audience(m), ![m].asked = colleague, ![m].pc = "insert"]
  /\ UNCHANGED <<column, colleague, bell, stream, tangled>>

News_From(m) == move[m].from  \* mutation: the stage it came from is told

News(m) == move[m].now

(* CreateNotification, one colleague after the other.                      *)
InsertNotice(m) ==
  /\ In(m, "insert")
  /\ \E p \in move[m].left :
       /\ bell' = Append(bell, [to |-> p, of |-> m, stage |-> News(m)])
       /\ move' = [move EXCEPT ![m].left = @ \ {p},
                               ![m].at = Len(bell) + 1, ![m].pc = "lock"]
  /\ UNCHANGED <<column, colleague, stream, tangled>>

(* Broadcast: the streams of the colleague, under the read lock.           *)
TabsOf_First(p) ==  \* mutation: one tab of each person is enough
  LET tabs == {s \in Streams : stream[s].up /\ Viewer[s] = p}
  IN  IF tabs = {} THEN {} ELSE {CHOOSE s \in tabs : TRUE}

TabsOf(p) == {s \in Streams : stream[s].up /\ Viewer[s] = p}

LockHub(m) ==
  /\ In(m, "lock")
  /\ move' = [move EXCEPT ![m].targets = TabsOf(bell[move[m].at].to), ![m].pc = "show"]
  /\ UNCHANGED <<column, colleague, bell, stream, tangled>>

HasRoom(s) == Len(stream[s].buffer) < Room

ShowNotice(m) ==
  /\ In(m, "show")
  /\ \E s \in move[m].targets :
       /\ move' = [move EXCEPT ![m].targets = @ \ {s}]
       /\ stream' = IF HasRoom(s) THEN [stream EXCEPT ![s].buffer = Append(@, move[m].at)]
                    ELSE [stream EXCEPT ![s].lost = @ \cup {move[m].at}]
  /\ UNCHANGED <<column, colleague, bell, tangled>>

UnlockHub_Once(m) ==  \* mutation: the loop over the colleagues ends too soon
  /\ In(m, "show") /\ move[m].targets = {}
  /\ move' = [move EXCEPT ![m].pc = "over"]
  /\ UNCHANGED <<column, colleague, bell, stream, tangled>>

UnlockHub(m) ==
  /\ In(m, "show") /\ move[m].targets = {}
  /\ move' = Moved(m, "insert")
  /\ UNCHANGED <<column, colleague, bell, stream, tangled>>

(* All are told; or a query fails, or the thirty seconds are over, and the *)
(* others are not.  The mail that follows is left out.                     *)
AllTold(m) ==
  /\ In(m, "insert") /\ move[m].left = {}
  /\ move' = Moved(m, "over")
  /\ UNCHANGED <<column, colleague, bell, stream, tangled>>

StopTelling(m) ==
  /\ In(m, "list") \/ (In(m, "insert") /\ move[m].left # {})
  /\ move' = [move EXCEPT ![m].pc = "over", ![m].cut = TRUE]
  /\ tangled' = TRUE
  /\ UNCHANGED <<column, colleague, bell, stream>>

-----------------------------------------------------------------------------
(* ServeSSE: Subscribe and Unsubscribe take the lock for themselves.       *)
OpenStream(s) ==
  /\ ~ stream[s].up /\ Showing = {}
  /\ stream' = [stream EXCEPT ![s] = [Shut EXCEPT !.up = TRUE, !.since = Len(bell)]]
  /\ UNCHANGED <<column, colleague, move, bell, tangled>>

CloseStream_Unlocked(s) ==  \* mutation: the channel is closed without the lock
  /\ stream[s].up
  /\ stream' = [stream EXCEPT ![s] = Shut]
  /\ UNCHANGED <<column, colleague, move, bell, tangled>>

CloseStream(s) ==
  /\ stream[s].up /\ Showing = {}
  /\ stream' = [stream EXCEPT ![s] = Shut]
  /\ UNCHANGED <<column, colleague, move, bell, tangled>>

ReadStream(s) ==
  /\ stream[s].buffer # <<>>
  /\ stream' = [stream EXCEPT ![s].buffer = Tail(@), ![s].shown = @ \cup {Head(stream[s].buffer)}]
  /\ UNCHANGED <<column, colleague, move, bell, tangled>>

LoseColleague(p) ==
  /\ p \in colleague
  /\ colleague' = colleague \ {p}
  /\ tangled' = TRUE
  /\ UNCHANGED <<column, move, bell, stream>>

(* The gateway stops: what is in memory is gone, goroutines and streams.   *)
Restart ==
  /\ Going # {}
  /\ move' = [m \in Moves |-> IF m \in Going THEN [move[m] EXCEPT !.pc = "over", !.targets = {}, !.cut = TRUE] ELSE move[m]]
  /\ stream' = [s \in Streams |-> Shut]
  /\ tangled' = TRUE
  /\ UNCHANGED <<column, colleague, bell>>

NoticesNext ==
  \/ \E m \in Moves :
       \/ \E p \in People, to \in Columns : SnapMove(m, p, to)
       \/ WriteMove(m) \/ LoadMoved(m) \/ FailMove(m) \/ ListColleagues(m) \/ InsertNotice(m)
       \/ LockHub(m) \/ ShowNotice(m) \/ UnlockHub(m) \/ AllTold(m) \/ StopTelling(m)
  \/ \E s \in Streams : OpenStream(s) \/ CloseStream(s) \/ ReadStream(s)
  \/ \E p \in People : LoseColleague(p)
  \/ Restart

NoticesSpec == NoticesInit /\ [][NoticesNext]_noticeVars

-----------------------------------------------------------------------------
(* The types; a notice is only sent on a channel that is open: sending on  *)
(* a closed one would bring the gateway down (Unsubscribe closes it under  *)
(* the lock that Broadcast reads under).                                   *)
NoticesTypeOK ==
  /\ column \in Columns
  /\ \A s \in Streams : Len(stream[s].buffer) <= Room
  /\ \A m \in Moves : \A s \in move[m].targets : stream[s].up

(* Nobody is told twice of one move, and who made it is not told           *)
(* (recordDealMoved).                                                      *)
ToldOnce ==
  \A j, k \in DOMAIN bell :
    /\ bell[k].to # move[bell[k].of].by
    /\ bell[j] = bell[k] => j = k

(* A move whose goroutine came to its end without a failure was told to    *)
(* everyone who was there but the mover, whatever other moves, streams and *)
(* departures fell between.                                                *)
EveryoneIsTold ==
  \A m \in Moves :
    In(m, "over") /\ ~ move[m].cut /\ move[m].from # move[m].now =>
      \A p \in move[m].asked \ {move[m].by} : \E k \in DOMAIN bell : bell[k].to = p /\ bell[k].of = m

(* Whoever opened a stream before a notice was written gets to see it on   *)
(* every tab, unless the tab was too far behind, and nothing that is not   *)
(* written is ever shown (CreateNotification writes and then broadcasts).  *)
OpenTabsShowIt ==
  \A s \in Streams : stream[s].up =>
    LET got == stream[s].shown \cup stream[s].lost \cup {stream[s].buffer[k] : k \in DOMAIN stream[s].buffer}
    IN
    /\ \A k \in got : bell[k].to = Viewer[s]
    /\ \A k \in DOMAIN bell :
         bell[k].to = Viewer[s] /\ k > stream[s].since /\ (\A m \in Going : move[m].at # k) => k \in got

(* What a person was last told of the deal is where it is, unless they     *)
(* moved it themselves since, when moves and their goroutines do not       *)
(* overlap.  When they do, the order of the notices is anyone's guess.     *)
LastNoticeIsTrue ==
  \A p \in colleague :
    LET mine == {k \in DOMAIN bell : bell[k].to = p} IN
    ~ tangled /\ Going = {} /\ mine # {} /\ (\A m \in Moves : move[m].by # p) =>
      \E k \in mine : (\A j \in mine : j <= k) /\ bell[k].stage = column

(* A move that is done with has been told to each colleague but the mover, *)
(* once, and to each stream that was open and had room.                    *)
NoticesReachEveryone == ToldOnce /\ EveryoneIsTold /\ OpenTabsShowIt
=============================================================================
