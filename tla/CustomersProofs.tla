-------------------------- MODULE CustomersProofs --------------------------
(***************************************************************************)
(* ConnPool for any number of connections and requests, and any limits of  *)
(* which the health check's leaves room for one more tick before the       *)
(* proxy's; and Timeline, Tasks and Companies for any number of records    *)
(* and requests.                                                           *)
(***************************************************************************)
EXTENDS Companies, Tasks, Timeline, ConnPool, TLAPS

(* No unused connection is older than the last health check left it, plus  *)
(* the tick that has made the next one due.                                *)
AgeInv ==
  \A c \in Conns : holder[c] = Unused =>
    idle[c] <= IF due THEN maxConnIdleTime + 1 ELSE maxConnIdleTime

PoolInv == PoolTypeOK /\ AgeInv

LEMMA InitPoolInv == PoolInit => PoolInv
<1> SUFFICES ASSUME PoolInit PROVE PoolInv
  OBVIOUS
<1>1. PoolTypeOK
  BY DEF PoolInit, PoolTypeOK
<1>2. AgeInv
  BY ConnPoolAssumption DEF PoolInit, AgeInv
<1> QED
  BY <1>1, <1>2 DEF PoolInv

(* What a request gives back, or loses, leaves the rest as it was.         *)
LEMMA ReleaseStep ==
  ASSUME PoolInv, NEW h \in Handlers, NEW as \in {Unused, Shut}, Release(h, as),
         queue' = queue \/ queue' = queue \ {h}, UNCHANGED due
  PROVE  PoolInv'
<1> USE ConnPoolAssumption DEF PoolInv, Release
<1>1. PoolTypeOK'
  <2>1. holder' \in [Conns -> Handlers \cup {Unused, Shut}] /\ idle' \in [Conns -> Nat]
    BY DEF PoolTypeOK
  <2>2. queue' \subseteq Handlers /\ due' \in BOOLEAN
    BY DEF PoolTypeOK
  <2>3. ASSUME NEW c \in Conns, NEW d \in Conns, holder'[c] \in queue', holder'[c] = holder'[d]
        PROVE  c = d
    BY <2>2, <2>3 DEF PoolTypeOK
  <2> QED
    BY <2>1, <2>2, <2>3 DEF PoolTypeOK
<1>2. AgeInv'
  <2> SUFFICES ASSUME NEW c \in Conns, holder'[c] = Unused
               PROVE  idle'[c] <= IF due' THEN maxConnIdleTime + 1 ELSE maxConnIdleTime
    BY DEF AgeInv
  <2>1. CASE holder[c] = h
    <3>1. idle'[c] = 0
      BY <2>1
    <3> QED
      BY <3>1
  <2>2. CASE holder[c] # h
    <3>1. holder[c] = Unused /\ idle'[c] = idle[c] /\ due' = due
      BY <2>2
    <3> QED
      BY <3>1 DEF AgeInv
  <2> QED
    BY <2>1, <2>2
<1> QED
  BY <1>1, <1>2

LEMMA AskStep ==
  ASSUME PoolInv, NEW h \in Handlers, Ask(h)
  PROVE  PoolInv'
<1> USE ConnPoolAssumption DEF PoolInv, Ask
<1>1. PoolTypeOK'
  BY DEF PoolTypeOK, HeldBy
<1>2. AgeInv'
  BY DEF AgeInv
<1> QED
  BY <1>1, <1>2

(* Who gets a connection waits no longer, so what it holds does not count. *)
LEMMA AcquireStep ==
  ASSUME PoolInv, NEW h \in Handlers, NEW x \in Conns, Acquire(h, x)
  PROVE  PoolInv'
<1> USE ConnPoolAssumption DEF PoolInv, Acquire
<1>1. PoolTypeOK'
  BY DEF PoolTypeOK
<1>2. AgeInv'
  BY DEF PoolTypeOK, AgeInv
<1> QED
  BY <1>1, <1>2

(* Only a request that holds one connection asks for a second one.         *)
LEMMA MissStep ==
  ASSUME PoolInv, NEW h \in Handlers, Miss(h)
  PROVE  PoolInv'
<1> USE DEF PoolInv, Miss
<1>1. PICK x \in Conns : HeldBy(h) = {x}
  OBVIOUS
<1>2. \A c \in Conns : holder[c] = h => c = x
  BY <1>1 DEF HeldBy
<1>3. PoolTypeOK'
  BY <1>2 DEF PoolTypeOK
<1>4. AgeInv'
  BY DEF AgeInv
<1> QED
  BY <1>3, <1>4

(* The tick comes when no check is due, and the check before the next one. *)
LEMMA ClockStep ==
  ASSUME PoolInv, Tick \/ HealthCheck
  PROVE  PoolInv'
<1> USE ConnPoolAssumption DEF PoolInv
<1>1. CASE Tick
  <2>1. PoolTypeOK'
    BY <1>1 DEF Tick, PoolTypeOK
  <2>2. AgeInv'
    BY <1>1 DEF Tick, PoolTypeOK, AgeInv
  <2> QED
    BY <2>1, <2>2
<1>2. CASE HealthCheck
  <2>1. PoolTypeOK'
    <3>1. holder' \in [Conns -> Handlers \cup {Unused, Shut}] /\ idle' \in [Conns -> Nat]
      BY <1>2 DEF HealthCheck, PoolTypeOK
    <3>2. queue' \subseteq Handlers /\ due' \in BOOLEAN
      BY <1>2 DEF HealthCheck, PoolTypeOK
    <3>3. ASSUME NEW c \in Conns, NEW d \in Conns, holder'[c] \in queue', holder'[c] = holder'[d]
          PROVE  c = d
      BY <1>2, <3>2, <3>3 DEF HealthCheck, PoolTypeOK
    <3> QED
      BY <3>1, <3>2, <3>3 DEF PoolTypeOK
  <2>2. AgeInv'
    BY <1>2 DEF HealthCheck, TooOld, PoolTypeOK, AgeInv
  <2> QED
    BY <2>1, <2>2
<1> QED
  BY <1>1, <1>2

LEMMA PoolInductive == PoolInv /\ [PoolNext]_poolVars => PoolInv'
<1> SUFFICES ASSUME PoolInv, [PoolNext]_poolVars PROVE PoolInv'
  OBVIOUS
<1>1. CASE UNCHANGED poolVars
  BY <1>1 DEF poolVars, PoolInv, PoolTypeOK, AgeInv
<1>2. ASSUME NEW h \in Handlers, Ask(h) PROVE PoolInv'
  BY <1>2, AskStep
<1>3. ASSUME NEW h \in Handlers, Miss(h) PROVE PoolInv'
  BY <1>3, MissStep
<1>4. ASSUME NEW h \in Handlers, Return(h) PROVE PoolInv'
  BY <1>4, ReleaseStep DEF Return
<1>5. ASSUME NEW h \in Handlers, GiveUp(h) PROVE PoolInv'
  BY <1>5, ReleaseStep DEF GiveUp
<1>6. ASSUME NEW h \in Handlers, NEW c \in Conns, Acquire(h, c) PROVE PoolInv'
  BY <1>6, AcquireStep
<1>7. CASE Tick \/ HealthCheck
  BY <1>7, ClockStep
<1> QED
  BY <1>1, <1>2, <1>3, <1>4, <1>5, <1>6, <1>7 DEF PoolNext

LEMMA PoolInvariance == PoolSpec => []PoolInv
BY InitPoolInv, PoolInductive, PTL DEF PoolSpec

(* A request that waits while it holds a connection holds no other         *)
(* (pkg/database/pool.go as quotes, invoices and leads use it).            *)
THEOREM PoolTypeCorrect == PoolSpec => []PoolTypeOK
<1>1. PoolInv => PoolTypeOK
  BY DEF PoolInv
<1> QED
  BY <1>1, PoolInvariance, PTL

(* The pool is stuck only when as many requests as it has connections      *)
(* explain a miss at once, whatever the size of the pool.                  *)
THEOREM Gridlock == PoolSpec => []GridlockTakesThemAll
<1>1. PoolInv => GridlockTakesThemAll
  BY DEF PoolInv, PoolTypeOK, GridlockTakesThemAll
<1> QED
  BY <1>1, PoolInvariance, PTL

(* No connection idles until the proxy drops it (NewPool).                 *)
THEOREM SocketsFresh == PoolSpec => []NoStaleSockets
<1>1. PoolInv => NoStaleSockets
  BY ConnPoolAssumption DEF PoolInv, PoolTypeOK, AgeInv, NoStaleSockets
<1> QED
  BY <1>1, PoolInvariance, PTL

(* The pool serves live connections, and stops only when nested requests   *)
(* hold all of it (pkg/database/pool.go:27, quotes/store.go:277).          *)
THEOREM PoolRight == PoolSpec => []PoolServes
  BY Gridlock, SocketsFresh, PTL DEF PoolServes

-----------------------------------------------------------------------------
(* Timeline.  What an entry is about is fixed by what its writer named,    *)
(* and only the app's entries are of its kind.                             *)
EntryRows ==
  [about : [type : Subjects, id : Ids], kind : StoredKinds, body : Texts,
   author : Authors \cup {Blank}, named : Naming, app : BOOLEAN]

Sound(new) ==
  /\ new \in EntryRows
  /\ Mentioned(new.named) # {}
  /\ new.about = entityOf(new.named)
  /\ new.kind = "system" <=> new.app

EntryInv ==
  /\ entry \in [Entries -> EntryRows \cup {Blank}]
  /\ \A e \in Rows : Sound(entry[e])

LEMMA OrderOfTables ==
  /\ DOMAIN Order = 1 .. 6
  /\ \A i \in 1 .. 6 : Order[i] \in Subjects
  /\ \A i, j \in 1 .. 6 : Order[i] = Order[j] => i = j
<1>1. DOMAIN Order = 1 .. 6
  BY DEF Order
<1>2. ASSUME NEW i \in 1 .. 6, NEW j \in 1 .. 6, Order[i] = Order[j]
      PROVE  i = j
  BY <1>2 DEF Order
<1> QED
  BY <1>1, <1>2 DEF Subjects

(* There is a first table, and it is the one an entry is about.            *)
LEMMA FirstTable ==
  ASSUME NEW named \in Naming, Mentioned(named) # {}
  PROVE  \E i \in 1 .. 6 :
           /\ named[Order[i]] # Blank
           /\ \A j \in 1 .. 6 : j < i => named[Order[j]] = Blank
           /\ entityOf(named) = [type |-> Order[i], id |-> named[Order[i]]]
           /\ entityOf(named).type \in Subjects /\ entityOf(named).id \in Ids
<1> USE TimelineAssumption, OrderOfTables
<1>1. Mentioned(named) \subseteq 1 .. 6
  BY DEF Mentioned
<1>2. PICK i \in Mentioned(named) : \A j \in Mentioned(named) : i <= j
  <2>1. CASE 1 \in Mentioned(named)
    BY <1>1, <2>1
  <2>2. CASE 1 \notin Mentioned(named) /\ 2 \in Mentioned(named)
    BY <1>1, <2>2
  <2>3. CASE {1, 2} \cap Mentioned(named) = {} /\ 3 \in Mentioned(named)
    BY <1>1, <2>3
  <2>4. CASE {1, 2, 3} \cap Mentioned(named) = {} /\ 4 \in Mentioned(named)
    BY <1>1, <2>4
  <2>5. CASE {1, 2, 3, 4} \cap Mentioned(named) = {} /\ 5 \in Mentioned(named)
    BY <1>1, <2>5
  <2>6. CASE {1, 2, 3, 4, 5} \cap Mentioned(named) = {}
    BY <1>1, <2>6
  <2> QED
    BY <2>1, <2>2, <2>3, <2>4, <2>5, <2>6
<1>3. \A j \in Mentioned(named) : (\A k \in Mentioned(named) : j <= k) => j = i
  BY <1>1, <1>2
<1>4. (CHOOSE j \in Mentioned(named) : \A k \in Mentioned(named) : j <= k) = i
  BY <1>2, <1>3
<1>5. entityOf(named) = [type |-> Order[i], id |-> named[Order[i]]]
  BY <1>4 DEF entityOf, About
<1>6. named[Order[i]] # Blank /\ named[Order[i]] \in Ids
  BY <1>1 DEF Mentioned
<1>7. \A j \in 1 .. 6 : j < i => named[Order[j]] = Blank
  BY <1>1, <1>2 DEF Mentioned
<1> QED
  BY <1>1, <1>5, <1>6, <1>7

LEMMA InitEntryInv == TimelineInit => EntryInv
  BY DEF TimelineInit, EntryInv, Rows

LEMMA InsertKeeps ==
  ASSUME EntryInv, NEW e \in Entries, NEW named \in Naming, NEW kind \in StoredKinds,
         NEW text \in Texts, NEW author \in Authors \cup {Blank}, NEW app \in BOOLEAN,
         kind = "system" <=> app, Insert(e, named, kind, text, author, app)
  PROVE  EntryInv'
<1>1. PICK new : new = [about |-> entityOf(named), kind |-> kind, body |-> text,
                        author |-> author, named |-> named, app |-> app]
  OBVIOUS
<1>2. Mentioned(named) # {} /\ entry' = [entry EXCEPT ![e] = new]
  BY <1>1 DEF Insert
<1>3. new.about \in [type : Subjects, id : Ids]
  BY <1>1, <1>2, FirstTable
<1>4. Sound(new)
  BY <1>1, <1>2, <1>3 DEF Sound, EntryRows
<1> QED
  BY <1>2, <1>4 DEF EntryInv, Rows, Sound

LEMMA EntriesInductive == EntryInv /\ [TimelineNext]_timelineVars => EntryInv'
<1> SUFFICES ASSUME EntryInv, [TimelineNext]_timelineVars PROVE EntryInv'
  OBVIOUS
<1>1. CASE UNCHANGED timelineVars
  BY <1>1 DEF timelineVars, EntryInv, Rows
<1>2. ASSUME NEW e \in Entries, Log(e) PROVE EntryInv'
  <2>1. PICK named \in Naming, kind \in {"", "note", "call"}, text \in Texts, actor \in Authors :
          Insert(e, named, resolveKind(kind), text, actor, kind = "")
    BY <1>2 DEF Log
  <2>2. resolveKind(kind) \in StoredKinds /\ (resolveKind(kind) = "system" <=> kind = "")
    BY DEF resolveKind, Kinds, StoredKinds
  <2> QED
    BY <2>1, <2>2, InsertKeeps
<1>3. ASSUME NEW e \in Entries, CreateEntry(e) PROVE EntryInv'
  <2>1. PICK named \in Naming, kind \in Kinds, text \in Texts, author \in Authors \cup {Blank} :
          Insert(e, named, kind, text, author, FALSE)
    BY <1>3 DEF CreateEntry
  <2>2. kind \in StoredKinds /\ kind # "system"
    BY <2>1 DEF Insert, Kinds
  <2> QED
    BY <2>1, <2>2, InsertKeeps
<1>4. ASSUME NEW e \in Entries, UpdateEntry(e) PROVE EntryInv'
  <2>1. PICK kind \in Kinds \cap StoredKinds, text \in Texts :
          entry' = [entry EXCEPT ![e].kind = kind, ![e].body = text]
    BY <1>4 DEF UpdateEntry
  <2>2. PICK new : new = [entry[e] EXCEPT !.kind = kind, !.body = text]
    OBVIOUS
  <2>3. e \in Rows /\ Sound(entry[e]) /\ entry[e].kind # "system" /\ kind # "system"
    BY <1>4 DEF UpdateEntry, Rows, EntryInv, Kinds
  <2>4. Sound(new)
    BY <2>2, <2>3 DEF Sound, EntryRows
  <2>5. entry' = [entry EXCEPT ![e] = new]
    BY <2>1, <2>2 DEF EntryInv
  <2> QED
    BY <2>4, <2>5 DEF EntryInv, Rows, Sound
<1>5. ASSUME NEW e \in Entries, DeleteEntry(e) PROVE EntryInv'
  BY <1>5 DEF DeleteEntry, EntryInv, Rows
<1> QED
  BY <1>1, <1>2, <1>3, <1>4, <1>5 DEF TimelineNext

LEMMA EntriesInvariance == TimelineSpec => []EntryInv
  BY InitEntryInv, EntriesInductive, PTL DEF TimelineSpec

(* The two reductions to one pair and the six filters agree.               *)
LEMMA OnOnePage == EntryInv => ShownOnOnePage
<1> SUFFICES ASSUME EntryInv, NEW e \in Rows, NEW t \in Subjects, NEW i \in Ids
             PROVE  LET asked == [u \in Subjects |-> IF u = t THEN i ELSE Blank]
                        Before(u) == \E p, q \in DOMAIN Order : p < q /\ Order[p] = u /\ Order[q] = t
                    IN e \in listEntries(asked)
                         <=> entry[e].named[t] = i /\ \A u \in Subjects : Before(u) => entry[e].named[u] = Blank
  BY DEF ShownOnOnePage
<1> DEFINE named == entry[e].named
           asked == [u \in Subjects |-> IF u = t THEN i ELSE Blank]
           Before(u) == \E p, q \in 1 .. 6 : p < q /\ Order[p] = u /\ Order[q] = t
<1>1. named \in Naming /\ Mentioned(named) # {} /\ entry[e].about = entityOf(named)
  BY DEF EntryInv, Sound, EntryRows
<1>2. PICK f \in 1 .. 6 :
        /\ named[Order[f]] # Blank
        /\ \A j \in 1 .. 6 : j < f => named[Order[j]] = Blank
        /\ entityOf(named) = [type |-> Order[f], id |-> named[Order[f]]]
  BY <1>1, FirstTable
<1>3. PICK k \in 1 .. 6 : Order[k] = t
  BY OrderOfTables DEF Subjects
<1>4. i # Blank
  BY TimelineAssumption
<1>5. e \in listEntries(asked) <=> entry[e].about = [type |-> t, id |-> i]
  BY <1>4 DEF listEntries
<1>6. entry[e].about = [type |-> t, id |-> i] <=> Order[f] = t /\ named[t] = i
  BY <1>1, <1>2
<1>7. \A j \in 1 .. 6 : Before(Order[j]) <=> j < k
  BY <1>3, OrderOfTables
<1>8. ASSUME Order[f] = t, NEW u \in Subjects, Before(u) PROVE named[u] = Blank
  BY <1>2, <1>8, OrderOfTables
<1>9. ASSUME named[t] = i, \A u \in Subjects : Before(u) => named[u] = Blank
      PROVE  Order[f] = t
  <2>1. ~ (k < f)
    BY <1>2, <1>3, <1>4, <1>9
  <2>2. ~ (f < k)
    BY <1>2, <1>3, <1>7, <1>9, OrderOfTables
  <2> QED
    BY <1>3, <2>1, <2>2
<1>10. e \in listEntries(asked) <=> named[t] = i /\ \A u \in Subjects : Before(u) => named[u] = Blank
  BY <1>5, <1>6, <1>8, <1>9
<1> QED
  BY <1>10, OrderOfTables

LEMMA OwnLabels == EntryInv => LabelsAreItsOwn
<1> SUFFICES ASSUME EntryInv, NEW e \in Rows, NEW r \in labels(e) \cup recent(e)
             PROVE  r = <<entry[e].about.type, entry[e].about.id>>
  BY DEF LabelsAreItsOwn
<1>1. r \in Subjects \X Ids /\ entry[e].about = [type |-> r[1], id |-> r[2]]
  BY TimelineAssumption DEF labels, recent, joined
<1> QED
  BY <1>1

LEMMA AppsStand == EntryInv /\ [TimelineNext]_timelineVars =>
  [\A e \in Entries :
       /\ entry[e] # Blank /\ entry[e].app => entry'[e] = entry[e]
       /\ entry'[e] # Blank => (entry'[e].kind = "system" <=> entry'[e].app)]_timelineVars
<1> SUFFICES ASSUME EntryInv, TimelineNext, NEW e \in Entries
             PROVE  /\ entry[e] # Blank /\ entry[e].app => entry'[e] = entry[e]
                    /\ entry'[e] # Blank => (entry'[e].kind = "system" <=> entry'[e].app)
  OBVIOUS
<1>1. entry'[e] # Blank => (entry'[e].kind = "system" <=> entry'[e].app)
  BY EntriesInductive DEF EntryInv, Rows, Sound
<1>2. ASSUME entry[e] # Blank, entry[e].app PROVE entry'[e] = entry[e]
  <2>1. entry[e].kind = "system"
    BY <1>2 DEF EntryInv, Rows, Sound
  <2> QED
    BY <1>2, <2>1, ZenonT(60) DEF EntryInv, TimelineNext, Log, CreateEntry, Insert, UpdateEntry, DeleteEntry
<1> QED
  BY <1>1, <1>2

(* A row is of a kind and about a table that the schema knows.             *)
THEOREM TimelineTypeCorrect == TimelineSpec => []TimelineTypeOK
<1>1. EntryInv => TimelineTypeOK
  BY DEF EntryInv, Sound, EntryRows, TimelineTypeOK
<1> QED
  BY <1>1, EntriesInvariance, PTL

(* Every entry is on one page, the one its writer named first, under its   *)
(* own label; and nobody edits, deletes or forges the app's.               *)
THEOREM EntriesRight == TimelineSpec => EntriesAreTrue
<1>1. EntryInv => ShownOnOnePage /\ LabelsAreItsOwn
  BY OnOnePage, OwnLabels
<1> QED
  BY <1>1, AppsStand, EntriesInvariance, PTL DEF TimelineSpec, EntriesAreTrue, RecordsOfTheAppStand

-----------------------------------------------------------------------------
(* Tasks.  A request that nothing has shaken since it came in knows that   *)
(* what it has looked up so far is still as it found it.                   *)
ActionRows ==
  [client : Clients \cup {Nil}, lead : Prospects \cup {Nil}, card : Cards \cup {Nil},
   who : Staff \cup {Nil}, status : Statuses, stamped : BOOLEAN]

ActionRequests ==
  [kind : {"file", "edit"}, at : Nat, id : Actions, by : {Nil}, form : Forms, shaken : BOOLEAN]

ItemRequests ==
  [kind : {"add", "tick"}, at : Nat, id : Items, by : Staff \cup {Nil}, form : ItemForms,
   shaken : BOOLEAN]

TasksTypes ==
  /\ members \subseteq Staff
  /\ action \in [Actions -> ActionRows \cup {Nil}]
  /\ item \in [Items -> ItemRows \cup {Nil}]
  /\ request \in [Senders -> {NoRequest} \cup ActionRequests \cup ItemRequests]
  /\ ticked \in [Items -> Staff \cup {Nil}]
  /\ \A i \in Actions : action[i] # Nil => (action[i].stamped <=> action[i].status = "done")

(* What x refers to is there, and its lead is its client's: all of it, or  *)
(* what the first n look-ups ask for.                                      *)
HoldsUpTo(n, x) ==
  /\ n > 1 => x.client \in alive \cup {Nil}
  /\ n > 2 => x.lead = Nil \/ (x.lead \in alive /\ Agree(x))
  /\ n > 3 => x.card \in alive \cup {Nil}
  /\ n > 4 => x.who \in members \cup {Nil}

RequestsKnow ==
  \A r \in Senders :
    request[r].kind \in {"file", "edit"} /\ ~ request[r].shaken =>
      HoldsUpTo(request[r].at, request[r].form)

ActionsKnow == \A i \in Actions : action[i] # Nil /\ i \notin unsure => HoldsUpTo(5, action[i])

ItemsKnow ==
  \A k \in Items :
    /\ item[k] \in ItemRows /\ ~ item[k].done => item[k].closer = Nil
    /\ ticked[k] # Nil => item[k] \in ItemRows /\ item[k].done /\ item[k].closer = ticked[k]

TasksInv == TasksTypes /\ RequestsKnow /\ ActionsKnow /\ ItemsKnow

LEMMA InitTasksInv == TasksInit => TasksInv
<1> SUFFICES ASSUME TasksInit PROVE TasksInv
  OBVIOUS
<1> USE TasksAssumption DEF TasksInit
<1>1. \A d \in Cards : Legacy(d) \in ItemRows /\ Legacy(d).done
  BY DEF Legacy, ItemRows
<1>2. TasksTypes
  BY <1>1 DEF TasksTypes
<1>3. RequestsKnow
  BY DEF RequestsKnow, NoRequest
<1>4. ItemsKnow
  BY <1>1 DEF ItemsKnow
<1> QED
  BY <1>2, <1>3, <1>4 DEF TasksInv, ActionsKnow

(* A client, lead or deal is retired, a lead moves, a member leaves: who   *)
(* refers to it is marked.                                                 *)
LEMMA ShakeKeeps ==
  ASSUME TasksInv, NEW x, Shake(x), UNCHANGED <<action, item, ticked>>, members' \subseteq members,
         \A y \in alive : y # x => y \in alive',
         \A y \in members : y # x => y \in members',
         \A l \in Prospects : l # x => home'[l] = home[l]
  PROVE  TasksInv'
<1> USE TasksAssumption DEF TasksInv
<1>1. ASSUME NEW n \in Nat, NEW y \in Forms \cup ActionRows, HoldsUpTo(n, y), ~ RefersTo(y, x)
      PROVE  HoldsUpTo(n, y)'
  BY <1>1 DEF HoldsUpTo, RefersTo, Agree, ActionRows
<1>2. ASSUME NEW r \in Senders
      PROVE  /\ request'[r] \in {NoRequest} \cup ActionRequests \cup ItemRequests
             /\ request'[r].kind = request[r].kind
             /\ request[r].kind \in {"file", "edit"} /\ ~ request'[r].shaken =>
                  /\ ~ request[r].shaken /\ request'[r] = request[r]
                  /\ ~ RefersTo(request[r].form, x) /\ request[r] \in ActionRequests
  <2>1. CASE request[r].kind \in {"file", "edit"} /\ RefersTo(request[r].form, x)
    <3>1. request'[r] = [request[r] EXCEPT !.shaken = TRUE]
      BY <2>1 DEF Shake
    <3>2. request[r] \in ActionRequests
      BY <2>1 DEF TasksTypes, NoRequest, ItemRequests
    <3> QED
      BY <3>1, <3>2 DEF ActionRequests
  <2>2. CASE ~ (request[r].kind \in {"file", "edit"} /\ RefersTo(request[r].form, x))
    <3>1. request'[r] = request[r]
      BY <2>2 DEF Shake
    <3> QED
      BY <2>2, <3>1 DEF TasksTypes, NoRequest, ItemRequests
  <2> QED
    BY <2>1, <2>2
<1>3. TasksTypes'
  BY <1>2 DEF TasksTypes, Shake
<1>4. RequestsKnow'
  BY <1>1, <1>2 DEF RequestsKnow, ActionRequests
<1>5. ActionsKnow'
  BY <1>1 DEF ActionsKnow, Shake, TasksTypes
<1>6. ItemsKnow'
  BY DEF ItemsKnow
<1> QED
  BY <1>3, <1>4, <1>5, <1>6

(* A request comes in, goes on or ends as q, and the tables stay.          *)
LEMMA RequestGoesOn ==
  ASSUME TasksInv, NEW r \in Senders, NEW q \in {NoRequest} \cup ActionRequests \cup ItemRequests,
         request' = [request EXCEPT ![r] = q],
         q \in ActionRequests /\ ~ q.shaken => HoldsUpTo(q.at, q.form),
         UNCHANGED <<alive, home, members, action, item, unsure, ticked>>
  PROVE  TasksInv'
<1> USE DEF TasksInv
<1>1. TasksTypes'
  BY DEF TasksTypes
<1>2. \A n, y : HoldsUpTo(n, y)' = HoldsUpTo(n, y)
  BY DEF HoldsUpTo, Agree
<1>3. q.kind \in {"file", "edit"} => q \in ActionRequests
  BY DEF NoRequest, ItemRequests
<1>4. RequestsKnow'
  BY <1>2, <1>3 DEF RequestsKnow, TasksTypes
<1>5. ActionsKnow' /\ ItemsKnow'
  BY <1>2 DEF ActionsKnow, ItemsKnow
<1> QED
  BY <1>1, <1>4, <1>5

LEMMA BeginRequestKeeps ==
  ASSUME TasksInv, NEW r \in Senders, NEW kind, NEW id, NEW by, NEW form,
         \/ kind \in {"file", "edit"} /\ id \in Actions /\ by = Nil /\ form \in Forms
         \/ kind \in {"add", "tick"} /\ id \in Items /\ by \in Staff \cup {Nil} /\ form \in ItemForms,
         BeginRequest(r, kind, id, by, form)
  PROVE  TasksInv'
<1>1. PICK q : q = [kind |-> kind, at |-> 1, id |-> id, by |-> by, form |-> form, shaken |-> FALSE]
  OBVIOUS
<1>2. q \in ActionRequests \cup ItemRequests /\ HoldsUpTo(q.at, q.form)
  BY <1>1 DEF ActionRequests, ItemRequests, HoldsUpTo
<1> QED
  BY <1>1, <1>2, RequestGoesOn DEF BeginRequest

LEMMA LookUpNextKeeps ==
  ASSUME TasksInv, NEW r \in Senders, LookUpNext(r)
  PROVE  TasksInv'
<1> DEFINE me == request[r]
           ks == LookUps(me.kind)
<1>1. /\ me # NoRequest /\ me.at <= Len(ks)
      /\ Finds(r, ks[me.at]) => request' = [request EXCEPT ![r] = [me EXCEPT !.at = me.at + 1]]
      /\ ~ Finds(r, ks[me.at]) => request' = [request EXCEPT ![r] = NoRequest]
      /\ UNCHANGED <<alive, home, members, action, item, unsure, ticked>>
  BY DEF LookUpNext, Done
<1>2. me \in ActionRequests \cup ItemRequests
  BY <1>1 DEF TasksInv, TasksTypes
<1>3. CASE Finds(r, ks[me.at])
  <2>1. PICK q : q = [me EXCEPT !.at = me.at + 1]
    OBVIOUS
  <2>2. /\ q \in ActionRequests \cup ItemRequests /\ q.at = me.at + 1 /\ q.form = me.form
        /\ q.shaken = me.shaken /\ q.kind = me.kind
    BY <1>2, <2>1 DEF ActionRequests, ItemRequests
  <2>3. request' = [request EXCEPT ![r] = q]
    BY <1>1, <1>3, <2>1
  <2>4. ASSUME q \in ActionRequests, ~ q.shaken
        PROVE  HoldsUpTo(q.at, q.form)
    <3>1. me.kind \in {"file", "edit"} /\ me.at \in Nat /\ HoldsUpTo(me.at, me.form)
      BY <1>2, <2>2, <2>4 DEF TasksInv, RequestsKnow, ActionRequests, ItemRequests
    <3>2. ks = <<"client", "lead", "card", "who">>
      BY <3>1 DEF LookUps
    <3>3. me.at \in 0 .. 4
      BY <1>1, <3>1, <3>2
    <3>4. /\ me.at = 1 => ks[me.at] = "client"
          /\ me.at = 2 => ks[me.at] = "lead"
          /\ me.at = 3 => ks[me.at] = "card"
          /\ me.at = 4 => ks[me.at] = "who"
      BY <3>2
    <3> HIDE DEF ks
    <3> QED
      BY <1>3, <2>2, <3>1, <3>3, <3>4 DEF HoldsUpTo, Finds
  <2> QED
    BY <1>1, <2>2, <2>3, <2>4, RequestGoesOn
<1>4. CASE ~ Finds(r, ks[me.at])
  <2>1. request' = [request EXCEPT ![r] = NoRequest]
    BY <1>1, <1>4
  <2>2. NoRequest \notin ActionRequests
    BY DEF NoRequest, ActionRequests
  <2> QED
    BY <1>1, <2>1, <2>2, RequestGoesOn
<1> QED
  BY <1>3, <1>4

(* What a request that has looked everything up writes down.               *)
LEMMA WrittenAction ==
  ASSUME TasksInv, NEW r \in Senders, NEW kind \in {"file", "edit"}, Checked(r, kind),
         NEW status \in Statuses, kind = "file" => status = "open",
         NEW new, new = Row(request[r].form, status)
  PROVE  /\ request[r] \in ActionRequests /\ request[r].id \in Actions
         /\ new \in ActionRows /\ (new.stamped <=> new.status = "done")
         /\ ~ request[r].shaken => HoldsUpTo(5, new)
<1>1. request[r].kind = kind /\ request[r].at > Len(LookUps(kind))
  BY DEF Checked
<1>2. request[r] \in ActionRequests
  BY <1>1 DEF TasksInv, TasksTypes, NoRequest, ItemRequests
<1>3. LookUps(kind) = <<"client", "lead", "card", "who">>
  BY DEF LookUps
<1>4. request[r].at \in Nat /\ request[r].at > 4
  BY <1>1, <1>2, <1>3 DEF ActionRequests
<1>5. new \in ActionRows /\ (new.stamped <=> new.status = "done")
  BY <1>2, TasksAssumption DEF Row, ActionRequests, ActionRows
<1>6. /\ new.client = request[r].form.client /\ new.lead = request[r].form.lead
      /\ new.card = request[r].form.card /\ new.who = request[r].form.who
  BY DEF Row
<1>7. ~ request[r].shaken => HoldsUpTo(request[r].at, request[r].form)
  BY <1>1 DEF TasksInv, RequestsKnow
<1>8. ~ request[r].shaken => HoldsUpTo(5, new)
  BY <1>4, <1>6, <1>7 DEF HoldsUpTo, Agree
<1> QED
  BY <1>2, <1>5, <1>8 DEF ActionRequests

(* An action is filed or edited, and its request is done.                  *)
LEMMA WriteKeeps ==
  ASSUME TasksInv, NEW r \in Senders, request[r] \in ActionRequests, NEW new \in ActionRows,
         new.stamped <=> new.status = "done",
         ~ request[r].shaken => HoldsUpTo(5, new),
         action' = [action EXCEPT ![request[r].id] = new], NoteUnsure(r), Done(r),
         UNCHANGED <<alive, home, members, item, ticked>>
  PROVE  TasksInv'
<1> USE DEF TasksInv, Done
<1>1. request[r].id \in Actions
  BY DEF ActionRequests
<1>2. TasksTypes'
  BY <1>1 DEF TasksTypes
<1>3. \A n, y : HoldsUpTo(n, y)' = HoldsUpTo(n, y)
  BY DEF HoldsUpTo, Agree
<1>4. RequestsKnow'
  BY <1>3 DEF RequestsKnow, TasksTypes, NoRequest
<1>5. ActionsKnow'
  <2> SUFFICES ASSUME NEW i \in Actions, action'[i] # Nil, i \notin unsure'
               PROVE  HoldsUpTo(5, action'[i])
    BY <1>3 DEF ActionsKnow
  <2>1. CASE i = request[r].id
    BY <1>1, <2>1 DEF NoteUnsure, TasksTypes
  <2>2. CASE i # request[r].id
    BY <1>1, <2>2 DEF NoteUnsure, TasksTypes, ActionsKnow
  <2> QED
    BY <2>1, <2>2
<1>6. ItemsKnow'
  BY DEF ItemsKnow
<1> QED
  BY <1>2, <1>4, <1>5, <1>6

(* What is done to an action outside of these requests.                    *)
LEMMA CompleteKeeps ==
  ASSUME TasksInv, NEW i \in Actions, CompleteAction(i) \/ DeleteAction(i)
  PROVE  TasksInv'
<1> USE DEF TasksInv
<1>1. \A n, y : HoldsUpTo(n, y)' = HoldsUpTo(n, y)
  BY DEF HoldsUpTo, Agree, CompleteAction, DeleteAction
<1>2. RequestsKnow' /\ ItemsKnow'
  BY <1>1 DEF RequestsKnow, ItemsKnow, CompleteAction, DeleteAction
<1>3. CASE CompleteAction(i)
  <2>1. PICK new : new = [action[i] EXCEPT !.status = "done", !.stamped = TRUE]
    OBVIOUS
  <2>2. action[i] \in ActionRows /\ action[i] # Nil
    BY <1>3 DEF CompleteAction, TasksTypes
  <2>3. /\ new \in ActionRows /\ new.stamped /\ new.status = "done"
        /\ new.client = action[i].client /\ new.lead = action[i].lead
        /\ new.card = action[i].card /\ new.who = action[i].who
    BY <2>1, <2>2 DEF ActionRows, Statuses
  <2>4. action' = [action EXCEPT ![i] = new]
    BY <1>3, <2>1 DEF CompleteAction, Completed
  <2>5. HoldsUpTo(5, action[i]) => HoldsUpTo(5, new)
    BY <2>3 DEF HoldsUpTo, Agree
  <2>6. UNCHANGED <<alive, home, members, item, request, unsure, ticked>>
    BY <1>3 DEF CompleteAction
  <2>7. TasksTypes'
    BY <2>3, <2>4, <2>6 DEF TasksTypes
  <2>8. ActionsKnow'
    BY <1>1, <2>2, <2>4, <2>5, <2>6 DEF ActionsKnow, TasksTypes
  <2> QED
    BY <1>2, <2>7, <2>8
<1>4. CASE DeleteAction(i)
  BY <1>1, <1>2, <1>4 DEF DeleteAction, TasksTypes, ActionsKnow
<1> QED
  BY <1>3, <1>4

(* Items.                                                                  *)
LEMMA ItemStepKeeps ==
  ASSUME TasksInv, TasksTypes', ItemsKnow',
         UNCHANGED <<alive, home, members, action, unsure>>,
         \A r \in Senders : request'[r] \in {request[r], NoRequest}
  PROVE  TasksInv'
<1> USE DEF TasksInv
<1>1. \A n, y : HoldsUpTo(n, y)' = HoldsUpTo(n, y)
  BY DEF HoldsUpTo, Agree
<1> QED
  BY <1>1 DEF RequestsKnow, ActionsKnow, NoRequest

LEMMA AddItemKeeps ==
  ASSUME TasksInv, NEW r \in Senders, AddItem(r)
  PROVE  TasksInv'
<1> USE TasksAssumption
<1>1. request[r].kind = "add" /\ item[request[r].id] = Nil /\ Done(r)
  BY DEF AddItem, Checked
<1>2. request[r] \in ItemRequests
  BY <1>1 DEF TasksInv, TasksTypes, NoRequest, ActionRequests
<1>3. PICK k \in Items : k = request[r].id
  BY <1>2 DEF ItemRequests
<1>4. PICK new : new = [card |-> request[r].form.card, who |-> request[r].form.who,
                        done |-> FALSE, closer |-> Nil]
  OBVIOUS
<1>5. new \in ItemRows /\ ~ new.done /\ new.closer = Nil
  BY <1>2, <1>4 DEF ItemRequests, ItemRows
<1>6. item' = [item EXCEPT ![k] = new] /\ ticked' = ticked
  BY <1>3, <1>4 DEF AddItem
<1>7. ticked[k] = Nil
  BY <1>1, <1>3 DEF TasksInv, ItemsKnow
<1>8. UNCHANGED <<alive, home, members, action, unsure>>
  BY DEF AddItem
<1>9. request' = [request EXCEPT ![r] = NoRequest]
  BY <1>1 DEF Done
<1>10. TasksTypes'
  BY <1>5, <1>6, <1>8, <1>9 DEF TasksInv, TasksTypes
<1>11. ItemsKnow'
  BY <1>5, <1>6, <1>7 DEF TasksInv, TasksTypes, ItemsKnow
<1> QED
  BY <1>8, <1>9, <1>10, <1>11, ItemStepKeeps DEF TasksInv, TasksTypes

LEMMA EditItemKeeps ==
  ASSUME TasksInv, NEW r \in Senders, EditItem(r)
  PROVE  TasksInv'
<1> USE TasksAssumption
<1>1. request[r].kind = "tick" /\ item[request[r].id] # Nil /\ Done(r)
  BY DEF EditItem, Checked
<1>2. request[r] \in ItemRequests
  BY <1>1 DEF TasksInv, TasksTypes, NoRequest, ActionRequests
<1>3. PICK k \in Items : k = request[r].id
  BY <1>2 DEF ItemRequests
<1> DEFINE form == request[r].form
           by == request[r].by
<1>4. PICK new : new = [item[k] EXCEPT !.who = form.who, !.done = form.done,
                                       !.closer = Closer(item[k].closer, form, by)]
  OBVIOUS
<1>5. item[k] \in ItemRows /\ form.done \in BOOLEAN /\ by \in Staff \cup {Nil}
      /\ form.who \in Staff \cup {Nil}
  BY <1>1, <1>2, <1>3 DEF TasksInv, TasksTypes, ItemRequests
<1>6. /\ new \in ItemRows /\ new.done = form.done
      /\ new.closer = Closer(item[k].closer, form, by)
  BY <1>4, <1>5 DEF ItemRows, Closer
<1>7. item' = [item EXCEPT ![k] = new]
  BY <1>3, <1>4 DEF EditItem
<1>8. ticked' = [ticked EXCEPT ![k] =
        IF ~ form.done THEN Nil ELSE IF item[k].done THEN ticked[k] ELSE by]
  BY <1>3 DEF EditItem
<1>9. UNCHANGED <<alive, home, members, action, unsure>>
  BY DEF EditItem
<1>10. request' = [request EXCEPT ![r] = NoRequest]
  BY <1>1 DEF Done
<1>11. TasksTypes'
  BY <1>5, <1>6, <1>7, <1>8, <1>9, <1>10 DEF TasksInv, TasksTypes
<1>12. ASSUME ticked'[k] # Nil PROVE new.done /\ new.closer = ticked'[k]
  <2>1. form.done /\ new.done /\ ticked'[k] = IF item[k].done THEN ticked[k] ELSE by
    BY <1>6, <1>8, <1>12 DEF TasksInv, TasksTypes
  <2>2. CASE item[k].done
    BY <1>6, <1>12, <2>1, <2>2 DEF TasksInv, ItemsKnow, Closer
  <2>3. CASE ~ item[k].done
    BY <1>5, <1>6, <2>1, <2>3 DEF TasksInv, ItemsKnow, Closer
  <2> QED
    BY <2>1, <2>2, <2>3
<1>13. ~ new.done => new.closer = Nil
  BY <1>6 DEF Closer
<1>14. item'[k] = new
  BY <1>7 DEF TasksInv, TasksTypes
<1>15. ItemsKnow'
  <2> SUFFICES ASSUME NEW j \in Items
               PROVE  /\ item'[j] \in ItemRows /\ ~ item'[j].done => item'[j].closer = Nil
                      /\ ticked'[j] # Nil => /\ item'[j] \in ItemRows /\ item'[j].done
                                             /\ item'[j].closer = ticked'[j]
    BY DEF ItemsKnow
  <2>1. CASE j = k
    BY <1>6, <1>12, <1>13, <1>14, <2>1
  <2>2. CASE j # k
    BY <1>7, <1>8, <2>2 DEF TasksInv, TasksTypes, ItemsKnow
  <2> QED
    BY <2>1, <2>2
<1> QED
  BY <1>9, <1>10, <1>11, <1>15, ItemStepKeeps DEF TasksInv, TasksTypes

LEMMA DeleteItemKeeps ==
  ASSUME TasksInv, NEW k \in Items, DeleteItem(k)
  PROVE  TasksInv'
<1> USE TasksAssumption DEF DeleteItem
<1>1. TasksTypes'
  BY DEF TasksInv, TasksTypes
<1>2. ItemsKnow'
  BY DEF TasksInv, TasksTypes, ItemsKnow
<1> QED
  BY <1>1, <1>2, ItemStepKeeps DEF TasksInv

LEMMA TasksInductive == TasksInv /\ [TasksNext]_taskVars => TasksInv'
<1> SUFFICES ASSUME TasksInv, [TasksNext]_taskVars PROVE TasksInv'
  OBVIOUS
<1> USE TasksAssumption
<1>1. ASSUME NEW x, RetireReferent(x) PROVE TasksInv'
  BY <1>1, ShakeKeeps DEF RetireReferent
<1>2. ASSUME NEW l \in Prospects, NEW c, RehomeLead(l, c) PROVE TasksInv'
  <2>1. \A m \in Prospects : m # l => home'[m] = home[m]
    BY <1>2 DEF RehomeLead
  <2> QED
    BY <1>2, <2>1, ShakeKeeps DEF RehomeLead
<1>3. ASSUME NEW p \in Staff, LeaveOrg(p) PROVE TasksInv'
  BY <1>3, ShakeKeeps DEF LeaveOrg
<1>4. ASSUME NEW r \in Senders, NEW i \in Actions, NEW form \in Forms, NEW kind \in {"file", "edit"},
             BeginRequest(r, kind, i, Nil, form)
      PROVE  TasksInv'
  BY <1>4, BeginRequestKeeps
<1>5. ASSUME NEW r \in Senders, NEW k \in Items, NEW form \in ItemForms,
             \/ BeginRequest(r, "add", k, Nil, form)
             \/ \E p \in members : BeginRequest(r, "tick", k, p, form)
      PROVE  TasksInv'
  <2>1. members \subseteq Staff
    BY DEF TasksInv, TasksTypes
  <2> QED
    BY <1>5, <2>1, BeginRequestKeeps
<1>6. ASSUME NEW r \in Senders, FileAction(r) PROVE TasksInv'
  <2>1. PICK new : new = Row(request[r].form, "open")
    OBVIOUS
  <2>2. action' = [action EXCEPT ![request[r].id] = new]
    BY <1>6, <2>1 DEF FileAction
  <2>3. "open" \in Statuses /\ Checked(r, "file")
    BY <1>6 DEF FileAction, Statuses
  <2>4. /\ request[r] \in ActionRequests
        /\ new \in ActionRows /\ (new.stamped <=> new.status = "done")
        /\ ~ request[r].shaken => HoldsUpTo(5, new)
    BY <2>1, <2>3, WrittenAction
  <2> QED
    BY <1>6, <2>2, <2>4, WriteKeeps DEF FileAction
<1>7. ASSUME NEW r \in Senders, EditAction(r) PROVE TasksInv'
  <2>1. PICK new : new = Row(request[r].form, request[r].form.status)
    OBVIOUS
  <2>2. action' = [action EXCEPT ![request[r].id] = new]
    BY <1>7, <2>1 DEF EditAction
  <2>3. Checked(r, "edit") /\ request[r].form.status \in Statuses
    <3>1. request[r].kind = "edit"
      BY <1>7 DEF EditAction, Checked
    <3>2. request[r] \in ActionRequests
      BY <3>1 DEF TasksInv, TasksTypes, NoRequest, ItemRequests
    <3> QED
      BY <1>7, <3>2 DEF EditAction, ActionRequests
  <2>4. /\ request[r] \in ActionRequests
        /\ new \in ActionRows /\ (new.stamped <=> new.status = "done")
        /\ ~ request[r].shaken => HoldsUpTo(5, new)
    BY <2>1, <2>3, WrittenAction
  <2> QED
    BY <1>7, <2>2, <2>4, WriteKeeps DEF EditAction
<1>8. ASSUME NEW r \in Senders, NotFound(r) PROVE TasksInv'
  <2>1. NoRequest \notin ActionRequests
    BY DEF NoRequest, ActionRequests
  <2> QED
    BY <1>8, <2>1, RequestGoesOn DEF NotFound, Done
<1>9. CASE UNCHANGED taskVars
  <2>1. \A n, y : HoldsUpTo(n, y)' = HoldsUpTo(n, y)
    BY <1>9 DEF taskVars, HoldsUpTo, Agree
  <2> QED
    BY <1>9, <2>1 DEF taskVars, TasksInv, TasksTypes, RequestsKnow, ActionsKnow, ItemsKnow
<1> QED
  BY <1>1, <1>2, <1>3, <1>4, <1>5, <1>6, <1>7, <1>8, <1>9, LookUpNextKeeps, AddItemKeeps, EditItemKeeps,
     CompleteKeeps, DeleteItemKeeps DEF TasksNext

LEMMA TasksInvariance == TasksSpec => []TasksInv
  BY InitTasksInv, TasksInductive, PTL DEF TasksSpec

(* Every action is of the types of its table, and stamped exactly while it *)
(* is done (the statements of followups).                                  *)
THEOREM TasksTypeCorrect == TasksSpec => []TasksTypeOK
<1>1. TasksInv => TasksTypeOK
  BY DEF TasksInv, TasksTypes, TasksTypeOK, ActionRows
<1> QED
  BY <1>1, TasksInvariance, PTL

(* An action refers to live rows and to members, and to a lead of its own  *)
(* client, unless something it refers to changed after its request came in *)
(* (followups.prepare, leadAccount); the closer of an item is whoever      *)
(* turned it done (dealtasks.update).                                      *)
THEOREM TasksRight == TasksSpec => []TasksAgree
<1>1. TasksInv => ActionsAgreeWithTheirLeads
  BY TasksAssumption DEF TasksInv, ActionsKnow, ActionsAgreeWithTheirLeads, HoldsUpTo, Agree
<1>2. TasksInv => CloserIsWhoTicked
  BY TasksAssumption DEF TasksInv, TasksTypes, ItemsKnow, CloserIsWhoTicked, ItemRows
<1> QED
  BY <1>1, <1>2, TasksInvariance, PTL DEF TasksAgree

-----------------------------------------------------------------------------
(* Companies.  What each kind of call that takes several statements knows  *)
(* of the tables.  First the two about names: a save that met no other one *)
(* has the name of its company, and a conversion that is to make a company *)
(* found none of that name.                                                *)
CallRows ==
  [kind : {"idle", "delete", "retire", "read", "save", "convert"},
   a : Accounts \cup {Unset}, n : Names \cup {Unset}, at : Nat,
   taken : SUBSET Records, swept : SUBSET (Records \cup Accounts)]

SaveKnows(q) ==
  q.kind = "save" =>
    /\ q.a \in Accounts /\ Exists(q.a) /\ q.n \in Names
    /\ q.a \notin mixed => q.n = acct[q.a].name

ConvertKnows(q) ==
  q.kind = "convert" => q.a \in Accounts /\ q.n \in Names /\ (Exists(q.a) \/ q.swept = {})

NamesInv ==
  /\ acct \in [Accounts -> [name : Names \cup {Unset}, dead : BOOLEAN, profile : Names \cup {Unset}]]
  /\ \A a \in Accounts : ~ Exists(a) => ~ acct[a].dead /\ acct[a].profile = Unset
  /\ \A c \in Callers : SaveKnows(call[c]) /\ ConvertKnows(call[c])
  /\ TwinsComeFromRaces /\ SavedTogether

(* A deletion holds live records of its company, all of the tables it has  *)
(* been through and all the tracker lines, but for what came late; a read  *)
(* has listed what stands of the sections it has been through.             *)
DeleteKnows(q) ==
  q.kind = "delete" =>
    /\ q.a \in Accounts /\ Live(q.a)
    /\ \A r \in q.taken : rec[r].acct = q.a /\ ~ rec[r].dead
    /\ \A r \in LiveUnder(q.a) :
         (\E j \in 1 .. 5 : j < q.at /\ Table[r] = Tables[j]) => r \in q.taken \cup late
    /\ q.at > 0 => \A r \in row : rec[r].acct = q.a => r \in q.swept \cup late

ReadKnows(q) ==
  q.kind = "read" =>
    /\ q.a \in Accounts
    /\ \A r \in q.swept : r \in Records /\ rec[r].acct = q.a /\ ~ rec[r].dead
    /\ \A r \in q.swept : (\E j \in 1 .. 5 : j < q.at /\ Table[r] = Sections[j]) => r \in q.taken

RetireKnows(q) == q.kind = "retire" => q.taken \subseteq DealRecords

CallKnows(q) == DeleteKnows(q) /\ ReadKnows(q) /\ RetireKnows(q)

Holds(q) == q.kind \in {"delete", "retire"}

Apart(p, q) ==
  Holds(p) /\ Holds(q) =>
    p.taken \cap q.taken = {} /\ (p.kind = "delete" /\ q.kind = "delete" => p.a # q.a)

RecordsInv ==
  /\ call \in [Callers -> CallRows]
  /\ rec \in [Records -> [acct : Accounts \cup {Unset}, dead : BOOLEAN]]
  /\ row \subseteq DealRecords /\ \A r \in row : rec[r].acct # Unset
  /\ \A c \in Callers : CallKnows(call[c])
  /\ \A b, c \in Callers : b # c => Apart(call[b], call[c])
  /\ DeletionTakesEverything /\ RetiredDealsLeaveNoLine

CompaniesInv == NamesInv /\ RecordsInv

LEMMA InitCompaniesInv == CompaniesInit => CompaniesInv
<1> SUFFICES ASSUME CompaniesInit PROVE CompaniesInv
  OBVIOUS
<1> USE CompaniesAssumption DEF CompaniesInit, NoCall
<1>1. NamesInv
  BY DEF NamesInv, Exists, Live, SaveKnows, ConvertKnows, TwinsComeFromRaces, SavedTogether
<1>2. RecordsInv
  BY DEF RecordsInv, CallRows, CallKnows, DeleteKnows, ReadKnows, RetireKnows, Apart, Holds,
         DeletionTakesEverything, RetiredDealsLeaveNoLine
<1> QED
  BY <1>1, <1>2 DEF CompaniesInv

LEMMA AllTables ==
  /\ Len(Tables) = 5 /\ Len(Sections) = 5
  /\ \A r \in Records : \E j \in 1 .. 5 : Table[r] = Tables[j]
  /\ \A r \in Records : \E j \in 1 .. 5 : Table[r] = Sections[j]
<1>1. /\ Tables[1] = "contacts" /\ Tables[2] = "leads" /\ Tables[3] = "deals"
      /\ Tables[4] = "quotes" /\ Tables[5] = "invoices" /\ Len(Tables) = 5
  BY DEF Tables
<1>2. /\ Sections[1] = "deals" /\ Sections[2] = "quotes" /\ Sections[3] = "invoices"
      /\ Sections[4] = "contacts" /\ Sections[5] = "leads" /\ Len(Sections) = 5
  BY DEF Sections
<1>3. \A r \in Records : Table[r] \in {"contacts", "leads", "deals", "quotes", "invoices"}
  BY CompaniesAssumption
<1> QED
  BY <1>1, <1>2, <1>3

(* Touch takes records away from the reads and leaves the other calls.     *)
LEMMA TouchEffect ==
  ASSUME call \in [Callers -> CallRows], NEW rs, NEW calls, calls = Touch(call, rs)
  PROVE  /\ calls \in [Callers -> CallRows]
         /\ \A c \in Callers :
              /\ calls[c].kind = call[c].kind /\ calls[c].a = call[c].a /\ calls[c].n = call[c].n
              /\ calls[c].at = call[c].at /\ calls[c].taken = call[c].taken
              /\ call[c].kind # "read" => calls[c] = call[c]
              /\ call[c].kind = "read" => calls[c].swept = call[c].swept \ rs
<1>1. ASSUME NEW c \in Callers
      PROVE  /\ calls[c] \in CallRows
             /\ calls[c].kind = call[c].kind /\ calls[c].a = call[c].a /\ calls[c].n = call[c].n
             /\ calls[c].at = call[c].at /\ calls[c].taken = call[c].taken
             /\ call[c].kind # "read" => calls[c] = call[c]
             /\ call[c].kind = "read" => calls[c].swept = call[c].swept \ rs
  <2>1. CASE call[c].kind = "read"
    <3>1. calls[c] = [call[c] EXCEPT !.swept = call[c].swept \ rs]
      BY <2>1 DEF Touch
    <3> QED
      BY <2>1, <3>1 DEF CallRows
  <2>2. CASE call[c].kind # "read"
    BY <2>2 DEF Touch
  <2> QED
    BY <2>1, <2>2
<1>2. calls \in [Callers -> CallRows]
  BY <1>1 DEF Touch
<1> QED
  BY <1>1, <1>2

(* No name, no profile, and no save or conversion but one that is over.    *)
LEMMA NamesStay ==
  ASSUME CompaniesInv, UNCHANGED <<acct, mixed, twin>>,
         \A c \in Callers : call'[c].kind \in {"save", "convert"} => call'[c] = call[c],
         \A c \in Callers : call[c].kind = "save" => call'[c] = call[c]
  PROVE  NamesInv'
<1> USE DEF CompaniesInv, NamesInv
<1>1. \A a : /\ Exists(a)' = Exists(a) /\ Live(a)' = Live(a)
             /\ Saving(a) => Saving(a)'
  BY DEF Exists, Live, Saving
<1>2. ASSUME NEW c \in Callers PROVE SaveKnows(call[c])' /\ ConvertKnows(call[c])'
  BY <1>1 DEF SaveKnows, ConvertKnows
<1> QED
  BY <1>1, <1>2 DEF TwinsComeFromRaces, SavedTogether

(* Records stay, and so do the deletions, retirements and reads that are   *)
(* not over; companies stay, under whatever name.                          *)
LEMMA RecordsStay ==
  ASSUME CompaniesInv, UNCHANGED <<rec, row, late>>, call' \in [Callers -> CallRows],
         \A c \in Callers : call'[c].kind \in {"delete", "retire", "read"} => call'[c] = call[c],
         \A a \in Accounts : acct'[a].dead = acct[a].dead /\ (Exists(a) => Exists(a)')
  PROVE  RecordsInv'
<1> USE DEF CompaniesInv, RecordsInv
<1>1. \A a : LiveUnder(a)' = LiveUnder(a)
  BY DEF LiveUnder
<1>2. ASSUME NEW c \in Callers PROVE CallKnows(call[c])'
  BY <1>1 DEF CallKnows, DeleteKnows, ReadKnows, RetireKnows, Live
<1>3. ASSUME NEW b \in Callers, NEW c \in Callers, b # c PROVE Apart(call'[b], call'[c])
  BY <1>3 DEF Apart, Holds
<1> QED
  BY <1>1, <1>2, <1>3 DEF DeletionTakesEverything, RetiredDealsLeaveNoLine

(* One call goes on and nothing else changes.                              *)
LEMMA CallGoesOn ==
  ASSUME CompaniesInv, NEW c \in Callers, NEW q \in CallRows,
         call' = [call EXCEPT ![c] = q], CallKnows(q),
         \A b \in Callers : b # c => Apart(call[b], q) /\ Apart(q, call[b]),
         call[c].kind # "save", q.kind \notin {"save", "convert"},
         UNCHANGED <<acct, rec, row, history>>
  PROVE  CompaniesInv'
<1>1. call \in [Callers -> CallRows]
  BY DEF CompaniesInv, RecordsInv
<1>2. NamesInv'
  BY <1>1, NamesStay DEF history
<1>3. \A a : LiveUnder(a)' = LiveUnder(a) /\ Live(a)' = Live(a)
  BY DEF LiveUnder, Live, Exists
<1>4. \A p : CallKnows(p)' = CallKnows(p)
  BY <1>3 DEF CallKnows, DeleteKnows, ReadKnows, RetireKnows, history
<1>5. RecordsInv'
  BY <1>1, <1>3, <1>4
  DEF CompaniesInv, RecordsInv, DeletionTakesEverything, RetiredDealsLeaveNoLine, history
<1> QED
  BY <1>2, <1>5 DEF CompaniesInv

(* The calls go on while the records rs change: a deletion has not taken any *)
(* of them, a read leaves them out of what it has seen.                     *)
CallsFollow(rs) ==
  /\ call' \in [Callers -> CallRows]
  /\ \A c \in Callers : call'[c].kind = "delete" => call'[c].taken \cap rs = {}
  /\ \A c \in Callers : call'[c].kind \in {"delete", "retire", "read"} =>
       /\ call'[c].kind = call[c].kind /\ call'[c].a = call[c].a /\ call'[c].at = call[c].at
       /\ call'[c].taken = call[c].taken
       /\ call[c].kind # "read" => call'[c].swept = call[c].swept
       /\ call[c].kind = "read" => call'[c].swept \subseteq call[c].swept \ rs

(* No record but those of rs changes; one of rs that is filed under a       *)
(* company being deleted comes late or is dead and has no line.             *)
RecordsFollow(rs) ==
  /\ rec' \in [Records -> [acct : Accounts \cup {Unset}, dead : BOOLEAN]]
  /\ row' \subseteq DealRecords /\ \A r \in row' : rec'[r].acct # Unset
  /\ \A r \in Records \ rs :
       rec'[r] = rec[r] /\ (r \in late => r \in late') /\ (r \in row' => r \in row)
  /\ \A r \in rs, a \in Accounts : rec'[r].acct = a /\ Deleting(a)' =>
       r \in late' \/ (rec'[r].dead /\ r \notin row')
  /\ \A r \in rs \cap row' : rec'[r].dead => r \in late'

(* Of the records only those of rs change, which no call that goes on      *)
(* holds or lists; the lines and the records that come under a deletion    *)
(* are late.                                                               *)
LEMMA RecordsChange ==
  ASSUME CompaniesInv, NEW rs \in SUBSET Records, CallsFollow(rs), RecordsFollow(rs),
         \A a \in Accounts : Exists(a) => Exists(a)',
         \A a \in Accounts : acct'[a].dead =>
            acct[a].dead \/ (LiveUnder(a)' \subseteq late' /\ ~ AccountHeld(a)')
  PROVE  RecordsInv'
<1> USE DEF CompaniesInv, RecordsInv, CallsFollow, RecordsFollow
<1>1. ASSUME NEW c \in Callers PROVE DeleteKnows(call[c])'
  <2> SUFFICES ASSUME call'[c].kind = "delete" PROVE DeleteKnows(call[c])'
    BY DEF DeleteKnows
  <2>1. DeleteKnows(call[c])
    BY DEF CallKnows
  <2>2. PICK a \in Accounts : a = call[c].a /\ a = call'[c].a /\ Deleting(a)' /\ AccountHeld(a)'
    BY <2>1 DEF Deleting, AccountHeld, DeleteKnows
  <2>3. Live(call[c].a)'
    BY <2>1, <2>2 DEF DeleteKnows, Live
  <2>4. \A r \in Records : r \in LiveUnder(a)' => r \in late' \/ (r \in LiveUnder(a) /\ r \notin rs)
    BY <2>2 DEF LiveUnder
  <2>5. \A r \in row' : rec'[r].acct = a =>
         r \in late' \/ (r \in row /\ rec[r].acct = a /\ r \notin rs /\ r \notin late)
    BY <2>2 DEF DealRecords
  <2>6. \A r \in call'[c].taken : rec'[r] = rec[r]
    BY DEF CallRows
  <2>7. \A r \in call'[c].taken : rec'[r].acct = a /\ ~ rec'[r].dead
    BY <2>1, <2>2, <2>6 DEF DeleteKnows
  <2>8. \A r \in LiveUnder(a)' :
          (\E j \in 1 .. 5 : j < call'[c].at /\ Table[r] = Tables[j]) => r \in call'[c].taken \cup late'
    <3>1. \A r \in LiveUnder(a)' : r \in Records
      BY DEF LiveUnder
    <3> QED
      BY <2>1, <2>2, <2>4, <3>1 DEF DeleteKnows
  <2>9. call'[c].at > 0 => \A r \in row' : rec'[r].acct = a => r \in call'[c].swept \cup late'
    BY <2>1, <2>2, <2>5 DEF DeleteKnows
  <2> QED
    BY <2>2, <2>3, <2>7, <2>8, <2>9 DEF DeleteKnows
<1>2. ASSUME NEW c \in Callers PROVE ReadKnows(call[c])'
  BY DEF CallKnows, ReadKnows
<1>3. ASSUME NEW c \in Callers PROVE RetireKnows(call[c])'
  BY DEF CallKnows, RetireKnows
<1>4. ASSUME NEW b \in Callers, NEW c \in Callers, b # c PROVE Apart(call'[b], call'[c])
  BY <1>4 DEF Apart, Holds
<1>5. DeletionTakesEverything'
  <2> SUFFICES ASSUME NEW a \in Accounts, acct'[a].dead, NEW r \in LiveUnder(a)'
               PROVE  r \in late'
    BY DEF DeletionTakesEverything
  <2>1. CASE acct[a].dead
    <3>1. Exists(a) /\ Exists(a)'
      BY <2>1 DEF NamesInv
    <3>2. Deleting(a)'
      BY <3>1 DEF Deleting
    <3> QED
      BY <2>1, <3>2 DEF DeletionTakesEverything, LiveUnder
  <2>2. CASE ~ acct[a].dead
    BY <2>2
  <2> QED
    BY <2>1, <2>2
<1>6. RetiredDealsLeaveNoLine'
  BY DEF RetiredDealsLeaveNoLine, DealRecords
<1> QED
  BY <1>1, <1>2, <1>3, <1>4, <1>5, <1>6 DEF CallKnows

(* The actions of one record.                                              *)
LEMMA FileKeeps ==
  ASSUME CompaniesInv, NEW r \in Records, NEW a \in Accounts, File(r, a) \/ Refile(r, a)
  PROVE  CompaniesInv'
<1> USE CompaniesAssumption
<1>1. /\ call \in [Callers -> CallRows]
      /\ rec \in [Records -> [acct : Accounts \cup {Unset}, dead : BOOLEAN]]
      /\ row \subseteq DealRecords
      /\ \A x \in row : rec[x].acct # Unset
  BY DEF CompaniesInv, RecordsInv
<1>2. /\ UNCHANGED <<acct, row, mixed, twin>>
      /\ call' = call \/ call' = Touch(call, {r})
      /\ late' = IF Deleting(a) THEN late \cup {r} ELSE late \ {r}
  BY DEF File, Refile, NoteLate
<1>3. ASSUME NEW c \in Callers
      PROVE  /\ call'[c] \in CallRows
             /\ call[c].kind # "read" => call'[c] = call[c]
             /\ call'[c].kind = call[c].kind /\ call'[c].a = call[c].a /\ call'[c].n = call[c].n
             /\ call'[c].at = call[c].at /\ call'[c].taken = call[c].taken
             /\ call[c].kind = "read" => call'[c].swept \subseteq call[c].swept \ {r}
  <2>1. CASE File(r, a)
    BY <1>1, <2>1 DEF File, CompaniesInv, RecordsInv, CallKnows, ReadKnows
  <2>2. CASE Refile(r, a)
    BY <1>1, <2>2, TouchEffect DEF Refile
  <2> QED
    BY <2>1, <2>2
<1>4. call' \in [Callers -> CallRows]
  BY <1>1, <1>2, TouchEffect
<1>5. rec' \in [Records -> [acct : Accounts \cup {Unset}, dead : BOOLEAN]]
      /\ rec'[r].acct = a /\ ~ rec'[r].dead /\ \A x \in Records \ {r} : rec'[x] = rec[x]
  <2>1. CASE File(r, a)
    BY <1>1, <2>1 DEF File
  <2>2. CASE Refile(r, a)
    BY <1>1, <2>2 DEF Refile
  <2> QED
    BY <2>1, <2>2
<1>6. \A c \in Callers : call'[c].kind = "delete" => call'[c].taken \cap {r} = {}
  <2> SUFFICES ASSUME NEW c \in Callers, call[c].kind = "delete" PROVE r \notin call[c].taken
    BY <1>3
  <2>1. CASE File(r, a)
    BY <2>1 DEF File, CompaniesInv, RecordsInv, CallKnows, DeleteKnows
  <2>2. CASE Refile(r, a)
    BY <2>2 DEF Refile, Held
  <2> QED
    BY <2>1, <2>2
<1>7. \A b \in Accounts : rec'[r].acct = b /\ Deleting(b)' => r \in late'
  <2>1. Deleting(a)' => Deleting(a)
    BY <1>2, <1>3 DEF Deleting, AccountHeld, Exists
  <2> QED
    BY <1>2, <1>5, <2>1
<1>8. NamesInv'
  <2>1. \A c \in Callers : call'[c].kind \in {"save", "convert"} => call'[c] = call[c]
    BY <1>3
  <2>2. \A c \in Callers : call[c].kind = "save" => call'[c] = call[c]
    BY <1>3
  <2> QED
    BY <1>2, <2>1, <2>2, NamesStay
<1>9. RecordsInv'
  <2>1. PICK rs \in SUBSET Records : rs = {r}
    OBVIOUS
  <2>2. \A x \in Records \ rs :
          rec'[x] = rec[x] /\ (x \in late => x \in late') /\ (x \in row' => x \in row)
    BY <1>2, <1>5, <2>1
  <2>3. row' \subseteq DealRecords /\ \A x \in row' : rec'[x].acct # Unset
    BY <1>1, <1>2, <1>5 DEF DealRecords
  <2>4. \A b \in Accounts : (Exists(b) => Exists(b)') /\ (acct'[b].dead => acct[b].dead)
    BY <1>2 DEF Exists
  <2>5. \A x \in rs, b \in Accounts : rec'[x].acct = b /\ Deleting(b)' =>
          x \in late' \/ (rec'[x].dead /\ x \notin row')
    BY <1>7, <2>1
  <2>6. \A c \in Callers :
          /\ call'[c].kind = "delete" => call'[c].taken \cap rs = {}
          /\ call'[c].kind = call[c].kind /\ call'[c].a = call[c].a
          /\ call'[c].at = call[c].at /\ call'[c].taken = call[c].taken
          /\ call[c].kind # "read" => call'[c].swept = call[c].swept
          /\ call[c].kind = "read" => call'[c].swept \subseteq call[c].swept \ rs
    BY <1>3, <1>6, <2>1
  <2>7. \A x \in rs \cap row' : rec'[x].dead => x \in late'
    BY <1>5, <2>1
  <2> QED
    <3>1. CallsFollow(rs)
      BY <1>4, <2>6 DEF CallsFollow
    <3>2. RecordsFollow(rs)
      BY <1>5, <2>2, <2>3, <2>5, <2>7 DEF RecordsFollow
    <3> QED
      BY <2>4, <3>1, <3>2, RecordsChange
<1> QED
  BY <1>8, <1>9 DEF CompaniesInv

LEMMA DropContactKeeps ==
  ASSUME CompaniesInv, NEW r \in Records, DropContact(r)
  PROVE  CompaniesInv'
<1> USE CompaniesAssumption
<1>1. /\ call \in [Callers -> CallRows]
      /\ rec \in [Records -> [acct : Accounts \cup {Unset}, dead : BOOLEAN]]
      /\ row \subseteq DealRecords
      /\ \A x \in row : rec[x].acct # Unset
  BY DEF CompaniesInv, RecordsInv
<1>2. /\ UNCHANGED <<acct, row, mixed, twin>> /\ late' = late \ {r} /\ r \notin DealRecords
      /\ call' = Touch(call, {r})
  BY DEF DropContact, DealRecords
<1>3. /\ call' \in [Callers -> CallRows]
      /\ \A c \in Callers :
           /\ call'[c].kind = call[c].kind /\ call'[c].a = call[c].a /\ call'[c].n = call[c].n
           /\ call'[c].at = call[c].at /\ call'[c].taken = call[c].taken
           /\ call[c].kind # "read" => call'[c] = call[c]
           /\ call[c].kind = "read" => call'[c].swept = call[c].swept \ {r}
  BY <1>1, <1>2, TouchEffect
<1>4. rec' \in [Records -> [acct : Accounts \cup {Unset}, dead : BOOLEAN]]
      /\ rec'[r].acct = Unset /\ \A x \in Records \ {r} : rec'[x] = rec[x]
  BY <1>1 DEF DropContact
<1>5. \A c \in Callers : call'[c].kind = "delete" => call'[c].taken \cap {r} = {}
  <2>1. \A c \in Callers : call[c].kind = "delete" => r \notin call[c].taken
    BY DEF DropContact, Held
  <2>2. \A c \in Callers : call'[c].kind = call[c].kind /\ call'[c].taken = call[c].taken
    BY <1>3
  <2> QED
    BY <2>1, <2>2
<1>6. NamesInv'
  <2>1. \A c \in Callers : call'[c].kind \in {"save", "convert"} => call'[c] = call[c]
    <3>1. \A c \in Callers : call'[c].kind = call[c].kind /\ (call[c].kind # "read" => call'[c] = call[c])
      BY <1>3
    <3> QED
      BY <3>1
  <2>2. \A c \in Callers : call[c].kind = "save" => call'[c] = call[c]
    BY <1>3
  <2> QED
    BY <1>2, <2>1, <2>2, NamesStay
<1>7. RecordsInv'
  <2>1. PICK rs \in SUBSET Records : rs = {r}
    OBVIOUS
  <2>2. \A x \in Records \ rs :
          rec'[x] = rec[x] /\ (x \in late => x \in late') /\ (x \in row' => x \in row)
    BY <1>2, <1>4, <2>1
  <2>3. r \notin row' /\ row' \subseteq DealRecords /\ \A x \in row' : rec'[x].acct # Unset
    BY <1>1, <1>2, <1>4 DEF DealRecords
  <2>4. \A b \in Accounts : (Exists(b) => Exists(b)') /\ (acct'[b].dead => acct[b].dead)
    BY <1>2 DEF Exists
  <2>5. \A x \in rs, a \in Accounts : rec'[x].acct = a /\ Deleting(a)' =>
          x \in late' \/ (rec'[x].dead /\ x \notin row')
    BY <1>4, <2>1
  <2>6. \A c \in Callers :
          /\ call'[c].kind = "delete" => call'[c].taken \cap rs = {}
          /\ call'[c].kind = call[c].kind /\ call'[c].a = call[c].a
          /\ call'[c].at = call[c].at /\ call'[c].taken = call[c].taken
          /\ call[c].kind # "read" => call'[c].swept = call[c].swept
          /\ call[c].kind = "read" => call'[c].swept \subseteq call[c].swept \ rs
    BY <1>3, <1>5, <2>1
  <2>7. \A x \in rs \cap row' : rec'[x].dead => x \in late'
    BY <2>1, <2>3
  <2> QED
    <3>1. CallsFollow(rs)
      BY <1>3, <2>6 DEF CallsFollow
    <3>2. RecordsFollow(rs)
      BY <1>4, <2>2, <2>3, <2>5, <2>7 DEF RecordsFollow
    <3> QED
      BY <2>4, <3>1, <3>2, RecordsChange
<1> QED
  BY <1>6, <1>7 DEF CompaniesInv

LEMMA TrackDealKeeps ==
  ASSUME CompaniesInv, NEW r \in Records, TrackDeal(r)
  PROVE  CompaniesInv'
<1> USE CompaniesAssumption
<1>1. /\ call \in [Callers -> CallRows] /\ row \subseteq DealRecords /\ \A x \in row : rec[x].acct # Unset
      /\ rec \in [Records -> [acct : Accounts \cup {Unset}, dead : BOOLEAN]]
      /\ \A c \in Callers : CallKnows(call[c])
      /\ \A b, c \in Callers : b # c => Apart(call[b], call[c])
      /\ DeletionTakesEverything /\ RetiredDealsLeaveNoLine
  BY DEF CompaniesInv, RecordsInv
<1>2. /\ UNCHANGED <<acct, rec, call, mixed, twin>> /\ row' = row \cup {r}
      /\ late' = IF Deleting(rec[r].acct) THEN late \cup {r} ELSE late
      /\ r \in DealRecords /\ ~ rec[r].dead /\ rec[r].acct # Unset
  BY DEF TrackDeal
<1>3. \A a : LiveUnder(a)' = LiveUnder(a) /\ Live(a)' = Live(a)
  BY <1>2 DEF LiveUnder, Live, Exists
<1>4. ASSUME NEW c \in Callers PROVE CallKnows(call[c])'
  <2>1. CallKnows(call[c])
    BY <1>1
  <2>2. call[c].kind = "delete" => Deleting(call[c].a)
    BY DEF Deleting, AccountHeld
  <2>3. DeleteKnows(call[c])'
    BY <1>2, <1>3, <2>1, <2>2 DEF CallKnows, DeleteKnows
  <2> QED
    BY <1>2, <2>1, <2>3 DEF CallKnows, ReadKnows, RetireKnows
<1>5. RecordsInv'
  <2>1. \A b, c \in Callers : b # c => Apart(call'[b], call'[c])
    BY <1>1, <1>2
  <2>2. DeletionTakesEverything' /\ RetiredDealsLeaveNoLine'
    BY <1>1, <1>2, <1>3 DEF DeletionTakesEverything, RetiredDealsLeaveNoLine
  <2> QED
    BY <1>1, <1>2, <1>4, <2>1, <2>2 DEF RecordsInv
<1>6. NamesInv'
  BY <1>2, NamesStay
<1> QED
  BY <1>5, <1>6 DEF CompaniesInv

(* The commits.                                                            *)
LEMMA CommitRetireKeeps ==
  ASSUME CompaniesInv, NEW c \in Callers, CommitRetire(c)
  PROVE  CompaniesInv'
<1> USE CompaniesAssumption
<1> DEFINE rs == call[c].taken
<1>1. /\ call \in [Callers -> CallRows]
      /\ rec \in [Records -> [acct : Accounts \cup {Unset}, dead : BOOLEAN]]
      /\ row \subseteq DealRecords
      /\ \A x \in row : rec[x].acct # Unset
      /\ \A b \in Callers : b # c => Apart(call[b], call[c])
  BY DEF CompaniesInv, RecordsInv
<1>2. /\ UNCHANGED <<acct, late, mixed, twin>> /\ row' = row \ rs /\ call[c].kind = "retire"
      /\ rec' = [x \in Records |-> IF x \in rs THEN [rec[x] EXCEPT !.dead = TRUE] ELSE rec[x]]
  BY DEF CommitRetire, history
<1>3. PICK calls : calls = Touch(call, rs)
  OBVIOUS
<1>4. call' = [calls EXCEPT ![c] = NoCall]
  BY <1>3 DEF CommitRetire
<1>5. NoCall \in CallRows /\ NoCall.kind = "idle"
  BY DEF NoCall, CallRows
<1>6. /\ call' \in [Callers -> CallRows] /\ call'[c].kind = "idle"
      /\ \A b \in Callers : b # c =>
           /\ call'[b].kind = call[b].kind /\ call'[b].a = call[b].a
           /\ call'[b].at = call[b].at /\ call'[b].taken = call[b].taken
           /\ call[b].kind # "read" => call'[b] = call[b]
           /\ call[b].kind = "read" => call'[b].swept = call[b].swept \ rs
  BY <1>1, <1>3, <1>4, <1>5, TouchEffect
<1>7. NamesInv'
  BY <1>2, <1>6, NamesStay
<1>8. RecordsInv'
  <2>1. rs \in SUBSET Records
    BY <1>1 DEF CallRows
  <2>2. /\ rec' \in [Records -> [acct : Accounts \cup {Unset}, dead : BOOLEAN]]
        /\ \A x \in Records : rec'[x].acct = rec[x].acct /\ (x \in rs => rec'[x].dead)
        /\ \A x \in Records \ rs : rec'[x] = rec[x]
    BY <1>1, <1>2, ZenonT(60)
  <2>3. row' \subseteq DealRecords /\ \A x \in row' : rec'[x].acct # Unset
    BY <1>1, <1>2, <2>2 DEF DealRecords
  <2>4. \A b \in Accounts : (Exists(b) => Exists(b)') /\ (acct'[b].dead => acct[b].dead)
    BY <1>2 DEF Exists
  <2>5. \A x \in rs, a \in Accounts : rec'[x].acct = a /\ Deleting(a)' =>
          x \in late' \/ (rec'[x].dead /\ x \notin row')
    BY <1>2, <2>1, <2>2
  <2>6. \A b \in Callers :
          /\ call'[b].kind = "delete" => call'[b].taken \cap rs = {}
          /\ call'[b].kind \in {"delete", "retire", "read"} =>
               /\ call'[b].kind = call[b].kind /\ call'[b].a = call[b].a
               /\ call'[b].at = call[b].at /\ call'[b].taken = call[b].taken
               /\ call[b].kind # "read" => call'[b].swept = call[b].swept
               /\ call[b].kind = "read" => call'[b].swept \subseteq call[b].swept \ rs
    BY <1>1, <1>2, <1>6 DEF Apart, Holds
  <2>7. \A x \in rs \cap row' : rec'[x].dead => x \in late'
    BY <1>2
  <2>8. \A x \in Records \ rs :
          rec'[x] = rec[x] /\ (x \in late => x \in late') /\ (x \in row' => x \in row)
    BY <1>2, <2>2
  <2> HIDE DEF rs
  <2> QED
    <3>1. CallsFollow(rs)
      BY <1>6, <2>6 DEF CallsFollow
    <3>2. RecordsFollow(rs)
      BY <2>2, <2>3, <2>5, <2>7, <2>8 DEF RecordsFollow
    <3> QED
      BY <2>1, <2>4, <3>1, <3>2, RecordsChange
<1> QED
  BY <1>7, <1>8 DEF CompaniesInv

LEMMA CommitDeleteKeeps ==
  ASSUME CompaniesInv, NEW c \in Callers, CommitDelete(c)
  PROVE  CompaniesInv'
<1> USE CompaniesAssumption
<1>0. PICK a, rs : a = call[c].a /\ rs = call[c].taken
  OBVIOUS
<1>1. /\ call \in [Callers -> CallRows]
      /\ rec \in [Records -> [acct : Accounts \cup {Unset}, dead : BOOLEAN]]
      /\ row \subseteq DealRecords
      /\ \A x \in row : rec[x].acct # Unset
      /\ \A b \in Callers : b # c => Apart(call[b], call[c])
      /\ DeleteKnows(call[c]) /\ RetiredDealsLeaveNoLine
  BY DEF CompaniesInv, RecordsInv, CallKnows
<1>2. /\ UNCHANGED <<late, mixed, twin>> /\ row' = row \ call[c].swept
      /\ call[c].kind = "delete" /\ call[c].at \in Nat /\ call[c].at > 5 /\ call[c].at > 0
      /\ rec' = [x \in Records |-> IF x \in rs THEN [rec[x] EXCEPT !.dead = TRUE] ELSE rec[x]]
  BY <1>0, <1>1, AllTables DEF CommitDelete, history, CallRows
<1>3. acct \in [Accounts -> [name : Names \cup {Unset}, dead : BOOLEAN, profile : Names \cup {Unset}]]
  BY DEF CompaniesInv, NamesInv
<1>4. /\ a \in Accounts /\ Live(a)
      /\ \A x \in rs : rec[x].acct = a /\ ~ rec[x].dead
  BY <1>0, <1>1, <1>2 DEF DeleteKnows
<1>5. acct' = [acct EXCEPT ![a].dead = TRUE]
  BY <1>0 DEF CommitDelete
<1>6. \A b \in Accounts : /\ acct'[b].name = acct[b].name /\ acct'[b].profile = acct[b].profile
                          /\ acct'[b].dead <=> (acct[b].dead \/ b = a)
                          /\ acct'[b] \in [name : Names \cup {Unset}, dead : BOOLEAN, profile : Names \cup {Unset}]
  BY <1>3, <1>4, <1>5
<1>7. PICK calls : calls = Touch(call, rs)
  OBVIOUS
<1>8. call' = [calls EXCEPT ![c] = NoCall]
  BY <1>0, <1>7 DEF CommitDelete
<1>9. NoCall \in CallRows /\ NoCall.kind = "idle"
  BY DEF NoCall, CallRows
<1>10. /\ call' \in [Callers -> CallRows] /\ call'[c].kind = "idle"
       /\ \A b \in Callers : b # c =>
           /\ call'[b].kind = call[b].kind /\ call'[b].a = call[b].a
           /\ call'[b].at = call[b].at /\ call'[b].taken = call[b].taken
           /\ call[b].kind # "read" => call'[b] = call[b]
           /\ call[b].kind = "read" => call'[b].swept = call[b].swept \ rs
  BY <1>1, <1>7, <1>8, <1>9, TouchEffect
<1>11. NamesInv'
  <2>1. \A b \in Accounts : /\ Exists(b)' <=> Exists(b)
                            /\ Live(b)' => Live(b)
                            /\ Saving(b) => Saving(b)'
    BY <1>2, <1>6, <1>10 DEF Exists, Live, Saving
  <2>2. acct' \in [Accounts -> [name : Names \cup {Unset}, dead : BOOLEAN, profile : Names \cup {Unset}]]
    BY <1>3, <1>5, <1>6
  <2>3. \A b \in Accounts : ~ Exists(b)' => ~ acct'[b].dead /\ acct'[b].profile = Unset
    BY <1>4, <1>6, <2>1 DEF CompaniesInv, NamesInv, Live
  <2>4. ASSUME NEW b \in Callers PROVE SaveKnows(call[b])' /\ ConvertKnows(call[b])'
    BY <1>2, <1>6, <1>10, <2>1 DEF SaveKnows, ConvertKnows, CompaniesInv, NamesInv
  <2>5. TwinsComeFromRaces' /\ SavedTogether'
    BY <1>2, <1>6, <2>1 DEF TwinsComeFromRaces, SavedTogether, CompaniesInv, NamesInv
  <2> QED
    BY <2>2, <2>3, <2>4, <2>5 DEF NamesInv
<1>12. RecordsInv'
  <2>1. rs \in SUBSET Records
    BY <1>0, <1>1 DEF CallRows
  <2>2. /\ rec' \in [Records -> [acct : Accounts \cup {Unset}, dead : BOOLEAN]]
        /\ \A x \in Records : rec'[x].acct = rec[x].acct /\ (x \in rs => rec'[x].dead)
        /\ \A x \in Records \ rs : rec'[x] = rec[x]
    BY <1>1, <1>2, ZenonT(60)
  <2>3. row' \subseteq DealRecords /\ \A x \in row' : rec'[x].acct # Unset
    BY <1>1, <1>2, <2>2 DEF DealRecords
  <2>4. \A b \in Accounts : Exists(b) => Exists(b)'
    BY <1>6 DEF Exists
  <2>5. \A x \in rs \cap row' : x \in late'
    BY <1>0, <1>1, <1>2, <1>4 DEF DeleteKnows
  <2>6. \A x \in rs, b \in Accounts : rec'[x].acct = b /\ Deleting(b)' =>
          x \in late' \/ (rec'[x].dead /\ x \notin row')
    BY <2>1, <2>2, <2>5
  <2>7. \A b \in Callers :
          /\ call'[b].kind = "delete" => call'[b].taken \cap rs = {}
          /\ call'[b].kind \in {"delete", "retire", "read"} =>
               /\ call'[b].kind = call[b].kind /\ call'[b].a = call[b].a
               /\ call'[b].at = call[b].at /\ call'[b].taken = call[b].taken
               /\ call[b].kind # "read" => call'[b].swept = call[b].swept
               /\ call[b].kind = "read" => call'[b].swept \subseteq call[b].swept \ rs
    BY <1>0, <1>1, <1>2, <1>10 DEF Apart, Holds
  <2>8. \A x \in Records \ rs :
          rec'[x] = rec[x] /\ (x \in late => x \in late') /\ (x \in row' => x \in row)
    BY <1>2, <2>2
  <2>9. LiveUnder(a)' \subseteq late'
    <3> SUFFICES ASSUME NEW x \in LiveUnder(a)' PROVE x \in late'
      OBVIOUS
    <3>1. x \in Records /\ x \notin rs /\ x \in LiveUnder(a)
      BY <1>10, <2>2 DEF LiveUnder
    <3>2. PICK j \in 1 .. 5 : Table[x] = Tables[j]
      BY <3>1, AllTables
    <3>3. j < call[c].at
      BY <1>2
    <3> QED
      BY <1>0, <1>1, <1>2, <3>1, <3>2, <3>3 DEF DeleteKnows
  <2>10. ~ AccountHeld(a)'
    BY <1>0, <1>1, <1>2, <1>10 DEF AccountHeld, Apart, Holds
  <2>11. \A b \in Accounts : acct'[b].dead =>
           acct[b].dead \/ (LiveUnder(b)' \subseteq late' /\ ~ AccountHeld(b)')
    BY <1>6, <2>9, <2>10
  <2> QED
    <3>1. CallsFollow(rs)
      BY <1>10, <2>7 DEF CallsFollow
    <3>2. RecordsFollow(rs)
      BY <2>2, <2>3, <2>5, <2>6, <2>8 DEF RecordsFollow
    <3> QED
      BY <2>1, <2>4, <2>11, <3>1, <3>2, RecordsChange
<1> QED
  BY <1>11, <1>12 DEF CompaniesInv

LEMMA CommitConvertKeeps ==
  ASSUME CompaniesInv, NEW c \in Callers, NEW r \in Records, CommitConvert(c, r)
  PROVE  CompaniesInv'
<1> USE CompaniesAssumption
<1>0. PICK a : a = call[c].a
  OBVIOUS
<1>1. /\ call \in [Callers -> CallRows]
      /\ rec \in [Records -> [acct : Accounts \cup {Unset}, dead : BOOLEAN]]
      /\ acct \in [Accounts -> [name : Names \cup {Unset}, dead : BOOLEAN, profile : Names \cup {Unset}]]
      /\ \A b \in Accounts : ~ Exists(b) => ~ acct[b].dead /\ acct[b].profile = Unset
      /\ \A b \in Callers : SaveKnows(call[b]) /\ ConvertKnows(call[b]) /\ CallKnows(call[b])
      /\ TwinsComeFromRaces /\ SavedTogether
      /\ row \subseteq DealRecords
      /\ \A x \in row : rec[x].acct # Unset
  BY DEF CompaniesInv, RecordsInv, NamesInv
<1>2. /\ UNCHANGED <<row, mixed>> /\ call[c].kind = "convert" /\ rec[r].acct = Unset
      /\ acct' = IF Exists(a) THEN acct ELSE [acct EXCEPT ![a].name = call[c].n]
      /\ rec' = [rec EXCEPT ![r] = [acct |-> a, dead |-> FALSE]]
      /\ late' = IF Deleting(a) THEN late \cup {r} ELSE late \ {r}
      /\ twin' = IF ~ Exists(a) /\ ~ (Named(call[c].n) \subseteq call[c].swept) THEN twin \cup {a} ELSE twin
      /\ call' = [call EXCEPT ![c] = NoCall]
  BY <1>0 DEF CommitConvert, NoteLate
<1>3. a \in Accounts /\ call[c].n \in Names /\ (Exists(a) \/ call[c].swept = {})
  BY <1>0, <1>1, <1>2 DEF ConvertKnows
<1>4. NoCall \in CallRows /\ NoCall.kind = "idle"
  BY DEF NoCall, CallRows
<1>5. /\ call' \in [Callers -> CallRows] /\ call'[c].kind = "idle"
      /\ \A b \in Callers : b # c => call'[b] = call[b]
  BY <1>1, <1>2, <1>4
<1>6. /\ acct' \in [Accounts -> [name : Names \cup {Unset}, dead : BOOLEAN, profile : Names \cup {Unset}]]
      /\ \A b \in Accounts : /\ acct'[b].dead = acct[b].dead /\ acct'[b].profile = acct[b].profile
                             /\ Exists(b) => acct'[b].name = acct[b].name
                             /\ b # a => acct'[b].name = acct[b].name
                             /\ ~ Exists(a) => acct'[a].name = call[c].n
  BY <1>1, <1>2, <1>3 DEF Exists
<1>7. \A b \in Accounts : Exists(b) => Exists(b)'
  BY <1>6 DEF Exists
<1>8. NamesInv'
  <2>1. \A b \in Accounts : ~ Exists(b)' => ~ acct'[b].dead /\ acct'[b].profile = Unset
    BY <1>1, <1>6, <1>7
  <2>2. ASSUME NEW b \in Callers PROVE SaveKnows(call[b])' /\ ConvertKnows(call[b])'
    BY <1>1, <1>2, <1>5, <1>6, <1>7 DEF SaveKnows, ConvertKnows
  <2>3. TwinsComeFromRaces'
    <3>1. CASE Exists(a)
      BY <1>1, <1>2, <3>1 DEF TwinsComeFromRaces, Live, Exists
    <3>2. CASE ~ Exists(a)
      <4> SUFFICES ASSUME NEW x \in Accounts, NEW y \in Accounts, x # y,
                          Live(x)', Live(y)', acct'[x].name = acct'[y].name
                   PROVE  x \in twin' \/ y \in twin'
        BY DEF TwinsComeFromRaces
      <4>1. CASE x # a /\ y # a
        BY <1>1, <1>2, <1>6, <4>1 DEF TwinsComeFromRaces, Live, Exists
      <4>2. CASE x = a
        <5>1. y \in Named(call[c].n)
          BY <1>6, <3>2, <4>2 DEF Named, Live, Exists
        <5> QED
          BY <1>2, <1>3, <3>2, <4>2, <5>1
      <4>3. CASE y = a
        <5>1. x \in Named(call[c].n)
          BY <1>6, <3>2, <4>3 DEF Named, Live, Exists
        <5> QED
          BY <1>2, <1>3, <3>2, <4>3, <5>1
      <4> QED
        BY <4>1, <4>2, <4>3
    <3> QED
      BY <3>1, <3>2
  <2>4. SavedTogether'
    <3>1. \A b \in Accounts : Saving(b) => Saving(b)'
      BY <1>2, <1>5 DEF Saving
    <3> QED
      BY <1>1, <1>2, <1>6, <3>1 DEF SavedTogether
  <2> QED
    BY <1>6, <2>1, <2>2, <2>3, <2>4 DEF NamesInv
<1>9. RecordsInv'
  <2>1. PICK rs \in SUBSET Records : rs = {r}
    OBVIOUS
  <2>2. /\ rec' \in [Records -> [acct : Accounts \cup {Unset}, dead : BOOLEAN]]
        /\ rec'[r].acct = a /\ ~ rec'[r].dead
        /\ \A x \in Records \ rs : rec'[x] = rec[x]
    BY <1>1, <1>2, <1>3, <2>1
  <2>3. \A x \in Records \ rs :
          rec'[x] = rec[x] /\ (x \in late => x \in late') /\ (x \in row' => x \in row)
    BY <1>2, <2>1, <2>2
  <2>4. row' \subseteq DealRecords /\ \A x \in row' : rec'[x].acct # Unset
    BY <1>1, <1>2, <1>3, <2>2, <2>1 DEF DealRecords
  <2>5. \A b \in Accounts : (Exists(b) => Exists(b)') /\ (acct'[b].dead => acct[b].dead)
    BY <1>6, <1>7
  <2>6. Deleting(a)' => Deleting(a)
    BY <1>1, <1>3, <1>5, <1>6 DEF Deleting, AccountHeld
  <2>7. \A x \in rs, b \in Accounts : rec'[x].acct = b /\ Deleting(b)' =>
          x \in late' \/ (rec'[x].dead /\ x \notin row')
    <3>1. Deleting(a)' => r \in late'
      BY <1>2, <2>6
    <3> QED
      BY <2>1, <2>2, <3>1
  <2>8. \A b \in Callers :
          /\ call'[b].kind = "delete" => call'[b].taken \cap rs = {}
          /\ call'[b].kind \in {"delete", "retire", "read"} =>
               /\ call'[b].kind = call[b].kind /\ call'[b].a = call[b].a
               /\ call'[b].at = call[b].at /\ call'[b].taken = call[b].taken
               /\ call[b].kind # "read" => call'[b].swept = call[b].swept
               /\ call[b].kind = "read" => call'[b].swept \subseteq call[b].swept \ rs
    BY <1>1, <1>2, <1>5, <2>1 DEF CallKnows, DeleteKnows, ReadKnows
  <2>9. \A x \in rs \cap row' : rec'[x].dead => x \in late'
    BY <2>1, <2>2
  <2> QED
    <3>1. CallsFollow(rs)
      BY <1>5, <2>8 DEF CallsFollow
    <3>2. RecordsFollow(rs)
      BY <2>2, <2>3, <2>4, <2>7, <2>9 DEF RecordsFollow
    <3> QED
      BY <2>5, <3>1, <3>2, RecordsChange
<1> QED
  BY <1>8, <1>9 DEF CompaniesInv

(* The calls that begin, go on or end and change no table.                 *)
LEMMA BeginKeeps ==
  ASSUME CompaniesInv, NEW c \in Callers,
         \/ \E r \in Records : BeginRetire(c, r)
         \/ \E a \in Accounts : BeginDelete(c, a) \/ BeginRead(c, a)
  PROVE  CompaniesInv'
<1> USE CompaniesAssumption
<1>1. /\ call \in [Callers -> CallRows]
      /\ rec \in [Records -> [acct : Accounts \cup {Unset}, dead : BOOLEAN]]
      /\ acct \in [Accounts -> [name : Names \cup {Unset}, dead : BOOLEAN, profile : Names \cup {Unset}]]
      /\ NoCall.kind = "idle"
  BY DEF CompaniesInv, RecordsInv, NamesInv, NoCall
<1>2. ASSUME NEW r \in Records, BeginRetire(c, r) PROVE CompaniesInv'
  <2>1. PICK q : q = [NoCall EXCEPT !.kind = "retire", !.taken = {r}]
    OBVIOUS
  <2>2. q \in CallRows /\ q.kind = "retire" /\ q.taken = {r}
    BY <2>1 DEF NoCall, CallRows
  <2>3. call' = [call EXCEPT ![c] = q] /\ call[c].kind = "idle" /\ r \in DealRecords /\ ~ Held(r)
    BY <1>1, <1>2, <2>1 DEF BeginRetire
  <2>4. CallKnows(q)
    BY <2>2, <2>3 DEF CallKnows, DeleteKnows, ReadKnows, RetireKnows
  <2>5. \A b \in Callers : b # c => Apart(call[b], q) /\ Apart(q, call[b])
    BY <2>2, <2>3 DEF Apart, Holds, Held
  <2>6. UNCHANGED <<acct, rec, row, history>>
    BY <1>2 DEF BeginRetire
  <2> QED
    BY <2>2, <2>3, <2>4, <2>5, <2>6, CallGoesOn
<1>3. ASSUME NEW a \in Accounts, BeginDelete(c, a) PROVE CompaniesInv'
  <2>1. PICK q : q = [NoCall EXCEPT !.kind = "delete", !.a = a]
    OBVIOUS
  <2>2. q \in CallRows /\ q.kind = "delete" /\ q.a = a /\ q.taken = {} /\ q.at = 0
    BY <2>1 DEF NoCall, CallRows
  <2>3. call' = [call EXCEPT ![c] = q] /\ call[c].kind = "idle" /\ Live(a) /\ ~ AccountHeld(a)
    BY <1>1, <1>3, <2>1 DEF BeginDelete
  <2>4. CallKnows(q)
    BY <2>2, <2>3 DEF CallKnows, DeleteKnows, ReadKnows, RetireKnows
  <2>5. \A b \in Callers : b # c => Apart(call[b], q) /\ Apart(q, call[b])
    BY <2>2, <2>3 DEF Apart, Holds, AccountHeld
  <2>6. UNCHANGED <<acct, rec, row, history>>
    BY <1>3 DEF BeginDelete
  <2> QED
    BY <2>2, <2>3, <2>4, <2>5, <2>6, CallGoesOn
<1>4. ASSUME NEW a \in Accounts, BeginRead(c, a) PROVE CompaniesInv'
  <2>1. PICK q : q = [NoCall EXCEPT !.kind = "read", !.a = a, !.n = acct[a].name,
                                    !.at = 1, !.swept = LiveUnder(a)]
    OBVIOUS
  <2>2. q \in CallRows /\ q.kind = "read" /\ q.a = a /\ q.taken = {} /\ q.at = 1 /\ q.swept = LiveUnder(a)
    BY <1>1, <2>1 DEF NoCall, CallRows, LiveUnder
  <2>3. call' = [call EXCEPT ![c] = q] /\ call[c].kind = "idle"
    BY <1>1, <1>4, <2>1 DEF BeginRead
  <2>4. CallKnows(q)
    BY <2>2, <2>3 DEF CallKnows, DeleteKnows, ReadKnows, RetireKnows, LiveUnder
  <2>5. \A b \in Callers : b # c => Apart(call[b], q) /\ Apart(q, call[b])
    BY <2>2 DEF Apart, Holds
  <2>6. UNCHANGED <<acct, rec, row, history>>
    BY <1>4 DEF BeginRead
  <2> QED
    BY <2>2, <2>3, <2>4, <2>5, <2>6, CallGoesOn
<1> QED
  BY <1>2, <1>3, <1>4

LEMMA SweepKeeps ==
  ASSUME CompaniesInv, NEW c \in Callers, SweepTracker(c) \/ SweepTable(c)
  PROVE  CompaniesInv'
<1> USE CompaniesAssumption
<1>1. /\ call \in [Callers -> CallRows] /\ call[c].kind = "delete"
      /\ row \subseteq DealRecords
      /\ CallKnows(call[c])
      /\ \A b \in Callers : b # c => Apart(call[b], call[c]) /\ Apart(call[c], call[b])
  BY DEF CompaniesInv, RecordsInv, SweepTracker, SweepTable
<1>2. call[c] \in CallRows
  BY <1>1
<1>3. CASE SweepTracker(c)
  <2>1. PICK q : q = [call[c] EXCEPT !.at = 1, !.swept = SweptRows(call[c].a)]
    OBVIOUS
  <2>2. /\ q \in CallRows /\ q.kind = "delete" /\ q.a = call[c].a /\ q.taken = call[c].taken
        /\ q.at = 1 /\ q.swept = {r \in row : rec[r].acct = q.a}
    BY <1>1, <1>2, <2>1 DEF CallRows, SweptRows, DealRecords
  <2>3. call' = [call EXCEPT ![c] = q]
    BY <1>3, <2>1 DEF SweepTracker
  <2>4. CallKnows(q)
    BY <1>1, <2>2 DEF CallKnows, DeleteKnows, ReadKnows, RetireKnows
  <2>5. \A b \in Callers : b # c => Apart(call[b], q) /\ Apart(q, call[b])
    BY <1>1, <2>2 DEF Apart, Holds
  <2>6. UNCHANGED <<acct, rec, row, history>>
    BY <1>3 DEF SweepTracker
  <2> QED
    BY <1>1, <2>2, <2>3, <2>4, <2>5, <2>6, CallGoesOn
<1>4. CASE SweepTable(c)
  <2>0. PICK rs : rs = Matching(call[c].a, Tables[call[c].at])
    OBVIOUS
  <2>1. PICK q : q = [call[c] EXCEPT !.at = call[c].at + 1, !.taken = call[c].taken \cup rs]
    OBVIOUS
  <2>2. /\ rs = {r \in LiveUnder(call[c].a) : Table[r] = Tables[call[c].at]}
        /\ \A r \in rs : r \in Records /\ ~ Held(r) /\ rec[r].acct = call[c].a /\ ~ rec[r].dead
    BY <1>4, <2>0 DEF Matching, LiveUnder, SweepTable
  <2>3. /\ q \in CallRows /\ q.kind = "delete" /\ q.a = call[c].a /\ q.taken = call[c].taken \cup rs
        /\ q.at = call[c].at + 1 /\ q.swept = call[c].swept /\ call[c].at \in 1 .. 5
    <3>1. /\ call[c].at \in 1 .. 5 /\ call[c].at + 1 \in Nat
          /\ call[c].taken \cup rs \in SUBSET Records
      BY <1>2, <1>4, <2>2, AllTables DEF CallRows, SweepTable
    <3> QED
      BY <1>1, <1>2, <2>1, <3>1 DEF CallRows
  <2>4. call' = [call EXCEPT ![c] = q]
    BY <1>4, <2>0, <2>1 DEF SweepTable
  <2>5. CallKnows(q)
    <3>1. DeleteKnows(call[c])
      BY <1>1 DEF CallKnows
    <3>2. \A r \in LiveUnder(q.a) :
            (\E j \in 1 .. 5 : j < q.at /\ Table[r] = Tables[j]) => r \in q.taken \cup late
      <4> SUFFICES ASSUME NEW r \in LiveUnder(q.a), NEW j \in 1 .. 5, j < q.at, Table[r] = Tables[j]
                   PROVE  r \in q.taken \cup late
        OBVIOUS
      <4>1. j < call[c].at \/ j = call[c].at
        BY <2>3
      <4> QED
        BY <1>1, <2>2, <2>3, <3>1, <4>1 DEF DeleteKnows
    <3>3. \A r \in q.taken : rec[r].acct = q.a /\ ~ rec[r].dead
      BY <1>1, <2>2, <2>3, <3>1 DEF DeleteKnows
    <3>4. \A r \in row : rec[r].acct = q.a => r \in q.swept \cup late
      BY <1>1, <2>3, <3>1 DEF DeleteKnows
    <3> QED
      BY <1>1, <2>3, <3>1, <3>2, <3>3, <3>4 DEF CallKnows, DeleteKnows, ReadKnows, RetireKnows
  <2>6. \A b \in Callers : b # c => Apart(call[b], q) /\ Apart(q, call[b])
    <3>1. \A b \in Callers : Holds(call[b]) => call[b].taken \cap rs = {}
      BY <2>2 DEF Held, Holds
    <3> QED
      BY <1>1, <2>3, <3>1 DEF Apart, Holds
  <2>7. UNCHANGED <<acct, rec, row, history>>
    BY <1>4 DEF SweepTable
  <2> QED
    BY <1>1, <2>3, <2>4, <2>5, <2>6, <2>7, CallGoesOn
<1> QED
  BY <1>3, <1>4

LEMMA ReadKeeps ==
  ASSUME CompaniesInv, NEW c \in Callers, ReadSection(c) \/ MissSection(c)
  PROVE  CompaniesInv'
<1> USE CompaniesAssumption
<1>1. /\ call \in [Callers -> CallRows] /\ call[c].kind = "read" /\ call[c].at \in 1 .. 5
      /\ ReadKnows(call[c])
      /\ UNCHANGED <<acct, rec, row, history>>
  BY AllTables DEF CompaniesInv, RecordsInv, CallKnows, ReadSection, MissSection
<1>2. call[c] \in CallRows
  BY <1>1
<1>3. ASSUME NEW q \in CallRows, q.kind \in {"read", "idle"}, ReadKnows(q), call' = [call EXCEPT ![c] = q]
      PROVE  CompaniesInv'
  <2>1. CallKnows(q)
    BY <1>3 DEF CallKnows, DeleteKnows, RetireKnows
  <2>2. \A b \in Callers : b # c => Apart(call[b], q) /\ Apart(q, call[b])
    BY <1>3 DEF Apart, Holds
  <2> QED
    BY <1>1, <1>3, <2>1, <2>2, CallGoesOn
<1>4. CASE ReadSection(c)
  <2>0. PICK rs : rs = {r \in Listed(call[c].a, call[c].n) : Table[r] = Sections[call[c].at]}
    OBVIOUS
  <2>1. PICK q : q = [call[c] EXCEPT !.taken = call[c].taken \cup rs, !.at = call[c].at + 1]
    OBVIOUS
  <2>2. /\ rs \subseteq Records
        /\ \A r \in LiveUnder(call[c].a) : Table[r] = Sections[call[c].at] => r \in rs
    BY <2>0 DEF Listed, LiveUnder
  <2>3. /\ q \in CallRows /\ q.kind = "read" /\ q.a = call[c].a /\ q.taken = call[c].taken \cup rs
        /\ q.at = call[c].at + 1 /\ q.swept = call[c].swept
    <3>1. call[c].at + 1 \in Nat /\ call[c].taken \cup rs \in SUBSET Records
      BY <1>2, <2>2 DEF CallRows
    <3> QED
      BY <1>1, <1>2, <2>1, <3>1 DEF CallRows
  <2>4. call' = [call EXCEPT ![c] = q]
    BY <1>4, <2>0, <2>1 DEF ReadSection
  <2>5. ASSUME NEW r \in q.swept, NEW j \in 1 .. 5, j < q.at, Table[r] = Sections[j]
        PROVE  r \in q.taken
    <3>1. j < call[c].at \/ j = call[c].at
      BY <1>1, <2>3, <2>5
    <3>2. r \in LiveUnder(call[c].a)
      BY <1>1, <2>3 DEF ReadKnows, LiveUnder
    <3> QED
      BY <1>1, <2>2, <2>3, <2>5, <3>1, <3>2 DEF ReadKnows
  <2>6. ReadKnows(q)
    BY <1>1, <2>3, <2>5 DEF ReadKnows
  <2> QED
    BY <1>3, <2>3, <2>4, <2>6
<1>5. CASE MissSection(c) /\ Loud(Sections[call[c].at])
  <2>1. call' = [call EXCEPT ![c] = NoCall]
    BY <1>5 DEF MissSection
  <2>2. NoCall \in CallRows /\ NoCall.kind = "idle" /\ ReadKnows(NoCall)
    BY DEF NoCall, CallRows, ReadKnows
  <2> QED
    BY <1>3, <2>1, <2>2
<1>6. CASE MissSection(c) /\ ~ Loud(Sections[call[c].at])
  <2>0. PICK rs : rs = {r \in call[c].swept : Table[r] = "invoices" \/ Table[r] # Sections[call[c].at]}
    OBVIOUS
  <2>1. PICK q : q = [call[c] EXCEPT !.at = call[c].at + 1, !.swept = rs]
    OBVIOUS
  <2>2. /\ q \in CallRows /\ q.kind = "read" /\ q.a = call[c].a /\ q.taken = call[c].taken
        /\ q.at = call[c].at + 1 /\ q.swept = rs /\ rs \subseteq call[c].swept
    <3>1. call[c].at + 1 \in Nat /\ rs \subseteq call[c].swept /\ rs \in SUBSET (Records \cup Accounts)
      BY <1>2, <2>0 DEF CallRows
    <3> QED
      BY <1>1, <1>2, <2>1, <3>1 DEF CallRows
  <2>3. call' = [call EXCEPT ![c] = q]
    BY <1>6, <2>0, <2>1 DEF MissSection
  <2>4. \A r \in rs : Table[r] # Sections[call[c].at]
    BY <1>6, <2>0 DEF Loud
  <2>5. ASSUME NEW r \in q.swept, NEW j \in 1 .. 5, j < q.at, Table[r] = Sections[j]
        PROVE  r \in q.taken
    <3>1. j < call[c].at \/ j = call[c].at
      BY <1>1, <2>2, <2>5
    <3> QED
      BY <1>1, <2>2, <2>4, <2>5, <3>1 DEF ReadKnows
  <2>6. ReadKnows(q)
    BY <1>1, <2>2, <2>5 DEF ReadKnows
  <2> QED
    BY <1>3, <2>2, <2>3, <2>6
<1> QED
  BY <1>4, <1>5, <1>6

LEMMA EndKeeps ==
  ASSUME CompaniesInv, NEW c \in Callers, Rollback(c) \/ Show(c)
  PROVE  CompaniesInv'
<1>1. /\ call' = [call EXCEPT ![c] = NoCall] /\ call[c].kind # "save"
      /\ UNCHANGED <<acct, rec, row, history>>
  BY DEF Rollback, Show
<1>2. NoCall \in CallRows /\ NoCall.kind = "idle"
  BY DEF NoCall, CallRows
<1>3. CallKnows(NoCall) /\ \A q : Apart(NoCall, q) /\ Apart(q, NoCall)
  BY <1>2 DEF CallKnows, DeleteKnows, ReadKnows, RetireKnows, Apart, Holds
<1> QED
  BY <1>1, <1>2, <1>3, CallGoesOn

(* Names and profiles.                                                     *)
LEMMA CreateKeeps ==
  ASSUME CompaniesInv, NEW a \in Accounts, NEW n \in Names, Create(a, n) \/ Update(a, n)
  PROVE  CompaniesInv'
<1> USE CompaniesAssumption
<1>1. /\ acct \in [Accounts -> [name : Names \cup {Unset}, dead : BOOLEAN, profile : Names \cup {Unset}]]
      /\ \A b \in Accounts : ~ Exists(b) => ~ acct[b].dead /\ acct[b].profile = Unset
      /\ \A c \in Callers : SaveKnows(call[c]) /\ ConvertKnows(call[c])
      /\ TwinsComeFromRaces /\ SavedTogether
      /\ call \in [Callers -> CallRows]
  BY DEF CompaniesInv, NamesInv, RecordsInv
<1>2. /\ acct' = [acct EXCEPT ![a].name = n]
      /\ UNCHANGED <<rec, row, call, late>>
      /\ mixed \subseteq mixed' /\ \A b : b # a => (b \in mixed' => b \in mixed)
      /\ twin \subseteq twin'
      /\ a \in twin' \/ Named(n) \subseteq {a}
  BY DEF Create, Update, Renamed
<1>3. a \in mixed' \/ (acct[a].profile = Unset /\ ~ Saving(a))
  <2>1. CASE Create(a, n)
    BY <1>1, <2>1 DEF Create, Saving, SaveKnows
  <2>2. CASE Update(a, n)
    BY <2>2 DEF Update
  <2> QED
    BY <2>1, <2>2
<1>4. /\ acct' \in [Accounts -> [name : Names \cup {Unset}, dead : BOOLEAN, profile : Names \cup {Unset}]]
      /\ \A b \in Accounts : /\ acct'[b].dead = acct[b].dead /\ acct'[b].profile = acct[b].profile
                             /\ b # a => acct'[b].name = acct[b].name
                             /\ Exists(b) => Exists(b)'
      /\ acct'[a].name = n
  BY <1>1, <1>2 DEF Exists
<1>5. TwinsComeFromRaces'
  <2> SUFFICES ASSUME NEW x \in Accounts, NEW y \in Accounts, x # y,
                      Live(x)', Live(y)', acct'[x].name = acct'[y].name
               PROVE  x \in twin' \/ y \in twin'
    BY DEF TwinsComeFromRaces
  <2>1. CASE x # a /\ y # a
    BY <1>1, <1>2, <1>4, <2>1 DEF TwinsComeFromRaces, Live, Exists
  <2>2. CASE x = a
    <3>1. y \in Named(n)
      BY <1>4, <2>2 DEF Named, Live, Exists
    <3> QED
      BY <1>2, <2>2, <3>1
  <2>3. CASE y = a
    <3>1. x \in Named(n)
      BY <1>4, <2>3 DEF Named, Live, Exists
    <3> QED
      BY <1>2, <2>3, <3>1
  <2> QED
    BY <2>1, <2>2, <2>3
<1>6. SavedTogether'
  BY <1>1, <1>2, <1>3, <1>4 DEF SavedTogether, Saving
<1>7. ASSUME NEW c \in Callers PROVE SaveKnows(call[c])' /\ ConvertKnows(call[c])'
  BY <1>1, <1>2, <1>3, <1>4 DEF SaveKnows, ConvertKnows, Saving
<1>8. \A b \in Accounts : ~ Exists(b)' => ~ acct'[b].dead /\ acct'[b].profile = Unset
  BY <1>1, <1>4
<1>9. NamesInv'
  BY <1>4, <1>5, <1>6, <1>7, <1>8 DEF NamesInv
<1>10. RecordsInv'
  BY <1>1, <1>2, <1>4, RecordsStay
<1> QED
  BY <1>9, <1>10 DEF CompaniesInv

LEMMA SaveNameKeeps ==
  ASSUME CompaniesInv, NEW c \in Callers, NEW a \in Accounts, NEW n \in Names, SaveName(c, a, n)
  PROVE  CompaniesInv'
<1> USE CompaniesAssumption
<1>0. PICK q : q = [NoCall EXCEPT !.kind = "save", !.a = a, !.n = n]
  OBVIOUS
<1>1. /\ acct \in [Accounts -> [name : Names \cup {Unset}, dead : BOOLEAN, profile : Names \cup {Unset}]]
      /\ \A b \in Accounts : ~ Exists(b) => ~ acct[b].dead /\ acct[b].profile = Unset
      /\ \A b \in Callers : SaveKnows(call[b]) /\ ConvertKnows(call[b])
      /\ TwinsComeFromRaces /\ SavedTogether
      /\ call \in [Callers -> CallRows] /\ NoCall.kind = "idle"
      /\ q \in CallRows /\ q.kind = "save" /\ q.a = a /\ q.n = n
  BY <1>0 DEF CompaniesInv, NamesInv, RecordsInv, NoCall, CallRows
<1>2. /\ acct' = [acct EXCEPT ![a].name = n]
      /\ UNCHANGED <<rec, row, late>>
      /\ mixed' = IF Saving(a) THEN mixed \cup {a} ELSE mixed \ {a}
      /\ twin \subseteq twin'
      /\ a \in twin' \/ Named(n) \subseteq {a}
      /\ call' = [call EXCEPT ![c] = q] /\ call[c].kind = "idle"
  BY <1>0, <1>1 DEF SaveName, Renamed
<1>3. /\ call' \in [Callers -> CallRows] /\ call'[c] = q
      /\ \A b \in Callers : b # c => call'[b] = call[b]
  BY <1>1, <1>2
<1>4. /\ acct' \in [Accounts -> [name : Names \cup {Unset}, dead : BOOLEAN, profile : Names \cup {Unset}]]
      /\ \A b \in Accounts : /\ acct'[b].dead = acct[b].dead /\ acct'[b].profile = acct[b].profile
                             /\ b # a => acct'[b].name = acct[b].name
                             /\ Exists(b) => Exists(b)'
      /\ acct'[a].name = n
  BY <1>1, <1>2 DEF Exists
<1>5. TwinsComeFromRaces'
  <2> SUFFICES ASSUME NEW x \in Accounts, NEW y \in Accounts, x # y,
                      Live(x)', Live(y)', acct'[x].name = acct'[y].name
               PROVE  x \in twin' \/ y \in twin'
    BY DEF TwinsComeFromRaces
  <2>1. CASE x # a /\ y # a
    BY <1>1, <1>2, <1>4, <2>1 DEF TwinsComeFromRaces, Live, Exists
  <2>2. CASE x = a
    <3>1. y \in Named(n)
      BY <1>4, <2>2 DEF Named, Live, Exists
    <3> QED
      BY <1>2, <2>2, <3>1
  <2>3. CASE y = a
    <3>1. x \in Named(n)
      BY <1>4, <2>3 DEF Named, Live, Exists
    <3> QED
      BY <1>2, <2>3, <3>1
  <2> QED
    BY <2>1, <2>2, <2>3
<1>6. SavedTogether'
  <2>1. Saving(a)' /\ \A b \in Accounts : Saving(b) => Saving(b)'
    BY <1>1, <1>2, <1>3 DEF Saving
  <2> QED
    BY <1>1, <1>2, <1>4, <2>1 DEF SavedTogether
<1>7. ASSUME NEW b \in Callers PROVE SaveKnows(call[b])' /\ ConvertKnows(call[b])'
  <2>1. CASE b = c
    BY <1>1, <1>3, <1>4, <2>1 DEF SaveKnows, ConvertKnows, Exists
  <2>2. CASE b # c
    BY <1>1, <1>2, <1>3, <1>4, <2>2 DEF SaveKnows, ConvertKnows, Saving
  <2> QED
    BY <2>1, <2>2
<1>8. \A b \in Accounts : ~ Exists(b)' => ~ acct'[b].dead /\ acct'[b].profile = Unset
  BY <1>1, <1>4
<1>9. NamesInv'
  BY <1>4, <1>5, <1>6, <1>7, <1>8 DEF NamesInv
<1>10. RecordsInv'
  BY <1>1, <1>2, <1>3, <1>4, RecordsStay
<1> QED
  BY <1>9, <1>10 DEF CompaniesInv

LEMMA SaveProfileKeeps ==
  ASSUME CompaniesInv, NEW c \in Callers, SaveProfile(c) \/ LoseProfile(c)
  PROVE  CompaniesInv'
<1> USE CompaniesAssumption
<1>0. PICK a : a = call[c].a
  OBVIOUS
<1>1. /\ acct \in [Accounts -> [name : Names \cup {Unset}, dead : BOOLEAN, profile : Names \cup {Unset}]]
      /\ \A b \in Accounts : ~ Exists(b) => ~ acct[b].dead /\ acct[b].profile = Unset
      /\ \A b \in Callers : SaveKnows(call[b]) /\ ConvertKnows(call[b])
      /\ TwinsComeFromRaces /\ SavedTogether
      /\ call \in [Callers -> CallRows] /\ NoCall \in CallRows /\ NoCall.kind = "idle"
  BY DEF CompaniesInv, NamesInv, RecordsInv, NoCall, CallRows
<1>2. /\ UNCHANGED <<rec, row, late, twin>> /\ call[c].kind = "save"
      /\ call' = [call EXCEPT ![c] = NoCall]
      /\ \/ acct' = [acct EXCEPT ![a].profile = call[c].n] /\ mixed' = mixed
         \/ acct' = acct /\ mixed' = mixed \cup {a}
  BY <1>0 DEF SaveProfile, LoseProfile, NewProfile, history
<1>3. /\ call' \in [Callers -> CallRows] /\ call'[c].kind = "idle"
      /\ \A b \in Callers : b # c => call'[b] = call[b]
  BY <1>1, <1>2
<1>4. /\ a \in Accounts /\ Exists(a) /\ call[c].n \in Names
      /\ a \notin mixed => call[c].n = acct[a].name
  BY <1>0, <1>1, <1>2 DEF SaveKnows
<1>5. /\ acct' \in [Accounts -> [name : Names \cup {Unset}, dead : BOOLEAN, profile : Names \cup {Unset}]]
      /\ \A b \in Accounts : /\ acct'[b].dead = acct[b].dead /\ acct'[b].name = acct[b].name
                             /\ b # a => acct'[b].profile = acct[b].profile
      /\ a \in mixed' \/ acct'[a].profile = acct[a].name
      /\ mixed \subseteq mixed'
  BY <1>1, <1>2, <1>4
<1>6. \A b \in Accounts : (Exists(b)' <=> Exists(b)) /\ (Live(b)' <=> Live(b))
  BY <1>5 DEF Exists, Live
<1>7. TwinsComeFromRaces'
  BY <1>1, <1>2, <1>5, <1>6 DEF TwinsComeFromRaces
<1>8. SavedTogether'
  <2> SUFFICES ASSUME NEW b \in Accounts, b \notin mixed', ~ Saving(b)'
               PROVE  acct'[b].profile \in {Unset, acct'[b].name}
    BY DEF SavedTogether
  <2>1. CASE b = a
    BY <1>5, <2>1
  <2>2. CASE b # a
    <3>1. ~ Saving(b)
      BY <1>0, <1>3, <2>2 DEF Saving
    <3> QED
      BY <1>1, <1>5, <2>2, <3>1 DEF SavedTogether
  <2> QED
    BY <2>1, <2>2
<1>9. ASSUME NEW b \in Callers PROVE SaveKnows(call[b])' /\ ConvertKnows(call[b])'
  BY <1>1, <1>3, <1>5, <1>6 DEF SaveKnows, ConvertKnows
<1>10. \A b \in Accounts : ~ Exists(b)' => ~ acct'[b].dead /\ acct'[b].profile = Unset
  BY <1>1, <1>4, <1>5, <1>6
<1>11. NamesInv'
  BY <1>5, <1>7, <1>8, <1>9, <1>10 DEF NamesInv
<1>12. RecordsInv'
  BY <1>2, <1>3, <1>5, <1>6, RecordsStay, SMTT(60)
<1> QED
  BY <1>11, <1>12 DEF CompaniesInv

LEMMA LookUpKeeps ==
  ASSUME CompaniesInv, NEW c \in Callers, NEW n \in Names, LookUp(c, n)
  PROVE  CompaniesInv'
<1> USE CompaniesAssumption
<1>1. /\ call \in [Callers -> CallRows] /\ NoCall.kind = "idle" /\ call[c] = NoCall
      /\ \A b \in Callers : SaveKnows(call[b]) /\ ConvertKnows(call[b])
      /\ TwinsComeFromRaces /\ SavedTogether
      /\ UNCHANGED <<acct, rec, row, history>>
  BY DEF CompaniesInv, NamesInv, RecordsInv, NoCall, LookUp
<1>2. ASSUME NEW a \in Accounts, NEW q \in CallRows, q.kind = "convert", q.a = a, q.n = n,
             Exists(a) \/ q.swept = {}, call' = [call EXCEPT ![c] = q]
      PROVE  CompaniesInv'
  <2>1. /\ call' \in [Callers -> CallRows] /\ call'[c] = q
        /\ \A b \in Callers : b # c => call'[b] = call[b]
    BY <1>1, <1>2
  <2>2. \A b : /\ Exists(b)' = Exists(b) /\ Live(b)' = Live(b)
               /\ Saving(b) => Saving(b)'
    BY <1>1, <2>1 DEF Exists, Live, Saving
  <2>3. ASSUME NEW b \in Callers PROVE SaveKnows(call[b])' /\ ConvertKnows(call[b])'
    <3>1. CASE b = c
      BY <1>2, <2>1, <2>2, <3>1 DEF SaveKnows, ConvertKnows
    <3>2. CASE b # c
      BY <1>1, <2>1, <2>2, <3>2 DEF SaveKnows, ConvertKnows, history
    <3> QED
      BY <3>1, <3>2
  <2>4. NamesInv'
    BY <1>1, <2>2, <2>3 DEF CompaniesInv, NamesInv, TwinsComeFromRaces, SavedTogether, history
  <2>5. RecordsInv'
    BY <1>1, <1>2, <2>1, <2>2, RecordsStay DEF history
  <2> QED
    BY <2>4, <2>5 DEF CompaniesInv
<1>3. CASE \E a \in FoundByName(n) :
             call' = [call EXCEPT ![c] = [NoCall EXCEPT !.kind = "convert", !.a = a, !.n = n]]
  <2>1. PICK a \in FoundByName(n) :
          call' = [call EXCEPT ![c] = [NoCall EXCEPT !.kind = "convert", !.a = a, !.n = n]]
    BY <1>3
  <2>2. PICK q : q = [NoCall EXCEPT !.kind = "convert", !.a = a, !.n = n]
    OBVIOUS
  <2>3. a \in Accounts /\ Exists(a)
    BY DEF FoundByName, Named, Live
  <2>4. q \in CallRows /\ q.kind = "convert" /\ q.a = a /\ q.n = n
    BY <2>2, <2>3 DEF NoCall, CallRows
  <2> QED
    BY <1>2, <2>1, <2>2, <2>3, <2>4
<1>4. CASE /\ FoundByName(n) = {}
           /\ \E a \in Accounts :
                call' = [call EXCEPT ![c] = [NoCall EXCEPT !.kind = "convert", !.a = a, !.n = n,
                                                           !.swept = Named(n)]]
  <2>1. PICK a \in Accounts :
          call' = [call EXCEPT ![c] = [NoCall EXCEPT !.kind = "convert", !.a = a, !.n = n,
                                                     !.swept = Named(n)]]
    BY <1>4
  <2>2. PICK q : q = [NoCall EXCEPT !.kind = "convert", !.a = a, !.n = n, !.swept = Named(n)]
    OBVIOUS
  <2>3. Named(n) = {}
    BY <1>4 DEF FoundByName
  <2>4. q \in CallRows /\ q.kind = "convert" /\ q.a = a /\ q.n = n /\ q.swept = {}
    BY <2>2, <2>3 DEF NoCall, CallRows
  <2> QED
    BY <1>2, <2>1, <2>2, <2>4
<1> QED
  BY <1>3, <1>4 DEF LookUp

LEMMA CompaniesInductive == CompaniesInv /\ [CompaniesNext]_companyVars => CompaniesInv'
<1> SUFFICES ASSUME CompaniesInv, [CompaniesNext]_companyVars PROVE CompaniesInv'
  OBVIOUS
<1>1. CASE UNCHANGED companyVars
  <2>1. NamesInv'
    BY <1>1, NamesStay DEF companyVars
  <2>2. RecordsInv'
    BY <1>1, RecordsStay DEF companyVars, Exists, CompaniesInv, RecordsInv
  <2> QED
    BY <2>1, <2>2 DEF CompaniesInv
<1> QED
  BY <1>1, FileKeeps, DropContactKeeps, TrackDealKeeps, CreateKeeps, BeginKeeps, SweepKeeps, CommitDeleteKeeps,
     EndKeeps, CommitRetireKeeps, SaveProfileKeeps, ReadKeeps, SaveNameKeeps, LookUpKeeps, CommitConvertKeeps
  DEF CompaniesNext

LEMMA CompaniesInvariance == CompaniesSpec => []CompaniesInv
  BY InitCompaniesInv, CompaniesInductive, PTL DEF CompaniesSpec

(* Only a deletion retires a record that is not a deal.                    *)
LEMMA RetiredByDeletion ==
  ASSUME CompaniesInv, [CompaniesNext]_companyVars,
         NEW r \in Records, ~ rec[r].dead, rec'[r].dead, Table[r] # "deals"
  PROVE  acct'[rec[r].acct].dead
<1> USE CompaniesAssumption
<1>1. /\ rec \in [Records -> [acct : Accounts \cup {Unset}, dead : BOOLEAN]]
      /\ acct \in [Accounts -> [name : Names \cup {Unset}, dead : BOOLEAN, profile : Names \cup {Unset}]]
      /\ \A c \in Callers : DeleteKnows(call[c]) /\ RetireKnows(call[c])
  BY DEF CompaniesInv, RecordsInv, NamesInv, CallKnows
<1>2. ASSUME NEW x \in Records, NEW a \in Accounts, File(x, a) \/ Refile(x, a) PROVE FALSE
  <2>1. CASE File(x, a)
    BY <1>1, <2>1 DEF File
  <2>2. CASE Refile(x, a)
    BY <1>1, <2>2 DEF Refile
  <2> QED
    BY <1>2, <2>1, <2>2
<1>3. ASSUME NEW x \in Records, DropContact(x) PROVE FALSE
  BY <1>1, <1>3 DEF DropContact
<1>4. ASSUME NEW c \in Callers, NEW x \in Records, CommitConvert(c, x) PROVE FALSE
  BY <1>1, <1>4 DEF CommitConvert
<1>5. ASSUME NEW c \in Callers, CommitRetire(c) PROVE FALSE
  BY <1>1, <1>5 DEF CommitRetire, RetireKnows, DealRecords
<1>6. ASSUME NEW c \in Callers, CommitDelete(c) PROVE acct'[rec[r].acct].dead
  <2>1. r \in call[c].taken /\ rec[r].acct = call[c].a /\ call[c].a \in Accounts
    BY <1>1, <1>6 DEF CommitDelete, DeleteKnows
  <2> QED
    BY <1>1, <1>6, <2>1 DEF CommitDelete
<1>7. rec' # rec
  BY SMTT(60)
<1>8. ASSUME NEW c \in Callers,
             \/ SweepTracker(c) \/ SweepTable(c) \/ Rollback(c) \/ SaveProfile(c) \/ LoseProfile(c)
             \/ ReadSection(c) \/ MissSection(c) \/ Show(c)
      PROVE  FALSE
  BY <1>7, <1>8 DEF SweepTracker, SweepTable, Rollback, SaveProfile, LoseProfile, ReadSection,
                    MissSection, Show
<1>9. ASSUME NEW a \in Accounts, NEW n \in Names, Create(a, n) \/ Update(a, n) PROVE FALSE
  BY <1>7, <1>9 DEF Create, Update
<1>10. ASSUME NEW c \in Callers, NEW a \in Accounts, BeginDelete(c, a) \/ BeginRead(c, a) PROVE FALSE
  BY <1>7, <1>10, SMTT(60) DEF BeginDelete, BeginRead
<1>11. ASSUME NEW c \in Callers, NEW a \in Accounts, NEW n \in Names, SaveName(c, a, n) \/ LookUp(c, n)
       PROVE  FALSE
  BY <1>7, <1>11 DEF SaveName, LookUp
<1>12. ASSUME NEW c \in Callers, NEW n \in Names, LookUp(c, n) PROVE FALSE
  BY <1>7, <1>12 DEF LookUp
<1>13. ASSUME NEW c \in Callers, NEW x \in Records, BeginRetire(c, x) PROVE FALSE
  BY <1>7, <1>13 DEF BeginRetire
<1>14. ASSUME NEW x \in Records, TrackDeal(x) PROVE FALSE
  BY <1>7, <1>14 DEF TrackDeal
<1>15. CASE UNCHANGED companyVars
  BY <1>7, <1>15 DEF companyVars
<1> QED
  BY <1>2, <1>3, <1>4, <1>5, <1>6, <1>8, <1>9, <1>10, <1>11, <1>12, <1>13, <1>14, <1>15 DEF CompaniesNext

(* The rows are of the types of their tables, and no two deletions hold    *)
(* one company or one record (the row locks of accounts.delete).           *)
THEOREM CompaniesTypeCorrect == CompaniesSpec => []CompaniesTypeOK
<1>1. CompaniesInv => CompaniesTypeOK
  BY DEF CompaniesInv, NamesInv, RecordsInv, CompaniesTypeOK, Apart, Holds
<1> QED
  BY <1>1, CompaniesInvariance, PTL

(* A company is deleted with its records and tracker lines, at once, but   *)
(* for what was filed after its deletion began; and nothing but deals is   *)
(* retired otherwise (store.delete of internal/accounts).                  *)
THEOREM DeletionsHold == CompaniesSpec => DeletionIsWhole
<1>1. CompaniesInv => DeletionTakesEverything /\ RetiredDealsLeaveNoLine
  BY DEF CompaniesInv, RecordsInv
<1>2. CompaniesInv /\ [CompaniesNext]_companyVars =>
        [\A r \in Records : LET a == rec[r].acct IN
           a # Unset /\ ~ rec[r].dead /\ rec'[r].dead /\ Table[r] # "deals" => acct'[a].dead]_companyVars
  BY RetiredByDeletion
<1> QED
  BY <1>1, <1>2, CompaniesInvariance, PTL DEF CompaniesSpec, DeletionIsWhole, DeletedAtOnce

(* A profile shows what stood while it was read, is that of one save, and  *)
(* of companies of one name it does not matter which is asked for; only    *)
(* races make them (getFullProfile, upsertProfile, ConvertLead).           *)
THEOREM ProfilesRight == CompaniesSpec => []ProfilesAreWhole
<1>1. CompaniesInv => SavedTogether /\ TwinsComeFromRaces
  BY DEF CompaniesInv, NamesInv
<1>2. CompaniesInv => StandingRecordsAreListed
  <2> SUFFICES ASSUME CompaniesInv, NEW c \in Callers, call[c].kind = "read", call[c].at > 5,
                      NEW r \in call[c].swept
               PROVE  r \in call[c].taken
    BY AllTables DEF StandingRecordsAreListed
  <2>1. ReadKnows(call[c]) /\ call[c].at \in Nat
    BY DEF CompaniesInv, RecordsInv, CallKnows, CallRows
  <2>2. PICK j \in 1 .. 5 : Table[r] = Sections[j]
    BY <2>1, AllTables DEF ReadKnows
  <2>3. j < call[c].at
    BY <2>1
  <2> QED
    BY <2>1, <2>2, <2>3 DEF ReadKnows
<1>3. TwinsShowTheSame
  BY DEF TwinsShowTheSame, Listed, Named
<1> QED
  BY <1>1, <1>2, <1>3, CompaniesInvariance, PTL DEF ProfilesAreWhole
=============================================================================
