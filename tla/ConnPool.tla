------------------------------ MODULE ConnPool ------------------------------
(***************************************************************************)
(* The pool of database connections that every request shares              *)
(* (pkg/database/pool.go, and pgxpool as it uses it).  A request takes a   *)
(* connection for each query or transaction and gives it back.  Three      *)
(* transactions may ask for a second one while they hold theirs: the       *)
(* updates of a quote and of an invoice and the conversion of a lead, when *)
(* their first statement finds no row and explainWriteMiss or              *)
(* explainConvertMiss looks up why, with a query of its own.               *)
(*                                                                         *)
(* No request has a deadline, so who waits for a connection waits until    *)
(* one is free or the client goes away.  A transaction that misses holds   *)
(* no row, and one that holds a row asks for nothing more: waits for rows  *)
(* end by themselves and are left out.                                     *)
(*                                                                         *)
(* A connection that idles grows older by the tick, a period of the pool's *)
(* health check, which closes it when it has idled too long, before the    *)
(* proxy in between drops it without a word.                               *)
(***************************************************************************)
EXTENDS Naturals

CONSTANTS Conns,           \* maxConns of them, 8 in the code
          Handlers,        \* the requests that are served
          Unused, Shut,    \* a connection in the pool; none has been made
          maxConnIdleTime, \* in health checks; 2 in the code (30s and 15s)
          DropAfter        \* when the proxy drops an idle connection ("a minute or so")

ASSUME ConnPoolAssumption ==
  /\ {Unused, Shut} \cap Handlers = {} /\ Unused # Shut
  /\ maxConnIdleTime \in Nat /\ DropAfter \in Nat
  /\ maxConnIdleTime + 1 < DropAfter

VARIABLES
  holder, \* who holds each connection, Unused or Shut
  idle,   \* how long each connection has been unused
  queue,  \* the requests that wait for a connection
  due     \* the health check comes before the next tick

poolVars == <<holder, idle, queue, due>>

PoolInit ==
  /\ holder = [c \in Conns |-> Shut]
  /\ idle = [c \in Conns |-> 0]
  /\ queue = {}
  /\ due = FALSE

HeldBy(h) == {c \in Conns : holder[c] = h}
Free(c)   == holder[c] \in {Unused, Shut}

(* All that h holds becomes as given, Unused or Shut.                      *)
Release(h, as) ==
  /\ holder' = [c \in Conns |-> IF holder[c] = h THEN as ELSE holder[c]]
  /\ idle' = [c \in Conns |-> IF holder[c] = h THEN 0 ELSE idle[c]]

-----------------------------------------------------------------------------
(* A request begins a query or a transaction.                              *)
Ask(h) ==
  /\ h \notin queue /\ HeldBy(h) = {}
  /\ queue' = queue \cup {h}
  /\ UNCHANGED <<holder, idle, due>>

(* An unused connection, or a new one.                                     *)
Acquire(h, c) ==
  /\ h \in queue /\ Free(c)
  /\ holder' = [holder EXCEPT ![c] = h]
  /\ idle' = [idle EXCEPT ![c] = 0]
  /\ queue' = queue \ {h}
  /\ UNCHANGED due

Miss_Nested(h) ==  \* mutation: the explanation misses as well, and is explained
  /\ h \notin queue /\ HeldBy(h) # {}
  /\ queue' = queue \cup {h}
  /\ UNCHANGED <<holder, idle, due>>

(* explainWriteMiss: a second connection, with the transaction still open. *)
Miss(h) ==
  /\ h \notin queue /\ \E c \in Conns : HeldBy(h) = {c}
  /\ queue' = queue \cup {h}
  /\ UNCHANGED <<holder, idle, due>>

Return(h) ==
  /\ h \notin queue /\ HeldBy(h) # {}
  /\ Release(h, Unused)
  /\ UNCHANGED <<queue, due>>

(* The client goes away: its context ends, and so does what it waits for.  *)
GiveUp(h) ==
  /\ h \in queue
  /\ queue' = queue \ {h}
  /\ Release(h, Shut)
  /\ UNCHANGED due

-----------------------------------------------------------------------------
Tick ==
  /\ ~ due
  /\ \E c \in Conns : holder[c] = Unused
  /\ idle' = [c \in Conns |-> IF holder[c] = Unused THEN idle[c] + 1 ELSE 0]
  /\ due' = TRUE
  /\ UNCHANGED <<holder, queue>>

TooOld_Minutes(c) == idle[c] > 4 * maxConnIdleTime  \* mutation: the limit is minutes

TooOld(c) == idle[c] > maxConnIdleTime

HealthCheck ==
  /\ due
  /\ holder' = [c \in Conns |-> IF holder[c] = Unused /\ TooOld(c) THEN Shut ELSE holder[c]]
  /\ idle' = [c \in Conns |-> IF TooOld(c) THEN 0 ELSE idle[c]]
  /\ due' = FALSE
  /\ UNCHANGED queue

PoolNext ==
  \/ \E h \in Handlers : Ask(h) \/ Miss(h) \/ Return(h) \/ GiveUp(h) \/ \E c \in Conns : Acquire(h, c)
  \/ Tick \/ HealthCheck

PoolSpec == PoolInit /\ [][PoolNext]_poolVars

-----------------------------------------------------------------------------
(* The types; a request that waits while it holds a connection holds no    *)
(* other: it is in its transaction, and waits for its second one.          *)
PoolTypeOK ==
  /\ holder \in [Conns -> Handlers \cup {Unused, Shut}]
  /\ idle \in [Conns -> Nat]
  /\ queue \subseteq Handlers /\ due \in BOOLEAN
  /\ \A c, d \in Conns : holder[c] \in queue /\ holder[c] = holder[d] => c = d

(* The pool's transactions wait for each other forever only when every     *)
(* connection is held by a request of its own that missed: it takes        *)
(* maxConns of the three calls at once, each on a record that is gone or   *)
(* no longer a draft, and nothing less (quotes/store.go:277,               *)
(* invoices/store.go:339, leads/convert.go:144).                           *)
GridlockTakesThemAll ==
  (\A c \in Conns : holder[c] \in queue) =>
    \A c, d \in Conns : c # d => holder[c] # holder[d]

(* "retire our own connections before someone else does it for us"         *)
(* (NewPool): no connection in the pool has idled for as long as the proxy *)
(* lets it, as long as the health check runs when it is due.               *)
NoStaleSockets ==
  \A c \in Conns : holder[c] = Unused => idle[c] < DropAfter

(* The pool serves whoever asks it with a live connection, unless requests *)
(* that nest hold all of it.                                               *)
PoolServes == GridlockTakesThemAll /\ NoStaleSockets
=============================================================================
