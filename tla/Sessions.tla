------------------------------ MODULE Sessions ------------------------------
(***************************************************************************)
(* Refresh-token sessions of internal/auth: login, refresh with rotation   *)
(* and reuse detection, and logout.  The shared state is the table         *)
(* refresh_tokens; a request is a process whose steps are the SQL          *)
(* statements it runs, so two requests interleave wherever the code lets   *)
(* go of the database.  Transactions are READ COMMITTED: a statement sees  *)
(* what was committed when it began, an UPDATE waits for a row another     *)
(* open transaction has written and then looks at that row again.          *)
(***************************************************************************)
EXTENDS Naturals, FiniteSets

CONSTANTS Tokens,       \* raw token values (and so rows); drawn at random, never reused
          Requests,     \* request slots: HTTP calls that may be in flight at once
          Clients,      \* browsers and apps that keep one refresh token each
          Users,
          NoToken, NoUser,
          ClientOf,     \* the client a request slot belongs to
          UserOf,       \* the user a client signs in as
          Native,       \* clients that keep the token themselves (body mode)
          Expiring      \* bound: the tokens whose expires_at may pass

ASSUME SessionsAssumption ==
  /\ NoToken \notin Tokens
  /\ NoUser \notin Users
  /\ ClientOf \in [Requests -> Clients]
  /\ UserOf \in [Clients -> Users]
  /\ Native \subseteq Clients
  /\ Expiring \subseteq Tokens

VARIABLES
  state,       \* the row: absent, uncommitted, live or revoked
  user,        \* refresh_tokens.user_id
  root,        \* history: the login token a row descends from
  replacedBy,  \* refresh_tokens.replaced_by
  expired,     \* tokens whose expires_at has passed
  pc,          \* where each request is
  presented,   \* the token a request carries
  successor,   \* the token a request mints
  seen,        \* the rows a revoke-all statement found live when it began
  jar,         \* the token each client would send next
  received,    \* every token each client was ever given
  careful      \* every client does as docs/AUTH.md asks, and every answer arrives

row    == <<state, user, root, replacedBy>>
client == <<jar, received>>
vars   == <<state, user, root, replacedBy, expired, pc, presented, successor,
            seen, jar, received, careful>>

States == {"absent", "uncommitted", "live", "revoked"}
Points == {"idle", "lookup", "insert", "spend", "commit", "scan", "revoke",
           "logout", "reply_session", "reply_invalid", "reply_gone"}

MaybeToken == Tokens \cup {NoToken}
User(p)    == UserOf[ClientOf[p]]

Init ==
  /\ state = [t \in Tokens |-> "absent"]
  /\ user = [t \in Tokens |-> NoUser]
  /\ root = [t \in Tokens |-> t]
  /\ replacedBy = [t \in Tokens |-> NoToken]
  /\ expired = {}
  /\ pc = [p \in Requests |-> "idle"]
  /\ presented = [p \in Requests |-> NoToken]
  /\ successor = [p \in Requests |-> NoToken]
  /\ seen = [p \in Requests |-> {}]
  /\ jar = [c \in Clients |-> NoToken]
  /\ received = [c \in Clients |-> {}]
  /\ careful \in BOOLEAN

Goto(p, point) == pc' = [pc EXCEPT ![p] = point] /\ UNCHANGED careful

(* The row another transaction has written and not yet committed: only the *)
(* spent token of a rotation is ever written before its commit.            *)
LockedFor(p, t) == \E q \in Requests \ {p} : pc[q] = "commit" /\ presented[q] = t

(* Bound: a call starts only while the finite pool has a token for it.     *)
Budget == Cardinality({t \in Tokens : state[t] = "absent"})
            > Cardinality({q \in Requests : pc[q] \in {"lookup", "insert"}})

Ready(p) ==
  /\ pc[p] = "idle"
  /\ careful =>
       \A q \in Requests : ClientOf[q] = ClientOf[p] => pc[q] = "idle"

(* A careful client sends what it was given last; another may send a copy  *)
(* it kept, and a thief sends one for it.                                  *)
Presentable(c) ==
  ({jar[c]} \ {NoToken}) \cup (IF careful THEN {} ELSE received[c])

-----------------------------------------------------------------------------
(* Login, registration, SSO and invitation acceptance end in IssueSession: *)
(* one INSERT of a row that no other token leads to.                       *)
IssueSession(p) ==
  /\ Ready(p) /\ Budget
  /\ \E n \in Tokens :
       /\ state[n] = "absent"
       /\ state' = [state EXCEPT ![n] = "live"]
       /\ user' = [user EXCEPT ![n] = User(p)]
       /\ root' = [root EXCEPT ![n] = n]
       /\ successor' = [successor EXCEPT ![p] = n]
  /\ Goto(p, "reply_session")
  /\ UNCHANGED <<replacedBy, expired, presented, seen, client>>

(* The refresh handler picks the token out of the cookie or the body.      *)
SendRefresh(p) ==
  /\ Ready(p) /\ Budget
  /\ \E t \in Presentable(ClientOf[p]) :
       presented' = [presented EXCEPT ![p] = t]
  /\ Goto(p, "lookup")
  /\ UNCHANGED <<row, expired, successor, seen, client>>

(* refreshTokenByHash, and the three answers Refresh gives to what it read *)
Lookup(p) ==
  /\ pc[p] = "lookup"
  /\ Goto(p, CASE state[presented[p]] = "revoked" -> "scan"
               [] state[presented[p]] # "revoked" /\ presented[p] \in expired -> "reply_invalid"
               [] OTHER -> "insert")
  /\ UNCHANGED <<row, expired, presented, successor, seen, client>>

(* rotateRefreshToken, first statement: the successor, not yet committed.  *)
InsertSuccessor(p) ==
  /\ pc[p] = "insert"
  /\ \E n \in Tokens :
       /\ state[n] = "absent"
       /\ state' = [state EXCEPT ![n] = "uncommitted"]
       /\ user' = [user EXCEPT ![n] = user[presented[p]]]
       /\ root' = [root EXCEPT ![n] = root[presented[p]]]
       /\ successor' = [successor EXCEPT ![p] = n]
  /\ Goto(p, "spend")
  /\ UNCHANGED <<replacedBy, expired, presented, seen, client>>

(* Second statement, UPDATE ... WHERE id = $1 AND revoked_at IS NULL: it   *)
(* waits for a concurrent writer, then spends the row if it is still live  *)
(* and otherwise gives up, which rolls the successor back.                 *)
SpendGuard_Dropped(p) == TRUE  \* mutation: no revoked_at IS NULL

SpendGuard(p) == state[presented[p]] = "live"

SpendPresented(p) ==
  /\ pc[p] = "spend"
  /\ ~LockedFor(p, presented[p])
  /\ SpendGuard(p)
  /\ Goto(p, "commit")
  /\ UNCHANGED <<row, expired, presented, successor, seen, client>>

SpendRefused_Retries(p) ==  \* mutation: loops on zero rows instead of giving up
  /\ pc[p] = "spend"
  /\ ~LockedFor(p, presented[p])
  /\ ~SpendGuard(p)
  /\ UNCHANGED vars

SpendRefused(p) ==
  /\ pc[p] = "spend"
  /\ ~LockedFor(p, presented[p])
  /\ ~SpendGuard(p)
  /\ state' = [state EXCEPT ![successor[p]] = "absent"]
  /\ successor' = [successor EXCEPT ![p] = NoToken]
  /\ Goto(p, "reply_invalid")
  /\ UNCHANGED <<user, root, replacedBy, expired, presented, seen, client>>

CommitRotation_NoInsert(p) ==  \* mutation: the successor is not in the transaction
  /\ pc[p] = "commit"
  /\ state' = [state EXCEPT ![presented[p]] = "revoked", ![successor[p]] = "absent"]
  /\ replacedBy' = [replacedBy EXCEPT ![presented[p]] = successor[p]]
  /\ Goto(p, "reply_session")
  /\ UNCHANGED <<user, root, expired, presented, successor, seen, client>>

CommitRotation(p) ==
  /\ pc[p] = "commit"
  /\ state' = [state EXCEPT ![presented[p]] = "revoked", ![successor[p]] = "live"]
  /\ replacedBy' = [replacedBy EXCEPT ![presented[p]] = successor[p]]
  /\ Goto(p, "reply_session")
  /\ UNCHANGED <<user, root, expired, presented, successor, seen, client>>

(* revokeAllRefreshTokens: one UPDATE.  Its snapshot is taken when it      *)
(* begins; it finishes when no row of the snapshot is being written, and   *)
(* revokes the rows that are then still live.                              *)
RevokeAllScan(p) ==
  /\ pc[p] = "scan"
  /\ seen' = [seen EXCEPT ![p] =
       {t \in Tokens : user[t] = user[presented[p]] /\ state[t] = "live"}]
  /\ Goto(p, "revoke")
  /\ UNCHANGED <<row, expired, presented, successor, client>>

RevokeAllApply_SkipLocked(p) ==  \* mutation: FOR UPDATE SKIP LOCKED
  /\ pc[p] = "revoke"
  /\ state' = [t \in Tokens |-> IF t \in seen[p] /\ ~LockedFor(p, t) THEN "revoked" ELSE state[t]]
  /\ Goto(p, "reply_invalid")
  /\ UNCHANGED <<user, root, replacedBy, expired, presented, successor, seen, client>>

RevokeAllApply(p) ==
  /\ pc[p] = "revoke"
  /\ \A t \in seen[p] : ~LockedFor(p, t)
  /\ state' = [t \in Tokens |-> IF t \in seen[p] THEN "revoked" ELSE state[t]]
  /\ Goto(p, "reply_invalid")
  /\ UNCHANGED <<user, root, replacedBy, expired, presented, successor, seen, client>>

(* logout: the handler skips the database when no token came with the call *)
SendLogout(p) ==
  /\ Ready(p)
  /\ \E t \in Presentable(ClientOf[p]) :
       presented' = [presented EXCEPT ![p] = t]
  /\ Goto(p, "logout")
  /\ UNCHANGED <<row, expired, successor, seen, client>>

SendBlankLogout(p) ==
  /\ Ready(p)
  /\ Presentable(ClientOf[p]) = {}
  /\ Goto(p, "reply_gone")
  /\ UNCHANGED <<row, expired, presented, successor, seen, client>>

(* revokeRefreshToken: guarded by revoked_at IS NULL, silent when it misses *)
RevokePresented_NewStatus(p) ==  \* mutation: a status the rest does not know
  /\ pc[p] = "logout"
  /\ state' = [state EXCEPT ![presented[p]] = "logged out"]
  /\ Goto(p, "reply_gone")
  /\ UNCHANGED <<user, root, replacedBy, expired, presented, successor, seen, client>>

RevokePresented_Unexpired(p) ==  \* mutation: AND expires_at > now()
  /\ pc[p] = "logout"
  /\ ~LockedFor(p, presented[p])
  /\ state' = [state EXCEPT ![presented[p]] = IF presented[p] \in expired THEN @ ELSE "revoked"]
  /\ Goto(p, "reply_gone")
  /\ UNCHANGED <<user, root, replacedBy, expired, presented, successor, seen, client>>

RevokePresented(p) ==
  /\ pc[p] = "logout"
  /\ ~LockedFor(p, presented[p])
  /\ state' = [state EXCEPT ![presented[p]] = "revoked"]
  /\ Goto(p, "reply_gone")
  /\ UNCHANGED <<user, root, replacedBy, expired, presented, successor, seen, client>>

-----------------------------------------------------------------------------
(* Answers.  A session overwrites the client's token; a 401 clears a       *)
(* cookie, but a native client is left with what it sent; a 204 ends in    *)
(* an empty jar for both.                                                  *)
Finish(p) ==
  /\ Goto(p, "idle")
  /\ presented' = [presented EXCEPT ![p] = NoToken]
  /\ successor' = [successor EXCEPT ![p] = NoToken]
  /\ seen' = [seen EXCEPT ![p] = {}]
  /\ UNCHANGED <<user, root, replacedBy, expired>>

ReplySession_NoOverwrite(p) ==  \* mutation: a native client keeps its old token
  /\ pc[p] = "reply_session"
  /\ jar' = [jar EXCEPT ![ClientOf[p]] =
       IF ClientOf[p] \in Native /\ presented[p] # NoToken THEN @ ELSE successor[p]]
  /\ received' = [received EXCEPT ![ClientOf[p]] = @ \cup {successor[p]}]
  /\ Finish(p)
  /\ UNCHANGED state

ReplySession_EchoesOld(p) ==  \* mutation: the cookie is set to the spent token
  /\ pc[p] = "reply_session"
  /\ jar' = [jar EXCEPT ![ClientOf[p]] =
       IF presented[p] # NoToken THEN presented[p] ELSE successor[p]]
  /\ received' = [received EXCEPT ![ClientOf[p]] = @ \cup {successor[p]}]
  /\ Finish(p)
  /\ UNCHANGED state

ReplySession(p) ==
  /\ pc[p] = "reply_session"
  /\ jar' = [jar EXCEPT ![ClientOf[p]] = successor[p]]
  /\ received' = [received EXCEPT ![ClientOf[p]] = @ \cup {successor[p]}]
  /\ Finish(p)
  /\ UNCHANGED state

ReplyInvalid(p) ==
  /\ pc[p] = "reply_invalid"
  /\ jar' = [jar EXCEPT ![ClientOf[p]] = IF ClientOf[p] \in Native THEN @ ELSE NoToken]
  /\ Finish(p)
  /\ UNCHANGED <<state, received>>

ReplyGone(p) ==
  /\ pc[p] = "reply_gone"
  /\ jar' = [jar EXCEPT ![ClientOf[p]] = NoToken]
  /\ Finish(p)
  /\ UNCHANGED <<state, received>>

(* The connection drops after the server has done its work.                *)
LoseReply(p) ==
  /\ ~careful
  /\ pc[p] \in {"reply_session", "reply_invalid", "reply_gone"}
  /\ Finish(p)
  /\ UNCHANGED <<state, client>>

(* A statement fails, the request is cancelled or the gateway stops: the   *)
(* transaction rolls back, and the client sees an error and keeps its jar. *)
Fail(p) ==
  /\ pc[p] \in {"lookup", "insert", "spend", "commit", "scan", "revoke", "logout"}
  /\ state' = [t \in Tokens |-> IF t = successor[p] THEN "absent" ELSE state[t]]
  /\ Finish(p)
  /\ UNCHANGED client

Expire(t) ==
  /\ t \in Expiring \ expired /\ state[t] = "live"
  /\ expired' = expired \cup {t}
  /\ UNCHANGED <<row, pc, presented, successor, seen, client, careful>>

Waiting(p) == SpendPresented(p) \/ SpendRefused(p) \/ RevokeAllApply(p) \/ RevokePresented(p)
Working(p) ==
  \/ Lookup(p) \/ InsertSuccessor(p) \/ CommitRotation(p) \/ RevokeAllScan(p)
  \/ ReplySession(p) \/ ReplyInvalid(p) \/ ReplyGone(p)
Calling(p) == IssueSession(p) \/ SendRefresh(p) \/ SendLogout(p) \/ SendBlankLogout(p)

Next ==
  \/ \E p \in Requests : Calling(p) \/ Working(p) \/ Waiting(p) \/ LoseReply(p) \/ Fail(p)
  \/ \E t \in Tokens : Expire(t)

Spec == Init /\ [][Next]_vars

(* net/http runs every accepted request to its answer, and PostgreSQL      *)
(* queues the transactions that wait for a row.                            *)
FairSpec == Spec /\ \A p \in Requests : WF_vars(Working(p)) /\ SF_vars(Waiting(p))

-----------------------------------------------------------------------------
(* Every variable holds a value of its kind, and a request that has a      *)
(* token in hand has one (shape of refresh_tokens and of the request).     *)
TypeOK ==
  /\ state \in [Tokens -> States]
  /\ user \in [Tokens -> Users \cup {NoUser}]
  /\ root \in [Tokens -> Tokens]
  /\ replacedBy \in [Tokens -> MaybeToken]
  /\ expired \subseteq Tokens
  /\ pc \in [Requests -> Points]
  /\ presented \in [Requests -> MaybeToken]
  /\ successor \in [Requests -> MaybeToken]
  /\ seen \in [Requests -> SUBSET Tokens]
  /\ jar \in [Clients -> MaybeToken]
  /\ received \in [Clients -> SUBSET Tokens]
  /\ careful \in BOOLEAN

Session(t) == {u \in Tokens : root[u] = root[t] /\ state[u] \in {"live", "revoked"}}

(* However many refreshes race with one token, a login never has two       *)
(* usable tokens: rotation is single-use (auth/store.go:233).              *)
OneLiveTokenPerSession ==
  \A t, u \in Tokens :
    state[t] = "live" /\ state[u] = "live" /\ root[t] = root[u] => t = u

(* A spent token leads to a committed token of the same login and user, in *)
(* a chain that no other spent token joins: what rotation hands over is    *)
(* never lost and never shared (auth/store.go:215, one transaction).       *)
RotationHandsOver ==
  \A t \in Tokens :
    replacedBy[t] # NoToken =>
      LET n == replacedBy[t] IN
        /\ state[t] = "revoked" /\ n \in Session(t) /\ user[n] = user[t]
        /\ \A u \in Tokens : replacedBy[u] = n => u = t

(* When reuse detection answers, no token its statement saw is usable,     *)
(* whatever rotated or logged out meanwhile (auth/store.go:256).           *)
ReplayKillsWhatItSaw ==
  \A p \in Requests : pc[p] = "reply_invalid" =>
    \A t \in seen[p] : state[t] = "revoked"

(* A logout that no refresh overtook leaves its login without a usable     *)
(* token (auth/handler.go:260): the presented token is dead, and if it was *)
(* not rotated away nothing else of that login is alive.                   *)
LogoutEndsUnrotatedSession ==
  \A p \in Requests : pc[p] = "reply_gone" /\ presented[p] # NoToken =>
    /\ state[presented[p]] = "revoked"
    /\ replacedBy[presented[p]] = NoToken =>
         \A t \in Session(presented[p]) : state[t] # "live"

(* What docs/AUTH.md promises a client that serialises its refreshes and   *)
(* overwrites its copy: it never presents a spent token, so it never sets  *)
(* off reuse detection against its own user.                               *)
SerialClientNeverReplays ==
  careful => \A p \in Requests : pc[p] \notin {"scan", "revoke"}

(* ... and, between calls, what it holds is still good for a refresh.      *)
SerialClientHoldsLiveToken ==
  careful => \A c \in Clients :
    (\A p \in Requests : ClientOf[p] = c => pc[p] = "idle") /\ jar[c] # NoToken
      => state[jar[c]] = "live"

(* Every call is answered: no pair of transactions waits on each other.    *)
EveryCallAnswered == \A p \in Requests : pc[p] # "idle" ~> pc[p] = "idle"

(* docs/AUTH.md:34-35, "Reusing a spent token is read as theft and kills   *)
(* every session for that user": when reuse detection answers, the logins  *)
(* it saw are over.                                                        *)
ReplayKillsEverySession ==
  \A p \in Requests : pc[p] = "reply_invalid" =>
    \A t \in seen[p] : \A u \in Session(t) : state[u] # "live"

-----------------------------------------------------------------------------
(* A session as its user knows it (SessionLedger): a login is carried by   *)
(* its live token, and a token once revoked carries nothing again.         *)
LiveOf(st, rt, f) == {t \in Tokens : st[t] = "live" /\ rt[t] = f}
TheToken(S)       == IF S = {} THEN NoToken ELSE CHOOSE t \in S : TRUE
Holder            == [f \in Tokens |-> TheToken(LiveOf(state, root, f))]
Spent             == {t \in Tokens : state[t] = "revoked"}

Ledger == INSTANCE SessionLedger WITH
  Credentials <- Tokens, None <- NoToken, holder <- Holder, spent <- Spent

(* The statements the requests run, in any interleaving, only ever open,   *)
(* hand over and close logins; a login once closed never comes back.       *)
LedgerSpec == Ledger!Spec

(* What ends sessions takes hold, against whatever refreshes are under     *)
(* way: reuse detection in all it saw, a logout in the session of a token  *)
(* that is not being rotated.                                              *)
RevokesTakeHold == ReplayKillsWhatItSaw /\ LogoutEndsUnrotatedSession

(* A client that does as docs/AUTH.md tells it is neither taken for a      *)
(* thief nor left without a token, whatever answers are lost.              *)
SerialClientIsSafe == SerialClientNeverReplays /\ SerialClientHoldsLiveToken
=============================================================================
