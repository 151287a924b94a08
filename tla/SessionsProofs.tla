--------------------------- MODULE SessionsProofs ---------------------------
(***************************************************************************)
(* Proofs about Sessions for any number of tokens, requests, clients and   *)
(* users.  The safety properties are not inductive: the invariant below    *)
(* adds who owns an uncommitted row, which token is locked, and that the   *)
(* live token of a login is the only row of the login without a successor. *)
(***************************************************************************)
EXTENDS Sessions, TLAPS

Committed(t) == state[t] \in {"live", "revoked"}

(* A transaction in flight owns a row of its own, of the presented login.  *)
MintInv ==
  /\ \A p \in Requests :
       IF pc[p] \in {"spend", "commit"}
         THEN /\ successor[p] \in Tokens /\ presented[p] \in Tokens
              /\ state[successor[p]] = "uncommitted"
              /\ root[successor[p]] = root[presented[p]]
              /\ user[successor[p]] = user[presented[p]]
         ELSE pc[p] # "reply_session" => successor[p] = NoToken
  /\ \A p, q \in Requests :
       pc[p] \in {"spend", "commit"} /\ pc[q] \in {"spend", "commit"}
         /\ successor[p] = successor[q] => p = q

(* A token is spent by one transaction at a time, and stays live in the    *)
(* committed table until that transaction ends.                            *)
LockInv ==
  /\ \A p \in Requests : pc[p] = "commit" => state[presented[p]] = "live"
  /\ \A p, q \in Requests :
       pc[p] = "commit" /\ pc[q] = "commit" /\ presented[p] = presented[q] => p = q

(* Whatever a client or a request can name has been committed.             *)
KnownInv ==
  /\ \A p \in Requests :
       /\ pc[p] \in {"lookup", "insert", "scan", "revoke", "logout"} => presented[p] \in Tokens
       /\ presented[p] \in Tokens => Committed(presented[p])
       /\ pc[p] = "reply_session" => successor[p] \in Tokens /\ Committed(successor[p])
       /\ \A t \in seen[p] : Committed(t)
  /\ \A c \in Clients :
       /\ jar[c] \in Tokens => Committed(jar[c])
       /\ \A t \in received[c] : Committed(t)

(* The first token of a login is committed before any other row of it.     *)
RootInv == \A t \in Tokens : state[t] # "absent" => Committed(root[t])

(* A live token is the only end of its login's chain of successors.        *)
SpineInv ==
  \A t, u \in Tokens :
    Committed(t) /\ state[u] = "live" /\ root[t] = root[u] /\ t # u
      => replacedBy[t] # NoToken

(* Where the two revoking statements have been, tokens stay dead.          *)
RevokedInv ==
  \A p \in Requests :
    /\ pc[p] = "reply_gone" /\ presented[p] # NoToken => state[presented[p]] = "revoked"
    /\ pc[p] = "reply_invalid" => \A t \in seen[p] : state[t] = "revoked"
    /\ pc[p] = "idle" => presented[p] = NoToken
    /\ pc[p] \notin {"revoke", "reply_invalid"} => seen[p] = {}

IInv == TypeOK /\ MintInv /\ LockInv /\ KnownInv /\ RootInv /\ SpineInv
          /\ RotationHandsOver /\ RevokedInv

-----------------------------------------------------------------------------
LEMMA InitInv == Init => IInv
  BY SessionsAssumption DEF Init, IInv, TypeOK, MintInv, LockInv, KnownInv, RootInv, SpineInv,
     RotationHandsOver, RevokedInv, Committed, MaybeToken, States, Points

LEMMA PresentableKnown ==
  ASSUME IInv, NEW c \in Clients, NEW t \in Presentable(c)
  PROVE  t \in Tokens /\ Committed(t)
  BY SessionsAssumption DEF IInv, TypeOK, KnownInv, Presentable, MaybeToken

LEMMA IssueSessionInv == ASSUME IInv, NEW p \in Requests, IssueSession(p) PROVE IInv'
  <1> USE SessionsAssumption DEF IInv, IssueSession, Ready, Goto, row, client, Committed
  <1>1. TypeOK'
    <2>1. User(p) \in Users BY DEF User
    <2>2. QED BY <2>1 DEF TypeOK, MaybeToken, States, Points
  <1>2. MintInv' BY DEF TypeOK, MintInv, KnownInv, MaybeToken
  <1>3. LockInv' BY DEF TypeOK, MintInv, LockInv, MaybeToken
  <1>4. KnownInv' BY DEF TypeOK, KnownInv, MintInv, MaybeToken
  <1>5. RootInv' BY DEF TypeOK, RootInv, MintInv, KnownInv, LockInv, MaybeToken
  <1>6. SpineInv' BY DEF TypeOK, SpineInv, RootInv, MintInv, KnownInv, LockInv, MaybeToken
  <1>7. RotationHandsOver' BY DEF TypeOK, RotationHandsOver, Session, MintInv, LockInv, KnownInv, MaybeToken
  <1>8. RevokedInv' BY DEF TypeOK, RevokedInv, MintInv, KnownInv, LockInv, MaybeToken
  <1>9. QED BY <1>1, <1>2, <1>3, <1>4, <1>5, <1>6, <1>7, <1>8

LEMMA SendRefreshInv == ASSUME IInv, NEW p \in Requests, SendRefresh(p) PROVE IInv'
  <1>0. PICK t \in Tokens : Committed(t) /\ presented' = [presented EXCEPT ![p] = t]
    BY PresentableKnown, SessionsAssumption DEF SendRefresh
  <1> USE SessionsAssumption, <1>0 DEF IInv, SendRefresh, Ready, Goto, row, client, Committed
  <1>1. TypeOK' BY DEF TypeOK, MaybeToken, States, Points
  <1>2. MintInv' BY DEF TypeOK, MintInv, KnownInv, MaybeToken
  <1>3. LockInv' BY DEF TypeOK, MintInv, LockInv, MaybeToken
  <1>4. KnownInv' BY DEF TypeOK, KnownInv, MintInv, MaybeToken
  <1>5. RootInv' BY DEF TypeOK, RootInv, MintInv, KnownInv, LockInv, MaybeToken
  <1>6. SpineInv' BY DEF TypeOK, SpineInv, RootInv, MintInv, KnownInv, LockInv, MaybeToken
  <1>7. RotationHandsOver' BY DEF TypeOK, RotationHandsOver, Session, MintInv, LockInv, KnownInv, MaybeToken
  <1>8. RevokedInv' BY DEF TypeOK, RevokedInv, MintInv, KnownInv, LockInv, MaybeToken
  <1>9. QED BY <1>1, <1>2, <1>3, <1>4, <1>5, <1>6, <1>7, <1>8

LEMMA LookupInv == ASSUME IInv, NEW p \in Requests, Lookup(p) PROVE IInv'
  <1> USE SessionsAssumption DEF IInv, Lookup, Goto, row, client, Committed
  <1>1. TypeOK' BY DEF TypeOK, MaybeToken, States, Points, KnownInv, User, MintInv
  <1>2. MintInv' BY DEF TypeOK, MintInv, KnownInv, MaybeToken
  <1>3. LockInv' BY DEF TypeOK, MintInv, LockInv, MaybeToken
  <1>4. KnownInv' BY DEF TypeOK, KnownInv, MintInv, MaybeToken
  <1>5. RootInv' BY DEF TypeOK, RootInv, MintInv, KnownInv, LockInv, MaybeToken
  <1>6. SpineInv' BY DEF TypeOK, SpineInv, RootInv, MintInv, KnownInv, LockInv, MaybeToken
  <1>7. RotationHandsOver' BY DEF TypeOK, RotationHandsOver, Session, MintInv, LockInv, KnownInv, MaybeToken
  <1>8. RevokedInv' BY DEF TypeOK, RevokedInv, MintInv, KnownInv, LockInv, MaybeToken
  <1>9. QED BY <1>1, <1>2, <1>3, <1>4, <1>5, <1>6, <1>7, <1>8

LEMMA InsertSuccessorInv == ASSUME IInv, NEW p \in Requests, InsertSuccessor(p) PROVE IInv'
  <1> USE SessionsAssumption DEF IInv, InsertSuccessor, Goto, row, client, Committed
  <1>1. TypeOK' BY DEF TypeOK, MaybeToken, States, Points, KnownInv, User, MintInv
  <1>2. MintInv' BY DEF TypeOK, MintInv, KnownInv, MaybeToken
  <1>3. LockInv' BY DEF TypeOK, MintInv, LockInv, MaybeToken
  <1>4. KnownInv' BY DEF TypeOK, KnownInv, MintInv, MaybeToken
  <1>5. RootInv' BY SMTT(60) DEF TypeOK, RootInv, MintInv, KnownInv, LockInv, MaybeToken
  <1>6. SpineInv' BY DEF TypeOK, SpineInv, RootInv, MintInv, KnownInv, LockInv, MaybeToken
  <1>7. RotationHandsOver' BY DEF TypeOK, RotationHandsOver, Session, MintInv, LockInv, KnownInv, MaybeToken
  <1>8. RevokedInv' BY DEF TypeOK, RevokedInv, MintInv, KnownInv, LockInv, MaybeToken
  <1>9. QED BY <1>1, <1>2, <1>3, <1>4, <1>5, <1>6, <1>7, <1>8

LEMMA SpendPresentedInv == ASSUME IInv, NEW p \in Requests, SpendPresented(p) PROVE IInv'
  <1> USE SessionsAssumption DEF IInv, SpendPresented, SpendGuard, LockedFor, Goto, row, client, Committed
  <1>1. TypeOK' BY DEF TypeOK, MaybeToken, States, Points, KnownInv, User, MintInv
  <1>2. MintInv' BY DEF TypeOK, MintInv, KnownInv, MaybeToken
  <1>3. LockInv' BY DEF TypeOK, MintInv, LockInv, MaybeToken
  <1>4. KnownInv' BY DEF TypeOK, KnownInv, MintInv, MaybeToken
  <1>5. RootInv' BY DEF TypeOK, RootInv, MintInv, KnownInv, LockInv, MaybeToken
  <1>6. SpineInv' BY DEF TypeOK, SpineInv, RootInv, MintInv, KnownInv, LockInv, MaybeToken
  <1>7. RotationHandsOver' BY DEF TypeOK, RotationHandsOver, Session, MintInv, LockInv, KnownInv, MaybeToken
  <1>8. RevokedInv' BY DEF TypeOK, RevokedInv, MintInv, KnownInv, LockInv, MaybeToken
  <1>9. QED BY <1>1, <1>2, <1>3, <1>4, <1>5, <1>6, <1>7, <1>8

LEMMA SpendRefusedInv == ASSUME IInv, NEW p \in Requests, SpendRefused(p) PROVE IInv'
  <1> USE SessionsAssumption DEF IInv, SpendRefused, Goto, row, client, Committed
  <1>1. TypeOK' BY DEF TypeOK, MaybeToken, States, Points, KnownInv, User, MintInv
  <1>2. MintInv' BY DEF TypeOK, MintInv, KnownInv, MaybeToken
  <1>3. LockInv' BY DEF TypeOK, MintInv, LockInv, MaybeToken
  <1>4. KnownInv' BY DEF TypeOK, KnownInv, MintInv, MaybeToken
  <1>5. RootInv' BY DEF TypeOK, RootInv, MintInv, KnownInv, LockInv, MaybeToken
  <1>6. SpineInv' BY DEF TypeOK, SpineInv, RootInv, MintInv, KnownInv, LockInv, MaybeToken
  <1>7. RotationHandsOver' BY DEF TypeOK, RotationHandsOver, Session, MintInv, LockInv, KnownInv, MaybeToken
  <1>8. RevokedInv' BY DEF TypeOK, RevokedInv, MintInv, KnownInv, LockInv, MaybeToken
  <1>9. QED BY <1>1, <1>2, <1>3, <1>4, <1>5, <1>6, <1>7, <1>8

LEMMA CommitRotationInv == ASSUME IInv, NEW p \in Requests, CommitRotation(p) PROVE IInv'
  <1> USE SessionsAssumption DEF IInv, CommitRotation, Goto, row, client, Committed
  <1>1. TypeOK' BY DEF TypeOK, MaybeToken, States, Points, KnownInv, User, MintInv
  <1>2. MintInv' BY DEF TypeOK, MintInv, KnownInv, MaybeToken
  <1>3. LockInv' BY DEF TypeOK, MintInv, LockInv, MaybeToken
  <1>4. KnownInv' BY ZenonT(60) DEF TypeOK, KnownInv, MintInv, MaybeToken
  <1>5. RootInv' BY ZenonT(60) DEF TypeOK, RootInv, MintInv, KnownInv, LockInv, MaybeToken
  <1>6. SpineInv'
    <2> SUFFICES ASSUME NEW t \in Tokens, NEW u \in Tokens, Committed(t)', (state[u] = "live")',
                        (root[t] = root[u])', t # u
                 PROVE  (replacedBy[t] # NoToken)'
      BY DEF SpineInv
    <2> DEFINE old == presented[p]
               new == successor[p]
    <2>1. /\ old \in Tokens /\ new \in Tokens /\ state[old] = "live" /\ state[new] = "uncommitted"
          /\ root[new] = root[old]
      BY DEF MintInv, LockInv
    <2>2. CASE u = new
      <3>1. CASE t = old BY <3>1, <2>1 DEF TypeOK
      <3>2. CASE t # old BY <3>2, <2>1, <2>2 DEF TypeOK, SpineInv
      <3>3. QED BY <3>1, <3>2
    <2>3. CASE u # new
      <3>1. state[u] = "live" /\ u # old BY <2>1, <2>3 DEF TypeOK
      <3>2. CASE t = new
        <4>1. replacedBy[old] # NoToken BY <3>1, <3>2, <2>1, ZenonT(60) DEF TypeOK, SpineInv
        <4>2. QED BY <4>1, <2>1 DEF RotationHandsOver
      <3>3. CASE t # new BY <3>1, <3>3, <2>1 DEF TypeOK, SpineInv
      <3>4. QED BY <3>2, <3>3
    <2>4. QED BY <2>2, <2>3
  <1>7. RotationHandsOver'
    <2> DEFINE old == presented[p]
               new == successor[p]
    <2>1. /\ old \in Tokens /\ new \in Tokens /\ new # NoToken
          /\ state[old] = "live" /\ state[new] = "uncommitted"
          /\ root[new] = root[old] /\ user[new] = user[old]
      BY DEF MintInv, LockInv
    <2>2. \A u \in Tokens : replacedBy[u] # new
      BY <2>1 DEF RotationHandsOver, Session
    <2>3. SUFFICES ASSUME NEW t \in Tokens, replacedBy'[t] # NoToken
                   PROVE  LET n == replacedBy'[t] IN
                            /\ state'[t] = "revoked" /\ n \in Session(t)' /\ user'[n] = user'[t]
                            /\ \A u \in Tokens : replacedBy'[u] = n => u = t
      BY DEF RotationHandsOver
    <2>4. CASE t = old BY <2>1, <2>2, <2>4 DEF TypeOK, Session
    <2>5. CASE t # old
      <3> DEFINE n == replacedBy[t]
      <3>1. replacedBy'[t] = n /\ n # NoToken /\ n \in Tokens /\ n # new
        BY <2>2, <2>3, <2>5 DEF TypeOK, MaybeToken
      <3>2. /\ state[t] = "revoked" /\ n \in Session(t) /\ user[n] = user[t]
            /\ \A u \in Tokens : replacedBy[u] = n => u = t
        BY <3>1 DEF RotationHandsOver
      <3>3. state'[t] = "revoked" /\ n \in Session(t)'
        BY <2>1, <3>1, <3>2 DEF TypeOK, Session
      <3>4. QED BY <2>1, <3>1, <3>2, <3>3 DEF TypeOK
    <2>6. QED BY <2>4, <2>5
  <1>8. RevokedInv' BY DEF TypeOK, RevokedInv, MintInv, KnownInv, LockInv, MaybeToken
  <1>9. QED BY <1>1, <1>2, <1>3, <1>4, <1>5, <1>6, <1>7, <1>8

LEMMA RevokeAllScanInv == ASSUME IInv, NEW p \in Requests, RevokeAllScan(p) PROVE IInv'
  <1> USE SessionsAssumption DEF IInv, RevokeAllScan, Goto, row, client, Committed
  <1>1. TypeOK' BY DEF TypeOK, MaybeToken, States, Points, KnownInv, User, MintInv
  <1>2. MintInv' BY DEF TypeOK, MintInv, KnownInv, MaybeToken
  <1>3. LockInv' BY DEF TypeOK, MintInv, LockInv, MaybeToken
  <1>4. KnownInv' BY DEF TypeOK, KnownInv, MintInv, MaybeToken
  <1>5. RootInv' BY DEF TypeOK, RootInv, MintInv, KnownInv, LockInv, MaybeToken
  <1>6. SpineInv' BY DEF TypeOK, SpineInv, RootInv, MintInv, KnownInv, LockInv, MaybeToken
  <1>7. RotationHandsOver' BY DEF TypeOK, RotationHandsOver, Session, MintInv, LockInv, KnownInv, MaybeToken
  <1>8. RevokedInv' BY DEF TypeOK, RevokedInv, MintInv, KnownInv, LockInv, MaybeToken
  <1>9. QED BY <1>1, <1>2, <1>3, <1>4, <1>5, <1>6, <1>7, <1>8

LEMMA RevokeAllApplyInv == ASSUME IInv, NEW p \in Requests, RevokeAllApply(p) PROVE IInv'
  <1> USE SessionsAssumption DEF IInv, RevokeAllApply, LockedFor, Goto, row, client, Committed
  <1>1. TypeOK' BY DEF TypeOK, MaybeToken, States, Points, KnownInv, User, MintInv
  <1>2. MintInv' BY DEF TypeOK, MintInv, KnownInv, MaybeToken
  <1>3. LockInv' BY DEF TypeOK, MintInv, LockInv, MaybeToken
  <1>4. KnownInv' BY DEF TypeOK, KnownInv, MintInv, MaybeToken
  <1>5. RootInv' BY DEF TypeOK, RootInv, MintInv, KnownInv, LockInv, MaybeToken
  <1>6. SpineInv' BY DEF TypeOK, SpineInv, RootInv, MintInv, KnownInv, LockInv, MaybeToken
  <1>7. RotationHandsOver' BY DEF TypeOK, RotationHandsOver, Session, MintInv, LockInv, KnownInv, MaybeToken
  <1>8. RevokedInv' BY DEF TypeOK, RevokedInv, MintInv, KnownInv, LockInv, MaybeToken
  <1>9. QED BY <1>1, <1>2, <1>3, <1>4, <1>5, <1>6, <1>7, <1>8

LEMMA SendLogoutInv == ASSUME IInv, NEW p \in Requests, SendLogout(p) PROVE IInv'
  <1>0. PICK t \in Tokens : Committed(t) /\ presented' = [presented EXCEPT ![p] = t]
    BY PresentableKnown, SessionsAssumption DEF SendLogout
  <1> USE SessionsAssumption, <1>0 DEF IInv, SendLogout, Ready, Goto, row, client, Committed
  <1>1. TypeOK' BY DEF TypeOK, MaybeToken, States, Points
  <1>2. MintInv' BY DEF TypeOK, MintInv, KnownInv, MaybeToken
  <1>3. LockInv' BY DEF TypeOK, MintInv, LockInv, MaybeToken
  <1>4. KnownInv' BY DEF TypeOK, KnownInv, MintInv, MaybeToken
  <1>5. RootInv' BY DEF TypeOK, RootInv, MintInv, KnownInv, LockInv, MaybeToken
  <1>6. SpineInv' BY DEF TypeOK, SpineInv, RootInv, MintInv, KnownInv, LockInv, MaybeToken
  <1>7. RotationHandsOver' BY DEF TypeOK, RotationHandsOver, Session, MintInv, LockInv, KnownInv, MaybeToken
  <1>8. RevokedInv' BY DEF TypeOK, RevokedInv, MintInv, KnownInv, LockInv, MaybeToken
  <1>9. QED BY <1>1, <1>2, <1>3, <1>4, <1>5, <1>6, <1>7, <1>8

LEMMA SendBlankLogoutInv == ASSUME IInv, NEW p \in Requests, SendBlankLogout(p) PROVE IInv'
  <1> USE SessionsAssumption DEF IInv, SendBlankLogout, Ready, Goto, row, client, Committed
  <1>1. TypeOK' BY DEF TypeOK, MaybeToken, States, Points, KnownInv, User, MintInv
  <1>2. MintInv' BY DEF TypeOK, MintInv, KnownInv, MaybeToken
  <1>3. LockInv' BY DEF TypeOK, MintInv, LockInv, MaybeToken
  <1>4. KnownInv' BY DEF TypeOK, KnownInv, MintInv, MaybeToken
  <1>5. RootInv' BY DEF TypeOK, RootInv, MintInv, KnownInv, LockInv, MaybeToken
  <1>6. SpineInv' BY DEF TypeOK, SpineInv, RootInv, MintInv, KnownInv, LockInv, MaybeToken
  <1>7. RotationHandsOver' BY DEF TypeOK, RotationHandsOver, Session, MintInv, LockInv, KnownInv, MaybeToken
  <1>8. RevokedInv' BY DEF TypeOK, RevokedInv, MintInv, KnownInv, LockInv, MaybeToken
  <1>9. QED BY <1>1, <1>2, <1>3, <1>4, <1>5, <1>6, <1>7, <1>8

LEMMA RevokePresentedInv == ASSUME IInv, NEW p \in Requests, RevokePresented(p) PROVE IInv'
  <1> USE SessionsAssumption DEF IInv, RevokePresented, LockedFor, Goto, row, client, Committed
  <1>1. TypeOK' BY DEF TypeOK, MaybeToken, States, Points, KnownInv, User, MintInv
  <1>2. MintInv' BY DEF TypeOK, MintInv, KnownInv, MaybeToken
  <1>3. LockInv' BY DEF TypeOK, MintInv, LockInv, MaybeToken
  <1>4. KnownInv' BY DEF TypeOK, KnownInv, MintInv, MaybeToken
  <1>5. RootInv' BY DEF TypeOK, RootInv, MintInv, KnownInv, LockInv, MaybeToken
  <1>6. SpineInv' BY DEF TypeOK, SpineInv, RootInv, MintInv, KnownInv, LockInv, MaybeToken
  <1>7. RotationHandsOver' BY DEF TypeOK, RotationHandsOver, Session, MintInv, LockInv, KnownInv, MaybeToken
  <1>8. RevokedInv' BY DEF TypeOK, RevokedInv, MintInv, KnownInv, LockInv, MaybeToken
  <1>9. QED BY <1>1, <1>2, <1>3, <1>4, <1>5, <1>6, <1>7, <1>8

LEMMA ReplySessionInv == ASSUME IInv, NEW p \in Requests, ReplySession(p) PROVE IInv'
  <1> USE SessionsAssumption DEF IInv, ReplySession, Finish, Goto, row, client, Committed
  <1>1. TypeOK'
    <2>1. successor[p] \in Tokens /\ ClientOf[p] \in Clients
      BY DEF TypeOK, KnownInv, MintInv, MaybeToken
    <2>2. jar' \in [Clients -> MaybeToken] /\ received' \in [Clients -> SUBSET Tokens]
      BY <2>1 DEF TypeOK, MaybeToken
    <2>3. QED BY <2>2 DEF TypeOK, MaybeToken, States, Points
  <1>2. MintInv' BY DEF TypeOK, MintInv, KnownInv, MaybeToken
  <1>3. LockInv' BY DEF TypeOK, MintInv, LockInv, MaybeToken
  <1>4. KnownInv' BY DEF TypeOK, KnownInv, MintInv, MaybeToken
  <1>5. RootInv' BY DEF TypeOK, RootInv, MintInv, KnownInv, LockInv, MaybeToken
  <1>6. SpineInv' BY DEF TypeOK, SpineInv, RootInv, MintInv, KnownInv, LockInv, MaybeToken
  <1>7. RotationHandsOver' BY DEF TypeOK, RotationHandsOver, Session, MintInv, LockInv, KnownInv, MaybeToken
  <1>8. RevokedInv' BY DEF TypeOK, RevokedInv, MintInv, KnownInv, LockInv, MaybeToken
  <1>9. QED BY <1>1, <1>2, <1>3, <1>4, <1>5, <1>6, <1>7, <1>8

LEMMA ReplyInvalidInv == ASSUME IInv, NEW p \in Requests, ReplyInvalid(p) PROVE IInv'
  <1> USE SessionsAssumption DEF IInv, ReplyInvalid, Finish, Goto, row, client, Committed
  <1>1. TypeOK' BY DEF TypeOK, MaybeToken, States, Points, KnownInv, User, MintInv
  <1>2. MintInv' BY DEF TypeOK, MintInv, KnownInv, MaybeToken
  <1>3. LockInv' BY DEF TypeOK, MintInv, LockInv, MaybeToken
  <1>4. KnownInv' BY DEF TypeOK, KnownInv, MintInv, MaybeToken
  <1>5. RootInv' BY DEF TypeOK, RootInv, MintInv, KnownInv, LockInv, MaybeToken
  <1>6. SpineInv' BY DEF TypeOK, SpineInv, RootInv, MintInv, KnownInv, LockInv, MaybeToken
  <1>7. RotationHandsOver' BY DEF TypeOK, RotationHandsOver, Session, MintInv, LockInv, KnownInv, MaybeToken
  <1>8. RevokedInv' BY DEF TypeOK, RevokedInv, MintInv, KnownInv, LockInv, MaybeToken
  <1>9. QED BY <1>1, <1>2, <1>3, <1>4, <1>5, <1>6, <1>7, <1>8

LEMMA ReplyGoneInv == ASSUME IInv, NEW p \in Requests, ReplyGone(p) PROVE IInv'
  <1> USE SessionsAssumption DEF IInv, ReplyGone, Finish, Goto, row, client, Committed
  <1>1. TypeOK' BY DEF TypeOK, MaybeToken, States, Points, KnownInv, User, MintInv
  <1>2. MintInv' BY DEF TypeOK, MintInv, KnownInv, MaybeToken
  <1>3. LockInv' BY DEF TypeOK, MintInv, LockInv, MaybeToken
  <1>4. KnownInv' BY DEF TypeOK, KnownInv, MintInv, MaybeToken
  <1>5. RootInv' BY DEF TypeOK, RootInv, MintInv, KnownInv, LockInv, MaybeToken
  <1>6. SpineInv' BY DEF TypeOK, SpineInv, RootInv, MintInv, KnownInv, LockInv, MaybeToken
  <1>7. RotationHandsOver' BY DEF TypeOK, RotationHandsOver, Session, MintInv, LockInv, KnownInv, MaybeToken
  <1>8. RevokedInv' BY DEF TypeOK, RevokedInv, MintInv, KnownInv, LockInv, MaybeToken
  <1>9. QED BY <1>1, <1>2, <1>3, <1>4, <1>5, <1>6, <1>7, <1>8

LEMMA LoseReplyInv == ASSUME IInv, NEW p \in Requests, LoseReply(p) PROVE IInv'
  <1> USE SessionsAssumption DEF IInv, LoseReply, Finish, Goto, row, client, Committed
  <1>1. TypeOK' BY DEF TypeOK, MaybeToken, States, Points, KnownInv, User, MintInv
  <1>2. MintInv' BY DEF TypeOK, MintInv, KnownInv, MaybeToken
  <1>3. LockInv' BY DEF TypeOK, MintInv, LockInv, MaybeToken
  <1>4. KnownInv' BY DEF TypeOK, KnownInv, MintInv, MaybeToken
  <1>5. RootInv' BY DEF TypeOK, RootInv, MintInv, KnownInv, LockInv, MaybeToken
  <1>6. SpineInv' BY DEF TypeOK, SpineInv, RootInv, MintInv, KnownInv, LockInv, MaybeToken
  <1>7. RotationHandsOver' BY DEF TypeOK, RotationHandsOver, Session, MintInv, LockInv, KnownInv, MaybeToken
  <1>8. RevokedInv' BY DEF TypeOK, RevokedInv, MintInv, KnownInv, LockInv, MaybeToken
  <1>9. QED BY <1>1, <1>2, <1>3, <1>4, <1>5, <1>6, <1>7, <1>8

LEMMA FailInv == ASSUME IInv, NEW p \in Requests, Fail(p) PROVE IInv'
  <1> USE SessionsAssumption DEF IInv, Fail, Finish, Goto, row, client, Committed
  <1>1. TypeOK' BY DEF TypeOK, MaybeToken, States, Points, KnownInv, User, MintInv
  <1>2. MintInv' BY SMTT(60) DEF TypeOK, MintInv, KnownInv, MaybeToken
  <1>3. LockInv' BY DEF TypeOK, MintInv, LockInv, MaybeToken
  <1>4. KnownInv' BY DEF TypeOK, KnownInv, MintInv, MaybeToken
  <1>5. RootInv' BY SMTT(30) DEF TypeOK, RootInv, MintInv, KnownInv, LockInv, MaybeToken
  <1>6. SpineInv' BY DEF TypeOK, SpineInv, RootInv, MintInv, KnownInv, LockInv, MaybeToken
  <1>7. RotationHandsOver' BY DEF TypeOK, RotationHandsOver, Session, MintInv, LockInv, KnownInv, MaybeToken
  <1>8. RevokedInv' BY DEF TypeOK, RevokedInv, MintInv, KnownInv, LockInv, MaybeToken
  <1>9. QED BY <1>1, <1>2, <1>3, <1>4, <1>5, <1>6, <1>7, <1>8

LEMMA ExpireInv == ASSUME IInv, NEW t \in Tokens, Expire(t) PROVE IInv'
  BY DEF IInv, Expire, row, client, Committed, TypeOK, MintInv, LockInv, KnownInv, RootInv,
     SpineInv, RotationHandsOver, Session, RevokedInv

LEMMA StutterInv == ASSUME IInv, UNCHANGED vars PROVE IInv'
  BY DEF IInv, vars, Committed, TypeOK, MintInv, LockInv, KnownInv, RootInv,
     SpineInv, RotationHandsOver, Session, RevokedInv

(* The strengthened invariant holds in every reachable state: every        *)
(* statement a request runs preserves it, in any interleaving.             *)
THEOREM Invariance == Spec => []IInv
  <1>1. IInv /\ [Next]_vars => IInv'
    <2> SUFFICES ASSUME IInv, [Next]_vars PROVE IInv'
      OBVIOUS
    <2>1. ASSUME NEW p \in Requests, Calling(p) PROVE IInv'
      BY <2>1, IssueSessionInv, SendRefreshInv, SendLogoutInv, SendBlankLogoutInv DEF Calling
    <2>2. ASSUME NEW p \in Requests, Working(p) PROVE IInv'
      BY <2>2, LookupInv, InsertSuccessorInv, CommitRotationInv, RevokeAllScanInv,
         ReplySessionInv, ReplyInvalidInv, ReplyGoneInv DEF Working
    <2>3. ASSUME NEW p \in Requests, Waiting(p) PROVE IInv'
      BY <2>3, SpendPresentedInv, SpendRefusedInv, RevokeAllApplyInv, RevokePresentedInv DEF Waiting
    <2>4. ASSUME NEW p \in Requests, LoseReply(p) \/ Fail(p) PROVE IInv'
      BY <2>4, LoseReplyInv, FailInv
    <2>5. QED BY <2>1, <2>2, <2>3, <2>4, ExpireInv, StutterInv DEF Next
  <1>2. QED BY InitInv, <1>1, PTL DEF Spec

(* The table and the requests keep their types.                            *)
THEOREM TypeCorrect == Spec => []TypeOK
  BY Invariance, PTL DEF IInv

(* Refresh rotation (auth/refresh.go, auth/store.go) never leaves a login  *)
(* with two usable tokens: if two were live, the first would need a        *)
(* successor, and a token with a successor is revoked.                     *)
THEOREM SingleUse == Spec => []OneLiveTokenPerSession
  <1>1. IInv => OneLiveTokenPerSession
    BY DEF IInv, OneLiveTokenPerSession, SpineInv, RotationHandsOver, Committed
  <1>2. QED BY <1>1, Invariance, PTL

(* A rotation hands the login over to one committed token of its own.      *)
THEOREM HandsOver == Spec => []RotationHandsOver
  BY Invariance, PTL DEF IInv

(* Reuse detection kills every token its statement saw.                    *)
THEOREM ReplayKills == Spec => []ReplayKillsWhatItSaw
  <1>1. IInv => ReplayKillsWhatItSaw
    BY DEF IInv, RevokedInv, ReplayKillsWhatItSaw
  <1>2. QED BY <1>1, Invariance, PTL

(* Logout ends the login unless a refresh had already spent the token.     *)
THEOREM LogoutEnds == Spec => []LogoutEndsUnrotatedSession
  <1>1. IInv => LogoutEndsUnrotatedSession
    BY DEF IInv, TypeOK, MaybeToken, RevokedInv, SpineInv, Session, Committed,
       LogoutEndsUnrotatedSession
  <1>2. QED BY <1>1, Invariance, PTL

-----------------------------------------------------------------------------
(* Sessions implements SessionLedger.                                      *)
Unique(st, rt) ==
  \A t, u \in Tokens : st[t] = "live" /\ st[u] = "live" /\ rt[t] = rt[u] => t = u

(* With one live token per login, the holder of a login is that token.     *)
LEMMA TheTokenIs ==
  ASSUME NEW st, NEW rt, Unique(st, rt), NEW f \in Tokens
  PROVE  /\ TheToken(LiveOf(st, rt, f)) \in MaybeToken
         /\ \A t \in Tokens : TheToken(LiveOf(st, rt, f)) = t <=> st[t] = "live" /\ rt[t] = f
  <1> DEFINE S == LiveOf(st, rt, f)
  <1>1. CASE S = {}
    BY <1>1, SessionsAssumption DEF TheToken, LiveOf, MaybeToken
  <1>2. CASE S # {}
    <2>1. PICK t \in Tokens : t \in S BY <1>2 DEF LiveOf
    <2>2. S = {t} BY <2>1 DEF LiveOf, Unique
    <2>3. TheToken(S) = t BY <2>2 DEF TheToken
    <2>4. QED BY <2>1, <2>2, <2>3 DEF LiveOf, MaybeToken
  <1>3. QED BY <1>1, <1>2

LEMMA HolderIs ==
  ASSUME IInv
  PROVE  /\ Holder \in [Tokens -> MaybeToken]
         /\ \A f, t \in Tokens : Holder[f] = t <=> state[t] = "live" /\ root[t] = f
  <1>1. Unique(state, root)
    BY DEF IInv, Unique, SpineInv, RotationHandsOver, Committed
  <1>2. QED BY <1>1, TheTokenIs DEF Holder

LEMMA HolderIsNext ==
  ASSUME IInv'
  PROVE  /\ Holder' \in [Tokens -> MaybeToken]
         /\ \A f, t \in Tokens : Holder'[f] = t <=> state'[t] = "live" /\ root'[t] = f
  <1>1. Unique(state', root')
    BY DEF IInv, Unique, SpineInv, RotationHandsOver, Committed
  <1>2. QED BY <1>1, TheTokenIs DEF Holder

LEMMA SameHolder ==
  ASSUME NEW g \in [Tokens -> MaybeToken], NEW h \in [Tokens -> MaybeToken],
         \A f, t \in Tokens : g[f] = t <=> h[f] = t
  PROVE  g = h
  <1>1. \A f \in Tokens : g[f] = h[f] BY DEF MaybeToken
  <1>2. QED BY <1>1

(* A step that neither makes nor ends a live token is a stuttering step.   *)
LEMMA QuietStep ==
  ASSUME IInv, IInv',
         \A t \in Tokens : /\ (state'[t] = "live") = (state[t] = "live")
                           /\ (state'[t] = "revoked") = (state[t] = "revoked")
                           /\ state[t] = "live" => root'[t] = root[t]
  PROVE  UNCHANGED <<Holder, Spent>>
  <1>1. \A f, t \in Tokens : Holder'[f] = t <=> Holder[f] = t
    BY HolderIs, HolderIsNext
  <1>2. Holder' = Holder BY <1>1, HolderIs, HolderIsNext, SameHolder
  <1>3. Spent' = Spent BY DEF Spent
  <1>4. QED BY <1>2, <1>3

LEMMA HeldAre ==
  ASSUME IInv
  PROVE  Ledger!Held = {t \in Tokens : state[t] = "live"}
  <1>1. Ledger!Held = {Holder[f] : f \in Tokens} \ {NoToken}
    BY DEF Ledger!Held
  <1>2. \A t \in Tokens : state[t] = "live" => root[t] \in Tokens /\ Holder[root[t]] = t
    BY HolderIs DEF IInv, TypeOK
  <1>3. QED BY <1>1, <1>2, HolderIs, SessionsAssumption DEF MaybeToken

LEMMA OpenStep ==
  ASSUME IInv, IInv', NEW p \in Requests, IssueSession(p)
  PROVE  \E f \in Tokens : Ledger!Open(f)
  <1>0. Holder \in [Tokens -> MaybeToken] /\ Holder' \in [Tokens -> MaybeToken]
    BY HolderIs, HolderIsNext
  <1>h. \A f, t \in Tokens : Holder[f] = t <=> state[t] = "live" /\ root[t] = f
    BY HolderIs
  <1>n. \A f, t \in Tokens : Holder'[f] = t <=> state'[t] = "live" /\ root'[t] = f
    BY HolderIsNext
  <1>1. PICK n \in Tokens : /\ state[n] = "absent"
                            /\ state' = [state EXCEPT ![n] = "live"]
                            /\ root' = [root EXCEPT ![n] = n]
    BY DEF IssueSession
  <1> USE DEF IInv, TypeOK
  <1>2. n \notin Ledger!Held \cup Spent BY <1>1, HeldAre DEF Spent
  <1>3. Holder[n] = NoToken
    <2>1. \A t \in Tokens : state[t] = "live" => root[t] # n
      BY <1>1 DEF RootInv, Committed
    <2>2. \A t \in Tokens : Holder[n] # t BY <2>1, <1>h
    <2>3. QED BY <1>0, <2>2 DEF MaybeToken
  <1>4. Holder' = [Holder EXCEPT ![n] = n]
    <2>1. \A f, t \in Tokens : Holder'[f] = t <=> [Holder EXCEPT ![n] = n][f] = t
      <3> TAKE f, t \in Tokens
      <3>1. CASE t = n
        <4>1. Holder'[f] = n <=> f = n BY <1>1, <1>n
        <4>2. [Holder EXCEPT ![n] = n][f] = n <=> f = n BY <1>0, <1>1, <1>h
        <4>3. QED BY <3>1, <4>1, <4>2
      <3>2. CASE t # n /\ f # n BY <3>2, <1>1, <1>h, <1>n
      <3>3. CASE t # n /\ f = n BY <3>3, <1>1, <1>3, <1>h, <1>n DEF RootInv, Committed
      <3>4. QED BY <3>1, <3>2, <3>3
    <2> DEFINE H == [Holder EXCEPT ![n] = n]
    <2>2. H \in [Tokens -> MaybeToken] BY <1>0 DEF MaybeToken
    <2>3. \A f, t \in Tokens : Holder'[f] = t <=> H[f] = t BY <2>1
    <2> HIDE DEF H
    <2>4. Holder' = H BY <1>0, <2>2, <2>3, SameHolder
    <2>5. QED BY <2>4 DEF H
  <1>5. Spent' = Spent BY <1>1 DEF Spent
  <1>6. Ledger!Open(n) BY <1>2, <1>3, <1>4, <1>5 DEF Ledger!Open
  <1>7. QED BY <1>6

LEMMA HandOverStep ==
  ASSUME IInv, IInv', NEW p \in Requests, CommitRotation(p)
  PROVE  \E f, n \in Tokens : Ledger!HandOver(f, n)
  <1>0. Holder \in [Tokens -> MaybeToken] /\ Holder' \in [Tokens -> MaybeToken]
    BY HolderIs, HolderIsNext
  <1>h. \A f, t \in Tokens : Holder[f] = t <=> state[t] = "live" /\ root[t] = f
    BY HolderIs
  <1>n. \A f, t \in Tokens : Holder'[f] = t <=> state'[t] = "live" /\ root'[t] = f
    BY HolderIsNext
  <1> DEFINE old == presented[p]
             new == successor[p]
             f0  == root[old]
  <1> USE DEF IInv, TypeOK
  <1>1. /\ old \in Tokens /\ new \in Tokens /\ f0 \in Tokens
        /\ state[old] = "live" /\ state[new] = "uncommitted" /\ root[new] = f0
        /\ state' = [state EXCEPT ![old] = "revoked", ![new] = "live"] /\ root' = root
    BY DEF CommitRotation, MintInv, LockInv
  <1>2. Holder[f0] = old BY <1>1, <1>h
  <1>3. new \in Tokens \ (Ledger!Held \cup Spent) BY <1>1, HeldAre DEF Spent
  <1>4. Holder' = [Holder EXCEPT ![f0] = new]
    <2>1. \A f, t \in Tokens : Holder'[f] = t <=> [Holder EXCEPT ![f0] = new][f] = t
      <3> TAKE f, t \in Tokens
      <3>1. CASE f = f0
        <4>1. Holder'[f0] = new BY <1>1, <1>n
        <4>2. [Holder EXCEPT ![f0] = new][f0] = new BY <1>0, <1>1
        <4>3. QED BY <4>1, <4>2, <3>1, <1>1
      <3>2. CASE f # f0 BY <3>2, <1>1, <1>h, <1>n
      <3>3. QED BY <3>1, <3>2
    <2> DEFINE H == [Holder EXCEPT ![f0] = new]
    <2>2. H \in [Tokens -> MaybeToken] BY <1>0, <1>1 DEF MaybeToken
    <2>3. \A f, t \in Tokens : Holder'[f] = t <=> H[f] = t BY <2>1
    <2> HIDE DEF H
    <2>4. Holder' = H BY <1>0, <2>2, <2>3, SameHolder
    <2>5. QED BY <2>4 DEF H
  <1>5. Spent' = Spent \cup {old} BY <1>1 DEF Spent
  <1>6. Ledger!HandOver(f0, new)
    BY <1>1, <1>2, <1>3, <1>4, <1>5, SessionsAssumption DEF Ledger!HandOver
  <1>7. QED BY <1>6, <1>1

(* A step that revokes a set of live tokens and does nothing else.         *)
LEMMA CloseStep ==
  ASSUME IInv, IInv', NEW R \in SUBSET Tokens,
         \A t \in R : state[t] = "live" \/ state[t] = "revoked",
         state' = [t \in Tokens |-> IF t \in R THEN "revoked" ELSE state[t]], root' = root
  PROVE  \E F \in SUBSET Tokens : Ledger!Close(F)
  <1>0. Holder \in [Tokens -> MaybeToken] /\ Holder' \in [Tokens -> MaybeToken]
    BY HolderIs, HolderIsNext
  <1>h. \A f, t \in Tokens : Holder[f] = t <=> state[t] = "live" /\ root[t] = f
    BY HolderIs
  <1>n. \A f, t \in Tokens : Holder'[f] = t <=> state'[t] = "live" /\ root'[t] = f
    BY HolderIsNext
  <1> DEFINE F == {root[t] : t \in {u \in R : state[u] = "live"}}
  <1> USE DEF IInv, TypeOK
  <1>1. F \in SUBSET Tokens OBVIOUS
  <1>2. \A f \in F : Holder[f] \in R /\ state[Holder[f]] = "live"
    BY <1>h
  <1>3. \A f \in F : Holder[f] # NoToken BY <1>2, SessionsAssumption
  <1>4. Holder' = [f \in Tokens |-> IF f \in F THEN NoToken ELSE Holder[f]]
    <2>1. \A f, t \in Tokens :
            Holder'[f] = t <=> (IF f \in F THEN NoToken ELSE Holder[f]) = t
      <3> TAKE f, t \in Tokens
      <3>1. CASE f \in F
        <4>1. PICK u \in R : state[u] = "live" /\ root[u] = f BY <3>1
        <4>2. \A v \in Tokens : state'[v] = "live" /\ root'[v] = f => FALSE
          BY <4>1, <1>h, SMTT(30)
        <4>3. QED BY <4>2, <3>1, <1>n, SessionsAssumption
      <3>2. CASE f \notin F BY <3>2, <1>h, <1>n
      <3>3. QED BY <3>1, <3>2
    <2> DEFINE H == [f \in Tokens |-> IF f \in F THEN NoToken ELSE Holder[f]]
    <2>2. H \in [Tokens -> MaybeToken] BY <1>0, <1>h DEF MaybeToken
    <2>3. \A f, t \in Tokens : Holder'[f] = t <=> H[f] = t BY <2>1
    <2> HIDE DEF H
    <2>4. Holder' = H BY <1>0, <2>2, <2>3, SameHolder, ZenonT(60)
    <2>5. QED BY <2>4 DEF H
  <1>5. Spent' = Spent \cup {Holder[f] : f \in F}
    <2>1. \A t \in R : state[t] = "live" => \E f \in F : Holder[f] = t
      BY <1>h
    <2>2. QED BY <2>1, <1>2 DEF Spent
  <1>6. Ledger!Close(F) BY <1>3, <1>4, <1>5 DEF Ledger!Close
  <1>7. QED BY <1>1, <1>6

(* Every behaviour of the requests and the table is one of the ledger.     *)
THEOREM Refinement == Spec => LedgerSpec
  <1>1. Init => Ledger!Init
    <2> SUFFICES ASSUME Init PROVE Ledger!Init OBVIOUS
    <2>1. Spent = {} BY DEF Init, Spent
    <2>2. \A f \in Tokens : LiveOf(state, root, f) = {} BY DEF Init, LiveOf
    <2>3. Holder = [f \in Tokens |-> NoToken] BY <2>2 DEF Holder, TheToken
    <2>4. QED BY <2>1, <2>3 DEF Ledger!Init
  <1>2. ASSUME IInv, IInv', [Next]_vars PROVE [Ledger!Next]_<<Holder, Spent>>
    <2> USE <1>2 DEF IInv, TypeOK
    <2>1. ASSUME NEW p \in Requests, Calling(p) PROVE [Ledger!Next]_<<Holder, Spent>>
      <3>1. CASE IssueSession(p) BY <3>1, OpenStep DEF Ledger!Next
      <3>2. CASE SendRefresh(p) \/ SendLogout(p) \/ SendBlankLogout(p)
        BY <3>2, QuietStep DEF SendRefresh, SendLogout, SendBlankLogout, row
      <3>3. QED BY <2>1, <3>1, <3>2 DEF Calling
    <2>2. ASSUME NEW p \in Requests, Working(p) PROVE [Ledger!Next]_<<Holder, Spent>>
      <3>1. CASE CommitRotation(p) BY <3>1, HandOverStep DEF Ledger!Next
      <3>2. CASE InsertSuccessor(p) BY <3>2, QuietStep DEF InsertSuccessor
      <3>3. CASE Lookup(p) \/ RevokeAllScan(p) BY <3>3, QuietStep DEF Lookup, RevokeAllScan, row
      <3>4. CASE ReplySession(p) \/ ReplyInvalid(p) \/ ReplyGone(p)
        BY <3>4, QuietStep DEF ReplySession, ReplyInvalid, ReplyGone, Finish
      <3>5. QED BY <2>2, <3>1, <3>2, <3>3, <3>4 DEF Working
    <2>3. ASSUME NEW p \in Requests, Waiting(p) PROVE [Ledger!Next]_<<Holder, Spent>>
      <3>1. CASE SpendPresented(p) BY <3>1, QuietStep DEF SpendPresented, row
      <3>2. CASE SpendRefused(p) BY <3>2, QuietStep DEF SpendRefused, MintInv
      <3>3. CASE RevokeAllApply(p)
        <4>1. \A t \in seen[p] : Committed(t) BY DEF KnownInv
        <4>2. QED BY <3>3, <4>1, CloseStep DEF RevokeAllApply, Committed, Ledger!Next
      <3>4. CASE RevokePresented(p)
        <4> DEFINE R == {presented[p]}
        <4>1. presented[p] \in Tokens /\ Committed(presented[p])
          BY <3>4 DEF RevokePresented, KnownInv
        <4>2. state' = [t \in Tokens |-> IF t \in R THEN "revoked" ELSE state[t]] /\ root' = root
          BY <3>4 DEF RevokePresented
        <4>3. R \in SUBSET Tokens /\ \A t \in R : state[t] = "live" \/ state[t] = "revoked"
          BY <4>1 DEF Committed
        <4>4. QED BY <4>2, <4>3, CloseStep DEF Ledger!Next
      <3>5. QED BY <2>3, <3>1, <3>2, <3>3, <3>4 DEF Waiting
    <2>4. ASSUME NEW p \in Requests, LoseReply(p) \/ Fail(p) PROVE [Ledger!Next]_<<Holder, Spent>>
      <3>1. CASE LoseReply(p) BY <3>1, QuietStep DEF LoseReply, Finish
      <3>2. CASE Fail(p) BY <3>2, QuietStep, SessionsAssumption, SMTT(60) DEF Fail, Finish, MintInv, MaybeToken
      <3>3. QED BY <2>4, <3>1, <3>2
    <2>5. ASSUME NEW t \in Tokens, Expire(t) PROVE [Ledger!Next]_<<Holder, Spent>>
      BY <2>5, QuietStep DEF Expire, row
    <2>6. CASE UNCHANGED vars BY <2>6, QuietStep DEF vars
    <2>7. QED BY <1>2, <2>1, <2>2, <2>3, <2>4, <2>5, <2>6 DEF Next
  <1>3. QED BY <1>1, <1>2, Invariance, PTL DEF Spec, LedgerSpec, Ledger!Spec


(* Reuse detection and logout together: what ends sessions takes hold      *)
(* (auth/store.go:249, 258).                                               *)
THEOREM RevokesHold == Spec => []RevokesTakeHold
  BY ReplayKills, LogoutEnds, PTL DEF RevokesTakeHold

-----------------------------------------------------------------------------
(* Clients that do as docs/AUTH.md asks.  One call of a client at a time   *)
(* means that its request carries the token of its jar; the tokens of      *)
(* different clients are different rows, so what one client's request does *)
(* to its own token never reaches another's.                               *)
Carrying == {"lookup", "insert", "spend", "commit", "logout"}

OneCallEach ==
  \A p, q \in Requests :
    ClientOf[p] = ClientOf[q] /\ pc[p] # "idle" /\ pc[q] # "idle" => p = q

(* Between the commit and its answer the jar is behind the table.          *)
Behind(c) == \E p \in Requests :
  ClientOf[p] = c /\ pc[p] \in {"reply_session", "reply_gone"}

CarriesItsJar ==
  \A p \in Requests : pc[p] \in Carrying => presented[p] = jar[ClientOf[p]]

HoldsLive ==
  /\ \A c \in Clients : jar[c] # NoToken /\ ~Behind(c) => state[jar[c]] = "live"
  /\ \A p \in Requests : pc[p] = "reply_session" => state[successor[p]] = "live"

NothingShared ==
  /\ \A c, d \in Clients : jar[c] = jar[d] => jar[c] = NoToken \/ c = d
  /\ \A p \in Requests, c \in Clients : pc[p] = "reply_session" => successor[p] # jar[c]
  /\ \A p, q \in Requests :
       pc[p] = "reply_session" /\ pc[q] = "reply_session" /\ successor[p] = successor[q]
         => p = q

CarefulInv ==
  careful => OneCallEach /\ CarriesItsJar /\ HoldsLive /\ NothingShared
               /\ SerialClientNeverReplays
(* A token in a jar, or in the hands of a request, is a row.               *)
InHand ==
  /\ \A c \in Clients : jar[c] # NoToken => jar[c] \in Tokens /\ Committed(jar[c])
  /\ \A p \in Requests :
       /\ ClientOf[p] \in Clients
       /\ pc[p] \in Carrying => presented[p] \in Tokens /\ Committed(presented[p])
       /\ pc[p] = "reply_session" => successor[p] \in Tokens /\ Committed(successor[p])
       /\ pc[p] \in {"spend", "commit"} =>
            successor[p] \in Tokens /\ state[successor[p]] = "uncommitted"

LEMMA TokensInHand == IInv => InHand
  BY SessionsAssumption DEF IInv, TypeOK, KnownInv, MintInv, MaybeToken, Carrying, InHand

LEMMA IssueSessionCareful == ASSUME IInv, CarefulInv, NEW p \in Requests, IssueSession(p) PROVE CarefulInv'
  <1> SUFFICES ASSUME careful' PROVE (OneCallEach /\ CarriesItsJar /\ HoldsLive /\ NothingShared
                                       /\ SerialClientNeverReplays)'
    BY DEF CarefulInv
  <1>0. careful /\ OneCallEach /\ CarriesItsJar /\ HoldsLive /\ NothingShared /\ SerialClientNeverReplays
    BY DEF CarefulInv, IssueSession, Ready, Goto, row, client
  <1>h. TypeOK /\ InHand BY TokensInHand DEF IInv
  <1> USE SessionsAssumption, <1>0, <1>h DEF IssueSession, Ready, Goto, row, client, InHand, Committed,
         Carrying, TypeOK, MaybeToken
  <1>1. OneCallEach' BY DEF OneCallEach
  <1>2. CarriesItsJar' BY DEF CarriesItsJar, OneCallEach
  <1>3. HoldsLive' BY DEF HoldsLive, Behind, OneCallEach, CarriesItsJar, NothingShared
  <1>4. NothingShared' BY SMTT(30) DEF NothingShared, OneCallEach
  <1>5. SerialClientNeverReplays' BY DEF SerialClientNeverReplays, CarriesItsJar, HoldsLive, Behind, OneCallEach
  <1>6. QED BY <1>1, <1>2, <1>3, <1>4, <1>5

LEMMA SendRefreshCareful == ASSUME IInv, CarefulInv, NEW p \in Requests, SendRefresh(p) PROVE CarefulInv'
  <1> SUFFICES ASSUME careful' PROVE (OneCallEach /\ CarriesItsJar /\ HoldsLive /\ NothingShared
                                       /\ SerialClientNeverReplays)'
    BY DEF CarefulInv
  <1>0. careful /\ OneCallEach /\ CarriesItsJar /\ HoldsLive /\ NothingShared /\ SerialClientNeverReplays
    BY DEF CarefulInv, SendRefresh, Ready, Presentable, Goto, row, client
  <1>h. TypeOK /\ InHand BY TokensInHand DEF IInv
  <1> USE SessionsAssumption, <1>0, <1>h DEF SendRefresh, Ready, Presentable, Goto, row, client, InHand, Committed,
         Carrying, TypeOK, MaybeToken
  <1>1. OneCallEach' BY DEF OneCallEach
  <1>2. CarriesItsJar' BY DEF CarriesItsJar, OneCallEach
  <1>3. HoldsLive' BY DEF HoldsLive, Behind, OneCallEach, CarriesItsJar, NothingShared
  <1>4. NothingShared' BY DEF NothingShared, OneCallEach
  <1>5. SerialClientNeverReplays' BY DEF SerialClientNeverReplays, CarriesItsJar, HoldsLive, Behind, OneCallEach
  <1>6. QED BY <1>1, <1>2, <1>3, <1>4, <1>5

LEMMA LookupCareful == ASSUME IInv, CarefulInv, NEW p \in Requests, Lookup(p) PROVE CarefulInv'
  <1> SUFFICES ASSUME careful' PROVE (OneCallEach /\ CarriesItsJar /\ HoldsLive /\ NothingShared
                                       /\ SerialClientNeverReplays)'
    BY DEF CarefulInv
  <1>0. careful /\ OneCallEach /\ CarriesItsJar /\ HoldsLive /\ NothingShared /\ SerialClientNeverReplays
    BY DEF CarefulInv, Lookup, Goto, row, client
  <1>h. TypeOK /\ InHand BY TokensInHand DEF IInv
  <1> USE SessionsAssumption, <1>0, <1>h DEF Lookup, Goto, row, client, InHand, Committed,
         Carrying, TypeOK, MaybeToken
  <1>1. OneCallEach' BY DEF OneCallEach
  <1>2. CarriesItsJar' BY DEF CarriesItsJar, OneCallEach
  <1>3. HoldsLive' BY DEF HoldsLive, Behind, OneCallEach, CarriesItsJar, NothingShared
  <1>4. NothingShared' BY DEF NothingShared, OneCallEach
  <1>5. SerialClientNeverReplays' BY DEF SerialClientNeverReplays, CarriesItsJar, HoldsLive, Behind, OneCallEach
  <1>6. QED BY <1>1, <1>2, <1>3, <1>4, <1>5

LEMMA InsertSuccessorCareful == ASSUME IInv, CarefulInv, NEW p \in Requests, InsertSuccessor(p) PROVE CarefulInv'
  <1> SUFFICES ASSUME careful' PROVE (OneCallEach /\ CarriesItsJar /\ HoldsLive /\ NothingShared
                                       /\ SerialClientNeverReplays)'
    BY DEF CarefulInv
  <1>0. careful /\ OneCallEach /\ CarriesItsJar /\ HoldsLive /\ NothingShared /\ SerialClientNeverReplays
    BY DEF CarefulInv, InsertSuccessor, Goto, row, client
  <1>h. TypeOK /\ InHand BY TokensInHand DEF IInv
  <1> USE SessionsAssumption, <1>0, <1>h DEF InsertSuccessor, Goto, row, client, InHand, Committed,
         Carrying, TypeOK, MaybeToken
  <1>1. OneCallEach' BY DEF OneCallEach
  <1>2. CarriesItsJar' BY DEF CarriesItsJar, OneCallEach
  <1>3. HoldsLive' BY DEF HoldsLive, Behind, OneCallEach, CarriesItsJar, NothingShared
  <1>4. NothingShared' BY DEF NothingShared, OneCallEach
  <1>5. SerialClientNeverReplays' BY DEF SerialClientNeverReplays, CarriesItsJar, HoldsLive, Behind, OneCallEach
  <1>6. QED BY <1>1, <1>2, <1>3, <1>4, <1>5

LEMMA SpendPresentedCareful == ASSUME IInv, CarefulInv, NEW p \in Requests, SpendPresented(p) PROVE CarefulInv'
  <1> SUFFICES ASSUME careful' PROVE (OneCallEach /\ CarriesItsJar /\ HoldsLive /\ NothingShared
                                       /\ SerialClientNeverReplays)'
    BY DEF CarefulInv
  <1>0. careful /\ OneCallEach /\ CarriesItsJar /\ HoldsLive /\ NothingShared /\ SerialClientNeverReplays
    BY DEF CarefulInv, SpendPresented, SpendGuard, Goto, row, client
  <1>h. TypeOK /\ InHand BY TokensInHand DEF IInv
  <1> USE SessionsAssumption, <1>0, <1>h DEF SpendPresented, SpendGuard, Goto, row, client, InHand, Committed,
         Carrying, TypeOK, MaybeToken
  <1>1. OneCallEach' BY DEF OneCallEach
  <1>2. CarriesItsJar' BY DEF CarriesItsJar, OneCallEach
  <1>3. HoldsLive' BY DEF HoldsLive, Behind, OneCallEach, CarriesItsJar, NothingShared
  <1>4. NothingShared' BY DEF NothingShared, OneCallEach
  <1>5. SerialClientNeverReplays' BY DEF SerialClientNeverReplays, CarriesItsJar, HoldsLive, Behind, OneCallEach
  <1>6. QED BY <1>1, <1>2, <1>3, <1>4, <1>5

LEMMA SpendRefusedCareful == ASSUME IInv, CarefulInv, NEW p \in Requests, SpendRefused(p) PROVE CarefulInv'
  <1> SUFFICES ASSUME careful' PROVE (OneCallEach /\ CarriesItsJar /\ HoldsLive /\ NothingShared
                                       /\ SerialClientNeverReplays)'
    BY DEF CarefulInv
  <1>0. careful /\ OneCallEach /\ CarriesItsJar /\ HoldsLive /\ NothingShared /\ SerialClientNeverReplays
    BY DEF CarefulInv, SpendRefused, SpendGuard, Goto, client
  <1>h. TypeOK /\ InHand BY TokensInHand DEF IInv
  <1> USE SessionsAssumption, <1>0, <1>h DEF SpendRefused, SpendGuard, Goto, client, InHand, Committed,
         Carrying, TypeOK, MaybeToken
  <1>1. OneCallEach' BY DEF OneCallEach
  <1>2. CarriesItsJar' BY DEF CarriesItsJar, OneCallEach
  <1>3. HoldsLive' BY DEF HoldsLive, Behind, OneCallEach, CarriesItsJar, NothingShared
  <1>4. NothingShared' BY DEF NothingShared, OneCallEach
  <1>5. SerialClientNeverReplays' BY DEF SerialClientNeverReplays, CarriesItsJar, HoldsLive, Behind, OneCallEach
  <1>6. QED BY <1>1, <1>2, <1>3, <1>4, <1>5

LEMMA CommitRotationCareful == ASSUME IInv, CarefulInv, NEW p \in Requests, CommitRotation(p) PROVE CarefulInv'
  <1> SUFFICES ASSUME careful' PROVE (OneCallEach /\ CarriesItsJar /\ HoldsLive /\ NothingShared
                                       /\ SerialClientNeverReplays)'
    BY DEF CarefulInv
  <1>0. careful /\ OneCallEach /\ CarriesItsJar /\ HoldsLive /\ NothingShared /\ SerialClientNeverReplays
    BY DEF CarefulInv, CommitRotation, Goto, client
  <1>h. TypeOK /\ InHand BY TokensInHand DEF IInv
  <1> USE SessionsAssumption, <1>0, <1>h DEF CommitRotation, Goto, client, InHand, Committed,
         Carrying, TypeOK, MaybeToken
  <1>1. OneCallEach' BY DEF OneCallEach
  <1>2. CarriesItsJar' BY DEF CarriesItsJar, OneCallEach
  <1>3. HoldsLive' BY DEF HoldsLive, Behind, OneCallEach, CarriesItsJar, NothingShared
  <1>4. NothingShared' BY SMTT(30) DEF NothingShared, OneCallEach
  <1>5. SerialClientNeverReplays' BY DEF SerialClientNeverReplays, CarriesItsJar, HoldsLive, Behind, OneCallEach
  <1>6. QED BY <1>1, <1>2, <1>3, <1>4, <1>5

LEMMA SendLogoutCareful == ASSUME IInv, CarefulInv, NEW p \in Requests, SendLogout(p) PROVE CarefulInv'
  <1> SUFFICES ASSUME careful' PROVE (OneCallEach /\ CarriesItsJar /\ HoldsLive /\ NothingShared
                                       /\ SerialClientNeverReplays)'
    BY DEF CarefulInv
  <1>0. careful /\ OneCallEach /\ CarriesItsJar /\ HoldsLive /\ NothingShared /\ SerialClientNeverReplays
    BY DEF CarefulInv, SendLogout, Ready, Presentable, Goto, row, client
  <1>h. TypeOK /\ InHand BY TokensInHand DEF IInv
  <1> USE SessionsAssumption, <1>0, <1>h DEF SendLogout, Ready, Presentable, Goto, row, client, InHand, Committed,
         Carrying, TypeOK, MaybeToken
  <1>1. OneCallEach' BY DEF OneCallEach
  <1>2. CarriesItsJar' BY DEF CarriesItsJar, OneCallEach
  <1>3. HoldsLive' BY DEF HoldsLive, Behind, OneCallEach, CarriesItsJar, NothingShared
  <1>4. NothingShared' BY DEF NothingShared, OneCallEach
  <1>5. SerialClientNeverReplays' BY DEF SerialClientNeverReplays, CarriesItsJar, HoldsLive, Behind, OneCallEach
  <1>6. QED BY <1>1, <1>2, <1>3, <1>4, <1>5

LEMMA SendBlankLogoutCareful == ASSUME IInv, CarefulInv, NEW p \in Requests, SendBlankLogout(p) PROVE CarefulInv'
  <1> SUFFICES ASSUME careful' PROVE (OneCallEach /\ CarriesItsJar /\ HoldsLive /\ NothingShared
                                       /\ SerialClientNeverReplays)'
    BY DEF CarefulInv
  <1>0. careful /\ OneCallEach /\ CarriesItsJar /\ HoldsLive /\ NothingShared /\ SerialClientNeverReplays
    BY DEF CarefulInv, SendBlankLogout, Ready, Goto, row, client
  <1>h. TypeOK /\ InHand BY TokensInHand DEF IInv
  <1> USE SessionsAssumption, <1>0, <1>h DEF SendBlankLogout, Ready, Goto, row, client, InHand, Committed,
         Carrying, TypeOK, MaybeToken
  <1>1. OneCallEach' BY DEF OneCallEach
  <1>2. CarriesItsJar' BY DEF CarriesItsJar, OneCallEach
  <1>3. HoldsLive' BY DEF HoldsLive, Behind, OneCallEach, CarriesItsJar, NothingShared
  <1>4. NothingShared' BY DEF NothingShared, OneCallEach
  <1>5. SerialClientNeverReplays' BY DEF SerialClientNeverReplays, CarriesItsJar, HoldsLive, Behind, OneCallEach
  <1>6. QED BY <1>1, <1>2, <1>3, <1>4, <1>5

LEMMA RevokePresentedCareful == ASSUME IInv, CarefulInv, NEW p \in Requests, RevokePresented(p) PROVE CarefulInv'
  <1> SUFFICES ASSUME careful' PROVE (OneCallEach /\ CarriesItsJar /\ HoldsLive /\ NothingShared
                                       /\ SerialClientNeverReplays)'
    BY DEF CarefulInv
  <1>0. careful /\ OneCallEach /\ CarriesItsJar /\ HoldsLive /\ NothingShared /\ SerialClientNeverReplays
    BY DEF CarefulInv, RevokePresented, Goto, client
  <1>h. TypeOK /\ InHand BY TokensInHand DEF IInv
  <1> USE SessionsAssumption, <1>0, <1>h DEF RevokePresented, Goto, client, InHand, Committed,
         Carrying, TypeOK, MaybeToken
  <1>1. OneCallEach' BY DEF OneCallEach
  <1>2. CarriesItsJar' BY DEF CarriesItsJar, OneCallEach
  <1>3. HoldsLive' BY DEF HoldsLive, Behind, OneCallEach, CarriesItsJar, NothingShared
  <1>4. NothingShared' BY DEF NothingShared, OneCallEach
  <1>5. SerialClientNeverReplays' BY DEF SerialClientNeverReplays, CarriesItsJar, HoldsLive, Behind, OneCallEach
  <1>6. QED BY <1>1, <1>2, <1>3, <1>4, <1>5

LEMMA ReplySessionCareful == ASSUME IInv, CarefulInv, NEW p \in Requests, ReplySession(p) PROVE CarefulInv'
  <1> SUFFICES ASSUME careful' PROVE (OneCallEach /\ CarriesItsJar /\ HoldsLive /\ NothingShared
                                       /\ SerialClientNeverReplays)'
    BY DEF CarefulInv
  <1>0. careful /\ OneCallEach /\ CarriesItsJar /\ HoldsLive /\ NothingShared /\ SerialClientNeverReplays
    BY DEF CarefulInv, ReplySession, Finish, Goto
  <1>h. TypeOK /\ InHand BY TokensInHand DEF IInv
  <1> USE SessionsAssumption, <1>0, <1>h DEF ReplySession, Finish, Goto, InHand, Committed,
         Carrying, TypeOK, MaybeToken
  <1>1. OneCallEach' BY DEF OneCallEach
  <1>2. CarriesItsJar' BY DEF CarriesItsJar, OneCallEach
  <1>3. HoldsLive' BY DEF HoldsLive, Behind, OneCallEach, CarriesItsJar, NothingShared
  <1>4. NothingShared' BY DEF NothingShared, OneCallEach
  <1>5. SerialClientNeverReplays' BY DEF SerialClientNeverReplays, CarriesItsJar, HoldsLive, Behind, OneCallEach
  <1>6. QED BY <1>1, <1>2, <1>3, <1>4, <1>5

LEMMA ReplyInvalidCareful == ASSUME IInv, CarefulInv, NEW p \in Requests, ReplyInvalid(p) PROVE CarefulInv'
  <1> SUFFICES ASSUME careful' PROVE (OneCallEach /\ CarriesItsJar /\ HoldsLive /\ NothingShared
                                       /\ SerialClientNeverReplays)'
    BY DEF CarefulInv
  <1>0. careful /\ OneCallEach /\ CarriesItsJar /\ HoldsLive /\ NothingShared /\ SerialClientNeverReplays
    BY DEF CarefulInv, ReplyInvalid, Finish, Goto
  <1>h. TypeOK /\ InHand BY TokensInHand DEF IInv
  <1> USE SessionsAssumption, <1>0, <1>h DEF ReplyInvalid, Finish, Goto, InHand, Committed,
         Carrying, TypeOK, MaybeToken
  <1>1. OneCallEach' BY DEF OneCallEach
  <1>2. CarriesItsJar' BY DEF CarriesItsJar, OneCallEach
  <1>3. HoldsLive' BY DEF HoldsLive, Behind, OneCallEach, CarriesItsJar, NothingShared
  <1>4. NothingShared' BY DEF NothingShared, OneCallEach
  <1>5. SerialClientNeverReplays' BY DEF SerialClientNeverReplays, CarriesItsJar, HoldsLive, Behind, OneCallEach
  <1>6. QED BY <1>1, <1>2, <1>3, <1>4, <1>5

LEMMA ReplyGoneCareful == ASSUME IInv, CarefulInv, NEW p \in Requests, ReplyGone(p) PROVE CarefulInv'
  <1> SUFFICES ASSUME careful' PROVE (OneCallEach /\ CarriesItsJar /\ HoldsLive /\ NothingShared
                                       /\ SerialClientNeverReplays)'
    BY DEF CarefulInv
  <1>0. careful /\ OneCallEach /\ CarriesItsJar /\ HoldsLive /\ NothingShared /\ SerialClientNeverReplays
    BY DEF CarefulInv, ReplyGone, Finish, Goto
  <1>h. TypeOK /\ InHand BY TokensInHand DEF IInv
  <1> USE SessionsAssumption, <1>0, <1>h DEF ReplyGone, Finish, Goto, InHand, Committed,
         Carrying, TypeOK, MaybeToken
  <1>1. OneCallEach' BY DEF OneCallEach
  <1>2. CarriesItsJar' BY DEF CarriesItsJar, OneCallEach
  <1>3. HoldsLive' BY DEF HoldsLive, Behind, OneCallEach, CarriesItsJar, NothingShared
  <1>4. NothingShared' BY DEF NothingShared, OneCallEach
  <1>5. SerialClientNeverReplays' BY DEF SerialClientNeverReplays, CarriesItsJar, HoldsLive, Behind, OneCallEach
  <1>6. QED BY <1>1, <1>2, <1>3, <1>4, <1>5

LEMMA FailCareful == ASSUME IInv, CarefulInv, NEW p \in Requests, Fail(p) PROVE CarefulInv'
  <1> SUFFICES ASSUME careful' PROVE (OneCallEach /\ CarriesItsJar /\ HoldsLive /\ NothingShared
                                       /\ SerialClientNeverReplays)'
    BY DEF CarefulInv
  <1>0. careful /\ OneCallEach /\ CarriesItsJar /\ HoldsLive /\ NothingShared /\ SerialClientNeverReplays
    BY DEF CarefulInv, Fail, Finish, Goto, client
  <1>h. TypeOK /\ InHand BY TokensInHand DEF IInv
  <1> USE SessionsAssumption, <1>0, <1>h DEF Fail, Finish, Goto, client, InHand, Committed,
         Carrying, TypeOK, MaybeToken
  <1>1. OneCallEach' BY DEF OneCallEach
  <1>2. CarriesItsJar' BY DEF CarriesItsJar, OneCallEach
  <1>3. HoldsLive'
    <2>1. successor[p] \in Tokens => ~Committed(successor[p])
      BY DEF IInv, MintInv
    <2>2. \A t \in Tokens : state[t] = "live" => state'[t] = "live"
      BY <2>1
    <2>3. \A c \in Clients : ~Behind(c)' => ~Behind(c)
      BY DEF Behind
    <2>4. QED BY <2>2, <2>3 DEF HoldsLive, Behind
  <1>4. NothingShared' BY DEF NothingShared, OneCallEach
  <1>5. SerialClientNeverReplays' BY DEF SerialClientNeverReplays, CarriesItsJar, HoldsLive, Behind, OneCallEach
  <1>6. QED BY <1>1, <1>2, <1>3, <1>4, <1>5

LEMMA InitCareful == Init => CarefulInv
  BY SessionsAssumption DEF Init, CarefulInv, OneCallEach, CarriesItsJar, Carrying, HoldsLive,
     Behind, NothingShared, SerialClientNeverReplays

LEMMA ExpireCareful == ASSUME CarefulInv, NEW t \in Tokens, Expire(t) PROVE CarefulInv'
  <1> USE DEF Expire, row, client, CarefulInv
  <1>1. SUFFICES ASSUME careful
                 PROVE  (OneCallEach /\ CarriesItsJar /\ HoldsLive /\ NothingShared
                           /\ SerialClientNeverReplays)'
    OBVIOUS
  <1>2. OneCallEach' BY <1>1 DEF OneCallEach
  <1>3. CarriesItsJar' BY <1>1 DEF CarriesItsJar, Carrying
  <1>4. HoldsLive' BY <1>1 DEF HoldsLive, Behind
  <1>5. NothingShared' BY <1>1 DEF NothingShared
  <1>6. SerialClientNeverReplays' BY <1>1 DEF SerialClientNeverReplays
  <1>7. QED BY <1>2, <1>3, <1>4, <1>5, <1>6

LEMMA StutterCareful == ASSUME CarefulInv, UNCHANGED vars PROVE CarefulInv'
  BY DEF vars, CarefulInv, OneCallEach, CarriesItsJar, HoldsLive, Behind, NothingShared,
     SerialClientNeverReplays

(* Replay and lost answers are not for a careful client.                   *)
LEMMA NotForTheCareful ==
  ASSUME CarefulInv, NEW p \in Requests, RevokeAllScan(p) \/ RevokeAllApply(p) \/ LoseReply(p)
  PROVE  CarefulInv'
  <1>1. ~careful
    BY DEF CarefulInv, SerialClientNeverReplays, RevokeAllScan, RevokeAllApply, LoseReply
  <1>2. careful' = careful BY DEF RevokeAllScan, RevokeAllApply, LoseReply, Finish, Goto
  <1>3. QED BY <1>1, <1>2 DEF CarefulInv

LEMMA CarefulInvariance == Spec => []CarefulInv
  <1>1. ASSUME IInv, CarefulInv, [Next]_vars PROVE CarefulInv'
    <2> USE <1>1
    <2>1. ASSUME NEW p \in Requests, Calling(p) PROVE CarefulInv'
      BY <2>1, IssueSessionCareful, SendRefreshCareful, SendLogoutCareful, SendBlankLogoutCareful
         DEF Calling
    <2>2. ASSUME NEW p \in Requests, Working(p) PROVE CarefulInv'
      BY <2>2, LookupCareful, InsertSuccessorCareful, CommitRotationCareful, NotForTheCareful,
         ReplySessionCareful, ReplyInvalidCareful, ReplyGoneCareful DEF Working
    <2>3. ASSUME NEW p \in Requests, Waiting(p) PROVE CarefulInv'
      BY <2>3, SpendPresentedCareful, SpendRefusedCareful, NotForTheCareful,
         RevokePresentedCareful DEF Waiting
    <2>4. ASSUME NEW p \in Requests, LoseReply(p) \/ Fail(p) PROVE CarefulInv'
      BY <2>4, NotForTheCareful, FailCareful
    <2>5. QED BY <2>1, <2>2, <2>3, <2>4, ExpireCareful, StutterCareful DEF Next
  <1>2. QED BY InitCareful, <1>1, Invariance, PTL DEF Spec

(* A client that keeps to docs/AUTH.md is never answered with reuse        *)
(* detection and between calls holds a token good for a refresh, however   *)
(* its calls fail and whatever other clients do (auth/refresh.go).         *)
THEOREM SerialClientSafe == Spec => []SerialClientIsSafe
  <1>1. CarefulInv => SerialClientIsSafe
    BY DEF CarefulInv, SerialClientIsSafe, SerialClientNeverReplays, SerialClientHoldsLiveToken,
       HoldsLive, Behind
  <1>2. QED BY <1>1, CarefulInvariance, PTL
=============================================================================
