---------------------------- MODULE PeopleProofs ----------------------------
(***************************************************************************)
(* Roles for any number of members and requests, Directory for any number  *)
(* of emails, organisations, invitations and calls, and Calendar for any   *)
(* number of consents, accounts and bookings.                              *)
(*                                                                         *)
(* CallInv and TokenInv hold however role changes overlap and give         *)
(* OwnershipIsHandedDown.  SerialInv holds when they do not overlap, and   *)
(* gives the two promises that the last-owner check makes: what a call has *)
(* read is then still true when it writes.                                 *)
(*                                                                         *)
(* Nothing that a visit of Directory has looked up is still known when it  *)
(* acts, but for the invitation it has claimed: the UNIQUE email and the   *)
(* lock on the invitation's row carry the whole argument.                  *)
(***************************************************************************)
EXTENDS Roles, Directory, Calendar, FiniteSetTheorems, TLAPS

(* What a call in flight has checked.                                      *)
CallInv ==
  \A p \in Requests : pc[p] # "idle" =>
    /\ actor[p] \in Members /\ target[p] \in Members /\ actor[p] # target[p]
    /\ authority[p] \in Managing /\ wanted[p] \in Asked
    /\ role[target[p]] # "none"
    /\ wanted[p] = "owner" => authority[p] = "owner"
    /\ authority[p] = "owner" => actor[p] \in was_owner

(* A token that says owner was signed for one.                             *)
TokenInv ==
  \A m \in Members :
    /\ "owner" \in tokens[m] => m \in was_owner
    /\ role[m] = "owner" => m \in was_owner

RolesInv == TypeOK /\ CallInv /\ TokenInv

LEMMA InitRolesInv == Init => RolesInv
<1> SUFFICES ASSUME Init PROVE RolesInv
  OBVIOUS
<1> USE RolesAssumption DEF Init, validRoles, Managing, Points
<1>1. TypeOK
  BY DEF TypeOK
<1>2. CallInv
  BY DEF CallInv
<1>3. TokenInv
  BY DEF TokenInv
<1> QED
  BY <1>1, <1>2, <1>3 DEF RolesInv

(* Joining and tokens.                                                     *)
LEMMA MemberStep ==
  ASSUME RolesInv, NEW m \in Members, Join(m) \/ SignToken(m) \/ ExpireToken(m)
  PROVE  RolesInv'
<1> USE DEF RolesInv, TypeOK, request, validRoles, Managing
<1>1. CASE Join(m)
  BY <1>1 DEF Join, CallInv, TokenInv
<1>2. CASE SignToken(m)
  <2>1. TypeOK'
    BY <1>2 DEF SignToken
  <2>2. CallInv'
    BY <1>2 DEF SignToken, CallInv
  <2>3. TokenInv'
    BY <1>2 DEF SignToken, TokenInv
  <2> QED
    BY <2>1, <2>2, <2>3
<1>3. CASE ExpireToken(m)
  <2>1. TypeOK'
    BY <1>3 DEF ExpireToken
  <2>2. CallInv'
    BY <1>3 DEF ExpireToken, CallInv
  <2>3. TokenInv'
    BY <1>3 DEF ExpireToken, TokenInv
  <2> QED
    BY <2>1, <2>2, <2>3
<1> QED
  BY <1>1, <1>2, <1>3

(* A call that ends leaves nothing behind.                                 *)
LEMMA FinishStep ==
  ASSUME RolesInv, NEW p \in Requests, Finish(p),
         UNCHANGED <<role, tokens, was_owner, overlapped>>
  PROVE  RolesInv'
<1> USE RolesAssumption DEF RolesInv, Finish, Goto
<1>1. TypeOK'
  BY DEF TypeOK, Points
<1>2. CallInv'
  BY DEF TypeOK, CallInv
<1>3. TokenInv'
  BY DEF TokenInv
<1> QED
  BY <1>1, <1>2, <1>3

LEMMA RequestStep ==
  ASSUME RolesInv, NEW p \in Requests, UpdateMemberRole(p)
  PROVE  RolesInv'
<1> USE RolesAssumption DEF RolesInv, UpdateMemberRole, Goto
<1>1. PICK a \in Members : \E c \in tokens[a], m \in Members, r \in Asked :
        /\ Permitted(a, c, m, r)
        /\ actor' = [actor EXCEPT ![p] = a]
        /\ authority' = [authority EXCEPT ![p] = c]
        /\ target' = [target EXCEPT ![p] = m]
        /\ wanted' = [wanted EXCEPT ![p] = r]
        /\ current' = [current EXCEPT ![p] = role[m]]
  OBVIOUS
<1>2. PICK c \in tokens[a], m \in Members, r \in Asked :
        /\ Permitted(a, c, m, r)
        /\ actor' = [actor EXCEPT ![p] = a]
        /\ authority' = [authority EXCEPT ![p] = c]
        /\ target' = [target EXCEPT ![p] = m]
        /\ wanted' = [wanted EXCEPT ![p] = r]
        /\ current' = [current EXCEPT ![p] = role[m]]
  BY <1>1
<1>3. TypeOK'
  BY <1>2 DEF TypeOK, Points, Permitted, validRoles, Managing
<1>4. c = "owner" => a \in was_owner
  BY <1>2 DEF TokenInv
<1>5. CallInv'
  BY <1>2, <1>4 DEF CallInv, TypeOK, Permitted
<1>6. TokenInv'
  BY DEF TokenInv
<1> QED
  BY <1>3, <1>5, <1>6

(* The two reads move a call on or end it.                                 *)
LEMMA ReadStep ==
  ASSUME RolesInv, NEW p \in Requests, LockMember(p) \/ CountOwners(p)
  PROVE  RolesInv'
<1>1. UNCHANGED <<role, tokens, was_owner, overlapped>>
  BY DEF LockMember, CountOwners
<1>2. CASE Finish(p)
  BY <1>1, <1>2, FinishStep
<1>3. CASE ~Finish(p)
  <2>1. /\ pc[p] # "idle"
        /\ \E pt \in {"count", "write"} : pc' = [pc EXCEPT ![p] = pt]
        /\ UNCHANGED <<actor, authority, target, wanted, current>>
    BY <1>3 DEF LockMember, CountOwners, Goto
  <2>2. TypeOK'
    BY <1>1, <2>1 DEF RolesInv, TypeOK, Points
  <2>3. CallInv'
    BY <1>1, <2>1 DEF RolesInv, TypeOK, CallInv
  <2>4. TokenInv'
    BY <1>1 DEF RolesInv, TokenInv
  <2> QED
    BY <2>2, <2>3, <2>4 DEF RolesInv
<1> QED
  BY <1>2, <1>3

LEMMA WriteStep ==
  ASSUME RolesInv, NEW p \in Requests, WriteRole(p)
  PROVE  RolesInv'
<1> USE RolesAssumption DEF RolesInv, WriteRole, Finish, Goto
<1>1. /\ target[p] \in Members
      /\ wanted[p] \in validRoles
      /\ was_owner \subseteq was_owner'
  BY DEF CallInv, validRoles
<1>2. TypeOK'
  BY <1>1 DEF TypeOK, Points
<1>3. CallInv'
  BY <1>1 DEF TypeOK, CallInv
<1>4. TokenInv'
  BY <1>1 DEF TypeOK, TokenInv
<1> QED
  BY <1>2, <1>3, <1>4

LEMMA RolesInductive == RolesInv /\ [Next]_vars => RolesInv'
<1> SUFFICES ASSUME RolesInv, [Next]_vars PROVE RolesInv'
  OBVIOUS
<1>1. CASE UNCHANGED vars
  BY <1>1 DEF vars, RolesInv, TypeOK, CallInv, TokenInv
<1>2. CASE Next
  BY <1>2, MemberStep, RequestStep, ReadStep, WriteStep DEF Next
<1> QED
  BY <1>1, <1>2

LEMMA RolesInvariance == Spec => []RolesInv
<1> QED
  BY InitRolesInv, RolesInductive, PTL DEF Spec

(* Roles, tokens and calls keep their types.                               *)
THEOREM RolesTypeCorrect == Spec => []TypeOK
<1>1. RolesInv => TypeOK
  BY DEF RolesInv
<1> QED
  BY RolesInvariance, <1>1, PTL

(* However calls overlap and however old their tokens, ownership passes    *)
(* only from a member who has held it to another one.                      *)
THEOREM HandedDown == Spec => OwnershipIsHandedDown
<1>1. ASSUME RolesInv, Next, NEW m \in Members, role[m] # "owner", role'[m] = "owner"
      PROVE  \E p \in Requests : /\ pc[p] = "write" /\ pc'[p] = "idle"
                                 /\ target[p] = m /\ actor[p] # m
                                 /\ actor[p] \in was_owner
  <2>1. PICK p \in Requests : WriteRole(p)
    <3>1. CASE \E n \in Members : Join(n) \/ SignToken(n) \/ ExpireToken(n)
      BY <1>1, <3>1 DEF RolesInv, TypeOK, Join, SignToken, ExpireToken
    <3>2. CASE \E p \in Requests : UpdateMemberRole(p) \/ LockMember(p) \/ CountOwners(p)
      BY <1>1, <3>2 DEF UpdateMemberRole, LockMember, CountOwners
    <3> QED
      BY <1>1, <3>1, <3>2 DEF Next
  <2>2. target[p] = m /\ wanted[p] = "owner"
    BY <1>1, <2>1 DEF WriteRole, RolesInv, TypeOK
  <2>3. pc[p] = "write" /\ pc'[p] = "idle"
    BY <1>1, <2>1 DEF WriteRole, Finish, Goto, RolesInv, TypeOK
  <2>4. actor[p] # m /\ actor[p] \in was_owner
    BY <1>1, <2>2, <2>3 DEF RolesInv, CallInv
  <2> QED
    BY <2>2, <2>3, <2>4
<1>2. RolesInv /\ [Next]_vars =>
        [\A m \in Members : role[m] # "owner" /\ role'[m] = "owner" =>
           \E p \in Requests : /\ pc[p] = "write" /\ pc'[p] = "idle"
                               /\ target[p] = m /\ actor[p] # m
                               /\ actor[p] \in was_owner]_vars
  BY <1>1
<1> QED
  BY RolesInvariance, <1>2, PTL DEF Spec, OwnershipIsHandedDown

-----------------------------------------------------------------------------
(* While calls have not overlapped, what was read is still so.             *)
SerialInv ==
  /\ \A p, q \in Requests : pc[p] # "idle" /\ pc[q] # "idle" => p = q
  /\ \A p \in Requests : pc[p] # "idle" => current[p] = role[target[p]]
  /\ \A p \in Requests : pc[p] \in {"count", "write"} => ~OwnerOnly(p)
  /\ \A p \in Requests : pc[p] = "write" /\ Unseats(p) =>
       \E m \in Members : m # target[p] /\ role[m] = "owner"
  /\ \E m \in Members : role[m] = "owner"

LEMMA InitSerial == Init => SerialInv
BY RolesAssumption DEF Init, SerialInv

(* Two owners: there is another one besides the member being unseated.     *)
LEMMA AnotherOwner ==
  ASSUME ~(Cardinality(Owners) <= 1), NEW t
  PROVE  \E m \in Members : m # t /\ role[m] = "owner"
<1> SUFFICES ASSUME \A m \in Members : role[m] = "owner" => m = t PROVE FALSE
  OBVIOUS
<1>1. Owners \subseteq {t}
  BY DEF Owners
<1>2. IsFiniteSet({t}) /\ Cardinality({t}) = 1
  BY FS_Singleton
<1>3. Cardinality(Owners) <= 1
  BY <1>1, <1>2, FS_Subset
<1> QED
  BY <1>3

(* Steps that leave the calls and the roles of members alone.              *)
LEMMA SerialMemberStep ==
  ASSUME RolesInv, SerialInv, NEW m \in Members, Join(m) \/ SignToken(m) \/ ExpireToken(m)
  PROVE  SerialInv'
<1>1. /\ UNCHANGED <<pc, actor, authority, target, wanted, current>>
      /\ \A n \in Members : role[n] = "none" \/ role'[n] = role[n]
  BY DEF RolesInv, TypeOK, Join, SignToken, ExpireToken, request
<1>2. \A p \in Requests : pc[p] # "idle" => target[p] \in Members /\ role[target[p]] # "none"
  BY DEF RolesInv, CallInv
<1> QED
  BY <1>1, <1>2 DEF SerialInv, OwnerOnly, Unseats

(* A call that starts reads the role it will go by.                        *)
LEMMA SerialRequestStep ==
  ASSUME ~overlapped', RolesInv, SerialInv, NEW p \in Requests, UpdateMemberRole(p)
  PROVE  SerialInv'
<1>1. \A q \in Requests : pc[q] = "idle"
  BY DEF UpdateMemberRole
<1>2. /\ pc' = [pc EXCEPT ![p] = "lock"]
      /\ UNCHANGED <<role, tokens, was_owner>>
  BY DEF UpdateMemberRole, Goto
<1>3. current'[p] = role[target'[p]]
  BY DEF UpdateMemberRole, RolesInv, TypeOK
<1> QED
  BY <1>1, <1>2, <1>3 DEF SerialInv, RolesInv, TypeOK, OwnerOnly, Unseats

(* A call that ends without writing.                                       *)
LEMMA SerialFinishStep ==
  ASSUME RolesInv, SerialInv, NEW p \in Requests, Finish(p), role' = role
  PROVE  SerialInv'
<1> USE DEF Finish, Goto, SerialInv, RolesInv, TypeOK
<1>1. \A q \in Requests : q # p =>
        /\ pc'[q] = pc[q] /\ target'[q] = target[q] /\ current'[q] = current[q]
        /\ wanted'[q] = wanted[q] /\ authority'[q] = authority[q]
  OBVIOUS
<1>2. pc'[p] = "idle"
  OBVIOUS
<1> QED
  BY <1>1, <1>2 DEF OwnerOnly, Unseats

(* A call that reads on: the lock follows the check of the caller's        *)
(* authority, and the count leaves another owner.                          *)
LEMMA SerialReadStep ==
  ASSUME RolesInv, SerialInv, NEW p \in Requests, LockMember(p) \/ CountOwners(p)
  PROVE  SerialInv'
<1>1. role' = role
  BY DEF LockMember, CountOwners
<1>2. CASE Finish(p)
  BY <1>1, <1>2, SerialFinishStep
<1>3. CASE ~Finish(p)
  <2>1. UNCHANGED <<actor, authority, target, wanted, current>>
    BY <1>3 DEF LockMember, CountOwners
  <2>2. pc[p] # "idle" /\ \E pt \in {"count", "write"} : pc' = [pc EXCEPT ![p] = pt]
    BY <1>3 DEF LockMember, CountOwners, Goto
  <2>3. ~OwnerOnly(p)
    BY <1>3 DEF LockMember, CountOwners, SerialInv
  <2>4. pc'[p] = "write" /\ Unseats(p) => \E m \in Members : m # target[p] /\ role[m] = "owner"
    <3>1. CASE LockMember(p)
      BY <1>3, <3>1 DEF LockMember, Goto, RolesInv, TypeOK
    <3>2. CASE CountOwners(p)
      <4>1. ~(Cardinality(Owners) <= 1)
        BY <1>3, <3>2 DEF CountOwners
      <4> QED
        BY <4>1, AnotherOwner
    <3> QED
      BY <3>1, <3>2
  <2> QED
    BY <1>1, <2>1, <2>2, <2>3, <2>4 DEF SerialInv, OwnerOnly, Unseats, RolesInv, TypeOK
<1> QED
  BY <1>2, <1>3

(* The write unseats nobody, or leaves the other owner in place.           *)
LEMMA SerialWriteStep ==
  ASSUME RolesInv, SerialInv, NEW p \in Requests, WriteRole(p)
  PROVE  SerialInv'
<1> USE DEF WriteRole, Finish, Goto, RolesInv, TypeOK
<1>1. /\ target[p] \in Members /\ current[p] = role[target[p]]
      /\ \A q \in Requests : q # p => pc[q] = "idle"
  BY DEF CallInv, SerialInv
<1>2. \A q \in Requests : pc'[q] = "idle"
  BY <1>1
<1>3. \E m \in Members : role'[m] = "owner"
  <2>1. CASE Unseats(p)
    BY <2>1 DEF SerialInv
  <2>2. CASE ~Unseats(p)
    <3>1. PICK m \in Members : role[m] = "owner"
      BY DEF SerialInv
    <3>2. role'[m] = "owner"
      BY <1>1, <2>2, <3>1 DEF Unseats
    <3> QED
      BY <3>2
  <2> QED
    BY <2>1, <2>2
<1> QED
  BY <1>2, <1>3 DEF SerialInv

LEMMA SerialInductive ==
  RolesInv /\ (~overlapped => SerialInv) /\ [Next]_vars => (~overlapped' => SerialInv')
<1> SUFFICES ASSUME RolesInv, ~overlapped => SerialInv, [Next]_vars, ~overlapped'
             PROVE  SerialInv'
  OBVIOUS
<1>1. CASE UNCHANGED vars
  BY <1>1 DEF vars, SerialInv, OwnerOnly, Unseats
<1>2. CASE \E m \in Members : Join(m) \/ SignToken(m) \/ ExpireToken(m)
  <2>1. ~overlapped
    BY <1>2 DEF Join, SignToken, ExpireToken
  <2> QED
    BY <1>2, <2>1, SerialMemberStep
<1>3. CASE \E p \in Requests : UpdateMemberRole(p)
  <2>1. ~overlapped
    BY <1>3 DEF UpdateMemberRole
  <2> QED
    BY <1>3, <2>1, SerialRequestStep
<1>4. CASE \E p \in Requests : LockMember(p) \/ CountOwners(p)
  <2>1. ~overlapped
    BY <1>4 DEF LockMember, CountOwners
  <2> QED
    BY <1>4, <2>1, SerialReadStep
<1>5. CASE \E p \in Requests : WriteRole(p)
  <2>1. ~overlapped
    BY <1>5 DEF WriteRole
  <2> QED
    BY <1>5, <2>1, SerialWriteStep
<1> QED
  BY <1>1, <1>2, <1>3, <1>4, <1>5 DEF Next

LEMMA SerialInvariance == Spec => [](~overlapped => SerialInv)
BY RolesInvariance, InitSerial, SerialInductive, PTL DEF Spec

(* As long as role changes do not overlap, the organisation keeps an owner *)
(* (org/store.go:277).                                                     *)
THEOREM OwnerKept == Spec => []KeepsAnOwner
<1>1. (~overlapped => SerialInv) => KeepsAnOwner
  BY DEF SerialInv, KeepsAnOwner, Owners
<1> QED
  BY SerialInvariance, <1>1, PTL

(* As long as role changes do not overlap, only an owner's token unseats   *)
(* an owner (org/store.go:271).                                            *)
THEOREM UnseatedByOwners == Spec => []OwnersUnseatedByOwners
<1>1. (~overlapped => SerialInv) => OwnersUnseatedByOwners
  BY DEF SerialInv, OwnersUnseatedByOwners, OwnerOnly
<1> QED
  BY SerialInvariance, <1>1, PTL

(* Changes of roles leave an owner, and owners to owners                   *)
(* (org/store.go:257, 277).                                                *)
THEOREM OwnersRight == Spec => []OwnersStay
  BY OwnerKept, UnseatedByOwners, PTL DEF OwnersStay

-----------------------------------------------------------------------------
(* What a visit still knows of itself where it waits.                      *)
VisitInv ==
  \A p \in Visits :
    /\ at[p] = "by_email" => who[p] \in Allowed /\ via[p] \in Providers
    /\ at[p] = "provision" => who[p] \in Allowed /\ via[p] \in Methods
    /\ at[p] = "invite" => who[p] \in Emails

(* A claim is one visit's, of an invitation that is still pending.         *)
ClaimInv ==
  \A p \in Visits : at[p] = "join" =>
    /\ holds[p] \in Invitations /\ invite[holds[p]] = "pending"
    /\ who[p] = invitee[holds[p]] /\ via[p] = "password"
    /\ \A q \in Visits : at[q] = "join" /\ holds[q] = holds[p] => q = p

(* An invitation that was made names an email and a standing organisation. *)
InviteInv ==
  \A i \in Invitations : invite[i] # "none" =>
    invitee[i] \in Emails /\ host[i] \in Orgs /\ Founded(host[i])

HomeInv == org[HomeFounder] = HomeOrg

DirectoryInv ==
  /\ DirectoryTypeOK /\ VisitInv /\ ClaimInv /\ InviteInv /\ HomeInv
  /\ AcceptedMeansSeated /\ OneFounder /\ OutsidersAreInvited

LEMMA InitDirectoryInv == DirectoryInit => DirectoryInv
<1> SUFFICES ASSUME DirectoryInit PROVE DirectoryInv
  OBVIOUS
<1> USE DirectoryAssumption DEF DirectoryInit
<1>1. DirectoryTypeOK
  BY DEF DirectoryTypeOK, Registered, VisitPoints, Methods
<1>2. VisitInv /\ ClaimInv /\ InviteInv /\ HomeInv
  BY DEF VisitInv, ClaimInv, InviteInv, HomeInv
<1>3. AcceptedMeansSeated
  BY DEF AcceptedMeansSeated
<1>4. OneFounder
  <2> SUFFICES ASSUME NEW o \in Orgs, Founded(o)
               PROVE  \E e \in Emails : \A u \in Emails : u = e <=> org[u] = o /\ rank[u] = "owner"
    BY DEF OneFounder
  <2>1. o = HomeOrg
    BY DEF Founded
  <2>2. \A u \in Emails : u = HomeFounder <=> org[u] = o /\ rank[u] = "owner"
    BY <2>1
  <2> QED
    BY <2>2
<1>5. OutsidersAreInvited
  BY DEF OutsidersAreInvited, Registered
<1> QED
  BY <1>1, <1>2, <1>3, <1>4, <1>5 DEF DirectoryInv

(* What depends on the accounts and the invitations alone.                 *)
Accounts == InviteInv /\ HomeInv /\ AcceptedMeansSeated /\ OneFounder /\ OutsidersAreInvited

(* A visit that only goes somewhere else: the accounts stay as they are,   *)
(* and but for a provider account's identity so do the tables.             *)
LEMMA AccountsKept ==
  ASSUME Accounts, UNCHANGED <<org, rank, seat, invite, invitee, host>>
  PROVE  Accounts'
<1>1. InviteInv' /\ HomeInv'
  BY DEF Accounts, InviteInv, HomeInv, Founded
<1>2. AcceptedMeansSeated'
  BY DEF Accounts, AcceptedMeansSeated
<1>3. OneFounder'
  BY DEF Accounts, OneFounder, Founded
<1>4. OutsidersAreInvited'
  BY DEF Accounts, OutsidersAreInvited, Registered
<1> QED
  BY <1>1, <1>2, <1>3, <1>4 DEF Accounts

(* A visit that ends leaves no claim behind.                               *)
LEMMA EndKeeps ==
  ASSUME DirectoryInv, NEW p \in Visits, EndVisit(p)
  PROVE  /\ at' \in [Visits -> VisitPoints] /\ who' \in [Visits -> Emails \cup {None}]
         /\ via' \in [Visits -> Methods \cup {"none"}] /\ with' \in [Visits -> Identities \cup {None}]
         /\ holds' \in [Visits -> Invitations \cup {None}] /\ default' \in {HomeOrg, None}
         /\ VisitInv'
         /\ at'[p] = "idle"
         /\ \A q \in Visits : q # p => at'[q] = at[q] /\ who'[q] = who[q] /\ via'[q] = via[q] /\ holds'[q] = holds[q]
<1> USE DEF EndVisit, MoveTo, DirectoryInv
<1>1. /\ at' \in [Visits -> VisitPoints] /\ who' \in [Visits -> Emails \cup {None}]
      /\ via' \in [Visits -> Methods \cup {"none"}] /\ with' \in [Visits -> Identities \cup {None}]
      /\ holds' \in [Visits -> Invitations \cup {None}] /\ default' \in {HomeOrg, None}
  BY DEF DirectoryTypeOK, VisitPoints
<1>2. at'[p] = "idle"
  BY DEF DirectoryTypeOK
<1>3. \A q \in Visits : q # p => at'[q] = at[q] /\ who'[q] = who[q] /\ via'[q] = via[q] /\ holds'[q] = holds[q]
  BY DEF DirectoryTypeOK
<1>4. VisitInv'
  BY <1>2, <1>3 DEF VisitInv
<1> QED
  BY <1>1, <1>2, <1>3, <1>4

(* An answer, and a claim given up: the tables stay.                       *)
LEMMA EndStep ==
  ASSUME DirectoryInv, NEW p \in Visits, Answer(p) \/ JoinRefused(p)
  PROVE  DirectoryInv'
<1>1. EndVisit(p) /\ UNCHANGED <<users, invites>>
  BY DEF Answer, JoinRefused
<1>2. DirectoryTypeOK'
  BY <1>1, EndKeeps DEF DirectoryInv, DirectoryTypeOK, Registered, users, invites
<1>3. ClaimInv'
  BY <1>1, EndKeeps DEF DirectoryInv, ClaimInv, invites
<1>4. Accounts'
  BY <1>1, AccountsKept DEF DirectoryInv, Accounts, users, invites
<1> QED
  BY <1>1, <1>2, <1>3, <1>4, EndKeeps DEF DirectoryInv, Accounts

(* The steps that look something up and go on.                             *)
LEMMA LookStep ==
  ASSUME DirectoryInv, NEW p \in Visits,
         Register(p) \/ CompleteSSO(p) \/ ProvisionFails(p) \/ Invite(p)
  PROVE  DirectoryInv'
<1> USE DirectoryAssumption
<1>1. UNCHANGED <<users, invites, holds, default>>
  BY DEF Register, CompleteSSO, ProvisionFails, Invite, MoveTo
<1>2. /\ at' \in [Visits -> VisitPoints] /\ who' \in [Visits -> Emails \cup {None}]
      /\ via' \in [Visits -> Methods \cup {"none"}] /\ with' \in [Visits -> Identities \cup {None}]
  <2> USE DEF DirectoryInv, DirectoryTypeOK, VisitPoints, Methods, MoveTo
  <2>1. CASE Register(p)
    BY <2>1 DEF Register
  <2>2. CASE CompleteSSO(p)
    BY <2>2 DEF CompleteSSO
  <2>3. CASE ProvisionFails(p)
    BY <2>3 DEF ProvisionFails
  <2>4. CASE Invite(p)
    BY <2>4 DEF Invite
  <2> QED
    BY <2>1, <2>2, <2>3, <2>4
<1>3. DirectoryTypeOK'
  BY <1>1, <1>2 DEF DirectoryInv, DirectoryTypeOK, Registered, users, invites
<1>4. VisitInv'
  <2> USE DEF DirectoryInv, DirectoryTypeOK, VisitInv, Methods, MoveTo
  <2>1. CASE Register(p)
    BY <2>1 DEF Register
  <2>2. CASE CompleteSSO(p)
    BY <2>2 DEF CompleteSSO
  <2>3. CASE ProvisionFails(p)
    BY <2>3 DEF ProvisionFails
  <2>4. CASE Invite(p)
    BY <2>4 DEF Invite
  <2> QED
    BY <2>1, <2>2, <2>3, <2>4
<1>5. /\ at'[p] # "join"
      /\ \A q \in Visits : q # p => at'[q] = at[q] /\ who'[q] = who[q] /\ via'[q] = via[q]
  <2> USE DEF DirectoryInv, DirectoryTypeOK, MoveTo
  <2>1. CASE Register(p)
    BY <2>1 DEF Register
  <2>2. CASE CompleteSSO(p)
    BY <2>2 DEF CompleteSSO
  <2>3. CASE ProvisionFails(p)
    BY <2>3 DEF ProvisionFails
  <2>4. CASE Invite(p)
    BY <2>4 DEF Invite
  <2> QED
    BY <2>1, <2>2, <2>3, <2>4
<1>6. ClaimInv'
  BY <1>1, <1>5 DEF DirectoryInv, ClaimInv, invites
<1>7. Accounts'
  BY <1>1, AccountsKept DEF DirectoryInv, Accounts, users, invites
<1> QED
  BY <1>3, <1>4, <1>6, <1>7 DEF DirectoryInv, Accounts

(* A provider account gains its identity, or the visit goes on.            *)
LEMMA ResolveStep ==
  ASSUME DirectoryInv, NEW p \in Visits, ResolveByEmail(p)
  PROVE  DirectoryInv'
<1> USE DirectoryAssumption
<1>1. UNCHANGED <<org, provider, rank, seat, invites>>
  BY DEF ResolveByEmail
<1>2. at[p] = "by_email" /\ who[p] \in Allowed /\ via[p] \in Providers
  BY DEF ResolveByEmail, DirectoryInv, VisitInv
<1>3. identity' \in [Emails -> Identities \cup {None}]
  BY <1>2 DEF ResolveByEmail, DirectoryInv, DirectoryTypeOK
<1>4. /\ EndVisit(p)
      \/ /\ at' = [at EXCEPT ![p] = "taken"] \/ at' = [at EXCEPT ![p] = "provision"]
         /\ UNCHANGED <<who, via, with, holds, default>>
  BY DEF ResolveByEmail, MoveTo
<1>5. Accounts'
  BY <1>1, AccountsKept DEF DirectoryInv, Accounts, invites
<1>6. CASE EndVisit(p)
  <2>1. DirectoryTypeOK'
    BY <1>1, <1>3, <1>6, EndKeeps DEF DirectoryInv, DirectoryTypeOK, Registered, invites
  <2>2. ClaimInv'
    BY <1>1, <1>6, EndKeeps DEF DirectoryInv, ClaimInv, invites
  <2> QED
    BY <1>5, <1>6, <2>1, <2>2, EndKeeps DEF DirectoryInv, Accounts
<1>7. CASE /\ at' = [at EXCEPT ![p] = "taken"] \/ at' = [at EXCEPT ![p] = "provision"]
           /\ UNCHANGED <<who, via, with, holds, default>>
  <2>1. DirectoryTypeOK'
    BY <1>1, <1>3, <1>7 DEF DirectoryInv, DirectoryTypeOK, Registered, invites, VisitPoints
  <2>2. VisitInv'
    BY <1>2, <1>7 DEF DirectoryInv, DirectoryTypeOK, VisitInv, Methods
  <2>3. ClaimInv'
    BY <1>1, <1>2, <1>7 DEF DirectoryInv, DirectoryTypeOK, ClaimInv, invites
  <2> QED
    BY <1>5, <2>1, <2>2, <2>3 DEF DirectoryInv, Accounts
<1> QED
  BY <1>4, <1>6, <1>7

(* A new account, by sign-up or by an invitation.  Nobody had the email,   *)
(* so no standing account moves; in an organisation that stands it is not  *)
(* an owner, and one it founds has no other member.                        *)
LEMMA SeatKeeps ==
  ASSUME DirectoryInv, NEW p \in Visits, NEW e \in Emails, ~Registered(e), NEW o \in Orgs,
         NEW r \in {"owner", "sales"}, NEW i \in Invitations \cup {None}, Seat(p, e, o, r, i),
         IF r = "sales" THEN Founded(o) ELSE ~Founded(o),
         i = None => e \in Allowed
  PROVE  /\ org' \in [Emails -> Orgs \cup {None}] /\ rank' \in [Emails -> {"none", "owner", "sales"}]
         /\ seat' \in [Emails -> Invitations \cup {None}]
         /\ \A u \in Emails : (Registered(u) <=> rank[u] # "none")'
         /\ \A x \in Orgs : Founded(x) => Founded(x)'
         /\ HomeInv' /\ OneFounder' /\ OutsidersAreInvited'
         /\ e # HomeFounder
         /\ org'[e] = o /\ rank'[e] = r /\ seat'[e] = i
         /\ \A u \in Emails : u # e => org'[u] = org[u] /\ rank'[u] = rank[u] /\ seat'[u] = seat[u]
<1> USE DirectoryAssumption DEF Registered
<1>1. /\ org' \in [Emails -> Orgs \cup {None}] /\ rank' \in [Emails -> {"none", "owner", "sales"}]
      /\ seat' \in [Emails -> Invitations \cup {None}]
  BY DEF DirectoryInv, DirectoryTypeOK, Seat
<1>2. /\ org'[e] = o /\ rank'[e] = r /\ seat'[e] = i
      /\ \A u \in Emails : u # e => org'[u] = org[u] /\ rank'[u] = rank[u] /\ seat'[u] = seat[u]
  BY DEF DirectoryInv, DirectoryTypeOK, Seat
<1>3. \A u \in Emails : (Registered(u) <=> rank[u] # "none")'
  BY <1>2 DEF DirectoryInv, DirectoryTypeOK
<1>4. \A x \in Orgs : Founded(x) => Founded(x)'
  BY <1>2 DEF Founded
<1>5. e # HomeFounder /\ HomeInv'
  BY <1>2 DEF DirectoryInv, HomeInv
<1>6. OneFounder'
  <2> SUFFICES ASSUME NEW x \in Orgs, Founded(x)'
               PROVE  \E f \in Emails : \A u \in Emails : u = f <=> org'[u] = x /\ rank'[u] = "owner"
    BY DEF OneFounder
  <2>1. CASE Founded(x)
    <3>1. PICK f \in Emails : \A u \in Emails : u = f <=> org[u] = x /\ rank[u] = "owner"
      BY <2>1 DEF DirectoryInv, OneFounder
    <3>2. x = o => r = "sales"
      BY <2>1
    <3>3. \A u \in Emails : u = f <=> org'[u] = x /\ rank'[u] = "owner"
      BY <1>2, <3>1, <3>2
    <3> QED
      BY <3>3
  <2>2. CASE ~Founded(x)
    <3>1. x = o /\ r = "owner"
      BY <1>2, <2>2 DEF Founded
    <3>2. \A u \in Emails : u = e <=> org'[u] = x /\ rank'[u] = "owner"
      BY <1>2, <2>2, <3>1 DEF Founded
    <3> QED
      BY <3>2
  <2> QED
    BY <2>1, <2>2
<1>7. OutsidersAreInvited'
  BY <1>2 DEF DirectoryInv, OutsidersAreInvited
<1> QED
  BY <1>1, <1>2, <1>3, <1>4, <1>5, <1>6, <1>7

LEMMA ProvisionStep ==
  ASSUME DirectoryInv, NEW p \in Visits, Provision(p)
  PROVE  DirectoryInv'
<1> USE DirectoryAssumption
<1> DEFINE e == who[p]
<1>1. /\ at[p] = "provision" /\ ~Registered(e) /\ EndVisit(p) /\ UNCHANGED invites
      /\ e \in Allowed /\ e \in Emails /\ via[p] \in Methods
  BY DEF Provision, DirectoryInv, VisitInv
<1>2. PICK o \in Orgs, r \in {"owner", "sales"} :
        Seat(p, e, o, r, None) /\ IF r = "sales" THEN Founded(o) ELSE ~Founded(o)
  <2>1. CASE default # None
    <3>1. Seat(p, e, HomeOrg, "sales", None) /\ Founded(HomeOrg)
      BY <2>1 DEF Provision, DirectoryInv, DirectoryTypeOK, HomeInv, Founded
    <3> QED
      BY <3>1
  <2>2. CASE default = None
    BY <2>2 DEF Provision
  <2> QED
    BY <2>1, <2>2
<1> HIDE DEF e
<1>3. /\ org' \in [Emails -> Orgs \cup {None}] /\ rank' \in [Emails -> {"none", "owner", "sales"}]
      /\ seat' \in [Emails -> Invitations \cup {None}]
      /\ \A u \in Emails : (Registered(u) <=> rank[u] # "none")'
      /\ \A x \in Orgs : Founded(x) => Founded(x)'
      /\ HomeInv' /\ OneFounder' /\ OutsidersAreInvited'
      /\ org'[e] = o /\ rank'[e] = r /\ seat'[e] = None
      /\ \A u \in Emails : u # e => org'[u] = org[u] /\ rank'[u] = rank[u] /\ seat'[u] = seat[u]
  BY <1>1, <1>2, SeatKeeps
<1>4. provider' \in [Emails -> Methods \cup {"none"}] /\ identity' \in [Emails -> Identities \cup {None}]
  BY <1>1, <1>2 DEF Seat, DirectoryInv, DirectoryTypeOK
<1>5. DirectoryTypeOK'
  BY <1>1, <1>3, <1>4, EndKeeps DEF DirectoryInv, DirectoryTypeOK, invites
<1>6. ClaimInv'
  BY <1>1, EndKeeps DEF DirectoryInv, ClaimInv, invites
<1>7. InviteInv'
  BY <1>1, <1>3 DEF DirectoryInv, InviteInv, invites
<1>8. AcceptedMeansSeated'
  <2> SUFFICES ASSUME NEW i \in Invitations
               PROVE  IF invite[i] = "accepted"
                      THEN /\ seat'[invitee[i]] = i /\ org'[invitee[i]] = host[i]
                           /\ rank'[invitee[i]] = "sales"
                           /\ \A u \in Emails \ {invitee[i]} : seat'[u] # i
                      ELSE \A u \in Emails : seat'[u] # i
    BY <1>1 DEF AcceptedMeansSeated, invites
  <2>1. CASE invite[i] = "accepted"
    <3>1. /\ seat[invitee[i]] = i /\ org[invitee[i]] = host[i] /\ rank[invitee[i]] = "sales"
          /\ \A u \in Emails \ {invitee[i]} : seat[u] # i
      BY <2>1 DEF DirectoryInv, AcceptedMeansSeated
    <3>2. invitee[i] \in Emails /\ host[i] \in Orgs
      BY <2>1 DEF DirectoryInv, InviteInv
    <3>3. invitee[i] # e
      BY <1>1, <3>1, <3>2 DEF Registered
    <3> QED
      BY <1>3, <2>1, <3>1, <3>2, <3>3
  <2>2. CASE invite[i] # "accepted"
    BY <1>3, <2>2 DEF DirectoryInv, AcceptedMeansSeated
  <2> QED
    BY <2>1, <2>2
<1> QED
  BY <1>1, <1>3, <1>5, <1>6, <1>7, <1>8, EndKeeps DEF DirectoryInv

(* Acceptance: the claim has kept the invitation pending and its           *)
(* organisation there, so the account is the invitation's only one.        *)
LEMMA TakeSeatStep ==
  ASSUME DirectoryInv, NEW p \in Visits, TakeSeat(p)
  PROVE  DirectoryInv'
<1> USE DirectoryAssumption
<1> DEFINE e == who[p]
           j == holds[p]
<1>1. /\ at[p] = "join" /\ ~Registered(e) /\ EndVisit(p) /\ UNCHANGED <<invitee, host, lapsed>>
      /\ Seat(p, e, host[j], "sales", j) /\ invite' = [invite EXCEPT ![j] = "accepted"]
  BY DEF TakeSeat
<1>2. /\ j \in Invitations /\ invite[j] = "pending" /\ e = invitee[j] /\ via[p] = "password"
      /\ \A q \in Visits : at[q] = "join" /\ holds[q] = j => q = p
  BY <1>1 DEF DirectoryInv, ClaimInv
<1>3. e \in Emails /\ host[j] \in Orgs /\ Founded(host[j])
  BY <1>2 DEF DirectoryInv, InviteInv
<1> HIDE DEF e, j
<1>4. /\ org' \in [Emails -> Orgs \cup {None}] /\ rank' \in [Emails -> {"none", "owner", "sales"}]
      /\ seat' \in [Emails -> Invitations \cup {None}]
      /\ \A u \in Emails : (Registered(u) <=> rank[u] # "none")'
      /\ \A x \in Orgs : Founded(x) => Founded(x)'
      /\ HomeInv' /\ OneFounder' /\ OutsidersAreInvited'
      /\ org'[e] = host[j] /\ rank'[e] = "sales" /\ seat'[e] = j
      /\ \A u \in Emails : u # e => org'[u] = org[u] /\ rank'[u] = rank[u] /\ seat'[u] = seat[u]
  BY <1>1, <1>2, <1>3, SeatKeeps
<1>5. /\ provider' \in [Emails -> Methods \cup {"none"}] /\ identity' \in [Emails -> Identities \cup {None}]
      /\ invite' \in [Invitations -> {"none", "pending", "accepted", "gone"}]
  BY <1>1, <1>2 DEF Seat, DirectoryInv, DirectoryTypeOK, Methods
<1>6. invite'[j] = "accepted" /\ \A i \in Invitations : i # j => invite'[i] = invite[i]
  BY <1>1, <1>2 DEF DirectoryInv, DirectoryTypeOK
<1>7. DirectoryTypeOK'
  BY <1>1, <1>4, <1>5, EndKeeps DEF DirectoryInv, DirectoryTypeOK
<1>8. ClaimInv'
  <2> SUFFICES ASSUME NEW q \in Visits, at'[q] = "join"
               PROVE  /\ holds'[q] \in Invitations /\ invite'[holds'[q]] = "pending"
                      /\ who'[q] = invitee'[holds'[q]] /\ via'[q] = "password"
                      /\ \A s \in Visits : at'[s] = "join" /\ holds'[s] = holds'[q] => s = q
    BY DEF ClaimInv
  <2>1. q # p /\ at'[p] = "idle"
    BY <1>1, EndKeeps
  <2>2. \A s \in Visits : s # p => at'[s] = at[s] /\ who'[s] = who[s] /\ via'[s] = via[s] /\ holds'[s] = holds[s]
    BY <1>1, EndKeeps
  <2>3. holds[q] \in Invitations /\ invite[holds[q]] = "pending" /\ who[q] = invitee[holds[q]] /\ via[q] = "password"
    BY <2>1, <2>2 DEF DirectoryInv, ClaimInv
  <2>4. holds[q] # j
    BY <1>2, <2>1, <2>2
  <2>5. \A s \in Visits : at[s] = "join" /\ holds[s] = holds[q] => s = q
    BY <2>1, <2>2 DEF DirectoryInv, ClaimInv
  <2> QED
    BY <1>1, <1>6, <2>1, <2>2, <2>3, <2>4, <2>5
<1>9. InviteInv'
  BY <1>1, <1>2, <1>3, <1>4, <1>6 DEF DirectoryInv, InviteInv
<1>10. AcceptedMeansSeated'
  <2> SUFFICES ASSUME NEW i \in Invitations
               PROVE  IF invite'[i] = "accepted"
                      THEN /\ seat'[invitee[i]] = i /\ org'[invitee[i]] = host[i]
                           /\ rank'[invitee[i]] = "sales"
                           /\ \A u \in Emails \ {invitee[i]} : seat'[u] # i
                      ELSE \A u \in Emails : seat'[u] # i
    BY <1>1 DEF AcceptedMeansSeated
  <2>1. CASE i = j
    <3>1. \A u \in Emails : seat[u] # j
      BY <1>2 DEF DirectoryInv, AcceptedMeansSeated
    <3> QED
      BY <1>2, <1>4, <1>6, <2>1, <3>1
  <2>2. CASE i # j /\ invite[i] = "accepted"
    <3>1. /\ seat[invitee[i]] = i /\ org[invitee[i]] = host[i] /\ rank[invitee[i]] = "sales"
          /\ \A u \in Emails \ {invitee[i]} : seat[u] # i
      BY <2>2 DEF DirectoryInv, AcceptedMeansSeated
    <3>2. invitee[i] \in Emails /\ host[i] \in Orgs
      BY <2>2 DEF DirectoryInv, InviteInv
    <3>3. invitee[i] # e
      BY <1>1, <3>1, <3>2 DEF Registered
    <3> QED
      BY <1>4, <1>6, <2>2, <3>1, <3>2, <3>3
  <2>3. CASE i # j /\ invite[i] # "accepted"
    BY <1>4, <1>6, <2>3 DEF DirectoryInv, AcceptedMeansSeated
  <2> QED
    BY <2>1, <2>2, <2>3
<1> QED
  BY <1>1, <1>4, <1>7, <1>8, <1>9, <1>10, EndKeeps DEF DirectoryInv

LEMMA ClaimStep ==
  ASSUME DirectoryInv, NEW p \in Visits, ClaimInvitation(p)
  PROVE  DirectoryInv'
<1> USE DirectoryAssumption
<1>1. PICK i \in Invitations :
        /\ invite[i] = "pending" /\ ~Claimed(i)
        /\ holds' = [holds EXCEPT ![p] = i] /\ who' = [who EXCEPT ![p] = invitee[i]]
  BY DEF ClaimInvitation
<1>2. /\ at' = [at EXCEPT ![p] = "join"] /\ via' = [via EXCEPT ![p] = "password"]
      /\ UNCHANGED <<users, invites, with, default>>
  BY DEF ClaimInvitation, MoveTo
<1>3. invitee[i] \in Emails
  BY <1>1 DEF DirectoryInv, InviteInv
<1>4. DirectoryTypeOK'
  BY <1>1, <1>2, <1>3 DEF DirectoryInv, DirectoryTypeOK, Registered, users, invites, VisitPoints, Methods
<1>5. VisitInv'
  BY <1>1, <1>2 DEF DirectoryInv, DirectoryTypeOK, VisitInv
<1>6. ClaimInv'
  <2>1. \A q \in Visits : at[q] = "join" => holds[q] # i
    BY <1>1 DEF Claimed
  <2> QED
    BY <1>1, <1>2, <2>1 DEF DirectoryInv, DirectoryTypeOK, ClaimInv, invites
<1>7. Accounts'
  BY <1>2, AccountsKept DEF DirectoryInv, Accounts, users, invites
<1> QED
  BY <1>4, <1>5, <1>6, <1>7 DEF DirectoryInv, Accounts

LEMMA CreateStep ==
  ASSUME DirectoryInv, NEW p \in Visits, CreateInvitation(p)
  PROVE  DirectoryInv'
<1> USE DirectoryAssumption
<1>1. PICK i \in Invitations, o \in Orgs :
        /\ invite[i] = "none" /\ Founded(o)
        /\ invite' = [invite EXCEPT ![i] = "pending"]
        /\ invitee' = [invitee EXCEPT ![i] = who[p]]
        /\ host' = [host EXCEPT ![i] = o]
  BY DEF CreateInvitation
<1>2. EndVisit(p) /\ UNCHANGED <<users, lapsed>> /\ who[p] \in Emails
  BY DEF CreateInvitation, DirectoryInv, VisitInv
<1>3. DirectoryTypeOK'
  BY <1>1, <1>2, EndKeeps DEF DirectoryInv, DirectoryTypeOK, Registered, users
<1>4. /\ invite'[i] = "pending" /\ invitee'[i] = who[p] /\ host'[i] = o
      /\ \A k \in Invitations : k # i => invite'[k] = invite[k] /\ invitee'[k] = invitee[k] /\ host'[k] = host[k]
  BY <1>1 DEF DirectoryInv, DirectoryTypeOK
<1>5. ClaimInv'
  <2>1. \A q \in Visits : at[q] = "join" => holds[q] # i
    BY <1>1 DEF DirectoryInv, ClaimInv
  <2> QED
    BY <1>2, <1>4, <2>1, EndKeeps DEF DirectoryInv, ClaimInv
<1>6. InviteInv'
  BY <1>1, <1>2, <1>4 DEF DirectoryInv, InviteInv, Founded, users
<1>7. AcceptedMeansSeated'
  BY <1>1, <1>2, <1>4 DEF DirectoryInv, AcceptedMeansSeated, users
<1>8. HomeInv' /\ OneFounder' /\ OutsidersAreInvited'
  BY <1>2 DEF DirectoryInv, HomeInv, OneFounder, OutsidersAreInvited, Founded, Registered, users
<1> QED
  BY <1>2, <1>3, <1>5, <1>6, <1>7, <1>8, EndKeeps DEF DirectoryInv

(* An invitation lapses, or is revoked while no acceptance holds it.       *)
LEMMA WithdrawStep ==
  ASSUME DirectoryInv, NEW i \in Invitations, Lapse(i) \/ Revoke(i)
  PROVE  DirectoryInv'
<1>1. /\ UNCHANGED <<users, invitee, host, default, visit>>
      /\ lapsed' \subseteq Invitations
      /\ \/ invite' = invite
         \/ invite[i] = "pending" /\ ~Claimed(i) /\ invite' = [invite EXCEPT ![i] = "gone"]
  BY DEF Lapse, Revoke, DirectoryInv, DirectoryTypeOK
<1>2. DirectoryTypeOK'
  BY <1>1 DEF DirectoryInv, DirectoryTypeOK, Registered, users, visit
<1>3. VisitInv'
  BY <1>1 DEF DirectoryInv, VisitInv, visit
<1>4. ClaimInv'
  BY <1>1 DEF DirectoryInv, DirectoryTypeOK, ClaimInv, Claimed, visit
<1>5. InviteInv'
  BY <1>1 DEF DirectoryInv, DirectoryTypeOK, InviteInv, Founded, users
<1>6. AcceptedMeansSeated'
  BY <1>1 DEF DirectoryInv, DirectoryTypeOK, AcceptedMeansSeated, users
<1>7. HomeInv' /\ OneFounder' /\ OutsidersAreInvited'
  BY <1>1 DEF DirectoryInv, HomeInv, OneFounder, OutsidersAreInvited, Founded, Registered, users
<1> QED
  BY <1>2, <1>3, <1>4, <1>5, <1>6, <1>7 DEF DirectoryInv

LEMMA DirectoryInductive == DirectoryInv /\ [DirectoryNext]_directoryVars => DirectoryInv'
<1> SUFFICES ASSUME DirectoryInv, [DirectoryNext]_directoryVars PROVE DirectoryInv'
  OBVIOUS
<1>1. CASE UNCHANGED directoryVars
  <2>1. DirectoryTypeOK'
    BY <1>1 DEF directoryVars, DirectoryInv, DirectoryTypeOK, Registered
  <2>2. VisitInv' /\ ClaimInv'
    BY <1>1 DEF directoryVars, DirectoryInv, VisitInv, ClaimInv
  <2>3. Accounts'
    BY <1>1, AccountsKept DEF directoryVars, DirectoryInv, Accounts
  <2> QED
    BY <2>1, <2>2, <2>3 DEF DirectoryInv, Accounts
<1>2. ASSUME NEW p \in Visits, Step(p) PROVE DirectoryInv'
  <2>1. CASE Register(p) \/ CompleteSSO(p) \/ ProvisionFails(p) \/ Invite(p)
    BY <2>1, LookStep
  <2>2. CASE Answer(p) \/ JoinRefused(p)
    BY <2>2, EndStep
  <2>3. CASE ResolveByEmail(p)
    BY <2>3, ResolveStep
  <2>4. CASE Provision(p)
    BY <2>4, ProvisionStep
  <2>5. CASE CreateInvitation(p)
    BY <2>5, CreateStep
  <2>6. CASE ClaimInvitation(p)
    BY <2>6, ClaimStep
  <2>7. CASE TakeSeat(p)
    BY <2>7, TakeSeatStep
  <2> QED
    BY <1>2, <2>1, <2>2, <2>3, <2>4, <2>5, <2>6, <2>7 DEF Step
<1>3. ASSUME NEW i \in Invitations, Lapse(i) \/ Revoke(i) PROVE DirectoryInv'
  BY <1>3, WithdrawStep
<1> QED
  BY <1>1, <1>2, <1>3 DEF DirectoryNext

LEMMA DirectoryInvariance == DirectorySpec => []DirectoryInv
BY InitDirectoryInv, DirectoryInductive, PTL DEF DirectorySpec

(* Every account keeps its profile, however the tables are raced for.      *)
THEOREM DirectoryTypeCorrect == DirectorySpec => []DirectoryTypeOK
<1>1. DirectoryInv => DirectoryTypeOK
  BY DEF DirectoryInv
<1> QED
  BY <1>1, DirectoryInvariance, PTL

(* An invitation is accepted exactly when its one account came in by it    *)
(* (acceptInvitation against revocations, sign-ups and other acceptances). *)
THEOREM InvitationsHonoured == DirectorySpec => []AcceptedMeansSeated
<1>1. DirectoryInv => AcceptedMeansSeated
  BY DEF DirectoryInv
<1> QED
  BY <1>1, DirectoryInvariance, PTL

(* Whoever joins an organisation does not become another owner of it.      *)
THEOREM FounderAlone == DirectorySpec => []OneFounder
<1>1. DirectoryInv => OneFounder
  BY DEF DirectoryInv
<1> QED
  BY <1>1, DirectoryInvariance, PTL

(* The allow-list has no way around it but an invitation.                  *)
THEOREM AllowListHolds == DirectorySpec => []OutsidersAreInvited
<1>1. DirectoryInv => OutsidersAreInvited
  BY DEF DirectoryInv
<1> QED
  BY <1>1, DirectoryInvariance, PTL

(* Nothing moves an account once it is there; a password account never     *)
(* gains the identity of a provider.                                       *)
LEMMA StandStep ==
  ASSUME DirectoryInv, [DirectoryNext]_directoryVars, NEW e \in Emails, Registered(e)
  PROVE  /\ org'[e] = org[e] /\ provider'[e] = provider[e]
         /\ rank'[e] = rank[e] /\ seat'[e] = seat[e]
         /\ identity'[e] # identity[e] => identity[e] = None /\ provider[e] # "password"
<1> USE DirectoryAssumption
<1>1. CASE UNCHANGED users
  BY <1>1 DEF users
<1>2. ASSUME NEW p \in Visits, ResolveByEmail(p)
      PROVE  /\ UNCHANGED <<org, provider, rank, seat>>
             /\ identity'[e] # identity[e] => identity[e] = None /\ provider[e] # "password"
  BY <1>2 DEF ResolveByEmail, DirectoryInv, DirectoryTypeOK, VisitInv
<1>3. ASSUME NEW p \in Visits, Provision(p) \/ TakeSeat(p)
      PROVE  /\ org'[e] = org[e] /\ provider'[e] = provider[e]
             /\ rank'[e] = rank[e] /\ seat'[e] = seat[e] /\ identity'[e] = identity[e]
  <2>1. e # who[p]
    BY <1>3 DEF Provision, TakeSeat
  <2> QED
    BY <1>3, <2>1 DEF Provision, TakeSeat, Seat, DirectoryInv, DirectoryTypeOK
<1>4. \/ UNCHANGED users
      \/ \E p \in Visits : ResolveByEmail(p) \/ Provision(p) \/ TakeSeat(p)
  BY DEF directoryVars, users, DirectoryNext, Step, Register, CompleteSSO, ProvisionFails, Answer,
         Invite, CreateInvitation, ClaimInvitation, JoinRefused, Lapse, Revoke
<1> QED
  BY <1>1, <1>2, <1>3, <1>4

THEOREM Standing == DirectorySpec => AccountsStand
<1>1. DirectoryInv /\ [DirectoryNext]_directoryVars =>
        [\A e \in Emails : Registered(e) =>
           /\ org'[e] = org[e] /\ provider'[e] = provider[e]
           /\ rank'[e] = rank[e] /\ seat'[e] = seat[e]
           /\ identity'[e] # identity[e] =>
                identity[e] = None /\ provider[e] # "password"]_directoryVars
  BY StandStep
<1> QED
  BY <1>1, DirectoryInvariance, PTL DEF DirectorySpec, AccountsStand

(* Nobody is in an organisation but by its founding, an allowed domain or  *)
(* one invitation (auth/store.go:107, org/store.go:200).                   *)
THEOREM SeatsRight == DirectorySpec => []SeatsAreRight
  BY InvitationsHonoured, FounderAlone, AllowListHolds, PTL DEF SeatsAreRight
-----------------------------------------------------------------------------
(* Calendar for any number of consents, accounts and bookings.  A grant    *)
(* that has minted a token keeps its account for ever; a booking carries   *)
(* tokens of such grants only, and has seen the account it books in; and   *)
(* what a reconnect saves comes whole from one consent.                    *)

ConsentPoints == {"new", "asked", "agreed", "save", "over"}
CallPoints    == {"new", "renew", "store", "book", "note", "over"}

CalendarTypeInv ==
  /\ consent \in [Consents -> [pc : ConsentPoints, profile : Profiles \cup {Void}, renews : BOOLEAN]]
  /\ minted \in [Consents -> Nat]
  /\ booking \in [Bookings -> [pc : CallPoints, refresh : Consents \cup {Void},
                               access : (Consents \X Nat) \cup {Void}, seen : SUBSET Profiles]]
  /\ Connected => conn \in [access : Consents \X Nat, refresh : Consents, label : Profiles \cup {Void}]
  /\ events \subseteq [by : Bookings, in : Profiles] /\ noted \subseteq Bookings
  /\ crossed \in BOOLEAN /\ unnamed \in BOOLEAN

(* A grant gives tokens after the user has agreed to it.                   *)
Granted(g) == minted[g] > 0

GrantInv ==
  \A g \in Consents :
    /\ Granted(g) => consent[g].pc \in {"save", "over"} /\ OwnerOf(g) \in Profiles
    /\ consent[g].pc = "agreed" => OwnerOf(g) \in Profiles
    /\ consent[g].pc = "save" => Granted(g) /\ consent[g].renews

ConnInv ==
  Connected =>
    /\ Granted(conn.refresh) /\ Granted(GrantOf(conn.access))
    /\ conn.access[2] <= minted[GrantOf(conn.access)]
    /\ ~ crossed => conn.refresh = GrantOf(conn.access)
    /\ ~ unnamed => conn.label = OwnerOf(conn.refresh)

BookingInv ==
  \A b \in Bookings :
    /\ booking[b].pc \in {"renew", "store", "book"} =>
         /\ booking[b].refresh \in Consents /\ booking[b].access \in Consents \X Nat
         /\ Granted(booking[b].refresh) /\ Granted(GrantOf(booking[b].access))
         /\ OwnerOf(booking[b].refresh) \in booking[b].seen
    /\ booking[b].pc = "store" => /\ GrantOf(booking[b].access) = booking[b].refresh
                                  /\ booking[b].access[2] <= minted[booking[b].refresh]
    /\ booking[b].pc = "book" => OwnerOf(GrantOf(booking[b].access)) \in booking[b].seen
    /\ booking[b].pc = "note" => \E e \in events : e.by = b

EventInv ==
  /\ \A e \in events : booking[e.by].pc \in {"note", "over"} /\ e.in \in booking[e.by].seen
  /\ \A b \in noted : \E e \in events : e.by = b

CalendarInv == CalendarTypeInv /\ GrantInv /\ ConnInv /\ BookingInv /\ EventInv

LEMMA InitCalendarInv == CalendarInit => CalendarInv
<1> SUFFICES ASSUME CalendarInit PROVE CalendarInv
  OBVIOUS
<1>1. ~ Connected
  BY DEF CalendarInit, Connected
<1>2. CalendarTypeInv
  BY <1>1 DEF CalendarInit, CalendarTypeInv, Unasked, NoCall, ConsentPoints, CallPoints
<1>3. GrantInv /\ ConnInv
  BY <1>1 DEF CalendarInit, GrantInv, ConnInv, Granted, Unasked
<1>4. BookingInv /\ EventInv
  BY DEF CalendarInit, BookingInv, EventInv, NoCall
<1> QED
  BY <1>2, <1>3, <1>4 DEF CalendarInv

(* Grants that have minted tokens keep their account, and mint more.       *)
Kept ==
  \A g \in Consents : Granted(g) =>
    /\ Granted(g)' /\ OwnerOf(g)' = OwnerOf(g) /\ minted[g] <= minted'[g]

(* The connection and the bookings do not notice such a step.              *)
LEMMA QuietStep ==
  ASSUME CalendarInv, Kept, UNCHANGED <<conn, booking, events, noted, crossed, unnamed>>,
         consent' \in [Consents -> [pc : ConsentPoints, profile : Profiles \cup {Void}, renews : BOOLEAN]],
         minted' \in [Consents -> Nat], GrantInv'
  PROVE  CalendarInv'
<1>1. CalendarTypeInv'
  BY DEF CalendarInv, CalendarTypeInv, Connected
<1>2. ConnInv'
  <2> SUFFICES ASSUME Connected
               PROVE  /\ Granted(conn.refresh)' /\ Granted(GrantOf(conn.access))'
                      /\ conn.access[2] <= minted'[GrantOf(conn.access)]
                      /\ ~ crossed => conn.refresh = GrantOf(conn.access)
                      /\ ~ unnamed => conn.label = OwnerOf(conn.refresh)'
    BY DEF ConnInv, Connected, GrantOf, OwnerOf, Granted
  <2>1. conn.refresh \in Consents /\ GrantOf(conn.access) \in Consents /\ conn.access[2] \in Nat
    BY DEF CalendarInv, CalendarTypeInv, GrantOf
  <2>2. /\ Granted(conn.refresh) /\ Granted(GrantOf(conn.access))
        /\ conn.access[2] <= minted[GrantOf(conn.access)]
        /\ ~ crossed => conn.refresh = GrantOf(conn.access)
        /\ ~ unnamed => conn.label = OwnerOf(conn.refresh)
    BY DEF CalendarInv, ConnInv
  <2>3. \A g \in Consents : minted[g] \in Nat /\ minted'[g] \in Nat
    BY DEF CalendarInv, CalendarTypeInv
  <2> QED
    BY <2>1, <2>2, <2>3 DEF Kept, Granted, OwnerOf, GrantOf
<1>3. BookingInv'
  <2> SUFFICES ASSUME NEW b \in Bookings
               PROVE  /\ booking[b].pc \in {"renew", "store", "book"} =>
                           /\ booking[b].refresh \in Consents /\ booking[b].access \in Consents \X Nat
                           /\ Granted(booking[b].refresh)' /\ Granted(GrantOf(booking[b].access))'
                           /\ OwnerOf(booking[b].refresh)' \in booking[b].seen
                      /\ booking[b].pc = "store" => /\ GrantOf(booking[b].access) = booking[b].refresh
                                                    /\ booking[b].access[2] <= minted'[booking[b].refresh]
                      /\ booking[b].pc = "book" => OwnerOf(GrantOf(booking[b].access))' \in booking[b].seen
                      /\ booking[b].pc = "note" => \E e \in events : e.by = b
    BY DEF BookingInv, GrantOf, OwnerOf, Granted
  <2>1. \A g \in Consents : minted[g] \in Nat /\ minted'[g] \in Nat
    BY DEF CalendarInv, CalendarTypeInv
  <2>2. \A a \in Consents \X Nat : GrantOf(a) \in Consents /\ a[2] \in Nat
    BY DEF GrantOf
  <2> QED
    BY <2>1, <2>2 DEF CalendarInv, BookingInv, Kept, Granted, OwnerOf, GrantOf
<1>4. EventInv'
  BY DEF CalendarInv, EventInv
<1> QED
  BY <1>1, <1>2, <1>3, <1>4 DEF CalendarInv

LEMMA ConsentStep ==
  ASSUME CalendarInv, NEW g \in Consents,
         googleConnect(g) \/ AskGoogle(g) \/ googleCallback(g) \/ ExpireAccess(g)
  PROVE  CalendarInv'
<1>1. UNCHANGED <<conn, booking, events, noted, crossed, unnamed>>
  BY DEF googleConnect, AskGoogle, googleCallback, ExpireAccess
<1>2. /\ consent \in [Consents -> [pc : ConsentPoints, profile : Profiles \cup {Void}, renews : BOOLEAN]]
      /\ minted \in [Consents -> Nat]
  BY DEF CalendarInv, CalendarTypeInv
<1>3. CASE googleConnect(g)
  <2>1. consent' \in [Consents -> [pc : ConsentPoints, profile : Profiles \cup {Void}, renews : BOOLEAN]]
    BY <1>2, <1>3 DEF googleConnect, ConsentPoints
  <2>2. ~ Granted(g)
    BY <1>3 DEF googleConnect, CalendarInv, GrantInv
  <2>3. GrantInv' /\ Kept
    BY <1>2, <1>3, <2>2 DEF googleConnect, CalendarInv, GrantInv, Kept, Granted, OwnerOf
  <2> QED
    BY <1>1, <1>2, <1>3, <2>1, <2>3, QuietStep DEF googleConnect
<1>4. CASE AskGoogle(g)
  <2>1. consent' \in [Consents -> [pc : ConsentPoints, profile : Profiles \cup {Void}, renews : BOOLEAN]]
    BY <1>2, <1>4 DEF AskGoogle, ConsentPoints
  <2>2. ~ Granted(g)
    BY <1>4 DEF AskGoogle, CalendarInv, GrantInv
  <2>3. GrantInv'
    BY <1>2, <1>4, <2>2 DEF AskGoogle, CalendarInv, GrantInv, Granted, OwnerOf
  <2>4. Kept
    BY <1>2, <1>4, <2>2 DEF AskGoogle, Kept, Granted, OwnerOf
  <2> QED
    BY <1>1, <1>2, <1>4, <2>1, <2>3, <2>4, QuietStep DEF AskGoogle
<1>5. CASE googleCallback(g)
  <2>1. /\ consent' \in [Consents -> [pc : ConsentPoints, profile : Profiles \cup {Void}, renews : BOOLEAN]]
        /\ minted' \in [Consents -> Nat]
    BY <1>2, <1>5 DEF googleCallback, ConsentPoints
  <2>2. ~ Granted(g) /\ OwnerOf(g) \in Profiles
    BY <1>5 DEF googleCallback, CalendarInv, GrantInv
  <2>3. GrantInv'
    BY <1>2, <1>5, <2>2 DEF googleCallback, Accepts, CalendarInv, GrantInv, Granted, OwnerOf
  <2>4. Kept
    BY <1>2, <1>5, <2>2 DEF googleCallback, Kept, Granted, OwnerOf
  <2> QED
    BY <1>1, <2>1, <2>3, <2>4, QuietStep
<1>6. CASE ExpireAccess(g)
  <2>1. UNCHANGED <<consent, minted>>
    BY <1>6 DEF ExpireAccess
  <2>2. GrantInv' /\ Kept
    BY <1>2, <2>1 DEF CalendarInv, GrantInv, Kept, Granted, OwnerOf
  <2> QED
    BY <1>1, <1>2, <2>1, <2>2, QuietStep
<1> QED
  BY <1>3, <1>4, <1>5, <1>6

LEMMA Witnessed ==
  ASSUME NEW profile \in Profiles,
         NEW call \in [pc : CallPoints, refresh : Consents \cup {Void},
                      access : (Consents \X Nat) \cup {Void}, seen : SUBSET Profiles]
  PROVE  [call EXCEPT !.seen = @ \cup {profile}] \in
           [pc : CallPoints, refresh : Consents \cup {Void},
            access : (Consents \X Nat) \cup {Void}, seen : SUBSET Profiles]
OBVIOUS

LEMMA SaveStep ==
  ASSUME CalendarInv, NEW g \in Consents, SaveConnection(g)
  PROVE  CalendarInv'
<1>1. PICK label \in {OwnerOf(g), Void} : conn' = Saved(g, label) /\ unnamed' = (label = Void)
  BY DEF SaveConnection
<1>2. /\ consent[g].pc = "save" /\ consent' = [consent EXCEPT ![g].pc = "over"]
      /\ booking' = Witness(OwnerOf(g)) /\ crossed' = FALSE
      /\ UNCHANGED <<cookie, minted, expired, events, noted>>
  BY DEF SaveConnection
<1>3. /\ consent \in [Consents -> [pc : ConsentPoints, profile : Profiles \cup {Void}, renews : BOOLEAN]]
      /\ minted \in [Consents -> Nat]
      /\ booking \in [Bookings -> [pc : CallPoints, refresh : Consents \cup {Void},
                                   access : (Consents \X Nat) \cup {Void}, seen : SUBSET Profiles]]
      /\ Connected => conn \in [access : Consents \X Nat, refresh : Consents, label : Profiles \cup {Void}]
      /\ events \subseteq [by : Bookings, in : Profiles] /\ noted \subseteq Bookings
  BY DEF CalendarInv, CalendarTypeInv
<1>4. consent[g].renews /\ Granted(g) /\ OwnerOf(g) \in Profiles /\ g # Void /\ OwnerOf(g) # Void
  BY <1>2, CalendarAssumption DEF CalendarInv, GrantInv
<1>5. /\ conn'.access = <<g, 1>> /\ conn'.refresh = g
      /\ conn'.label = IF label = Void /\ Connected THEN conn.label ELSE label
      /\ conn' = [access |-> <<g, 1>>, refresh |-> g, label |-> conn'.label]
  BY <1>1, <1>4 DEF Saved, Refresh
<1>6. conn'.label \in Profiles \cup {Void} /\ (~ unnamed' => conn'.label = OwnerOf(g))
  BY <1>1, <1>3, <1>4, <1>5
<1>7. \A h \in Consents : /\ OwnerOf(h)' = OwnerOf(h) /\ Granted(h)' = Granted(h)
                          /\ consent'[h].renews = consent[h].renews
                          /\ consent'[h].pc = IF h = g THEN "over" ELSE consent[h].pc
  BY <1>2, <1>3 DEF OwnerOf, Granted
<1>8. \A b \in Bookings : /\ booking'[b].pc = booking[b].pc /\ booking'[b].refresh = booking[b].refresh
                          /\ booking'[b].access = booking[b].access
                          /\ booking[b].seen \subseteq booking'[b].seen
  BY <1>2, <1>3 DEF Witness
<1>9. CalendarTypeInv'
  <2>1. consent' \in [Consents -> [pc : ConsentPoints, profile : Profiles \cup {Void}, renews : BOOLEAN]]
    BY <1>2, <1>3 DEF ConsentPoints
  <2>2. booking' \in [Bookings -> [pc : CallPoints, refresh : Consents \cup {Void},
                                   access : (Consents \X Nat) \cup {Void}, seen : SUBSET Profiles]]
    <3>1. ASSUME NEW b \in Bookings
          PROVE  [booking[b] EXCEPT !.seen = @ \cup {OwnerOf(g)}] \in
                   [pc : CallPoints, refresh : Consents \cup {Void},
                    access : (Consents \X Nat) \cup {Void}, seen : SUBSET Profiles]
      <4>1. booking[b] \in [pc : CallPoints, refresh : Consents \cup {Void},
                             access : (Consents \X Nat) \cup {Void}, seen : SUBSET Profiles]
        BY <1>3
      <4> QED
        BY <1>4, <4>1, Witnessed
    <3> QED
      BY <1>2, <1>3, <3>1 DEF Witness
  <2>3. conn' \in [access : Consents \X Nat, refresh : Consents, label : Profiles \cup {Void}]
    BY <1>5, <1>6
  <2>4. crossed' \in BOOLEAN /\ unnamed' \in BOOLEAN
    BY <1>1, <1>2
  <2> QED
    BY <1>2, <1>3, <2>1, <2>2, <2>3, <2>4 DEF CalendarTypeInv, Connected
<1>10. GrantInv'
  BY <1>2, <1>4, <1>7 DEF CalendarInv, GrantInv
<1>11. ConnInv'
  <2>1. GrantOf(conn.access)' = g /\ (conn.refresh)' = g /\ conn'.access[2] = 1
    BY <1>5 DEF GrantOf
  <2>2. minted'[g] >= 1
    BY <1>2, <1>3, <1>4 DEF Granted
  <2>3. Granted(g)' /\ OwnerOf(g)' = OwnerOf(g)
    BY <1>4, <1>7
  <2> QED
    BY <1>5, <1>6, <2>1, <2>2, <2>3 DEF ConnInv, Granted, OwnerOf, GrantOf
<1>12. BookingInv'
  <2> SUFFICES ASSUME NEW b \in Bookings
               PROVE  /\ booking'[b].pc \in {"renew", "store", "book"} =>
                           /\ booking'[b].refresh \in Consents /\ booking'[b].access \in Consents \X Nat
                           /\ Granted(booking[b].refresh)' /\ Granted(GrantOf(booking[b].access))'
                           /\ OwnerOf(booking[b].refresh)' \in booking'[b].seen
                      /\ booking'[b].pc = "store" => /\ GrantOf(booking'[b].access) = booking'[b].refresh
                                                     /\ booking'[b].access[2] <= minted'[booking'[b].refresh]
                      /\ booking'[b].pc = "book" => OwnerOf(GrantOf(booking[b].access))' \in booking'[b].seen
                      /\ booking'[b].pc = "note" => \E e \in events' : e.by = b
    BY DEF BookingInv, GrantOf, OwnerOf, Granted
  <2>1. \A a \in Consents \X Nat : GrantOf(a) \in Consents
    BY DEF GrantOf
  <2>2. \A h \in Consents : consent'[h].profile = consent[h].profile /\ minted'[h] = minted[h]
    BY <1>2, <1>7 DEF OwnerOf
  <2> QED
    <3>1. /\ booking[b].pc \in {"renew", "store", "book"} =>
               /\ booking[b].refresh \in Consents /\ booking[b].access \in Consents \X Nat
               /\ Granted(booking[b].refresh) /\ Granted(GrantOf(booking[b].access))
               /\ OwnerOf(booking[b].refresh) \in booking[b].seen
          /\ booking[b].pc = "store" => /\ GrantOf(booking[b].access) = booking[b].refresh
                                        /\ booking[b].access[2] <= minted[booking[b].refresh]
          /\ booking[b].pc = "book" => OwnerOf(GrantOf(booking[b].access)) \in booking[b].seen
          /\ booking[b].pc = "note" => \E e \in events : e.by = b
      BY DEF CalendarInv, BookingInv
    <3>2. /\ booking'[b].pc = booking[b].pc /\ booking'[b].refresh = booking[b].refresh
          /\ booking'[b].access = booking[b].access /\ booking[b].seen \subseteq booking'[b].seen
      BY <1>8
    <3>3. ASSUME booking'[b].pc \in {"renew", "store", "book"}
          PROVE  /\ booking'[b].refresh \in Consents /\ booking'[b].access \in Consents \X Nat
                 /\ Granted(booking[b].refresh)' /\ Granted(GrantOf(booking[b].access))'
                 /\ OwnerOf(booking[b].refresh)' \in booking'[b].seen
      <4>1. booking[b].refresh \in Consents /\ GrantOf(booking[b].access) \in Consents
        BY <2>1, <3>1, <3>2, <3>3
      <4> QED
        BY <2>2, <3>1, <3>2, <3>3, <4>1 DEF Granted, OwnerOf, GrantOf
    <3>4. booking'[b].pc = "store" => /\ GrantOf(booking'[b].access) = booking'[b].refresh
                                      /\ booking'[b].access[2] <= minted'[booking'[b].refresh]
      BY <2>2, <3>1, <3>2
    <3>5. booking'[b].pc = "book" => OwnerOf(GrantOf(booking[b].access))' \in booking'[b].seen
      BY <2>1, <2>2, <3>1, <3>2 DEF OwnerOf, GrantOf
    <3>6. booking'[b].pc = "note" => \E e \in events' : e.by = b
      BY <1>2, <3>1, <3>2
    <3> QED
      BY <3>3, <3>4, <3>5, <3>6
<1>13. EventInv'
  BY <1>2, <1>3, <1>8 DEF CalendarInv, EventInv
<1> QED
  BY <1>9, <1>10, <1>11, <1>12, <1>13 DEF CalendarInv

LEMMA DisconnectStep ==
  ASSUME CalendarInv, googleDisconnect
  PROVE  CalendarInv'
<1>1. /\ ~ Connected' /\ crossed' = FALSE /\ unnamed' = FALSE
      /\ UNCHANGED <<consent, minted, booking, events, noted>>
  BY DEF googleDisconnect, Connected
<1>2. CalendarTypeInv' /\ ConnInv'
  BY <1>1 DEF CalendarInv, CalendarTypeInv, ConnInv
<1>3. GrantInv' /\ BookingInv' /\ EventInv'
  BY <1>1 DEF CalendarInv, GrantInv, BookingInv, EventInv, Granted, OwnerOf, GrantOf
<1> QED
  BY <1>2, <1>3 DEF CalendarInv

(* What a step of one booking has to show for the bookings to stay right.  *)
CallRight(b) ==
  /\ booking[b].pc \in {"renew", "store", "book"} =>
       /\ booking[b].refresh \in Consents /\ booking[b].access \in Consents \X Nat
       /\ Granted(booking[b].refresh) /\ Granted(GrantOf(booking[b].access))
       /\ OwnerOf(booking[b].refresh) \in booking[b].seen
  /\ booking[b].pc = "store" => /\ GrantOf(booking[b].access) = booking[b].refresh
                                /\ booking[b].access[2] <= minted[booking[b].refresh]
  /\ booking[b].pc = "book" => OwnerOf(GrantOf(booking[b].access)) \in booking[b].seen
  /\ booking[b].pc = "note" => \E e \in events : e.by = b

LEMMA OtherCalls ==
  ASSUME CalendarInv, NEW b \in Bookings, NEW c \in Bookings, c # b, booking'[c] = booking[c],
         UNCHANGED consent, events \subseteq events',
         \A g \in Consents : minted[g] \in Nat /\ minted'[g] \in Nat /\ minted[g] <= minted'[g]
  PROVE  CallRight(c)'
<1>1. CallRight(c)
  BY DEF CalendarInv, BookingInv, CallRight
<1>2. \A a \in Consents \X Nat : GrantOf(a) \in Consents /\ a[2] \in Nat
  BY DEF GrantOf
<1> QED
  BY <1>1, <1>2 DEF CallRight, Granted, OwnerOf, GrantOf

LEMMA SeenStep ==
  ASSUME CalendarInv, NEW b \in Bookings, ReadToken(b)
  PROVE  CalendarInv'
<1> DEFINE token == [pc |-> IF conn.access \in expired THEN "renew" ELSE "book",
                     refresh |-> conn.refresh, access |-> conn.access,
                     seen |-> {OwnerOf(conn.refresh)} \cup
                              IF crossed THEN {OwnerOf(GrantOf(conn.access))} ELSE {}]
<1>1. /\ booking[b].pc = "new" /\ Connected /\ booking' = [booking EXCEPT ![b] = token]
      /\ UNCHANGED <<conn, consent, minted, events, noted, crossed, unnamed>>
  BY DEF ReadToken
<1>2. /\ booking \in [Bookings -> [pc : CallPoints, refresh : Consents \cup {Void},
                                   access : (Consents \X Nat) \cup {Void}, seen : SUBSET Profiles]]
      /\ conn \in [access : Consents \X Nat, refresh : Consents, label : Profiles \cup {Void}]
      /\ minted \in [Consents -> Nat]
  BY <1>1 DEF CalendarInv, CalendarTypeInv
<1>3. /\ conn.refresh \in Consents /\ conn.access \in Consents \X Nat /\ GrantOf(conn.access) \in Consents
      /\ Granted(conn.refresh) /\ Granted(GrantOf(conn.access))
      /\ ~ crossed => conn.refresh = GrantOf(conn.access)
  BY <1>1, <1>2 DEF CalendarInv, ConnInv, GrantOf
<1>4. OwnerOf(conn.refresh) \in Profiles /\ OwnerOf(GrantOf(conn.access)) \in Profiles
  BY <1>3 DEF CalendarInv, GrantInv
<1>5. /\ token.seen \subseteq Profiles /\ OwnerOf(conn.refresh) \in token.seen
      /\ OwnerOf(GrantOf(conn.access)) \in token.seen
  BY <1>3, <1>4
<1>6. token \in [pc : CallPoints, refresh : Consents \cup {Void},
                 access : (Consents \X Nat) \cup {Void}, seen : SUBSET Profiles]
  BY <1>3, <1>5 DEF CallPoints
<1>7. /\ token.pc \in {"renew", "book"} /\ token.refresh = conn.refresh /\ token.access = conn.access
  OBVIOUS
<1> HIDE DEF token
<1>8. booking'[b] = token /\ \A c \in Bookings : c # b => booking'[c] = booking[c]
  BY <1>1, <1>2
<1>9. CalendarTypeInv'
  BY <1>1, <1>2, <1>6 DEF CalendarInv, CalendarTypeInv, Connected
<1>10. GrantInv' /\ ConnInv'
  BY <1>1 DEF CalendarInv, GrantInv, ConnInv, Granted, OwnerOf, GrantOf, Connected
<1>11. CallRight(b)'
  <2>1. Granted(conn.refresh)' /\ Granted(GrantOf(conn.access))'
    BY <1>1, <1>3 DEF Granted, GrantOf
  <2>2. OwnerOf(conn.refresh)' \in token.seen /\ OwnerOf(GrantOf(conn.access))' \in token.seen
    BY <1>1, <1>5 DEF OwnerOf, GrantOf
  <2> QED
    BY <1>1, <1>3, <1>7, <1>8, <2>1, <2>2 DEF CallRight, Granted, OwnerOf, GrantOf
<1>12. \A c \in Bookings : c # b => CallRight(c)'
  BY <1>1, <1>2, <1>8, OtherCalls
<1>13. BookingInv'
  BY <1>11, <1>12 DEF BookingInv, CallRight
<1>14. EventInv'
  BY <1>1, <1>8 DEF CalendarInv, CalendarTypeInv, EventInv
<1> QED
  BY <1>9, <1>10, <1>13, <1>14 DEF CalendarInv

(* Renewing keeps the fields of a booking in their types.                 *)
LEMMA Renewed ==
  ASSUME NEW token \in Consents \X Nat,
         NEW call \in [pc : CallPoints, refresh : Consents \cup {Void},
                      access : (Consents \X Nat) \cup {Void}, seen : SUBSET Profiles]
  PROVE  [call EXCEPT !.access = token, !.pc = "store"] \in
           [pc : CallPoints, refresh : Consents \cup {Void},
            access : (Consents \X Nat) \cup {Void}, seen : SUBSET Profiles]
BY DEF CallPoints

LEMMA RenewStep ==
  ASSUME CalendarInv, NEW b \in Bookings, RenewToken(b)
  PROVE  CalendarInv'
<1> DEFINE g == booking[b].refresh
<1>1. /\ booking[b].pc = "renew" /\ UNCHANGED <<conn, consent, events, noted, crossed, unnamed>>
  BY DEF RenewToken
<1>2. /\ booking \in [Bookings -> [pc : CallPoints, refresh : Consents \cup {Void},
                                   access : (Consents \X Nat) \cup {Void}, seen : SUBSET Profiles]]
      /\ minted \in [Consents -> Nat]
  BY DEF CalendarInv, CalendarTypeInv
<1>3. CallRight(b)
  BY DEF CalendarInv, BookingInv, CallRight
<1>4. g \in Consents /\ Granted(g) /\ OwnerOf(g) \in booking[b].seen
  BY <1>1, <1>3 DEF CallRight
<1>5. CASE booking' = [booking EXCEPT ![b].pc = "over"] /\ UNCHANGED minted
  <2>1. booking'[b].pc = "over" /\ booking'[b].seen = booking[b].seen
    BY <1>2, <1>5
  <2>2. \A c \in Bookings : c # b => booking'[c] = booking[c]
    BY <1>2, <1>5
  <2>3. CalendarTypeInv'
    <3>1. booking' \in [Bookings -> [pc : CallPoints, refresh : Consents \cup {Void},
                                     access : (Consents \X Nat) \cup {Void}, seen : SUBSET Profiles]]
      BY <1>2, <1>5 DEF CallPoints
    <3> QED
      BY <1>1, <1>5, <3>1 DEF CalendarInv, CalendarTypeInv, Connected
  <2>4. GrantInv' /\ ConnInv'
    BY <1>1, <1>5 DEF CalendarInv, GrantInv, ConnInv, Granted, OwnerOf, GrantOf, Connected
  <2>5. \A c \in Bookings : c # b => CallRight(c)'
    BY <1>1, <1>2, <1>5, <2>2, OtherCalls
  <2>6. BookingInv'
    BY <2>1, <2>5 DEF BookingInv, CallRight
  <2>7. EventInv'
    BY <1>1, <2>1, <2>2 DEF CalendarInv, CalendarTypeInv, EventInv
  <2> QED
    BY <2>3, <2>4, <2>6, <2>7 DEF CalendarInv
<1>6. CASE /\ minted' = [minted EXCEPT ![g] = @ + 1]
           /\ booking' = [booking EXCEPT ![b].access = <<g, minted[g] + 1>>, ![b].pc = "store"]
  <2>1. /\ booking'[b].pc = "store" /\ booking'[b].seen = booking[b].seen
        /\ booking'[b].refresh = g /\ booking'[b].access = <<g, minted[g] + 1>>
    BY <1>2, <1>6
  <2>2. \A c \in Bookings : c # b => booking'[c] = booking[c]
    BY <1>2, <1>6
  <2>3. /\ minted' \in [Consents -> Nat] /\ minted'[g] = minted[g] + 1
        /\ \A h \in Consents : minted[h] \in Nat /\ minted'[h] \in Nat /\ minted[h] <= minted'[h]
    BY <1>2, <1>4, <1>6
  <2>4. booking' \in [Bookings -> [pc : CallPoints, refresh : Consents \cup {Void},
                                   access : (Consents \X Nat) \cup {Void}, seen : SUBSET Profiles]]
    <3>1. <<g, minted[g] + 1>> \in Consents \X Nat
      BY <1>2, <1>4
    <3>2. booking' = [booking EXCEPT ![b] = [booking[b] EXCEPT !.access = <<g, minted[g] + 1>>, !.pc = "store"]]
      BY <1>2, <1>6
    <3>3. booking[b] \in [pc : CallPoints, refresh : Consents \cup {Void},
                           access : (Consents \X Nat) \cup {Void}, seen : SUBSET Profiles]
      BY <1>2
    <3>4. [booking[b] EXCEPT !.access = <<g, minted[g] + 1>>, !.pc = "store"] \in
            [pc : CallPoints, refresh : Consents \cup {Void},
             access : (Consents \X Nat) \cup {Void}, seen : SUBSET Profiles]
      BY <3>1, <3>3, Renewed
    <3> QED
      BY <1>2, <3>2, <3>4
  <2>5. CalendarTypeInv'
    BY <1>1, <2>3, <2>4 DEF CalendarInv, CalendarTypeInv, Connected
  <2>6. GrantInv'
    BY <1>1, <1>2, <1>4, <1>6 DEF CalendarInv, GrantInv, Granted, OwnerOf
  <2>7. ConnInv'
    <3> SUFFICES ASSUME Connected
                 PROVE  /\ Granted(conn.refresh)' /\ Granted(GrantOf(conn.access))'
                        /\ conn.access[2] <= minted'[GrantOf(conn.access)]
                        /\ ~ crossed => conn.refresh = GrantOf(conn.access)
                        /\ ~ unnamed => conn.label = OwnerOf(conn.refresh)'
      BY <1>1 DEF ConnInv, Connected, GrantOf, OwnerOf, Granted
    <3>1. conn.refresh \in Consents /\ GrantOf(conn.access) \in Consents /\ conn.access[2] \in Nat
      BY DEF CalendarInv, CalendarTypeInv, GrantOf
    <3>2. /\ Granted(conn.refresh) /\ Granted(GrantOf(conn.access))
          /\ conn.access[2] <= minted[GrantOf(conn.access)]
          /\ ~ crossed => conn.refresh = GrantOf(conn.access)
          /\ ~ unnamed => conn.label = OwnerOf(conn.refresh)
      BY DEF CalendarInv, ConnInv
    <3> QED
      BY <1>1, <2>3, <3>1, <3>2 DEF Granted, OwnerOf, GrantOf
  <2>8. CallRight(b)'
    <3>1. Granted(g)' /\ OwnerOf(g)' = OwnerOf(g)
      BY <1>1, <1>2, <1>4, <2>1, <2>3 DEF Granted, OwnerOf
    <3>2. GrantOf(booking'[b].access) = g /\ booking'[b].access[2] = minted'[g] /\ minted'[g] \in Nat
      BY <1>4, <2>1, <2>3 DEF GrantOf
    <3>3. booking'[b].access \in Consents \X Nat
      BY <1>2, <1>4, <2>1
    <3> QED
      BY <1>4, <2>1, <3>1, <3>2, <3>3 DEF CallRight, Granted, OwnerOf, GrantOf
  <2>9. \A c \in Bookings : c # b => CallRight(c)'
    BY <1>1, <2>2, <2>3, OtherCalls
  <2>10. BookingInv'
    BY <2>8, <2>9 DEF BookingInv, CallRight
  <2>11. EventInv'
    BY <1>1, <2>1, <2>2 DEF CalendarInv, CalendarTypeInv, EventInv
  <2> QED
    BY <2>5, <2>6, <2>7, <2>10, <2>11 DEF CalendarInv
<1> QED
  BY <1>5, <1>6 DEF RenewToken

LEMMA RefreshedStep ==
  ASSUME CalendarInv, NEW b \in Bookings, refreshed(b)
  PROVE  CalendarInv'
<1>1. /\ booking[b].pc = "store" /\ booking' = [booking EXCEPT ![b].pc = "book"]
      /\ UNCHANGED <<consent, minted, events, noted, unnamed>>
  BY DEF refreshed
<1>2. /\ booking \in [Bookings -> [pc : CallPoints, refresh : Consents \cup {Void},
                                   access : (Consents \X Nat) \cup {Void}, seen : SUBSET Profiles]]
      /\ minted \in [Consents -> Nat]
      /\ Connected => conn \in [access : Consents \X Nat, refresh : Consents, label : Profiles \cup {Void}]
  BY DEF CalendarInv, CalendarTypeInv
<1>3. CallRight(b)
  BY DEF CalendarInv, BookingInv, CallRight
<1>4. /\ booking[b].refresh \in Consents /\ booking[b].access \in Consents \X Nat
      /\ Granted(booking[b].refresh) /\ GrantOf(booking[b].access) = booking[b].refresh
      /\ booking[b].access[2] <= minted[booking[b].refresh]
      /\ OwnerOf(booking[b].refresh) \in booking[b].seen
  BY <1>1, <1>3 DEF CallRight
<1>5. /\ booking'[b].pc = "book" /\ booking'[b].seen = booking[b].seen
      /\ booking'[b].refresh = booking[b].refresh /\ booking'[b].access = booking[b].access
  BY <1>1, <1>2
<1>6. \A c \in Bookings : c # b => booking'[c] = booking[c]
  BY <1>1, <1>2
<1>7. /\ Connected' => conn' \in [access : Consents \X Nat, refresh : Consents, label : Profiles \cup {Void}]
      /\ crossed' \in BOOLEAN /\ ConnInv'
  <2>1. CASE UNCHANGED <<conn, crossed>>
    BY <1>1, <2>1 DEF CalendarInv, CalendarTypeInv, ConnInv, Connected, Granted, OwnerOf, GrantOf
  <2>2. CASE /\ ~ Connected /\ conn' = Refreshed(b)
             /\ crossed' = (Connected /\ conn.refresh # booking[b].refresh)
    BY <2>2 DEF Refreshed, Connected, ConnInv
  <2>3. CASE /\ Connected /\ conn' = Refreshed(b)
             /\ crossed' = (Connected /\ conn.refresh # booking[b].refresh)
    <3>1. conn' = [conn EXCEPT !.access = booking[b].access]
      BY <2>3 DEF Refreshed
    <3>2. /\ conn'.access = booking[b].access /\ conn'.refresh = conn.refresh /\ conn'.label = conn.label
          /\ conn' \in [access : Consents \X Nat, refresh : Consents, label : Profiles \cup {Void}]
      BY <1>2, <1>4, <2>3, <3>1
    <3>3. crossed' \in BOOLEAN /\ (~ crossed' => conn.refresh = booking[b].refresh)
      BY <2>3
    <3>4. Granted(conn.refresh) /\ (~ unnamed => conn.label = OwnerOf(conn.refresh))
      BY <2>3 DEF CalendarInv, ConnInv
    <3>5. ConnInv'
      BY <1>1, <1>4, <3>2, <3>3, <3>4 DEF ConnInv, Granted, OwnerOf, GrantOf
    <3> QED
      BY <3>2, <3>3, <3>5
  <2> QED
    BY <2>1, <2>2, <2>3 DEF refreshed
<1>8. CalendarTypeInv'
  <2>1. booking' \in [Bookings -> [pc : CallPoints, refresh : Consents \cup {Void},
                                   access : (Consents \X Nat) \cup {Void}, seen : SUBSET Profiles]]
    BY <1>1, <1>2 DEF CallPoints
  <2> QED
    BY <1>1, <1>7, <2>1 DEF CalendarInv, CalendarTypeInv
<1>9. GrantInv'
  BY <1>1 DEF CalendarInv, GrantInv, Granted, OwnerOf
<1>10. CallRight(b)'
  BY <1>1, <1>4, <1>5 DEF CallRight, Granted, OwnerOf, GrantOf
<1>11. \A c \in Bookings : c # b => CallRight(c)'
  BY <1>1, <1>2, <1>6, OtherCalls
<1>12. BookingInv'
  BY <1>10, <1>11 DEF BookingInv, CallRight
<1>13. EventInv'
  BY <1>1, <1>5, <1>6 DEF CalendarInv, CalendarTypeInv, EventInv
<1> QED
  BY <1>7, <1>8, <1>9, <1>12, <1>13 DEF CalendarInv

LEMMA BookedStep ==
  ASSUME CalendarInv, NEW b \in Bookings, CreateEvent(b)
  PROVE  CalendarInv'
<1>1. /\ booking[b].pc = "book" /\ UNCHANGED <<conn, consent, minted, noted, crossed, unnamed>>
  BY DEF CreateEvent
<1>2. /\ booking \in [Bookings -> [pc : CallPoints, refresh : Consents \cup {Void},
                                   access : (Consents \X Nat) \cup {Void}, seen : SUBSET Profiles]]
      /\ minted \in [Consents -> Nat]
      /\ events \subseteq [by : Bookings, in : Profiles] /\ noted \subseteq Bookings
  BY DEF CalendarInv, CalendarTypeInv
<1>3. CallRight(b)
  BY DEF CalendarInv, BookingInv, CallRight
<1>4. OwnerOf(GrantOf(booking[b].access)) \in booking[b].seen
  BY <1>1, <1>3 DEF CallRight
<1> DEFINE event == [by |-> b, in |-> OwnerOf(GrantOf(booking[b].access))]
<1>5. event \in [by : Bookings, in : Profiles] /\ event.by = b /\ event.in \in booking[b].seen
  BY <1>2, <1>4
<1>6. /\ booking'[b].pc \in {"note", "over"} /\ booking'[b].seen = booking[b].seen
      /\ booking' \in [Bookings -> [pc : CallPoints, refresh : Consents \cup {Void},
                                    access : (Consents \X Nat) \cup {Void}, seen : SUBSET Profiles]]
      /\ \A c \in Bookings : c # b => booking'[c] = booking[c]
  <2>1. \/ booking' = [booking EXCEPT ![b].pc = "note"] \/ booking' = [booking EXCEPT ![b].pc = "over"]
    BY DEF CreateEvent
  <2> QED
    BY <1>2, <2>1 DEF CallPoints
<1>7. /\ events \subseteq events' /\ events' \subseteq events \cup {event}
      /\ booking'[b].pc = "note" => event \in events'
  BY <1>2 DEF CreateEvent
<1> HIDE DEF event
<1>8. CalendarTypeInv'
  BY <1>1, <1>2, <1>5, <1>6, <1>7 DEF CalendarInv, CalendarTypeInv, Connected
<1>9. GrantInv' /\ ConnInv'
  BY <1>1 DEF CalendarInv, GrantInv, ConnInv, Granted, OwnerOf, GrantOf, Connected
<1>10. CallRight(b)'
  BY <1>5, <1>6, <1>7 DEF CallRight
<1>11. \A c \in Bookings : c # b => CallRight(c)'
  BY <1>1, <1>2, <1>6, <1>7, OtherCalls
<1>12. BookingInv'
  BY <1>10, <1>11 DEF BookingInv, CallRight
<1>13. EventInv'
  <2>1. \A e \in events : booking'[e.by].pc \in {"note", "over"} /\ e.in \in booking'[e.by].seen
    BY <1>2, <1>6 DEF CalendarInv, EventInv
  <2>2. booking'[event.by].pc \in {"note", "over"} /\ event.in \in booking'[event.by].seen
    BY <1>5, <1>6
  <2>3. \A c \in noted' : \E e \in events' : e.by = c
    BY <1>1, <1>7 DEF CalendarInv, EventInv
  <2> QED
    BY <1>7, <2>1, <2>2, <2>3 DEF EventInv
<1> QED
  BY <1>8, <1>9, <1>12, <1>13 DEF CalendarInv

LEMMA NoteStep ==
  ASSUME CalendarInv, NEW b \in Bookings, saveCalendarEvent(b)
  PROVE  CalendarInv'
<1>1. /\ booking[b].pc = "note" /\ booking' = [booking EXCEPT ![b].pc = "over"]
      /\ noted' \in {noted, noted \cup {b}}
      /\ UNCHANGED <<conn, consent, minted, events, crossed, unnamed>>
  BY DEF saveCalendarEvent
<1>2. /\ booking \in [Bookings -> [pc : CallPoints, refresh : Consents \cup {Void},
                                   access : (Consents \X Nat) \cup {Void}, seen : SUBSET Profiles]]
      /\ minted \in [Consents -> Nat] /\ noted \subseteq Bookings
  BY DEF CalendarInv, CalendarTypeInv
<1>3. booking'[b].pc = "over" /\ booking'[b].seen = booking[b].seen
  BY <1>1, <1>2
<1>4. \A c \in Bookings : c # b => booking'[c] = booking[c]
  BY <1>1, <1>2
<1>5. \E e \in events : e.by = b
  BY <1>1 DEF CalendarInv, BookingInv
<1>6. CalendarTypeInv'
  <2>1. booking' \in [Bookings -> [pc : CallPoints, refresh : Consents \cup {Void},
                                   access : (Consents \X Nat) \cup {Void}, seen : SUBSET Profiles]]
    BY <1>1, <1>2 DEF CallPoints
  <2>2. noted' \subseteq Bookings
    BY <1>1, <1>2
  <2> QED
    BY <1>1, <2>1, <2>2 DEF CalendarInv, CalendarTypeInv, Connected
<1>7. GrantInv' /\ ConnInv'
  BY <1>1 DEF CalendarInv, GrantInv, ConnInv, Granted, OwnerOf, GrantOf, Connected
<1>8. \A c \in Bookings : c # b => CallRight(c)'
  BY <1>1, <1>2, <1>4, OtherCalls
<1>9. BookingInv'
  BY <1>3, <1>8 DEF BookingInv, CallRight
<1>10. EventInv'
  BY <1>1, <1>3, <1>4, <1>5 DEF CalendarInv, CalendarTypeInv, EventInv
<1> QED
  BY <1>6, <1>7, <1>9, <1>10 DEF CalendarInv

LEMMA NextCalendarInv == CalendarInv /\ [CalendarNext]_calendarVars => CalendarInv'
<1> SUFFICES ASSUME CalendarInv, [CalendarNext]_calendarVars PROVE CalendarInv'
  OBVIOUS
<1>1. ASSUME NEW g \in Consents,
             googleConnect(g) \/ AskGoogle(g) \/ googleCallback(g) \/ SaveConnection(g) \/ ExpireAccess(g)
      PROVE  CalendarInv'
  BY <1>1, ConsentStep, SaveStep
<1>2. ASSUME NEW b \in Bookings,
             ReadToken(b) \/ RenewToken(b) \/ refreshed(b) \/ CreateEvent(b) \/ saveCalendarEvent(b)
      PROVE  CalendarInv'
  BY <1>2, SeenStep, RenewStep, RefreshedStep, BookedStep, NoteStep
<1>3. CASE UNCHANGED calendarVars
  BY <1>3 DEF calendarVars, CalendarInv, CalendarTypeInv, GrantInv, ConnInv, BookingInv, EventInv,
              Connected, Granted, OwnerOf, GrantOf
<1> QED
  BY <1>1, <1>2, <1>3, DisconnectStep DEF CalendarNext

LEMMA CalendarInvariance == CalendarSpec => []CalendarInv
  BY InitCalendarInv, NextCalendarInv, PTL DEF CalendarSpec

-----------------------------------------------------------------------------
(* A stored connection has a grant that can be renewed, and what is noted  *)
(* is in Google's calendar.                                                *)
THEOREM CalendarTypeCorrect == CalendarSpec => []CalendarTypeOK
<1>1. CalendarInv => CalendarTypeOK
  <2> SUFFICES ASSUME CalendarInv PROVE CalendarTypeOK
    OBVIOUS
  <2>1. Connected => conn \in [access : Consents \X Nat, refresh : Consents, label : Profiles \cup {Void}]
    BY DEF CalendarInv, CalendarTypeInv
  <2>2. Connected => /\ conn.refresh \in Consents /\ GrantOf(conn.access) \in Consents
                     /\ conn.label \in Profiles \cup {Void}
                     /\ conn.access[2] <= minted[GrantOf(conn.access)]
    BY <2>1 DEF CalendarInv, ConnInv, GrantOf
  <2> QED
    BY <2>2 DEF CalendarInv, EventInv, CalendarTypeOK
<1> QED
  BY <1>1, CalendarInvariance, PTL

(* The two tokens of a connection come from one consent unless a booking   *)
(* stored an older one last, however reconnects and renewals interleave.   *)
THEOREM Paired == CalendarSpec => []TokensArePaired
<1>1. CalendarInv => TokensArePaired
  BY DEF CalendarInv, ConnInv, TokensArePaired
<1> QED
  BY <1>1, CalendarInvariance, PTL

(* A call is booked in a calendar that was connected while it was booked.  *)
THEOREM BookedRight == CalendarSpec => []BookedWhereConnected
<1>1. CalendarInv => BookedWhereConnected
  BY DEF CalendarInv, EventInv, BookedWhereConnected
<1> QED
  BY <1>1, CalendarInvariance, PTL

(* The account on display is the one calls are booked in.                  *)
THEOREM Shown == CalendarSpec => []ShownIsConnected
<1>1. CalendarInv => ShownIsConnected
  BY DEF CalendarInv, ConnInv, ShownIsConnected
<1> QED
  BY <1>1, CalendarInvariance, PTL

(* Only a consent brings a connection back, never a booking under way.     *)
THEOREM Disconnected == CalendarSpec => DisconnectStands
<1>1. CalendarInv /\ [CalendarNext]_calendarVars =>
        [~ Connected /\ conn' # Void =>
           \E g \in Consents : consent[g].pc = "save" /\ consent'[g].pc = "over"]_calendarVars
  <2> SUFFICES ASSUME CalendarInv, CalendarNext, ~ Connected, conn' # Void
               PROVE  \E g \in Consents : consent[g].pc = "save" /\ consent'[g].pc = "over"
    OBVIOUS
  <2>1. ASSUME NEW g \in Consents, SaveConnection(g)
        PROVE  consent[g].pc = "save" /\ consent'[g].pc = "over"
    BY <2>1 DEF SaveConnection, CalendarInv, CalendarTypeInv
  <2>2. \A g \in Consents : ~ googleConnect(g) /\ ~ AskGoogle(g) /\ ~ googleCallback(g) /\ ~ ExpireAccess(g)
    BY DEF Connected, googleConnect, AskGoogle, googleCallback, ExpireAccess
  <2>3. \A b \in Bookings : /\ ~ ReadToken(b) /\ ~ RenewToken(b) /\ ~ refreshed(b)
                            /\ ~ CreateEvent(b) /\ ~ saveCalendarEvent(b)
    BY DEF Connected, ReadToken, RenewToken, refreshed, Refreshed, CreateEvent, saveCalendarEvent
  <2>4. ~ googleDisconnect
    BY DEF googleDisconnect
  <2> QED
    BY <2>1, <2>2, <2>3, <2>4 DEF CalendarNext
<1> QED
  BY <1>1, CalendarInvariance, PTL DEF CalendarSpec, DisconnectStands

(* Tokens, display and calls are of one account                            *)
(* (integrations/store.go:102, 128).                                       *)
THEOREM ConnectionRight == CalendarSpec => []ConnectionIsOne
  BY Paired, Shown, BookedRight, PTL DEF ConnectionIsOne
=============================================================================
