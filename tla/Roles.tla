------------------------------- MODULE Roles -------------------------------
(***************************************************************************)
(* The roles of one organisation's members and the calls that change them  *)
(* (internal/org).  A caller's authority is the role in the access token   *)
(* it presents, which was true when the token was signed.  A change is a   *)
(* transaction of three statements at READ COMMITTED: one that reads the   *)
(* member's role and locks the users row, one that counts the owners, and  *)
(* the write.  Only the users row is locked, and no role change modifies   *)
(* it: the role lives in profiles, so the first statement keeps the role   *)
(* its snapshot saw even if it had to wait for the lock.                   *)
(***************************************************************************)
EXTENDS Naturals, FiniteSets

CONSTANTS Members,
          Requests,   \* role changes that may be in flight at once
          Founder,    \* the owner createUserWithOrg made
          Asked,      \* bound: the roles callers ask for
          Nobody

ASSUME RolesAssumption ==
  /\ IsFiniteSet(Members)
  /\ Founder \in Members
  /\ Nobody \notin Members
  /\ Asked \subseteq {"owner", "admin", "sales"}

VARIABLES
  role,      \* profiles.role, "none" before the member joins
  tokens,    \* the roles claimed by a member's unexpired access tokens
  was_owner, \* history: the members who have ever been owner
  pc,        \* where each request is
  actor,     \* the caller of each request
  authority, \* the role its token claims
  target,    \* the member whose role changes
  wanted,    \* the role asked for
  current,   \* the role the transaction has read
  overlapped \* history: two role changes have been in flight at once

request == <<pc, actor, authority, target, wanted, current>>
vars    == <<role, tokens, was_owner, pc, actor, authority, target, wanted, current,
             overlapped>>

validRoles == {"owner", "admin", "sales"}  \* account_manager and client act as sales
Managing   == {"owner", "admin"}           \* what RequireRole lets through
Points     == {"idle", "lock", "count", "write"}

Init ==
  /\ role = [m \in Members |-> IF m = Founder THEN "owner" ELSE "none"]
  /\ tokens = [m \in Members |-> {}]
  /\ was_owner = {Founder}
  /\ pc = [p \in Requests |-> "idle"]
  /\ actor = [p \in Requests |-> Nobody]
  /\ authority = [p \in Requests |-> "none"]
  /\ target = [p \in Requests |-> Nobody]
  /\ wanted = [p \in Requests |-> "none"]
  /\ current = [p \in Requests |-> "none"]
  /\ overlapped = FALSE

Owners == {m \in Members : role[m] = "owner"}

Goto(p, point) == pc' = [pc EXCEPT ![p] = point]

Finish(p) ==
  /\ Goto(p, "idle")
  /\ actor' = [actor EXCEPT ![p] = Nobody]
  /\ authority' = [authority EXCEPT ![p] = "none"]
  /\ target' = [target EXCEPT ![p] = Nobody]
  /\ wanted' = [wanted EXCEPT ![p] = "none"]
  /\ current' = [current EXCEPT ![p] = "none"]

Locked(m) == \E q \in Requests : pc[q] \in {"count", "write"} /\ target[q] = m

-----------------------------------------------------------------------------
(* Accepting an invitation, or joining the default organisation.           *)
Join(m) ==
  /\ role[m] = "none"
  /\ role' = [role EXCEPT ![m] = "sales"]
  /\ UNCHANGED <<tokens, was_owner, request, overlapped>>

(* Login and refresh sign the role the member has now.                     *)
SignToken(m) ==
  /\ role[m] \in Managing
  /\ tokens' = [tokens EXCEPT ![m] = @ \cup {role[m]}]
  /\ UNCHANGED <<role, was_owner, request, overlapped>>

ExpireToken(m) ==
  /\ \E r \in tokens[m] : tokens' = [tokens EXCEPT ![m] = @ \ {r}]
  /\ UNCHANGED <<role, was_owner, request, overlapped>>

Permitted_Self(a, c, m, r) ==  \* mutation: no ErrSelfRoleChange
  c \in Managing /\ role[m] # "none" /\ (r = "owner" => c = "owner")

(* RequireRole, and the checks UpdateMemberRole makes before it opens the  *)
(* transaction; the member must exist.                                     *)
Permitted(a, c, m, r) ==
  /\ c \in Managing
  /\ a # m
  /\ r = "owner" => c = "owner"
  /\ role[m] # "none"

UpdateMemberRole_AnyRole(p) ==  \* mutation: the role is not validated
  /\ pc[p] = "idle"
  /\ \E a \in Members : \E c \in tokens[a], m \in Members, r \in Asked \cup {"any"} :
       /\ Permitted(a, c, m, r)
       /\ actor' = [actor EXCEPT ![p] = a]
       /\ authority' = [authority EXCEPT ![p] = c]
       /\ target' = [target EXCEPT ![p] = m]
       /\ wanted' = [wanted EXCEPT ![p] = r]
       /\ current' = [current EXCEPT ![p] = role[m]]
  /\ overlapped' = (overlapped \/ \E q \in Requests : pc[q] # "idle")
  /\ Goto(p, "lock")
  /\ UNCHANGED <<role, tokens, was_owner>>

(* The call arrives and its first statement takes its snapshot.            *)
UpdateMemberRole(p) ==
  /\ pc[p] = "idle"
  /\ \E a \in Members : \E c \in tokens[a], m \in Members, r \in Asked :
       /\ Permitted(a, c, m, r)
       /\ actor' = [actor EXCEPT ![p] = a]
       /\ authority' = [authority EXCEPT ![p] = c]
       /\ target' = [target EXCEPT ![p] = m]
       /\ wanted' = [wanted EXCEPT ![p] = r]
       /\ current' = [current EXCEPT ![p] = role[m]]
  /\ overlapped' = (overlapped \/ \E q \in Requests : pc[q] # "idle")
  /\ Goto(p, "lock")
  /\ UNCHANGED <<role, tokens, was_owner>>

OwnerOnly_Unchecked(p) == FALSE  \* mutation: the store trusts the service's check

(* Unseating an owner is an owner's prerogative.                           *)
OwnerOnly(p) == current[p] = "owner" /\ authority[p] # "owner"

Unseats(p) == current[p] = "owner" /\ wanted[p] # "owner"

(* The lock is granted; the statement answers with the role it saw.        *)
LockMember(p) ==
  /\ pc[p] = "lock"
  /\ ~Locked(target[p])
  /\ IF OwnerOnly(p) THEN Finish(p)
     ELSE /\ Goto(p, IF Unseats(p) THEN "count" ELSE "write")
          /\ UNCHANGED <<actor, authority, target, wanted, current>>
  /\ UNCHANGED <<role, tokens, was_owner, overlapped>>

CountOwners_OffByOne(p) ==  \* mutation: owners < 1
  /\ pc[p] = "count"
  /\ IF Cardinality(Owners) < 1 THEN Finish(p)
     ELSE /\ Goto(p, "write")
          /\ UNCHANGED <<actor, authority, target, wanted, current>>
  /\ UNCHANGED <<role, tokens, was_owner, overlapped>>

CountOwners(p) ==
  /\ pc[p] = "count"
  /\ IF Cardinality(Owners) <= 1 THEN Finish(p)
     ELSE /\ Goto(p, "write")
          /\ UNCHANGED <<actor, authority, target, wanted, current>>
  /\ UNCHANGED <<role, tokens, was_owner, overlapped>>

(* The write and its commit, which releases the member's row.              *)
WriteRole(p) ==
  /\ pc[p] = "write"
  /\ role' = [role EXCEPT ![target[p]] = wanted[p]]
  /\ was_owner' = was_owner \cup {m \in {target[p]} : wanted[p] = "owner"}
  /\ Finish(p)
  /\ UNCHANGED <<tokens, overlapped>>

Next ==
  \/ \E m \in Members : Join(m) \/ SignToken(m) \/ ExpireToken(m)
  \/ \E p \in Requests :
       UpdateMemberRole(p) \/ LockMember(p) \/ CountOwners(p) \/ WriteRole(p)

Spec == Init /\ [][Next]_vars

-----------------------------------------------------------------------------
(* Types of the state variables.                                           *)
TypeOK ==
  /\ role \in [Members -> validRoles \cup {"none"}]
  /\ tokens \in [Members -> SUBSET Managing]
  /\ was_owner \subseteq Members
  /\ pc \in [Requests -> Points]
  /\ actor \in [Requests -> Members \cup {Nobody}]
  /\ authority \in [Requests -> Managing \cup {"none"}]
  /\ target \in [Requests -> Members \cup {Nobody}]
  /\ wanted \in [Requests -> validRoles \cup {"none"}]
  /\ current \in [Requests -> validRoles \cup {"none"}]
  /\ overlapped \in BOOLEAN

(* The last-owner check of updateMemberRole: as long as role changes have  *)
(* not overlapped the organisation has an owner, whoever changes whose     *)
(* role with however old a token.                                          *)
KeepsAnOwner == ~overlapped => Owners # {}

(* Unseating an owner is an owner's prerogative (org/store.go:271): as     *)
(* long as role changes have not overlapped, none is about to take the     *)
(* role from an owner for a caller whose token does not say owner.         *)
OwnersUnseatedByOwners ==
  ~overlapped =>
    ~ \E p \in Requests : /\ pc[p] = "write"
                          /\ role[target[p]] = "owner" /\ wanted[p] # "owner"
                          /\ authority[p] # "owner"

(* org/store.go:246, "so two concurrent demotions can't race past the      *)
(* last-owner check": the organisation has an owner whatever overlaps.     *)
RacesKeepAnOwner == Owners # {}

(* Ownership is handed down: a member becomes owner only by the call of    *)
(* another member who has been one.  Nobody raises themselves, not even a  *)
(* former owner with a token from before.                                  *)
OwnershipIsHandedDown ==
  [][\A m \in Members : role[m] # "owner" /\ role'[m] = "owner" =>
       \E p \in Requests : /\ pc[p] = "write" /\ pc'[p] = "idle"
                           /\ target[p] = m /\ actor[p] # m
                           /\ actor[p] \in was_owner]_vars

(* Changes of roles, whatever their tokens say, leave an owner, and leave  *)
(* owners to owners.                                                       *)
OwnersStay == KeepsAnOwner /\ OwnersUnseatedByOwners
=============================================================================
