----------------------------- MODULE Directory -----------------------------
(***************************************************************************)
(* Who belongs to which organisation: sign-up with a password, first       *)
(* sign-in through a provider (internal/auth), and invitations             *)
(* (internal/org).  An account is known by its email, which is unique over *)
(* all organisations.  A request is a process; it steps where the code     *)
(* reads outside a transaction, takes a row lock, or commits.  The INSERT  *)
(* of an account, its profile and its organisation is one transaction that *)
(* reads nothing another one writes, so it is one step.                    *)
(***************************************************************************)
EXTENDS Naturals, FiniteSets

CONSTANTS Emails,
          Orgs,
          Invitations,  \* ids, each with a token of its own
          Visits,       \* HTTP calls that may be in flight at once
          Providers,    \* the configured sign-in providers
          Identities,   \* provider user ids
          Allowed,      \* the emails whose domain is on the allow-list
          HomeFounder,  \* an account that exists from the start ...
          HomeOrg,      \* ... and the organisation it founded
          None

ASSUME DirectoryAssumption ==
  /\ "password" \notin Providers
  /\ Allowed \subseteq Emails
  /\ HomeFounder \in Emails /\ HomeOrg \in Orgs
  /\ None \notin Emails \cup Orgs \cup Invitations \cup Identities

VARIABLES
  org,       \* users.org_id, None while the email has no account
  provider,  \* users.auth_provider
  identity,  \* users.provider_user_id
  rank,      \* profiles.role, as it is when the account is created
  invite,    \* the row: none, pending, accepted or gone
  invitee,   \* invitations.email
  host,      \* invitations.org_id
  lapsed,    \* invitations whose expires_at has passed
  seat,      \* history: the invitation an account came in by
  default,   \* SSO_DEFAULT_ORG_ID of this deployment, or None
  at,        \* where each request is
  who,       \* the email it is about
  via,       \* the provider it signs in through, or "password"
  with,      \* the identity that provider reported
  holds      \* the invitation it has claimed, or is about to create

users   == <<org, provider, identity, rank, seat>>
invites == <<invite, invitee, host, lapsed>>
visit   == <<at, who, via, with, holds>>
directoryVars == <<org, provider, identity, rank, seat, invite, invitee, host,
                   lapsed, default, at, who, via, with, holds>>

VisitPoints == {"idle", "by_email", "provision", "invite", "join", "taken", "violation"}
Methods     == {"password"} \cup Providers

DirectoryInit ==
  /\ org = [e \in Emails |-> IF e = HomeFounder THEN HomeOrg ELSE None]
  /\ \E m \in Methods : provider = [e \in Emails |-> IF e = HomeFounder THEN m ELSE "none"]
  /\ identity = [e \in Emails |-> None]
  /\ rank = [e \in Emails |-> IF e = HomeFounder THEN "owner" ELSE "none"]
  /\ seat = [e \in Emails |-> None]
  /\ default \in {HomeOrg, None}
  /\ invite = [i \in Invitations |-> "none"]
  /\ invitee = [i \in Invitations |-> None]
  /\ host = [i \in Invitations |-> None]
  /\ lapsed = {}
  /\ at = [p \in Visits |-> "idle"]
  /\ who = [p \in Visits |-> None]
  /\ via = [p \in Visits |-> "none"]
  /\ with = [p \in Visits |-> None]
  /\ holds = [p \in Visits |-> None]

Registered(e) == org[e] # None
Founded(o)    == \E e \in Emails : org[e] = o

MoveTo(p, point) == at' = [at EXCEPT ![p] = point] /\ UNCHANGED default

EndVisit(p) ==
  /\ MoveTo(p, "idle")
  /\ who' = [who EXCEPT ![p] = None]
  /\ via' = [via EXCEPT ![p] = "none"]
  /\ with' = [with EXCEPT ![p] = None]
  /\ holds' = [holds EXCEPT ![p] = None]

(* The row of an invitation another open transaction has claimed.          *)
Claimed(i) == \E q \in Visits : at[q] = "join" /\ holds[q] = i

-----------------------------------------------------------------------------
Register_AnyDomain(p) ==  \* mutation: the allow-list guards SSO only
  /\ at[p] = "idle"
  /\ \E e \in Emails :
       /\ who' = [who EXCEPT ![p] = e]
       /\ MoveTo(p, IF Registered(e) THEN "taken" ELSE "provision")
  /\ via' = [via EXCEPT ![p] = "password"]
  /\ UNCHANGED <<users, invites, with, holds>>

(* Registration looks the email up, and hashes the password before the     *)
(* account is created.                                                     *)
Register(p) ==
  /\ at[p] = "idle"
  /\ \E e \in Allowed :
       /\ who' = [who EXCEPT ![p] = e]
       /\ MoveTo(p, IF Registered(e) THEN "taken" ELSE "provision")
  /\ via' = [via EXCEPT ![p] = "password"]
  /\ UNCHANGED <<users, invites, with, holds>>

(* The provider's callback.  A known identity is signed in, which changes  *)
(* nothing here; for any other the account is looked up by its email.      *)
CompleteSSO(p) ==
  /\ at[p] = "idle"
  /\ \E e \in Allowed, m \in Providers, i \in Identities :
       /\ ~ \E u \in Emails : provider[u] = m /\ identity[u] = i
       /\ who' = [who EXCEPT ![p] = e]
       /\ via' = [via EXCEPT ![p] = m]
       /\ with' = [with EXCEPT ![p] = i]
  /\ MoveTo(p, "by_email")
  /\ UNCHANGED <<users, invites, holds>>

ResolveByEmail_LinksAnyMethod(p) ==  \* mutation: links an account whatever its provider
  /\ at[p] = "by_email"
  /\ LET e == who[p] IN
       IF Registered(e)
       THEN /\ identity' = [identity EXCEPT ![e] = IF @ = None THEN with[p] ELSE @]
            /\ EndVisit(p)
       ELSE /\ MoveTo(p, "provision")
            /\ UNCHANGED <<identity, who, via, with, holds>>
  /\ UNCHANGED <<org, provider, rank, seat, invites>>

(* Same provider: link the identity if the account has none, and sign in.  *)
(* Another method: refuse.  No account: provision one.                     *)
ResolveByEmail(p) ==
  /\ at[p] = "by_email"
  /\ LET e == who[p] IN
       \/ /\ Registered(e) /\ provider[e] = via[p]
          /\ identity' = [identity EXCEPT ![e] = IF @ = None THEN with[p] ELSE @]
          /\ EndVisit(p)
       \/ /\ Registered(e) /\ provider[e] # via[p]
          /\ MoveTo(p, "taken")
          /\ UNCHANGED <<identity, who, via, with, holds>>
       \/ /\ ~Registered(e)
          /\ MoveTo(p, "provision")
          /\ UNCHANGED <<identity, who, via, with, holds>>
  /\ UNCHANGED <<org, provider, rank, seat, invites>>

(* The account's INSERT and that of its profile.                           *)
Seat(p, e, o, r, i) ==
  /\ org' = [org EXCEPT ![e] = o]
  /\ provider' = [provider EXCEPT ![e] = via[p]]
  /\ identity' = [identity EXCEPT ![e] = with[p]]
  /\ rank' = [rank EXCEPT ![e] = r]
  /\ seat' = [seat EXCEPT ![e] = i]

Provision_JoinerOwns(p) ==  \* mutation: createUserInOrg keeps createUserWithOrg's role
  /\ at[p] = "provision"
  /\ ~Registered(who[p])
  /\ \/ /\ default # None
        /\ Seat(p, who[p], default, "owner", None)
     \/ /\ default = None
        /\ \E o \in Orgs : ~Founded(o) /\ Seat(p, who[p], o, "owner", None)
  /\ EndVisit(p)
  /\ UNCHANGED invites

(* createUserInOrg when a default organisation is configured, otherwise    *)
(* createUserWithOrg.                                                      *)
Provision(p) ==
  /\ at[p] = "provision"
  /\ ~Registered(who[p])
  /\ \/ /\ default # None
        /\ Seat(p, who[p], default, "sales", None)
     \/ /\ default = None
        /\ \E o \in Orgs : ~Founded(o) /\ Seat(p, who[p], o, "owner", None)
  /\ EndVisit(p)
  /\ UNCHANGED invites

(* users.email is UNIQUE: the transaction fails and rolls back whole, and  *)
(* no code turns the failure into ErrEmailTaken.                           *)
ProvisionFails(p) ==
  /\ at[p] = "provision"
  /\ Registered(who[p])
  /\ MoveTo(p, "violation")
  /\ UNCHANGED <<users, invites, who, via, with, holds>>

Answer(p) ==
  /\ at[p] \in {"taken", "violation"}
  /\ EndVisit(p)
  /\ UNCHANGED <<users, invites>>

-----------------------------------------------------------------------------
(* A member invites an email that has no account when it is looked up.     *)
Invite(p) ==
  /\ at[p] = "idle"
  /\ \E e \in Emails : /\ ~Registered(e)
                       /\ who' = [who EXCEPT ![p] = e]
  /\ MoveTo(p, "invite")
  /\ UNCHANGED <<users, invites, via, with, holds>>

(* The INSERT.  Its only unique column is the hash of a fresh token.       *)
CreateInvitation(p) ==
  /\ at[p] = "invite"
  /\ \E i \in Invitations, o \in Orgs :
       /\ invite[i] = "none" /\ Founded(o)
       /\ invite' = [invite EXCEPT ![i] = "pending"]
       /\ invitee' = [invitee EXCEPT ![i] = who[p]]
       /\ host' = [host EXCEPT ![i] = o]
  /\ EndVisit(p)
  /\ UNCHANGED <<users, lapsed>>

Lapse(i) ==
  /\ invite[i] = "pending"
  /\ i \notin lapsed
  /\ lapsed' = lapsed \cup {i}
  /\ UNCHANGED <<users, invite, invitee, host, default, visit>>

(* DELETE ... WHERE accepted_at IS NULL, once no transaction holds the row.*)
Revoke(i) ==
  /\ invite[i] = "pending"
  /\ ~Claimed(i)
  /\ invite' = [invite EXCEPT ![i] = "gone"]
  /\ UNCHANGED <<users, invitee, host, lapsed, default, visit>>

(* acceptInvitation: the conditional UPDATE claims the row, waiting for a  *)
(* transaction that holds it and looking again afterwards.  A miss is      *)
(* answered ErrInviteInvalid and changes nothing.                          *)
ClaimInvitation(p) ==
  /\ at[p] = "idle"
  /\ \E i \in Invitations \ lapsed :
       /\ invite[i] = "pending" /\ ~Claimed(i)
       /\ holds' = [holds EXCEPT ![p] = i]
       /\ who' = [who EXCEPT ![p] = invitee[i]]
  /\ via' = [via EXCEPT ![p] = "password"]
  /\ MoveTo(p, "join")
  /\ UNCHANGED <<users, invites, with>>

TakeSeat_NoProfile(p) ==  \* mutation: the account without its profile
  /\ at[p] = "join"
  /\ ~Registered(who[p])
  /\ org' = [org EXCEPT ![who[p]] = host[holds[p]]]
  /\ seat' = [seat EXCEPT ![who[p]] = holds[p]]
  /\ provider' = [provider EXCEPT ![who[p]] = via[p]]
  /\ invite' = [invite EXCEPT ![holds[p]] = "accepted"]
  /\ EndVisit(p)
  /\ UNCHANGED <<identity, rank, invitee, host, lapsed>>

TakeSeat(p) ==
  /\ at[p] = "join"
  /\ ~Registered(who[p])
  /\ Seat(p, who[p], host[holds[p]], "sales", holds[p])
  /\ invite' = [invite EXCEPT ![holds[p]] = "accepted"]
  /\ EndVisit(p)
  /\ UNCHANGED <<invitee, host, lapsed>>

JoinRefused_KeepsTheClaim(p) ==  \* mutation: the claim commits before the account is inserted
  /\ at[p] = "join"
  /\ Registered(who[p])
  /\ invite' = [invite EXCEPT ![holds[p]] = "accepted"]
  /\ EndVisit(p)
  /\ UNCHANGED <<users, invitee, host, lapsed>>

(* ErrAlreadyMember: the rollback releases the claim.                      *)
JoinRefused(p) ==
  /\ at[p] = "join"
  /\ Registered(who[p])
  /\ EndVisit(p)
  /\ UNCHANGED <<users, invites>>

Step(p) ==
  \/ Register(p) \/ CompleteSSO(p) \/ ResolveByEmail(p)
  \/ Provision(p) \/ ProvisionFails(p) \/ Answer(p)
  \/ Invite(p) \/ CreateInvitation(p)
  \/ ClaimInvitation(p) \/ TakeSeat(p) \/ JoinRefused(p)

DirectoryNext ==
  \/ \E p \in Visits : Step(p)
  \/ \E i \in Invitations : Lapse(i) \/ Revoke(i)

DirectorySpec == DirectoryInit /\ [][DirectoryNext]_directoryVars

-----------------------------------------------------------------------------
(* Types of the state variables; an account always has its profile.        *)
DirectoryTypeOK ==
  /\ \A e \in Emails : Registered(e) <=> rank[e] # "none"
  /\ org \in [Emails -> Orgs \cup {None}]
  /\ provider \in [Emails -> Methods \cup {"none"}]
  /\ identity \in [Emails -> Identities \cup {None}]
  /\ rank \in [Emails -> {"none", "owner", "sales"}]
  /\ seat \in [Emails -> Invitations \cup {None}]
  /\ default \in {HomeOrg, None}
  /\ invite \in [Invitations -> {"none", "pending", "accepted", "gone"}]
  /\ invitee \in [Invitations -> Emails \cup {None}]
  /\ host \in [Invitations -> Orgs \cup {None}]
  /\ lapsed \subseteq Invitations
  /\ at \in [Visits -> VisitPoints]
  /\ who \in [Visits -> Emails \cup {None}]
  /\ via \in [Visits -> Methods \cup {"none"}]
  /\ with \in [Visits -> Identities \cup {None}]
  /\ holds \in [Visits -> Invitations \cup {None}]

(* acceptInvitation is all or nothing against registrations, revocations   *)
(* and other uses of the link: an invitation is accepted exactly when one  *)
(* account came in by it, and that is the account of the invited email in  *)
(* the organisation that invited it, never its owner.                      *)
AcceptedMeansSeated ==
  \A i \in Invitations :
    IF invite[i] = "accepted"
    THEN /\ seat[invitee[i]] = i
         /\ org[invitee[i]] = host[i]
         /\ rank[invitee[i]] = "sales"
         /\ \A e \in Emails \ {invitee[i]} : seat[e] # i
    ELSE \A e \in Emails : seat[e] # i

(* Sign-ups, provider sign-ins and invitations racing for one email never  *)
(* move an account: organisation, method, role and seat stand from its     *)
(* creation, and only a provider account still without an identity gains   *)
(* one.                                                                    *)
AccountsStand ==
  [][\A e \in Emails : Registered(e) =>
       /\ org'[e] = org[e] /\ provider'[e] = provider[e]
       /\ rank'[e] = rank[e] /\ seat'[e] = seat[e]
       /\ identity'[e] # identity[e] =>
            identity[e] = None /\ provider[e] # "password"]_directoryVars

(* An organisation is created with its owner, and whoever joins it by      *)
(* default or by invitation does not become another one.                   *)
OneFounder ==
  \A o \in Orgs : Founded(o) =>
    \E e \in Emails : \A u \in Emails :
      u = e <=> org[u] = o /\ rank[u] = "owner"

(* An email outside the allowed domains has an account only by invitation, *)
(* whichever of sign-up and provider sign-in was tried.                    *)
OutsidersAreInvited ==
  \A e \in Emails \ (Allowed \cup {HomeFounder}) : Registered(e) => seat[e] # None

(* Who is in an organisation came in by its founding, by a domain that is  *)
(* allowed or by one invitation, whatever sign-ups, sign-ins and           *)
(* invitations raced.                                                      *)
SeatsAreRight == AcceptedMeansSeated /\ OneFounder /\ OutsidersAreInvited
=============================================================================
