------------------------------ MODULE Calendar ------------------------------
(***************************************************************************)
(* A user's connection to Google and the calls booked through it           *)
(* (internal/integrations).  Connecting goes through Google's consent      *)
(* screen and comes back as a callback; booking reads the stored tokens,   *)
(* renews the access token when it has expired, stores the new one, books  *)
(* the event and writes it down, each a statement or a call of its own.    *)
(*                                                                         *)
(* There is one user and one browser.  A grant is what one consent gives:  *)
(* a refresh token, and access tokens <<grant, n>>.  Google keeps older    *)
(* grants when a new one is made, and disconnecting does not revoke one.   *)
(***************************************************************************)
EXTENDS Naturals

CONSTANTS Consents,   \* the attempts to connect, and the grants they give
          Profiles,   \* the Google accounts the user has
          Bookings,   \* the requests that book a call
          Renewals,   \* how often an access token is renewed
          Void

ASSUME CalendarAssumption == Renewals \in Nat /\ Void \notin Profiles \cup Consents

VARIABLES
  conn,    \* the row of integration_connections, or Void
  cookie,  \* the nonce in the browser: the attempt that was begun last
  consent, \* the attempts to connect
  minted,  \* Google: the access tokens issued under each grant
  expired, \* the access tokens that are too old
  booking, \* the requests that book a call
  events,  \* Google: the events, [by, in], by booking and account
  noted,   \* the bookings in calendar_events
  crossed, \* history: a renewed token was stored over another grant's
  unnamed  \* history: the account of the stored grant could not be looked up

calendarVars == <<conn, cookie, consent, minted, expired, booking, events, noted, crossed, unnamed>>

Unasked  == [pc |-> "new", profile |-> Void, renews |-> FALSE]
NoCall   == [pc |-> "new", refresh |-> Void, access |-> Void, seen |-> {}]

CalendarInit ==
  /\ conn = Void /\ cookie = Void
  /\ consent = [g \in Consents |-> Unasked]
  /\ minted = [g \in Consents |-> 0]
  /\ expired = {}
  /\ booking = [b \in Bookings |-> NoCall]
  /\ events = {} /\ noted = {}
  /\ crossed = FALSE /\ unnamed = FALSE

Connected    == conn # Void
OwnerOf(g)   == consent[g].profile
GrantOf(access) == access[1]

(* The bookings under way learn which account is connected now.            *)
Witness(profile) ==
  [b \in Bookings |-> IF booking[b].pc \in {"new", "over"} THEN booking[b]
                      ELSE [booking[b] EXCEPT !.seen = @ \cup {profile}]]

-----------------------------------------------------------------------------
(* googleConnect: a nonce in the state and in the cookie.                  *)
googleConnect(g) ==
  /\ consent[g].pc = "new"
  /\ consent' = [consent EXCEPT ![g].pc = "asked"]
  /\ cookie' = g
  /\ UNCHANGED <<conn, minted, expired, booking, events, noted, crossed, unnamed>>

(* Google: the user picks an account, or cancels.                          *)
AskGoogle(g) ==
  /\ consent[g].pc = "asked"
  /\ \/ \E p \in Profiles, renews \in BOOLEAN :
          consent' = [consent EXCEPT ![g] = [pc |-> "agreed", profile |-> p, renews |-> renews]]
     \/ consent' = [consent EXCEPT ![g].pc = "over"]
  /\ UNCHANGED <<conn, cookie, minted, expired, booking, events, noted, crossed, unnamed>>

(* googleCallback: the state must be in time and match the cookie, which   *)
(* is used up; then the code is exchanged.  Without a refresh token the    *)
(* connection is refused (CompleteGoogle).                                 *)
Accepts_Anything(g) == TRUE  \* mutation: a connection without a refresh token is taken

Accepts(g) == consent[g].renews

googleCallback(g) ==
  /\ consent[g].pc = "agreed"
  /\ \/ /\ cookie = g /\ Accepts(g)
        /\ consent' = [consent EXCEPT ![g].pc = "save"]
        /\ minted' = [minted EXCEPT ![g] = 1]
     \/ consent' = [consent EXCEPT ![g].pc = "over"] /\ UNCHANGED minted
  /\ cookie' = IF cookie = g THEN Void ELSE cookie
  /\ UNCHANGED <<conn, expired, booking, events, noted, crossed, unnamed>>

Refresh(g) == IF consent[g].renews THEN g ELSE Void

Saved_Kept(g, label) ==  \* mutation: the stored refresh token wins
  [access |-> <<g, 1>>,
   refresh |-> IF Connected THEN conn.refresh ELSE Refresh(g),
   label |-> IF label = Void /\ Connected THEN conn.label ELSE label]

Saved_Access(g, label) ==  \* mutation: the stored access token wins
  [access |-> IF Connected THEN conn.access ELSE <<g, 1>>,
   refresh |-> Refresh(g),
   label |-> IF label = Void /\ Connected THEN conn.label ELSE label]

Saved_Label(g, label) ==  \* mutation: the stored account wins
  [access |-> <<g, 1>>,
   refresh |-> IF Refresh(g) = Void /\ Connected THEN conn.refresh ELSE Refresh(g),
   label |-> IF Connected /\ conn.label # Void THEN conn.label ELSE label]

(* What save stores: an empty refresh token or account leaves the old one. *)
Saved(g, label) ==
  [access |-> <<g, 1>>,
   refresh |-> IF Refresh(g) = Void /\ Connected THEN conn.refresh ELSE Refresh(g),
   label |-> IF label = Void /\ Connected THEN conn.label ELSE label]

(* The account is looked up, which may fail without a word, and saved.     *)
SaveConnection(g) ==
  /\ consent[g].pc = "save"
  /\ \E label \in {OwnerOf(g), Void} :
       /\ conn' = Saved(g, label)
       /\ unnamed' = (label = Void)
  /\ consent' = [consent EXCEPT ![g].pc = "over"]
  /\ booking' = Witness(OwnerOf(g))
  /\ crossed' = FALSE
  /\ UNCHANGED <<cookie, minted, expired, events, noted>>

googleDisconnect ==
  /\ Connected
  /\ conn' = Void
  /\ crossed' = FALSE /\ unnamed' = FALSE
  /\ UNCHANGED <<cookie, consent, minted, expired, booking, events, noted>>

ExpireAccess(g) ==
  /\ \E n \in 1 .. minted[g] : <<g, n>> \notin expired
  /\ expired' = expired \cup {<<g, n>> : n \in 1 .. minted[g]}
  /\ UNCHANGED <<conn, cookie, consent, minted, booking, events, noted, crossed, unnamed>>

-----------------------------------------------------------------------------
(* BookCall: the stored token ...                                          *)
ReadToken(b) ==
  /\ booking[b].pc = "new" /\ Connected
  /\ booking' = [booking EXCEPT ![b] =
       [pc |-> IF conn.access \in expired THEN "renew" ELSE "book",
        refresh |-> conn.refresh, access |-> conn.access,
        seen |-> {OwnerOf(conn.refresh)} \cup IF crossed THEN {OwnerOf(GrantOf(conn.access))} ELSE {}]]
  /\ UNCHANGED <<conn, cookie, consent, minted, expired, events, noted, crossed, unnamed>>

(* ... is renewed under its grant when it has expired, or that fails ...   *)
RenewToken(b) ==
  LET g == booking[b].refresh IN
  /\ booking[b].pc = "renew"
  /\ \/ /\ minted[g] < Renewals
        /\ minted' = [minted EXCEPT ![g] = @ + 1]
        /\ booking' = [booking EXCEPT ![b].access = <<g, minted[g] + 1>>, ![b].pc = "store"]
     \/ booking' = [booking EXCEPT ![b].pc = "over"] /\ UNCHANGED minted
  /\ UNCHANGED <<conn, cookie, consent, expired, events, noted, crossed, unnamed>>

Refreshed_Upsert(b) ==  \* mutation: the row is made when it is not there
  IF Connected THEN [conn EXCEPT !.access = booking[b].access]
  ELSE [access |-> booking[b].access, refresh |-> booking[b].refresh, label |-> Void]

Refreshed(b) == IF Connected THEN [conn EXCEPT !.access = booking[b].access] ELSE Void

(* ... and stored over what is there by then, unless the statement fails.  *)
refreshed(b) ==
  /\ booking[b].pc = "store"
  /\ \/ /\ conn' = Refreshed(b)
        /\ crossed' = (Connected /\ conn.refresh # booking[b].refresh)
     \/ UNCHANGED <<conn, crossed>>
  /\ booking' = [booking EXCEPT ![b].pc = "book"]
  /\ UNCHANGED <<cookie, consent, minted, expired, events, noted, unnamed>>

(* The event goes to the calendar of whoever the access token is for.      *)
CreateEvent(b) ==
  /\ booking[b].pc = "book"
  /\ \/ /\ events' = events \cup {[by |-> b, in |-> OwnerOf(GrantOf(booking[b].access))]}
        /\ booking' = [booking EXCEPT ![b].pc = "note"]
     \/ booking' = [booking EXCEPT ![b].pc = "over"] /\ UNCHANGED events
  /\ UNCHANGED <<conn, cookie, consent, minted, expired, noted, crossed, unnamed>>

(* saveCalendarEvent, whose failure is logged: the call is booked.         *)
saveCalendarEvent(b) ==
  /\ booking[b].pc = "note"
  /\ noted' \in {noted, noted \cup {b}}
  /\ booking' = [booking EXCEPT ![b].pc = "over"]
  /\ UNCHANGED <<conn, cookie, consent, minted, expired, events, crossed, unnamed>>

CalendarNext ==
  \/ \E g \in Consents : \/ googleConnect(g) \/ AskGoogle(g) \/ googleCallback(g)
                         \/ SaveConnection(g) \/ ExpireAccess(g)
  \/ googleDisconnect
  \/ \E b \in Bookings : \/ ReadToken(b) \/ RenewToken(b) \/ refreshed(b)
                         \/ CreateEvent(b) \/ saveCalendarEvent(b)

CalendarSpec == CalendarInit /\ [][CalendarNext]_calendarVars

-----------------------------------------------------------------------------
(* The types; a stored connection can be renewed ("Without one the         *)
(* connection dies in an hour", CompleteGoogle), and what is written down  *)
(* is in Google's calendar.                                                *)
CalendarTypeOK ==
  /\ Connected => /\ conn.refresh \in Consents /\ GrantOf(conn.access) \in Consents
                  /\ conn.label \in Profiles \cup {Void}
                  /\ conn.access[2] <= minted[GrantOf(conn.access)]
  /\ \A b \in noted : \E e \in events : e.by = b

(* The two tokens of a connection come from one consent, unless a booking  *)
(* renewed the older one while the user reconnected and stored it last     *)
(* (refreshed does not look at what it writes over).                       *)
TokensArePaired == Connected /\ ~ crossed => conn.refresh = GrantOf(conn.access)

(* A call is booked in a calendar that was connected while it was being    *)
(* booked, even when the user reconnects or disconnects meanwhile.         *)
BookedWhereConnected ==
  \A e \in events : e.in \in booking[e.by].seen

(* The account the user is shown is the one calls are booked in, unless    *)
(* looking it up failed when they connected: the old one stays on display. *)
ShownIsConnected ==
  Connected /\ ~ unnamed /\ ~ crossed => conn.label = OwnerOf(GrantOf(conn.access))

(* A user who disconnects stays disconnected until they consent again: a   *)
(* booking that is under way does not bring the connection back.           *)
DisconnectStands ==
  [][~ Connected /\ conn' # Void => \E g \in Consents : consent[g].pc = "save" /\ consent'[g].pc = "over"]_calendarVars

(* Tokens, display and calls are of one account, through reconnects,       *)
(* disconnects and renewals that cross.                                    *)
ConnectionIsOne == TokensArePaired /\ ShownIsConnected /\ BookedWhereConnected
=============================================================================
