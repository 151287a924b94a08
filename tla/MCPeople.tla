------------------------------ MODULE MCPeople ------------------------------
(* Instances for TLC of what concerns the people of an organisation: who   *)
(* belongs to it (Directory), their roles (Roles), what they are told      *)
(* (Notices) and their calendars (Calendar).  These share no variable and  *)
(* each property reads one of them, so a behaviour takes the steps of one. *)
EXTENDS Roles, Directory, Notices, Calendar, TLC

CONSTANTS ann, bob, eve, annMail, bobMail, eveMail, acme, home, lead, won, r1, r2, t1, t2

VARIABLE focus
mcVars == <<vars, directoryVars, noticeVars, calendarVars, focus>>

(* bob and eve stand for two of anything but emails: members, invitations, *)
(* consents; r1 and r2 for two requests of any kind; t1 and t2 for two     *)
(* tabs of ann's.                                                          *)
MCSymmetry == Permutations({r1, r2}) \cup Permutations({bob, eve}) \cup Permutations({t1, t2})
MCViewer   == t1 :> ann @@ t2 :> ann

MCInit ==
  /\ focus \in {"roles", "directory", "notices", "calendar"}
  /\ Init /\ DirectoryInit /\ NoticesInit /\ CalendarInit
  /\ focus # "directory" => default = None /\ provider[HomeFounder] = "password"

MCNext ==
  /\ UNCHANGED focus
  /\ \/ focus = "roles" /\ Next /\ UNCHANGED <<directoryVars, noticeVars, calendarVars>>
     \/ focus = "directory" /\ DirectoryNext /\ UNCHANGED <<vars, noticeVars, calendarVars>>
     \/ focus = "notices" /\ NoticesNext /\ UNCHANGED <<vars, directoryVars, calendarVars>>
     \/ focus = "calendar" /\ CalendarNext /\ UNCHANGED <<vars, directoryVars, noticeVars>>

MCSpec == MCInit /\ [][MCNext]_mcVars

(* Streams watch the moves of others to one column, while nobody leaves;   *)
(* at most one colleague leaves.                                          *)
MCBound ==
  /\ (\E s \in Streams : stream[s].up) =>
       /\ colleague = People
       /\ \A m \in Moves : move[m].pc # "new" => move[m].by # ann /\ move[m].to = won
  /\ Cardinality(People \ colleague) <= 1

(* The types of the four (Roles, Directory, Notices, Calendar).            *)
MCTypeOK == TypeOK /\ DirectoryTypeOK /\ NoticesTypeOK /\ CalendarTypeOK
=============================================================================
