--------------------------- MODULE SessionLedger ---------------------------
(***************************************************************************)
(* What the auth module promises of logins, with no table and no race: a   *)
(* login is opened with a credential, hands it over to one never used      *)
(* before, and is closed for good.  A login is named by its first          *)
(* credential.                                                             *)
(***************************************************************************)
CONSTANTS Credentials, None

VARIABLES holder,  \* the credential that now carries each login, or None
          spent    \* credentials that will never carry one again

Held == {holder[f] : f \in Credentials} \ {None}

Init ==
  /\ holder = [f \in Credentials |-> None]
  /\ spent = {}

Open(f) ==
  /\ f \notin Held \cup spent
  /\ holder[f] = None
  /\ holder' = [holder EXCEPT ![f] = f]
  /\ UNCHANGED spent

HandOver(f, n) ==
  /\ holder[f] # None
  /\ n \in Credentials \ (Held \cup spent)
  /\ holder' = [holder EXCEPT ![f] = n]
  /\ spent' = spent \cup {holder[f]}

Close(F) ==
  /\ \A f \in F : holder[f] # None
  /\ holder' = [f \in Credentials |-> IF f \in F THEN None ELSE holder[f]]
  /\ spent' = spent \cup {holder[f] : f \in F}

Next ==
  \/ \E f \in Credentials : Open(f) \/ \E n \in Credentials : HandOver(f, n)
  \/ \E F \in SUBSET Credentials : Close(F)

Spec == Init /\ [][Next]_<<holder, spent>>
=============================================================================
