------------------------------ MODULE MCLeads ------------------------------
(* Instances for TLC of the customers' side: leads and their conversion    *)
(* (Leads), companies and what is filed under them (Companies), the work   *)
(* planned (Tasks), what is written on their timelines (Timeline), and the *)
(* pool of connections, which a conversion may take two of (ConnPool).     *)
(* These share no variable and each property reads one of them, so a       *)
(* behaviour takes the steps of one.                                       *)
EXTENDS Leads, Companies, Tasks, Timeline, ConnPool, TLC

CONSTANTS l1, d1, d2, p1, p2, n1, n2, acme, bolt, ann, bob, act, box,
          aContact, aDeal, anInvoice

VARIABLE focus
mcVars == <<vars, companyVars, taskVars, timelineVars, poolVars, focus>>

(* d1 and d2 are two deals, or two companies; p1 and p2 two requests of    *)
(* any kind; n1 and n2 two names.                                          *)
MCSymmetry == Permutations({d1, d2}) \cup Permutations({p1, p2}) \cup Permutations({n1, n2})

MCTable == aContact :> "contacts" @@ aDeal :> "deals" @@ anInvoice :> "invoices"

(* What is sent for an action, and for an item of a checklist.             *)
MCForm(c, l, d, w, s) == [client |-> c, lead |-> l, card |-> d, who |-> w, status |-> s]
MCForms ==
  {MCForm(acme, l1, Nil, Nil, "open"), MCForm(Nil, l1, box, ann, "done"), MCForm(bolt, Nil, Nil, ann, "in_progress")}
MCItemForms ==
  {[client |-> Nil, lead |-> Nil, card |-> box, who |-> w, done |-> b] : w \in {Nil, ann}, b \in BOOLEAN}

(* One uuid is of a lead, a deal and a contact.  A conversion names three  *)
(* records, and one of the entries the app makes names a lead that is not  *)
(* there any more.                                                         *)
MCInTable == {<<"lead", "u">>, <<"deal", "u">>, <<"contact", "u">>, <<"company", "v">>}
MCNamed(f) == [t \in Subjects |-> IF t \in DOMAIN f THEN f[t] ELSE Nil]
MCNaming ==
  {MCNamed("lead" :> "u" @@ "deal" :> "u" @@ "company" :> "v"), MCNamed("deal" :> "u"),
   MCNamed("company" :> "v" @@ "contact" :> "u"), MCNamed("lead" :> "v"), MCNamed("quote" :> "u")}

MCInit ==
  /\ focus \in {"leads", "companies", "tasks", "timeline", "pool"}
  /\ Init /\ CompaniesInit /\ TasksInit /\ TimelineInit /\ PoolInit
  /\ focus # "tasks" => \A l \in Prospects : home[l] = Nil
  /\ focus # "tasks" => \A k \in Items : item[k] = Nil

MCNext ==
  /\ UNCHANGED focus
  /\ \/ focus = "leads" /\ Next /\ UNCHANGED <<companyVars, taskVars, timelineVars, poolVars>>
     \/ focus = "companies" /\ CompaniesNext /\ UNCHANGED <<vars, taskVars, timelineVars, poolVars>>
     \/ focus = "tasks" /\ TasksNext /\ UNCHANGED <<vars, companyVars, timelineVars, poolVars>>
     \/ focus = "timeline" /\ TimelineNext /\ UNCHANGED <<vars, companyVars, taskVars, poolVars>>
     \/ focus = "pool" /\ PoolNext /\ UNCHANGED <<vars, companyVars, taskVars, timelineVars>>

MCSpec == MCInit /\ [][MCNext]_mcVars

(* One thing is retired or one person leaves, and nothing while two        *)
(* actions are written at once; actions and items are not worked on at     *)
(* once: what is checked of them has nothing in common.                    *)
MCTasksBound ==
  LET gone == Cardinality((Clients \cup Prospects \cup Cards) \ alive) + Cardinality(Staff \ members)
  IN
  /\ gone <= 1
  /\ gone = 1 => \E r \in Senders : request[r].kind \notin {"file", "edit"}
  /\ \/ /\ \A i \in Actions : action[i] = Nil
        /\ \A r \in Senders : request[r].kind \notin {"file", "edit"}
     \/ /\ \A k \in Items : item[k] = Nil
        /\ \A r \in Senders : request[r].kind \notin {"add", "tick"}

(* Two records at a time; one, where companies are twins or two calls go   *)
(* on that are not a read and a deletion; profiles are saved where         *)
(* nothing is filed, and read where nothing is tracked and no twin is by   *)
(* chance; both companies are deleted only while nothing else goes on.     *)
MCCompaniesBound ==
  LET kinds == {call[c].kind : c \in Callers}
      filed == {r \in Records : rec[r].acct # Unset}
      gone  == {a \in Accounts : acct[a].dead}
  IN
  /\ Cardinality(filed) <= 2 /\ (twin # {} => Cardinality(filed) <= 1)
  /\ kinds = {"idle"} \/ Cardinality(gone) <= 1
  /\ kinds \cap {"idle", "read"} = {} => Cardinality(filed) <= 1
  /\ kinds \cap {"idle", "delete"} # {} \/ kinds \in {{"save"}, {"convert"}}
  /\ "save" \in kinds \/ (\E a \in Accounts : acct[a].profile # Unset) => filed = {}
  /\ "read" \in kinds => row = {} /\ late = {} /\ twin = {}

(* A lead is deleted while one call at most goes on.                       *)
MCLeadsBound ==
  \A l \in Leads : lead[l] = "deleted" => \E p \in Requests : At(p, "idle")

MCBound == MCTasksBound /\ MCCompaniesBound /\ MCLeadsBound

(* The types of the five (Leads, Companies, Tasks, Timeline, ConnPool).    *)
MCTypeOK == TypeOK /\ CompaniesTypeOK /\ TasksTypeOK /\ TimelineTypeOK /\ PoolTypeOK
=============================================================================
