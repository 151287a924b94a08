------------------------------- MODULE Tasks -------------------------------
(***************************************************************************)
(* The two kinds of work on a deal: the actions of the dashboard           *)
(* (internal/followups) and the checklist of a card (internal/dealtasks).  *)
(* A request checks what its form refers to, one query after the other,    *)
(* and then writes; what it refers to may change between two queries.      *)
(*                                                                         *)
(* Clients, leads and deals are retired and never removed, so the foreign  *)
(* keys of the two tables always hold.  Due dates, titles, priorities and  *)
(* positions are left out.                                                 *)
(***************************************************************************)
EXTENDS Naturals, Sequences

CONSTANTS Clients, Prospects, Cards,  \* what an action may refer to
          Staff,                      \* people with a profile
          Actions, Items,             \* ids of actions and of checklist items
          Forms, ItemForms,           \* what is sent
          Senders,                    \* the requests
          Nil

Statuses == {"open", "in_progress", "done"}
ItemRows == [card : Cards, who : Staff \cup {Nil}, done : BOOLEAN, closer : Staff \cup {Nil}]

ASSUME TasksAssumption ==
  /\ Forms \subseteq [client : Clients \cup {Nil}, lead : Prospects \cup {Nil},
                      card : Cards \cup {Nil}, who : Staff \cup {Nil}, status : Statuses]
  /\ ItemForms \subseteq [client : {Nil}, lead : {Nil}, card : Cards,
                          who : Staff \cup {Nil}, done : BOOLEAN]
  /\ Nil \notin Clients \cup Prospects \cup Cards \cup Staff \cup ItemRows

VARIABLES
  alive,     \* the clients, leads and deals that are not deleted
  home,      \* the client each lead belongs to, or Nil
  members,   \* who is in the organisation
  action,    \* the actions, Nil for no row
  item,      \* the checklist items, Nil for no row
  request,   \* the requests
  unsure,    \* history: the actions that refer to something that has changed
             \* since the request that wrote them came in
  ticked     \* history: who turned each done item from open to done

taskVars == <<alive, home, members, action, item, request, unsure, ticked>>

NoRequest == [kind |-> "none", at |-> 0, id |-> Nil, by |-> Nil, form |-> Nil, shaken |-> FALSE]

(* An item that 000016 carried over from the notes of a deal: it is done,  *)
(* and nobody knows by whom.                                               *)
Legacy(d) == [card |-> d, who |-> Nil, done |-> TRUE, closer |-> Nil]

TasksInit ==
  /\ alive = Clients \cup Prospects \cup Cards
  /\ home \in [Prospects -> Clients \cup {Nil}]
  /\ members = Staff
  /\ action = [i \in Actions |-> Nil]
  /\ item \in [Items -> {Nil} \cup {Legacy(d) : d \in Cards}]
  /\ request = [r \in Senders |-> NoRequest]
  /\ unsure = {}
  /\ ticked = [k \in Items |-> Nil]

-----------------------------------------------------------------------------
(* What forms refer to changes at any time.                                *)
RefersTo(form, x) ==
  x \in {form.client, form.lead, form.card, form.who}

Shake(x) ==
  /\ request' = [r \in Senders |->
       IF request[r].kind \in {"file", "edit"} /\ RefersTo(request[r].form, x)
         THEN [request[r] EXCEPT !.shaken = TRUE] ELSE request[r]]
  /\ unsure' = unsure \cup {i \in Actions : action[i] # Nil /\ RefersTo(action[i], x)}

RetireReferent(x) ==
  /\ x \in alive
  /\ alive' = alive \ {x}
  /\ Shake(x)
  /\ UNCHANGED <<home, members, action, item, ticked>>

RehomeLead(l, c) ==
  /\ l \in alive /\ home[l] # c
  /\ home' = [home EXCEPT ![l] = c]
  /\ Shake(l)
  /\ UNCHANGED <<alive, members, action, item, ticked>>

LeaveOrg(p) ==
  /\ p \in members
  /\ members' = members \ {p}
  /\ Shake(p)
  /\ UNCHANGED <<alive, home, action, item, ticked>>

-----------------------------------------------------------------------------
(* A request comes in: file or edit an action, add or edit an item.  An    *)
(* item's form names the assignee, and whether the item is done; who edits *)
(* it is written down.                                                     *)
BeginRequest(r, kind, id, by, form) ==
  /\ request[r] = NoRequest
  /\ request' = [request EXCEPT ![r] =
       [kind |-> kind, at |-> 1, id |-> id, by |-> by, form |-> form, shaken |-> FALSE]]
  /\ UNCHANGED <<alive, home, members, action, item, unsure, ticked>>

(* What prepare looks up, in this order: whatever the form names.  Adding  *)
(* an item asks for its card, and an edit never moves it.                  *)
LookUps(kind) ==
  CASE kind \in {"file", "edit"} -> <<"client", "lead", "card", "who">>
    [] kind = "add"  -> <<"card", "who">>
    [] kind = "tick" -> <<"who">>

Agree_Any(form) == TRUE  \* mutation: a lead of another client is taken

(* leadAccount: a lead sits with at most one client.                       *)
Agree(form) == Nil \in {form.client, home[form.lead]} \/ home[form.lead] = form.client

(* The look-up of what the form of r calls k finds it.  A field that is    *)
(* left blank is not looked up.                                            *)
Finds(r, k) ==
  LET form == request[r].form IN
  \/ k = "client" /\ form.client \in alive \cup {Nil}
  \/ k = "lead" /\ (form.lead = Nil \/ (form.lead \in alive /\ Agree(form)))
  \/ k = "card" /\ form.card \in alive \cup {Nil}
  \/ k = "who" /\ form.who \in members \cup {Nil}

Done(r) == request' = [request EXCEPT ![r] = NoRequest]

LookUpNext(r) ==
  LET me == request[r]
      ks == LookUps(me.kind)
  IN
  /\ me # NoRequest /\ me.at <= Len(ks)
  /\ \/ Finds(r, ks[me.at]) /\ request' = [request EXCEPT ![r] = [me EXCEPT !.at = me.at + 1]]
     \/ ~ Finds(r, ks[me.at]) /\ Done(r)
  /\ UNCHANGED <<alive, home, members, action, item, unsure, ticked>>

Checked(r, kind) ==
  request[r].kind = kind /\ request[r].at > Len(LookUps(kind))

NoteUnsure(r) ==
  unsure' = IF request[r].shaken THEN unsure \cup {request[r].id} ELSE unsure \ {request[r].id}

Row(form, status) ==
  [client |-> form.client, lead |-> form.lead, card |-> form.card, who |-> form.who,
   status |-> status, stamped |-> status = "done"]

(* followups.create: an action starts open, whatever the form says.        *)
FileAction(r) ==
  LET me == request[r] IN
  /\ Checked(r, "file") /\ action[me.id] = Nil
  /\ action' = [action EXCEPT ![me.id] = Row(me.form, "open")]
  /\ NoteUnsure(r)
  /\ Done(r)
  /\ UNCHANGED <<alive, home, members, item, ticked>>

(* followups.update: every field; done keeps the time it was done at.      *)
EditAction(r) ==
  LET me == request[r] IN
  /\ Checked(r, "edit") /\ action[me.id] # Nil
  /\ action' = [action EXCEPT ![me.id] = Row(me.form, me.form.status)]
  /\ NoteUnsure(r)
  /\ Done(r)
  /\ UNCHANGED <<alive, home, members, item, ticked>>

(* An update of a row that is not there answers not found.                 *)
NotFound(r) ==
  /\ \/ Checked(r, "edit") /\ action[request[r].id] = Nil
     \/ Checked(r, "tick") /\ item[request[r].id] = Nil
  /\ Done(r)
  /\ UNCHANGED <<alive, home, members, action, item, unsure, ticked>>

Completed_Unstamped(row) == [row EXCEPT !.status = "done"]  \* mutation: the time is forgotten

Completed(row) == [row EXCEPT !.status = "done", !.stamped = TRUE]

(* followups.complete and delete check nothing first.                      *)
CompleteAction(i) ==
  /\ action[i] # Nil
  /\ action' = [action EXCEPT ![i] = Completed(@)]
  /\ UNCHANGED <<alive, home, members, item, request, unsure, ticked>>

DeleteAction(i) ==
  /\ action[i] # Nil
  /\ action' = [action EXCEPT ![i] = Nil]
  /\ unsure' = unsure \ {i}
  /\ UNCHANGED <<alive, home, members, item, request, ticked>>

-----------------------------------------------------------------------------
(* dealtasks.create: a new item starts open.                               *)
AddItem(r) ==
  LET me == request[r] IN
  /\ Checked(r, "add") /\ item[me.id] = Nil
  /\ item' = [item EXCEPT ![me.id] =
                [card |-> me.form.card, who |-> me.form.who, done |-> FALSE, closer |-> Nil]]
  /\ Done(r)
  /\ UNCHANGED <<alive, home, members, action, unsure, ticked>>

Closer_Last(old, form, by) == IF form.done THEN by ELSE Nil  \* mutation: whoever saves is credited

(* Ticking stamps who did it, un-ticking clears it, and an item that was   *)
(* done stays that of whoever did it - if that was written down.           *)
Closer(old, form, by) == IF ~ form.done THEN Nil ELSE IF old = Nil THEN by ELSE old

(* dealtasks.update: one UPDATE, of the row as it is by then.              *)
EditItem(r) ==
  LET me  == request[r]
      old == item[me.id]
  IN
  /\ Checked(r, "tick") /\ old # Nil
  /\ item' = [item EXCEPT ![me.id] =
       [old EXCEPT !.who = me.form.who, !.done = me.form.done,
                   !.closer = Closer(old.closer, me.form, me.by)]]
  /\ ticked' = [ticked EXCEPT ![me.id] =
       IF ~ me.form.done THEN Nil ELSE IF old.done THEN @ ELSE me.by]
  /\ Done(r)
  /\ UNCHANGED <<alive, home, members, action, unsure>>

DeleteItem(k) ==
  /\ item[k] # Nil
  /\ item' = [item EXCEPT ![k] = Nil]
  /\ ticked' = [ticked EXCEPT ![k] = Nil]
  /\ UNCHANGED <<alive, home, members, action, request, unsure>>

TasksNext ==
  \/ \E x \in Clients \cup Prospects \cup Cards : RetireReferent(x)
  \/ \E l \in Prospects, c \in Clients \cup {Nil} : RehomeLead(l, c)
  \/ \E p \in Staff : LeaveOrg(p)
  \/ \E r \in Senders :
       \/ \E i \in Actions, form \in Forms, kind \in {"file", "edit"} : BeginRequest(r, kind, i, Nil, form)
       \/ \E k \in Items, form \in ItemForms : \/ BeginRequest(r, "add", k, Nil, form)
                                              \/ \E p \in members : BeginRequest(r, "tick", k, p, form)
  \/ \E r \in Senders : \/ LookUpNext(r) \/ FileAction(r) \/ EditAction(r) \/ NotFound(r)
                         \/ AddItem(r) \/ EditItem(r)
  \/ \E i \in Actions : CompleteAction(i) \/ DeleteAction(i)
  \/ \E k \in Items : DeleteItem(k)

TasksSpec == TasksInit /\ [][TasksNext]_taskVars

-----------------------------------------------------------------------------
(* followups.list.  A filter is a record of what is asked for, Nil for no  *)
(* opinion; the eighth argument of the query is the lead, and the query    *)
(* compares it with the deal as well.  The deal of the filter is not sent. *)
Wanted(f, row) ==
  /\ f.client \in {Nil, row.client}
  /\ f.status \in {Nil, row.status}
  /\ f.who \in {Nil, row.who}
  /\ f.open => row.status # "done"
  /\ f.lead \in {Nil, row.card}
  /\ f.lead \in {Nil, row.lead}

listActions(f) == {i \in Actions : action[i] # Nil /\ Wanted(f, action[i])}

(* dealtasks.list: the items of live deals.                                *)
listItems == {k \in Items : item[k] # Nil /\ item[k].card \in alive}

-----------------------------------------------------------------------------
(* The types; an action is stamped with a time exactly while it is done,   *)
(* whichever of the three statements made it so.                           *)
TasksTypeOK ==
  \A i \in Actions : action[i] # Nil =>
    /\ action[i].status \in Statuses
    /\ action[i].stamped <=> action[i].status = "done"
    /\ action[i].client \in Clients \cup {Nil} /\ action[i].lead \in Prospects \cup {Nil}
    /\ action[i].card \in Cards \cup {Nil} /\ action[i].who \in Staff \cup {Nil}

(* An action is filed under the client its lead belongs to, and refers to  *)
(* nothing that is gone (ErrLeadAccountMismatch: "it would file the action *)
(* under the wrong client") - unless one of these has changed since the    *)
(* request came in, which nothing looks at again.                          *)
ActionsAgreeWithTheirLeads ==
  \A i \in Actions : LET row == action[i] IN
    row # Nil /\ i \notin unsure =>
      /\ {row.client, row.lead, row.card} \subseteq alive \cup {Nil}
      /\ row.who \in members \cup {Nil}
      /\ row.lead # Nil => Nil \in {row.client, home[row.lead]} \/ home[row.lead] = row.client

(* "who closed this off ... cannot be quietly rewritten" (dealtasks): the  *)
(* name on a done item is that of whoever turned it done, however many     *)
(* people save the card after that.  An item that came in done from the    *)
(* notes of a deal has no such name, and takes that of the next editor.    *)
CloserIsWhoTicked ==
  \A k \in Items : item[k] # Nil =>
    /\ ~ item[k].done => item[k].closer = Nil
    /\ ticked[k] # Nil => item[k].done /\ item[k].closer = ticked[k]

(* "every field is optional (a zero value means "no opinion")"             *)
(* (followups.Filter): asking for the actions of a lead lists them.        *)
LeadFilterLists ==
  \A l \in Prospects :
    listActions([client |-> Nil, status |-> Nil, who |-> Nil, open |-> FALSE, lead |-> l])
      = {i \in Actions : action[i] # Nil /\ action[i].lead = l}

(* An action is about a lead and a client that belong together, and an     *)
(* item was closed by whom it names, whatever changed under the forms.     *)
TasksAgree == ActionsAgreeWithTheirLeads /\ CloserIsWhoTicked
=============================================================================
