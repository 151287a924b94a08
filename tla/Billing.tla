------------------------------ MODULE Billing ------------------------------
(***************************************************************************)
(* Quotes (internal/quotes), the invoices raised from them or written by   *)
(* hand, and their payments (internal/invoices).  A request is a process   *)
(* whose steps are the points where its transaction takes a row lock,      *)
(* reads a row it does not lock, or commits; what it writes in between     *)
(* shows at the commit.  A statement that needs a row another open         *)
(* transaction holds waits, and reads the row again once it is free.       *)
(***************************************************************************)
EXTENDS Lifecycle, Naturals, FiniteSets

CONSTANTS Quotes, Invoices,  \* ids; a deleted document's id is never reused
          Requests,          \* HTTP calls that may be in flight at once
          Orgs,
          Contents,          \* header and line items of a document
          Due,               \* the total recalculate derives from them
          Amounts,           \* what a receipt may be for
          PaidCap,           \* bound: the receipts of one invoice add up to at most this
          SeqCap,            \* bound: numbers handed out per organisation
          None

ASSUME BillingAssumption ==
  /\ Due \in [Contents -> Nat]
  /\ Amounts \subseteq Nat \ {0}
  /\ PaidCap \in Nat
  /\ SeqCap \in Nat
  /\ None \notin Quotes \cup Invoices \cup Contents \cup Orgs

VARIABLES
  quote,      \* quotes.status, "none" before and "gone" after the row exists
  quoted,     \* the content of each quote
  invoice,    \* invoices.status, likewise
  content,    \* the content of each invoice
  source,     \* invoices.quote_id
  number,     \* invoices.invoice_number: INV-0001 is 1
  issuer,     \* history: the organisation that raised the invoice
  billed,     \* history: the content an invoice was raised with
  paid,       \* the sum of its succeeded payments
  seq,        \* organizations.invoice_seq
  pc,         \* where each request is
  on,         \* the document it works on
  org,        \* the organisation whose number it has drawn
  draw,       \* that number
  from, to    \* the status change it has checked

quotes   == <<quote, quoted>>
invoices == <<invoice, content, source, number, issuer, billed>>
request  == <<pc, on, org, draw, from, to>>
vars     == <<quote, quoted, invoice, content, source, number, issuer, billed,
              paid, seq, pc, on, org, draw, from, to>>

NotARow == {"none", "gone"}
Points == {"idle", "edit_quote", "move_quote", "bill", "copy", "compose",
           "edit_invoice", "move_invoice", "pay", "conflict"}

Init ==
  /\ quote = [q \in Quotes |-> "none"]
  /\ quoted = [q \in Quotes |-> None]
  /\ invoice = [i \in Invoices |-> "none"]
  /\ content = [i \in Invoices |-> None]
  /\ source = [i \in Invoices |-> None]
  /\ number = [i \in Invoices |-> 0]
  /\ issuer = [i \in Invoices |-> None]
  /\ billed = [i \in Invoices |-> None]
  /\ paid = [i \in Invoices |-> 0]
  /\ seq = [o \in Orgs |-> 0]
  /\ pc = [p \in Requests |-> "idle"]
  /\ on = [p \in Requests |-> None]
  /\ org = [p \in Requests |-> None]
  /\ draw = [p \in Requests |-> 0]
  /\ from = [p \in Requests |-> "none"]
  /\ to = [p \in Requests |-> "none"]

(* Row locks: who holds the row of a document or of an organisation.       *)
LockedQuote_NotByEdits(q) ==  \* mutation: the edit checks the status without claiming the row
  \E r \in Requests : pc[r] \in {"bill", "copy"} /\ on[r] = q

LockedQuote(q) == \E r \in Requests : pc[r] \in {"edit_quote", "bill", "copy"} /\ on[r] = q

LockedInvoice_NotByPayments(i) ==  \* mutation: addPayment without FOR UPDATE
  \E r \in Requests : pc[r] = "edit_invoice" /\ on[r] = i

LockedInvoice(i) == \E r \in Requests : pc[r] \in {"edit_invoice", "pay"} /\ on[r] = i

LockedOrg(o) == \E r \in Requests : pc[r] \in {"copy", "compose"} /\ org[r] = o

Goto(p, point) == pc' = [pc EXCEPT ![p] = point]
Pick(p, d)     == on' = [on EXCEPT ![p] = d]

(* The answer goes out, or the transaction rolls back.                     *)
Finish(p) ==
  /\ Goto(p, "idle") /\ Pick(p, None)
  /\ org' = [org EXCEPT ![p] = None]
  /\ draw' = [draw EXCEPT ![p] = 0]
  /\ from' = [from EXCEPT ![p] = "none"]
  /\ to' = [to EXCEPT ![p] = "none"]

-----------------------------------------------------------------------------
(* Quotes.  create: one transaction that touches no existing row.          *)
CreateQuote(p) ==
  /\ pc[p] = "idle"
  /\ \E q \in Quotes, c \in Contents :
       /\ quote[q] = "none"
       /\ quote' = [quote EXCEPT ![q] = "draft"]
       /\ quoted' = [quoted EXCEPT ![q] = c]
  /\ UNCHANGED <<invoices, paid, seq, request>>

(* update claims the row and asserts in the same statement that it is a    *)
(* draft; a miss is answered ErrNotDraft and changes nothing.              *)
ClaimQuote(p) ==
  /\ pc[p] = "idle"
  /\ \E q \in Quotes : quote[q] = "draft" /\ ~LockedQuote(q) /\ Pick(p, q)
  /\ Goto(p, "edit_quote")
  /\ UNCHANGED <<quotes, invoices, paid, seq, org, draw, from, to>>

SaveQuote(p) ==
  /\ pc[p] = "edit_quote"
  /\ \E c \in Contents : quoted' = [quoted EXCEPT ![on[p]] = c]
  /\ Finish(p)
  /\ UNCHANGED <<quote, invoices, paid, seq>>

(* SetStatus reads the status with one statement, checks the transition,   *)
(* and writes with another that only fires while the status is unchanged.  *)
ReadQuote(p) ==
  /\ pc[p] = "idle"
  /\ \E q \in Quotes, s \in QuoteStatus :
       /\ <<quote[q], s>> \in QuoteMoves
       /\ Pick(p, q)
       /\ from' = [from EXCEPT ![p] = quote[q]]
       /\ to' = [to EXCEPT ![p] = s]
  /\ Goto(p, "move_quote")
  /\ UNCHANGED <<quotes, invoices, paid, seq, org, draw>>

MoveQuote_Stamps(p) ==  \* mutation: writes the old model's name of the status
  /\ pc[p] = "move_quote" /\ ~LockedQuote(on[p])
  /\ quote' = [quote EXCEPT ![on[p]] = IF @ = from[p] THEN "accepted" ELSE @]
  /\ Finish(p)
  /\ UNCHANGED <<quoted, invoices, paid, seq>>

MoveQuote(p) ==
  /\ pc[p] = "move_quote" /\ ~LockedQuote(on[p])
  /\ quote' = [quote EXCEPT ![on[p]] = IF @ = from[p] THEN to[p] ELSE @]
  /\ Finish(p)
  /\ UNCHANGED <<quoted, invoices, paid, seq>>

(* delete takes a draft that no invoice refers to (invoices.quote_id).     *)
DeleteQuote(p) ==
  /\ pc[p] = "idle"
  /\ \E q \in Quotes :
       /\ quote[q] = "draft" /\ ~LockedQuote(q)
       /\ \A i \in Invoices : invoice[i] \notin NotARow => source[i] # q
       /\ quote' = [quote EXCEPT ![q] = "gone"]
  /\ UNCHANGED <<quoted, invoices, paid, seq, request>>

-----------------------------------------------------------------------------
(* Invoices.  nextNumber bumps the counter of the caller's organisation    *)
(* and keeps that row locked to the end of the transaction.                *)
NextNumber_FromRows(p, o) ==  \* mutation: max(number) of the invoices still there, plus one
  LET rows == {number[i] : i \in {j \in Invoices : invoice[j] \notin NotARow /\ issuer[j] = o}}
      top  == IF rows = {} THEN 0 ELSE CHOOSE n \in rows : \A m \in rows : m <= n
  IN /\ ~LockedOrg(o) /\ top < SeqCap
     /\ org' = [org EXCEPT ![p] = o]
     /\ draw' = [draw EXCEPT ![p] = top + 1]

NextNumber(p, o) ==
  /\ ~LockedOrg(o) /\ seq[o] < SeqCap
  /\ org' = [org EXCEPT ![p] = o]
  /\ draw' = [draw EXCEPT ![p] = seq[o] + 1]

(* create: an invoice written by hand.                                     *)
ComposeInvoice(p) ==
  /\ pc[p] = "idle"
  /\ \E o \in Orgs : NextNumber(p, o)
  /\ Goto(p, "compose")
  /\ UNCHANGED <<quotes, invoices, paid, seq, on, from, to>>

(* fromQuote: lock the quote, see that it is approved, draw the number.    *)
BillQuote_Sent(p) ==  \* mutation: a quote that is out with the customer may be billed
  /\ pc[p] = "idle"
  /\ \E q \in Quotes : quote[q] \in {"sent", "approved"} /\ ~LockedQuote(q) /\ Pick(p, q)
  /\ Goto(p, "bill")
  /\ UNCHANGED <<quotes, invoices, paid, seq, org, draw, from, to>>

BillQuote(p) ==
  /\ pc[p] = "idle"
  /\ \E q \in Quotes : quote[q] = "approved" /\ ~LockedQuote(q) /\ Pick(p, q)
  /\ Goto(p, "bill")
  /\ UNCHANGED <<quotes, invoices, paid, seq, org, draw, from, to>>

NumberBill(p) ==
  /\ pc[p] = "bill"
  /\ \E o \in Orgs : NextNumber(p, o)
  /\ Goto(p, "copy")
  /\ UNCHANGED <<quotes, invoices, paid, seq, on, from, to>>

(* invoice_number is unique over the whole table.                          *)
NumberTaken(n) == \E i \in Invoices : invoice[i] \notin NotARow /\ number[i] = n

(* The insert, the lines and their total, and the commit that shows them   *)
(* together with the new counter.                                          *)
RaiseInvoice(p, i, c) ==
  /\ invoice[i] = "none"
  /\ ~NumberTaken(draw[p])
  /\ invoice' = [invoice EXCEPT ![i] = "draft"]
  /\ content' = [content EXCEPT ![i] = c]
  /\ billed' = [billed EXCEPT ![i] = c]
  /\ source' = [source EXCEPT ![i] = on[p]]
  /\ number' = [number EXCEPT ![i] = draw[p]]
  /\ issuer' = [issuer EXCEPT ![i] = org[p]]
  /\ seq' = [seq EXCEPT ![org[p]] = draw[p]]
  /\ Finish(p)
  /\ UNCHANGED <<quotes, paid>>

CreateInvoice(p) ==
  pc[p] = "compose" /\ \E i \in Invoices, c \in Contents : RaiseInvoice(p, i, c)

CopyQuote(p) ==
  pc[p] = "copy" /\ \E i \in Invoices : RaiseInvoice(p, i, quoted[on[p]])

(* A unique violation undoes the transaction, the counter included, and is *)
(* answered ErrQuoteNotInvoiceable (translate).                            *)
RefuseNumber(p) ==
  /\ pc[p] \in {"compose", "copy"}
  /\ NumberTaken(draw[p])
  /\ Goto(p, "conflict")
  /\ UNCHANGED <<quotes, invoices, paid, seq, on, org, draw, from, to>>

AnswerConflict(p) ==
  /\ pc[p] = "conflict"
  /\ Finish(p)
  /\ UNCHANGED <<quotes, invoices, paid, seq>>

ClaimInvoice(p) ==
  /\ pc[p] = "idle"
  /\ \E i \in Invoices : invoice[i] = "draft" /\ ~LockedInvoice(i) /\ Pick(p, i)
  /\ Goto(p, "edit_invoice")
  /\ UNCHANGED <<quotes, invoices, paid, seq, org, draw, from, to>>

SaveInvoice(p) ==
  /\ pc[p] = "edit_invoice"
  /\ \E c \in Contents : content' = [content EXCEPT ![on[p]] = c]
  /\ Finish(p)
  /\ UNCHANGED <<quotes, invoice, source, number, issuer, billed, paid, seq>>

ReadInvoice(p) ==
  /\ pc[p] = "idle"
  /\ \E i \in Invoices, s \in InvoiceStatus :
       /\ <<invoice[i], s>> \in InvoiceMoves
       /\ Pick(p, i)
       /\ from' = [from EXCEPT ![p] = invoice[i]]
       /\ to' = [to EXCEPT ![p] = s]
  /\ Goto(p, "move_invoice")
  /\ UNCHANGED <<quotes, invoices, paid, seq, org, draw>>

MoveInvoice_Unguarded(p) ==  \* mutation: no AND status = $2
  /\ pc[p] = "move_invoice" /\ ~LockedInvoice(on[p])
  /\ invoice' = [invoice EXCEPT ![on[p]] = IF @ = "gone" THEN @ ELSE to[p]]
  /\ Finish(p)
  /\ UNCHANGED <<quotes, content, source, number, issuer, billed, paid, seq>>

MoveInvoice(p) ==
  /\ pc[p] = "move_invoice" /\ ~LockedInvoice(on[p])
  /\ invoice' = [invoice EXCEPT ![on[p]] = IF @ = from[p] THEN to[p] ELSE @]
  /\ Finish(p)
  /\ UNCHANGED <<quotes, content, source, number, issuer, billed, paid, seq>>

(* delete: a draft without payments (payments.invoice_id has no cascade).  *)
DeleteInvoice(p) ==
  /\ pc[p] = "idle"
  /\ \E i \in Invoices :
       /\ invoice[i] = "draft" /\ ~LockedInvoice(i) /\ paid[i] = 0
       /\ invoice' = [invoice EXCEPT ![i] = "gone"]
  /\ UNCHANGED <<quotes, content, source, number, issuer, billed, paid, seq, request>>

(* addPayment: lock the invoice and see that it was issued and not voided; *)
(* then insert the receipt and settle what the receipts now cover.         *)
LockPayable(p) ==
  /\ pc[p] = "idle"
  /\ \E i \in Invoices : invoice[i] \in {"sent", "paid"} /\ ~LockedInvoice(i) /\ Pick(p, i)
  /\ Goto(p, "pay")
  /\ UNCHANGED <<quotes, invoices, paid, seq, org, draw, from, to>>

RecordPayment_ThisReceiptOnly(p) ==  \* mutation: compares the new receipt, not the sum
  /\ pc[p] = "pay"
  /\ \E a \in Amounts : LET i == on[p] IN
       /\ paid[i] + a <= PaidCap
       /\ paid' = [paid EXCEPT ![i] = @ + a]
       /\ invoice' = [invoice EXCEPT ![i] =
            IF @ = "sent" /\ a >= Due[content[i]] THEN "paid" ELSE @]
  /\ Finish(p)
  /\ UNCHANGED <<quotes, content, source, number, issuer, billed, seq>>

RecordPayment(p) ==
  /\ pc[p] = "pay"
  /\ \E a \in Amounts : LET i == on[p] IN
       /\ paid[i] + a <= PaidCap
       /\ paid' = [paid EXCEPT ![i] = @ + a]
       /\ invoice' = [invoice EXCEPT ![i] =
            IF @ = "sent" /\ paid[i] + a >= Due[content[i]] THEN "paid" ELSE @]
  /\ Finish(p)
  /\ UNCHANGED <<quotes, content, source, number, issuer, billed, seq>>

(* A statement fails, or the client goes away: nothing of the transaction  *)
(* stays.                                                                  *)
Fail(p) ==
  /\ pc[p] \notin {"idle", "conflict"}
  /\ Finish(p)
  /\ UNCHANGED <<quotes, invoices, paid, seq>>

QuoteStep(p) ==
  CreateQuote(p) \/ ClaimQuote(p) \/ SaveQuote(p) \/ ReadQuote(p) \/ MoveQuote(p) \/ DeleteQuote(p)
RaiseStep(p) ==
  \/ ComposeInvoice(p) \/ BillQuote(p) \/ NumberBill(p)
  \/ CreateInvoice(p) \/ CopyQuote(p) \/ RefuseNumber(p) \/ AnswerConflict(p)
InvoiceStep(p) ==
  \/ ClaimInvoice(p) \/ SaveInvoice(p) \/ ReadInvoice(p) \/ MoveInvoice(p) \/ DeleteInvoice(p)
  \/ LockPayable(p) \/ RecordPayment(p)

Next == \E p \in Requests : QuoteStep(p) \/ RaiseStep(p) \/ InvoiceStep(p) \/ Fail(p)

Spec == Init /\ [][Next]_vars
-----------------------------------------------------------------------------
(* Every column and every request holds a value of its kind.               *)
TypeOK ==
  /\ quote \in [Quotes -> QuoteStatus \cup NotARow]
  /\ quoted \in [Quotes -> Contents \cup {None}]
  /\ invoice \in [Invoices -> InvoiceStatus \cup NotARow]
  /\ content \in [Invoices -> Contents \cup {None}]
  /\ source \in [Invoices -> Quotes \cup {None}]
  /\ number \in [Invoices -> Nat]
  /\ issuer \in [Invoices -> Orgs \cup {None}]
  /\ billed \in [Invoices -> Contents \cup {None}]
  /\ paid \in [Invoices -> Nat]
  /\ seq \in [Orgs -> Nat]
  /\ pc \in [Requests -> Points]
  /\ on \in [Requests -> Quotes \cup Invoices \cup {None}]
  /\ org \in [Requests -> Orgs \cup {None}]
  /\ draw \in [Requests -> Nat]
  /\ from \in [Requests -> QuoteStatus \cup InvoiceStatus \cup {"none"}]
  /\ to \in [Requests -> QuoteStatus \cup InvoiceStatus \cup {"none"}]

(* A quote that was invoiced stays approved and stays what was billed,     *)
(* whatever edits, status changes and deletions were in flight: "the       *)
(* record that a price was agreed" (quotes/service.go:26).                 *)
BilledQuoteStands ==
  \A i \in Invoices : source[i] # None =>
    quote[source[i]] = "approved" /\ quoted[source[i]] = billed[i]

(* An invoice whose receipts cover it is never left waiting for money, in  *)
(* whatever order receipts land (invoices/store.go:436).                   *)
SettledOnceCovered ==
  \A i \in Invoices :
    paid[i] > 0 /\ paid[i] >= Due[content[i]] => invoice[i] \in {"paid", "void"}

(* An organisation never gives one number to two invoices, not even when   *)
(* the first was a draft that was deleted since (invoices/store.go:266).   *)
NumbersOncePerOrg ==
  \A i, j \in Invoices :
    i # j /\ issuer[i] # None /\ issuer[i] = issuer[j] => number[i] # number[j]

(* A document's content is fixed once it has left draft: an edit that      *)
(* began on a draft cannot land on what a concurrent call sent meanwhile   *)
(* (quotes/store.go:266, invoices/store.go:326).                           *)
IssuedNeverEdited ==
  [][/\ \A q \in Quotes : quoted'[q] # quoted[q] => quote[q] \in {"none", "draft"}
     /\ \A i \in Invoices : content'[i] # content[i] => invoice[i] \in {"none", "draft"}]_vars

(* Money is only ever booked on an invoice that is issued and not voided   *)
(* at that moment (invoices/store.go:405, "so it can't race a void").      *)
MoneyOnlyOnIssued ==
  [][\A i \in Invoices : paid'[i] # paid[i] => invoice[i] \in {"sent", "paid"}]_vars

(* invoices/fromquote.go:98, "this quote already has a live invoice", and  *)
(* store.go:26, "already billed": a quote has at most one live invoice.    *)
QuoteBilledOnce ==
  \A i, j \in Invoices :
    i # j /\ source[i] # None /\ source[i] = source[j]
      => invoice[i] \in NotARow \cup {"void"} \/ invoice[j] \in NotARow \cup {"void"}

(* invoices/store.go:589, "The only unique constraint a caller can trip is *)
(* one-invoice-per-quote": a conflict is answered to a caller that bills a *)
(* quote which already has an invoice.                                     *)
ConflictMeansBilled ==
  \A p \in Requests : pc[p] = "conflict" =>
    on[p] # None /\ \E i \in Invoices : source[i] = on[p]

-----------------------------------------------------------------------------
(* What the statements of concurrent requests amount to is a sequence of   *)
(* whole operations on documents (BillingBook).                            *)
Book == INSTANCE BillingBook WITH
  QuoteEdges <- QuoteMoves \cup {<<"draft", "gone">>},
  InvoiceEdges <- InvoiceMoves \cup {<<"draft", "gone">>}

(* Every interleaving of requests is a legal history of the book.          *)
BookSpec == Book!Spec

(* What two requests about one quote or one invoice leave behind: a billed *)
(* quote as it was billed, and an invoice settled if and when it is        *)
(* covered.                                                                *)
BooksStand == BilledQuoteStands /\ SettledOnceCovered

(* What a customer has been sent stands: no step edits it, and money is    *)
(* booked on nothing else.                                                 *)
IssuedStands == IssuedNeverEdited /\ MoneyOnlyOnIssued
=============================================================================
