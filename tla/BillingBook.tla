---------------------------- MODULE BillingBook ----------------------------
(* Quotes and invoices as the people who use them see them: documents that *)
(* are written while they are drafts, turned from status to status, billed *)
(* and paid, one whole operation at a time.                                *)
EXTENDS Naturals

CONSTANTS Quotes, Invoices, Contents, Due, Amounts, None,
          QuoteEdges, InvoiceEdges  \* the status changes that exist

VARIABLES quote, quoted, invoice, content, source, paid
vars == <<quote, quoted, invoice, content, source, paid>>

Init ==
  /\ quote = [q \in Quotes |-> "none"]
  /\ quoted = [q \in Quotes |-> None]
  /\ invoice = [i \in Invoices |-> "none"]
  /\ content = [i \in Invoices |-> None]
  /\ source = [i \in Invoices |-> None]
  /\ paid = [i \in Invoices |-> 0]

WriteQuote(q, c) ==
  /\ quote[q] \in {"none", "draft"}
  /\ quote' = [quote EXCEPT ![q] = "draft"]
  /\ quoted' = [quoted EXCEPT ![q] = c]
  /\ UNCHANGED <<invoice, content, source, paid>>

TurnQuote(q, s) ==
  /\ <<quote[q], s>> \in QuoteEdges
  /\ quote' = [quote EXCEPT ![q] = s]
  /\ UNCHANGED <<quoted, invoice, content, source, paid>>

(* An invoice is new work, or the faithful copy of an approved quote.      *)
RaiseInvoice(i, q, c) ==
  /\ invoice[i] = "none"
  /\ q # None => quote[q] = "approved" /\ c = quoted[q]
  /\ invoice' = [invoice EXCEPT ![i] = "draft"]
  /\ content' = [content EXCEPT ![i] = c]
  /\ source' = [source EXCEPT ![i] = q]
  /\ UNCHANGED <<quote, quoted, paid>>

WriteInvoice(i, c) ==
  /\ invoice[i] = "draft"
  /\ content' = [content EXCEPT ![i] = c]
  /\ UNCHANGED <<quote, quoted, invoice, source, paid>>

TurnInvoice(i, s) ==
  /\ <<invoice[i], s>> \in InvoiceEdges
  /\ invoice' = [invoice EXCEPT ![i] = s]
  /\ UNCHANGED <<quote, quoted, content, source, paid>>

(* A receipt settles the invoice when the receipts now cover it.           *)
Receive(i, a) ==
  /\ invoice[i] \in {"sent", "paid"}
  /\ paid' = [paid EXCEPT ![i] = @ + a]
  /\ invoice' = [invoice EXCEPT ![i] =
       IF paid[i] + a >= Due[content[i]] THEN "paid" ELSE @]
  /\ UNCHANGED <<quote, quoted, content, source>>

Next ==
  \/ \E q \in Quotes, c \in Contents : WriteQuote(q, c)
  \/ \E q \in Quotes : \E s \in {e[2] : e \in QuoteEdges} : TurnQuote(q, s)
  \/ \E i \in Invoices, c \in Contents :
       WriteInvoice(i, c) \/ \E q \in Quotes \cup {None} : RaiseInvoice(i, q, c)
  \/ \E i \in Invoices : \E s \in {e[2] : e \in InvoiceEdges} : TurnInvoice(i, s)
  \/ \E i \in Invoices, a \in Amounts : Receive(i, a)

Spec == Init /\ [][Next]_vars
=============================================================================
