------------------------------- MODULE Money -------------------------------
(***************************************************************************)
(* The figures of quotes and invoices: what of a line a client types the   *)
(* columns keep, the totals derived from them, the receipts, and every     *)
(* view that adds them up again (lists, statistics, the dashboard, the     *)
(* printed invoice, CalculateGST).  Each request is one step: Billing      *)
(* shows that those on one document take effect one after another.         *)
(*                                                                         *)
(* A column of type NUMERIC(p, s) keeps s decimals and rounds the rest     *)
(* away.  A figure a client sends is finer: one unit of a column is Grain  *)
(* of its units.  Money is in cents, exact as Postgres keeps it; the       *)
(* float64 sums of the views are exact here too.                           *)
(***************************************************************************)
EXTENDS Lifecycle, Integers, Sequences, FiniteSets, Functions

CONSTANTS Offers, Bills,   \* ids of quotes and of invoices
          Grain,           \* units a client may type to one unit of a column
          QuantityUnit,    \* units of the quantity column in 1
          Whole,           \* units of a percentage column in 100 %
          MaxQuantity, MaxPrice, maxItems,  \* what validate lets through
          LineMax, DueMax, \* the widest line_total and amount_due
          Entered,         \* the line items clients send
          Receipts,        \* the amounts they record
          PaidMax,         \* bound: receipts of one invoice
          Terms, NoDay,    \* due dates, and none
          LastDay,         \* bound: days that pass
          Soon             \* days ahead the dashboard looks (3)

ASSUME MoneyAssumption ==
  /\ {Grain, QuantityUnit, Whole} \subseteq Nat \ {0}
  /\ {MaxQuantity, MaxPrice, maxItems, LineMax, DueMax, PaidMax, LastDay, Soon} \subseteq Nat
  /\ Receipts \subseteq Nat \ {0}
  /\ Terms \subseteq Nat
  /\ IsFiniteSet(Offers) /\ IsFiniteSet(Bills)
  /\ Entered \subseteq Seq([text : BOOLEAN, quantity : Nat, price : Nat, discount : Nat, tax : Nat])

VARIABLES
  offer,   \* quotes with their current version and quote_items
  bill,    \* invoices with invoice_items, and the sum of their receipts
  today    \* CURRENT_DATE

moneyVars == <<offer, bill, today>>

NoOffer == [status |-> "none", items |-> <<>>, subtotal |-> 0, tax |-> 0, total |-> 0, exact |-> TRUE]
NoBill  == [status |-> "none", items |-> <<>>, due |-> 0, day |-> NoDay, paid |-> 0,
            source |-> {}, copied |-> FALSE, exact |-> TRUE]

MoneyInit ==
  /\ offer = [o \in Offers |-> NoOffer]
  /\ bill = [b \in Bills |-> NoBill]
  /\ today = 0

-----------------------------------------------------------------------------
(* round(a / b) of NUMERIC, half away from zero.                           *)
Round(a, b) == (2 * a + b) \div (2 * b)
Column(x)   == Round(x, Grain)

(* normalize drops blank lines; validate bounds what is left.              *)
normalize(lines) ==
  LET written(l) == l.text \/ l.quantity # 0 \/ l.price # 0
      kept[i \in 0 .. Len(lines)] ==
        IF i = 0 THEN <<>>
        ELSE IF written(lines[i]) THEN Append(kept[i-1], lines[i]) ELSE kept[i-1]
  IN kept[Len(lines)]

validate_Unbounded(lines) ==  \* mutation: any number of lines
  /\ lines # <<>>
  /\ \A i \in DOMAIN lines :
       /\ lines[i].text
       /\ lines[i].quantity <= MaxQuantity /\ lines[i].price <= MaxPrice
       /\ lines[i].discount <= Whole * Grain /\ lines[i].tax <= Whole * Grain

validate(lines) ==
  /\ Len(lines) \in 1..maxItems
  /\ \A i \in DOMAIN lines :
       /\ lines[i].text
       /\ lines[i].quantity <= MaxQuantity /\ lines[i].price <= MaxPrice
       /\ lines[i].discount <= Whole * Grain /\ lines[i].tax <= Whole * Grain

(* replaceItems: each column rounds what was sent, while line_total is     *)
(* derived from what was sent.                                             *)
Item(l) ==
  [quantity |-> Column(l.quantity), price |-> Column(l.price),
   discount |-> Column(l.discount), tax |-> Column(l.tax),
   total |-> Round(l.quantity * l.price * (Whole * Grain - l.discount),
                   QuantityUnit * Grain * Grain * Whole * Grain)]

replaceItems_Adds(old, lines) ==  \* mutation: the old lines are not deleted
  old \o [i \in DOMAIN lines |-> Item(lines[i])]

replaceItems(old, lines) == [i \in DOMAIN lines |-> Item(lines[i])]

(* recalculate: the totals of a document, from its rows.                   *)
Gross(item) == Round(item.quantity * item.price, QuantityUnit)
Net(item)   == item.total
Tax(item)   == Round(item.total * item.tax, Whole)
Summed(items, Part(_)) ==
  SumFunction([i \in DOMAIN items |-> Part(items[i])])
Total(items) == Summed(items, Net) + Summed(items, Tax)

Fits(items) == Total(items) <= DueMax /\ \A i \in DOMAIN items : items[i].total <= LineMax

(* What a client reads of a document, sent back as it is.                  *)
AsRead(items) ==
  [i \in DOMAIN items |->
     [text |-> TRUE, quantity |-> items[i].quantity * Grain, price |-> items[i].price * Grain,
      discount |-> items[i].discount * Grain, tax |-> items[i].tax * Grain]]

(* history: nothing of what was sent was finer than its column.            *)
Exact(lines, items) == AsRead(items) = lines

-----------------------------------------------------------------------------
(* Quotes.                                                                 *)
SaveLines(o, sent) ==
  LET lines == normalize(sent)
      items == replaceItems(offer[o].items, lines)
  IN /\ validate(lines) /\ Fits(items)
     /\ offer' = [offer EXCEPT ![o] =
          [status |-> "draft", items |-> items, subtotal |-> Summed(items, Gross),
           tax |-> Summed(items, Tax), total |-> Total(items), exact |-> Exact(lines, items)]]

SaveOffer_Any(o) ==  \* mutation: update without AND status = 'draft'
  /\ \E sent \in Entered : SaveLines(o, sent)
  /\ UNCHANGED <<bill, today>>

SaveOffer(o) ==
  /\ offer[o].status \in {"none", "draft"}
  /\ \E sent \in Entered : SaveLines(o, sent)
  /\ UNCHANGED <<bill, today>>

ResaveOffer(o) ==
  /\ offer[o].status = "draft"
  /\ SaveLines(o, AsRead(offer[o].items))
  /\ UNCHANGED <<bill, today>>

MoveOffer(o) ==
  /\ \E s \in QuoteStatus :
       <<offer[o].status, s>> \in QuoteMoves /\ offer' = [offer EXCEPT ![o].status = s]
  /\ UNCHANGED <<bill, today>>

DeleteOffer(o) ==
  /\ offer[o].status = "draft"
  /\ \A b \in Bills : o \notin bill[b].source
  /\ offer' = [offer EXCEPT ![o] = NoOffer]
  /\ UNCHANGED <<bill, today>>

-----------------------------------------------------------------------------
(* Invoices.  fromQuote copies the lines of a quote with their totals.     *)
RaiseBill_Recomputes(b) ==  \* mutation: line_total is derived again from the copied columns
  /\ bill[b].status = "none"
  /\ \E o \in Offers, day \in Terms :
       LET items == replaceItems(<<>>, AsRead(offer[o].items)) IN
       /\ offer[o].status = "approved"
       /\ bill' = [bill EXCEPT ![b] =
            [NoBill EXCEPT !.status = "draft", !.items = items, !.due = Total(items), !.day = day,
                           !.source = {o}, !.copied = TRUE, !.exact = offer[o].exact]]
  /\ UNCHANGED <<offer, today>>

RaiseBill(b) ==
  /\ bill[b].status = "none"
  /\ \E o \in Offers, day \in Terms :
       LET items == offer[o].items IN
       /\ offer[o].status = "approved"
       /\ bill' = [bill EXCEPT ![b] =
            [NoBill EXCEPT !.status = "draft", !.items = items, !.due = Total(items), !.day = day,
                           !.source = {o}, !.copied = TRUE, !.exact = offer[o].exact]]
  /\ UNCHANGED <<offer, today>>

WriteLines(b, sent, day) ==
  LET lines == normalize(sent)
      items == replaceItems(bill[b].items, lines)
  IN /\ validate(lines) /\ Fits(items)
     /\ bill' = [bill EXCEPT ![b] =
          [bill[b] EXCEPT !.status = "draft", !.items = items, !.due = Total(items), !.day = day,
                          !.copied = FALSE, !.exact = Exact(lines, items)]]

WriteBill(b) ==
  /\ bill[b].status \in {"none", "draft"}
  /\ \E sent \in Entered, day \in Terms \cup {NoDay} : WriteLines(b, sent, day)
  /\ UNCHANGED <<offer, today>>

ResaveBill(b) ==
  /\ bill[b].status = "draft"
  /\ WriteLines(b, AsRead(bill[b].items), bill[b].day)
  /\ UNCHANGED <<offer, today>>

MoveBill(b) ==
  /\ \E s \in InvoiceStatus :
       <<bill[b].status, s>> \in InvoiceMoves /\ bill' = [bill EXCEPT ![b].status = s]
  /\ UNCHANGED <<offer, today>>

DeleteBill(b) ==
  /\ bill[b].status = "draft"
  /\ bill' = [bill EXCEPT ![b] = NoBill]
  /\ UNCHANGED <<offer, today>>

(* RecordPayment: payments.amount rounds the receipt to cents, and the     *)
(* invoice is settled once the sum covers it.                              *)
RecordReceipt(b) ==
  /\ bill[b].status \in {"sent", "paid"}
  /\ \E amount \in Receipts :
       LET paid == bill[b].paid + Column(amount) IN
       /\ paid <= PaidMax
       /\ bill' = [bill EXCEPT ![b] =
            [bill[b] EXCEPT !.paid = paid, !.status = IF paid >= bill[b].due THEN "paid" ELSE @]]
  /\ UNCHANGED <<offer, today>>

NextDay == today < LastDay /\ today' = today + 1 /\ UNCHANGED <<offer, bill>>

MoneyNext ==
  \/ \E o \in Offers : SaveOffer(o) \/ ResaveOffer(o) \/ MoveOffer(o) \/ DeleteOffer(o)
  \/ \E b \in Bills : RaiseBill(b) \/ WriteBill(b) \/ ResaveBill(b) \/ MoveBill(b)
                      \/ DeleteBill(b) \/ RecordReceipt(b)
  \/ NextDay

MoneySpec == MoneyInit /\ [][MoneyNext]_moneyVars

-----------------------------------------------------------------------------
(* The views.  A balance is derived on read, and so is "overdue".          *)
Standing   == {b \in Bills : bill[b].status # "none"}
Balance(b) == bill[b].due - bill[b].paid
PastDue(b) == bill[b].day # NoDay /\ bill[b].day < today

Overdue(b) ==
  bill[b].status = "sent" /\ PastDue(b) /\ bill[b].due > bill[b].paid

listed(status) ==
  {b \in Standing :
     \/ status = ""
     \/ status # "overdue" /\ bill[b].status = status
     \/ status = "overdue" /\ bill[b].status = "sent" /\ PastDue(b) /\ bill[b].due > bill[b].paid}

counted_Settled(status) ==  \* mutation: the count forgets the money that came in
  Cardinality({b \in Standing :
                 \/ status \in {"", bill[b].status}
                 \/ status = "overdue" /\ bill[b].status = "sent" /\ PastDue(b)})

counted(status) ==
  Cardinality({b \in Standing :
                 \/ status \in {"", bill[b].status}
                 \/ /\ status = "overdue" /\ bill[b].status = "sent" /\ PastDue(b)
                    /\ bill[b].due > bill[b].paid})

(* Stats of invoices.                                                      *)
Balances    == [b \in Bills |-> Balance(b)]
Outstanding == SumFunctionOnSet(Balances, {b \in Bills : bill[b].status = "sent"})
OverdueSum  == SumFunctionOnSet(Balances, {b \in Bills : bill[b].status = "sent" /\ PastDue(b)})

(* The invoices of the dashboard's queue.                                  *)
Attention ==
  {b \in Standing : /\ bill[b].status \notin {"paid", "void"}
                    /\ bill[b].day # NoDay /\ bill[b].day <= today + Soon
                    /\ bill[b].due > bill[b].paid}

(* Stats of quotes: what there is of each status that occurs.  rollUp adds *)
(* it up over the stages of the board.                                     *)
InStatus(s) == {o \in Offers : offer[o].status = s}
Value(s)    == SumFunctionOnSet([o \in Offers |-> offer[o].total], InStatus(s))
Stats ==
  [s \in {offer[o].status : o \in Offers} \ {"none"} |->
     [count |-> Cardinality(InStatus(s)), value |-> Value(s)]]

rollUp_Literal(stages, won, closed, found) ==  \* mutation: the words of the board, "won" and "lost"
  LET row(s) == IF s \in DOMAIN found THEN found[s] ELSE [count |-> 0, value |-> 0]
      value  == [s \in stages |-> row(s).value]
  IN [total |-> SumFunction([s \in stages |-> row(s).count]),
      won   |-> SumFunctionOnSet(value, {s \in stages : s = "won"}),
      open  |-> SumFunctionOnSet(value, {s \in stages : s \notin {"won", "lost"}})]
rollUp(stages, won, closed, found) ==
  LET row(s) == IF s \in DOMAIN found THEN found[s] ELSE [count |-> 0, value |-> 0]
      value  == [s \in stages |-> row(s).value]
  IN [total |-> SumFunction([s \in stages |-> row(s).count]),
      won   |-> SumFunctionOnSet(value, {s \in stages : s = won}),
      open  |-> SumFunctionOnSet(value, {s \in stages : s # won /\ s \notin closed})]
Funnel == rollUp(QuoteStatus, "approved", {"rejected", "expired"}, Stats)

(* Two ways to tax the lines again, neither of which rounds: CalculateGST, *)
(* and the rows of the printed invoice, which know no discount.  Both in   *)
(* parts of a cent.                                                        *)
Parts == QuantityUnit * Whole * Whole

CalculateGST_TaxesGross(items) ==  \* mutation: tax on the price before the discount
  LET Grand(i) == i.quantity * i.price * ((Whole - i.discount) * Whole + Whole * i.tax)
  IN Summed(items, Grand)

CalculateGST(items) ==
  LET Grand(i) == i.quantity * i.price * (Whole - i.discount) * (Whole + i.tax)
  IN Summed(items, Grand)

PrintedRows(items) ==
  LET Row(i) == i.quantity * i.price * (Whole + i.tax) * Whole
  IN Summed(items, Row)

(* A sum of lines each of which was rounded three times at most.           *)
Meets(parts, cents, n) == 2 * (parts - cents * Parts) \in -(3 * n * Parts) .. 3 * n * Parts

-----------------------------------------------------------------------------
(* Documents and days are of their kind, and what a row keeps fits it.     *)
MoneyTypeOK ==
  /\ \A o \in Offers :
       /\ offer[o].status \in QuoteStatus \cup {"none"}
       /\ offer[o].total \in 0..DueMax
       /\ offer[o].status = "none" \/ Len(offer[o].items) \in 1..maxItems
  /\ \A b \in Bills :
       /\ bill[b].status \in InvoiceStatus \cup {"none"}
       /\ bill[b].due \in 0..DueMax /\ bill[b].paid \in 0..PaidMax
       /\ bill[b].source \subseteq Offers /\ bill[b].day \in Terms \cup {NoDay}
       /\ bill[b].status = "none" \/ Len(bill[b].items) \in 1..maxItems
  /\ today \in 0..LastDay

(* "A quote and the invoice raised from it can never disagree by a cent"   *)
(* (invoices/store.go:379): not while nobody edits the invoice, although   *)
(* the quote's lines may have been typed finer than its columns keep them. *)
(* (A client that saves that invoice as it read it changes its total.)     *)
CopyKeepsTheCent ==
  \A b \in Bills : bill[b].copied =>
    \A o \in bill[b].source : bill[b].due = offer[o].total

(* Saving a draft again as it was read moves no figure of it, provided     *)
(* nothing in it was typed finer than the columns, as after one such save. *)
SavingAgainSettles ==
  /\ \A o \in Offers : offer[o].exact =>
       replaceItems(offer[o].items, AsRead(offer[o].items)) = offer[o].items
  /\ \A b \in Bills : bill[b].exact =>
       replaceItems(bill[b].items, AsRead(bill[b].items)) = bill[b].items

(* Everything that is said to be overdue anywhere is the same money: the   *)
(* flag of an invoice, the list and its count, the statistics, which do    *)
(* not look at what is still owed, and the dashboard's queue; and no       *)
(* overpaid invoice lowers a sum.                                          *)
OverdueViewsAgree == Standing # {} =>
  /\ listed("overdue") = {b \in Bills : Overdue(b)}
  /\ counted("overdue") = Cardinality(listed("overdue"))
  /\ OverdueSum = SumFunctionOnSet(Balances, listed("overdue"))
  /\ OverdueSum \in 0..Outstanding
  /\ listed("overdue") \subseteq Attention

(* The funnel of quotes leaves no quote out, and what it calls won is what *)
(* was agreed, "whatever the words of the board" (dashboard/handler.go).   *)
FunnelAddsUp ==
  LET there == {o \in Offers : offer[o].status # "none"}
  IN there # {} =>
       LET sum == Funnel IN
       /\ sum.total = Cardinality(there)
       /\ sum.won = Value("approved")
       /\ sum.open = Value("draft") + Value("sent")

(* What customers agreed to only grows (quotes/service.go:26, "the record  *)
(* that a price was agreed").                                              *)
WonNeverShrinks == [][Value("approved")' >= Value("approved")]_offer

(* Of lines that fit their columns, CalculateGST comes within a cent and a *)
(* half per line of the total that is owed, and so do the printed rows of  *)
(* an invoice without discounts: three roundings apart and no more.        *)
SumsMeetTheTotal ==
  \A b \in Standing : bill[b].exact =>
    LET items == bill[b].items IN
    /\ Meets(CalculateGST(items), bill[b].due, Len(items))
    /\ (\A i \in DOMAIN items : items[i].discount = 0)
         => Meets(PrintedRows(items), bill[b].due, Len(items))

(* No cent goes astray between a quote and its invoice, or between a draft *)
(* and its next save.                                                      *)
CentsAreKept == CopyKeepsTheCent /\ SavingAgainSettles

(* Whoever adds the documents up gets the same: the views of what is       *)
(* overdue, the funnel and its sums, the printed totals; and what was won  *)
(* stays won.                                                              *)
ViewsAgree ==
  /\ [](OverdueViewsAgree /\ FunnelAddsUp /\ SumsMeetTheTotal)
  /\ WonNeverShrinks
=============================================================================
