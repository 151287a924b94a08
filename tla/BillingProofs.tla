--------------------------- MODULE BillingProofs ---------------------------
(***************************************************************************)
(* Proofs about Billing for any number of documents, organisations and     *)
(* requests.  The strengthening says what a request knows at each point of *)
(* its transaction (HoldInv), that a row is locked by one request at most  *)
(* (LockInv), and what a row of each status carries (RowInv, NumberInv).   *)
(* For Money: documents are as they were written (MoneyInv), what they     *)
(* keep fits its columns and adds up (FigureInv), and with what is proved  *)
(* here of sums over finite sets and of rounding the views agree.          *)
(***************************************************************************)
EXTENDS Billing, Money, FiniteSetTheorems, WellFoundedInduction, TLAPS

HoldsQuote(p)   == pc[p] \in {"edit_quote", "bill", "copy"}
HoldsInvoice(p) == pc[p] \in {"edit_invoice", "pay"}
HoldsOrg(p)     == pc[p] \in {"copy", "compose"}

(* What a lock keeps true until its transaction ends.                      *)
HoldInv ==
  \A p \in Requests :
    /\ pc[p] \in {"edit_quote", "move_quote", "bill", "copy"} => on[p] \in Quotes
    /\ pc[p] = "edit_quote" => quote[on[p]] = "draft"
    /\ pc[p] \in {"bill", "copy"} => quote[on[p]] = "approved"
    /\ pc[p] \in {"edit_invoice", "move_invoice", "pay"} => on[p] \in Invoices
    /\ pc[p] = "edit_invoice" => invoice[on[p]] = "draft"
    /\ pc[p] = "pay" => invoice[on[p]] \in {"sent", "paid"}
    /\ pc[p] = "move_quote" => <<from[p], to[p]>> \in QuoteMoves
    /\ pc[p] = "move_invoice" => <<from[p], to[p]>> \in InvoiceMoves
    /\ pc[p] \in {"idle", "compose"} => on[p] = None
    /\ HoldsOrg(p) => org[p] \in Orgs /\ draw[p] = seq[org[p]] + 1

(* A row is locked by one transaction at a time.                           *)
LockInv ==
  \A p, r \in Requests : p # r =>
    /\ HoldsQuote(p) /\ HoldsQuote(r) => on[p] # on[r]
    /\ HoldsInvoice(p) /\ HoldsInvoice(r) => on[p] # on[r]
    /\ HoldsOrg(p) /\ HoldsOrg(r) => org[p] # org[r]

(* A document that was written has content; what was not issued, no money. *)
RowInv ==
  /\ \A q \in Quotes : quote[q] # "none" => quoted[q] \in Contents
  /\ \A i \in Invoices :
       /\ invoice[i] # "none" => content[i] \in Contents
       /\ invoice[i] = "none" => source[i] = None /\ issuer[i] = None
       /\ invoice[i] \in NotARow \cup {"draft"} => paid[i] = 0

(* Numbers are drawn in order.                                             *)
NumberInv ==
  /\ \A i \in Invoices : issuer[i] \in Orgs => number[i] <= seq[issuer[i]]
  /\ NumbersOncePerOrg

IInv == TypeOK /\ HoldInv /\ LockInv /\ RowInv /\ NumberInv
          /\ BilledQuoteStands /\ SettledOnceCovered

-----------------------------------------------------------------------------
LEMMA InitInv == Init => IInv
  BY BillingAssumption DEF Init, IInv, TypeOK, HoldInv, LockInv, RowInv, NumberInv,
     NumbersOncePerOrg, BilledQuoteStands, SettledOnceCovered, HoldsQuote, HoldsInvoice,
     HoldsOrg, NotARow, Points

LEMMA QuoteMovesAre ==
  ASSUME NEW s, NEW t, <<s, t>> \in QuoteMoves
  PROVE  s \notin {"none", "approved"} /\ t \in QuoteStatus
  BY DEF QuoteMoves, QuoteStatus

LEMMA InvoiceMovesAre ==
  ASSUME NEW s, NEW t, <<s, t>> \in InvoiceMoves
  PROVE  s \in {"draft", "sent"} /\ t \in {"sent", "paid", "void"}
  BY DEF InvoiceMoves

LEMMA CreateQuoteInv == ASSUME IInv, NEW p \in Requests, CreateQuote(p) PROVE IInv'
  <1> USE BillingAssumption DEF IInv, CreateQuote, quotes, invoices, request, NotARow
  <1>1. TypeOK'
    BY DEF TypeOK, HoldInv, QuoteStatus, InvoiceStatus, Points, QuoteMoves, InvoiceMoves
  <1>2. HoldInv'
    BY DEF TypeOK, HoldInv, LockInv, HoldsQuote, HoldsInvoice, HoldsOrg
  <1>3. LockInv'
    BY DEF TypeOK, HoldInv, LockInv, HoldsQuote, HoldsInvoice, HoldsOrg
  <1>4. RowInv'
    BY DEF TypeOK, HoldInv, RowInv
  <1>5. NumberInv'
    BY DEF TypeOK, HoldInv, RowInv, NumberInv, NumbersOncePerOrg, HoldsOrg
  <1>6. BilledQuoteStands'
    BY DEF TypeOK, HoldInv, LockInv, RowInv, BilledQuoteStands, HoldsQuote
  <1>7. SettledOnceCovered'
    BY DEF TypeOK, HoldInv, RowInv, SettledOnceCovered
  <1> QED BY <1>1, <1>2, <1>3, <1>4, <1>5, <1>6, <1>7

LEMMA ClaimQuoteInv == ASSUME IInv, NEW p \in Requests, ClaimQuote(p) PROVE IInv'
  <1> USE BillingAssumption DEF IInv, ClaimQuote, Goto, Pick, LockedQuote, quotes, invoices, request, NotARow
  <1>1. TypeOK'
    BY DEF TypeOK, HoldInv, QuoteStatus, InvoiceStatus, Points, QuoteMoves, InvoiceMoves
  <1>2. HoldInv'
    BY DEF TypeOK, HoldInv, LockInv, HoldsQuote, HoldsInvoice, HoldsOrg
  <1>3. LockInv'
    BY DEF TypeOK, HoldInv, LockInv, HoldsQuote, HoldsInvoice, HoldsOrg
  <1>4. RowInv'
    BY DEF TypeOK, HoldInv, RowInv
  <1>5. NumberInv'
    BY DEF TypeOK, HoldInv, RowInv, NumberInv, NumbersOncePerOrg, HoldsOrg
  <1>6. BilledQuoteStands'
    BY DEF TypeOK, HoldInv, LockInv, RowInv, BilledQuoteStands, HoldsQuote
  <1>7. SettledOnceCovered'
    BY DEF TypeOK, HoldInv, RowInv, SettledOnceCovered
  <1> QED BY <1>1, <1>2, <1>3, <1>4, <1>5, <1>6, <1>7

LEMMA SaveQuoteInv == ASSUME IInv, NEW p \in Requests, SaveQuote(p) PROVE IInv'
  <1> USE BillingAssumption DEF IInv, SaveQuote, Finish, Goto, Pick, quotes, invoices, request, NotARow
  <1>1. TypeOK'
    BY DEF TypeOK, HoldInv, QuoteStatus, InvoiceStatus, Points, QuoteMoves, InvoiceMoves
  <1>2. HoldInv'
    BY DEF TypeOK, HoldInv, LockInv, HoldsQuote, HoldsInvoice, HoldsOrg
  <1>3. LockInv'
    BY DEF TypeOK, HoldInv, LockInv, HoldsQuote, HoldsInvoice, HoldsOrg
  <1>4. RowInv'
    BY DEF TypeOK, HoldInv, RowInv
  <1>5. NumberInv'
    BY DEF TypeOK, HoldInv, RowInv, NumberInv, NumbersOncePerOrg, HoldsOrg
  <1>6. BilledQuoteStands'
    <2>1. on[p] \in Quotes /\ quote[on[p]] = "draft"
      BY DEF HoldInv
    <2>2. \A i \in Invoices : source[i] # None =>
            source[i] \in Quotes /\ source[i] # on[p]
      BY <2>1 DEF TypeOK, BilledQuoteStands
    <2> QED BY <2>2 DEF TypeOK, BilledQuoteStands
  <1>7. SettledOnceCovered'
    BY DEF TypeOK, HoldInv, RowInv, SettledOnceCovered
  <1> QED BY <1>1, <1>2, <1>3, <1>4, <1>5, <1>6, <1>7

LEMMA ReadQuoteInv == ASSUME IInv, NEW p \in Requests, ReadQuote(p) PROVE IInv'
  <1> USE BillingAssumption DEF IInv, ReadQuote, Goto, Pick, quotes, invoices, request, NotARow
  <1>1. TypeOK'
    BY DEF TypeOK, HoldInv, QuoteStatus, InvoiceStatus, Points, QuoteMoves, InvoiceMoves
  <1>2. HoldInv'
    BY DEF TypeOK, HoldInv, LockInv, HoldsQuote, HoldsInvoice, HoldsOrg
  <1>3. LockInv'
    BY DEF TypeOK, HoldInv, LockInv, HoldsQuote, HoldsInvoice, HoldsOrg
  <1>4. RowInv'
    BY DEF TypeOK, HoldInv, RowInv
  <1>5. NumberInv'
    BY DEF TypeOK, HoldInv, RowInv, NumberInv, NumbersOncePerOrg, HoldsOrg
  <1>6. BilledQuoteStands'
    BY DEF TypeOK, HoldInv, LockInv, RowInv, BilledQuoteStands, HoldsQuote
  <1>7. SettledOnceCovered'
    BY DEF TypeOK, HoldInv, RowInv, SettledOnceCovered
  <1> QED BY <1>1, <1>2, <1>3, <1>4, <1>5, <1>6, <1>7

LEMMA MoveQuoteInv == ASSUME IInv, NEW p \in Requests, MoveQuote(p) PROVE IInv'
  <1> USE BillingAssumption DEF IInv, MoveQuote, Finish, Goto, Pick, LockedQuote, quotes, invoices, request, NotARow
  <1>0. on[p] \in Quotes /\ from[p] \notin {"none", "approved"} /\ to[p] \in QuoteStatus
    BY QuoteMovesAre DEF HoldInv
  <1>a. \A q \in Quotes : quote'[q] # quote[q] =>
          q = on[p] /\ quote[q] = from[p] /\ quote[q] \notin {"none", "approved"}
    BY <1>0 DEF TypeOK
  <1>1. TypeOK'
    BY <1>0 DEF TypeOK, Points
  <1>2. HoldInv'
    BY DEF TypeOK, HoldInv, LockInv, HoldsQuote, HoldsInvoice, HoldsOrg
  <1>3. LockInv'
    BY DEF TypeOK, HoldInv, LockInv, HoldsQuote, HoldsInvoice, HoldsOrg
  <1>4. RowInv'
    BY <1>a DEF TypeOK, RowInv
  <1>5. NumberInv'
    BY DEF TypeOK, HoldInv, RowInv, NumberInv, NumbersOncePerOrg, HoldsOrg
  <1>6. BilledQuoteStands'
    BY <1>a DEF TypeOK, BilledQuoteStands
  <1>7. SettledOnceCovered'
    BY DEF TypeOK, HoldInv, RowInv, SettledOnceCovered
  <1> QED BY <1>1, <1>2, <1>3, <1>4, <1>5, <1>6, <1>7

LEMMA DeleteQuoteInv == ASSUME IInv, NEW p \in Requests, DeleteQuote(p) PROVE IInv'
  <1> USE BillingAssumption DEF IInv, DeleteQuote, LockedQuote, quotes, invoices, request, NotARow
  <1>1. TypeOK'
    BY DEF TypeOK, HoldInv, QuoteStatus, InvoiceStatus, Points, QuoteMoves, InvoiceMoves
  <1>2. HoldInv'
    BY DEF TypeOK, HoldInv, LockInv, HoldsQuote, HoldsInvoice, HoldsOrg
  <1>3. LockInv'
    BY DEF TypeOK, HoldInv, LockInv, HoldsQuote, HoldsInvoice, HoldsOrg
  <1>4. RowInv'
    BY DEF TypeOK, HoldInv, RowInv
  <1>5. NumberInv'
    BY DEF TypeOK, HoldInv, RowInv, NumberInv, NumbersOncePerOrg, HoldsOrg
  <1>6. BilledQuoteStands'
    BY DEF TypeOK, HoldInv, LockInv, RowInv, BilledQuoteStands, HoldsQuote
  <1>7. SettledOnceCovered'
    BY DEF TypeOK, HoldInv, RowInv, SettledOnceCovered
  <1> QED BY <1>1, <1>2, <1>3, <1>4, <1>5, <1>6, <1>7

LEMMA ComposeInvoiceInv == ASSUME IInv, NEW p \in Requests, ComposeInvoice(p) PROVE IInv'
  <1> USE BillingAssumption DEF IInv, ComposeInvoice, NextNumber, LockedOrg, Goto, quotes, invoices, request, NotARow
  <1>1. TypeOK'
    BY DEF TypeOK, HoldInv, QuoteStatus, InvoiceStatus, Points, QuoteMoves, InvoiceMoves
  <1>2. HoldInv'
    BY DEF TypeOK, HoldInv, LockInv, HoldsQuote, HoldsInvoice, HoldsOrg
  <1>3. LockInv'
    BY DEF TypeOK, HoldInv, LockInv, HoldsQuote, HoldsInvoice, HoldsOrg
  <1>4. RowInv'
    BY DEF TypeOK, HoldInv, RowInv
  <1>5. NumberInv'
    BY DEF TypeOK, HoldInv, RowInv, NumberInv, NumbersOncePerOrg, HoldsOrg
  <1>6. BilledQuoteStands'
    BY DEF TypeOK, HoldInv, LockInv, RowInv, BilledQuoteStands, HoldsQuote
  <1>7. SettledOnceCovered'
    BY DEF TypeOK, HoldInv, RowInv, SettledOnceCovered
  <1> QED BY <1>1, <1>2, <1>3, <1>4, <1>5, <1>6, <1>7

LEMMA BillQuoteInv == ASSUME IInv, NEW p \in Requests, BillQuote(p) PROVE IInv'
  <1> USE BillingAssumption DEF IInv, BillQuote, Goto, Pick, LockedQuote, quotes, invoices, request, NotARow
  <1>1. TypeOK'
    BY DEF TypeOK, HoldInv, QuoteStatus, InvoiceStatus, Points, QuoteMoves, InvoiceMoves
  <1>2. HoldInv'
    BY DEF TypeOK, HoldInv, LockInv, HoldsQuote, HoldsInvoice, HoldsOrg
  <1>3. LockInv'
    BY DEF TypeOK, HoldInv, LockInv, HoldsQuote, HoldsInvoice, HoldsOrg
  <1>4. RowInv'
    BY DEF TypeOK, HoldInv, RowInv
  <1>5. NumberInv'
    BY DEF TypeOK, HoldInv, RowInv, NumberInv, NumbersOncePerOrg, HoldsOrg
  <1>6. BilledQuoteStands'
    BY DEF TypeOK, HoldInv, LockInv, RowInv, BilledQuoteStands, HoldsQuote
  <1>7. SettledOnceCovered'
    BY DEF TypeOK, HoldInv, RowInv, SettledOnceCovered
  <1> QED BY <1>1, <1>2, <1>3, <1>4, <1>5, <1>6, <1>7

LEMMA NumberBillInv == ASSUME IInv, NEW p \in Requests, NumberBill(p) PROVE IInv'
  <1> USE BillingAssumption DEF IInv, NumberBill, NextNumber, LockedOrg, Goto, quotes, invoices, request, NotARow
  <1>1. TypeOK'
    BY DEF TypeOK, HoldInv, QuoteStatus, InvoiceStatus, Points, QuoteMoves, InvoiceMoves
  <1>2. HoldInv'
    BY DEF TypeOK, HoldInv, LockInv, HoldsQuote, HoldsInvoice, HoldsOrg
  <1>3. LockInv'
    BY DEF TypeOK, HoldInv, LockInv, HoldsQuote, HoldsInvoice, HoldsOrg
  <1>4. RowInv'
    BY DEF TypeOK, HoldInv, RowInv
  <1>5. NumberInv'
    BY DEF TypeOK, HoldInv, RowInv, NumberInv, NumbersOncePerOrg, HoldsOrg
  <1>6. BilledQuoteStands'
    BY DEF TypeOK, HoldInv, LockInv, RowInv, BilledQuoteStands, HoldsQuote
  <1>7. SettledOnceCovered'
    BY DEF TypeOK, HoldInv, RowInv, SettledOnceCovered
  <1> QED BY <1>1, <1>2, <1>3, <1>4, <1>5, <1>6, <1>7

(* Both ways of raising an invoice add one row, in one transaction.        *)
LEMMA RaiseInv ==
  ASSUME IInv, NEW p \in Requests, HoldsOrg(p), NEW i \in Invoices, NEW c \in Contents,
         on[p] # None => on[p] \in Quotes /\ quote[on[p]] = "approved" /\ c = quoted[on[p]],
         RaiseInvoice(p, i, c)
  PROVE  IInv'
  <1> USE BillingAssumption DEF IInv, RaiseInvoice, Finish, Goto, Pick, quotes
  <1>0. /\ org[p] \in Orgs /\ draw[p] = seq[org[p]] + 1
        /\ on[p] \in Quotes \cup {None}
    BY DEF HoldInv
  <1>1. TypeOK'
    BY <1>0 DEF TypeOK, InvoiceStatus, Points
  <1>2. HoldInv'
    BY <1>0 DEF TypeOK, HoldInv, LockInv, HoldsQuote, HoldsInvoice, HoldsOrg
  <1>3. LockInv'
    BY <1>0 DEF TypeOK, HoldInv, LockInv, HoldsQuote, HoldsInvoice, HoldsOrg
  <1>4. RowInv'
    BY <1>0 DEF TypeOK, RowInv, NotARow
  <1>5. NumberInv'
    <2>1. \A j \in Invoices : j # i => number'[j] = number[j] /\ issuer'[j] = issuer[j]
      BY DEF TypeOK
    <2>2. number'[i] = draw[p] /\ issuer'[i] = org[p]
      BY DEF TypeOK
    <2>3. \A o \in Orgs : seq'[o] = IF o = org[p] THEN seq[o] + 1 ELSE seq[o]
      BY <1>0 DEF TypeOK
    <2>4. \A j \in Invoices : issuer[j] = org[p] => number[j] < draw[p]
      BY <1>0 DEF TypeOK, NumberInv
    <2>5. \A j \in Invoices : issuer'[j] \in Orgs => number'[j] <= seq'[issuer'[j]]
      BY <1>0, <2>1, <2>2, <2>3 DEF TypeOK, NumberInv
    <2>6. NumbersOncePerOrg'
      BY <1>0, <2>1, <2>2, <2>4 DEF TypeOK, NumberInv, NumbersOncePerOrg
    <2> QED BY <2>5, <2>6 DEF NumberInv
  <1>6. BilledQuoteStands'
    <2>1. ASSUME NEW j \in Invoices, source'[j] # None
          PROVE  quote[source'[j]] = "approved" /\ quoted[source'[j]] = billed'[j]
      <3>1. CASE j = i
        BY <1>0, <2>1, <3>1 DEF TypeOK
      <3>2. CASE j # i
        BY <2>1, <3>2 DEF TypeOK, BilledQuoteStands
      <3> QED BY <3>1, <3>2
    <2> QED BY <2>1 DEF BilledQuoteStands
  <1>7. SettledOnceCovered'
    <2>1. paid[i] = 0
      BY DEF RowInv, NotARow
    <2>2. \A j \in Invoices : j # i => content'[j] = content[j] /\ invoice'[j] = invoice[j]
      BY DEF TypeOK
    <2> QED BY <2>1, <2>2 DEF SettledOnceCovered
  <1> QED BY <1>1, <1>2, <1>3, <1>4, <1>5, <1>6, <1>7

LEMMA CreateInvoiceInv == ASSUME IInv, NEW p \in Requests, CreateInvoice(p) PROVE IInv'
  BY RaiseInv DEF IInv, HoldInv, HoldsOrg, CreateInvoice

LEMMA CopyQuoteInv == ASSUME IInv, NEW p \in Requests, CopyQuote(p) PROVE IInv'
  <1>1. on[p] \in Quotes /\ quote[on[p]] = "approved" /\ quoted[on[p]] \in Contents /\ HoldsOrg(p)
    BY DEF IInv, HoldInv, HoldsOrg, RowInv, CopyQuote
  <1>2. PICK i \in Invoices : RaiseInvoice(p, i, quoted[on[p]])
    BY DEF CopyQuote
  <1> HIDE DEF RaiseInvoice
  <1> QED BY <1>1, <1>2, RaiseInv

LEMMA RefuseNumberInv == ASSUME IInv, NEW p \in Requests, RefuseNumber(p) PROVE IInv'
  <1> USE BillingAssumption DEF IInv, RefuseNumber, Goto, quotes, invoices, request, NotARow
  <1>1. TypeOK'
    BY DEF TypeOK, HoldInv, QuoteStatus, InvoiceStatus, Points, QuoteMoves, InvoiceMoves
  <1>2. HoldInv'
    BY DEF TypeOK, HoldInv, LockInv, HoldsQuote, HoldsInvoice, HoldsOrg
  <1>3. LockInv'
    BY DEF TypeOK, HoldInv, LockInv, HoldsQuote, HoldsInvoice, HoldsOrg
  <1>4. RowInv'
    BY DEF TypeOK, HoldInv, RowInv
  <1>5. NumberInv'
    BY DEF TypeOK, HoldInv, RowInv, NumberInv, NumbersOncePerOrg, HoldsOrg
  <1>6. BilledQuoteStands'
    BY DEF TypeOK, HoldInv, LockInv, RowInv, BilledQuoteStands, HoldsQuote
  <1>7. SettledOnceCovered'
    BY DEF TypeOK, HoldInv, RowInv, SettledOnceCovered
  <1> QED BY <1>1, <1>2, <1>3, <1>4, <1>5, <1>6, <1>7

LEMMA AnswerConflictInv == ASSUME IInv, NEW p \in Requests, AnswerConflict(p) PROVE IInv'
  <1> USE BillingAssumption DEF IInv, AnswerConflict, Finish, Goto, Pick, quotes, invoices, request, NotARow
  <1>1. TypeOK'
    BY DEF TypeOK, HoldInv, QuoteStatus, InvoiceStatus, Points, QuoteMoves, InvoiceMoves
  <1>2. HoldInv'
    BY DEF TypeOK, HoldInv, LockInv, HoldsQuote, HoldsInvoice, HoldsOrg
  <1>3. LockInv'
    BY DEF TypeOK, HoldInv, LockInv, HoldsQuote, HoldsInvoice, HoldsOrg
  <1>4. RowInv'
    BY DEF TypeOK, HoldInv, RowInv
  <1>5. NumberInv'
    BY DEF TypeOK, HoldInv, RowInv, NumberInv, NumbersOncePerOrg, HoldsOrg
  <1>6. BilledQuoteStands'
    BY DEF TypeOK, HoldInv, LockInv, RowInv, BilledQuoteStands, HoldsQuote
  <1>7. SettledOnceCovered'
    BY DEF TypeOK, HoldInv, RowInv, SettledOnceCovered
  <1> QED BY <1>1, <1>2, <1>3, <1>4, <1>5, <1>6, <1>7

LEMMA ClaimInvoiceInv == ASSUME IInv, NEW p \in Requests, ClaimInvoice(p) PROVE IInv'
  <1> USE BillingAssumption DEF IInv, ClaimInvoice, Goto, Pick, LockedInvoice, quotes, invoices, request, NotARow
  <1>1. TypeOK'
    BY DEF TypeOK, HoldInv, QuoteStatus, InvoiceStatus, Points, QuoteMoves, InvoiceMoves
  <1>2. HoldInv'
    BY DEF TypeOK, HoldInv, LockInv, HoldsQuote, HoldsInvoice, HoldsOrg
  <1>3. LockInv'
    BY DEF TypeOK, HoldInv, LockInv, HoldsQuote, HoldsInvoice, HoldsOrg
  <1>4. RowInv'
    BY DEF TypeOK, HoldInv, RowInv
  <1>5. NumberInv'
    BY DEF TypeOK, HoldInv, RowInv, NumberInv, NumbersOncePerOrg, HoldsOrg
  <1>6. BilledQuoteStands'
    BY DEF TypeOK, HoldInv, LockInv, RowInv, BilledQuoteStands, HoldsQuote
  <1>7. SettledOnceCovered'
    BY DEF TypeOK, HoldInv, RowInv, SettledOnceCovered
  <1> QED BY <1>1, <1>2, <1>3, <1>4, <1>5, <1>6, <1>7

LEMMA SaveInvoiceInv == ASSUME IInv, NEW p \in Requests, SaveInvoice(p) PROVE IInv'
  <1> USE BillingAssumption DEF IInv, SaveInvoice, Finish, Goto, Pick, quotes, invoices, request, NotARow
  <1>1. TypeOK'
    BY DEF TypeOK, HoldInv, QuoteStatus, InvoiceStatus, Points, QuoteMoves, InvoiceMoves
  <1>2. HoldInv'
    BY DEF TypeOK, HoldInv, LockInv, HoldsQuote, HoldsInvoice, HoldsOrg
  <1>3. LockInv'
    BY DEF TypeOK, HoldInv, LockInv, HoldsQuote, HoldsInvoice, HoldsOrg
  <1>4. RowInv'
    BY DEF TypeOK, HoldInv, RowInv
  <1>5. NumberInv'
    BY DEF TypeOK, HoldInv, RowInv, NumberInv, NumbersOncePerOrg, HoldsOrg
  <1>6. BilledQuoteStands'
    BY DEF TypeOK, HoldInv, LockInv, RowInv, BilledQuoteStands, HoldsQuote
  <1>7. SettledOnceCovered'
    <2>1. on[p] \in Invoices /\ invoice[on[p]] = "draft"
      BY DEF HoldInv
    <2>2. paid[on[p]] = 0
      BY <2>1 DEF RowInv
    <2>3. \A i \in Invoices : i # on[p] => content'[i] = content[i]
      BY DEF TypeOK
    <2> QED BY <2>2, <2>3 DEF SettledOnceCovered
  <1> QED BY <1>1, <1>2, <1>3, <1>4, <1>5, <1>6, <1>7

LEMMA ReadInvoiceInv == ASSUME IInv, NEW p \in Requests, ReadInvoice(p) PROVE IInv'
  <1> USE BillingAssumption DEF IInv, ReadInvoice, Goto, Pick, quotes, invoices, request, NotARow
  <1>1. TypeOK'
    BY DEF TypeOK, HoldInv, QuoteStatus, InvoiceStatus, Points, QuoteMoves, InvoiceMoves
  <1>2. HoldInv'
    BY DEF TypeOK, HoldInv, LockInv, HoldsQuote, HoldsInvoice, HoldsOrg
  <1>3. LockInv'
    BY DEF TypeOK, HoldInv, LockInv, HoldsQuote, HoldsInvoice, HoldsOrg
  <1>4. RowInv'
    BY DEF TypeOK, HoldInv, RowInv
  <1>5. NumberInv'
    BY DEF TypeOK, HoldInv, RowInv, NumberInv, NumbersOncePerOrg, HoldsOrg
  <1>6. BilledQuoteStands'
    BY DEF TypeOK, HoldInv, LockInv, RowInv, BilledQuoteStands, HoldsQuote
  <1>7. SettledOnceCovered'
    BY DEF TypeOK, HoldInv, RowInv, SettledOnceCovered
  <1> QED BY <1>1, <1>2, <1>3, <1>4, <1>5, <1>6, <1>7

LEMMA MoveInvoiceInv == ASSUME IInv, NEW p \in Requests, MoveInvoice(p) PROVE IInv'
  <1> USE BillingAssumption DEF IInv, MoveInvoice, Finish, Goto, Pick, LockedInvoice, quotes, invoices, request, NotARow
  <1>0. on[p] \in Invoices /\ from[p] \in {"draft", "sent"} /\ to[p] \in {"sent", "paid", "void"}
    BY InvoiceMovesAre DEF HoldInv
  <1>a. \A i \in Invoices : invoice'[i] # invoice[i] =>
          invoice[i] \in {"draft", "sent"} /\ invoice'[i] \in {"sent", "paid", "void"}
    BY <1>0 DEF TypeOK
  <1>1. TypeOK'
    BY <1>0 DEF TypeOK, Points, InvoiceStatus
  <1>2. HoldInv'
    BY DEF TypeOK, HoldInv, LockInv, HoldsQuote, HoldsInvoice, HoldsOrg
  <1>3. LockInv'
    BY DEF TypeOK, HoldInv, LockInv, HoldsQuote, HoldsInvoice, HoldsOrg
  <1>4. RowInv'
    BY <1>a DEF TypeOK, RowInv
  <1>5. NumberInv'
    BY DEF TypeOK, HoldInv, RowInv, NumberInv, NumbersOncePerOrg, HoldsOrg
  <1>6. BilledQuoteStands'
    BY DEF TypeOK, HoldInv, LockInv, RowInv, BilledQuoteStands, HoldsQuote
  <1>7. SettledOnceCovered'
    BY <1>a DEF TypeOK, RowInv, SettledOnceCovered
  <1> QED BY <1>1, <1>2, <1>3, <1>4, <1>5, <1>6, <1>7

LEMMA DeleteInvoiceInv == ASSUME IInv, NEW p \in Requests, DeleteInvoice(p) PROVE IInv'
  <1> USE BillingAssumption DEF IInv, DeleteInvoice, LockedInvoice, quotes, invoices, request, NotARow
  <1>1. TypeOK'
    BY DEF TypeOK, HoldInv, QuoteStatus, InvoiceStatus, Points, QuoteMoves, InvoiceMoves
  <1>2. HoldInv'
    BY DEF TypeOK, HoldInv, LockInv, HoldsQuote, HoldsInvoice, HoldsOrg
  <1>3. LockInv'
    BY DEF TypeOK, HoldInv, LockInv, HoldsQuote, HoldsInvoice, HoldsOrg
  <1>4. RowInv'
    BY DEF TypeOK, HoldInv, RowInv
  <1>5. NumberInv'
    BY DEF TypeOK, HoldInv, RowInv, NumberInv, NumbersOncePerOrg, HoldsOrg
  <1>6. BilledQuoteStands'
    BY DEF TypeOK, HoldInv, LockInv, RowInv, BilledQuoteStands, HoldsQuote
  <1>7. SettledOnceCovered'
    BY DEF TypeOK, HoldInv, RowInv, SettledOnceCovered
  <1> QED BY <1>1, <1>2, <1>3, <1>4, <1>5, <1>6, <1>7

LEMMA LockPayableInv == ASSUME IInv, NEW p \in Requests, LockPayable(p) PROVE IInv'
  <1> USE BillingAssumption DEF IInv, LockPayable, Goto, Pick, LockedInvoice, quotes, invoices, request, NotARow
  <1>1. TypeOK'
    BY DEF TypeOK, HoldInv, QuoteStatus, InvoiceStatus, Points, QuoteMoves, InvoiceMoves
  <1>2. HoldInv'
    BY DEF TypeOK, HoldInv, LockInv, HoldsQuote, HoldsInvoice, HoldsOrg
  <1>3. LockInv'
    BY DEF TypeOK, HoldInv, LockInv, HoldsQuote, HoldsInvoice, HoldsOrg
  <1>4. RowInv'
    BY DEF TypeOK, HoldInv, RowInv
  <1>5. NumberInv'
    BY DEF TypeOK, HoldInv, RowInv, NumberInv, NumbersOncePerOrg, HoldsOrg
  <1>6. BilledQuoteStands'
    BY DEF TypeOK, HoldInv, LockInv, RowInv, BilledQuoteStands, HoldsQuote
  <1>7. SettledOnceCovered'
    BY DEF TypeOK, HoldInv, RowInv, SettledOnceCovered
  <1> QED BY <1>1, <1>2, <1>3, <1>4, <1>5, <1>6, <1>7

LEMMA RecordPaymentInv == ASSUME IInv, NEW p \in Requests, RecordPayment(p) PROVE IInv'
  <1> USE BillingAssumption DEF IInv, RecordPayment, Finish, Goto, Pick, quotes, invoices, request, NotARow
  <1>1. TypeOK'
    BY DEF TypeOK, HoldInv, QuoteStatus, InvoiceStatus, Points, QuoteMoves, InvoiceMoves
  <1>2. HoldInv'
    BY DEF TypeOK, HoldInv, LockInv, HoldsQuote, HoldsInvoice, HoldsOrg
  <1>3. LockInv'
    BY DEF TypeOK, HoldInv, LockInv, HoldsQuote, HoldsInvoice, HoldsOrg
  <1>4. RowInv'
    <2>1. \A i \in Invoices : invoice[i] \in NotARow \cup {"draft"} => i # on[p]
      BY DEF TypeOK, HoldInv
    <2>2. \A i \in Invoices : invoice'[i] # invoice[i] => invoice'[i] = "paid" /\ i = on[p]
      BY DEF TypeOK
    <2>3. \A i \in Invoices : i # on[p] => paid'[i] = paid[i]
      BY DEF TypeOK
    <2> QED BY <2>1, <2>2, <2>3 DEF TypeOK, HoldInv, RowInv
  <1>5. NumberInv'
    BY DEF TypeOK, HoldInv, RowInv, NumberInv, NumbersOncePerOrg, HoldsOrg
  <1>6. BilledQuoteStands'
    BY DEF TypeOK, HoldInv, LockInv, RowInv, BilledQuoteStands, HoldsQuote
  <1>7. SettledOnceCovered'
    <2> PICK a \in Amounts :
          /\ paid' = [paid EXCEPT ![on[p]] = @ + a]
          /\ invoice' = [invoice EXCEPT ![on[p]] =
                IF @ = "sent" /\ paid[on[p]] + a >= Due[content[on[p]]] THEN "paid" ELSE @]
      OBVIOUS
    <2>1. on[p] \in Invoices /\ invoice[on[p]] \in {"sent", "paid"}
      BY DEF HoldInv
    <2>2. ASSUME NEW i \in Invoices, paid'[i] > 0, paid'[i] >= Due[content[i]]
          PROVE  invoice'[i] \in {"paid", "void"}
      <3>1. CASE i = on[p]
        BY <2>1, <2>2, <3>1 DEF TypeOK
      <3>2. CASE i # on[p]
        BY <2>2, <3>2 DEF TypeOK, SettledOnceCovered
      <3> QED BY <3>1, <3>2
    <2> QED BY <2>2 DEF SettledOnceCovered
  <1> QED BY <1>1, <1>2, <1>3, <1>4, <1>5, <1>6, <1>7

LEMMA FailInv == ASSUME IInv, NEW p \in Requests, Fail(p) PROVE IInv'
  <1> USE BillingAssumption DEF IInv, Fail, Finish, Goto, Pick, quotes, invoices, request, NotARow
  <1>1. TypeOK'
    BY DEF TypeOK, HoldInv, QuoteStatus, InvoiceStatus, Points, QuoteMoves, InvoiceMoves
  <1>2. HoldInv'
    BY DEF TypeOK, HoldInv, LockInv, HoldsQuote, HoldsInvoice, HoldsOrg
  <1>3. LockInv'
    BY DEF TypeOK, HoldInv, LockInv, HoldsQuote, HoldsInvoice, HoldsOrg
  <1>4. RowInv'
    BY DEF TypeOK, HoldInv, RowInv
  <1>5. NumberInv'
    BY DEF TypeOK, HoldInv, RowInv, NumberInv, NumbersOncePerOrg, HoldsOrg
  <1>6. BilledQuoteStands'
    BY DEF TypeOK, HoldInv, LockInv, RowInv, BilledQuoteStands, HoldsQuote
  <1>7. SettledOnceCovered'
    BY DEF TypeOK, HoldInv, RowInv, SettledOnceCovered
  <1> QED BY <1>1, <1>2, <1>3, <1>4, <1>5, <1>6, <1>7
LEMMA StutterInv == ASSUME IInv, UNCHANGED vars PROVE IInv'
  BY DEF vars, IInv, TypeOK, HoldInv, LockInv, RowInv, NumberInv, NumbersOncePerOrg,
     BilledQuoteStands, SettledOnceCovered, HoldsQuote, HoldsInvoice, HoldsOrg

LEMMA StepInv == ASSUME IInv, [Next]_vars PROVE IInv'
  <1>1. CASE UNCHANGED vars
    BY <1>1, StutterInv
  <1>2. CASE Next
    <2> PICK p \in Requests : QuoteStep(p) \/ RaiseStep(p) \/ InvoiceStep(p) \/ Fail(p)
      BY <1>2 DEF Next
    <2>1. CASE QuoteStep(p)
      BY <2>1, CreateQuoteInv, ClaimQuoteInv, SaveQuoteInv, ReadQuoteInv, MoveQuoteInv,
         DeleteQuoteInv DEF QuoteStep
    <2>2. CASE RaiseStep(p)
      BY <2>2, ComposeInvoiceInv, BillQuoteInv, NumberBillInv, CreateInvoiceInv, CopyQuoteInv,
         RefuseNumberInv, AnswerConflictInv DEF RaiseStep
    <2>3. CASE InvoiceStep(p)
      BY <2>3, ClaimInvoiceInv, SaveInvoiceInv, ReadInvoiceInv, MoveInvoiceInv,
         DeleteInvoiceInv, LockPayableInv, RecordPaymentInv DEF InvoiceStep
    <2>4. CASE Fail(p)
      BY <2>4, FailInv
    <2> QED BY <2>1, <2>2, <2>3, <2>4
  <1> QED BY <1>1, <1>2

(* The strengthening holds in every reachable state. *)
THEOREM Invariance == Spec => []IInv
  BY InitInv, StepInv, PTL DEF Spec

(* Columns and requests keep their types (quotes/store.go, invoices/store.go). *)
THEOREM TypeCorrect == Spec => []TypeOK
  BY Invariance, PTL DEF IInv

(* A billed quote stays approved and unchanged (quotes/service.go:26). *)
THEOREM BilledStands == Spec => []BilledQuoteStands
  BY Invariance, PTL DEF IInv

(* A covered invoice is settled (invoices/store.go:436). *)
THEOREM Settles == Spec => []SettledOnceCovered
  BY Invariance, PTL DEF IInv

(* No organisation repeats a number (invoices/store.go:266). *)
THEOREM NumbersOnce == Spec => []NumbersOncePerOrg
  BY Invariance, PTL DEF IInv, NumberInv
-----------------------------------------------------------------------------
(* Refinement: the steps that show in the tables are operations of the     *)
(* book, each with the guard the request checked when it took its lock.    *)
QuoteEdges   == QuoteMoves \cup {<<"draft", "gone">>}
InvoiceEdges == InvoiceMoves \cup {<<"draft", "gone">>}
bookVars     == <<quote, quoted, invoice, content, source, paid>>

LEMMA QuoteBookStep ==
  ASSUME IInv, NEW p \in Requests, QuoteStep(p)
  PROVE  Book!Next \/ UNCHANGED bookVars
  <1> USE DEF IInv, invoices, quotes, bookVars
  <1>1. CASE CreateQuote(p)
    <2>1. PICK q \in Quotes, c \in Contents : Book!WriteQuote(q, c)
      BY <1>1 DEF CreateQuote, Book!WriteQuote
    <2> QED BY <2>1 DEF Book!Next
  <1>2. CASE ClaimQuote(p) \/ ReadQuote(p)
    BY <1>2 DEF ClaimQuote, ReadQuote
  <1>3. CASE SaveQuote(p)
    <2>1. on[p] \in Quotes /\ quote[on[p]] = "draft"
      BY <1>3 DEF SaveQuote, HoldInv
    <2>2. PICK c \in Contents : quoted' = [quoted EXCEPT ![on[p]] = c]
      BY <1>3 DEF SaveQuote
    <2>3. quote' = [quote EXCEPT ![on[p]] = "draft"]
      BY <1>3, <2>1 DEF SaveQuote, TypeOK
    <2>4. Book!WriteQuote(on[p], c)
      BY <1>3, <2>1, <2>2, <2>3 DEF SaveQuote, Book!WriteQuote
    <2> QED BY <2>1, <2>4 DEF Book!Next
  <1>4. CASE MoveQuote(p)
    <2>1. on[p] \in Quotes /\ <<from[p], to[p]>> \in QuoteEdges
      BY <1>4 DEF MoveQuote, HoldInv, QuoteEdges
    <2>2. CASE quote[on[p]] = from[p]
      <3>1. quote' = [quote EXCEPT ![on[p]] = to[p]]
        BY <1>4, <2>2 DEF MoveQuote
      <3>2. Book!TurnQuote(on[p], to[p])
        BY <1>4, <2>1, <2>2, <3>1 DEF MoveQuote, Book!TurnQuote, QuoteEdges
      <3>3. to[p] \in {e[2] : e \in QuoteEdges}
        BY <2>1
      <3> QED BY <2>1, <3>2, <3>3 DEF Book!Next, QuoteEdges
    <2>3. CASE quote[on[p]] # from[p]
      <3>1. quote' = quote
        BY <1>4, <2>1, <2>3 DEF MoveQuote, TypeOK
      <3> QED BY <1>4, <3>1 DEF MoveQuote
    <2> QED BY <2>2, <2>3
  <1>5. CASE DeleteQuote(p)
    <2>1. PICK q \in Quotes : quote[q] = "draft" /\ quote' = [quote EXCEPT ![q] = "gone"]
      BY <1>5 DEF DeleteQuote
    <2>a. <<"draft", "gone">> \in QuoteEdges
      BY DEF QuoteEdges
    <2>2. <<"draft", "gone">> \in QuoteEdges /\ "gone" \in {e[2] : e \in QuoteEdges}
      BY <2>a
    <2>3. Book!TurnQuote(q, "gone")
      BY <1>5, <2>1, <2>2 DEF DeleteQuote, Book!TurnQuote, QuoteEdges
    <2> QED BY <2>2, <2>3 DEF Book!Next, QuoteEdges
  <1> QED BY <1>1, <1>2, <1>3, <1>4, <1>5 DEF QuoteStep

LEMMA RaiseBookStep ==
  ASSUME IInv, NEW p \in Requests, RaiseStep(p)
  PROVE  Book!Next \/ UNCHANGED bookVars
  <1> USE BillingAssumption DEF IInv, invoices, quotes, bookVars
  <1>1. CASE CreateInvoice(p)
    <2>1. on[p] = None
      BY <1>1 DEF CreateInvoice, HoldInv
    <2>2. PICK i \in Invoices, c \in Contents : RaiseInvoice(p, i, c)
      BY <1>1 DEF CreateInvoice
    <2>3. Book!RaiseInvoice(i, None, c)
      BY <2>1, <2>2 DEF RaiseInvoice, Book!RaiseInvoice
    <2> QED BY <2>3 DEF Book!Next
  <1>2. CASE CopyQuote(p)
    <2>1. on[p] \in Quotes /\ quote[on[p]] = "approved" /\ quoted[on[p]] \in Contents
      BY <1>2 DEF CopyQuote, HoldInv, RowInv
    <2>2. PICK i \in Invoices : RaiseInvoice(p, i, quoted[on[p]])
      BY <1>2 DEF CopyQuote
    <2>3. Book!RaiseInvoice(i, on[p], quoted[on[p]])
      BY <2>1, <2>2 DEF RaiseInvoice, Book!RaiseInvoice
    <2> QED BY <2>1, <2>3 DEF Book!Next
  <1>3. CASE ComposeInvoice(p) \/ BillQuote(p) \/ NumberBill(p)
    BY <1>3 DEF ComposeInvoice, BillQuote, NumberBill
  <1>4. CASE RefuseNumber(p) \/ AnswerConflict(p)
    BY <1>4 DEF RefuseNumber, AnswerConflict
  <1> QED BY <1>1, <1>2, <1>3, <1>4 DEF RaiseStep

LEMMA InvoiceBookStep ==
  ASSUME IInv, NEW p \in Requests, InvoiceStep(p)
  PROVE  Book!Next \/ UNCHANGED bookVars
  <1> USE DEF IInv, invoices, quotes, bookVars
  <1>1. CASE ClaimInvoice(p) \/ ReadInvoice(p) \/ LockPayable(p)
    BY <1>1 DEF ClaimInvoice, ReadInvoice, LockPayable
  <1>2. CASE SaveInvoice(p)
    <2>1. on[p] \in Invoices /\ invoice[on[p]] = "draft"
      BY <1>2 DEF SaveInvoice, HoldInv
    <2>2. PICK c \in Contents : content' = [content EXCEPT ![on[p]] = c]
      BY <1>2 DEF SaveInvoice
    <2>3. Book!WriteInvoice(on[p], c)
      BY <1>2, <2>1, <2>2 DEF SaveInvoice, Book!WriteInvoice
    <2> QED BY <2>1, <2>3 DEF Book!Next
  <1>3. CASE MoveInvoice(p)
    <2>1. on[p] \in Invoices /\ <<from[p], to[p]>> \in InvoiceEdges
      BY <1>3 DEF MoveInvoice, HoldInv, InvoiceEdges
    <2>2. CASE invoice[on[p]] = from[p]
      <3>1. invoice' = [invoice EXCEPT ![on[p]] = to[p]]
        BY <1>3, <2>2 DEF MoveInvoice
      <3>2. Book!TurnInvoice(on[p], to[p])
        BY <1>3, <2>1, <2>2, <3>1 DEF MoveInvoice, Book!TurnInvoice, InvoiceEdges
      <3>3. to[p] \in {e[2] : e \in InvoiceEdges}
        BY <2>1
      <3> QED BY <2>1, <3>2, <3>3 DEF Book!Next, InvoiceEdges
    <2>3. CASE invoice[on[p]] # from[p]
      <3>1. invoice' = invoice
        BY <1>3, <2>1, <2>3 DEF MoveInvoice, TypeOK
      <3> QED BY <1>3, <3>1 DEF MoveInvoice
    <2> QED BY <2>2, <2>3
  <1>4. CASE DeleteInvoice(p)
    <2>1. PICK i \in Invoices : invoice[i] = "draft" /\ invoice' = [invoice EXCEPT ![i] = "gone"]
      BY <1>4 DEF DeleteInvoice
    <2>a. <<"draft", "gone">> \in InvoiceEdges
      BY DEF InvoiceEdges
    <2>2. <<"draft", "gone">> \in InvoiceEdges /\ "gone" \in {e[2] : e \in InvoiceEdges}
      BY <2>a
    <2>3. Book!TurnInvoice(i, "gone")
      BY <1>4, <2>1, <2>2 DEF DeleteInvoice, Book!TurnInvoice, InvoiceEdges
    <2> QED BY <2>2, <2>3 DEF Book!Next, InvoiceEdges
  <1>5. CASE RecordPayment(p)
    <2>1. on[p] \in Invoices /\ invoice[on[p]] \in {"sent", "paid"}
      BY <1>5 DEF RecordPayment, HoldInv
    <2>2. PICK a \in Amounts :
            /\ paid' = [paid EXCEPT ![on[p]] = @ + a]
            /\ invoice' = [invoice EXCEPT ![on[p]] =
                 IF @ = "sent" /\ paid[on[p]] + a >= Due[content[on[p]]] THEN "paid" ELSE @]
      BY <1>5 DEF RecordPayment
    <2>3. invoice' = [invoice EXCEPT ![on[p]] =
                 IF paid[on[p]] + a >= Due[content[on[p]]] THEN "paid" ELSE @]
      BY <2>1, <2>2
    <2>4. Book!Receive(on[p], a)
      BY <1>5, <2>1, <2>2, <2>3 DEF RecordPayment, Book!Receive
    <2> QED BY <2>1, <2>4 DEF Book!Next
  <1> QED BY <1>1, <1>2, <1>3, <1>4, <1>5 DEF InvoiceStep

LEMMA BookStep == ASSUME IInv, [Next]_vars PROVE [Book!Next]_(Book!vars)
  <1> USE DEF bookVars, Book!vars
  <1>1. CASE UNCHANGED vars
    BY <1>1 DEF vars
  <1>2. ASSUME NEW p \in Requests, QuoteStep(p) \/ RaiseStep(p) \/ InvoiceStep(p)
        PROVE  [Book!Next]_(Book!vars)
    BY <1>2, QuoteBookStep, RaiseBookStep, InvoiceBookStep
  <1>3. ASSUME NEW p \in Requests, Fail(p) PROVE [Book!Next]_(Book!vars)
    BY <1>3 DEF Fail, quotes, invoices
  <1> QED BY <1>1, <1>2, <1>3 DEF Next

(* Concurrent requests are a history of whole operations on documents, so  *)
(* quotes/store.go and invoices/store.go implement BillingBook.            *)
THEOREM Refinement == Spec => BookSpec
  <1>1. Init => Book!Init
    BY DEF Init, Book!Init
  <1> QED BY <1>1, BookStep, Invariance, PTL DEF Spec, BookSpec, Book!Spec

-----------------------------------------------------------------------------
LEMMA ContentStep ==
  ASSUME IInv, [Next]_vars
  PROVE  /\ \A q \in Quotes : quoted'[q] # quoted[q] => quote[q] \in {"none", "draft"}
         /\ \A i \in Invoices : content'[i] # content[i] => invoice[i] \in {"none", "draft"}
  <1> USE DEF IInv, TypeOK
  <1>1. CASE UNCHANGED Book!vars
    BY <1>1 DEF Book!vars
  <1>2. CASE Book!Next
    BY <1>2 DEF Book!Next, Book!WriteQuote, Book!TurnQuote, Book!RaiseInvoice,
       Book!WriteInvoice, Book!TurnInvoice, Book!Receive
  <1> QED BY <1>1, <1>2, BookStep

LEMMA MoneyStep ==
  ASSUME IInv, [Next]_vars
  PROVE  \A i \in Invoices : paid'[i] # paid[i] => invoice[i] \in {"sent", "paid"}
  <1> USE DEF IInv, TypeOK
  <1>1. CASE UNCHANGED Book!vars
    BY <1>1 DEF Book!vars
  <1>2. CASE Book!Next
    BY <1>2 DEF Book!Next, Book!WriteQuote, Book!TurnQuote, Book!RaiseInvoice,
       Book!WriteInvoice, Book!TurnInvoice, Book!Receive
  <1> QED BY <1>1, <1>2, BookStep

(* What has left draft keeps its content in every interleaving             *)
(* (quotes/store.go:266, invoices/store.go:326).                           *)
THEOREM IssuedStays == Spec => IssuedNeverEdited
  BY Invariance, ContentStep, PTL DEF Spec, IssuedNeverEdited

(* A receipt never lands on a draft or on a void invoice                   *)
(* (invoices/store.go:405).                                                *)
THEOREM MoneyGuarded == Spec => MoneyOnlyOnIssued
  BY Invariance, MoneyStep, PTL DEF Spec, MoneyOnlyOnIssued

(* A billed quote and a covered invoice stand, whatever requests on them   *)
(* overlap (invoices/fromquote.go:45, invoices/store.go:440).              *)
THEOREM BooksRight == Spec => []BooksStand
  BY BilledStands, Settles, PTL DEF BooksStand

(* What was sent to a customer is not edited, and nothing else takes money *)
(* (quotes/store.go:266, invoices/store.go:405).                           *)
THEOREM IssuedRight == Spec => IssuedStands
  BY IssuedStays, MoneyGuarded DEF IssuedStands

-----------------------------------------------------------------------------
(* Money.  A quote that was written carries the total of its lines, and an *)
(* invoice that nobody has edited since it was raised has the lines of its *)
(* quote, which can no longer change; lines that were sent as their        *)
(* columns keep them come out of these columns as they are.                *)
IsOffer(x) ==
  x = [status |-> x.status, items |-> x.items, subtotal |-> x.subtotal, tax |-> x.tax,
       total |-> x.total, exact |-> x.exact]

IsBill(x) ==
  x = [status |-> x.status, items |-> x.items, due |-> x.due, day |-> x.day, paid |-> x.paid,
       source |-> x.source, copied |-> x.copied, exact |-> x.exact]

Settled(items) == replaceItems(<<>>, AsRead(items)) = items

MoneyInv ==
  /\ DOMAIN offer = Offers /\ offer = [o \in Offers |-> offer[o]] /\ \A o \in Offers : IsOffer(offer[o])
  /\ DOMAIN bill = Bills /\ bill = [b \in Bills |-> bill[b]] /\ \A b \in Bills : IsBill(bill[b])
  /\ \A o \in Offers : offer[o].status # "none" => offer[o].total = Total(offer[o].items)
  /\ \A o \in Offers : offer[o].exact => Settled(offer[o].items)
  /\ \A b \in Bills : bill[b].exact => Settled(bill[b].items)
  /\ \A b \in Bills : bill[b].copied =>
       \A o \in bill[b].source :
         /\ o \in Offers /\ offer[o].status = "approved"
         /\ bill[b].items = offer[o].items /\ bill[b].due = Total(bill[b].items)

(* The rows that were there do not matter to those that replace them.      *)
LEMMA LinesReplaced == \A old, new, lines : replaceItems(old, lines) = replaceItems(new, lines)
  BY DEF replaceItems

LEMMA ExactSettles ==
  ASSUME NEW old, NEW lines, NEW items, items = replaceItems(old, lines), Exact(lines, items)
  PROVE  Settled(items)
  BY DEF Settled, Exact, replaceItems

LEMMA NothingSettles == Settled(<<>>)
  BY DEF Settled, AsRead, replaceItems

LEMMA InitMoneyInv == MoneyInit => MoneyInv
<1> SUFFICES ASSUME MoneyInit PROVE MoneyInv
  OBVIOUS
<1>1. IsOffer(NoOffer) /\ NoOffer.status = "none" /\ NoOffer.items = <<>>
  BY DEF IsOffer, NoOffer
<1>2. IsBill(NoBill) /\ NoBill.status = "none" /\ NoBill.items = <<>> /\ ~ NoBill.copied
  BY DEF IsBill, NoBill
<1> QED
  BY <1>1, <1>2, NothingSettles DEF MoneyInit, MoneyInv

(* A quote becomes x: it was not approved.                                 *)
LEMMA OfferChanges ==
  ASSUME MoneyInv, NEW o \in Offers, NEW x, IsOffer(x), offer' = [offer EXCEPT ![o] = x],
         bill' = bill, offer[o].status # "approved",
         x.status # "none" => x.total = Total(x.items), x.exact => Settled(x.items)
  PROVE  MoneyInv'
<1>0. \A b \in Bills : bill[b].copied =>
        \A p \in bill[b].source :
          /\ p \in Offers /\ offer[p].status = "approved"
          /\ bill[b].items = offer[p].items /\ bill[b].due = Total(bill[b].items)
  BY Zenon DEF MoneyInv
<1> USE DEF MoneyInv
<1>1. /\ DOMAIN offer' = Offers /\ offer'[o] = x
      /\ \A p \in Offers : p # o => offer'[p] = offer[p]
  OBVIOUS
<1>2. offer' = [p \in Offers |-> offer'[p]]
  BY <1>1
<1>3. \A p \in Offers : IsOffer(offer'[p])
  BY <1>1
<1>4. \A p \in Offers : /\ offer'[p].status # "none" => offer'[p].total = Total(offer'[p].items)
                        /\ offer'[p].exact => Settled(offer'[p].items)
  BY <1>1
<1>5. \A b \in Bills : bill'[b].copied =>
        \A p \in bill'[b].source :
          /\ p \in Offers /\ offer'[p].status = "approved"
          /\ bill'[b].items = offer'[p].items /\ bill'[b].due = Total(bill'[b].items)
  <2> HIDE DEF MoneyInv
  <2>1. \A b \in Bills : bill[b].copied => \A p \in bill[b].source : p \in Offers /\ offer'[p] = offer[p]
    BY <1>0, <1>1
  <2> QED
    BY <1>0, <2>1
<1> QED
  BY <1>1, <1>2, <1>3, <1>4, <1>5

(* An invoice becomes x.                                                   *)
LEMMA BillChanges ==
  ASSUME MoneyInv, NEW b \in Bills, NEW x, IsBill(x), bill' = [bill EXCEPT ![b] = x],
         offer' = offer, x.exact => Settled(x.items),
         x.copied => \A o \in x.source :
           /\ o \in Offers /\ offer[o].status = "approved"
           /\ x.items = offer[o].items /\ x.due = Total(x.items)
  PROVE  MoneyInv'
<1> USE DEF MoneyInv
<1>1. /\ DOMAIN bill' = Bills /\ bill'[b] = x
      /\ \A c \in Bills : c # b => bill'[c] = bill[c]
  OBVIOUS
<1>2. bill' = [c \in Bills |-> bill'[c]]
  BY <1>1
<1>3. \A c \in Bills : IsBill(bill'[c])
  BY <1>1
<1>4. \A c \in Bills : bill'[c].exact => Settled(bill'[c].items)
  BY <1>1
<1>5. \A c \in Bills : bill'[c].copied =>
        \A o \in bill'[c].source :
          /\ o \in Offers /\ offer[o].status = "approved"
          /\ bill'[c].items = offer[o].items /\ bill'[c].due = Total(bill'[c].items)
  BY <1>1
<1> QED
  BY <1>1, <1>2, <1>3, <1>4, <1>5, SMTT(60)

(* What a client sends, or has read, is saved.                             *)
LEMMA LinesSaved ==
  ASSUME MoneyInv, NEW o \in Offers, NEW sent, SaveLines(o, sent), bill' = bill,
         offer[o].status \in {"none", "draft"}
  PROVE  MoneyInv'
<1>1. PICK lines : lines = normalize(sent)
  OBVIOUS
<1>2. PICK items : items = replaceItems(offer[o].items, lines)
  OBVIOUS
<1>3. PICK x : x = [status |-> "draft", items |-> items, subtotal |-> Summed(items, Gross),
                    tax |-> Summed(items, Tax), total |-> Total(items), exact |-> Exact(lines, items)]
  OBVIOUS
<1>4. offer' = [offer EXCEPT ![o] = x]
  BY <1>1, <1>2, <1>3 DEF SaveLines
<1>5. IsOffer(x) /\ x.total = Total(x.items) /\ x.items = items /\ x.exact = Exact(lines, items)
  BY <1>3 DEF IsOffer
<1>6. x.exact => Settled(x.items)
  BY <1>2, <1>5, ExactSettles
<1> QED
  BY <1>4, <1>5, <1>6, OfferChanges

LEMMA LinesWritten ==
  ASSUME MoneyInv, NEW b \in Bills, NEW sent, NEW day, WriteLines(b, sent, day), offer' = offer
  PROVE  MoneyInv'
<1>1. PICK lines : lines = normalize(sent)
  OBVIOUS
<1>2. PICK items : items = replaceItems(bill[b].items, lines)
  OBVIOUS
<1>3. PICK x : x = [bill[b] EXCEPT !.status = "draft", !.items = items, !.due = Total(items), !.day = day,
                                   !.copied = FALSE, !.exact = Exact(lines, items)]
  OBVIOUS
<1>4. bill' = [bill EXCEPT ![b] = x]
  BY <1>1, <1>2, <1>3 DEF WriteLines
<1>5. IsBill(bill[b])
  BY DEF MoneyInv
<1>6. IsBill(x) /\ x.items = items /\ x.exact = Exact(lines, items) /\ ~ x.copied
  BY <1>3, <1>5 DEF IsBill
<1>7. x.exact => Settled(x.items)
  BY <1>2, <1>6, ExactSettles
<1> QED
  BY <1>4, <1>6, <1>7, BillChanges

LEMMA OffersKeep ==
  ASSUME MoneyInv, NEW o \in Offers, SaveOffer(o) \/ ResaveOffer(o) \/ MoveOffer(o) \/ DeleteOffer(o)
  PROVE  MoneyInv'
<1>1. CASE SaveOffer(o)
  BY <1>1, LinesSaved DEF SaveOffer
<1>2. CASE ResaveOffer(o)
  BY <1>2, LinesSaved DEF ResaveOffer
<1>3. CASE MoveOffer(o)
  <2>1. PICK s \in QuoteStatus :
          <<offer[o].status, s>> \in QuoteMoves /\ offer' = [offer EXCEPT ![o].status = s]
    BY <1>3 DEF MoveOffer
  <2>2. offer[o].status \notin {"approved", "none"}
    BY <2>1 DEF QuoteMoves
  <2>3. PICK x : x = [offer[o] EXCEPT !.status = s]
    OBVIOUS
  <2>4. IsOffer(offer[o])
    BY DEF MoneyInv
  <2>5. /\ IsOffer(x) /\ x.items = offer[o].items /\ x.exact = offer[o].exact /\ x.total = offer[o].total
        /\ x.status = s
    BY <2>3, <2>4 DEF IsOffer
  <2>6. x.total = Total(x.items) /\ (x.exact => Settled(x.items))
    BY <2>2, <2>5 DEF MoneyInv
  <2>7. offer' = [offer EXCEPT ![o] = x] /\ bill' = bill
    BY <1>3, <2>1, <2>3 DEF MoveOffer
  <2> QED
    BY <2>2, <2>5, <2>6, <2>7, OfferChanges
<1>4. CASE DeleteOffer(o)
  <2>1. IsOffer(NoOffer) /\ NoOffer.status = "none" /\ Settled(NoOffer.items)
    BY NothingSettles DEF IsOffer, NoOffer
  <2> QED
    BY <1>4, <2>1, OfferChanges DEF DeleteOffer
<1> QED
  BY <1>1, <1>2, <1>3, <1>4

LEMMA BillsKeep ==
  ASSUME MoneyInv, NEW b \in Bills,
         RaiseBill(b) \/ WriteBill(b) \/ ResaveBill(b) \/ MoveBill(b) \/ DeleteBill(b) \/ RecordReceipt(b)
  PROVE  MoneyInv'
<1>1. CASE RaiseBill(b)
  <2>1. PICK o \in Offers, day \in Terms :
          /\ offer[o].status = "approved"
          /\ bill' = [bill EXCEPT ![b] =
               [NoBill EXCEPT !.status = "draft", !.items = offer[o].items, !.due = Total(offer[o].items),
                              !.day = day, !.source = {o}, !.copied = TRUE, !.exact = offer[o].exact]]
    BY <1>1 DEF RaiseBill
  <2>2. PICK x : x =
               [NoBill EXCEPT !.status = "draft", !.items = offer[o].items, !.due = Total(offer[o].items),
                              !.day = day, !.source = {o}, !.copied = TRUE, !.exact = offer[o].exact]
    OBVIOUS
  <2>3. /\ IsBill(x) /\ x.items = offer[o].items /\ x.due = Total(x.items) /\ x.source = {o}
        /\ x.exact = offer[o].exact
    BY <2>2 DEF IsBill, NoBill
  <2>4. x.exact => Settled(x.items)
    BY <2>3 DEF MoneyInv
  <2>5. bill' = [bill EXCEPT ![b] = x] /\ offer' = offer
    BY <1>1, <2>1, <2>2 DEF RaiseBill
  <2> QED
    BY <2>1, <2>3, <2>4, <2>5, BillChanges, ZenonT(60)
<1>2. CASE WriteBill(b)
  BY <1>2, LinesWritten DEF WriteBill
<1>3. CASE ResaveBill(b)
  BY <1>3, LinesWritten DEF ResaveBill
<1>4. ASSUME NEW x, IsBill(x), bill' = [bill EXCEPT ![b] = x], offer' = offer,
             x.items = bill[b].items, x.due = bill[b].due, x.source = bill[b].source,
             x.copied = bill[b].copied, x.exact = bill[b].exact
      PROVE  MoneyInv'
  <2>1. x.exact => Settled(x.items)
    BY <1>4 DEF MoneyInv
  <2>2. x.copied => \A o \in x.source :
          /\ o \in Offers /\ offer[o].status = "approved"
          /\ x.items = offer[o].items /\ x.due = Total(x.items)
    BY <1>4, ZenonT(60) DEF MoneyInv
  <2> QED
    BY <1>4, <2>1, <2>2, BillChanges
<1>5. IsBill(bill[b])
  BY DEF MoneyInv
<1>6. CASE MoveBill(b)
  <2>1. PICK s \in InvoiceStatus : bill' = [bill EXCEPT ![b].status = s] /\ offer' = offer
    BY <1>6 DEF MoveBill
  <2>2. PICK x : x = [bill[b] EXCEPT !.status = s]
    OBVIOUS
  <2>3. /\ IsBill(x) /\ x.items = bill[b].items /\ x.due = bill[b].due /\ x.source = bill[b].source
        /\ x.copied = bill[b].copied /\ x.exact = bill[b].exact
    BY <1>5, <2>2 DEF IsBill
  <2>4. bill' = [bill EXCEPT ![b] = x] /\ offer' = offer
    BY <2>1, <2>2
  <2> QED
    BY <1>4, <2>3, <2>4
<1>7. CASE DeleteBill(b)
  <2>1. IsBill(NoBill) /\ ~ NoBill.copied /\ Settled(NoBill.items)
    BY NothingSettles DEF IsBill, NoBill
  <2> QED
    BY <1>7, <2>1, BillChanges DEF DeleteBill
<1>8. CASE RecordReceipt(b)
  <2>1. PICK amount \in Receipts : bill' = [bill EXCEPT ![b] =
          [bill[b] EXCEPT !.paid = bill[b].paid + Column(amount),
                          !.status = IF bill[b].paid + Column(amount) >= bill[b].due THEN "paid" ELSE @]]
    BY <1>8 DEF RecordReceipt
  <2>2. PICK x : x =
          [bill[b] EXCEPT !.paid = bill[b].paid + Column(amount),
                          !.status = IF bill[b].paid + Column(amount) >= bill[b].due THEN "paid" ELSE @]
    OBVIOUS
  <2>3. /\ IsBill(x) /\ x.items = bill[b].items /\ x.due = bill[b].due /\ x.source = bill[b].source
        /\ x.copied = bill[b].copied /\ x.exact = bill[b].exact
    BY <1>5, <2>2 DEF IsBill
  <2>4. bill' = [bill EXCEPT ![b] = x] /\ offer' = offer
    BY <1>8, <2>1, <2>2 DEF RecordReceipt
  <2> QED
    BY <1>4, <2>3, <2>4
<1> QED
  BY <1>1, <1>2, <1>3, <1>6, <1>7, <1>8

LEMMA MoneyInvariance == MoneySpec => []MoneyInv
<1>1. MoneyInv /\ [MoneyNext]_moneyVars => MoneyInv'
  <2>1. ASSUME MoneyInv, UNCHANGED <<offer, bill>> PROVE MoneyInv'
    BY <2>1, SMTT(60) DEF MoneyInv, IsOffer, IsBill
  <2> QED
    BY <2>1, OffersKeep, BillsKeep DEF MoneyNext, NextDay, moneyVars
<1> QED
  BY <1>1, InitMoneyInv, PTL DEF MoneySpec

(* "A quote and the invoice raised from it can never disagree by a cent"   *)
(* (internal/invoices/store.go), whatever the lines, and a draft whose     *)
(* lines fit their columns is saved as it was read.                        *)
THEOREM NoCentAstray == MoneySpec => []CentsAreKept
<1>1. MoneyInv => CopyKeepsTheCent
  BY DEF MoneyInv, CopyKeepsTheCent
<1>2. MoneyInv => SavingAgainSettles
  BY LinesReplaced DEF MoneyInv, SavingAgainSettles, Settled
<1> QED
  BY <1>1, <1>2, MoneyInvariance, PTL DEF CentsAreKept
-----------------------------------------------------------------------------
(* Sums over finite sets.  Of the subsets of a finite set that lack        *)
(* something, one has no smaller subset that lacks it.                     *)
LEMMA Smallest ==
  ASSUME NEW S, IsFiniteSet(S), NEW Bad, Bad \subseteq SUBSET S, Bad # {}
  PROVE  \E T \in Bad : /\ IsFiniteSet(T)
                        /\ \A U \in SUBSET T : U # T => U \notin Bad
<1>1. PICK R : R = StrictSubsetOrdering(S)
  OBVIOUS
<1>2. IsWellFoundedOn(R, SUBSET S)
  BY <1>1, FS_StrictSubsetOrderingWellFounded, FS_FiniteSubsetsOfFinite
<1>3. PICK T \in Bad : \A U \in Bad : ~ (<<U, T>> \in R)
  BY <1>2, WFMin, Zenon
<1>4. IsFiniteSet(T)
  BY FS_Subset
<1>5. ASSUME NEW U \in SUBSET T, U # T, U \in Bad PROVE FALSE
  <2>1. <<U, T>> \in R
    BY <1>1, <1>5 DEF StrictSubsetOrdering
  <2> QED
    BY <1>3, <1>5, <2>1
<1> QED
  BY <1>4, <1>5

(* What the definition of a sum says of it: f has the sums of all subsets  *)
(* of T, and there is one such f.                                          *)
Any(s) == CHOOSE x \in s : TRUE
SumsOf(F, T, f) == f = [s \in SUBSET T |-> IF s = {} THEN 0 ELSE F[Any(s)] + f[s \ {Any(s)}]]
Adds(F, T) ==
  SumFunctionOnSet(F, T) = IF T = {} THEN 0 ELSE F[Any(T)] + SumFunctionOnSet(F, T \ {Any(T)})

LEMMA SumIs ==
  ASSUME NEW F, NEW T
  PROVE  SumFunctionOnSet(F, T) = (CHOOSE f : SumsOf(F, T, f))[T]
BY Zenon DEF SumFunctionOnSet, FoldFunctionOnSet, MapThenFoldSet, SumsOf, Any

LEMMA SumsAreOne ==
  ASSUME NEW F, NEW T, IsFiniteSet(T), NEW f, NEW g, SumsOf(F, T, f), SumsOf(F, T, g)
  PROVE  f[T] = g[T]
<1> DEFINE Bad == {s \in SUBSET T : f[s] # g[s]}
<1>1. SUFFICES ASSUME Bad # {} PROVE FALSE
  OBVIOUS
<1>2. PICK s \in Bad : \A u \in SUBSET s : u # s => u \notin Bad
  <2>1. Bad \subseteq SUBSET T
    OBVIOUS
  <2> HIDE DEF Bad
  <2> QED
    BY <1>1, <2>1, Smallest
<1>3. s \in SUBSET T /\ f[s] # g[s]
  OBVIOUS
<1>4. f[s] = (IF s = {} THEN 0 ELSE F[Any(s)] + f[s \ {Any(s)}])
  BY <1>3 DEF SumsOf
<1>5. g[s] = (IF s = {} THEN 0 ELSE F[Any(s)] + g[s \ {Any(s)}])
  BY <1>3 DEF SumsOf
<1>6. s # {}
  BY <1>3, <1>4, <1>5
<1>7. Any(s) \in s
  BY <1>6 DEF Any
<1>8. f[s \ {Any(s)}] = g[s \ {Any(s)}]
  BY <1>2, <1>3, <1>7
<1> QED
  BY <1>3, <1>4, <1>5, <1>8

LEMMA SumUnfolds == ASSUME NEW F, NEW S, IsFiniteSet(S) PROVE Adds(F, S)
<1> DEFINE Bad == {T \in SUBSET S : ~ Adds(F, T)}
<1>1. SUFFICES ASSUME Bad # {} PROVE FALSE
  OBVIOUS
<1>2. PICK T \in Bad : IsFiniteSet(T) /\ \A U \in SUBSET T : U # T => U \notin Bad
  <2>1. Bad \subseteq SUBSET S
    OBVIOUS
  <2> HIDE DEF Bad
  <2> QED
    BY <1>1, <2>1, Smallest
<1>3. T \in SUBSET S /\ ~ Adds(F, T) /\ \A U \in SUBSET T : U # T => Adds(F, U)
  BY <1>2
<1> HIDE DEF Bad
<1>4. PICK v : v = IF T = {} THEN 0 ELSE F[Any(T)] + SumFunctionOnSet(F, T \ {Any(T)})
  OBVIOUS
<1> DEFINE g == [s \in SUBSET T |-> IF s = T THEN v ELSE SumFunctionOnSet(F, s)]
<1>5. ASSUME NEW s \in SUBSET T
      PROVE  g[s] = IF s = {} THEN 0 ELSE F[Any(s)] + g[s \ {Any(s)}]
  <2>1. CASE s = {}
    BY <1>3, <1>4, <2>1 DEF Adds
  <2>2. CASE s # {}
    <3>1. Any(s) \in s
      BY <2>2 DEF Any
    <3>2. g[s \ {Any(s)}] = SumFunctionOnSet(F, s \ {Any(s)})
      BY <3>1
    <3>3. CASE s = T
      BY <1>4, <2>2, <3>2, <3>3
    <3>4. CASE s # T
      BY <1>3, <2>2, <3>2, <3>4 DEF Adds
    <3> QED
      BY <3>3, <3>4
  <2> QED
    BY <2>1, <2>2
<1>6. SumsOf(F, T, g)
  BY <1>5, Zenon DEF SumsOf
<1>7. g[T] = v
  OBVIOUS
<1> HIDE DEF g
<1>8. PICK f : f = CHOOSE h : SumsOf(F, T, h)
  OBVIOUS
<1>9. SumsOf(F, T, f)
  BY <1>6, <1>8, Zenon
<1>10. SumFunctionOnSet(F, T) = v
  BY <1>2, <1>6, <1>7, <1>8, <1>9, SumIs, SumsAreOne
<1> QED
  BY <1>3, <1>4, <1>10 DEF Adds

(* A sum of integers is one, in whatever order it is formed.               *)
LEMMA SumStep ==
  ASSUME NEW F, NEW S, IsFiniteSet(S), \A x \in S : F[x] \in Int
  PROVE  /\ SumFunctionOnSet(F, S) \in Int /\ SumFunctionOnSet(F, {}) = 0
         /\ \A x \in S : SumFunctionOnSet(F, S) = F[x] + SumFunctionOnSet(F, S \ {x})
<1> DEFINE Sum(T)  == SumFunctionOnSet(F, T)
           Good(T) == Sum(T) \in Int /\ \A x \in T : Sum(T) = F[x] + Sum(T \ {x})
           Bad     == {T \in SUBSET S : ~ Good(T)}
<1>1. Sum({}) = 0
  BY SumUnfolds, FS_EmptySet DEF Adds
<1>2. SUFFICES ASSUME Bad # {} PROVE FALSE
  BY <1>1
<1>3. PICK T \in Bad : IsFiniteSet(T) /\ \A U \in SUBSET T : U # T => U \notin Bad
  <2>1. Bad \subseteq SUBSET S
    OBVIOUS
  <2> HIDE DEF Bad
  <2> QED
    BY <1>2, <2>1, Smallest
<1>4. T \in SUBSET S /\ ~ Good(T) /\ \A U \in SUBSET T : U # T => Good(U)
  BY <1>3
<1>5. T # {}
  <2>1. Good({})
    BY <1>1
  <2> HIDE DEF Good
  <2> QED
    BY <1>4, <2>1
<1>6. PICK y \in T : Sum(T) = F[y] + Sum(T \ {y})
  <2>1. Any(T) \in T
    BY <1>5 DEF Any
  <2> QED
    BY <1>3, <1>5, <2>1, SumUnfolds DEF Adds
<1> HIDE DEF Sum, Bad
<1>7. Sum(T \ {y}) \in Int /\ \A x \in T \ {y} : Sum(T \ {y}) = F[x] + Sum((T \ {y}) \ {x})
  <2>1. T \ {y} \in SUBSET T /\ T \ {y} # T
    OBVIOUS
  <2> QED
    BY <1>4, <2>1
<1>8. F[y] \in Int /\ Sum(T) \in Int
  BY <1>4, <1>6, <1>7
<1>9. ASSUME NEW x \in T PROVE Sum(T) = F[x] + Sum(T \ {x})
  <2>1. CASE x = y
    BY <1>6, <2>1
  <2>2. CASE x # y
    <3>1. T \ {x} \in SUBSET T /\ T \ {x} # T /\ y \in T \ {x}
      BY <2>2
    <3>2. Sum(T \ {x}) = F[y] + Sum((T \ {x}) \ {y})
      BY <1>4, <3>1
    <3>3. x \in T \ {y} /\ (T \ {x}) \ {y} = (T \ {y}) \ {x}
      BY <2>2
    <3>4. PICK r : r = Sum((T \ {y}) \ {x})
      OBVIOUS
    <3>5. r \in Int
      <4>1. (T \ {y}) \ {x} \in SUBSET T /\ (T \ {y}) \ {x} # T
        OBVIOUS
      <4> QED
        BY <1>4, <3>4, <4>1
    <3>6. F[x] \in Int
      BY <1>4
    <3>7. Sum(T \ {y}) = F[x] + r
      BY <1>7, <3>3, <3>4
    <3>8. Sum(T \ {x}) = F[y] + r
      BY <3>2, <3>3, <3>4
    <3> QED
      BY <1>6, <1>8, <3>5, <3>6, <3>7, <3>8
  <2> QED
    BY <2>1, <2>2
<1> QED
  BY <1>4, <1>8, <1>9

(* What holds of no summands, and of more if it holds of one less.         *)
LEMMA OneByOne ==
  ASSUME NEW S, IsFiniteSet(S), NEW G, {} \in G,
         \A T \in SUBSET S : \A x \in T : T \ {x} \in G => T \in G
  PROVE  S \in G
<1> DEFINE Bad == {T \in SUBSET S : T \notin G}
<1>1. SUFFICES ASSUME Bad # {} PROVE FALSE
  OBVIOUS
<1>2. PICK T \in Bad : \A U \in SUBSET T : U # T => U \notin Bad
  <2>1. Bad \subseteq SUBSET S
    OBVIOUS
  <2> HIDE DEF Bad
  <2> QED
    BY <1>1, <2>1, Smallest
<1>3. T \in SUBSET S /\ T \notin G
  OBVIOUS
<1>4. PICK x \in T : TRUE
  BY <1>3
<1>5. T \ {x} \in SUBSET T /\ T \ {x} # T
  OBVIOUS
<1> QED
  BY <1>2, <1>3, <1>5

LEMMA SumOfSome ==
  ASSUME NEW F, NEW S, IsFiniteSet(S), \A x \in S : F[x] \in Int, NEW T \in SUBSET S
  PROVE  /\ SumFunctionOnSet(F, T) \in Int /\ SumFunctionOnSet(F, {}) = 0
         /\ \A x \in T : SumFunctionOnSet(F, T) = F[x] + SumFunctionOnSet(F, T \ {x})
BY SumStep, FS_Subset

LEMMA SumTaken ==
  ASSUME NEW F, NEW S, IsFiniteSet(S), \A x \in S : F[x] \in Int, NEW T \in SUBSET S, NEW x \in T
  PROVE  \E a \in Int, r \in Int : /\ SumFunctionOnSet(F, T) = a + r
                                /\ SumFunctionOnSet(F, T \ {x}) = r /\ a = F[x]
<1>1. SumFunctionOnSet(F, T) = F[x] + SumFunctionOnSet(F, T \ {x})
  BY SumOfSome
<1>2. T \ {x} \in SUBSET S
  OBVIOUS
<1>3. SumFunctionOnSet(F, T \ {x}) \in Int
  BY <1>2, SumOfSome
<1> QED
  BY <1>1, <1>3

(* Equal summands have equal sums.                                         *)
LEMMA SumSame ==
  ASSUME NEW F, NEW H, NEW S, IsFiniteSet(S), \A x \in S : F[x] \in Int /\ F[x] = H[x]
  PROVE  SumFunctionOnSet(F, S) = SumFunctionOnSet(H, S)
<1> DEFINE G == {T \in SUBSET S : SumFunctionOnSet(F, T) = SumFunctionOnSet(H, T)}
<1>1. {} \in G
  BY SumOfSome
<1>2. ASSUME NEW T \in SUBSET S, NEW x \in T, T \ {x} \in G PROVE T \in G
  <2>1. SumFunctionOnSet(F, T) = F[x] + SumFunctionOnSet(F, T \ {x})
    BY SumOfSome
  <2>2. SumFunctionOnSet(H, T) = H[x] + SumFunctionOnSet(H, T \ {x})
    <3>1. \A y \in S : H[y] \in Int
      OBVIOUS
    <3> QED
      BY <3>1, SumOfSome
  <2> QED
    BY <1>2, <2>1, <2>2
<1> HIDE DEF G
<1>3. S \in G
  BY <1>1, <1>2, OneByOne
<1> QED
  BY <1>3 DEF G

(* A sum is that of a part and that of the rest.                           *)
LEMMA SumSplit ==
  ASSUME NEW F, NEW S, IsFiniteSet(S), \A x \in S : F[x] \in Int, NEW T \in SUBSET S
  PROVE  SumFunctionOnSet(F, S) = SumFunctionOnSet(F, T) + SumFunctionOnSet(F, S \ T)
<1> DEFINE Sum(U) == SumFunctionOnSet(F, U)
           G == {U \in SUBSET T : Sum(S) = Sum(U) + Sum(S \ U)}
<1>0. \A U \in SUBSET S : /\ Sum(U) \in Int /\ Sum({}) = 0
                         /\ \A x \in U : Sum(U) = F[x] + Sum(U \ {x})
  BY SumOfSome
<1> HIDE DEF Sum
<1>1. {} \in G
  <2>1. S \ {} = S
    OBVIOUS
  <2> QED
    BY <1>0, <2>1
<1>2. ASSUME NEW U \in SUBSET T, NEW x \in U, U \ {x} \in G PROVE U \in G
  <2>1. Sum(U) = F[x] + Sum(U \ {x}) /\ Sum(U \ {x}) \in Int
    BY <1>0
  <2>2. S \ (U \ {x}) \in SUBSET S /\ x \in S \ (U \ {x}) /\ (S \ (U \ {x})) \ {x} = S \ U
    OBVIOUS
  <2>3. Sum(S \ (U \ {x})) = F[x] + Sum(S \ U) /\ Sum(S \ U) \in Int
    BY <1>0, <2>2, ZenonT(60)
  <2>4. F[x] \in Int
    OBVIOUS
  <2>5. Sum(S) = Sum(U \ {x}) + Sum(S \ (U \ {x}))
    BY <1>2
  <2> QED
    BY <2>1, <2>3, <2>4, <2>5
<1>3. IsFiniteSet(T)
  BY FS_Subset
<1>4. T \in G
  <2> HIDE DEF G
  <2> QED
    BY <1>1, <1>2, <1>3, OneByOne
<1> QED
  BY <1>4 DEF Sum

(* Of what is not negative, a sum is not, and is zero if each is.          *)
LEMMA SumRange ==
  ASSUME NEW F, NEW S, IsFiniteSet(S), \A x \in S : F[x] \in Nat
  PROVE  /\ SumFunctionOnSet(F, S) \in Nat
         /\ (\A x \in S : F[x] = 0) => SumFunctionOnSet(F, S) = 0
<1> DEFINE Sum(U) == SumFunctionOnSet(F, U)
           G == {U \in SUBSET S : Sum(U) \in Nat /\ ((\A x \in U : F[x] = 0) => Sum(U) = 0)}
<1>0. \A U \in SUBSET S : /\ Sum(U) \in Int /\ Sum({}) = 0
                         /\ \A x \in U : Sum(U) = F[x] + Sum(U \ {x})
  BY SumOfSome, SMTT(60)
<1> HIDE DEF Sum
<1>1. {} \in G
  BY <1>0
<1>2. ASSUME NEW U \in SUBSET S, NEW x \in U, U \ {x} \in G PROVE U \in G
  <2>1. Sum(U) = F[x] + Sum(U \ {x}) /\ Sum(U \ {x}) \in Nat /\ F[x] \in Nat
    BY <1>0, <1>2
  <2>2. (\A y \in U : F[y] = 0) => Sum(U \ {x}) = 0
    BY <1>2
  <2> QED
    BY <2>1, <2>2
<1>3. S \in G
  <2> HIDE DEF G
  <2> QED
    BY <1>1, <1>2, OneByOne
<1> QED
  BY <1>3 DEF Sum

(* What is off by a bit in each place is off by all those bits in the sum. *)
LEMMA SumNear ==
  ASSUME NEW A, NEW B, NEW C, NEW S, IsFiniteSet(S), NEW P \in Nat, NEW K \in Nat,
         \A x \in S : /\ A[x] \in Int /\ B[x] \in Int /\ C[x] \in Int
                      /\ 2 * (A[x] - (B[x] + C[x]) * P) \in -K .. K
  PROVE  2 * (SumFunctionOnSet(A, S) - (SumFunctionOnSet(B, S) + SumFunctionOnSet(C, S)) * P)
           \in -(Cardinality(S) * K) .. Cardinality(S) * K
<1> DEFINE Off(U) == 2 * (SumFunctionOnSet(A, U) - (SumFunctionOnSet(B, U) + SumFunctionOnSet(C, U)) * P)
           Room(U) == Cardinality(U) * K
           G == {U \in SUBSET S : Off(U) \in -Room(U) .. Room(U)}
<1>1. {} \in G
  <2>1. SumFunctionOnSet(A, {}) = 0 /\ SumFunctionOnSet(B, {}) = 0 /\ SumFunctionOnSet(C, {}) = 0
    BY SumOfSome
  <2> QED
    BY <2>1, FS_EmptySet
<1>2. ASSUME NEW U \in SUBSET S, NEW x \in U, U \ {x} \in G PROVE U \in G
  <2>1. PICK a \in Int, a1 \in Int : /\ SumFunctionOnSet(A, U) = a + a1
                                    /\ SumFunctionOnSet(A, U \ {x}) = a1 /\ a = A[x]
    <3> HIDE DEF G
    <3> QED
      BY SumTaken
  <2>2. PICK b \in Int, b1 \in Int : /\ SumFunctionOnSet(B, U) = b + b1
                                    /\ SumFunctionOnSet(B, U \ {x}) = b1 /\ b = B[x]
    <3> HIDE DEF G
    <3> QED
      BY SumTaken
  <2>3. PICK c \in Int, c1 \in Int : /\ SumFunctionOnSet(C, U) = c + c1
                                    /\ SumFunctionOnSet(C, U \ {x}) = c1 /\ c = C[x]
    <3> HIDE DEF G
    <3> QED
      BY SumTaken
  <2>4. PICK n \in Nat : Cardinality(U \ {x}) = n /\ Cardinality(U) = n + 1
    <3>1. IsFiniteSet(U) /\ Cardinality(U) \in Nat /\ Cardinality(U \ {x}) \in Nat
      BY FS_Subset, FS_CardinalityType, FS_RemoveElement
    <3>2. Cardinality(U \ {x}) = Cardinality(U) - 1
      BY <3>1, FS_RemoveElement
    <3> QED
      BY <3>1, <3>2
  <2>5. 2 * (a1 - (b1 + c1) * P) \in -(n * K) .. n * K
    BY <1>2, <2>1, <2>2, <2>3, <2>4
  <2>6. 2 * (a - (b + c) * P) \in -K .. K
    BY <2>1, <2>2, <2>3
  <2>7. 2 * ((a + a1) - ((b + b1) + (c + c1)) * P)
          = 2 * (a - (b + c) * P) + 2 * (a1 - (b1 + c1) * P)
    OBVIOUS
  <2>8. (n + 1) * K = K + n * K /\ n * K \in Int
    OBVIOUS
  <2>9. 2 * ((a + a1) - ((b + b1) + (c + c1)) * P) \in -((n + 1) * K) .. (n + 1) * K
    BY <2>5, <2>6, <2>7, <2>8
  <2> QED
    BY <2>1, <2>2, <2>3, <2>4, <2>9
<1>3. S \in G
  <2> HIDE DEF G
  <2> QED
    BY <1>1, <1>2, OneByOne
<1> QED
  BY <1>3

-----------------------------------------------------------------------------
(* Rounding to whole units, also of figures typed u times finer.           *)
LEMMA Quotient ==
  ASSUME NEW a \in Nat, NEW b \in Nat \ {0}
  PROVE  a \div b \in Nat /\ b * (a \div b) <= a /\ a < b * (a \div b) + b
OBVIOUS

LEMMA Rounded ==
  ASSUME NEW a \in Nat, NEW b \in Nat \ {0}
  PROVE  Round(a, b) \in Nat /\ 2 * (a - b * Round(a, b)) \in -b .. b
<1>1. 2 * a + b \in Nat /\ 2 * b \in Nat \ {0}
  OBVIOUS
<1>2. PICK r : r = Round(a, b)
  OBVIOUS
<1>3. r \in Nat /\ (2 * b) * r <= 2 * a + b /\ 2 * a + b < (2 * b) * r + 2 * b
  BY <1>1, <1>2, Quotient DEF Round
<1>4. (2 * b) * r = 2 * (b * r) /\ b * r \in Nat
  BY <1>3
<1>5. PICK c \in Nat : c = b * r
  BY <1>4
<1>6. 2 * (a - c) \in -b .. b
  BY <1>3, <1>4, <1>5
<1> QED
  BY <1>2, <1>3, <1>5, <1>6

LEMMA Cancels ==
  ASSUME NEW u \in Nat \ {0}, NEW x \in Int, NEW y \in Int, u * x <= u * y PROVE x <= y
OBVIOUS

LEMMA Between ==
  ASSUME NEW k \in Nat, NEW x \in Int, NEW y \in Nat, x \in -y .. y
  PROVE  k * x \in -(k * y) .. k * y
OBVIOUS

LEMMA RoundedFiner ==
  ASSUME NEW a \in Nat, NEW b \in Nat \ {0}, NEW u \in Nat \ {0}
  PROVE  Round(u * a, u * b) \in Nat /\ 2 * (a - b * Round(u * a, u * b)) \in -b .. b
<1>1. u * a \in Nat /\ u * b \in Nat \ {0}
  OBVIOUS
<1>2. PICK r \in Nat : r = Round(u * a, u * b) /\ 2 * (u * a - (u * b) * r) \in -(u * b) .. u * b
  BY <1>1, Rounded
<1>3. PICK z \in Int : z = 2 * (a - b * r)
  OBVIOUS
<1>4. 2 * (u * a - (u * b) * r) = u * z
  BY <1>3
<1>5. u * z <= u * b /\ u * (-b) <= u * z
  BY <1>1, <1>2, <1>4
<1>6. z <= b /\ -b <= z
  BY <1>5, Cancels
<1> QED
  BY <1>2, <1>3, <1>6

(* A line's total is rounded once, the tax on it twice: by at most half a  *)
(* cent each, where its net price and its tax are the exact ones.          *)
LEMMA ThreeRoundings ==
  ASSUME NEW q \in Nat, NEW w \in Nat, NEW t \in 0 .. w, NEW net \in Nat, NEW total \in Nat, NEW tax \in Nat,
         2 * (net - (q * w) * total) \in -(q * w) .. q * w,
         2 * (total * t - w * tax) \in -w .. w
  PROVE  2 * (net * (w + t) - (total + tax) * (q * w * w)) \in -(3 * (q * w * w)) .. 3 * (q * w * w)
<1>1. PICK e \in Int : e = 2 * (net - (q * w) * total)
  OBVIOUS
<1>2. PICK f \in Int : f = 2 * (total * t - w * tax)
  OBVIOUS
<1>3. 2 * (net * (w + t) - (total + tax) * (q * w * w)) = (w + t) * e + (q * w) * f
  BY <1>1, <1>2
<1>4. q * w \in Nat /\ w + t \in Nat
  OBVIOUS
<1>5. (w + t) * e \in -((w + t) * (q * w)) .. (w + t) * (q * w)
  BY <1>1, <1>4, Between
<1>6. (q * w) * f \in -((q * w) * w) .. (q * w) * w
  BY <1>2, <1>4, Between
<1>7. PICK k \in Nat : k = q * w
  BY <1>4
<1>8. (w + t) * k <= 2 * (k * w)
  BY <1>7
<1>9. q * w * w = k * w /\ k * w \in Nat
  BY <1>7
<1> QED
  BY <1>3, <1>4, <1>5, <1>6, <1>7, <1>8, <1>9

-----------------------------------------------------------------------------
(* The figures of documents.  What a client sends, and what rows keep.     *)
Typed   == [text : BOOLEAN, quantity : Nat, price : Nat, discount : Nat, tax : Nat]
Figures == [quantity : Nat, price : Nat, discount : 0 .. Whole, tax : 0 .. Whole, total : Nat]

LEMMA Units ==
  /\ Grain \in Nat \ {0} /\ QuantityUnit \in Nat \ {0} /\ Whole \in Nat \ {0}
  /\ maxItems \in Nat /\ DueMax \in Nat /\ PaidMax \in Nat /\ LastDay \in Nat /\ Soon \in Nat
BY MoneyAssumption

(* What holds of no line and of one more each time holds of all.           *)
LEMMA Counting ==
  ASSUME NEW n \in Nat, NEW S, 0 \in S, \A i \in 1 .. n : i - 1 \in S => i \in S
  PROVE  n \in S
<1> DEFINE Bad == {0 .. i : i \in {j \in 0 .. n : j \notin S}}
<1>1. SUFFICES ASSUME n \notin S PROVE FALSE
  OBVIOUS
<1>2. Bad \subseteq SUBSET (0 .. n) /\ Bad # {}
  <2>1. 0 .. n \in Bad
    BY <1>1
  <2> QED
    BY <2>1
<1>3. IsFiniteSet(0 .. n)
  BY FS_Interval
<1>4. PICK T \in Bad : \A U \in SUBSET T : U # T => U \notin Bad
  <2> HIDE DEF Bad
  <2> QED
    BY <1>2, <1>3, Smallest, ZenonT(60)
<1>5. PICK m \in 0 .. n : m \notin S /\ T = 0 .. m
  OBVIOUS
<1>6. m # 0 /\ m - 1 \in 0 .. n /\ m \in 1 .. n
  BY <1>5
<1>7. 0 .. (m - 1) \in SUBSET T /\ 0 .. (m - 1) # T
  <2>1. m \in T /\ m \notin 0 .. (m - 1)
    BY <1>5, <1>6
  <2> QED
    BY <1>5, <2>1
<1>8. 0 .. (m - 1) \notin Bad
  BY <1>4, <1>7
<1>9. m - 1 \in S
  BY <1>6, <1>8
<1> QED
  BY <1>5, <1>6, <1>9

(* What is left of lines without the blank ones is lines.                  *)
LEMMA NormalizeKeeps ==
  ASSUME NEW L, NEW lines \in Seq(L)
  PROVE  normalize(lines) \in Seq(L)
<1> DEFINE written(l) == l.text \/ l.quantity # 0 \/ l.price # 0
           kept[i \in 0 .. Len(lines)] ==
             IF i = 0 THEN <<>>
             ELSE IF written(lines[i]) THEN Append(kept[i-1], lines[i]) ELSE kept[i-1]
<1>1. normalize(lines) = kept[Len(lines)]
  BY Zenon DEF normalize
<1>2. PICK n \in Nat : n = Len(lines)
  OBVIOUS
<1> DEFINE more(s, i) == IF written(lines[i]) THEN Append(s, lines[i]) ELSE s
           Keeps(f, m) == f = [i \in 0 .. m |-> IF i = 0 THEN <<>> ELSE more(f[i-1], i)]
<1>3. kept = CHOOSE f : Keeps(f, n)
  BY <1>2, Zenon
<1> HIDE DEF kept, Keeps, more
<1>4. \E f : Keeps(f, n)
  <2> DEFINE S == {m \in 0 .. n : \E f : Keeps(f, m)}
  <2>1. 0 \in S
    <3> DEFINE f == [i \in 0 .. 0 |-> <<>>]
    <3>1. Keeps(f, 0)
      BY DEF Keeps
    <3> HIDE DEF f
    <3> QED
      BY <3>1
  <2>2. ASSUME NEW m \in 1 .. n, m - 1 \in S PROVE m \in S
    <3>1. PICK f : Keeps(f, m - 1)
      BY <2>2
    <3> DEFINE g == [i \in 0 .. m |-> IF i = m THEN more(f[m-1], m) ELSE f[i]]
    <3>2. ASSUME NEW i \in 0 .. m
          PROVE  g[i] = IF i = 0 THEN <<>> ELSE more(g[i-1], i)
      <4>1. CASE i = m
        BY <2>2, <4>1
      <4>2. CASE i # m
        BY <2>2, <3>1, <4>2 DEF Keeps
      <4> QED
        BY <4>1, <4>2
    <3>3. Keeps(g, m)
      BY <3>2, Zenon DEF Keeps
    <3> HIDE DEF g
    <3> QED
      BY <2>2, <3>3
  <2> HIDE DEF S
  <2>3. n \in S
    BY <2>1, <2>2, Counting
  <2> QED
    BY <2>3 DEF S
<1>5. Keeps(kept, n)
  BY <1>3, <1>4
<1>6. kept[0] = <<>> /\ \A i \in 1 .. n : kept[i] = more(kept[i-1], i)
  BY <1>5 DEF Keeps
<1> DEFINE G == {m \in 0 .. n : kept[m] \in Seq(L)}
<1>7. 0 \in G
  <2>1. kept[0] \in Seq(L)
    <3>1. <<>> \in Seq(L)
      OBVIOUS
    <3> QED
      BY <1>6, <3>1, Zenon
  <2>2. 0 \in 0 .. n
    OBVIOUS
  <2> QED
    BY <2>1, <2>2, Zenon
<1>8. ASSUME NEW m \in 1 .. n, m - 1 \in G PROVE m \in G
  <2>1. lines[m] \in L /\ kept[m-1] \in Seq(L)
    BY <1>2, <1>8
  <2>2. more(kept[m-1], m) \in Seq(L)
    BY <2>1 DEF more
  <2> QED
    BY <1>6, <2>2
<1>9. n \in G
  <2> HIDE DEF G
  <2> QED
    BY <1>7, <1>8, Counting
<1> QED
  BY <1>1, <1>2, <1>9

(* What a validated line keeps of itself.                                  *)
LEMMA ItemKept ==
  ASSUME NEW l \in Typed, l.discount <= Whole * Grain, l.tax <= Whole * Grain
  PROVE  Item(l) \in Figures
<1>1. ASSUME NEW x \in Nat PROVE Column(x) \in Nat /\ (x <= Whole * Grain => Column(x) <= Whole)
  <2>1. PICK r \in Nat : r = Column(x) /\ 2 * (x - Grain * r) \in -Grain .. Grain
    BY Units, Rounded DEF Column
  <2>2. ASSUME x <= Whole * Grain, r >= Whole + 1 PROVE FALSE
    <3>1. Grain * r >= Grain * (Whole + 1)
      BY <2>2, Units
    <3>2. Grain * (Whole + 1) = Whole * Grain + Grain /\ Whole * Grain \in Nat
      BY Units
    <3>3. Grain * r \in Nat
      BY Units
    <3> QED
      BY <2>1, <2>2, <3>1, <3>2, <3>3, Units
  <2> QED
    BY <2>1, <2>2, Units
<1>2. Round(l.quantity * l.price * (Whole * Grain - l.discount),
            QuantityUnit * Grain * Grain * Whole * Grain) \in Nat
  <2>1. l.quantity * l.price \in Nat /\ Whole * Grain - l.discount \in Nat
    BY Units DEF Typed
  <2>2. l.quantity * l.price * (Whole * Grain - l.discount) \in Nat
    BY <2>1
  <2>3. QuantityUnit * Grain * Grain * Whole * Grain \in Nat \ {0}
    BY Units
  <2> QED
    BY <2>2, <2>3, Rounded
<1> QED
  BY <1>1, <1>2 DEF Item, Typed, Figures

(* Rows of lines, their totals, and what a client reads of them.           *)
LEMMA ItemsKept ==
  ASSUME NEW old, NEW lines \in Seq(Typed), validate(lines)
  PROVE  replaceItems(old, lines) \in Seq(Figures) /\ Len(replaceItems(old, lines)) \in 1 .. maxItems
<1>1. PICK n \in Nat : n = Len(lines) /\ DOMAIN lines = 1 .. n /\ n \in 1 .. maxItems
  BY DEF validate
<1>2. \A i \in 1 .. n : Item(lines[i]) \in Figures
  BY <1>1, ItemKept DEF validate
<1>3. PICK items : items = replaceItems(old, lines)
  OBVIOUS
<1>4. items = [i \in 1 .. n |-> Item(lines[i])]
  BY <1>1, <1>3 DEF replaceItems
<1>5. items \in [1 .. n -> Figures]
  BY <1>2, <1>4
<1>6. items \in Seq(Figures) /\ Len(items) = n
  BY <1>1, <1>5
<1> QED
  BY <1>1, <1>3, <1>6

LEMMA FigureIs ==
  ASSUME NEW f \in Figures
  PROVE  /\ f.quantity \in Nat /\ f.price \in Nat /\ f.total \in Nat
         /\ f.discount \in Nat /\ f.discount <= Whole /\ f.tax \in Nat /\ f.tax <= Whole
<1>1. f.discount \in 0 .. Whole /\ f.tax \in 0 .. Whole
  BY DEF Figures
<1> QED
  BY <1>1, Units DEF Figures

LEMMA ReadIsTyped == ASSUME NEW items \in Seq(Figures) PROVE AsRead(items) \in Seq(Typed)
<1>1. PICK n \in Nat : n = Len(items) /\ DOMAIN items = 1 .. n
  OBVIOUS
<1>2. ASSUME NEW i \in 1 .. n
      PROVE  [text |-> TRUE, quantity |-> items[i].quantity * Grain, price |-> items[i].price * Grain,
              discount |-> items[i].discount * Grain, tax |-> items[i].tax * Grain] \in Typed
  <2>1. items[i] \in Figures
    BY <1>1
  <2>2. /\ items[i].quantity * Grain \in Nat /\ items[i].price * Grain \in Nat
        /\ items[i].discount * Grain \in Nat /\ items[i].tax * Grain \in Nat
    <3>1. /\ items[i].quantity \in Nat /\ items[i].price \in Nat
          /\ items[i].discount \in Nat /\ items[i].tax \in Nat /\ Grain \in Nat
      BY <2>1, FigureIs, Units
    <3>2. \A x \in Nat : x * Grain \in Nat
      BY Units
    <3> QED
      BY <3>1, <3>2
  <2> QED
    BY <2>2 DEF Typed
<1>3. AsRead(items) \in [1 .. n -> Typed]
  BY <1>1, <1>2 DEF AsRead
<1> QED
  BY <1>3

LEMMA TotalIs ==
  ASSUME NEW items \in Seq(Figures),
         NEW nets, nets = [i \in DOMAIN items |-> items[i].total],
         NEW taxes, taxes = [i \in DOMAIN items |-> Round(items[i].total * items[i].tax, Whole)]
  PROVE  /\ \A i \in DOMAIN items : nets[i] \in Nat /\ taxes[i] \in Nat
         /\ IsFiniteSet(DOMAIN items) /\ Cardinality(DOMAIN items) = Len(items)
         /\ Total(items) = SumFunctionOnSet(nets, DOMAIN items) + SumFunctionOnSet(taxes, DOMAIN items)
         /\ Total(items) \in Nat
<1>1. PICK n \in Nat : n = Len(items) /\ DOMAIN items = 1 .. n
  OBVIOUS
<1>2. IsFiniteSet(1 .. n) /\ Cardinality(1 .. n) = n
  BY FS_Interval
<1>3. ASSUME NEW i \in 1 .. n PROVE nets[i] \in Nat /\ taxes[i] \in Nat
  <2>1. items[i].total \in Nat /\ items[i].tax \in Nat
    <3>1. items[i] \in Figures
      BY <1>1
    <3> QED
      BY <3>1, FigureIs
  <2>2. items[i].total * items[i].tax \in Nat
    BY <2>1, SMTT(60)
  <2> QED
    BY <1>1, <2>1, <2>2, Units, Rounded
<1>4. Total(items) = SumFunctionOnSet(nets, DOMAIN items) + SumFunctionOnSet(taxes, DOMAIN items)
  BY DEF Total, Summed, SumFunction, Net, Tax
<1>5. SumFunctionOnSet(nets, 1 .. n) \in Nat /\ SumFunctionOnSet(taxes, 1 .. n) \in Nat
  BY <1>2, <1>3, SumRange
<1>6. \A i \in DOMAIN items : nets[i] \in Nat /\ taxes[i] \in Nat
  BY <1>1, <1>3
<1>7. Total(items) \in Nat
  <2>1. Total(items) = SumFunctionOnSet(nets, 1 .. n) + SumFunctionOnSet(taxes, 1 .. n)
    BY <1>1, <1>4, Zenon
  <2> QED
    BY <1>5, <2>1
<1> QED
  BY <1>1, <1>2, <1>4, <1>6, <1>7

-----------------------------------------------------------------------------
(* Beside MoneyInv: what a document that was written keeps fits its rows   *)
(* and adds up to its total; a draft has taken no money, and while an      *)
(* invoice waits for money it has not taken more than is due.              *)
Written(items, total) ==
  items \in Seq(Figures) /\ Len(items) \in 1 .. maxItems /\ total = Total(items) /\ total <= DueMax

OfferFits(x) ==
  \/ x.status = "none" /\ x.total = 0
  \/ x.status \in QuoteStatus /\ Written(x.items, x.total)

BillFits(x) ==
  /\ x.day \in Terms \cup {NoDay} /\ x.source \subseteq Offers /\ x.paid \in 0 .. PaidMax
  /\ \/ x.status = "none" /\ x.due = 0 /\ x.paid = 0
     \/ x.status \in InvoiceStatus /\ Written(x.items, x.due)
  /\ x.status = "draft" => x.paid = 0
  /\ x.status = "sent" => x.paid <= x.due

FigureInv ==
  /\ \A o \in Offers : OfferFits(offer[o])
  /\ \A b \in Bills : BillFits(bill[b])
  /\ today \in 0 .. LastDay

LEMMA WrittenDue == ASSUME NEW items, NEW total, Written(items, total) PROVE total \in 0 .. DueMax
<1>1. Total(items) \in Nat
  BY TotalIs DEF Written
<1> QED
  BY <1>1, Units DEF Written

LEMMA FiguresFit == FigureInv => MoneyTypeOK
<1> SUFFICES ASSUME FigureInv PROVE MoneyTypeOK
  OBVIOUS
<1>1. ASSUME NEW o \in Offers
      PROVE  /\ offer[o].status \in QuoteStatus \cup {"none"}
             /\ offer[o].total \in 0..DueMax
             /\ offer[o].status = "none" \/ Len(offer[o].items) \in 1..maxItems
  BY WrittenDue, Units DEF FigureInv, OfferFits, Written
<1>2. ASSUME NEW b \in Bills
      PROVE  /\ bill[b].status \in InvoiceStatus \cup {"none"}
             /\ bill[b].due \in 0..DueMax /\ bill[b].paid \in 0..PaidMax
             /\ bill[b].source \subseteq Offers /\ bill[b].day \in Terms \cup {NoDay}
             /\ bill[b].status = "none" \/ Len(bill[b].items) \in 1..maxItems
  BY WrittenDue, Units, SMTT(60) DEF FigureInv, BillFits, Written
<1> QED
  BY <1>1, <1>2 DEF MoneyTypeOK, FigureInv

LEMMA InitFigureInv == MoneyInit => FigureInv
<1> SUFFICES ASSUME MoneyInit PROVE FigureInv
  OBVIOUS
<1>1. OfferFits(NoOffer)
  BY DEF OfferFits, NoOffer
<1>2. BillFits(NoBill)
  BY Units DEF BillFits, NoBill
<1> QED
  BY <1>1, <1>2, Units DEF MoneyInit, FigureInv

LEMMA OfferBecomes ==
  ASSUME MoneyInv, FigureInv, NEW o \in Offers, NEW x, OfferFits(x), offer' = [offer EXCEPT ![o] = x],
         UNCHANGED <<bill, today>>
  PROVE  FigureInv'
<1>1. \A p \in Offers : offer'[p] = x \/ offer'[p] = offer[p]
  BY DEF MoneyInv
<1> QED
  BY <1>1 DEF FigureInv, OfferFits, BillFits, Written

LEMMA BillBecomes ==
  ASSUME MoneyInv, FigureInv, NEW b \in Bills, NEW x, BillFits(x), bill' = [bill EXCEPT ![b] = x],
         UNCHANGED <<offer, today>>
  PROVE  FigureInv'
<1>1. \A c \in Bills : bill'[c] = x \/ bill'[c] = bill[c]
  BY DEF MoneyInv
<1> QED
  BY <1>1 DEF FigureInv, OfferFits, BillFits, Written

(* What a client sends, or has read, is typed, and so is what is left.     *)
LEMMA SavedFits ==
  ASSUME FigureInv, NEW sent, NEW old, NEW lines, lines = normalize(sent), validate(lines),
         NEW items, items = replaceItems(old, lines), Fits(items),
         \/ sent \in Entered
         \/ \E rows \in Seq(Figures) : sent = AsRead(rows)
  PROVE  Written(items, Total(items))
<1>1. sent \in Seq(Typed)
  BY ReadIsTyped, MoneyAssumption DEF Typed
<1>2. lines \in Seq(Typed)
  BY <1>1, NormalizeKeeps
<1> QED
  BY <1>2, ItemsKept DEF Written, Fits

LEMMA OfferSaved ==
  ASSUME MoneyInv, FigureInv, NEW o \in Offers, NEW sent, SaveLines(o, sent), UNCHANGED <<bill, today>>,
         sent \in Entered \/ \E rows \in Seq(Figures) : sent = AsRead(rows)
  PROVE  FigureInv'
<1>1. PICK lines, items : lines = normalize(sent) /\ items = replaceItems(offer[o].items, lines)
  OBVIOUS
<1>2. PICK x : x = [status |-> "draft", items |-> items, subtotal |-> Summed(items, Gross),
                    tax |-> Summed(items, Tax), total |-> Total(items), exact |-> Exact(lines, items)]
  OBVIOUS
<1>3. offer' = [offer EXCEPT ![o] = x] /\ validate(lines) /\ Fits(items)
  BY <1>1, <1>2 DEF SaveLines
<1>4. Written(items, Total(items))
  BY <1>1, <1>3, SavedFits
<1>5. OfferFits(x)
  BY <1>2, <1>4 DEF OfferFits, QuoteStatus
<1> QED
  BY <1>3, <1>5, OfferBecomes

LEMMA BillSaved ==
  ASSUME MoneyInv, FigureInv, NEW b \in Bills, NEW sent, NEW day \in Terms \cup {NoDay},
         WriteLines(b, sent, day), UNCHANGED <<offer, today>>, bill[b].status \in {"none", "draft"},
         sent \in Entered \/ \E rows \in Seq(Figures) : sent = AsRead(rows)
  PROVE  FigureInv'
<1>1. PICK lines, items : lines = normalize(sent) /\ items = replaceItems(bill[b].items, lines)
  OBVIOUS
<1>2. PICK x : x = [bill[b] EXCEPT !.status = "draft", !.items = items, !.due = Total(items), !.day = day,
                                   !.copied = FALSE, !.exact = Exact(lines, items)]
  OBVIOUS
<1>3. bill' = [bill EXCEPT ![b] = x] /\ validate(lines) /\ Fits(items)
  BY <1>1, <1>2 DEF WriteLines
<1>4. Written(items, Total(items))
  BY <1>1, <1>3, SavedFits
<1>5. IsBill(bill[b])
  BY DEF MoneyInv
<1>6. /\ x.status = "draft" /\ x.items = items /\ x.due = Total(items) /\ x.day = day
      /\ x.paid = bill[b].paid /\ x.source = bill[b].source
  BY <1>2, <1>5 DEF IsBill
<1>7. bill[b].paid = 0 /\ bill[b].source \subseteq Offers /\ bill[b].paid \in 0 .. PaidMax
  <2>1. BillFits(bill[b])
    BY DEF FigureInv
  <2> QED
    BY <2>1 DEF BillFits, InvoiceStatus
<1>8. BillFits(x)
  BY <1>4, <1>6, <1>7 DEF BillFits, InvoiceStatus
<1> QED
  BY <1>3, <1>8, BillBecomes

LEMMA OffersFit ==
  ASSUME MoneyInv, FigureInv, NEW o \in Offers,
         SaveOffer(o) \/ ResaveOffer(o) \/ MoveOffer(o) \/ DeleteOffer(o)
  PROVE  FigureInv'
<1>1. CASE SaveOffer(o)
  BY <1>1, OfferSaved DEF SaveOffer
<1>2. CASE ResaveOffer(o)
  <2>1. offer[o].items \in Seq(Figures)
    BY <1>2 DEF ResaveOffer, FigureInv, OfferFits, Written
  <2> QED
    BY <1>2, <2>1, OfferSaved DEF ResaveOffer
<1>3. CASE MoveOffer(o)
  <2>1. PICK s \in QuoteStatus :
          <<offer[o].status, s>> \in QuoteMoves /\ offer' = [offer EXCEPT ![o].status = s]
    BY <1>3 DEF MoveOffer
  <2>2. offer[o].status # "none"
    BY <2>1 DEF QuoteMoves
  <2>3. PICK x : x = [offer[o] EXCEPT !.status = s]
    OBVIOUS
  <2>4. IsOffer(offer[o])
    BY DEF MoneyInv
  <2>5. x.items = offer[o].items /\ x.total = offer[o].total /\ x.status = s
    BY <2>3, <2>4 DEF IsOffer
  <2>6. OfferFits(x)
    BY <2>2, <2>5 DEF FigureInv, OfferFits
  <2>7. offer' = [offer EXCEPT ![o] = x] /\ UNCHANGED <<bill, today>>
    BY <1>3, <2>1, <2>3 DEF MoveOffer
  <2> QED
    BY <2>6, <2>7, OfferBecomes
<1>4. CASE DeleteOffer(o)
  <2>1. OfferFits(NoOffer)
    BY DEF OfferFits, NoOffer
  <2> QED
    BY <1>4, <2>1, OfferBecomes DEF DeleteOffer
<1> QED
  BY <1>1, <1>2, <1>3, <1>4

LEMMA BillsFit ==
  ASSUME MoneyInv, FigureInv, NEW b \in Bills,
         RaiseBill(b) \/ WriteBill(b) \/ ResaveBill(b) \/ MoveBill(b) \/ DeleteBill(b) \/ RecordReceipt(b)
  PROVE  FigureInv'
<1>1. CASE RaiseBill(b)
  <2>1. PICK o \in Offers, day \in Terms :
          /\ offer[o].status = "approved"
          /\ bill' = [bill EXCEPT ![b] =
               [NoBill EXCEPT !.status = "draft", !.items = offer[o].items, !.due = Total(offer[o].items),
                              !.day = day, !.source = {o}, !.copied = TRUE, !.exact = offer[o].exact]]
    BY <1>1 DEF RaiseBill
  <2>2. PICK x : x =
               [NoBill EXCEPT !.status = "draft", !.items = offer[o].items, !.due = Total(offer[o].items),
                              !.day = day, !.source = {o}, !.copied = TRUE, !.exact = offer[o].exact]
    OBVIOUS
  <2>3. /\ x.status = "draft" /\ x.items = offer[o].items /\ x.due = Total(x.items) /\ x.source = {o}
        /\ x.day = day /\ x.paid = 0
    BY <2>2 DEF NoBill
  <2>4. Written(offer[o].items, Total(offer[o].items))
    BY <2>1 DEF FigureInv, OfferFits, Written
  <2>5. BillFits(x)
    BY <2>3, <2>4, Units DEF BillFits, InvoiceStatus
  <2>6. bill' = [bill EXCEPT ![b] = x] /\ UNCHANGED <<offer, today>>
    BY <1>1, <2>1, <2>2 DEF RaiseBill
  <2> QED
    BY <2>5, <2>6, BillBecomes
<1>2. CASE WriteBill(b)
  BY <1>2, BillSaved DEF WriteBill
<1>3. CASE ResaveBill(b)
  <2>1. bill[b].items \in Seq(Figures) /\ bill[b].day \in Terms \cup {NoDay}
    BY <1>3 DEF ResaveBill, FigureInv, BillFits, Written
  <2> QED
    BY <1>3, <2>1, BillSaved DEF ResaveBill
<1>4. IsBill(bill[b])
  BY DEF MoneyInv
<1>5. CASE MoveBill(b)
  <2>1. PICK s \in InvoiceStatus :
          <<bill[b].status, s>> \in InvoiceMoves /\ bill' = [bill EXCEPT ![b].status = s]
    BY <1>5 DEF MoveBill
  <2>2. bill[b].status # "none" /\ s # "draft" /\ (s = "sent" => bill[b].status = "draft")
    BY <2>1 DEF InvoiceMoves
  <2>3. PICK x : x = [bill[b] EXCEPT !.status = s]
    OBVIOUS
  <2>4. /\ x.items = bill[b].items /\ x.due = bill[b].due /\ x.source = bill[b].source
        /\ x.day = bill[b].day /\ x.paid = bill[b].paid /\ x.status = s
    BY <1>4, <2>3 DEF IsBill
  <2>5. Written(bill[b].items, bill[b].due) /\ BillFits(bill[b])
    BY <2>2 DEF FigureInv, BillFits
  <2>6. bill[b].due \in Nat
    BY <2>5, WrittenDue
  <2>7. s = "sent" => x.paid <= x.due
    BY <2>2, <2>4, <2>5, <2>6 DEF BillFits
  <2>8. BillFits(x)
    BY <2>2, <2>4, <2>5, <2>7 DEF BillFits
  <2>9. bill' = [bill EXCEPT ![b] = x] /\ UNCHANGED <<offer, today>>
    BY <1>5, <2>1, <2>3 DEF MoveBill
  <2> QED
    BY <2>8, <2>9, BillBecomes
<1>6. CASE DeleteBill(b)
  <2>1. BillFits(NoBill)
    BY Units DEF BillFits, NoBill
  <2> QED
    BY <1>6, <2>1, BillBecomes DEF DeleteBill
<1>7. CASE RecordReceipt(b)
  <2>1. PICK amount \in Receipts :
          /\ bill[b].paid + Column(amount) <= PaidMax
          /\ bill' = [bill EXCEPT ![b] =
               [bill[b] EXCEPT !.paid = bill[b].paid + Column(amount),
                               !.status = IF bill[b].paid + Column(amount) >= bill[b].due THEN "paid" ELSE @]]
    BY <1>7 DEF RecordReceipt
  <2>2. PICK x : x =
          [bill[b] EXCEPT !.paid = bill[b].paid + Column(amount),
                          !.status = IF bill[b].paid + Column(amount) >= bill[b].due THEN "paid" ELSE @]
    OBVIOUS
  <2>3. /\ x.items = bill[b].items /\ x.due = bill[b].due /\ x.source = bill[b].source
        /\ x.day = bill[b].day /\ x.paid = bill[b].paid + Column(amount)
        /\ x.status = IF bill[b].paid + Column(amount) >= bill[b].due THEN "paid" ELSE bill[b].status
    BY <1>4, <2>2 DEF IsBill
  <2>4. bill[b].status \in {"sent", "paid"} /\ BillFits(bill[b]) /\ Written(bill[b].items, bill[b].due)
    BY <1>7 DEF RecordReceipt, FigureInv, BillFits
  <2>5. bill[b].due \in Nat /\ bill[b].paid \in Nat /\ Column(amount) \in Nat
    <3>1. amount \in Nat
      BY MoneyAssumption
    <3> QED
      BY <2>4, <3>1, WrittenDue, Rounded, Units DEF Column, BillFits
  <2>6. PICK paid1 \in Nat : paid1 = bill[b].paid + Column(amount)
    BY <2>5
  <2>7. x.paid \in 0 .. PaidMax
    BY <2>1, <2>3, <2>6, Units
  <2>8. x.status \in {"sent", "paid"} /\ (x.status = "sent" => x.paid <= x.due)
    BY <2>3, <2>4, <2>5, <2>6
  <2>9. BillFits(x)
    BY <2>3, <2>4, <2>7, <2>8 DEF BillFits, InvoiceStatus
  <2>10. bill' = [bill EXCEPT ![b] = x] /\ UNCHANGED <<offer, today>>
    BY <1>7, <2>1, <2>2 DEF RecordReceipt
  <2> QED
    BY <2>9, <2>10, BillBecomes
<1> QED
  BY <1>1, <1>2, <1>3, <1>5, <1>6, <1>7

LEMMA FigureInvariance == MoneySpec => [](MoneyInv /\ FigureInv)
<1>1. MoneyInv /\ FigureInv /\ [MoneyNext]_moneyVars => FigureInv'
  <2>1. ASSUME MoneyInv, FigureInv, UNCHANGED <<offer, bill>>, today' \in 0 .. LastDay PROVE FigureInv'
    BY <2>1 DEF FigureInv, OfferFits, BillFits, Written
  <2>2. ASSUME FigureInv, NextDay PROVE today' \in 0 .. LastDay
    BY <2>2, Units DEF FigureInv, NextDay
  <2> QED
    BY <2>1, <2>2, OffersFit, BillsFit DEF MoneyNext, NextDay, moneyVars, FigureInv
<1> QED
  BY <1>1, InitFigureInv, MoneyInvariance, PTL DEF MoneySpec

(* Documents and days are of their kind, and no row holds more than its    *)
(* columns take (migrations/000001, quote_items and invoices).             *)
THEOREM FiguresAreTyped == MoneySpec => []MoneyTypeOK
  BY FiguresFit, FigureInvariance, PTL

-----------------------------------------------------------------------------
(* The views.                                                              *)

(* What is overdue: an invoice that waits for money lacks some of it or    *)
(* nothing, so that leaving the latter out changes no sum.                 *)
LEMMA BalancesAre ==
  ASSUME FigureInv
  PROVE  /\ \A b \in Bills : /\ bill[b].due \in Nat /\ bill[b].paid \in Nat
                             /\ Balances[b] = bill[b].due - bill[b].paid /\ Balances[b] \in Int
                             /\ bill[b].status = "sent" => Balances[b] \in Nat
                             /\ bill[b].day # NoDay => bill[b].day \in Nat
         /\ today \in Nat
<1>1. ASSUME NEW b \in Bills
      PROVE  /\ bill[b].due \in Nat /\ bill[b].paid \in Nat
             /\ bill[b].status = "sent" => bill[b].paid <= bill[b].due
             /\ bill[b].day # NoDay => bill[b].day \in Nat
  <2>1. BillFits(bill[b])
    BY DEF FigureInv
  <2>2. bill[b].due \in Nat
    BY <2>1, WrittenDue, Units DEF BillFits
  <2>3. bill[b].paid \in Nat
    BY <2>1, Units DEF BillFits
  <2> QED
    BY <2>1, <2>2, <2>3, MoneyAssumption DEF BillFits
<1>2. ASSUME NEW b \in Bills PROVE Balances[b] = bill[b].due - bill[b].paid
  BY DEF Balances, Balance
<1>3. today \in Nat
  BY Units DEF FigureInv
<1> QED
  BY <1>1, <1>2, <1>3

LEMMA OverdueAgrees == FigureInv => OverdueViewsAgree
<1> SUFFICES ASSUME FigureInv PROVE OverdueViewsAgree
  OBVIOUS
<1> DEFINE Late == {b \in Bills : Overdue(b)}
           Due0 == {b \in Bills : bill[b].status = "sent" /\ PastDue(b)}
           Sent == {b \in Bills : bill[b].status = "sent"}
<1>1. listed("overdue") = Late
  <2>1. ASSUME NEW b \in Bills, Overdue(b) PROVE b \in Standing
    BY <2>1 DEF Overdue, Standing
  <2>2. ASSUME NEW b \in Standing PROVE b \in Bills
    BY DEF Standing
  <2> QED
    BY <2>1, <2>2 DEF listed, Overdue
<1>2. counted("overdue") = Cardinality(Late)
  <2>1. ASSUME NEW b PROVE b \in {c \in Standing :
                                    \/ "overdue" \in {"", bill[c].status}
                                    \/ /\ "overdue" = "overdue" /\ bill[c].status = "sent" /\ PastDue(c)
                                       /\ bill[c].due > bill[c].paid} <=> b \in Late
    <3>1. b \in Bills => bill[b].status # "overdue"
      BY DEF FigureInv, BillFits, InvoiceStatus
    <3> QED
      BY <3>1 DEF Standing, Overdue
  <2>2. Late = {c \in Standing :
                  \/ "overdue" \in {"", bill[c].status}
                  \/ /\ "overdue" = "overdue" /\ bill[c].status = "sent" /\ PastDue(c)
                     /\ bill[c].due > bill[c].paid}
    <3> HIDE DEF Late
    <3> QED
      BY <2>1
  <2> HIDE DEF Late
  <2> QED
    BY <2>2, Zenon DEF counted
<1>3. Late \in SUBSET Due0 /\ Due0 \in SUBSET Sent /\ Sent \in SUBSET Bills
  BY DEF Overdue
<1>4. IsFiniteSet(Sent) /\ IsFiniteSet(Due0)
  BY <1>3, MoneyAssumption, FS_Subset
<1>5. \A b \in Sent : Balances[b] \in Nat
  BY BalancesAre
<1>6. \A b \in Due0 \ Late : Balances[b] = 0
  <2>1. ASSUME NEW b \in Due0, ~ Overdue(b) PROVE Balances[b] = 0
    <3>1. b \in Bills /\ bill[b].status = "sent" /\ ~ (bill[b].due > bill[b].paid)
      BY <2>1 DEF Overdue
    <3> QED
      BY <3>1, BalancesAre
  <2> QED
    BY <2>1
<1>7. ASSUME Standing # {} PROVE Late \subseteq Attention
  <2>1. ASSUME NEW b \in Late PROVE b \in Attention
    <3>1. /\ b \in Bills /\ bill[b].status = "sent" /\ bill[b].day # NoDay /\ bill[b].day < today
          /\ bill[b].due > bill[b].paid
      BY DEF Overdue, PastDue
    <3>2. bill[b].day <= today + Soon
      BY <3>1, BalancesAre, Units
    <3> QED
      BY <3>1, <3>2 DEF Attention, Standing
  <2> QED
    BY <2>1
<1> HIDE DEF Late
<1>8. OverdueSum = SumFunctionOnSet(Balances, Due0) /\ Outstanding = SumFunctionOnSet(Balances, Sent)
  BY DEF OverdueSum, Outstanding
<1> HIDE DEF Due0, Sent
<1>9. /\ SumFunctionOnSet(Balances, Due0) = SumFunctionOnSet(Balances, Late)
      /\ SumFunctionOnSet(Balances, Due0) \in Nat
  <2>1. \A b \in Due0 : Balances[b] \in Nat /\ Balances[b] \in Int
    BY <1>3, <1>5
  <2>2. IsFiniteSet(Due0 \ Late) /\ IsFiniteSet(Late)
    BY <1>3, <1>4, FS_Subset
  <2>3. SumFunctionOnSet(Balances, Due0) = SumFunctionOnSet(Balances, Late) + SumFunctionOnSet(Balances, Due0 \ Late)
    BY <1>3, <1>4, <2>1, SumSplit
  <2>4. SumFunctionOnSet(Balances, Due0 \ Late) = 0
    <3>1. \A b \in Due0 \ Late : Balances[b] \in Nat
      BY <2>1
    <3> QED
      BY <1>6, <2>2, <3>1, SumRange
  <2>5. SumFunctionOnSet(Balances, Due0) \in Nat /\ SumFunctionOnSet(Balances, Late) \in Nat
    <3>1. \A b \in Late : Balances[b] \in Nat
      BY <1>3, <2>1
    <3> QED
      BY <1>4, <2>1, <2>2, <3>1, SumRange
  <2> QED
    BY <2>3, <2>4, <2>5
<1>10. SumFunctionOnSet(Balances, Due0) \in 0 .. SumFunctionOnSet(Balances, Sent)
  <2>1. \A b \in Sent : Balances[b] \in Int
    BY <1>5
  <2>2. SumFunctionOnSet(Balances, Sent) = SumFunctionOnSet(Balances, Due0) + SumFunctionOnSet(Balances, Sent \ Due0)
    BY <1>3, <1>4, <2>1, SumSplit
  <2>3. IsFiniteSet(Sent \ Due0) /\ \A b \in Sent \ Due0 : Balances[b] \in Nat
    BY <1>4, <1>5, FS_Subset
  <2>4. SumFunctionOnSet(Balances, Sent \ Due0) \in Nat
    BY <2>3, SumRange
  <2> QED
    BY <1>9, <2>2, <2>4
<1> QED
  BY <1>1, <1>2, <1>7, <1>8, <1>9, <1>10 DEF OverdueViewsAgree, Late

(* The quotes of each status, and what they come to.                       *)
LEMMA ValuesAre ==
  ASSUME FigureInv
  PROVE  /\ \A o \in Offers : [p \in Offers |-> offer[p].total][o] \in Nat
         /\ \A s : InStatus(s) \subseteq Offers /\ IsFiniteSet(InStatus(s)) /\ Value(s) \in Nat
         /\ \A s : InStatus(s) = {} => Value(s) = 0
<1>1. PICK worth : worth = [p \in Offers |-> offer[p].total]
  OBVIOUS
<1>2. ASSUME NEW o \in Offers PROVE worth[o] \in Nat
  <2>1. offer[o].total \in Nat
    BY WrittenDue, Units DEF FigureInv, OfferFits
  <2> QED
    BY <1>1, <2>1
<1>3. ASSUME NEW s PROVE InStatus(s) \subseteq Offers /\ IsFiniteSet(InStatus(s))
  <2>1. InStatus(s) \in SUBSET Offers
    BY DEF InStatus
  <2> QED
    BY <2>1, MoneyAssumption, FS_Subset
<1>4. ASSUME NEW s PROVE Value(s) = SumFunctionOnSet(worth, InStatus(s))
  BY <1>1 DEF Value
<1>5. ASSUME NEW s PROVE Value(s) \in Nat /\ (InStatus(s) = {} => Value(s) = 0)
  <2>1. \A o \in InStatus(s) : worth[o] \in Nat
    BY <1>2, <1>3
  <2>2. Value(s) \in Nat
    BY <1>3, <1>4, <2>1, SumRange
  <2>3. (\A o \in InStatus(s) : worth[o] = 0) => Value(s) = 0
    BY <1>3, <1>4, <2>1, SumRange
  <2> QED
    BY <2>2, <2>3
<1> QED
  BY <1>1, <1>2, <1>3, <1>5

LEMMA Statuses ==
  /\ IsFiniteSet(QuoteStatus) /\ "none" \notin QuoteStatus
  /\ {s \in QuoteStatus : s = "approved"} = {"approved"}
  /\ {s \in QuoteStatus : s # "approved" /\ s \notin {"rejected", "expired"}} = {"draft", "sent"}
<1>1. QuoteStatus = {"draft"} \cup {"sent"} \cup {"approved"} \cup {"rejected"} \cup {"expired"}
  BY DEF QuoteStatus
<1>2. IsFiniteSet(QuoteStatus)
  <2>1. IsFiniteSet({"draft"}) /\ IsFiniteSet({"sent"}) /\ IsFiniteSet({"approved"})
        /\ IsFiniteSet({"rejected"}) /\ IsFiniteSet({"expired"})
    BY FS_Singleton
  <2>2. IsFiniteSet({"draft"} \cup {"sent"})
    BY <2>1, FS_Union
  <2>3. IsFiniteSet({"draft"} \cup {"sent"} \cup {"approved"})
    BY <2>1, <2>2, FS_Union
  <2>4. IsFiniteSet({"draft"} \cup {"sent"} \cup {"approved"} \cup {"rejected"})
    BY <2>1, <2>3, FS_Union
  <2>5. IsFiniteSet({"draft"} \cup {"sent"} \cup {"approved"} \cup {"rejected"} \cup {"expired"})
    BY <2>1, <2>4, FS_Union
  <2> QED
    BY <1>1, <2>5
<1> QED
  BY <1>2 DEF QuoteStatus

(* Stats leaves out the statuses that do not occur, rollUp puts them back. *)
LEMMA RowsOfStats ==
  ASSUME FigureInv, NEW found, found = Stats, NEW s \in QuoteStatus,
         NEW row, row = IF s \in DOMAIN found THEN found[s] ELSE [count |-> 0, value |-> 0]
  PROVE  row.count = Cardinality(InStatus(s)) /\ row.value = Value(s)
<1>1. PICK D : D = {offer[o].status : o \in Offers} \ {"none"}
  OBVIOUS
<1>2. found = [r \in D |-> [count |-> Cardinality(InStatus(r)), value |-> Value(r)]]
  BY <1>1 DEF Stats
<1>3. CASE s \in D
  BY <1>2, <1>3
<1>4. CASE s \notin D
  <2>1. InStatus(s) = {}
    BY <1>1, <1>4, Statuses DEF InStatus
  <2>2. Cardinality(InStatus(s)) = 0 /\ Value(s) = 0
    BY <2>1, FS_EmptySet, ValuesAre
  <2> QED
    BY <1>2, <1>4, <2>2
<1> QED
  BY <1>3, <1>4

(* Each quote is counted under the one status it has.                      *)
LEMMA CountsAddUp ==
  ASSUME FigureInv, NEW counts, \A s \in QuoteStatus : counts[s] = Cardinality(InStatus(s))
  PROVE  SumFunctionOnSet(counts, QuoteStatus) = Cardinality({o \in Offers : offer[o].status # "none"})
<1> DEFINE Of(T) == {o \in Offers : offer[o].status \in T}
           G == {T \in SUBSET QuoteStatus : SumFunctionOnSet(counts, T) = Cardinality(Of(T))}
<1>0. \A s \in QuoteStatus : counts[s] \in Int
  <2>1. ASSUME NEW s \in QuoteStatus PROVE counts[s] \in Int
    <3>1. IsFiniteSet(InStatus(s))
      BY ValuesAre
    <3>2. Cardinality(InStatus(s)) \in Nat
      BY <3>1, FS_CardinalityType
    <3> QED
      BY <3>2
  <2> QED
    BY <2>1
<1>1. {} \in G
  <2>1. Of({}) = {}
    OBVIOUS
  <2>2. SumFunctionOnSet(counts, {}) = 0
    BY <1>0, Statuses, SumOfSome
  <2> QED
    BY <2>1, <2>2, FS_EmptySet
<1>2. ASSUME NEW T \in SUBSET QuoteStatus, NEW s \in T, T \ {s} \in G PROVE T \in G
  <2>1. Of(T) = Of(T \ {s}) \cup InStatus(s) /\ Of(T \ {s}) \cap InStatus(s) = {}
    BY DEF InStatus
  <2>2. IsFiniteSet(Of(T \ {s})) /\ IsFiniteSet(InStatus(s))
    <3>1. Of(T \ {s}) \in SUBSET Offers
      OBVIOUS
    <3> QED
      BY <3>1, MoneyAssumption, FS_Subset, ValuesAre
  <2> HIDE DEF Of
  <2>3. Cardinality(Of(T)) = Cardinality(Of(T \ {s})) + Cardinality(InStatus(s))
    <3>1. /\ Cardinality(Of(T \ {s}) \cup InStatus(s))
               = Cardinality(Of(T \ {s})) + Cardinality(InStatus(s)) - Cardinality(Of(T \ {s}) \cap InStatus(s))
      BY <2>2, FS_Union
    <3>2. Cardinality(Of(T \ {s}) \cap InStatus(s)) = 0
      BY <2>1, FS_EmptySet
    <3>3. Cardinality(Of(T \ {s})) \in Nat /\ Cardinality(InStatus(s)) \in Nat
      BY <2>2, FS_CardinalityType
    <3> QED
      BY <2>1, <3>1, <3>2, <3>3
  <2>4. SumFunctionOnSet(counts, T) = counts[s] + SumFunctionOnSet(counts, T \ {s})
    <3> HIDE DEF G
    <3> QED
      BY <1>0, Statuses, SumOfSome
  <2>5. SumFunctionOnSet(counts, T \ {s}) = Cardinality(Of(T \ {s}))
    BY <1>2
  <2>6. Cardinality(Of(T \ {s})) \in Nat /\ Cardinality(InStatus(s)) \in Nat /\ counts[s] = Cardinality(InStatus(s))
    BY <2>2, FS_CardinalityType
  <2> QED
    BY <2>3, <2>4, <2>5, <2>6
<1>3. QuoteStatus \in G
  <2> HIDE DEF G
  <2> QED
    BY <1>1, <1>2, Statuses, OneByOne
<1>4. Of(QuoteStatus) = {o \in Offers : offer[o].status # "none"}
  BY Statuses DEF FigureInv, OfferFits
<1> QED
  BY <1>3, <1>4

LEMMA SumOfTwo ==
  ASSUME NEW F, NEW x, NEW y, x # y, F[x] \in Int, F[y] \in Int
  PROVE  SumFunctionOnSet(F, {x}) = F[x] /\ SumFunctionOnSet(F, {x, y}) = F[x] + F[y]
<1>1. ASSUME NEW z, F[z] \in Int PROVE SumFunctionOnSet(F, {z}) = F[z]
  <2>1. PICK T : T = {z}
    OBVIOUS
  <2>2. IsFiniteSet(T) /\ T \ {z} = {} /\ z \in T /\ \A w \in T : F[w] \in Int
    BY <1>1, <2>1, FS_Singleton
  <2>3. SumFunctionOnSet(F, {}) = 0 /\ SumFunctionOnSet(F, T) = F[z] + SumFunctionOnSet(F, T \ {z})
    BY <2>2, SumStep
  <2>4. SumFunctionOnSet(F, T \ {z}) = 0
    BY <2>2, <2>3, Zenon
  <2>5. SumFunctionOnSet(F, T) = F[z]
    BY <1>1, <2>3, <2>4
  <2> QED
    BY <2>1, <2>5
<1>2. SumFunctionOnSet(F, {x, y}) = F[x] + SumFunctionOnSet(F, {y})
  <2>1. PICK T : T = {x, y}
    OBVIOUS
  <2>2. T = {x} \cup {y} /\ T \ {x} = {y} /\ x \in T /\ \A w \in T : F[w] \in Int
    BY <2>1
  <2>3. IsFiniteSet(T)
    <3>1. IsFiniteSet({x}) /\ IsFiniteSet({y})
      BY FS_Singleton
    <3>2. IsFiniteSet({x} \cup {y})
      BY <3>1, FS_Union
    <3> QED
      BY <2>2, <3>2
  <2>4. \A w \in T : SumFunctionOnSet(F, T) = F[w] + SumFunctionOnSet(F, T \ {w})
    <3>1. \A w \in T : F[w] \in Int
      BY <2>2
    <3> HIDE <2>2
    <3> QED
      BY <2>3, <3>1, SumStep
  <2>5. SumFunctionOnSet(F, T) = F[x] + SumFunctionOnSet(F, T \ {x})
    <3>1. x \in T
      BY <2>2
    <3> QED
      BY <2>4, <3>1, Zenon
  <2>6. T \ {x} = {y}
    BY <2>2
  <2> QED
    BY <2>1, <2>5, <2>6, Zenon
<1> QED
  BY <1>1, <1>2

LEMMA FunnelIsWhole == FigureInv => FunnelAddsUp
<1> SUFFICES ASSUME FigureInv PROVE FunnelAddsUp
  OBVIOUS
<1>1. PICK found : found = Stats
  OBVIOUS
<1> DEFINE row(s) == IF s \in DOMAIN found THEN found[s] ELSE [count |-> 0, value |-> 0]
<1>2. PICK counts : counts = [s \in QuoteStatus |-> row(s).count]
  OBVIOUS
<1>3. PICK value : value = [s \in QuoteStatus |-> row(s).value]
  OBVIOUS
<1>4. \A s \in QuoteStatus : counts[s] = Cardinality(InStatus(s)) /\ value[s] = Value(s)
  <2>1. ASSUME NEW s \in QuoteStatus PROVE row(s).count = Cardinality(InStatus(s)) /\ row(s).value = Value(s)
    BY <1>1, RowsOfStats, ZenonT(60)
  <2> HIDE DEF row
  <2> QED
    BY <1>2, <1>3, <2>1
<1>5. Funnel = [total |-> SumFunctionOnSet(counts, QuoteStatus),
                won   |-> SumFunctionOnSet(value, {"approved"}),
                open  |-> SumFunctionOnSet(value, {"draft", "sent"})]
  <2>1. Funnel = [total |-> SumFunction(counts),
                  won   |-> SumFunctionOnSet(value, {s \in QuoteStatus : s = "approved"}),
                  open  |-> SumFunctionOnSet(value, {s \in QuoteStatus : s # "approved" /\ s \notin {"rejected", "expired"}})]
    BY <1>1, <1>2, <1>3, Zenon DEF Funnel, rollUp
  <2>2. SumFunction(counts) = SumFunctionOnSet(counts, QuoteStatus)
    <3>1. DOMAIN counts = QuoteStatus
      BY <1>2
    <3> QED
      BY <3>1, Zenon DEF SumFunction
  <2> QED
    BY <2>1, <2>2, Statuses, Zenon
<1> HIDE DEF row
<1>6. SumFunctionOnSet(counts, QuoteStatus) = Cardinality({o \in Offers : offer[o].status # "none"})
  BY <1>4, CountsAddUp
<1>7. value["approved"] = Value("approved") /\ value["draft"] = Value("draft") /\ value["sent"] = Value("sent")
  BY <1>4 DEF QuoteStatus
<1>8. Value("approved") \in Int /\ Value("draft") \in Int /\ Value("sent") \in Int
  BY ValuesAre
<1>9. SumFunctionOnSet(value, {"approved"}) = Value("approved")
  BY <1>7, <1>8, SumOfTwo
<1>10. SumFunctionOnSet(value, {"draft", "sent"}) = Value("draft") + Value("sent")
  <2>1. value["draft"] \in Int /\ value["sent"] \in Int /\ "draft" # "sent"
    BY <1>7, <1>8
  <2>2. SumFunctionOnSet(value, {"draft", "sent"}) = value["draft"] + value["sent"]
    BY <2>1, SumOfTwo, Zenon
  <2> QED
    BY <1>7, <2>2
<1> QED
  BY <1>5, <1>6, <1>9, <1>10 DEF FunnelAddsUp

(* An approved quote is the end of it: neither it nor what it came to      *)
(* changes.                                                                *)
LEMMA WonStays ==
  ASSUME MoneyInv, FigureInv, FigureInv', MoneyNext
  PROVE  Value("approved")' >= Value("approved")
<1>1. ASSUME NEW o \in Offers, offer[o].status = "approved" PROVE offer'[o] = offer[o]
  <2>1. ASSUME NEW p \in Offers, SaveOffer(p) \/ ResaveOffer(p) \/ MoveOffer(p) \/ DeleteOffer(p)
        PROVE  offer'[o] = offer[o]
    <3>1. offer[p].status # "approved" /\ \E x : offer' = [offer EXCEPT ![p] = x]
      <4>1. CASE SaveOffer(p)
        BY <4>1 DEF SaveOffer, SaveLines
      <4>2. CASE ResaveOffer(p)
        BY <4>2 DEF ResaveOffer, SaveLines
      <4>3. CASE MoveOffer(p)
        BY <4>3 DEF MoveOffer, QuoteMoves
      <4>4. CASE DeleteOffer(p)
        BY <4>4 DEF DeleteOffer
      <4> QED
        BY <2>1, <4>1, <4>2, <4>3, <4>4
    <3> QED
      BY <1>1, <3>1 DEF MoneyInv
  <2>2. ASSUME offer' = offer PROVE offer'[o] = offer[o]
    BY <2>2
  <2> QED
    BY <2>1, <2>2 DEF MoneyNext, NextDay, RaiseBill, WriteBill, ResaveBill, MoveBill, DeleteBill, RecordReceipt
<1>2. PICK worth : worth = [o \in Offers |-> offer[o].total]
  OBVIOUS
<1>3. PICK worth1 : worth1 = [o \in Offers |-> offer'[o].total]
  OBVIOUS
<1>4. PICK A \in SUBSET Offers : A = InStatus("approved")
  BY DEF InStatus
<1>5. PICK B \in SUBSET Offers : B = InStatus("approved")'
  BY DEF InStatus
<1>6. Value("approved") = SumFunctionOnSet(worth, A) /\ Value("approved")' = SumFunctionOnSet(worth1, B)
  BY <1>2, <1>3, <1>4, <1>5 DEF Value
<1>7. A \in SUBSET B /\ \A o \in A : worth[o] = worth1[o]
  BY <1>1, <1>2, <1>3, <1>4, <1>5 DEF InStatus
<1>8. \A o \in Offers : worth[o] \in Nat
  <2>1. ASSUME NEW o \in Offers PROVE offer[o].total \in Nat
    BY WrittenDue, Units DEF FigureInv, OfferFits
  <2> QED
    BY <1>2, <2>1
<1>9. \A o \in Offers : worth1[o] \in Nat
  <2>1. ASSUME NEW o \in Offers PROVE offer'[o].total \in Nat
    BY WrittenDue, Units DEF FigureInv, OfferFits
  <2> QED
    BY <1>3, <2>1
<1>10. IsFiniteSet(A) /\ IsFiniteSet(B) /\ IsFiniteSet(B \ A)
  BY MoneyAssumption, FS_Subset
<1>11. SumFunctionOnSet(worth, A) = SumFunctionOnSet(worth1, A)
  <2>1. \A o \in A : worth[o] \in Int /\ worth[o] = worth1[o]
    BY <1>7, <1>8
  <2> QED
    BY <1>10, <2>1, SumSame
<1>12. SumFunctionOnSet(worth1, B) = SumFunctionOnSet(worth1, A) + SumFunctionOnSet(worth1, B \ A)
  <2>1. \A o \in B : worth1[o] \in Int
    BY <1>9
  <2> QED
    BY <1>7, <1>10, <2>1, SumSplit
<1>13. SumFunctionOnSet(worth1, A) \in Nat /\ SumFunctionOnSet(worth1, B \ A) \in Nat
  <2>1. (\A o \in A : worth1[o] \in Nat) /\ (\A o \in B \ A : worth1[o] \in Nat)
    BY <1>9
  <2> QED
    BY <1>10, <2>1, SumRange
<1> QED
  BY <1>6, <1>11, <1>12, <1>13, SMTT(60)

(* Of lines that come out of their columns as they are, each meets the sum *)
(* of its exact figures within three roundings.                            *)
LEMMA LineMeets ==
  ASSUME NEW f \in Figures,
         NEW k, k = [text |-> TRUE, quantity |-> f.quantity * Grain, price |-> f.price * Grain,
                     discount |-> f.discount * Grain, tax |-> f.tax * Grain],
         Item(k) = f,
         NEW parts, parts = f.quantity * f.price * (Whole - f.discount) * (Whole + f.tax)
  PROVE  /\ parts \in Int
         /\ 2 * (parts - (f.total + Round(f.total * f.tax, Whole)) * Parts) \in -(3 * Parts) .. 3 * Parts
<1>1. PICK q \in Nat, p \in Nat, d \in Nat, t \in Nat, total \in Nat :
        /\ q = f.quantity /\ p = f.price /\ d = f.discount /\ t = f.tax /\ total = f.total
        /\ d <= Whole /\ t <= Whole
  BY FigureIs
<1>2. PICK g \in Nat \ {0}, Q \in Nat \ {0}, w \in Nat \ {0} : g = Grain /\ Q = QuantityUnit /\ w = Whole
  BY Units
<1>3. total = Round((q * g) * (p * g) * (w * g - d * g), Q * g * g * w * g)
  <2>1. Item(k).total = Round(k.quantity * k.price * (Whole * Grain - k.discount),
                              QuantityUnit * Grain * Grain * Whole * Grain)
    BY DEF Item
  <2> QED
    BY <1>1, <1>2, <2>1
<1>4. PICK u \in Nat \ {0} : u = g * g * g
  OBVIOUS
<1>5. PICK net \in Nat : net = q * p * (w - d)
  <2>1. q * p \in Nat /\ w - d \in Nat
    BY <1>1, <1>2
  <2> QED
    BY <2>1
<1>6. (q * g) * (p * g) * (w * g - d * g) = u * net /\ Q * g * g * w * g = u * (Q * w)
  BY <1>4, <1>5
<1>7. Q * w \in Nat \ {0}
  OBVIOUS
<1>8. 2 * (net - (Q * w) * total) \in -(Q * w) .. Q * w
  BY <1>3, <1>6, <1>7, RoundedFiner
<1>9. PICK tax \in Nat : tax = Round(total * t, w) /\ 2 * (total * t - w * tax) \in -w .. w
  <2>1. total * t \in Nat
    OBVIOUS
  <2> QED
    BY <2>1, Rounded
<1>10. t \in 0 .. w
  BY <1>1, <1>2
<1>11. 2 * (net * (w + t) - (total + tax) * (Q * w * w)) \in -(3 * (Q * w * w)) .. 3 * (Q * w * w)
  BY <1>8, <1>9, <1>10, ThreeRoundings
<1>12. parts = net * (w + t) /\ Parts = Q * w * w /\ tax = Round(f.total * f.tax, Whole)
  BY <1>1, <1>2, <1>5, <1>9 DEF Parts
<1>13. parts \in Int
  BY <1>12
<1> QED
  BY <1>1, <1>11, <1>12, <1>13

LEMMA ExactMeets ==
  ASSUME NEW items \in Seq(Figures), Settled(items)
  PROVE  /\ Meets(CalculateGST(items), Total(items), Len(items))
         /\ (\A i \in DOMAIN items : items[i].discount = 0)
              => Meets(PrintedRows(items), Total(items), Len(items))
<1>1. PICK n \in Nat : n = Len(items) /\ DOMAIN items = 1 .. n
  OBVIOUS
<1>2. PICK nets : nets = [i \in DOMAIN items |-> items[i].total]
  OBVIOUS
<1>3. PICK taxes : taxes = [i \in DOMAIN items |-> Round(items[i].total * items[i].tax, Whole)]
  OBVIOUS
<1>4. PICK grand : grand = [i \in DOMAIN items |->
        items[i].quantity * items[i].price * (Whole - items[i].discount) * (Whole + items[i].tax)]
  OBVIOUS
<1>5. PICK row : row = [i \in DOMAIN items |->
        items[i].quantity * items[i].price * (Whole + items[i].tax) * Whole]
  OBVIOUS
<1>6. Parts \in Nat
  BY Units DEF Parts
<1>7. ASSUME NEW i \in 1 .. n
      PROVE  /\ grand[i] \in Int
             /\ 2 * (grand[i] - (nets[i] + taxes[i]) * Parts) \in -(3 * Parts) .. 3 * Parts
  <2>1. items[i] \in Figures
    BY <1>1
  <2>2. PICK k : k = [text |-> TRUE, quantity |-> items[i].quantity * Grain, price |-> items[i].price * Grain,
                      discount |-> items[i].discount * Grain, tax |-> items[i].tax * Grain]
    OBVIOUS
  <2>3. Item(k) = items[i]
    <3>1. DOMAIN AsRead(items) = DOMAIN items /\ AsRead(items)[i] = k
      BY <1>1, <2>2 DEF AsRead
    <3>2. replaceItems(<<>>, AsRead(items))[i] = Item(k)
      BY <1>1, <3>1 DEF replaceItems
    <3> QED
      BY <3>2 DEF Settled
  <2>4. grand[i] = items[i].quantity * items[i].price * (Whole - items[i].discount) * (Whole + items[i].tax)
    BY <1>1, <1>4
  <2>5. nets[i] = items[i].total /\ taxes[i] = Round(items[i].total * items[i].tax, Whole)
    BY <1>1, <1>2, <1>3
  <2> QED
    BY <2>1, <2>2, <2>3, <2>4, <2>5, LineMeets
<1>8. /\ \A i \in 1 .. n : nets[i] \in Nat /\ taxes[i] \in Nat
      /\ IsFiniteSet(1 .. n) /\ Cardinality(1 .. n) = n
      /\ Total(items) = SumFunctionOnSet(nets, 1 .. n) + SumFunctionOnSet(taxes, 1 .. n)
  BY <1>1, <1>2, <1>3, TotalIs
<1>9. 3 * Parts \in Nat
  BY <1>6
<1>10. 2 * (SumFunctionOnSet(grand, 1 .. n) - Total(items) * Parts) \in -(n * (3 * Parts)) .. n * (3 * Parts)
  <2>1. PICK K \in Nat : K = 3 * Parts
    BY <1>9
  <2>2. PICK S : S = 1 .. n
    OBVIOUS
  <2>3. ASSUME NEW i \in S
        PROVE  /\ grand[i] \in Int /\ nets[i] \in Int /\ taxes[i] \in Int
               /\ 2 * (grand[i] - (nets[i] + taxes[i]) * Parts) \in -K .. K
    BY <1>7, <1>8, <2>1, <2>2, SMTT(60)
  <2>4. IsFiniteSet(S) /\ Cardinality(S) = n
    BY <1>8, <2>2
  <2>5. 2 * (SumFunctionOnSet(grand, S) - (SumFunctionOnSet(nets, S) + SumFunctionOnSet(taxes, S)) * Parts)
          \in -(Cardinality(S) * K) .. Cardinality(S) * K
    BY <1>6, <2>3, <2>4, SumNear
  <2>6. Total(items) = SumFunctionOnSet(nets, S) + SumFunctionOnSet(taxes, S)
    BY <1>8, <2>2
  <2> QED
    BY <2>1, <2>2, <2>4, <2>5, <2>6
<1>11. CalculateGST(items) = SumFunctionOnSet(grand, 1 .. n)
  <2>1. CalculateGST(items) = SumFunction(grand)
    BY <1>4, Zenon DEF CalculateGST, Summed
  <2>2. DOMAIN grand = 1 .. n
    BY <1>1, <1>4
  <2> QED
    BY <2>1, <2>2, Zenon DEF SumFunction
<1>12. n * (3 * Parts) = 3 * n * Parts
  BY <1>6
<1>13. Meets(CalculateGST(items), Total(items), Len(items))
  BY <1>1, <1>10, <1>11, <1>12 DEF Meets
<1>14. ASSUME \A i \in DOMAIN items : items[i].discount = 0 PROVE PrintedRows(items) = CalculateGST(items)
  <2>1. ASSUME NEW i \in DOMAIN items PROVE row[i] = grand[i]
    <3>1. PICK q \in Nat, p \in Nat, t \in Nat, w \in Nat :
            q = items[i].quantity /\ p = items[i].price /\ t = items[i].tax /\ w = Whole
      <4>1. items[i] \in Figures
        OBVIOUS
      <4> QED
        BY <4>1, FigureIs, Units
    <3>2. row[i] = q * p * (w + t) * w /\ grand[i] = q * p * (w - 0) * (w + t)
      BY <1>4, <1>5, <1>14, <3>1
    <3> QED
      BY <3>2
  <2>2. row = grand
    BY <1>4, <1>5, <2>1
  <2>3. PrintedRows(items) = SumFunction(row) /\ CalculateGST(items) = SumFunction(grand)
    BY <1>4, <1>5, Zenon DEF PrintedRows, CalculateGST, Summed
  <2> QED
    BY <2>2, <2>3
<1> QED
  BY <1>13, <1>14

LEMMA SumsMeet == MoneyInv /\ FigureInv => SumsMeetTheTotal
<1> SUFFICES ASSUME MoneyInv, FigureInv, NEW b \in Standing, bill[b].exact
             PROVE  /\ Meets(CalculateGST(bill[b].items), bill[b].due, Len(bill[b].items))
                    /\ (\A i \in DOMAIN bill[b].items : bill[b].items[i].discount = 0)
                         => Meets(PrintedRows(bill[b].items), bill[b].due, Len(bill[b].items))
  BY DEF SumsMeetTheTotal
<1>1. b \in Bills /\ bill[b].status # "none"
  BY DEF Standing
<1>2. Written(bill[b].items, bill[b].due)
  BY <1>1 DEF FigureInv, BillFits
<1>3. Settled(bill[b].items)
  BY <1>1 DEF MoneyInv
<1> QED
  BY <1>2, <1>3, ExactMeets DEF Written

(* Every view of the documents adds up to the same: what is overdue        *)
(* (invoices/store.go:538, dashboard/attention.go:91), the funnel of       *)
(* quotes (dashboard/handler.go:203) and the totals that are printed; and  *)
(* what customers agreed to only grows (quotes/service.go:26).             *)
THEOREM WhoeverAdds == MoneySpec => ViewsAgree
<1>1. MoneyInv /\ FigureInv => OverdueViewsAgree /\ FunnelAddsUp /\ SumsMeetTheTotal
  BY OverdueAgrees, FunnelIsWhole, SumsMeet
<1>2. MoneyInv /\ FigureInv /\ FigureInv' /\ [MoneyNext]_moneyVars
        => [Value("approved")' >= Value("approved")]_offer
  <2>1. ASSUME MoneyInv, FigureInv, FigureInv', MoneyNext PROVE [Value("approved")' >= Value("approved")]_offer
    BY <2>1, WonStays
  <2>2. ASSUME UNCHANGED moneyVars PROVE offer' = offer
    BY <2>2 DEF moneyVars
  <2> QED
    BY <2>1, <2>2
<1>3. MoneySpec => []FigureInv /\ [](MoneyInv /\ FigureInv) /\ [][MoneyNext]_moneyVars
  BY FigureInvariance, PTL DEF MoneySpec
<1>4. MoneySpec => WonNeverShrinks
  BY <1>2, <1>3, PTL DEF WonNeverShrinks
<1> QED
  BY <1>1, <1>3, <1>4, PTL DEF ViewsAgree

=============================================================================
