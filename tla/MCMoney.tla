------------------------------ MODULE MCMoney ------------------------------
(* Instances for TLC of billing: documents under concurrent requests       *)
(* (Billing, as in MCBilling) and their figures (Money).  These share no   *)
(* variable and each property reads one of them, so a behaviour takes the  *)
(* steps of one.                                                           *)
EXTENDS MCBilling, Money

VARIABLE focus
mcVars == <<vars, moneyVars, focus>>

(* Quantities in hundredths, prices in tenths of a cent, percentages in    *)
(* tenths; a column keeps one digit less.                                  *)
Line(q, p, d, t) == [text |-> TRUE, quantity |-> q, price |-> p, discount |-> d, tax |-> t]
Empty == [Line(0, 0, 0, 0) EXCEPT !.text = FALSE]
Plain == Line(20, 1010, 0, 180)
Fine  == Line(15, 1005, 0, 50)
Cut   == Line(70, 990, 500, 180)
Gift  == Line(0, 0, 0, 0)

MCEntered ==
  {<<Empty, Plain>>, <<Fine>>, <<Cut, Plain>>, <<Gift>>, <<Line(20, 1010, 1001, 0)>>, <<Empty>>, <<Plain, Plain, Plain>>,
   <<Line(90, 9900, 0, 0)>>}

MCInit == focus \in {"billing", "money"} /\ Init /\ MoneyInit

MCNext ==
  /\ UNCHANGED focus
  /\ \/ focus = "billing" /\ Next /\ UNCHANGED moneyVars
     \/ focus = "money" /\ MoneyNext /\ UNCHANGED vars

(* One invoice is written at a time; two stand, of a line each, next to a  *)
(* quote only if one was raised from it and neither is void.  Of Billing's *)
(* invoices one at most is void or deleted, and one exists next to a quote *)
(* that came to nothing.                                                   *)
MCBound ==
  LET there(s) == {b \in Bills : bill[b].status = s}
      two == Cardinality(there("none")) <= Cardinality(Bills) - 2
  IN
  /\ Cardinality(there("draft")) <= 1
  /\ two => /\ \A b \in Bills : Len(bill[b].items) <= 1
            /\ \A o \in Offers :
                 \/ offer[o].status = "none"
                 \/ /\ offer[o].status = "approved" /\ there("void") = {}
                    /\ \E b \in Bills : o \in bill[b].source
  /\ Cardinality({i \in Invoices : invoice[i] \in {"void", "gone"}}) <= 1
  /\ (\E q \in Quotes : quote[q] \in {"gone", "rejected", "expired"}) =>
       \E i \in Invoices : invoice[i] = "none"

MCSpec == MCInit /\ [][MCNext]_mcVars

(* The types of both (Billing, Money).                                     *)
MCTypeOK == TypeOK /\ MoneyTypeOK
=============================================================================
