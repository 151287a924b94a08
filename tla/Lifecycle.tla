----------------------------- MODULE Lifecycle -----------------------------
(* The states of quotes and invoices, and the moves between them that the  *)
(* two services allow (transitions, in quotes and in invoices).            *)

QuoteStatus   == {"draft", "sent", "approved", "rejected", "expired"}
InvoiceStatus == {"draft", "sent", "paid", "void"}

QuoteMoves ==
  {<<"draft", "sent">>, <<"sent", "approved">>, <<"sent", "rejected">>,
   <<"sent", "expired">>, <<"sent", "draft">>, <<"rejected", "draft">>,
   <<"expired", "draft">>}

InvoiceMoves ==
  {<<"draft", "sent">>, <<"draft", "void">>, <<"sent", "paid">>, <<"sent", "void">>}
=============================================================================
