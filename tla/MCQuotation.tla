---------------------------- MODULE MCQuotation ----------------------------
(* Small instances of Quotation.                                           *)
EXTENDS Quotation
=============================================================================
