------------------------------ MODULE MCLedger -------------------------------
\* A small ledger: enough invoices for a payment to be spread over.
EXTENDS Ledger

MCInvoiceIds == 1 .. 2
=============================================================================
