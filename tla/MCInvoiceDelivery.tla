------------------------- MODULE MCInvoiceDelivery -------------------------
(* Instances of InvoiceDelivery for TLC. *)
EXTENDS InvoiceDelivery, TLC

\* Workers and requests are interchangeable; no run that checks liveness uses it.
Symmetry == Permutations(Workers) \cup Permutations(Requests)
=============================================================================
