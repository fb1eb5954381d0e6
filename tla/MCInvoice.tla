----------------------------- MODULE MCInvoice -----------------------------
(* Instances of Invoice for TLC.                                           *)
EXTENDS Invoice, TLC

(* The payments of the one order are interchangeable.                      *)
Symmetry == Permutations(Payments)

(* One question alone: does the catch of issueInvoiceDirectly count?  Every *)
(* payment log has prepared invoices, so that each attempt is made in a     *)
(* transaction of its own; ezPay cannot be reached, so that each one throws *)
(* and is caught; no statement fails and no process dies.                   *)
SplitInit == Init /\ split = Payments
SplitNext ==
  \E r \in Runners :
    \/ Select(r) \/ EndBatch(r)
    \/ Configure(r) \/ Unreached(r) \/ ReadRows(r) \/ SaveOrder(r) \/ Rethrow(r)
    \/ \E p \in Payments : Take(r, p) \/ SavePayment(r, p)
SplitSpec == SplitInit /\ [][SplitNext]_vars

============================================================================
