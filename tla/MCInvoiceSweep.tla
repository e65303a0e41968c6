--------------------------- MODULE MCInvoiceSweep ----------------------------
(* Small instances of InvoiceSweep for TLC: two workers, w1 always keyed.   *)
EXTENDS InvoiceSweep, TLC

CONSTANTS w1, w2

BothWorkers == {w1, w2}
OneKey == {w1}

\* Sound where both workers hold a key and no liveness is checked.
Swap == Permutations(BothWorkers)
=============================================================================
