--------------------------- MODULE InvoiceLifecycle --------------------------
(***************************************************************************)
(* What the platform promises a merchant about one invoice                 *)
(* (docs/platform-integration.md, "Invoice status lifecycle"): the status  *)
(* only moves forward, `paid` is never shown before money arrived, and     *)
(* `swept` never before money left the invoice address for the merchant.   *)
(***************************************************************************)
EXTENDS Naturals

VARIABLES
    stage,      \* what the merchant reads
    received,   \* what payers sent to the invoice address
    paidOut     \* what left it

vars == <<stage, received, paidOut>>

Init == stage = "awaiting_payment" /\ received = 0 /\ paidOut = 0

Receive ==
    /\ received' \in Nat /\ received' > received
    /\ UNCHANGED <<stage, paidOut>>

Detect ==
    /\ stage = "awaiting_payment" /\ received > 0
    /\ stage' = "paid"
    /\ UNCHANGED <<received, paidOut>>

Settle ==
    /\ paidOut' \in Nat /\ paidOut' > paidOut /\ paidOut' <= received
    /\ UNCHANGED <<stage, received>>

Report ==
    /\ stage # "swept" /\ paidOut > 0
    /\ stage' = "swept"
    /\ UNCHANGED <<received, paidOut>>

Next == Receive \/ Detect \/ Settle \/ Report

Spec == Init /\ [][Next]_vars
=============================================================================
