--------------------------- MODULE WalletOperation ---------------------------
(***************************************************************************)
(* What a wallet may believe of an operation it handed in, without rows,   *)
(* versions, leases and bundlers.  It is queued, sent, and included in the *)
(* chain or refused; the chain executes it once at most.  A refused one    *)
(* may be queued again, and a bundler that has not heard of the refusal    *)
(* may still send it.                                                      *)
(***************************************************************************)

VARIABLES
    stage,      \* what the wallet is told: none, queued, sent, refused, included
    fate,       \* what the chain did: nothing yet (open), done or reverted
    unannounced \* it was sent at a time when the wallet was not told so

vars == <<stage, fate, unannounced>>

Init == stage = "none" /\ fate = "open" /\ unannounced = FALSE

Request ==
    /\ stage \in {"none", "refused"} /\ stage' = "queued"
    /\ UNCHANGED <<fate, unannounced>>

Send ==
    /\ stage \in {"queued", "refused"} /\ stage' = "sent"
    /\ UNCHANGED <<fate, unannounced>>

SendUnannounced ==
    /\ stage # "none" /\ fate = "open"
    /\ unannounced' = TRUE
    /\ UNCHANGED <<stage, fate>>

\* The chain acts behind the wallet's back only on what was sent so.
Execute ==
    /\ stage = "sent" \/ unannounced
    /\ fate = "open" /\ fate' \in {"done", "reverted"}
    /\ UNCHANGED <<stage, unannounced>>

Include ==
    /\ stage \notin {"none", "included"} /\ fate = "done"
    /\ stage' = "included"
    /\ UNCHANGED <<fate, unannounced>>

\* The wallet that is told so may sign the payment again.
Refuse ==
    /\ stage \in {"queued", "sent"}
    /\ fate = "done" => unannounced
    /\ stage' = "refused"
    /\ UNCHANGED <<fate, unannounced>>

Next == Request \/ Send \/ SendUnannounced \/ Execute \/ Include \/ Refuse

Spec == Init /\ [][Next]_vars
=============================================================================
