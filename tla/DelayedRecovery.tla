--------------------------- MODULE DelayedRecovery ---------------------------
(***************************************************************************)
(* The recovery of an account as both contracts offer it and the activator *)
(* relies on it: one candidate at a time, announced, due once its delay is *)
(* over and not before, and then added as announced, unless it was called  *)
(* off.  Of the delay only its being over is visible, and what is due      *)
(* stays due.                                                              *)
(***************************************************************************)

CONSTANTS Keys

VARIABLES
    candidate,  \* the set with the announced key, empty without one
    due,
    members     \* the keys of the account

recoveryVars == <<candidate, due, members>>

RecoveryInit == candidate = {} /\ due = FALSE

\* The holders of its keys run the account, also while a candidate waits.
Admit(k) == members' = members \cup {k} /\ UNCHANGED <<candidate, due>>
Dismiss(k) == members' = members \ {k} /\ UNCHANGED <<candidate, due>>

Announce(k) ==
    /\ candidate = {} /\ candidate' = {k} /\ due' \in BOOLEAN
    /\ UNCHANGED members

DelayEnds ==
    /\ candidate # {} /\ due' = TRUE
    /\ UNCHANGED <<candidate, members>>

Over == candidate' = {} /\ due' = FALSE

Succeed ==
    /\ due /\ candidate \cap members = {}
    /\ members' = members \cup candidate
    /\ Over

CallOff == candidate # {} /\ Over /\ UNCHANGED members

RecoveryNext ==
    \/ \E k \in Keys : Admit(k) \/ Dismiss(k) \/ Announce(k)
    \/ DelayEnds \/ Succeed \/ CallOff

RecoverySpec == RecoveryInit /\ [][RecoveryNext]_recoveryVars
=============================================================================
