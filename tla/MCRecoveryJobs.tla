--------------------------- MODULE MCRecoveryJobs ---------------------------
(* Three of the settings for TLC: a passkey wallet that waits for its first *)
(* funds and for a timelock; an identity that the activator restores at    *)
(* once; one that the operator's wallet restores after a delay.            *)
EXTENDS RecoveryJobs

MCInit ==
    /\ JobsInit
    /\ \/ ~identity /\ delayed /\ wallet = "unfunded"
       \/ identity /\ (operatorIsGuardian <=> ~delayed)

MCSpec == MCInit /\ [][JobsNext]_jobsVars /\ JobsFairness
=============================================================================
