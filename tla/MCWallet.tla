------------------------------ MODULE MCWallet ------------------------------
(***************************************************************************)
(* Two instances for TLC in one run: three entities with two keys between  *)
(* them, and two entities with three keys, of which KeyWrap look like none.*)
(* Nothing tells one key from another, or one entity from another, and     *)
(* every property treats them alike.                                       *)
(***************************************************************************)
EXTENDS Wallet, TLC

VARIABLE wraps

KeysUsed == owners \cup {p[2] : p \in keys}
EntitiesUsed == entities \cup {p[1] : p \in keys}

MCInit == WalletInit /\ wraps \in BOOLEAN

MCNext ==
    /\ WalletNext /\ UNCHANGED wraps
    /\ IF wraps THEN Cardinality(EntitiesUsed') <= 2 ELSE Cardinality(KeysUsed') <= 2

MCSpec == MCInit /\ [][MCNext]_<<walletVars, wraps>>

Symmetry == Permutations(Keys) \cup Permutations(Entities)
=============================================================================
