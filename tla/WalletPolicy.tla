---------------------------- MODULE WalletPolicy ----------------------------
(***************************************************************************)
(* What a wallet (contracts/wallet/Wallet.sol) promises those who hold its *)
(* keys, without its lists, bits and counters: who may sign for it, and    *)
(* how that may change.  Simple mode knows owners, advanced mode members   *)
(* with keys, some of which may veto.  That a member joins or leaves does  *)
(* not touch the rights of another.                                        *)
(***************************************************************************)
EXTENDS Naturals, FiniteSets

CONSTANTS
    Keys, NoKey,
    Entities,
    KeyWrap     \* so many keys of a member look like none

VARIABLES
    owners,     \* keys, each of which signs alone in simple mode
    successor,  \* the key a recovery is about to add, or NoKey
    advanced,
    members,    \* entities
    keys,       \* pairs of an entity and a key of its own
    vetoers,    \* members without one of whom nothing is signed
    threshold

vars == <<owners, successor, advanced, members, keys, vetoers, threshold>>

Init ==
    /\ \E k \in Keys : owners = {k}
    /\ successor = NoKey /\ advanced = FALSE
    /\ members = {} /\ keys = {} /\ vetoers = {} /\ threshold = 0

HasKey(e) == \E k \in Keys : <<e, k>> \in keys

\* Signatures of the entities in S are enough.
Accepts(S) ==
    /\ Cardinality(S) >= threshold
    /\ vetoers = {} \/ S \cap vetoers # {}

\* Somebody must be able to sign for the wallet, and no recovery is going on.
Agreed ==
    /\ successor = NoKey
    /\ IF advanced THEN Accepts({e \in members : HasKey(e)}) ELSE owners # {}

SameSimple == UNCHANGED <<owners, successor, advanced>>
SameAdvanced == UNCHANGED <<advanced, members, keys, vetoers, threshold>>

-----------------------------------------------------------------------------
(* Simple mode *)

AdmitOwner(k) ==
    /\ Agreed /\ ~advanced
    /\ k \notin owners /\ owners' = owners \cup {k}
    /\ UNCHANGED successor /\ SameAdvanced

DismissOwner(k) ==
    /\ Agreed /\ ~advanced
    /\ k \in owners /\ owners' = owners \ {k} /\ owners' # {}
    /\ UNCHANGED successor /\ SameAdvanced

Announce(k) ==
    /\ ~advanced /\ successor = NoKey /\ successor' = k
    /\ UNCHANGED owners /\ SameAdvanced

Succeed ==
    /\ ~advanced /\ successor \notin owners \cup {NoKey}
    /\ owners' = owners \cup {successor} /\ successor' = NoKey
    /\ SameAdvanced

CallOff ==
    /\ ~advanced /\ owners # {} /\ successor # NoKey /\ successor' = NoKey
    /\ UNCHANGED owners /\ SameAdvanced

\* The owners become the keys of the first member.
Advance(e) ==
    /\ Agreed /\ ~advanced /\ advanced' = TRUE
    /\ members' = {e} /\ keys' = {e} \X owners
    /\ vetoers' = {} /\ threshold' = 1
    /\ UNCHANGED <<owners, successor>>

-----------------------------------------------------------------------------
(* Advanced mode *)

Join(e) ==
    /\ Agreed /\ advanced
    /\ e \notin members /\ members' = members \cup {e}
    /\ UNCHANGED <<keys, vetoers, threshold>> /\ SameSimple

\* With all its keys, or with KeyWrap of them left behind at least, which
\* count for nothing until it joins again.
Leave(e) ==
    /\ Agreed /\ advanced
    /\ e \in members /\ members' = members \ {e}
    /\ Cardinality(members') >= threshold
    /\ keys' \subseteq keys /\ \A p \in keys \ keys' : p[1] = e
    /\ LET left == {p \in keys' : p[1] = e} IN left = {} \/ Cardinality(left) >= KeyWrap
    /\ vetoers' = vetoers \ {e}
    /\ UNCHANGED threshold /\ SameSimple

GiveKey(e, k) ==
    /\ Agreed /\ advanced
    /\ e \in members /\ <<e, k>> \notin keys /\ keys' = keys \cup {<<e, k>>}
    /\ UNCHANGED <<members, vetoers, threshold>> /\ SameSimple

\* Nobody loses the last key.
TakeKey(e, k) ==
    /\ Agreed /\ advanced
    /\ <<e, k>> \in keys /\ keys' = keys \ {<<e, k>>} /\ HasKey(e)'
    /\ UNCHANGED <<members, vetoers, threshold>> /\ SameSimple

\* As many signatures as there are members at most.
Require(m) ==
    /\ Agreed /\ advanced
    /\ threshold' = m
    /\ UNCHANGED <<members, keys, vetoers>> /\ SameSimple

GrantVeto(e) ==
    /\ Agreed /\ advanced
    /\ e \in members /\ HasKey(e) /\ vetoers' = vetoers \cup {e}
    /\ UNCHANGED <<members, keys, threshold>> /\ SameSimple

RevokeVeto(e) ==
    /\ Agreed /\ advanced
    /\ vetoers' = vetoers \ {e}
    /\ UNCHANGED <<members, keys, threshold>> /\ SameSimple

\* Members only join, and all of them can sign afterwards.
Rearrange ==
    /\ Agreed /\ advanced
    /\ members \subseteq members' /\ members' \subseteq Entities
    /\ keys' \subseteq keys \cup members' \X Keys /\ \A e \in members' : HasKey(e)'
    /\ vetoers' \subseteq members' /\ threshold' \in 1..Cardinality(members')
    /\ SameSimple

Next ==
    \/ Rearrange
    \/ \E k \in Keys : AdmitOwner(k) \/ DismissOwner(k) \/ Announce(k)
    \/ Succeed \/ CallOff
    \/ \E e \in Entities :
          \/ Advance(e) \/ Join(e) \/ Leave(e) \/ GrantVeto(e) \/ RevokeVeto(e)
          \/ \E k \in Keys : GiveKey(e, k) \/ TakeKey(e, k)
    \/ \E m \in 1..Cardinality(members) : Require(m)

Spec == Init /\ [][Next]_vars
=============================================================================
