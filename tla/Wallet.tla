------------------------------- MODULE Wallet -------------------------------
(***************************************************************************)
(* A passkey wallet (contracts/wallet/Wallet.sol).  In simple mode any one *)
(* of its owners signs (P256OwnerRegistry), and a guardian may pause it    *)
(* and schedule a new owner behind a timelock (AdminGuardianRecovery).  In *)
(* advanced mode M of N entities sign, each with any of its keys, and one  *)
(* of the veto entities among them (AdvancedWalletMixin); recovery is off. *)
(*                                                                         *)
(* An owner or key is a value of Keys, whatever its type (passkey, YubiKey *)
(* or EOA).  Whoever holds a key signs what a step needs, so a call by the *)
(* wallet itself is free whenever its keys can satisfy the policy; a batch *)
(* of calls in one user operation is taken as that many operations.  A     *)
(* call that reverts changes nothing.                                      *)
(***************************************************************************)
EXTENDS Integers, Sequences, FiniteSets

CONSTANTS
    Keys, NoKey,
    Entities,
    RecoveryTimelock,
    MaxEntities,        \* MAX_ENTITIES
    KeyWrap,            \* 2^8: _entityKeyCount is an unchecked uint8
    MaxBatch,           \* bound: changes one configureMultisig makes
    MaxTime             \* bound: the last block timestamp

ASSUME WalletAssumption ==
    /\ IsFiniteSet(Keys) /\ NoKey \notin Keys
    /\ IsFiniteSet(Entities)
    /\ RecoveryTimelock \in Nat /\ MaxEntities \in Nat \ {0}
    /\ KeyWrap \in Nat \ {0}
    /\ MaxBatch \in Nat /\ MaxTime \in Nat

VARIABLES
    owners,             \* _owners
    ownerIds,           \* _ownerIds; _ownerCount is its length
    recoverable,        \* recoveryContract is set
    paused,
    pendingOwner,
    now,                \* block.timestamp
    advanced,
    threshold,
    entities,           \* _entityExists
    entityCount,
    entityBit, entityAtBit,
    entityBitmap, vetoBitmap,   \* as sets of bits
    vetoCount,
    keys,               \* _keys, as pairs of an entity and a key
    keyCount,           \* _entityKeyCount
    scheduledAt            \* history: when the pending owner was scheduled

ownerVars == <<owners, ownerIds>>
recoveryVars == <<recoverable, paused, pendingOwner, scheduledAt>>
entityVars == <<entities, entityCount, entityBit, entityAtBit, entityBitmap>>
vetoVars == <<vetoBitmap, vetoCount>>
keyVars == <<keys, keyCount>>
policyVars == <<advanced, threshold, entityVars, vetoVars, keyVars>>
walletVars == <<ownerVars, recoveryVars, now, policyVars>>

(* the other fields of an inactive pending owner are not read again *)
NoPendingOwner == [active |-> FALSE, key |-> NoKey, executableAt |-> 0]

(* initialize: one owner, and a recovery contract *)
WalletInit ==
    /\ \E k \in Keys : owners = {k} /\ ownerIds = <<k>>
    /\ recoverable = TRUE /\ paused = FALSE /\ pendingOwner = NoPendingOwner
    /\ scheduledAt = 0 /\ now = 0
    /\ advanced = FALSE /\ threshold = 0
    /\ entities = {} /\ entityCount = 0 /\ entityBitmap = {}
    /\ entityBit = [e \in Entities |-> 0] /\ entityAtBit = [b \in {} |-> 0]
    /\ vetoBitmap = {} /\ vetoCount = 0
    /\ keys = {} /\ keyCount = [e \in Entities |-> 0]

-----------------------------------------------------------------------------
(* Who can sign (_rawSignatureValidation) *)

KeysIn(S, e) == {k \in Keys : <<e, k>> \in S}
KeysOf(e) == KeysIn(keys, e)
CanVote(e) == KeysOf(e) # {}

(* _validateAdvancedSignatures, when the entities in S sign *)
Validates(S) ==
    LET signedBits == {entityBit[e] : e \in S}
    IN  /\ Cardinality(signedBits) >= threshold
        /\ vetoBitmap = {} \/ signedBits \cap vetoBitmap # {}

EntitiesCanSign == Validates({e \in entities : CanVote(e)})

OwnerCanSign == \E i \in DOMAIN ownerIds : ownerIds[i] \in owners

CanSign == IF advanced THEN EntitiesCanSign ELSE OwnerCanSign

(* onlyEntryPointOrSelf whenNotPaused *)
BySelf == ~paused /\ CanSign

-----------------------------------------------------------------------------
(* Owners, in simple mode *)

(* _addOwnerKey *)
AddOwnerKey(k) ==
    /\ k \in Keys \ owners
    /\ owners' = owners \cup {k} /\ ownerIds' = Append(ownerIds, k)

(* addOwner, addOwnerEoa *)
AddOwner(k) ==
    /\ BySelf /\ ~advanced
    /\ AddOwnerKey(k)
    /\ UNCHANGED <<recoveryVars, now, policyVars>>

(* _removeOwnerId: the last id takes the place of k's *)
RemoveOwnerId(ids, k) ==
    LET i == CHOOSE j \in DOMAIN ids : ids[j] = k
    IN  [j \in 1..(Len(ids) - 1) |-> IF j = i THEN ids[Len(ids)] ELSE ids[j]]

(* removeOwner *)
RemoveOwner(k) ==
    /\ BySelf /\ ~advanced
    /\ k \in owners /\ Len(ownerIds) > 1
    /\ owners' = owners \ {k} /\ ownerIds' = RemoveOwnerId(ownerIds, k)
    /\ UNCHANGED <<recoveryVars, now, policyVars>>

-----------------------------------------------------------------------------
(* Recovery *)

InitiateOwnerRecovery_Replaces(k) ==
    /\ recoverable /\ ~advanced
    /\ k \in Keys
    /\ now + RecoveryTimelock <= MaxTime
    /\ paused' = TRUE
    /\ pendingOwner' = [active |-> TRUE, key |-> k,
                        executableAt |-> now + RecoveryTimelock]
    /\ scheduledAt' = now
    /\ UNCHANGED <<ownerVars, recoverable, now, policyVars>>

(* initiateOwnerRecovery by the guardian: pause and recoveryAddOwner in one *)
(* call, so that a second one reverts as a whole.  A change that would come *)
(* due after MaxTime is left out.                                           *)
InitiateOwnerRecovery(k) ==
    /\ recoverable /\ ~advanced
    /\ ~pendingOwner.active
    /\ k \in Keys
    /\ now + RecoveryTimelock <= MaxTime
    /\ paused' = TRUE
    /\ pendingOwner' = [active |-> TRUE, key |-> k,
                        executableAt |-> now + RecoveryTimelock]
    /\ scheduledAt' = now
    /\ UNCHANGED <<ownerVars, recoverable, now, policyVars>>

ExecutePendingOwner_StaysPaused ==
    /\ ~advanced
    /\ pendingOwner.active /\ now >= pendingOwner.executableAt
    /\ AddOwnerKey(pendingOwner.key)
    /\ pendingOwner' = NoPendingOwner
    /\ UNCHANGED <<recoverable, paused, scheduledAt, now, policyVars>>

(* executePendingOwner, called by anyone *)
ExecutePendingOwner ==
    /\ ~advanced
    /\ pendingOwner.active /\ now >= pendingOwner.executableAt
    /\ AddOwnerKey(pendingOwner.key)
    /\ pendingOwner' = NoPendingOwner
    /\ paused' = FALSE /\ scheduledAt' = 0
    /\ UNCHANGED <<recoverable, now, policyVars>>

(* cancelPendingOwnerWithSignature: any owner signs the request's id.  The *)
(* unsigned cancelPendingOwner needs a pending owner and no pause, which   *)
(* PausedHasWayOut excludes.                                               *)
CancelPendingOwnerWithSignature ==
    /\ ~advanced
    /\ paused /\ pendingOwner.active /\ OwnerCanSign
    /\ pendingOwner' = NoPendingOwner
    /\ paused' = FALSE /\ scheduledAt' = 0
    /\ UNCHANGED <<ownerVars, recoverable, now, policyVars>>

(* Time matters to a pending recovery alone. *)
Tick ==
    /\ pendingOwner.active /\ now < MaxTime
    /\ now' = now + 1
    /\ UNCHANGED <<ownerVars, recoveryVars, policyVars>>

-----------------------------------------------------------------------------
(* Advanced mode: entities *)

(* _registerEntity for each of the names, in turn *)
Register(names) ==
    LET n == Len(names)
        new == {names[i] : i \in 1..n}
        bitOf(e) == entityCount + (CHOOSE i \in 1..n : names[i] = e) - 1
    IN  /\ new \cap entities = {} /\ entityCount + n <= MaxEntities
        /\ entities' = entities \cup new
        /\ entityCount' = entityCount + n
        /\ entityBit' = [e \in Entities |-> IF e \in new THEN bitOf(e) ELSE entityBit[e]]
        /\ entityAtBit' = [b \in DOMAIN entityAtBit \cup entityCount..(entityCount + n - 1) |->
                              IF b < entityCount THEN entityAtBit[b]
                              ELSE names[b - entityCount + 1]]
        /\ entityBitmap' = entityBitmap \cup entityCount..(entityCount + n - 1)

(* enableAdvanced: the owners become the keys of the one entity, *)
(* and recovery is disabled                                      *)
EnableAdvanced(e) ==
    /\ BySelf /\ ~advanced
    /\ ~pendingOwner.active
    /\ advanced' = TRUE /\ threshold' = 1
    /\ Register(<<e>>)
    /\ keys' = keys \cup {<<e, k>> : k \in owners}
    /\ keyCount' = [keyCount EXCEPT ![e] = (@ + Len(ownerIds)) % KeyWrap]
    /\ recoverable' = FALSE
    /\ UNCHANGED <<ownerVars, paused, pendingOwner, scheduledAt, now, vetoVars>>

AddEntity(e) ==
    /\ BySelf /\ advanced
    /\ Register(<<e>>)
    /\ UNCHANGED <<ownerVars, recoveryVars, now, advanced, threshold, vetoVars, keyVars>>

(* _removeEntity and _removeEntityInternal: the entity at the last bit *)
(* takes the bit of e                                                   *)
EnoughLeft_OneShort == entityCount >= threshold

EnoughLeft == entityCount > threshold

BitsWithout_NotMoved(e) == [entityBit EXCEPT ![e] = 0]

BitsWithout(e) ==
    [f \in Entities |-> CASE f = e -> 0
                          [] f # e /\ f = entityAtBit[entityCount - 1] -> entityBit[e]
                          [] OTHER -> entityBit[f]]

MoveBit_Stays(bits, from, to) == bits \ {from}

MoveBit_Always(bits, from, to) == (bits \ {from}) \cup {to}

MoveBit(bits, from, to) == IF from \in bits THEN (bits \ {from}) \cup {to} ELSE bits

(* takes the keys in gone along, which the counter takes for all its keys: *)
(* once it has wrapped, some of them may stay                              *)
RemoveEntity(e, gone) ==
    LET bit  == entityBit[e]
        last == entityCount - 1
        vetoes == vetoBitmap \ {bit}
    IN  /\ BySelf /\ advanced
        /\ e \in entities /\ EnoughLeft
        /\ gone \subseteq KeysOf(e) /\ Cardinality(gone) % KeyWrap = keyCount[e]
        /\ keys' = keys \ ({e} \X gone)
        /\ keyCount' = [keyCount EXCEPT ![e] = 0]
        /\ vetoBitmap' = IF bit = last THEN vetoes ELSE MoveBit(vetoes, last, bit)
        /\ vetoCount' = IF bit \in vetoBitmap THEN vetoCount - 1 ELSE vetoCount
        /\ entities' = entities \ {e}
        /\ entityCount' = last
        /\ entityBit' = BitsWithout(e)
        /\ entityAtBit' = [b \in 0..(last - 1) |->
                              IF b = bit THEN entityAtBit[last] ELSE entityAtBit[b]]
        /\ entityBitmap' = entityBitmap \ {last}
        /\ UNCHANGED <<ownerVars, recoveryVars, now, advanced, threshold>>

-----------------------------------------------------------------------------
(* Advanced mode: keys and policy *)

(* addKey, addKeyEoa *)
AddKey(e, k) ==
    /\ BySelf /\ advanced
    /\ e \in entities /\ <<e, k>> \notin keys
    /\ keys' = keys \cup {<<e, k>>}
    /\ keyCount' = [keyCount EXCEPT ![e] = (@ + 1) % KeyWrap]
    /\ UNCHANGED <<ownerVars, recoveryVars, now, advanced, threshold, entityVars, vetoVars>>

RemoveKey(e, k) ==
    /\ BySelf /\ advanced
    /\ <<e, k>> \in keys /\ keyCount[e] > 1
    /\ keys' = keys \ {<<e, k>>}
    /\ keyCount' = [keyCount EXCEPT ![e] = (@ + KeyWrap - 1) % KeyWrap]
    /\ UNCHANGED <<ownerVars, recoveryVars, now, advanced, threshold, entityVars, vetoVars>>

SetThreshold(m) ==
    /\ BySelf /\ advanced
    /\ m \in 1..entityCount
    /\ threshold' = m
    /\ UNCHANGED <<ownerVars, recoveryVars, now, advanced, entityVars, vetoVars, keyVars>>

SetVeto_Twice(e, isVeto) ==
    /\ BySelf /\ advanced
    /\ e \in entities /\ keyCount[e] # 0
    /\ vetoBitmap' = IF isVeto THEN vetoBitmap \cup {entityBit[e]}
                                ELSE vetoBitmap \ {entityBit[e]}
    /\ vetoCount' = IF isVeto THEN vetoCount + 1 ELSE vetoCount - 1
    /\ UNCHANGED <<ownerVars, recoveryVars, now, advanced, threshold, entityVars, keyVars>>

SetVeto(e, isVeto) ==
    /\ BySelf /\ advanced
    /\ e \in entities /\ keyCount[e] # 0
    /\ isVeto # (entityBit[e] \in vetoBitmap)
    /\ vetoBitmap' = IF isVeto THEN vetoBitmap \cup {entityBit[e]}
                                ELSE vetoBitmap \ {entityBit[e]}
    /\ vetoCount' = IF isVeto THEN vetoCount + 1 ELSE vetoCount - 1
    /\ UNCHANGED <<ownerVars, recoveryVars, now, advanced, threshold, entityVars, keyVars>>

(* configureMultisig: remove keys, register names, add keys, then the      *)
(* threshold and the whole veto set; _assertEntitiesUsable reverts it all  *)
(* if an entity is left without a key                                      *)
ConfigureMultisig(remove, names, add) ==
    /\ BySelf /\ advanced
    /\ Register(names)
    /\ \A p \in add : p[1] \in entities'
    /\ keys' = (keys \ remove) \cup add
    /\ keyCount' = [e \in Entities |->
          (keyCount[e] - Cardinality(KeysIn(remove, e))
                       + Cardinality(KeysIn(add, e))) % KeyWrap]
    /\ \A e \in entities' : keyCount'[e] # 0
    /\ threshold' \in 1..entityCount'
    /\ \E veto \in SUBSET entities' :
          vetoBitmap' = {entityBit'[e] : e \in veto} /\ vetoCount' = Cardinality(veto)
    /\ UNCHANGED <<ownerVars, recoveryVars, now, advanced>>

(* the subsets of S with at most n members *)
UpTo(n, S) == {{s[i] : i \in DOMAIN s} : s \in UNION {[1..m -> S] : m \in 0..n}}

Batches == {s \in UNION {[1..n -> Entities] : n \in 0..MaxBatch} :
              \A i, j \in DOMAIN s : s[i] = s[j] => i = j}

(* up to MaxBatch changes in one call *)
Reconfigure ==
    /\ advanced
    /\ \E names \in Batches : \E remove \in UpTo(MaxBatch - Len(names), keys) :
         \E add \in UpTo(MaxBatch - Len(names) - Cardinality(remove),
                         (Entities \X Keys) \ (keys \ remove)) :
            ConfigureMultisig(remove, names, add)

WalletNext ==
    \/ \E k \in Keys : AddOwner(k) \/ RemoveOwner(k) \/ InitiateOwnerRecovery(k)
    \/ ExecutePendingOwner
    \/ CancelPendingOwnerWithSignature
    \/ Tick
    \/ \E e \in Entities : EnableAdvanced(e) \/ AddEntity(e)
    \/ \E e \in Entities, gone \in SUBSET Keys : RemoveEntity(e, gone)
    \/ \E e \in Entities, k \in Keys : AddKey(e, k) \/ RemoveKey(e, k)
    \/ \E m \in 1..Cardinality(Entities) : SetThreshold(m)
    \/ \E e \in Entities, isVeto \in BOOLEAN : SetVeto(e, isVeto)
    \/ Reconfigure

WalletSpec == WalletInit /\ [][WalletNext]_walletVars

-----------------------------------------------------------------------------

(* Every variable has its type. *)
WalletTypeOK ==
    /\ owners \subseteq Keys /\ ownerIds \in Seq(Keys)
    /\ recoverable \in BOOLEAN /\ paused \in BOOLEAN /\ advanced \in BOOLEAN
    /\ pendingOwner \in [active : BOOLEAN, key : Keys \cup {NoKey}, executableAt : Nat]
    /\ now \in Nat /\ scheduledAt \in Nat
    /\ threshold \in Nat /\ entityCount \in Nat /\ vetoCount \in Nat
    /\ entities \subseteq Entities
    /\ entityBit \in [Entities -> Nat] /\ entityAtBit \in [0..(entityCount - 1) -> Entities]
    /\ entityBitmap \subseteq Nat /\ vetoBitmap \subseteq Nat
    /\ keys \subseteq Entities \X Keys /\ keyCount \in [Entities -> 0..(KeyWrap - 1)]

(* A paused wallet can sign nothing, so a pause with no recovery behind it *)
(* would freeze it for good: the wallet is paused exactly while an owner   *)
(* is pending (pause, recoveryAddOwner, executePendingOwner and the cancel *)
(* set the two apart), and never in advanced mode, where nothing unpauses. *)
PausedHasWayOut ==
    /\ paused <=> pendingOwner.active
    /\ advanced => ~paused /\ ~recoverable

(* While a recovery is pending the owners stay as they are: only its end,  *)
(* the timelock over, changes them, and it adds the announced key alone    *)
(* (executePendingOwner; addOwner and removeOwner are whenNotPaused).      *)
FrozenWhilePaused ==
    [][paused /\ owners' # owners =>
         /\ owners' = owners \cup {pendingOwner.key} /\ ~paused'
         /\ now >= scheduledAt + RecoveryTimelock]_walletVars

(* The wallet always has an owner, and the list that _validateAnyOwner     *)
(* walks holds each owner once and nobody else, through additions and      *)
(* removals in any order (_removeOwnerId swaps, P256OwnerRegistry counts). *)
OwnersAgree ==
    /\ owners # {}
    /\ owners = {ownerIds[i] : i \in 1..Len(ownerIds)}
    /\ \A i, j \in 1..Len(ownerIds) : ownerIds[i] = ownerIds[j] => i = j

(* Bits and entities stay paired through the compaction that removeEntity  *)
(* makes, and an entity's key count is the number of its keys up to its    *)
(* width, whatever stays behind or comes back: a stale bit would count one *)
(* entity's signature as another's (_registerEntity, _removeEntityInternal,*)
(* the unchecked counter of _addKeyInternal and _removeKeyInternal).       *)
BitsAgree ==
    /\ entityCount = Cardinality(entities) /\ entityBitmap = 0..(entityCount - 1)
    /\ \A e \in entities : entityBit[e] < entityCount /\ entityAtBit[entityBit[e]] = e
    /\ \A b \in 0..(entityCount - 1) : entityAtBit[b] \in entities /\ entityBit[entityAtBit[b]] = b
    /\ \A e \in Entities : keyCount[e] = Cardinality(KeysOf(e)) % KeyWrap

(* If a veto is required, every entity that may give it can: a veto bit is *)
(* that of a registered entity with a key, through removals of keys and    *)
(* entities, the compaction of bits and configureMultisig's reset.         *)
VetoCanBeGiven ==
    /\ vetoCount = Cardinality(vetoBitmap)
    /\ \A b \in vetoBitmap : b < entityCount /\ CanVote(entityAtBit[b])

(* A wallet whose keys cannot meet its own policy is lost.  In advanced    *)
(* mode this takes an entity registered without a key that the threshold   *)
(* counts on; the other steps, and configureMultisig whatever it changes,  *)
(* leave a policy that can be met (removeEntity's M-of-N check, LastKey).  *)
LockoutNeedsKeyless ==
    CanSign \/ (advanced /\ \E e \in entities : ~CanVote(e))

-----------------------------------------------------------------------------
(* The policy that lists, bits and counters implement *)

Vetoers == {e \in entities : entityBit[e] \in vetoBitmap}

Policy == INSTANCE WalletPolicy WITH
    successor <- IF pendingOwner.active THEN pendingOwner.key ELSE NoKey,
    members <- entities,
    vetoers <- Vetoers

(* The contract does to sets of owners, members, keys and vetoers what the *)
(* policy says, and lets nobody act whom the policy does not: in           *)
(* particular an entity that leaves takes its veto along and, though the   *)
(* last entity moves to its bit, every other keeps what it had             *)
(* (_removeEntityInternal).                                                *)
PolicySpec == Policy!Spec

Recovery == INSTANCE DelayedRecovery WITH
    candidate <- IF pendingOwner.active THEN {pendingOwner.key} ELSE {},
    due <- pendingOwner.active /\ now >= pendingOwner.executableAt,
    members <- owners

(* The guardian's recovery is the delayed recovery that the activator      *)
(* counts on: an announced owner is not exchanged for another and joins    *)
(* only when due (AdminGuardianRecovery, executePendingOwner).             *)
RecoverySpec == Recovery!RecoverySpec

(* Signatures of some entities are valid exactly if the policy accepts     *)
(* those entities (_validateAdvancedSignatures looks at bits alone).       *)
SignaturesCount ==
    \A S \in SUBSET entities : Validates(S) <=> Policy!Accepts(S)
=============================================================================
