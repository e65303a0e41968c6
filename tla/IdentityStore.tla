---------------------------- MODULE IdentityStore ----------------------------
(***************************************************************************)
(* One identity of the on-chain IdentityStore (contracts/wallet): the      *)
(* methods that authenticate its wallets, the delayed restore an operator  *)
(* may start, and the timelock that owns the store.                        *)
(*                                                                         *)
(* A method (kind and key) is a value of one of three sets; its id is a    *)
(* hash of the identity and the key, so a method is its own id.  The       *)
(* holder of a method may sign anything at any time and authorisations     *)
(* carry no nonce: an action that needs one is free whenever some method   *)
(* is on the identity.  A call that reverts changes nothing.               *)
(***************************************************************************)
EXTENDS Naturals, Sequences, FiniteSets

CONSTANTS
    Passkeys, YubiKeys, Eoas,   \* the methods of each kind
    NoMethod,
    Operators, NoOperator,      \* recoveryOperator; address(0)
    Delays,                     \* values restoreDelay may have
    TimelockDelay,              \* IdentityStoreTimelock.delay
    MaxMethods,                 \* IdentityTypes.MAX_METHODS
    MaxTime                     \* bound: the last block timestamp

Methods == Passkeys \cup YubiKeys \cup Eoas

ASSUME StoreAssumption ==
    /\ Passkeys \cap YubiKeys = {} /\ Passkeys \cap Eoas = {} /\ YubiKeys \cap Eoas = {}
    /\ NoMethod \notin Methods /\ NoOperator \notin Operators
    /\ Delays \subseteq Nat
    /\ TimelockDelay \in Nat \ {0} /\ MaxMethods \in Nat \ {0} /\ MaxTime \in Nat

VARIABLES
    identity,           \* IdentityTypes.Identity
    methods,            \* _methods of this identity
    methodIds,          \* _methodIds of this identity
    pending,            \* pendingRestores of this identity
    recoveryOperator, restoreDelay,
    operatorChange, delayChange,    \* what the timelock has scheduled
    now,                \* block.timestamp
    asked,              \* history: when, and under which delay, the restore that
                        \* is still wanted was started
    restored,           \* history: how every executed restore came about
    proposed            \* history: when each change was last scheduled

methodVars == <<identity, methods, methodIds>>
storeVars == <<recoveryOperator, restoreDelay>>
timelockVars == <<operatorChange, delayChange, proposed>>
vars == <<methodVars, pending, storeVars, timelockVars, now, asked, restored>>

Kinds == {"webauthn", "yubikey", "eoa"}
Kind(m) == IF m \in Passkeys THEN "webauthn"
           ELSE IF m \in YubiKeys THEN "yubikey" ELSE "eoa"

NoPending == [active |-> FALSE, method |-> NoMethod, executeAfter |-> 0]
NotAsked == [at |-> 0, delay |-> 0, open |-> FALSE]
NoChange(v) == [pending |-> FALSE, next |-> v, readyAt |-> 0]

(* The store is deployed with its operator, the deploy script sets the     *)
(* delay, and the timelock becomes the owner.                              *)
Init ==
    /\ identity = [exists |-> FALSE, restoreEnabled |-> FALSE, methodCount |-> 0,
                   counts |-> [k \in Kinds |-> 0]]
    /\ methods = {} /\ methodIds = <<>> /\ pending = NoPending
    /\ recoveryOperator \in Operators \cup {NoOperator} /\ restoreDelay \in Delays
    /\ operatorChange = NoChange(NoOperator) /\ delayChange = NoChange(0)
    /\ now = 0
    /\ asked = NotAsked /\ restored = {}
    /\ proposed = [operator |-> 0, delay |-> 0]

-----------------------------------------------------------------------------
(* The methods of the identity *)

(* register: the first method is a passkey *)
Register(m) ==
    /\ ~identity.exists
    /\ m \in Passkeys
    /\ identity' = [exists |-> TRUE, restoreEnabled |-> TRUE, methodCount |-> 1,
                    counts |-> [k \in Kinds |-> IF k = "webauthn" THEN 1 ELSE 0]]
    /\ methods' = methods \cup {m} /\ methodIds' = Append(methodIds, m)
    /\ UNCHANGED <<pending, storeVars, timelockVars, now, asked, restored>>

CanAdd_NoLimit(m) == identity.exists /\ m \in Methods \ methods

CanAdd(m) ==
    /\ identity.exists /\ identity.methodCount < MaxMethods
    /\ m \in Methods \ methods

(* _addMethod with _storeMethod *)
StoreMethod(m) ==
    /\ identity' = [identity EXCEPT !.methodCount = @ + 1, !.counts[Kind(m)] = @ + 1]
    /\ methods' = methods \cup {m} /\ methodIds' = Append(methodIds, m)

(* addMethod: signed by any method of the identity *)
AddMethod(m) ==
    /\ CanAdd(m) /\ methods # {}
    /\ StoreMethod(m)
    /\ UNCHANGED <<pending, storeVars, timelockVars, now, asked, restored>>

(* addMethodByEoa: called by one of its crypto wallets *)
AddMethodByEoa(m) ==
    /\ CanAdd(m) /\ methods \cap Eoas # {}
    /\ StoreMethod(m)
    /\ UNCHANGED <<pending, storeVars, timelockVars, now, asked, restored>>

SwapAndPop_PopOnly(s, m) == SubSeq(s, 1, Len(s) - 1)

(* the loop of _removeMethod: the last entry takes the place of m *)
SwapAndPop(s, m) ==
    LET i == CHOOSE j \in DOMAIN s : s[j] = m
    IN  [j \in 1..(Len(s) - 1) |-> IF j = i THEN s[Len(s)] ELSE s[j]]

RemoveMethod_EvenLast(m) ==
    /\ m \in methods
    /\ identity' = [identity EXCEPT !.methodCount = @ - 1, !.counts[Kind(m)] = @ - 1]
    /\ methods' = methods \ {m} /\ methodIds' = SwapAndPop(methodIds, m)
    /\ UNCHANGED <<pending, storeVars, timelockVars, now, asked, restored>>

(* removeMethod: signed by any method of the identity, m itself included *)
RemoveMethod(m) ==
    /\ m \in methods /\ identity.methodCount > 1
    /\ identity' = [identity EXCEPT !.methodCount = @ - 1, !.counts[Kind(m)] = @ - 1]
    /\ methods' = methods \ {m} /\ methodIds' = SwapAndPop(methodIds, m)
    /\ UNCHANGED <<pending, storeVars, timelockVars, now, asked, restored>>

-----------------------------------------------------------------------------
(* The delayed restore *)

(* disableRestore, called by an EOA of the identity *)
DisableRestore ==
    /\ identity.exists /\ identity.restoreEnabled
    /\ identity.methodCount >= 2 /\ identity.counts["eoa"] # 0 /\ methods \cap Eoas # {}
    /\ identity' = [identity EXCEPT !.restoreEnabled = FALSE]
    /\ pending' = IF pending.active THEN NoPending ELSE pending
    /\ asked' = NotAsked
    /\ UNCHANGED <<methods, methodIds, storeVars, timelockVars, now, restored>>

(* the guards of _initiateRestore; a restore due after MaxTime is left out *)
MayInitiate ==
    /\ recoveryOperator # NoOperator
    /\ identity.exists /\ identity.restoreEnabled /\ ~pending.active
    /\ now + restoreDelay <= MaxTime

(* initiateRestore, and restoreAddMethod under a delay *)
InitiateRestore(m) ==
    /\ MayInitiate /\ m \in Methods
    /\ pending' = [active |-> TRUE, method |-> m, executeAfter |-> now + restoreDelay]
    /\ asked' = [at |-> now, delay |-> restoreDelay, open |-> TRUE]
    /\ UNCHANGED <<methodVars, storeVars, timelockVars, now, restored>>

(* restoreAddMethod without a delay: started and executed in one call *)
RestoreAddMethod(m) ==
    /\ MayInitiate /\ restoreDelay = 0
    /\ CanAdd(m) /\ StoreMethod(m)
    /\ restored' = restored \cup {[waited |-> 0, delay |-> 0, open |-> TRUE]}
    /\ UNCHANGED <<pending, storeVars, timelockVars, now, asked>>

CancelRestore_OnlyTime ==
    /\ pending.active /\ methods # {}
    /\ pending' = [pending EXCEPT !.executeAfter = 0]
    /\ asked' = NotAsked
    /\ UNCHANGED <<methodVars, storeVars, timelockVars, now, restored>>

(* cancelRestore: signed by any method of the identity *)
CancelRestore ==
    /\ pending.active /\ methods # {}
    /\ pending' = NoPending
    /\ asked' = NotAsked
    /\ UNCHANGED <<methodVars, storeVars, timelockVars, now, restored>>

RestoreReady_CurrentDelay == pending.active /\ now >= asked.at + restoreDelay

RestoreReady == pending.active /\ now >= pending.executeAfter

MayExecute_OperatorSet == RestoreReady /\ identity.restoreEnabled /\ recoveryOperator # NoOperator

MayExecute == RestoreReady /\ identity.restoreEnabled

(* executeRestore, called by anyone *)
ExecuteRestore ==
    /\ MayExecute
    /\ CanAdd(pending.method) /\ StoreMethod(pending.method)
    /\ pending' = NoPending
    /\ asked' = NotAsked
    /\ restored' = restored \cup
         {[waited |-> now - asked.at, delay |-> asked.delay, open |-> asked.open]}
    /\ UNCHANGED <<storeVars, timelockVars, now>>

-----------------------------------------------------------------------------
(* IdentityStoreTimelock, the owner of the store *)

Schedule_KeepReady(change, v) ==
    [pending |-> TRUE, next |-> v,
     readyAt |-> IF change.pending THEN change.readyAt ELSE now + TimelockDelay]

(* scheduling replaces what was scheduled and starts its delay anew *)
Schedule(change, v) == [pending |-> TRUE, next |-> v, readyAt |-> now + TimelockDelay]

Ready(change) == change.pending /\ now >= change.readyAt

ScheduleRecoveryOperator(o) ==
    /\ operatorChange' = Schedule(operatorChange, o)
    /\ proposed' = [proposed EXCEPT !.operator = now]
    /\ UNCHANGED <<methodVars, pending, storeVars, delayChange, now, asked, restored>>

ExecuteRecoveryOperator ==
    /\ Ready(operatorChange)
    /\ operatorChange' = [operatorChange EXCEPT !.pending = FALSE]
    /\ recoveryOperator' = operatorChange.next
    /\ UNCHANGED <<methodVars, pending, restoreDelay, delayChange, proposed, now, asked, restored>>

ScheduleRestoreDelay(d) ==
    /\ delayChange' = Schedule(delayChange, d)
    /\ proposed' = [proposed EXCEPT !.delay = now]
    /\ UNCHANGED <<methodVars, pending, storeVars, operatorChange, now, asked, restored>>

ExecuteRestoreDelay ==
    /\ Ready(delayChange)
    /\ delayChange' = [delayChange EXCEPT !.pending = FALSE]
    /\ restoreDelay' = delayChange.next
    /\ UNCHANGED <<methodVars, pending, recoveryOperator, operatorChange, proposed, now, asked, restored>>

-----------------------------------------------------------------------------
Tick ==
    /\ now < MaxTime
    /\ now' = now + 1
    /\ UNCHANGED <<methodVars, pending, storeVars, timelockVars, asked, restored>>

Next ==
    \/ \E m \in Methods :
          \/ Register(m) \/ AddMethod(m) \/ AddMethodByEoa(m) \/ RemoveMethod(m)
          \/ InitiateRestore(m) \/ RestoreAddMethod(m)
    \/ DisableRestore \/ CancelRestore \/ ExecuteRestore
    \/ \E o \in Operators \cup {NoOperator} : ScheduleRecoveryOperator(o)
    \/ \E d \in Delays : ScheduleRestoreDelay(d)
    \/ ExecuteRecoveryOperator \/ ExecuteRestoreDelay
    \/ Tick

Spec == Init /\ [][Next]_vars

(* Time passes.  No code is bound to call executeRestore: the activator     *)
(* does so only in a tick that found a pending job (processRecoveryJobs)   *)
(* and for wallets with an included initiate job (maybeQueueExecutes).  Its *)
(* fairness is an assumption about outsiders: the call is open to everybody *)
(* and whoever waits for the restore, the member or the operator who       *)
(* started it, sends it while it is possible.                              *)
FairSpec == Spec /\ WF_vars(Tick) /\ WF_vars(ExecuteRestore)

-----------------------------------------------------------------------------
(* Properties *)

(* Types: the counters fit the limit and the numbers are naturals. *)
Restores == [waited : Nat, delay : Nat, open : BOOLEAN]

TypeOK ==
    /\ identity \in [exists : BOOLEAN, restoreEnabled : BOOLEAN,
                     methodCount : 0..MaxMethods, counts : [Kinds -> 0..MaxMethods]]
    /\ methods \subseteq Methods /\ methodIds \in Seq(Methods)
    /\ pending \in [active : BOOLEAN, method : Methods \cup {NoMethod}, executeAfter : Nat]
    /\ recoveryOperator \in Operators \cup {NoOperator} /\ restoreDelay \in Nat
    /\ operatorChange \in [pending : BOOLEAN, next : Operators \cup {NoOperator}, readyAt : Nat]
    /\ delayChange \in [pending : BOOLEAN, next : Nat, readyAt : Nat]
    /\ now \in 0..MaxTime
    /\ asked \in [at : Nat, delay : Nat, open : BOOLEAN]
    /\ restored \subseteq Restores
    /\ proposed \in [operator : Nat, delay : Nat]

(* The counters of the identity, which guard removeMethod, disableRestore  *)
(* and the wallet's funding gate, agree with the stored methods, and the   *)
(* list that the swap-and-pop of _removeMethod maintains names each of     *)
(* them once.                                                              *)
OfKind(S, k) == {m \in S : Kind(m) = k}

ListAgrees ==
    /\ {methodIds[i] : i \in DOMAIN methodIds} = methods
    /\ \A i, j \in DOMAIN methodIds : methodIds[i] = methodIds[j] => i = j
    /\ identity.methodCount = Len(methodIds)

CountsAgree ==
    /\ ListAgrees
    /\ IsFiniteSet(methods) /\ identity.methodCount = Cardinality(methods)
    /\ \A k \in Kinds : identity.counts[k] = Cardinality(OfKind(methods, k))

(* However methods are added, restored and removed, an identity is never   *)
(* left without one, with restore on or off (removeMethod: LastMethod).    *)
NeverLockedOut == identity.exists => methods # {}

(* A restore is pending only while restore is enabled: disableRestore      *)
(* cannot leave one behind.                                                *)
PendingNeedsEnabled == pending.active => identity.restoreEnabled

(* disableRestore is permanent: no later call turns restore on again or    *)
(* restores a method.                                                      *)
DisableIsPermanent ==
    [][identity.exists /\ ~identity.restoreEnabled
         => ~identity'.restoreEnabled /\ restored' = restored]_vars

(* A restored method waited for the delay that was in force when its       *)
(* restore was started, whatever the timelock did to the delay since.      *)
RestoreWaits == \A r \in restored : r.waited >= r.delay

(* A cancelled or disabled restore is never executed (cancelRestore and    *)
(* disableRestore win over executeRestore).                                *)
CancelWins == \A r \in restored : r.open

(* The operator and the delay change only TimelockDelay after the change   *)
(* was last scheduled: re-scheduling with another value starts anew.       *)
ChangesWait ==
    [][ /\ recoveryOperator' # recoveryOperator => now >= proposed.operator + TimelockDelay
        /\ restoreDelay' # restoreDelay => now >= proposed.delay + TimelockDelay ]_vars

(* Somebody who keeps calling executeRestore gets it through: a pending    *)
(* restore is executed, cancelled or disabled, unless its method cannot be *)
(* added any more; no scheduled operator or delay can hold it up.          *)
RestoreResolved == pending.active ~> ~pending.active \/ ~CanAdd(pending.method)

Recovery == INSTANCE DelayedRecovery WITH
    Keys <- Methods,
    candidate <- IF pending.active THEN {pending.method} ELSE {},
    due <- RestoreReady,
    members <- methods

(* The restore is the delayed recovery that the activator counts on: one   *)
(* that is due stays due and adds the method it was started for, whatever  *)
(* the timelock does to delay and operator meanwhile (_initiateRestore,    *)
(* executeRestore).                                                        *)
RecoverySpec == Recovery!RecoverySpec

(* docs/wallet-mainnet-assurance.md, S6: a pending restore that is due can *)
(* be executed by anyone.                                                  *)
ReadyCanExecute == RestoreReady => CanAdd(pending.method)
==============================================================================
