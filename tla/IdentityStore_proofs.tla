------------------------ MODULE IdentityStore_proofs ------------------------
(***************************************************************************)
(* What the identity store guarantees for any methods, operators, delays   *)
(* and limit.                                                              *)
(*                                                                         *)
(* RestoreWaits and CancelWins speak of restores that were executed; what  *)
(* keeps them true is PendingInv, which ties the pending restore to the    *)
(* call that started it.  ChangesWait rests on ScheduleInv in the same     *)
(* way, NeverLockedOut on the counters and the list (CountsAgree).         *)
(***************************************************************************)
EXTENDS IdentityStore, TLAPS, FiniteSetTheorems

\* An unregistered identity is empty; a registered one has a method.
ExistInv == /\ identity.exists <=> methods # {}
            /\ ~identity.exists => ~pending.active

\* The pending restore is the one last asked for, still wanted and enabled.
PendingInv ==
    pending.active => /\ identity.restoreEnabled /\ asked.open
                      /\ pending.executeAfter = asked.at + asked.delay

\* A scheduled change becomes ready TimelockDelay after it was scheduled.
ScheduleInv ==
    /\ operatorChange.pending => operatorChange.readyAt = proposed.operator + TimelockDelay
    /\ delayChange.pending => delayChange.readyAt = proposed.delay + TimelockDelay

RestoredInv == RestoreWaits /\ CancelWins

StoreInv == TypeOK /\ CountsAgree /\ ExistInv /\ PendingInv /\ ScheduleInv /\ RestoredInv

-----------------------------------------------------------------------------
(* The list of method ids.                                                  *)

Names(s) == {s[i] : i \in DOMAIN s}
Once(s) == \A i, j \in DOMAIN s : s[i] = s[j] => i = j

LEMMA AppendId ==
    ASSUME NEW S, NEW s \in Seq(S), NEW m \in S, Once(s), m \notin Names(s)
    PROVE  /\ Append(s, m) \in Seq(S) /\ Len(Append(s, m)) = Len(s) + 1
           /\ Names(Append(s, m)) = Names(s) \cup {m} /\ Once(Append(s, m))
<1> DEFINE t == Append(s, m)
<1>1. /\ t \in Seq(S) /\ Len(t) = Len(s) + 1 /\ Len(s) \in Nat
      /\ DOMAIN t = 1..(Len(s) + 1) /\ DOMAIN s = 1..Len(s)
      /\ \A i \in DOMAIN s : i \in DOMAIN t /\ t[i] = s[i]
      /\ t[Len(s) + 1] = m
    OBVIOUS
<1> HIDE DEF t
<1>2. \A i \in DOMAIN t : i \in DOMAIN s \/ i = Len(s) + 1
    BY <1>1
<1>3. Len(s) + 1 \in DOMAIN t
    BY <1>1
<1>4. Names(t) = Names(s) \cup {m}
    BY <1>1, <1>2, <1>3 DEF Names
<1>5. Once(t)
    BY <1>1, <1>2 DEF Names, Once
<1> QED BY <1>1, <1>4, <1>5 DEF t

LEMMA SwapAndPopId ==
    ASSUME NEW S, NEW s \in Seq(S), NEW m \in Names(s), Once(s)
    PROVE  /\ SwapAndPop(s, m) \in Seq(S) /\ Len(SwapAndPop(s, m)) = Len(s) - 1
           /\ Names(SwapAndPop(s, m)) = Names(s) \ {m} /\ Once(SwapAndPop(s, m))
<1> DEFINE k == CHOOSE j \in DOMAIN s : s[j] = m
           n == Len(s)
           t == [j \in 1..(n - 1) |-> IF j = k THEN s[n] ELSE s[j]]
<1>1. n \in Nat /\ DOMAIN s = 1..n /\ \A i \in 1..n : s[i] \in S
    OBVIOUS
<1>2. k \in 1..n /\ s[k] = m
    BY <1>1 DEF Names
<1>3. SwapAndPop(s, m) = t
    BY DEF SwapAndPop
<1> HIDE DEF k, n
<1>4. n - 1 \in Nat /\ n \in 1..n
    BY <1>1, <1>2
<1>5. /\ DOMAIN t = 1..(n - 1)
      /\ \A j \in 1..(n - 1) : t[j] = IF j = k THEN s[n] ELSE s[j]
    OBVIOUS
<1> HIDE DEF t
<1>6. \A j \in 1..(n - 1) : j \in 1..n /\ j # n
    BY <1>4
<1>7. \A j \in 1..n : j # n => j \in 1..(n - 1)
    BY <1>4
<1>8. t \in Seq(S) /\ Len(t) = n - 1
  <2>1. \A j \in 1..(n - 1) : t[j] \in S
      BY <1>1, <1>4, <1>5, <1>6
  <2>2. t = [j \in 1..(n - 1) |-> t[j]]
      BY <1>5 DEF t
  <2> QED BY <2>1, <2>2, <1>4
<1>9. \A i, j \in 1..n : s[i] = s[j] => i = j
    BY <1>1 DEF Once
<1>10. Once(t)
    BY <1>2, <1>4, <1>5, <1>6, <1>9 DEF Once
<1>11. \A j \in 1..(n - 1) : t[j] \in Names(s) \ {m}
    BY <1>1, <1>2, <1>4, <1>5, <1>6, <1>9 DEF Names
<1>12. \A i \in 1..n : i # k => s[i] \in Names(t)
  <2>1. SUFFICES ASSUME NEW i \in 1..n, i # k PROVE \E j \in DOMAIN t : t[j] = s[i]
      BY DEF Names
  <2>2. CASE i = n
      BY <2>1, <2>2, <1>2, <1>5, <1>7
  <2>3. CASE i # n
      BY <2>1, <2>3, <1>5, <1>7
  <2> QED BY <2>2, <2>3
<1>13. Names(t) = Names(s) \ {m}
    BY <1>1, <1>2, <1>5, <1>11, <1>12 DEF Names
<1> QED BY <1>3, <1>8, <1>10, <1>13 DEF n

-----------------------------------------------------------------------------
(* Storing and removing a method.                                           *)

MethodTypes ==
    /\ identity \in [exists : BOOLEAN, restoreEnabled : BOOLEAN,
                     methodCount : 0..MaxMethods, counts : [Kinds -> 0..MaxMethods]]
    /\ methods \subseteq Methods /\ methodIds \in Seq(Methods)

LEMMA KindIsKind == \A m : Kind(m) \in Kinds
BY DEF Kind, Kinds

\* The counters never exceed the number of methods, so they fit the limit.
LEMMA CountsFit ==
    ASSUME NEW S, IsFiniteSet(S), NEW n \in Nat, Cardinality(S) <= n, NEW k
    PROVE  /\ IsFiniteSet(OfKind(S, k))
           /\ Cardinality(OfKind(S, k)) \in 0..n
<1> DEFINE T == OfKind(S, k)
<1>1. T \in SUBSET S
    BY DEF OfKind
<1> HIDE DEF T
<1>2. IsFiniteSet(T) /\ Cardinality(T) <= Cardinality(S)
    BY <1>1, FS_Subset
<1>3. Cardinality(T) \in Nat /\ Cardinality(S) \in Nat
    BY <1>2, FS_CardinalityType
<1> QED BY <1>2, <1>3 DEF T

LEMMA CountsOnAdd ==
    ASSUME NEW S, IsFiniteSet(S), NEW m, m \notin S, NEW k
    PROVE  Cardinality(OfKind(S \cup {m}, k)) =
             IF Kind(m) = k THEN Cardinality(OfKind(S, k)) + 1 ELSE Cardinality(OfKind(S, k))
<1> DEFINE T == OfKind(S, k)
           U == OfKind(S \cup {m}, k)
<1>1. IsFiniteSet(T) /\ m \notin T
    BY FS_Subset, T \in SUBSET S DEF OfKind
<1>2. U = IF Kind(m) = k THEN T \cup {m} ELSE T
    BY DEF OfKind
<1> HIDE DEF T, U
<1> QED BY <1>1, <1>2, FS_AddElement DEF T, U

LEMMA CountsOnRemove ==
    ASSUME NEW S, IsFiniteSet(S), NEW m \in S, NEW k
    PROVE  Cardinality(OfKind(S \ {m}, k)) =
             IF Kind(m) = k THEN Cardinality(OfKind(S, k)) - 1 ELSE Cardinality(OfKind(S, k))
<1> DEFINE T == OfKind(S, k)
           U == OfKind(S \ {m}, k)
<1>1. IsFiniteSet(T) /\ (Kind(m) = k => m \in T)
    BY FS_Subset, T \in SUBSET S DEF OfKind
<1>2. U = IF Kind(m) = k THEN T \ {m} ELSE T
    BY DEF OfKind
<1> HIDE DEF T, U
<1> QED BY <1>1, <1>2, FS_RemoveElement DEF T, U

\* StoreMethod, which addMethod and executeRestore share.
LEMMA StoreKeepsMethods ==
    ASSUME MethodTypes, CountsAgree, NEW m, CanAdd(m), StoreMethod(m)
    PROVE  /\ MethodTypes' /\ CountsAgree' /\ methods' # {}
           /\ identity'.exists = identity.exists
           /\ identity'.restoreEnabled = identity.restoreEnabled
<1> USE StoreAssumption
<1>1. /\ m \in Methods /\ m \notin methods /\ identity.methodCount < MaxMethods
      /\ methods' = methods \cup {m} /\ methodIds' = Append(methodIds, m)
      /\ Kind(m) \in Kinds
    BY KindIsKind DEF CanAdd, StoreMethod
<1>2. /\ identity'.exists = identity.exists
      /\ identity'.restoreEnabled = identity.restoreEnabled
      /\ identity'.methodCount = identity.methodCount + 1
      /\ identity'.counts = [identity.counts EXCEPT ![Kind(m)] = @ + 1]
      /\ identity' = [exists |-> identity.exists, restoreEnabled |-> identity.restoreEnabled,
                      methodCount |-> identity.methodCount + 1,
                      counts |-> [identity.counts EXCEPT ![Kind(m)] = @ + 1]]
    BY DEF StoreMethod, MethodTypes
<1>3. /\ methodIds' \in Seq(Methods) /\ Len(methodIds') = Len(methodIds) + 1
      /\ Names(methodIds') = Names(methodIds) \cup {m} /\ Once(methodIds')
  <2>1. Once(methodIds) /\ Names(methodIds) = methods
      BY DEF CountsAgree, ListAgrees, Once, Names
  <2> QED BY <2>1, <1>1, AppendId DEF MethodTypes
<1>4. ListAgrees'
    BY <1>1, <1>2, <1>3 DEF CountsAgree, ListAgrees, Once, Names
<1>5. /\ IsFiniteSet(methods') /\ identity'.methodCount = Cardinality(methods')
      /\ identity'.methodCount \in 0..MaxMethods
    BY <1>1, <1>2, FS_AddElement DEF CountsAgree, MethodTypes
<1>6. \A k \in Kinds : identity'.counts[k] = Cardinality(OfKind(methods', k))
  <2>1. TAKE k \in Kinds
  <2>2. identity'.counts[k] = IF Kind(m) = k THEN identity.counts[k] + 1 ELSE identity.counts[k]
      BY <1>1, <1>2 DEF MethodTypes
  <2>3. Cardinality(OfKind(methods', k)) = IF Kind(m) = k THEN Cardinality(OfKind(methods, k)) + 1
                                                 ELSE Cardinality(OfKind(methods, k))
      BY <1>1, CountsOnAdd DEF CountsAgree
  <2> QED BY <2>2, <2>3 DEF CountsAgree
<1>7. \A k \in Kinds : identity'.counts[k] \in 0..MaxMethods
  <2>1. \A k : Cardinality(OfKind(methods', k)) \in 0..MaxMethods
      BY <1>5, CountsFit
  <2> QED BY <2>1, <1>6
<1>8. MethodTypes'
    BY <1>1, <1>2, <1>3, <1>5, <1>7 DEF MethodTypes
<1> QED BY <1>1, <1>2, <1>4, <1>5, <1>6, <1>8 DEF CountsAgree

LEMMA RemoveKeepsMethods ==
    ASSUME MethodTypes, CountsAgree, NEW m, RemoveMethod(m)
    PROVE  /\ MethodTypes' /\ CountsAgree' /\ methods' # {}
           /\ identity'.exists = identity.exists
           /\ identity'.restoreEnabled = identity.restoreEnabled
<1> USE StoreAssumption
<1>1. /\ m \in methods /\ identity.methodCount > 1
      /\ methods' = methods \ {m} /\ methodIds' = SwapAndPop(methodIds, m)
      /\ Kind(m) \in Kinds
    BY KindIsKind DEF RemoveMethod
<1>2. /\ identity'.exists = identity.exists
      /\ identity'.restoreEnabled = identity.restoreEnabled
      /\ identity'.methodCount = identity.methodCount - 1
      /\ identity'.counts = [identity.counts EXCEPT ![Kind(m)] = @ - 1]
      /\ identity' = [exists |-> identity.exists, restoreEnabled |-> identity.restoreEnabled,
                      methodCount |-> identity.methodCount - 1,
                      counts |-> [identity.counts EXCEPT ![Kind(m)] = @ - 1]]
    BY DEF RemoveMethod, MethodTypes
<1>3. /\ methodIds' \in Seq(Methods) /\ Len(methodIds') = Len(methodIds) - 1
      /\ Names(methodIds') = Names(methodIds) \ {m} /\ Once(methodIds')
  <2>1. Once(methodIds) /\ Names(methodIds) = methods
      BY DEF CountsAgree, ListAgrees, Once, Names
  <2> QED BY <2>1, <1>1, SwapAndPopId DEF MethodTypes
<1>4. ListAgrees'
    BY <1>1, <1>2, <1>3 DEF CountsAgree, ListAgrees, Once, Names
<1>5. /\ IsFiniteSet(methods') /\ identity'.methodCount = Cardinality(methods')
      /\ identity'.methodCount \in 0..MaxMethods /\ identity'.methodCount > 0
    BY <1>1, <1>2, FS_RemoveElement DEF CountsAgree, MethodTypes
<1>6. \A k \in Kinds : identity'.counts[k] = Cardinality(OfKind(methods', k))
  <2>1. TAKE k \in Kinds
  <2>2. identity'.counts[k] = IF Kind(m) = k THEN identity.counts[k] - 1 ELSE identity.counts[k]
      BY <1>1, <1>2 DEF MethodTypes
  <2>3. Cardinality(OfKind(methods', k)) = IF Kind(m) = k THEN Cardinality(OfKind(methods, k)) - 1
                                                 ELSE Cardinality(OfKind(methods, k))
      BY <1>1, CountsOnRemove DEF CountsAgree
  <2> QED BY <2>2, <2>3 DEF CountsAgree
<1>7. \A k \in Kinds : identity'.counts[k] \in 0..MaxMethods
  <2>1. \A k : Cardinality(OfKind(methods', k)) \in 0..MaxMethods
      BY <1>5, CountsFit
  <2> QED BY <2>1, <1>6
<1>8. MethodTypes'
    BY <1>1, <1>2, <1>3, <1>5, <1>7 DEF MethodTypes
<1>9. methods' # {}
    BY <1>5, FS_EmptySet
<1> QED BY <1>2, <1>4, <1>5, <1>6, <1>8, <1>9 DEF CountsAgree

-----------------------------------------------------------------------------
(* The inductive invariant.                                                 *)

\* The rest of TypeOK.
RestoreTypes ==
    /\ pending \in [active : BOOLEAN, method : Methods \cup {NoMethod}, executeAfter : Nat]
    /\ recoveryOperator \in Operators \cup {NoOperator} /\ restoreDelay \in Nat
    /\ operatorChange \in [pending : BOOLEAN, next : Operators \cup {NoOperator}, readyAt : Nat]
    /\ delayChange \in [pending : BOOLEAN, next : Nat, readyAt : Nat]
    /\ now \in 0..MaxTime
    /\ asked \in [at : Nat, delay : Nat, open : BOOLEAN]
    /\ restored \subseteq Restores
    /\ proposed \in [operator : Nat, delay : Nat]

LEMMA TypesSplit == TypeOK <=> MethodTypes /\ RestoreTypes
BY DEF TypeOK, MethodTypes, RestoreTypes

LEMMA TypesJoin == MethodTypes' /\ RestoreTypes' => TypeOK'
BY DEF TypeOK, MethodTypes, RestoreTypes

LEMMA InitStore == Init => StoreInv
<1> SUFFICES ASSUME Init PROVE StoreInv
    OBVIOUS
<1> USE StoreAssumption
<1>1. /\ identity = [exists |-> FALSE, restoreEnabled |-> FALSE, methodCount |-> 0,
                     counts |-> [k \in Kinds |-> 0]]
      /\ methods = {} /\ methodIds = <<>> /\ pending.active = FALSE
    BY DEF Init, NoPending
<1>2. TypeOK
    BY DEF Init, TypeOK, NoPending, NotAsked, NoChange, Restores
<1>3. CountsAgree
  <2>1. \A k : OfKind(methods, k) = {}
      BY <1>1 DEF OfKind
  <2>2. ListAgrees
      BY <1>1 DEF ListAgrees
  <2> QED BY <1>1, <2>1, <2>2, FS_EmptySet DEF CountsAgree
<1>4. ExistInv /\ PendingInv
    BY <1>1 DEF ExistInv, PendingInv
<1>5. ScheduleInv /\ RestoredInv
    BY DEF Init, NoChange, ScheduleInv, RestoredInv, RestoreWaits, CancelWins
<1> QED BY <1>2, <1>3, <1>4, <1>5 DEF StoreInv

\* What happens to the methods in a step that does not touch them.
LEMMA MethodsUnchanged ==
    ASSUME MethodTypes, CountsAgree, UNCHANGED methodVars
    PROVE  MethodTypes' /\ CountsAgree'
<1>1. methods' = methods /\ methodIds' = methodIds /\ identity' = identity
    BY DEF methodVars
<1>2. ListAgrees'
    BY <1>1 DEF CountsAgree, ListAgrees
<1> QED BY <1>1, <1>2 DEF MethodTypes, CountsAgree

LEMMA RegisterStep ==
    ASSUME StoreInv, NEW m \in Methods, Register(m)
    PROVE  StoreInv'
<1> USE StoreAssumption
<1>1. /\ m \in Passkeys /\ ~identity.exists /\ methods = {} /\ ~pending.active
      /\ methods' = {m} /\ methodIds' = Append(methodIds, m)
      /\ identity' = [exists |-> TRUE, restoreEnabled |-> TRUE, methodCount |-> 1,
                      counts |-> [k \in Kinds |-> IF k = "webauthn" THEN 1 ELSE 0]]
      /\ UNCHANGED <<pending, storeVars, timelockVars, now, asked, restored>>
    BY DEF Register, StoreInv, ExistInv
<1>2. Names(methodIds) = {} /\ Once(methodIds) /\ methodIds \in Seq(Methods)
      /\ Len(methodIds) = 0
    BY <1>1, FS_EmptySet DEF StoreInv, TypeOK, CountsAgree, ListAgrees, Names, Once
<1>3. /\ methodIds' \in Seq(Methods) /\ Len(methodIds') = 1
      /\ Names(methodIds') = {m} /\ Once(methodIds')
  <2>1. m \notin Names(methodIds)
      BY <1>2
  <2>2. /\ Append(methodIds, m) \in Seq(Methods)
        /\ Len(Append(methodIds, m)) = Len(methodIds) + 1
        /\ Names(Append(methodIds, m)) = Names(methodIds) \cup {m}
        /\ Once(Append(methodIds, m))
      BY <2>1, <1>2, AppendId
  <2> QED BY <1>1, <1>2, <2>2
<1>4. MethodTypes'
    BY <1>1, <1>3 DEF MethodTypes
<1>5. RestoreTypes'
    BY <1>1, TypesSplit DEF StoreInv, RestoreTypes, storeVars, timelockVars
<1>6. CountsAgree'
  <2>1. Kind(m) = "webauthn"
      BY <1>1 DEF Kind
  <2>2. \A k : OfKind(methods', k) = IF k = "webauthn" THEN {m} ELSE {}
      BY <1>1, <2>1 DEF OfKind
  <2>3. ListAgrees'
      BY <1>1, <1>3 DEF ListAgrees, Names, Once
  <2>4. \A k \in Kinds : identity'.counts[k] = Cardinality(OfKind(methods', k))
      BY <1>1, <2>2, FS_EmptySet, FS_Singleton
  <2> QED BY <1>1, <2>3, <2>4, FS_Singleton DEF CountsAgree
<1>7. ExistInv' /\ PendingInv'
    BY <1>1 DEF ExistInv, PendingInv
<1>8. ScheduleInv' /\ RestoredInv'
    BY <1>1 DEF StoreInv, ScheduleInv, RestoredInv, RestoreWaits, CancelWins, timelockVars
<1> QED BY <1>4, <1>5, <1>6, <1>7, <1>8, TypesJoin DEF StoreInv

\* addMethod, addMethodByEoa and removeMethod touch nothing but the methods.
LEMMA MethodStep ==
    ASSUME StoreInv, NEW m \in Methods, AddMethod(m) \/ AddMethodByEoa(m) \/ RemoveMethod(m)
    PROVE  StoreInv'
<1>1. MethodTypes /\ RestoreTypes /\ CountsAgree
    BY TypesSplit DEF StoreInv
<1>2. /\ MethodTypes' /\ CountsAgree' /\ methods' # {} /\ methods # {}
      /\ identity'.exists = identity.exists
      /\ identity'.restoreEnabled = identity.restoreEnabled
  <2>1. CASE AddMethod(m) \/ AddMethodByEoa(m)
      BY <1>1, <2>1, StoreKeepsMethods DEF AddMethod, AddMethodByEoa
  <2>2. CASE RemoveMethod(m)
      BY <1>1, <2>2, RemoveKeepsMethods DEF RemoveMethod
  <2> QED BY <2>1, <2>2
<1>3. UNCHANGED <<pending, storeVars, timelockVars, now, asked, restored>>
    BY DEF AddMethod, AddMethodByEoa, RemoveMethod
<1>4. RestoreTypes'
    BY <1>1, <1>3 DEF RestoreTypes, storeVars, timelockVars
<1>5. ExistInv' /\ PendingInv'
    BY <1>2, <1>3 DEF StoreInv, ExistInv, PendingInv
<1>6. ScheduleInv' /\ RestoredInv'
    BY <1>3 DEF StoreInv, ScheduleInv, RestoredInv, RestoreWaits, CancelWins, timelockVars
<1> QED BY <1>2, <1>4, <1>5, <1>6, TypesJoin DEF StoreInv

LEMMA DisableStep ==
    ASSUME StoreInv, DisableRestore
    PROVE  StoreInv'
<1>1. /\ pending'.active = FALSE /\ asked' = NotAsked
      /\ identity.exists
      /\ pending' \in {pending, NoPending}
      /\ identity' = [identity EXCEPT !.restoreEnabled = FALSE]
      /\ UNCHANGED <<methods, methodIds, storeVars, timelockVars, now, restored>>
    BY DEF DisableRestore, NoPending, StoreInv, TypeOK
<1>2. /\ identity'.exists = identity.exists
      /\ identity'.methodCount = identity.methodCount /\ identity'.counts = identity.counts
    BY <1>1 DEF StoreInv, TypeOK
<1>3. TypeOK'
  <2>1. MethodTypes'
      BY <1>1, TypesSplit DEF StoreInv, MethodTypes
  <2>2. RestoreTypes
      BY TypesSplit DEF StoreInv
  <2>3. pending' \in [active : BOOLEAN, method : Methods \cup {NoMethod}, executeAfter : Nat]
    <3>1. NoPending \in [active : BOOLEAN, method : Methods \cup {NoMethod}, executeAfter : Nat]
        BY DEF NoPending
    <3> QED BY <1>1, <2>2, <3>1 DEF RestoreTypes
  <2>4. NotAsked \in [at : Nat, delay : Nat, open : BOOLEAN]
      BY DEF NotAsked
  <2>5. RestoreTypes'
      BY <1>1, <2>2, <2>3, <2>4 DEF RestoreTypes, storeVars, timelockVars
  <2> QED BY <2>1, <2>5, TypesJoin
<1>4. CountsAgree'
  <2>1. ListAgrees'
      BY <1>1, <1>2 DEF StoreInv, CountsAgree, ListAgrees
  <2> QED BY <1>1, <1>2, <2>1 DEF StoreInv, CountsAgree
<1>5. ExistInv' /\ PendingInv'
    BY <1>1, <1>2 DEF StoreInv, ExistInv, PendingInv
<1>6. ScheduleInv' /\ RestoredInv'
    BY <1>1 DEF StoreInv, ScheduleInv, RestoredInv, RestoreWaits, CancelWins, timelockVars
<1> QED BY <1>3, <1>4, <1>5, <1>6 DEF StoreInv

LEMMA InitiateStep ==
    ASSUME StoreInv, NEW m \in Methods, InitiateRestore(m)
    PROVE  StoreInv'
<1> USE StoreAssumption
<1>1. /\ pending' = [active |-> TRUE, method |-> m, executeAfter |-> now + restoreDelay]
      /\ asked' = [at |-> now, delay |-> restoreDelay, open |-> TRUE]
      /\ identity.exists /\ identity.restoreEnabled
      /\ UNCHANGED <<methodVars, storeVars, timelockVars, now, restored>>
    BY DEF InitiateRestore, MayInitiate
<1>2. MethodTypes' /\ CountsAgree'
    BY <1>1, TypesSplit, MethodsUnchanged DEF StoreInv
<1>3. RestoreTypes'
    BY <1>1, TypesSplit DEF StoreInv, RestoreTypes, storeVars, timelockVars
<1>4. ExistInv' /\ PendingInv'
    BY <1>1 DEF StoreInv, ExistInv, PendingInv, methodVars
<1>5. ScheduleInv' /\ RestoredInv'
    BY <1>1 DEF StoreInv, ScheduleInv, RestoredInv, RestoreWaits, CancelWins, timelockVars
<1> QED BY <1>2, <1>3, <1>4, <1>5, TypesJoin DEF StoreInv

LEMMA CancelStep ==
    ASSUME StoreInv, CancelRestore
    PROVE  StoreInv'
<1>1. /\ pending' = NoPending /\ asked' = NotAsked
      /\ UNCHANGED <<methodVars, storeVars, timelockVars, now, restored>>
    BY DEF CancelRestore
<1>2. MethodTypes' /\ CountsAgree'
    BY <1>1, TypesSplit, MethodsUnchanged DEF StoreInv
<1>3. RestoreTypes'
    BY <1>1, TypesSplit DEF StoreInv, RestoreTypes, NoPending, NotAsked, storeVars, timelockVars
<1>4. ExistInv' /\ PendingInv'
    BY <1>1 DEF StoreInv, ExistInv, PendingInv, methodVars, NoPending
<1>5. ScheduleInv' /\ RestoredInv'
    BY <1>1 DEF StoreInv, ScheduleInv, RestoredInv, RestoreWaits, CancelWins, timelockVars
<1> QED BY <1>2, <1>3, <1>4, <1>5, TypesJoin DEF StoreInv

LEMMA RestoreNowStep ==
    ASSUME StoreInv, NEW m \in Methods, RestoreAddMethod(m)
    PROVE  StoreInv'
<1>1. /\ UNCHANGED <<pending, storeVars, timelockVars, now, asked>>
      /\ restored' = restored \cup {[waited |-> 0, delay |-> 0, open |-> TRUE]}
      /\ CanAdd(m) /\ StoreMethod(m)
    BY DEF RestoreAddMethod
<1>2. /\ MethodTypes' /\ CountsAgree' /\ methods' # {}
      /\ identity'.exists = identity.exists
      /\ identity'.restoreEnabled = identity.restoreEnabled
    BY <1>1, TypesSplit, StoreKeepsMethods DEF StoreInv
<1>3. RestoreTypes'
  <2>1. RestoreTypes
      BY TypesSplit DEF StoreInv
  <2>2. [waited |-> 0, delay |-> 0, open |-> TRUE] \in Restores
      BY DEF Restores
  <2>3. restored' \subseteq Restores
      BY <1>1, <2>1, <2>2 DEF RestoreTypes
  <2> QED BY <1>1, <2>1, <2>3 DEF RestoreTypes, storeVars, timelockVars
<1>4. ExistInv' /\ PendingInv'
    BY <1>1, <1>2 DEF StoreInv, ExistInv, PendingInv, CanAdd
<1>5. ScheduleInv' /\ RestoredInv'
    BY <1>1 DEF StoreInv, ScheduleInv, RestoredInv, RestoreWaits, CancelWins, timelockVars
<1> QED BY <1>2, <1>3, <1>4, <1>5, TypesJoin DEF StoreInv

\* The heart: a restore that is due was asked for long enough ago.
LEMMA ExecuteStep ==
    ASSUME StoreInv, ExecuteRestore
    PROVE  StoreInv'
<1> USE StoreAssumption
<1> DEFINE r == [waited |-> now - asked.at, delay |-> asked.delay, open |-> asked.open]
<1>1. /\ UNCHANGED <<storeVars, timelockVars, now>>
      /\ pending' = NoPending /\ asked' = NotAsked
      /\ restored' = restored \cup {r}
      /\ pending.active /\ now >= pending.executeAfter
      /\ CanAdd(pending.method) /\ StoreMethod(pending.method)
    BY DEF ExecuteRestore, MayExecute, RestoreReady
<1>2. /\ MethodTypes' /\ CountsAgree' /\ methods' # {}
      /\ identity'.exists = identity.exists
      /\ identity'.restoreEnabled = identity.restoreEnabled
    BY <1>1, TypesSplit, StoreKeepsMethods DEF StoreInv
<1>3. r \in Restores /\ r.waited >= r.delay /\ r.open
  <2>1. /\ asked.at \in Nat /\ asked.delay \in Nat /\ asked.open = TRUE
        /\ now \in Nat /\ now >= asked.at + asked.delay
    <3>1. RestoreTypes /\ PendingInv
        BY TypesSplit DEF StoreInv
    <3>2. asked.at \in Nat /\ asked.delay \in Nat /\ now \in Nat
        BY <3>1 DEF RestoreTypes
    <3>3. asked.open = TRUE /\ now >= asked.at + asked.delay
        BY <3>1, <1>1 DEF PendingInv, RestoreTypes
    <3> QED BY <3>2, <3>3
  <2>2. /\ now - asked.at \in Nat /\ now - asked.at >= asked.delay
      BY <2>1
  <2>3. r.waited = now - asked.at /\ r.delay = asked.delay /\ r.open = TRUE
      BY <2>1
  <2>4. r \in Restores
      BY <2>1, <2>2 DEF Restores
  <2> QED BY <2>2, <2>3, <2>4
<1> HIDE DEF r
<1>4. RestoreTypes'
    BY <1>1, <1>3, TypesSplit
       DEF StoreInv, RestoreTypes, NoPending, NotAsked, storeVars, timelockVars
<1>5. ExistInv' /\ PendingInv'
    BY <1>1, <1>2 DEF StoreInv, ExistInv, PendingInv, CanAdd, NoPending
<1>6. ScheduleInv' /\ RestoredInv'
    BY <1>1, <1>3 DEF StoreInv, ScheduleInv, RestoredInv, RestoreWaits, CancelWins, timelockVars
<1> QED BY <1>2, <1>4, <1>5, <1>6, TypesJoin DEF StoreInv

\* The timelock and the clock leave the identity alone.
LEMMA TimelockStep ==
    ASSUME StoreInv,
           \/ \E o \in Operators \cup {NoOperator} : ScheduleRecoveryOperator(o)
           \/ \E d \in Delays : ScheduleRestoreDelay(d)
           \/ ExecuteRecoveryOperator \/ ExecuteRestoreDelay \/ Tick
    PROVE  StoreInv'
<1> USE StoreAssumption
<1>1. UNCHANGED <<methodVars, pending, asked, restored>>
    BY DEF ScheduleRecoveryOperator, ScheduleRestoreDelay, ExecuteRecoveryOperator,
           ExecuteRestoreDelay, Tick
<1>2. MethodTypes' /\ CountsAgree'
    BY <1>1, TypesSplit, MethodsUnchanged DEF StoreInv
<1>3. ExistInv' /\ PendingInv' /\ RestoredInv'
    BY <1>1 DEF StoreInv, ExistInv, PendingInv, RestoredInv, RestoreWaits, CancelWins, methodVars
<1>4. RestoreTypes /\ ScheduleInv
    BY TypesSplit DEF StoreInv
<1>5. RestoreTypes' /\ ScheduleInv'
  <2>1. CASE \E o \in Operators \cup {NoOperator} : ScheduleRecoveryOperator(o)
      BY <1>1, <1>4, <2>1 DEF ScheduleRecoveryOperator, Schedule, RestoreTypes, ScheduleInv, storeVars
  <2>2. CASE \E d \in Delays : ScheduleRestoreDelay(d)
      BY <1>1, <1>4, <2>2 DEF ScheduleRestoreDelay, Schedule, RestoreTypes, ScheduleInv, storeVars
  <2>3. CASE ExecuteRecoveryOperator
      BY <1>1, <1>4, <2>3 DEF ExecuteRecoveryOperator, RestoreTypes, ScheduleInv
  <2>4. CASE ExecuteRestoreDelay
      BY <1>1, <1>4, <2>4 DEF ExecuteRestoreDelay, RestoreTypes, ScheduleInv
  <2>5. CASE Tick
      BY <1>1, <1>4, <2>5 DEF Tick, RestoreTypes, ScheduleInv, storeVars, timelockVars
  <2> QED BY <2>1, <2>2, <2>3, <2>4, <2>5
<1> QED BY <1>2, <1>3, <1>5, TypesJoin DEF StoreInv

LEMMA StoreStep == StoreInv /\ [Next]_vars => StoreInv'
<1> SUFFICES ASSUME StoreInv, [Next]_vars PROVE StoreInv'
    OBVIOUS
<1>1. CASE \E m \in Methods :
              \/ Register(m) \/ AddMethod(m) \/ AddMethodByEoa(m) \/ RemoveMethod(m)
              \/ InitiateRestore(m) \/ RestoreAddMethod(m)
    BY <1>1, RegisterStep, MethodStep, InitiateStep, RestoreNowStep
<1>2. CASE DisableRestore \/ CancelRestore \/ ExecuteRestore
    BY <1>2, DisableStep, CancelStep, ExecuteStep
<1>3. CASE \/ \E o \in Operators \cup {NoOperator} : ScheduleRecoveryOperator(o)
           \/ \E d \in Delays : ScheduleRestoreDelay(d)
           \/ ExecuteRecoveryOperator \/ ExecuteRestoreDelay \/ Tick
    BY <1>3, TimelockStep
<1>4. CASE UNCHANGED vars
  <2>1. UNCHANGED <<methodVars, pending, storeVars, timelockVars, now, asked, restored>>
      BY <1>4 DEF vars
  <2>2. MethodTypes' /\ CountsAgree'
      BY <2>1, TypesSplit, MethodsUnchanged DEF StoreInv
  <2>3. RestoreTypes'
      BY <2>1, TypesSplit DEF StoreInv, RestoreTypes, storeVars, timelockVars
  <2>4. ExistInv' /\ PendingInv' /\ ScheduleInv' /\ RestoredInv'
      BY <2>1 DEF StoreInv, ExistInv, PendingInv, ScheduleInv, RestoredInv, RestoreWaits,
                  CancelWins, methodVars, timelockVars
  <2> QED BY <2>2, <2>3, <2>4, TypesJoin DEF StoreInv
<1> QED BY <1>1, <1>2, <1>3, <1>4 DEF Next

(* The inductive invariant of the store and its timelock.                   *)
THEOREM StoreInvariance == Spec => []StoreInv
BY InitStore, StoreStep, PTL DEF Spec

(* No call of the store or the timelock leaves the ranges of its fields;    *)
(* the counters stay within MAX_METHODS and never wrap.                     *)
THEOREM StoreTypeCorrect == Spec => []TypeOK
<1>1. StoreInv => TypeOK
    BY DEF StoreInv
<1> QED BY <1>1, StoreInvariance, PTL

(* Counters, mapping and the swap-and-pop list always describe one set of   *)
(* methods.                                                                 *)
THEOREM CountsAlwaysAgree == Spec => []CountsAgree
<1>1. StoreInv => CountsAgree
    BY DEF StoreInv
<1> QED BY <1>1, StoreInvariance, PTL

(* No sequence of calls leaves a registered identity without a method.      *)
THEOREM OwnerKeepsMethod == Spec => []NeverLockedOut
<1>1. StoreInv => NeverLockedOut
    BY DEF StoreInv, ExistInv, NeverLockedOut
<1> QED BY <1>1, StoreInvariance, PTL

(* disableRestore leaves no pending restore behind.                         *)
THEOREM NothingPendingWhenDisabled == Spec => []PendingNeedsEnabled
<1>1. StoreInv => PendingNeedsEnabled
    BY DEF StoreInv, PendingInv, PendingNeedsEnabled
<1> QED BY <1>1, StoreInvariance, PTL

(* Every restored method waited for the delay in force when its restore     *)
(* was started.                                                             *)
THEOREM RestoresAlwaysWait == Spec => []RestoreWaits
<1>1. StoreInv => RestoreWaits
    BY DEF StoreInv, RestoredInv
<1> QED BY <1>1, StoreInvariance, PTL

(* cancelRestore and disableRestore win over executeRestore.                *)
THEOREM CancelAlwaysWins == Spec => []CancelWins
<1>1. StoreInv => CancelWins
    BY DEF StoreInv, RestoredInv
<1> QED BY <1>1, StoreInvariance, PTL

(* Nothing turns restore on again, and nothing is restored after            *)
(* disableRestore.                                                          *)
THEOREM DisabledForEver == Spec => DisableIsPermanent
<1>1. StoreInv /\ [Next]_vars
        => [identity.exists /\ ~identity.restoreEnabled
              => ~identity'.restoreEnabled /\ restored' = restored]_vars
  <2> SUFFICES ASSUME StoreInv, Next, identity.exists, ~identity.restoreEnabled
               PROVE  ~identity'.restoreEnabled /\ restored' = restored
      OBVIOUS
  <2>1. ~pending.active
      BY DEF StoreInv, PendingInv
  <2>2. CASE \E m \in Methods : AddMethod(m) \/ AddMethodByEoa(m) \/ RemoveMethod(m)
    <3>1. PICK m \in Methods : AddMethod(m) \/ AddMethodByEoa(m) \/ RemoveMethod(m)
        BY <2>2
    <3>2. MethodTypes /\ CountsAgree
        BY TypesSplit DEF StoreInv
    <3>3. identity'.restoreEnabled = identity.restoreEnabled
      <4>1. CASE AddMethod(m) \/ AddMethodByEoa(m)
          BY <4>1, <3>2, StoreKeepsMethods DEF AddMethod, AddMethodByEoa
      <4>2. CASE RemoveMethod(m)
          BY <4>2, <3>2, RemoveKeepsMethods
      <4> QED BY <3>1, <4>1, <4>2
    <3>4. restored' = restored
        BY <3>1 DEF AddMethod, AddMethodByEoa, RemoveMethod
    <3> QED BY <3>3, <3>4
  <2>3. ~DisableRestore /\ ~CancelRestore /\ ~ExecuteRestore
      BY <2>1 DEF DisableRestore, CancelRestore, ExecuteRestore, MayExecute
  <2>4. \A m \in Methods : ~Register(m) /\ ~InitiateRestore(m) /\ ~RestoreAddMethod(m)
      BY DEF Register, InitiateRestore, RestoreAddMethod, MayInitiate
  <2>5. CASE \/ \E o \in Operators \cup {NoOperator} : ScheduleRecoveryOperator(o)
             \/ \E d \in Delays : ScheduleRestoreDelay(d)
             \/ ExecuteRecoveryOperator \/ ExecuteRestoreDelay \/ Tick
      BY <2>5 DEF ScheduleRecoveryOperator, ScheduleRestoreDelay, ExecuteRecoveryOperator,
                  ExecuteRestoreDelay, Tick, methodVars
  <2> QED BY <2>2, <2>3, <2>4, <2>5 DEF Next
<1> QED BY <1>1, StoreInvariance, PTL DEF Spec, DisableIsPermanent

(* The operator and the delay change only TimelockDelay after the change    *)
(* was last scheduled.                                                      *)
THEOREM TimelockHonoured == Spec => ChangesWait
<1>1. StoreInv /\ [Next]_vars
        => [/\ recoveryOperator' # recoveryOperator => now >= proposed.operator + TimelockDelay
            /\ restoreDelay' # restoreDelay => now >= proposed.delay + TimelockDelay]_vars
  <2> SUFFICES ASSUME StoreInv, Next
               PROVE  /\ recoveryOperator' # recoveryOperator
                           => now >= proposed.operator + TimelockDelay
                      /\ restoreDelay' # restoreDelay
                           => now >= proposed.delay + TimelockDelay
      OBVIOUS
  <2>1. CASE ExecuteRecoveryOperator
      BY <2>1 DEF ExecuteRecoveryOperator, Ready, StoreInv, ScheduleInv
  <2>2. CASE ExecuteRestoreDelay
      BY <2>2 DEF ExecuteRestoreDelay, Ready, StoreInv, ScheduleInv
  <2>3. CASE \E m \in Methods :
                \/ Register(m) \/ AddMethod(m) \/ AddMethodByEoa(m) \/ RemoveMethod(m)
                \/ InitiateRestore(m) \/ RestoreAddMethod(m)
      BY <2>3 DEF Register, AddMethod, AddMethodByEoa, RemoveMethod, InitiateRestore,
                  RestoreAddMethod, storeVars
  <2>4. CASE \/ DisableRestore \/ CancelRestore \/ ExecuteRestore \/ Tick
             \/ \E o \in Operators \cup {NoOperator} : ScheduleRecoveryOperator(o)
             \/ \E d \in Delays : ScheduleRestoreDelay(d)
      BY <2>4 DEF DisableRestore, CancelRestore, ExecuteRestore, Tick,
                  ScheduleRecoveryOperator, ScheduleRestoreDelay, storeVars
  <2> QED BY <2>1, <2>2, <2>3, <2>4 DEF Next
<1> QED BY <1>1, StoreInvariance, PTL DEF Spec, ChangesWait
-----------------------------------------------------------------------------
(* The restore is a delayed recovery.                                       *)

RecoveryStep == [Recovery!RecoveryNext]_(Recovery!recoveryVars)

\* Nothing happens to the recovery.
LEMMA RecoveryStays ==
    ASSUME UNCHANGED <<pending, now, methods>>
    PROVE  RecoveryStep
<1>1. RestoreReady' = RestoreReady
    BY DEF RestoreReady
<1> QED BY <1>1 DEF RecoveryStep, Recovery!recoveryVars

\* Methods come and go, by whoever holds one.
LEMMA MethodsMove ==
    ASSUME NEW m \in Methods, UNCHANGED <<pending, now>>,
           methods' = methods \cup {m} \/ methods' = methods \ {m}
    PROVE  RecoveryStep
<1>1. RestoreReady' = RestoreReady
    BY DEF RestoreReady
<1>2. Recovery!Admit(m) \/ Recovery!Dismiss(m)
    BY <1>1 DEF Recovery!Admit, Recovery!Dismiss
<1> QED BY <1>2 DEF RecoveryStep, Recovery!RecoveryNext

LEMMA MethodsMoveByCall ==
    ASSUME NEW m \in Methods,
           Register(m) \/ AddMethod(m) \/ AddMethodByEoa(m) \/ RemoveMethod(m) \/ RestoreAddMethod(m)
    PROVE  RecoveryStep
<1>1. UNCHANGED <<pending, now>>
    BY DEF Register, AddMethod, AddMethodByEoa, RemoveMethod, RestoreAddMethod
<1>2. methods' = methods \cup {m} \/ methods' = methods \ {m}
    BY DEF Register, AddMethod, AddMethodByEoa, RemoveMethod, RestoreAddMethod, StoreMethod
<1> QED BY <1>1, <1>2, MethodsMove

LEMMA InitiateAnnounces ==
    ASSUME NEW m \in Methods, InitiateRestore(m)
    PROVE  RecoveryStep
<1>1. /\ ~pending.active /\ pending'.active /\ pending'.method = m /\ methods' = methods
      /\ RestoreReady' \in BOOLEAN
    BY DEF InitiateRestore, MayInitiate, methodVars, RestoreReady
<1>2. Recovery!Announce(m)
    BY <1>1 DEF Recovery!Announce
<1> QED BY <1>2 DEF RecoveryStep, Recovery!RecoveryNext

LEMMA ExecuteSucceeds ==
    ASSUME ExecuteRestore
    PROVE  RecoveryStep
<1>1. /\ pending.active /\ RestoreReady /\ pending.method \notin methods
      /\ methods' = methods \cup {pending.method} /\ ~pending'.active /\ ~RestoreReady'
    BY DEF ExecuteRestore, MayExecute, RestoreReady, CanAdd, StoreMethod, NoPending
<1>2. Recovery!Succeed
    BY <1>1 DEF Recovery!Succeed, Recovery!Over
<1> QED BY <1>2 DEF RecoveryStep, Recovery!RecoveryNext

LEMMA CancelCallsOff ==
    ASSUME CancelRestore \/ DisableRestore
    PROVE  RecoveryStep
<1>1. UNCHANGED <<methods, now>>
    BY DEF CancelRestore, DisableRestore, methodVars
<1>2. CASE pending.active
  <2>1. ~pending'.active /\ ~RestoreReady'
      BY <1>2 DEF CancelRestore, DisableRestore, NoPending, RestoreReady
  <2>2. Recovery!CallOff
      BY <1>1, <1>2, <2>1 DEF Recovery!CallOff, Recovery!Over
  <2> QED BY <2>2 DEF RecoveryStep, Recovery!RecoveryNext
<1>3. CASE ~pending.active
  <2>1. pending' = pending
      BY <1>3 DEF CancelRestore, DisableRestore
  <2> QED BY <1>1, <2>1, RecoveryStays
<1> QED BY <1>2, <1>3

\* Time only brings a restore closer.
LEMMA TickEndsDelay ==
    ASSUME StoreInv, Tick
    PROVE  RecoveryStep
<1>1. /\ UNCHANGED <<pending, methods>> /\ now' = now + 1
      /\ now \in Nat /\ pending.executeAfter \in Nat /\ pending.active \in BOOLEAN
    BY DEF Tick, methodVars, StoreInv, TypeOK
<1>2. CASE RestoreReady' = RestoreReady
    BY <1>1, <1>2 DEF RecoveryStep, Recovery!recoveryVars
<1>3. CASE RestoreReady' # RestoreReady
  <2>1. pending.active /\ RestoreReady'
      BY <1>1, <1>3 DEF RestoreReady
  <2>2. Recovery!DelayEnds
      BY <1>1, <2>1 DEF Recovery!DelayEnds
  <2> QED BY <2>2 DEF RecoveryStep, Recovery!RecoveryNext
<1> QED BY <1>2, <1>3

(* The restore of the store is the delayed recovery its users count on,     *)
(* whatever the timelock changes meanwhile.                                 *)
THEOREM ImplementsRecovery == Spec => RecoverySpec
<1>1. Init => Recovery!RecoveryInit
    BY DEF Init, NoPending, RestoreReady, Recovery!RecoveryInit
<1>2. StoreInv /\ [Next]_vars => [Recovery!RecoveryNext]_(Recovery!recoveryVars)
  <2> SUFFICES ASSUME StoreInv, [Next]_vars PROVE RecoveryStep
      BY DEF RecoveryStep
  <2>1. ASSUME NEW m \in Methods,
               \/ Register(m) \/ AddMethod(m) \/ AddMethodByEoa(m) \/ RemoveMethod(m)
               \/ InitiateRestore(m) \/ RestoreAddMethod(m)
        PROVE  RecoveryStep
      BY <2>1, MethodsMoveByCall, InitiateAnnounces
  <2>2. CASE DisableRestore \/ CancelRestore \/ ExecuteRestore \/ Tick
      BY <2>2, CancelCallsOff, ExecuteSucceeds, TickEndsDelay
  <2>3. CASE \/ \E o \in Operators \cup {NoOperator} : ScheduleRecoveryOperator(o)
             \/ \E d \in Delays : ScheduleRestoreDelay(d)
             \/ ExecuteRecoveryOperator \/ ExecuteRestoreDelay \/ UNCHANGED vars
    <3>1. UNCHANGED <<pending, now, methods>>
        BY <2>3 DEF ScheduleRecoveryOperator, ScheduleRestoreDelay, ExecuteRecoveryOperator,
                    ExecuteRestoreDelay, methodVars, vars
    <3> QED BY <3>1, RecoveryStays
  <2> QED BY <2>1, <2>2, <2>3 DEF Next
<1> QED BY <1>1, <1>2, StoreInvariance, PTL DEF Spec, RecoverySpec, Recovery!RecoverySpec
=============================================================================
