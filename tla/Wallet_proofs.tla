---------------------------- MODULE Wallet_proofs ----------------------------
(***************************************************************************)
(* What the wallet guarantees for any keys, entities, limits and timelock, *)
(* and for any width of the key counter, which may wrap.                   *)
(*                                                                         *)
(* In simple mode everything rests on the list of owners and on pause and  *)
(* pending owner going together.  In advanced mode it rests on the pairing *)
(* of entities with bits: with it, the veto bits are those of entities     *)
(* that can sign, and when every entity can sign the signed bits are all   *)
(* the bits there are, at least threshold many.                            *)
(***************************************************************************)
EXTENDS Wallet, TLAPS, FiniteSetTheorems

\* Entities and keys exist in advanced mode alone, with a threshold in reach.
PolicyInv ==
    /\ ~advanced => entities = {} /\ keys = {} /\ vetoBitmap = {}
    /\ advanced => threshold \in 1..entityCount

\* A pending owner was announced RecoveryTimelock before it is due.
PendingInv ==
    pendingOwner.active => /\ pendingOwner.key \in Keys
                           /\ pendingOwner.executableAt = scheduledAt + RecoveryTimelock

-----------------------------------------------------------------------------
(* Finite sets and lists.                                                   *)

\* Equally many, when f maps S to T and every member of T comes from just one.
LEMMA SameSize ==
    ASSUME NEW S, NEW T, IsFiniteSet(S), NEW f \in [S -> T],
           \A x, y \in S : f[x] = f[y] => x = y, \A t \in T : \E x \in S : f[x] = t
    PROVE  IsFiniteSet(T) /\ Cardinality(T) = Cardinality(S)
<1>1. f \in Bijection(S, T)
    BY DEF Bijection, Injection, Surjection, IsInjective
<1> QED BY <1>1, FS_Bijection DEF ExistsBijection

Names(s) == {s[i] : i \in 1..Len(s)}
Once(s) == \A i, j \in 1..Len(s) : s[i] = s[j] => i = j

\* A list without repetition has as many entries as names.
LEMMA ListSize ==
    ASSUME NEW S, NEW s \in Seq(S), Once(s)
    PROVE  IsFiniteSet(Names(s)) /\ Cardinality(Names(s)) = Len(s)
<1>1. Len(s) \in Nat /\ s \in [1..Len(s) -> Names(s)]
    BY DEF Names
<1>2. IsFiniteSet(1..Len(s)) /\ Cardinality(1..Len(s)) = Len(s)
    BY <1>1, FS_Interval
<1>3. \A t \in Names(s) : \E i \in 1..Len(s) : s[i] = t
    BY DEF Names
<1> QED BY <1>1, <1>2, <1>3, SameSize DEF Once

LEMMA AppendOwner ==
    ASSUME NEW S, NEW s \in Seq(S), NEW k \in S, Once(s), k \notin Names(s)
    PROVE  /\ Append(s, k) \in Seq(S)
           /\ Names(Append(s, k)) = Names(s) \cup {k} /\ Once(Append(s, k))
<1> DEFINE t == Append(s, k)
<1>1. /\ t \in Seq(S) /\ Len(t) = Len(s) + 1 /\ Len(s) \in Nat
      /\ \A i \in 1..Len(s) : t[i] = s[i]
      /\ t[Len(s) + 1] = k
    OBVIOUS
<1> HIDE DEF t
<1>2. \A i \in 1..Len(t) : i \in 1..Len(s) \/ i = Len(s) + 1
    BY <1>1
<1>3. Len(s) + 1 \in 1..Len(t) /\ \A i \in 1..Len(s) : i \in 1..Len(t)
    BY <1>1
<1>4. Names(t) = Names(s) \cup {k}
    BY <1>1, <1>2, <1>3 DEF Names
<1>5. Once(t)
    BY <1>1, <1>2 DEF Names, Once
<1> QED BY <1>1, <1>4, <1>5 DEF t

\* _removeOwnerId swaps the last owner into the gap.
LEMMA RemoveFromList ==
    ASSUME NEW S, NEW s \in Seq(S), NEW k \in Names(s), Once(s)
    PROVE  /\ RemoveOwnerId(s, k) \in Seq(S)
           /\ Names(RemoveOwnerId(s, k)) = Names(s) \ {k} /\ Once(RemoveOwnerId(s, k))
<1> DEFINE g == CHOOSE j \in DOMAIN s : s[j] = k
           n == Len(s)
           t == [j \in 1..(n - 1) |-> IF j = g THEN s[n] ELSE s[j]]
<1>1. n \in Nat /\ DOMAIN s = 1..n /\ \A i \in 1..n : s[i] \in S
    OBVIOUS
<1>2. g \in 1..n /\ s[g] = k
    BY <1>1 DEF Names
<1>3. RemoveOwnerId(s, k) = t
    BY DEF RemoveOwnerId
<1> HIDE DEF g, n
<1>4. /\ n - 1 \in Nat /\ n \in 1..n
      /\ \A j \in 1..(n - 1) : j \in 1..n /\ j # n
      /\ \A j \in 1..n : j # n => j \in 1..(n - 1)
    BY <1>1, <1>2
<1>5. t \in Seq(S) /\ Len(t) = n - 1
    BY <1>1, <1>4
<1>6. \A j \in 1..(n - 1) : t[j] = IF j = g THEN s[n] ELSE s[j]
    OBVIOUS
<1> HIDE DEF t
<1>7. \A i, j \in 1..n : s[i] = s[j] => i = j
    BY DEF Once, n
<1>8. Once(t)
    BY <1>2, <1>4, <1>5, <1>6, <1>7 DEF Once
<1>9. Names(s) = {s[i] : i \in 1..n} /\ Names(t) = {t[i] : i \in 1..(n - 1)}
    BY <1>5 DEF Names, n
<1>10. \A j \in 1..(n - 1) : t[j] \in Names(s) \ {k}
    BY <1>2, <1>4, <1>6, <1>7, <1>9
<1>11. \A i \in 1..n : i # g => s[i] \in Names(t)
  <2>1. SUFFICES ASSUME NEW i \in 1..n, i # g PROVE \E j \in 1..(n - 1) : t[j] = s[i]
      BY <1>9
  <2>2. CASE i = n
      BY <2>1, <2>2, <1>2, <1>4, <1>6
  <2>3. CASE i # n
      BY <2>1, <2>3, <1>4, <1>6
  <2> QED BY <2>2, <2>3
<1>12. Names(t) = Names(s) \ {k}
    BY <1>2, <1>9, <1>10, <1>11
<1> QED BY <1>3, <1>5, <1>8, <1>12

-----------------------------------------------------------------------------
(* Entities and bits.                                                       *)

EntityTypes ==
    /\ entities \subseteq Entities /\ entityCount \in Nat
    /\ entityBit \in [Entities -> Nat] /\ entityAtBit \in [0..(entityCount - 1) -> Entities]

Paired ==
    /\ entityCount = Cardinality(entities) /\ entityBitmap = 0..(entityCount - 1)
    /\ \A e \in entities : entityBit[e] < entityCount /\ entityAtBit[entityBit[e]] = e
    /\ \A b \in 0..(entityCount - 1) : entityAtBit[b] \in entities /\ entityBit[entityAtBit[b]] = b

LEMMA RegisterPairs ==
    ASSUME EntityTypes, Paired, NEW names \in Seq(Entities), Once(names), Register(names)
    PROVE  /\ EntityTypes' /\ Paired'
           /\ entities' = entities \cup Names(names)
           /\ entityCount' = entityCount + Len(names)
           /\ \A e \in entities : entityBit'[e] = entityBit[e]
           /\ \A b \in 0..(entityCount - 1) : entityAtBit'[b] = entityAtBit[b]
<1> DEFINE n == Len(names)
           c == entityCount
           bitOf(e) == c + (CHOOSE i \in 1..n : names[i] = e) - 1
<1> USE WalletAssumption
<1>1. n \in Nat /\ c \in Nat /\ \A i \in 1..n : names[i] \in Entities
    BY DEF EntityTypes
<1>2. /\ Names(names) \cap entities = {} /\ entities' = entities \cup Names(names)
      /\ entityCount' = c + n /\ entityBitmap' = entityBitmap \cup c..(c + n - 1)
      /\ entityBit' = [e \in Entities |-> IF e \in Names(names) THEN bitOf(e) ELSE entityBit[e]]
      /\ entityAtBit' = [b \in DOMAIN entityAtBit \cup c..(c + n - 1) |->
                           IF b < c THEN entityAtBit[b] ELSE names[b - c + 1]]
    BY DEF Register, Names
<1>3. \A i \in 1..n : bitOf(names[i]) = c + i - 1
  <2>1. \A i \in 1..n : (CHOOSE j \in 1..n : names[j] = names[i]) = i
      BY DEF Once
  <2> QED BY <2>1
<1>4. \A e \in Names(names) : \E i \in 1..n : e = names[i] /\ bitOf(e) = c + i - 1
    BY <1>3 DEF Names
<1> HIDE DEF n, c, bitOf
<1>5. 0..(c - 1) \cup c..(c + n - 1) = 0..(c + n - 1)
    BY <1>1
<1>6. /\ \A b \in 0..(c + n - 1) : entityAtBit'[b] = IF b < c THEN entityAtBit[b] ELSE names[b - c + 1]
      /\ DOMAIN entityAtBit' = 0..(c + n - 1)
    BY <1>2, <1>5 DEF EntityTypes, c
<1>7. \A e \in Entities : entityBit'[e] = IF e \in Names(names) THEN bitOf(e) ELSE entityBit[e]
    BY <1>2
<1>8. \A e \in entities : e \notin Names(names) /\ e \in Entities /\ entityBit'[e] = entityBit[e]
    BY <1>2, <1>7 DEF EntityTypes
<1>9. \A b \in 0..(c - 1) : b \in 0..(c + n - 1) /\ b < c /\ entityAtBit'[b] = entityAtBit[b]
    BY <1>1, <1>6
<1>10. \A i \in 1..n :
          /\ c + i - 1 \in 0..(c + n - 1) /\ ~(c + i - 1 < c) /\ (c + i - 1) - c + 1 = i
          /\ entityAtBit'[c + i - 1] = names[i] /\ names[i] \in Names(names)
    BY <1>1, <1>6 DEF Names, n
<1>11. \A b \in 0..(c + n - 1) : ~(b < c) =>
          /\ b - c + 1 \in 1..n /\ c + (b - c + 1) - 1 = b /\ entityAtBit'[b] = names[b - c + 1]
    BY <1>1, <1>6
<1>12. Names(names) \subseteq Entities
    BY <1>1 DEF Names, n
<1>13. /\ entityCount' = c + n /\ entityCount' - 1 = c + n - 1
       /\ entities' = entities \cup Names(names)
    BY <1>1, <1>2
<1>14. EntityTypes'
  <2>1. \A e \in Entities : entityBit'[e] \in Nat
    <3>1. TAKE e \in Entities
    <3>2. CASE e \in Names(names)
      <4>1. PICK i \in 1..n : bitOf(e) = c + i - 1
          BY <3>2, <1>4
      <4>2. entityBit'[e] = c + i - 1
          BY <3>2, <4>1, <1>7
      <4> QED BY <4>2, <1>1
    <3>3. CASE e \notin Names(names)
        BY <3>3, <1>7 DEF EntityTypes
    <3> QED BY <3>2, <3>3
  <2>2. \A b \in 0..(c + n - 1) : entityAtBit'[b] \in Entities
    <3>1. TAKE b \in 0..(c + n - 1)
    <3>2. CASE b < c
      <4>1. b \in 0..(c - 1)
          BY <3>2, <1>1
      <4>2. entityAtBit[b] \in Entities
          BY <4>1 DEF EntityTypes, c
      <4> QED BY <4>1, <4>2, <1>9
    <3>3. CASE ~(b < c)
        BY <3>3, <1>1, <1>11
    <3> QED BY <3>2, <3>3
  <2>3. entityAtBit' \in [0..(c + n - 1) -> Entities]
      BY <2>2, <1>2, <1>6
  <2>4. entityBit' \in [Entities -> Nat]
      BY <2>1, <1>2
  <2> QED BY <2>3, <2>4, <1>1, <1>12, <1>13 DEF EntityTypes
<1>15. entityCount' = Cardinality(entities') /\ entityBitmap' = 0..(entityCount' - 1)
  <2>1. IsFiniteSet(entities) /\ IsFiniteSet(Names(names)) /\ Cardinality(Names(names)) = n
      BY FS_Subset, ListSize DEF EntityTypes, n
  <2>2. Cardinality(entities \cap Names(names)) = 0
    <3>1. entities \cap Names(names) = {}
        BY <1>2
    <3> QED BY <3>1, FS_EmptySet
  <2>3. Cardinality(entities') = Cardinality(entities) + n - Cardinality(entities \cap Names(names))
      BY <2>1, <1>2, FS_Union
  <2>4. Cardinality(entities) = c
      BY DEF Paired, c
  <2>5. entityCount' = Cardinality(entities')
      BY <2>2, <2>3, <2>4, <1>1, <1>13
  <2>6. entityBitmap = 0..(c - 1)
      BY DEF Paired, c
  <2>7. entityBitmap' = 0..(c + n - 1)
      BY <2>6, <1>2, <1>5
  <2> QED BY <2>5, <2>7, <1>13
<1>16. \A e \in entities' : entityBit'[e] < entityCount' /\ entityAtBit'[entityBit'[e]] = e
  <2>1. SUFFICES ASSUME NEW e \in entities'
                 PROVE  entityBit'[e] < entityCount' /\ entityAtBit'[entityBit'[e]] = e
      OBVIOUS
  <2>2. CASE e \in entities
    <3>1. entityBit[e] < c /\ entityBit[e] \in Nat /\ entityAtBit[entityBit[e]] = e
        BY <2>2 DEF Paired, EntityTypes, c
    <3>2. entityBit[e] \in 0..(c - 1) /\ entityBit[e] < c + n
        BY <3>1, <1>1
    <3> QED BY <3>1, <3>2, <2>2, <1>8, <1>9, <1>13
  <2>3. CASE e \in Names(names)
    <3>1. PICK i \in 1..n : e = names[i] /\ bitOf(e) = c + i - 1
        BY <2>3, <1>4
    <3>2. c + i - 1 \in 0..(c + n - 1) /\ c + i - 1 < c + n /\ entityAtBit'[c + i - 1] = e
        BY <3>1, <1>1, <1>10
    <3> QED BY <3>1, <3>2, <2>3, <1>7, <1>12, <1>13
  <2> QED BY <2>1, <2>2, <2>3, <1>13
<1>17. \A b \in 0..(entityCount' - 1) : entityAtBit'[b] \in entities' /\ entityBit'[entityAtBit'[b]] = b
  <2>1. SUFFICES ASSUME NEW b \in 0..(c + n - 1)
                 PROVE  entityAtBit'[b] \in entities' /\ entityBit'[entityAtBit'[b]] = b
      BY <1>1, <1>13
  <2>2. CASE b < c
    <3>1. b \in 0..(c - 1)
        BY <2>2, <1>1
    <3>2. entityAtBit[b] \in entities /\ entityBit[entityAtBit[b]] = b
        BY <3>1 DEF Paired, c
    <3> QED BY <3>1, <3>2, <1>8, <1>9, <1>13
  <2>3. CASE ~(b < c)
    <3>1. b - c + 1 \in 1..n /\ entityAtBit'[b] = names[b - c + 1] /\ c + (b - c + 1) - 1 = b
        BY <2>3, <1>11
    <3>2. names[b - c + 1] \in Names(names) /\ bitOf(names[b - c + 1]) = b
        BY <3>1, <1>3, <1>10
    <3> QED BY <3>1, <3>2, <1>7, <1>12, <1>13
  <2> QED BY <2>2, <2>3
<1> QED BY <1>8, <1>9, <1>14, <1>15, <1>16, <1>17, <1>13 DEF Paired, n, c

\* removeEntity gives the bit of e to the entity at the last bit.
LEMMA RemovePairs ==
    ASSUME EntityTypes, Paired, NEW e \in Entities, NEW gone, RemoveEntity(e, gone)
    PROVE  /\ EntityTypes' /\ Paired'
           /\ \A b \in 0..(entityCount' - 1) :
                 entityAtBit'[b] = IF b = entityBit[e] THEN entityAtBit[entityCount - 1]
                                   ELSE entityAtBit[b]
<1> DEFINE c == entityCount
           bit == entityBit[e]
           moved == entityAtBit[c - 1]
<1>1. /\ e \in entities /\ entities' = entities \ {e} /\ entityCount' = c - 1
      /\ entityBit' = BitsWithout(e) /\ entityBitmap' = entityBitmap \ {c - 1}
      /\ entityAtBit' = [b \in 0..((c - 1) - 1) |-> IF b = bit THEN moved ELSE entityAtBit[b]]
    BY DEF RemoveEntity
<1>2. c \in Nat /\ bit \in 0..(c - 1) /\ entityAtBit[bit] = e
    BY <1>1 DEF EntityTypes, Paired
<1>3. c - 1 \in Nat /\ c - 1 \in 0..(c - 1) /\ moved \in entities /\ entityBit[moved] = c - 1
    BY <1>2 DEF Paired
<1>4. \A f \in Entities : entityBit'[f] = IF f = e THEN 0 ELSE IF f = moved THEN bit ELSE entityBit[f]
    BY <1>1 DEF BitsWithout
<1>5. \A f \in entities : f \in Entities /\ entityBit[f] \in 0..(c - 1) /\ entityAtBit[entityBit[f]] = f
    BY DEF EntityTypes, Paired
<1>6. \A b \in 0..(c - 1) : entityAtBit[b] \in entities /\ entityBit[entityAtBit[b]] = b
    BY DEF Paired
<1> HIDE DEF c, bit, moved
<1>7. \A b \in 0..(c - 1) : b # c - 1 <=> b \in 0..((c - 1) - 1)
    BY <1>2
<1>8. \A b \in 0..((c - 1) - 1) :
         /\ b \in 0..(c - 1) /\ b < c - 1
         /\ entityAtBit'[b] = IF b = bit THEN moved ELSE entityAtBit[b]
    BY <1>1, <1>2
<1>9. EntityTypes'
  <2>1. \A f \in Entities : entityBit'[f] \in Nat
      BY <1>2, <1>4 DEF EntityTypes
  <2>2. entityBit' \in [Entities -> Nat]
      BY <2>1, <1>1 DEF BitsWithout
  <2>3. entityAtBit' \in [0..(entityCount' - 1) -> Entities]
      BY <1>1, <1>3, <1>5, <1>6, <1>8
  <2> QED BY <2>2, <2>3, <1>1, <1>3 DEF EntityTypes
<1>10. entityCount' = Cardinality(entities') /\ entityBitmap' = 0..(entityCount' - 1)
  <2>1. IsFiniteSet(entities)
      BY WalletAssumption, FS_Subset DEF EntityTypes
  <2>2. Cardinality(entities') = c - 1
      BY <2>1, <1>1, FS_RemoveElement DEF Paired, c
  <2>3. entityBitmap' = 0..((c - 1) - 1)
      BY <1>1, <1>7, <1>8 DEF Paired, c
  <2> QED BY <2>2, <2>3, <1>1
<1>11. \A f \in entities' : entityBit'[f] < entityCount' /\ entityAtBit'[entityBit'[f]] = f
  <2>1. SUFFICES ASSUME NEW f \in entities, f # e
                 PROVE  entityBit'[f] < entityCount' /\ entityAtBit'[entityBit'[f]] = f
      BY <1>1
  <2>2. f \in Entities /\ entityBit[f] \in 0..(c - 1) /\ entityAtBit[entityBit[f]] = f
      BY <2>1, <1>5
  <2>3. CASE f = moved
    <3>1. bit # c - 1
        BY <2>1, <2>3, <1>2 DEF moved
    <3> QED BY <3>1, <2>1, <2>2, <2>3, <1>1, <1>2, <1>4, <1>7, <1>8
  <2>4. CASE f # moved
    <3>1. entityBit[f] # c - 1 /\ entityBit[f] # bit
        BY <2>1, <2>2, <2>4, <1>2 DEF moved
    <3> QED BY <3>1, <2>1, <2>2, <2>4, <1>1, <1>4, <1>7, <1>8
  <2> QED BY <2>3, <2>4
<1>12. \A b \in 0..(entityCount' - 1) : entityAtBit'[b] \in entities' /\ entityBit'[entityAtBit'[b]] = b
  <2>1. SUFFICES ASSUME NEW b \in 0..((c - 1) - 1)
                 PROVE  entityAtBit'[b] \in entities' /\ entityBit'[entityAtBit'[b]] = b
      BY <1>1
  <2>2. CASE b = bit
    <3>1. moved # e
        BY <2>2, <1>2, <1>3, <1>8 DEF bit
    <3> QED BY <3>1, <2>2, <1>1, <1>3, <1>4, <1>5, <1>8
  <2>3. CASE b # bit
    <3>1. entityAtBit[b] # e /\ entityAtBit[b] # moved
        BY <2>1, <2>3, <1>3, <1>6, <1>8 DEF bit
    <3> QED BY <3>1, <2>3, <1>1, <1>4, <1>5, <1>6, <1>8
  <2> QED BY <2>2, <2>3
<1> QED BY <1>1, <1>8, <1>9, <1>10, <1>11, <1>12 DEF Paired, c, bit, moved

-----------------------------------------------------------------------------
(* Keys.                                                                    *)

PolicyTypes ==
    /\ EntityTypes /\ advanced \in BOOLEAN /\ threshold \in Nat /\ vetoCount \in Nat
    /\ entityBitmap \subseteq Nat /\ vetoBitmap \subseteq Nat
    /\ keys \subseteq Entities \X Keys /\ keyCount \in [Entities -> 0..(KeyWrap - 1)]

KeysCounted == \A e \in Entities : keyCount[e] = Cardinality(KeysOf(e)) % KeyWrap

\* The keys of an entity are finitely many.
LEMMA KeysFinite ==
    ASSUME NEW S, NEW e
    PROVE  IsFiniteSet(KeysIn(S, e)) /\ Cardinality(KeysIn(S, e)) \in Nat
<1> DEFINE K == KeysIn(S, e)
<1>1. K \in SUBSET Keys
    BY DEF KeysIn
<1> HIDE DEF K
<1>2. IsFiniteSet(K) /\ Cardinality(K) \in Nat
    BY <1>1, WalletAssumption, FS_Subset, FS_CardinalityType
<1> QED BY <1>2 DEF K

\* The counter's arithmetic.
LEMMA WrapRange ==
    ASSUME NEW x \in Int
    PROVE  x % KeyWrap \in 0..(KeyWrap - 1) /\ (x \in 0..(KeyWrap - 1) => x % KeyWrap = x)
<1>1. KeyWrap \in Nat \ {0}
    BY WalletAssumption
<1> QED BY <1>1, SMT

LEMMA WrapUnique ==
    ASSUME NEW a \in Int, NEW b \in Int, NEW x \in 0..(KeyWrap - 1), NEW y \in 0..(KeyWrap - 1),
           KeyWrap * a + x = KeyWrap * b + y
    PROVE  x = y
<1>1. KeyWrap \in Nat \ {0}
    BY WalletAssumption
<1>2. ASSUME NEW W \in Nat \ {0}, NEW c \in Int, NEW d \in Int,
             NEW v \in 0..(W - 1), NEW w \in 0..(W - 1), W * c + v = W * d + w, c > d
      PROVE  FALSE
  <2>1. c - d - 1 \in Nat /\ c = d + 1 + (c - d - 1)
      BY <1>2
  <2>2. PICK n \in Nat : c = d + 1 + n
      BY <2>1
  <2>3. W * c = W * d + W + W * n /\ W * n >= 0
      BY <2>2, SMT
  <2> QED BY <1>2, <2>3, SMT
<1>3. ~(a > b) /\ ~(b > a)
    BY <1>1, <1>2
<1>4. a = b
    BY <1>3
<1> QED BY <1>1, <1>4, SMT

\* Whole turns of the counter are not seen.
LEMMA WrapTurns ==
    ASSUME NEW x \in Int, NEW q \in Int
    PROVE  (x + KeyWrap * q) % KeyWrap = x % KeyWrap
<1> DEFINE y == x + KeyWrap * q
           W == KeyWrap
<1>1. W \in Nat \ {0} /\ y \in Int
    BY WalletAssumption
<1>2. ASSUME NEW z \in Int
      PROVE  z \div W \in Int /\ z = W * (z \div W) + (z % W)
    BY <1>1, SMT
<1>3. x % W \in 0..(W - 1) /\ y % W \in 0..(W - 1)
    BY <1>1, WrapRange
<1>4. W * ((x \div W) + q) + (x % W) = W * (y \div W) + (y % W)
  <2>1. /\ x \div W \in Int /\ x = W * (x \div W) + (x % W)
        /\ y \div W \in Int /\ y = W * (y \div W) + (y % W)
      BY <1>1, <1>2
  <2> QED BY <1>1, <1>3, <2>1, SMT
<1>5. (x \div W) + q \in Int /\ y \div W \in Int
    BY <1>1, <1>2
<1> HIDE DEF y
<1>6. y % W = x % W
    BY <1>3, <1>4, <1>5, WrapUnique
<1> QED BY <1>6 DEF y

\* Counting on from a wrapped count is counting on.
LEMMA WrapAdd ==
    ASSUME NEW x \in Int, NEW d \in Int
    PROVE  ((x % KeyWrap) + d) % KeyWrap = (x + d) % KeyWrap
<1> DEFINE y == (x % KeyWrap) + d
           q == x \div KeyWrap
<1>1. KeyWrap \in Nat \ {0}
    BY WalletAssumption
<1>2. q \in Int /\ x = KeyWrap * q + (x % KeyWrap) /\ x % KeyWrap \in Int
    BY <1>1, WrapRange, SMT
<1>3. y \in Int
    BY <1>2
<1> HIDE DEF q
<1>4. x + d = y + KeyWrap * q
  <2>1. ASSUME NEW t \in Int, NEW w \in Int, x = t + w
        PROVE  x + d = (w + d) + t
      BY <2>1
  <2>2. KeyWrap * q \in Int
      BY <1>1, <1>2
  <2> QED BY <1>2, <2>1, <2>2
<1> HIDE DEF y
<1>5. (y + KeyWrap * q) % KeyWrap = y % KeyWrap
    BY <1>2, <1>3, WrapTurns
<1> QED BY <1>4, <1>5 DEF y

\* Who is not counted as keyless has a key; the contrary may fail.
LEMMA CountedHasKey ==
    ASSUME NEW S, NEW e, Cardinality(KeysIn(S, e)) % KeyWrap # 0
    PROVE  KeysIn(S, e) # {}
<1>1. 0 % KeyWrap = 0
  <2>1. 0 \in 0..(KeyWrap - 1)
      BY WalletAssumption
  <2> QED BY <2>1, WrapRange
<1> QED BY <1>1, FS_EmptySet

LEMMA CanVoteIfCounted ==
    ASSUME KeysCounted, NEW e \in Entities, keyCount[e] # 0
    PROVE  CanVote(e)
BY CountedHasKey DEF KeysCounted, CanVote, KeysOf

-----------------------------------------------------------------------------
(* The steps of the policy.                                                 *)

PolicyPart == PolicyTypes /\ BitsAgree /\ VetoCanBeGiven /\ PolicyInv

\* What BitsAgree says of bits, and of keys.
LEMMA BitsSplit == BitsAgree <=> Paired /\ KeysCounted
BY DEF BitsAgree, Paired, KeysCounted

LEMMA SamePolicy ==
    ASSUME PolicyPart, UNCHANGED policyVars
    PROVE  PolicyPart'
BY DEF PolicyPart, PolicyTypes, EntityTypes, BitsAgree, VetoCanBeGiven, PolicyInv, policyVars,
       entityVars, vetoVars, keyVars, CanVote, KeysOf, KeysIn

\* One name is a list of its own.
LEMMA OneName ==
    ASSUME NEW e \in Entities
    PROVE  <<e>> \in Seq(Entities) /\ Once(<<e>>) /\ Names(<<e>>) = {e} /\ Len(<<e>>) = 1
<1>1. <<e>> \in Seq(Entities) /\ Len(<<e>>) = 1 /\ <<e>>[1] = e
    OBVIOUS
<1>2. \A i : i \in 1..1 <=> i = 1
    OBVIOUS
<1> QED BY <1>1, <1>2 DEF Once, Names

LEMMA AddEntityKeeps ==
    ASSUME PolicyPart, NEW e \in Entities, AddEntity(e)
    PROVE  PolicyPart'
<1>1. /\ Register(<<e>>) /\ advanced' = advanced /\ threshold' = threshold
      /\ vetoBitmap' = vetoBitmap /\ vetoCount' = vetoCount /\ keys' = keys /\ keyCount' = keyCount
      /\ advanced
    BY DEF AddEntity, vetoVars, keyVars
<1>2. /\ EntityTypes' /\ Paired' /\ entities' = entities \cup {e} /\ entityCount' = entityCount + 1
      /\ \A b \in 0..(entityCount - 1) : entityAtBit'[b] = entityAtBit[b]
    BY <1>1, OneName, RegisterPairs, BitsSplit DEF PolicyPart, PolicyTypes
<1>3. PolicyTypes'
    BY <1>1, <1>2 DEF PolicyPart, PolicyTypes, Paired
<1>4. KeysCounted'
    BY <1>1, <1>2, BitsSplit DEF PolicyPart, KeysCounted, KeysOf, KeysIn
<1>5. VetoCanBeGiven'
  <2>1. \A b \in vetoBitmap : b \in 0..(entityCount - 1) /\ b < entityCount + 1
      BY DEF PolicyPart, PolicyTypes, EntityTypes, VetoCanBeGiven
  <2>2. \A f : CanVote(f)' <=> CanVote(f)
      BY <1>1 DEF CanVote, KeysOf, KeysIn
  <2>3. \A b \in vetoBitmap : entityAtBit'[b] = entityAtBit[b] /\ CanVote(entityAtBit[b])
      BY <2>1, <1>2 DEF PolicyPart, VetoCanBeGiven
  <2>4. vetoCount' = Cardinality(vetoBitmap')
      BY <1>1 DEF PolicyPart, VetoCanBeGiven
  <2> QED BY <2>1, <2>2, <2>3, <2>4, <1>1, <1>2 DEF VetoCanBeGiven
<1>6. PolicyInv'
    BY <1>1, <1>2 DEF PolicyPart, PolicyTypes, EntityTypes, PolicyInv
<1> QED BY <1>2, <1>3, <1>4, <1>5, <1>6
       DEF PolicyPart, BitsAgree, Paired, KeysCounted

LEMMA EnableAdvancedKeeps ==
    ASSUME PolicyPart, OwnersAgree, owners \subseteq Keys, ownerIds \in Seq(Keys),
           NEW e \in Entities, EnableAdvanced(e)
    PROVE  PolicyPart'
<1>1. /\ Register(<<e>>) /\ ~advanced /\ advanced' = TRUE /\ threshold' = 1
      /\ vetoBitmap' = vetoBitmap /\ vetoCount' = vetoCount
      /\ keys' = keys \cup {<<e, k>> : k \in owners}
      /\ keyCount' = [keyCount EXCEPT ![e] = (@ + Len(ownerIds)) % KeyWrap]
    BY DEF EnableAdvanced, vetoVars
<1>2. /\ EntityTypes' /\ Paired' /\ entities' = entities \cup {e} /\ entityCount' = entityCount + 1
    BY <1>1, OneName, RegisterPairs, BitsSplit DEF PolicyPart, PolicyTypes
<1>3. entities = {} /\ vetoBitmap = {} /\ keys = {}
    BY <1>1 DEF PolicyPart, PolicyInv
<1>4. KeysIn(keys', e) = owners /\ \A f \in Entities : f # e => KeysIn(keys', f) = {}
    BY <1>1, <1>3 DEF KeysIn
<1>5. KeysOf(e) = {} /\ \A f \in Entities : KeysOf(f) = {}
    BY <1>3 DEF KeysOf, KeysIn
<1>6. Cardinality(owners) = Len(ownerIds)
    BY ListSize DEF OwnersAgree, Names, Once
<1>7. 0 % KeyWrap = 0 /\ \A f \in Entities : keyCount[f] = 0
  <2>1. \A f \in Entities : keyCount[f] = Cardinality(KeysOf(f)) % KeyWrap
      BY BitsSplit DEF PolicyPart, KeysCounted
  <2>2. 0 \in 0..(KeyWrap - 1)
      BY WalletAssumption
  <2>3. 0 % KeyWrap = 0
      BY <2>2, WrapRange
  <2>4. \A f \in Entities : Cardinality(KeysOf(f)) = 0
      BY <1>5, FS_EmptySet
  <2> QED BY <2>1, <2>3, <2>4
<1>8. /\ keyCount' \in [Entities -> 0..(KeyWrap - 1)]
      /\ \A f \in Entities : keyCount'[f] = Cardinality(KeysIn(keys', f)) % KeyWrap
  <2>1. keyCount'[e] = Len(ownerIds) % KeyWrap
      BY <1>1, <1>7 DEF PolicyPart, PolicyTypes
  <2>2. keyCount'[e] = Cardinality(KeysIn(keys', e)) % KeyWrap
      BY <2>1, <1>4, <1>6
  <2>3. \A f \in Entities : f # e => keyCount'[f] = Cardinality(KeysIn(keys', f)) % KeyWrap
      BY <1>1, <1>4, <1>7, FS_EmptySet DEF PolicyPart, PolicyTypes
  <2>4. \A f \in Entities : keyCount'[f] \in 0..(KeyWrap - 1)
      BY <2>2, <2>3, KeysFinite, WrapRange
  <2> QED BY <2>2, <2>3, <2>4, <1>1 DEF PolicyPart, PolicyTypes
<1>9. KeysCounted'
    BY <1>8 DEF KeysCounted, KeysOf, KeysIn
<1>10. PolicyTypes'
    BY <1>1, <1>2, <1>3, <1>8 DEF PolicyPart, PolicyTypes, Paired
<1>11. VetoCanBeGiven' /\ PolicyInv'
    BY <1>1, <1>2, <1>3 DEF PolicyPart, PolicyTypes, EntityTypes, VetoCanBeGiven, PolicyInv
<1> QED BY <1>2, <1>9, <1>10, <1>11
       DEF PolicyPart, BitsAgree, Paired, KeysCounted

\* What an entity leaves behind looks like no key.
LEMMA RemovedCount ==
    ASSUME BitsAgree, NEW e \in Entities, NEW gone, RemoveEntity(e, gone)
    PROVE  Cardinality(KeysIn(keys', e)) % KeyWrap = 0
<1> DEFINE K == KeysOf(e)
           n == Cardinality(K)
           g == Cardinality(gone)
<1>1. gone \in SUBSET K /\ g % KeyWrap = n % KeyWrap /\ KeysIn(keys', e) = K \ gone
    BY BitsSplit DEF RemoveEntity, KeysCounted, KeysOf, KeysIn
<1>2. IsFiniteSet(K) /\ n \in Nat
    BY KeysFinite DEF KeysOf
<1> HIDE DEF K
<1>3. IsFiniteSet(gone) /\ g \in Nat
    BY <1>1, <1>2, FS_Subset, FS_CardinalityType
<1>4. Cardinality(K \ gone) = n - g
  <2>1. Cardinality(K \ gone) = n - Cardinality(K \cap gone)
      BY <1>2, FS_Difference
  <2>2. K \cap gone = gone
      BY <1>1
  <2> QED BY <2>1, <2>2
<1> HIDE DEF n, g
<1>5. (n - g) % KeyWrap = 0
  <2>1. n - g = n + (-g) /\ -g \in Int /\ n \in Int /\ g \in Int /\ g + (-g) = 0
      BY <1>2, <1>3
  <2>2. (n - g) % KeyWrap = ((n % KeyWrap) + (-g)) % KeyWrap
      BY <2>1, WrapAdd
  <2>3. ((g % KeyWrap) + (-g)) % KeyWrap = 0 % KeyWrap
      BY <2>1, WrapAdd
  <2>4. 0 \in 0..(KeyWrap - 1)
      BY WalletAssumption
  <2> QED BY <1>1, <2>2, <2>3, <2>4, WrapRange
<1> QED BY <1>1, <1>4, <1>5

\* The veto bits are few, and each is an entity's.
LEMMA VetoBits ==
    ASSUME PolicyPart
    PROVE  /\ IsFiniteSet(vetoBitmap) /\ vetoBitmap \subseteq 0..(entityCount - 1)
           /\ \A b \in vetoBitmap : CanVote(entityAtBit[b])
<1>1. vetoBitmap \in SUBSET (0..(entityCount - 1)) /\ entityCount \in Nat
    BY DEF PolicyPart, PolicyTypes, EntityTypes, VetoCanBeGiven
<1>2. IsFiniteSet(0..(entityCount - 1))
    BY <1>1, FS_Interval
<1> QED BY <1>1, <1>2, FS_Subset DEF PolicyPart, VetoCanBeGiven

LEMMA RemoveEntityKeeps ==
    ASSUME PolicyPart, NEW e \in Entities, NEW gone, RemoveEntity(e, gone)
    PROVE  PolicyPart'
<1> DEFINE bit == entityBit[e]
           last == entityCount - 1
           vetoes == vetoBitmap \ {bit}
<1>1. /\ e \in entities /\ entityCount > threshold /\ entityCount' = last
      /\ keys' = keys \ ({e} \X gone) /\ keyCount' = [keyCount EXCEPT ![e] = 0]
      /\ vetoBitmap' = IF bit = last THEN vetoes ELSE MoveBit(vetoes, last, bit)
      /\ vetoCount' = IF bit \in vetoBitmap THEN vetoCount - 1 ELSE vetoCount
      /\ entities' = entities \ {e} /\ advanced /\ advanced' = advanced /\ threshold' = threshold
    BY DEF RemoveEntity, EnoughLeft
<1>2. /\ EntityTypes' /\ Paired'
      /\ \A b \in 0..(last - 1) :
            entityAtBit'[b] = IF b = bit THEN entityAtBit[last] ELSE entityAtBit[b]
    BY <1>1, RemovePairs, BitsSplit DEF PolicyPart, PolicyTypes
<1>3. /\ entityCount \in Nat /\ last \in Nat /\ bit \in 0..last /\ entityAtBit[bit] = e
      /\ \A b \in 0..last : entityBit[entityAtBit[b]] = b
    BY <1>1, BitsSplit DEF PolicyPart, PolicyTypes, EntityTypes, Paired
<1>4. vetoBitmap \subseteq 0..last /\ IsFiniteSet(vetoBitmap) /\ vetoCount = Cardinality(vetoBitmap)
      /\ \A b \in vetoBitmap : CanVote(entityAtBit[b])
    BY VetoBits DEF PolicyPart, VetoCanBeGiven
<1> HIDE DEF bit, last
<1>5. \A f : f # e => KeysIn(keys', f) = KeysOf(f) /\ (KeysIn(keys', f) # {} <=> CanVote(f))
    BY <1>1 DEF KeysOf, KeysIn, CanVote
<1>6. Cardinality(KeysIn(keys', e)) % KeyWrap = 0
    BY RemovedCount DEF PolicyPart
<1>7. vetoes = vetoBitmap \ {bit} /\ IsFiniteSet(vetoes) /\ Cardinality(vetoes) = vetoCount'
    BY <1>1, <1>4, FS_RemoveElement
<1> HIDE DEF vetoes
<1>8. vetoBitmap' = IF last \in vetoes THEN (vetoes \ {last}) \cup {bit} ELSE vetoes
    BY <1>1, <1>7 DEF MoveBit
<1>9. Cardinality(vetoBitmap') = vetoCount' /\ vetoCount' \in Nat
  <2>1. CASE last \in vetoes
    <3>1. bit \notin vetoes \ {last}
        BY <1>7
    <3>2. IsFiniteSet(vetoes \ {last}) /\ Cardinality(vetoes \ {last}) = Cardinality(vetoes) - 1
        BY <2>1, <1>7, FS_RemoveElement
    <3>3. Cardinality(vetoBitmap') = Cardinality(vetoes \ {last}) + 1
        BY <2>1, <3>1, <3>2, <1>8, FS_AddElement
    <3>4. Cardinality(vetoes) \in Nat
        BY <1>7, FS_CardinalityType
    <3> QED BY <3>2, <3>3, <3>4, <1>7
  <2>2. CASE last \notin vetoes
      BY <2>2, <1>7, <1>8, FS_CardinalityType
  <2> QED BY <2>1, <2>2
<1>10. \A b \in vetoBitmap' : b < last /\ b \in Nat /\ KeysIn(keys', entityAtBit'[b]) # {}
  <2>1. SUFFICES ASSUME NEW b \in vetoBitmap' PROVE b < last /\ b \in Nat /\ KeysIn(keys', entityAtBit'[b]) # {}
      OBVIOUS
  <2>2. CASE b = bit
    <3>1. last \in vetoBitmap /\ last # bit
        BY <2>2, <1>7, <1>8
    <3>2. b \in 0..(last - 1) /\ b < last
        BY <2>2, <3>1, <1>3, <1>4
    <3>3. entityAtBit'[b] = entityAtBit[last] /\ CanVote(entityAtBit[last])
        BY <2>2, <3>1, <3>2, <1>2, <1>4
    <3>4. entityAtBit[last] # e
        BY <3>1, <1>3, <1>4
    <3> QED BY <3>2, <3>3, <3>4, <1>5
  <2>3. CASE b # bit
    <3>1. b \in vetoBitmap /\ b # last
        BY <2>1, <2>3, <1>7, <1>8
    <3>2. b \in 0..(last - 1) /\ b < last
        BY <3>1, <1>3, <1>4
    <3>3. entityAtBit'[b] = entityAtBit[b] /\ CanVote(entityAtBit[b])
        BY <2>3, <3>1, <3>2, <1>2, <1>4
    <3>4. entityAtBit[b] # e
        BY <2>3, <3>1, <1>3, <1>4
    <3> QED BY <3>2, <3>3, <3>4, <1>5
  <2> QED BY <2>2, <2>3
<1>11. VetoCanBeGiven'
    BY <1>1, <1>9, <1>10 DEF VetoCanBeGiven, CanVote, KeysOf, KeysIn
<1>12. KeysCounted' /\ keyCount' \in [Entities -> 0..(KeyWrap - 1)]
  <2>1. \A f \in Entities : keyCount'[f] = Cardinality(KeysIn(keys', f)) % KeyWrap
    <3>1. \A f \in Entities : f # e => keyCount'[f] = Cardinality(KeysIn(keys', f)) % KeyWrap
        BY <1>1, <1>5, BitsSplit DEF PolicyPart, PolicyTypes, KeysCounted
    <3>2. keyCount'[e] = Cardinality(KeysIn(keys', e)) % KeyWrap
        BY <1>1, <1>6 DEF PolicyPart, PolicyTypes
    <3> QED BY <3>1, <3>2
  <2>2. keyCount' \in [Entities -> 0..(KeyWrap - 1)]
    <3>1. \A f \in Entities : keyCount'[f] \in 0..(KeyWrap - 1)
        BY <2>1, KeysFinite, WrapRange
    <3> QED BY <3>1, <1>1 DEF PolicyPart, PolicyTypes
  <2> QED BY <2>1, <2>2 DEF KeysCounted, KeysOf
<1>13. PolicyTypes'
  <2>1. vetoBitmap' \subseteq Nat
      BY <1>10
  <2>2. entityBitmap' \subseteq Nat
      BY <1>2 DEF Paired, EntityTypes
  <2>3. keys' \subseteq Entities \X Keys
      BY <1>1 DEF PolicyPart, PolicyTypes
  <2> QED BY <2>1, <2>2, <2>3, <1>1, <1>2, <1>9, <1>12 DEF PolicyPart, PolicyTypes
<1>14. PolicyInv'
    BY <1>1, <1>3 DEF PolicyPart, PolicyInv, last
<1> QED BY <1>2, <1>11, <1>12, <1>13, <1>14
       DEF PolicyPart, BitsAgree, Paired, KeysCounted

\* What addKey and removeKey have in common: the keys of one entity change.
LEMMA KeyStepKeeps ==
    ASSUME PolicyPart, UNCHANGED <<advanced, threshold, entityVars, vetoVars>>,
           keys' \subseteq Entities \X Keys, advanced, NEW e \in Entities, \A f : f # e => KeysIn(keys', f) = KeysOf(f),
           KeysIn(keys', e) # {},
           NEW n, keyCount' = [keyCount EXCEPT ![e] = n],
           n = Cardinality(KeysIn(keys', e)) % KeyWrap
    PROVE  PolicyPart'
<1>1. \A f \in Entities : keyCount'[f] = Cardinality(KeysIn(keys', f)) % KeyWrap
  <2>1. \A f \in Entities : f # e => keyCount'[f] = Cardinality(KeysIn(keys', f)) % KeyWrap
      BY BitsSplit DEF PolicyPart, PolicyTypes, KeysCounted
  <2>2. keyCount'[e] = Cardinality(KeysIn(keys', e)) % KeyWrap
      BY DEF PolicyPart, PolicyTypes
  <2> QED BY <2>1, <2>2
<1>2. keyCount' \in [Entities -> 0..(KeyWrap - 1)]
    BY <1>1, KeysFinite, WrapRange DEF PolicyPart, PolicyTypes
<1>3. \A f : CanVote(f) => CanVote(f)'
    BY DEF CanVote, KeysOf, KeysIn
<1>4. UNCHANGED <<entities, entityCount, entityBit, entityAtBit, entityBitmap, vetoBitmap, vetoCount>>
    BY DEF entityVars, vetoVars
<1>5. Paired' /\ KeysCounted'
    BY <1>1, <1>4, BitsSplit DEF PolicyPart, Paired, KeysCounted, KeysOf, KeysIn
<1>6. PolicyTypes' /\ PolicyInv'
    BY <1>2, <1>4 DEF PolicyPart, PolicyTypes, EntityTypes, PolicyInv
<1>7. VetoCanBeGiven'
    BY <1>3, <1>4 DEF PolicyPart, VetoCanBeGiven
<1> QED BY <1>5, <1>6, <1>7 DEF PolicyPart, BitsAgree, Paired, KeysCounted

LEMMA AddKeyKeeps ==
    ASSUME PolicyPart, NEW e \in Entities, NEW k \in Keys, AddKey(e, k)
    PROVE  PolicyPart'
<1>1. /\ e \in entities /\ k \notin KeysOf(e) /\ keys' = keys \cup {<<e, k>>}
      /\ keyCount' = [keyCount EXCEPT ![e] = (keyCount[e] + 1) % KeyWrap]
      /\ UNCHANGED <<advanced, threshold, entityVars, vetoVars>> /\ advanced
    BY DEF AddKey, KeysOf, KeysIn
<1>2. KeysIn(keys', e) = KeysOf(e) \cup {k} /\ \A f : f # e => KeysIn(keys', f) = KeysOf(f)
    BY <1>1 DEF KeysOf, KeysIn
<1>3. Cardinality(KeysIn(keys', e)) = Cardinality(KeysOf(e)) + 1
    BY <1>1, <1>2, KeysFinite, FS_AddElement DEF KeysOf
<1>4. Cardinality(KeysIn(keys', e)) % KeyWrap = (keyCount[e] + 1) % KeyWrap
  <2>1. keyCount[e] = Cardinality(KeysOf(e)) % KeyWrap /\ Cardinality(KeysOf(e)) \in Nat
      BY BitsSplit, KeysFinite DEF PolicyPart, KeysCounted, KeysOf
  <2> QED BY <2>1, <1>3, WrapAdd
<1>5. keys' \subseteq Entities \X Keys
    BY <1>1 DEF PolicyPart, PolicyTypes
<1> QED BY <1>1, <1>2, <1>4, <1>5, KeyStepKeeps

\* A count above one is a count of two keys at least.
LEMMA CountedTwice ==
    ASSUME KeysCounted, NEW e \in Entities, keyCount[e] > 1
    PROVE  Cardinality(KeysOf(e)) \in Nat /\ Cardinality(KeysOf(e)) > 1
<1>1. Cardinality(KeysOf(e)) \in Nat /\ keyCount[e] = Cardinality(KeysOf(e)) % KeyWrap
    BY KeysFinite DEF KeysCounted, KeysOf
<1>2. ASSUME Cardinality(KeysOf(e)) \in 0..1
      PROVE  FALSE
  <2>1. Cardinality(KeysOf(e)) % KeyWrap \in 0..(KeyWrap - 1)
      BY <1>1, WrapRange
  <2>2. Cardinality(KeysOf(e)) \in 0..(KeyWrap - 1)
      BY <1>1, <1>2, <2>1, WalletAssumption
  <2>3. keyCount[e] = Cardinality(KeysOf(e))
      BY <1>1, <2>2, WrapRange
  <2> QED BY <1>2, <2>3
<1> QED BY <1>1, <1>2

LEMMA RemoveKeyKeeps ==
    ASSUME PolicyPart, NEW e \in Entities, NEW k \in Keys, RemoveKey(e, k)
    PROVE  PolicyPart'
<1>1. /\ k \in KeysOf(e) /\ keyCount[e] > 1 /\ keys' = keys \ {<<e, k>>}
      /\ keyCount' = [keyCount EXCEPT ![e] = (keyCount[e] + KeyWrap - 1) % KeyWrap]
      /\ UNCHANGED <<advanced, threshold, entityVars, vetoVars>> /\ advanced
    BY DEF RemoveKey, KeysOf, KeysIn
<1>2. KeysIn(keys', e) = KeysOf(e) \ {k} /\ \A f : f # e => KeysIn(keys', f) = KeysOf(f)
    BY <1>1 DEF KeysOf, KeysIn
<1> DEFINE n == Cardinality(KeysOf(e))
<1>3. Cardinality(KeysIn(keys', e)) = n - 1 /\ n \in Nat /\ n > 1 /\ keyCount[e] = n % KeyWrap
  <2>1. keyCount[e] = n % KeyWrap /\ n \in Nat /\ n > 1
      BY <1>1, CountedTwice, BitsSplit DEF PolicyPart, KeysCounted
  <2>2. IsFiniteSet(KeysOf(e))
      BY KeysFinite DEF KeysOf
  <2>3. Cardinality(KeysOf(e) \ {k}) = n - 1
      BY <2>2, <1>1, FS_RemoveElement
  <2> QED BY <2>1, <2>3, <1>2
<1> HIDE DEF n
<1>4. Cardinality(KeysIn(keys', e)) % KeyWrap = (keyCount[e] + KeyWrap - 1) % KeyWrap
  <2>1. /\ KeyWrap - 1 \in Int /\ n - 1 \in Int /\ n \in Int /\ 1 \in Int /\ KeyWrap \in Nat
        /\ n + (KeyWrap - 1) = (n - 1) + KeyWrap * 1
      BY <1>3, WalletAssumption
  <2>2. ((n % KeyWrap) + (KeyWrap - 1)) % KeyWrap = (n + (KeyWrap - 1)) % KeyWrap
      BY <2>1, WrapAdd, Zenon
  <2>3. ((n - 1) + KeyWrap * 1) % KeyWrap = (n - 1) % KeyWrap
      BY <2>1, WrapTurns, Zenon
  <2>4. keyCount[e] + KeyWrap - 1 = (n % KeyWrap) + (KeyWrap - 1)
    <3>1. n % KeyWrap \in Int
        BY <1>3, WrapRange
    <3> QED BY <2>1, <3>1, <1>3
  <2> QED BY <2>1, <2>2, <2>3, <2>4, <1>3
<1>5. KeysIn(keys', e) # {}
  <2>1. Cardinality(KeysIn(keys', e)) # 0
      BY <1>3
  <2> QED BY <2>1, FS_EmptySet
<1>6. keys' \subseteq Entities \X Keys
    BY <1>1 DEF PolicyPart, PolicyTypes
<1> QED BY <1>1, <1>2, <1>4, <1>5, <1>6, KeyStepKeeps

LEMMA SetThresholdKeeps ==
    ASSUME PolicyPart, NEW m, SetThreshold(m)
    PROVE  PolicyPart'
<1>1. /\ m \in 1..entityCount /\ threshold' = m
      /\ UNCHANGED <<advanced, entities, entityCount, entityBit, entityAtBit, entityBitmap,
                     vetoBitmap, vetoCount, keys, keyCount>>
    BY DEF SetThreshold, entityVars, vetoVars, keyVars
<1>2. BitsAgree' /\ VetoCanBeGiven'
    BY <1>1 DEF PolicyPart, BitsAgree, VetoCanBeGiven, CanVote, KeysOf, KeysIn
<1>3. PolicyTypes' /\ PolicyInv'
    BY <1>1 DEF PolicyPart, PolicyTypes, EntityTypes, PolicyInv, SetThreshold
<1> QED BY <1>2, <1>3 DEF PolicyPart

LEMMA SetVetoKeeps ==
    ASSUME PolicyPart, NEW e \in Entities, NEW isVeto \in BOOLEAN, SetVeto(e, isVeto)
    PROVE  PolicyPart'
<1> DEFINE bit == entityBit[e]
<1>1. /\ e \in entities /\ CanVote(e) /\ advanced
      /\ isVeto # (bit \in vetoBitmap)
      /\ vetoBitmap' = IF isVeto THEN vetoBitmap \cup {bit} ELSE vetoBitmap \ {bit}
      /\ vetoCount' = IF isVeto THEN vetoCount + 1 ELSE vetoCount - 1
      /\ UNCHANGED <<advanced, threshold, entities, entityCount, entityBit, entityAtBit,
                     entityBitmap, keys, keyCount>>
    BY BitsSplit, CanVoteIfCounted DEF SetVeto, entityVars, keyVars, PolicyPart
<1>2. bit \in Nat /\ bit < entityCount /\ entityAtBit[bit] = e
    BY <1>1, BitsSplit DEF PolicyPart, PolicyTypes, EntityTypes, Paired
<1> HIDE DEF bit
<1>3. vetoCount' = Cardinality(vetoBitmap') /\ vetoCount' \in Nat
  <2>1. vetoCount = Cardinality(vetoBitmap) /\ IsFiniteSet(vetoBitmap) /\ vetoCount \in Nat
      BY VetoBits DEF PolicyPart, PolicyTypes, VetoCanBeGiven
  <2>2. CASE isVeto
    <3>1. vetoBitmap' = vetoBitmap \cup {bit} /\ bit \notin vetoBitmap /\ vetoCount' = vetoCount + 1
        BY <2>2, <1>1
    <3>2. Cardinality(vetoBitmap \cup {bit}) = Cardinality(vetoBitmap) + 1
        BY <3>1, <2>1, FS_AddElement
    <3> QED BY <3>1, <3>2, <2>1
  <2>3. CASE ~isVeto
    <3>1. /\ IsFiniteSet(vetoBitmap') /\ bit \in vetoBitmap
          /\ vetoCount' = Cardinality(vetoBitmap')
        BY <2>1, <2>3, <1>1, FS_RemoveElement
    <3> QED BY <3>1, FS_CardinalityType
  <2> QED BY <2>2, <2>3
<1>4. \A b \in vetoBitmap' : b \in vetoBitmap \/ b = bit
    BY <1>1
<1>5. VetoCanBeGiven'
    BY <1>1, <1>2, <1>3, <1>4 DEF PolicyPart, VetoCanBeGiven, CanVote, KeysOf, KeysIn
<1>6. BitsAgree' /\ PolicyInv'
    BY <1>1 DEF PolicyPart, BitsAgree, PolicyInv, KeysOf, KeysIn
<1>7. PolicyTypes'
    BY <1>1, <1>2, <1>3, <1>4 DEF PolicyPart, PolicyTypes, EntityTypes
<1> QED BY <1>5, <1>6, <1>7 DEF PolicyPart

\* Exchanging a part R of K for A.
LEMMA ExchangeSize ==
    ASSUME NEW K, IsFiniteSet(K), NEW R \in SUBSET K, NEW A, IsFiniteSet(A), A \cap (K \ R) = {}
    PROVE  Cardinality((K \ R) \cup A) = Cardinality(K) - Cardinality(R) + Cardinality(A)
<1> DEFINE L == K \ R
<1>1. L \in SUBSET K /\ L \cup R = K /\ L \cap R = {} /\ L \cap A = {}
    OBVIOUS
<1> HIDE DEF L
<1>2. IsFiniteSet(L) /\ IsFiniteSet(R)
    BY <1>1, FS_Subset
<1>3. /\ Cardinality(L) \in Nat /\ Cardinality(R) \in Nat /\ Cardinality(A) \in Nat
      /\ Cardinality({}) = 0
    BY <1>2, FS_CardinalityType, FS_EmptySet
<1>4. Cardinality(L \cup R) = Cardinality(L) + Cardinality(R) - Cardinality(L \cap R)
    BY <1>2, FS_Union
<1>5. Cardinality(L \cup A) = Cardinality(L) + Cardinality(A) - Cardinality(L \cap A)
    BY <1>2, FS_Union
<1>6. Cardinality(K) = Cardinality(L) + Cardinality(R)
  <2>1. Cardinality(K) = Cardinality(L) + Cardinality(R) - Cardinality({})
      BY <1>1, <1>4
  <2> QED BY <2>1, <1>3
<1>7. Cardinality(L \cup A) = Cardinality(L) + Cardinality(A)
  <2>1. Cardinality(L \cup A) = Cardinality(L) + Cardinality(A) - Cardinality({})
      BY <1>1, <1>5
  <2> QED BY <2>1, <1>3
<1>8. Cardinality(L \cup A) = Cardinality(K) - Cardinality(R) + Cardinality(A)
    BY <1>3, <1>6, <1>7
<1> QED BY <1>8 DEF L

LEMMA ConfigureKeeps ==
    ASSUME PolicyPart, NEW names \in Seq(Entities), Once(names), NEW remove \in SUBSET keys,
           NEW add \in SUBSET ((Entities \X Keys) \ (keys \ remove)),
           ConfigureMultisig(remove, names, add)
    PROVE  PolicyPart'
<1>1. /\ Register(names) /\ \A p \in add : p[1] \in entities'
      /\ keys' = (keys \ remove) \cup add /\ threshold' \in 1..entityCount'
      /\ advanced /\ advanced' = advanced
    BY DEF ConfigureMultisig
<1>2. keyCount' = [e \in Entities |-> (keyCount[e] - Cardinality(KeysIn(remove, e))
                                           + Cardinality(KeysIn(add, e))) % KeyWrap]
    BY DEF ConfigureMultisig
<1>3. EntityTypes' /\ Paired' /\ entities \subseteq entities'
    BY <1>1, RegisterPairs, BitsSplit DEF PolicyPart, PolicyTypes
<1>4. \A e \in Entities : keyCount'[e] = Cardinality(KeysIn(keys', e)) % KeyWrap
  <2>1. TAKE e \in Entities
  <2> DEFINE n == Cardinality(KeysOf(e))
             less == Cardinality(KeysIn(remove, e))
             more == Cardinality(KeysIn(add, e))
  <2>2. /\ KeysIn(keys', e) = (KeysOf(e) \ KeysIn(remove, e)) \cup KeysIn(add, e)
        /\ KeysIn(remove, e) \in SUBSET KeysOf(e)
        /\ KeysIn(add, e) \cap (KeysOf(e) \ KeysIn(remove, e)) = {}
      BY <1>1 DEF KeysOf, KeysIn
  <2>3. /\ IsFiniteSet(KeysOf(e)) /\ IsFiniteSet(KeysIn(add, e))
        /\ n \in Nat /\ less \in Nat /\ more \in Nat
      BY KeysFinite DEF KeysOf
  <2>4. Cardinality(KeysIn(keys', e)) = n - less + more
    <3> DEFINE K == KeysOf(e)
               R == KeysIn(remove, e)
               A == KeysIn(add, e)
    <3>1. /\ IsFiniteSet(K) /\ R \in SUBSET K /\ IsFiniteSet(A) /\ A \cap (K \ R) = {}
          /\ KeysIn(keys', e) = (K \ R) \cup A
          /\ n = Cardinality(K) /\ less = Cardinality(R) /\ more = Cardinality(A)
        BY <2>2, <2>3
    <3> HIDE DEF K, R, A, n, less, more
    <3>2. Cardinality((K \ R) \cup A) = Cardinality(K) - Cardinality(R) + Cardinality(A)
        BY <3>1, ExchangeSize
    <3> QED BY <3>1, <3>2
  <2>5. keyCount[e] = n % KeyWrap
      BY BitsSplit DEF PolicyPart, KeysCounted
  <2>6. keyCount'[e] = (keyCount[e] - less + more) % KeyWrap
      BY <1>2
  <2> HIDE DEF n, less, more
  <2>7. /\ n - less + more = n + (more - less) /\ more - less \in Int
        /\ (n % KeyWrap) - less + more = (n % KeyWrap) + (more - less)
    <3>1. n % KeyWrap \in Int
        BY <2>3, WrapRange
    <3> QED BY <2>3, <3>1
  <2>8. ((n % KeyWrap) + (more - less)) % KeyWrap = (n + (more - less)) % KeyWrap
      BY <2>3, <2>7, WrapAdd
  <2> QED BY <2>4, <2>5, <2>6, <2>7, <2>8
<1>5. keyCount' \in [Entities -> 0..(KeyWrap - 1)]
  <2>1. \A e \in Entities : keyCount'[e] \in 0..(KeyWrap - 1)
      BY <1>4, KeysFinite, WrapRange
  <2> QED BY <2>1, <1>2
<1>6. KeysCounted'
    BY <1>4 DEF KeysCounted, KeysOf
<1>7. PICK veto \in SUBSET entities' :
          vetoBitmap' = {entityBit'[e] : e \in veto} /\ vetoCount' = Cardinality(veto)
    BY DEF ConfigureMultisig
<1>8. \A e \in entities' : /\ KeysIn(keys', e) # {} /\ entityBit'[e] \in Nat
                           /\ entityBit'[e] < entityCount' /\ entityAtBit'[entityBit'[e]] = e
  <2>1. SUFFICES ASSUME NEW e \in entities'
                 PROVE  /\ KeysIn(keys', e) # {} /\ entityBit'[e] \in Nat
                        /\ entityBit'[e] < entityCount' /\ entityAtBit'[entityBit'[e]] = e
      OBVIOUS
  <2>2. e \in Entities /\ entityBit'[e] \in Nat
      BY <1>3 DEF EntityTypes
  <2>3. keyCount'[e] # 0
      BY DEF ConfigureMultisig
  <2>4. KeysIn(keys', e) # {}
      BY <2>2, <2>3, <1>4, CountedHasKey
  <2> QED BY <2>2, <2>4, <1>3 DEF Paired
<1>9. vetoCount' = Cardinality(vetoBitmap') /\ vetoCount' \in Nat
  <2> DEFINE f == [e \in veto |-> entityBit'[e]]
  <2>1. IsFiniteSet(veto)
    <3>1. IsFiniteSet(Entities) /\ veto \in SUBSET Entities
        BY WalletAssumption, <1>3 DEF EntityTypes
    <3> QED BY <3>1, FS_Subset
  <2>2. f \in [veto -> vetoBitmap'] /\ \A t \in vetoBitmap' : \E e \in veto : f[e] = t
      BY <1>7
  <2>3. \A d, e \in veto : f[d] = f[e] => d = e
      BY <1>8
  <2> HIDE DEF f
  <2> QED BY <2>1, <2>2, <2>3, <1>7, SameSize, FS_CardinalityType
<1>10. \A b \in vetoBitmap' : b \in Nat /\ b < entityCount' /\ KeysIn(keys', entityAtBit'[b]) # {}
    BY <1>7, <1>8
<1>11. VetoCanBeGiven'
    BY <1>9, <1>10 DEF VetoCanBeGiven, CanVote, KeysOf, KeysIn
<1>12. PolicyTypes'
  <2>1. entityBitmap' \subseteq Nat /\ vetoBitmap' \subseteq Nat
      BY <1>3, <1>10 DEF Paired, EntityTypes
  <2>2. keys' \subseteq Entities \X Keys
      BY <1>1 DEF PolicyPart, PolicyTypes
  <2>3. threshold' \in Nat
      BY <1>1, <1>3 DEF EntityTypes
  <2> QED BY <2>1, <2>2, <2>3, <1>1, <1>3, <1>5, <1>9 DEF PolicyPart, PolicyTypes
<1>13. PolicyInv'
    BY <1>1 DEF PolicyInv
<1> QED BY <1>3, <1>6, <1>11, <1>12, <1>13 DEF PolicyPart, BitsAgree, Paired, KeysCounted

\* What a batch adds or removes is taken from the set it names.
LEMMA UpToWithin ==
    ASSUME NEW n, NEW S, NEW T \in UpTo(n, S)
    PROVE  T \subseteq S
<1>1. PICK m \in 0..n : \E s \in [1..m -> S] : T = {s[i] : i \in DOMAIN s}
    BY DEF UpTo
<1> QED BY <1>1

LEMMA ReconfigureKeeps ==
    ASSUME PolicyPart, Reconfigure
    PROVE  PolicyPart'
<1>1. PICK names \in Batches, remove \in SUBSET keys, add \in SUBSET (Entities \X Keys) :
           add \cap (keys \ remove) = {} /\ ConfigureMultisig(remove, names, add)
  <2>1. PICK names \in Batches : \E remove \in UpTo(MaxBatch - Len(names), keys) :
             \E add \in UpTo(MaxBatch - Len(names) - Cardinality(remove),
                             (Entities \X Keys) \ (keys \ remove)) :
                ConfigureMultisig(remove, names, add)
      BY DEF Reconfigure
  <2>2. PICK remove \in UpTo(MaxBatch - Len(names), keys) :
             \E add \in UpTo(MaxBatch - Len(names) - Cardinality(remove),
                             (Entities \X Keys) \ (keys \ remove)) :
                ConfigureMultisig(remove, names, add)
      BY <2>1
  <2>3. PICK add \in UpTo(MaxBatch - Len(names) - Cardinality(remove),
                          (Entities \X Keys) \ (keys \ remove)) :
             ConfigureMultisig(remove, names, add)
      BY <2>2
  <2>4. remove \subseteq keys /\ add \subseteq (Entities \X Keys) \ (keys \ remove)
      BY UpToWithin
  <2> QED BY <2>3, <2>4
<1>2. PICK n \in Nat : names \in [1..n -> Entities]
    BY WalletAssumption DEF Batches
<1>3. names \in Seq(Entities) /\ DOMAIN names = 1..Len(names)
    BY <1>2
<1>4. Once(names)
    BY <1>3 DEF Batches, Once
<1> QED BY <1>1, <1>3, <1>4, ConfigureKeeps

-----------------------------------------------------------------------------
(* The steps of the owners and of recovery.                                 *)

OwnerTypes ==
    /\ owners \subseteq Keys /\ ownerIds \in Seq(Keys)
    /\ recoverable \in BOOLEAN /\ paused \in BOOLEAN
    /\ pendingOwner \in [active : BOOLEAN, key : Keys \cup {NoKey}, executableAt : Nat]
    /\ now \in Nat /\ scheduledAt \in Nat

OwnerPart == OwnerTypes /\ OwnersAgree /\ PausedHasWayOut /\ PendingInv

WalletInv == OwnerPart /\ PolicyPart

LEMMA AddOwnerKeyKeeps ==
    ASSUME OwnerTypes, OwnersAgree, NEW k, AddOwnerKey(k)
    PROVE  OwnersAgree' /\ owners' \subseteq Keys /\ ownerIds' \in Seq(Keys)
<1>1. /\ k \in Keys /\ k \notin owners /\ owners' = owners \cup {k}
      /\ ownerIds' = Append(ownerIds, k)
    BY DEF AddOwnerKey
<1>2. ownerIds \in Seq(Keys) /\ Once(ownerIds) /\ owners = Names(ownerIds)
    BY DEF OwnerTypes, OwnersAgree, Once, Names
<1>3. ownerIds' \in Seq(Keys) /\ Names(ownerIds') = owners' /\ Once(ownerIds')
    BY <1>1, <1>2, AppendOwner
<1> QED BY <1>1, <1>3 DEF OwnerTypes, OwnersAgree, Once, Names

LEMMA AddOwnerKeeps ==
    ASSUME OwnerPart, NEW k \in Keys, AddOwner(k)
    PROVE  OwnerPart'
BY AddOwnerKeyKeeps DEF OwnerPart, AddOwner, OwnerTypes, PausedHasWayOut, PendingInv,
   recoveryVars, policyVars

LEMMA RemoveOwnerKeeps ==
    ASSUME OwnerPart, NEW k \in Keys, RemoveOwner(k)
    PROVE  OwnerPart'
<1>1. /\ k \in owners /\ Len(ownerIds) > 1 /\ owners' = owners \ {k}
      /\ ownerIds' = RemoveOwnerId(ownerIds, k)
      /\ UNCHANGED <<recoverable, paused, pendingOwner, scheduledAt, now, advanced>>
    BY DEF RemoveOwner, recoveryVars, policyVars
<1>2. ownerIds \in Seq(Keys) /\ Once(ownerIds) /\ owners = Names(ownerIds)
    BY DEF OwnerPart, OwnerTypes, OwnersAgree, Once, Names
<1>3. ownerIds' \in Seq(Keys) /\ Names(ownerIds') = owners' /\ Once(ownerIds')
    BY <1>1, <1>2, RemoveFromList
<1>4. owners' # {}
  <2>1. 1 \in 1..Len(ownerIds) /\ 2 \in 1..Len(ownerIds)
      BY <1>1, <1>2
  <2>2. ownerIds[1] \in owners /\ ownerIds[2] \in owners /\ ownerIds[1] # ownerIds[2]
      BY <2>1, <1>2 DEF Names, Once
  <2> QED BY <2>2, <1>1
<1>5. OwnersAgree'
    BY <1>3, <1>4 DEF OwnersAgree, Once, Names
<1> QED BY <1>1, <1>3, <1>5 DEF OwnerPart, OwnerTypes, PausedHasWayOut, PendingInv

LEMMA InitiateKeeps ==
    ASSUME OwnerPart, NEW k \in Keys, InitiateOwnerRecovery(k)
    PROVE  OwnerPart'
<1>1. /\ ~advanced /\ paused' = TRUE /\ scheduledAt' = now
      /\ pendingOwner' = [active |-> TRUE, key |-> k, executableAt |-> now + RecoveryTimelock]
      /\ UNCHANGED <<owners, ownerIds, recoverable, now, advanced>>
    BY DEF InitiateOwnerRecovery, ownerVars, policyVars
<1>2. OwnerTypes'
    BY <1>1, WalletAssumption DEF OwnerPart, OwnerTypes
<1> QED BY <1>1, <1>2 DEF OwnerPart, OwnersAgree, PausedHasWayOut, PendingInv

LEMMA ExecuteKeeps ==
    ASSUME OwnerPart, ExecutePendingOwner
    PROVE  OwnerPart'
<1>1. /\ ~advanced /\ AddOwnerKey(pendingOwner.key) /\ pendingOwner' = NoPendingOwner
      /\ paused' = FALSE /\ scheduledAt' = 0 /\ UNCHANGED <<recoverable, now, advanced>>
    BY DEF ExecutePendingOwner, policyVars
<1>2. OwnersAgree' /\ owners' \subseteq Keys /\ ownerIds' \in Seq(Keys)
    BY <1>1, AddOwnerKeyKeeps DEF OwnerPart
<1> QED BY <1>1, <1>2 DEF OwnerPart, OwnerTypes, PausedHasWayOut, PendingInv, NoPendingOwner

LEMMA CancelKeeps ==
    ASSUME OwnerPart, CancelPendingOwnerWithSignature
    PROVE  OwnerPart'
<1>1. /\ ~advanced /\ pendingOwner' = NoPendingOwner /\ paused' = FALSE /\ scheduledAt' = 0
      /\ UNCHANGED <<owners, ownerIds, recoverable, now, advanced>>
    BY DEF CancelPendingOwnerWithSignature, ownerVars, policyVars
<1> QED BY <1>1 DEF OwnerPart, OwnerTypes, OwnersAgree, PausedHasWayOut, PendingInv, NoPendingOwner

LEMMA TickKeeps ==
    ASSUME OwnerPart, Tick
    PROVE  OwnerPart'
BY DEF OwnerPart, OwnerTypes, OwnersAgree, PausedHasWayOut, PendingInv, Tick, ownerVars,
   recoveryVars, policyVars

LEMMA EnableKeepsOwners ==
    ASSUME OwnerPart, NEW e \in Entities, EnableAdvanced(e)
    PROVE  OwnerPart'
BY DEF OwnerPart, OwnerTypes, OwnersAgree, PausedHasWayOut, PendingInv, EnableAdvanced, ownerVars

LEMMA SameOwners ==
    ASSUME OwnerPart, UNCHANGED <<ownerVars, recoveryVars, now, advanced>>
    PROVE  OwnerPart'
BY DEF OwnerPart, OwnerTypes, OwnersAgree, PausedHasWayOut, PendingInv, ownerVars, recoveryVars

-----------------------------------------------------------------------------

LEMMA InitWallet == WalletInit => WalletInv
<1> SUFFICES ASSUME WalletInit PROVE WalletInv
    OBVIOUS
<1>1. PICK k \in Keys : owners = {k} /\ ownerIds = <<k>>
    BY DEF WalletInit
<1>2. OwnersAgree /\ ownerIds \in Seq(Keys)
    BY <1>1 DEF OwnersAgree
<1>3. OwnerPart
    BY <1>1, <1>2 DEF WalletInit, OwnerPart, OwnerTypes, PausedHasWayOut, PendingInv, NoPendingOwner
<1>4. entities = {} /\ entityCount = 0 /\ keys = {} /\ vetoBitmap = {} /\ vetoCount = 0
      /\ keyCount = [e \in Entities |-> 0] /\ entityBitmap = {} /\ ~advanced /\ 0..(0 - 1) = {}
    BY DEF WalletInit
<1>5. Cardinality({}) = 0 /\ 0 % KeyWrap = 0 /\ \A e : KeysOf(e) = {}
  <2>1. 0 \in 0..(KeyWrap - 1)
      BY WalletAssumption
  <2> QED BY <2>1, <1>4, WrapRange, FS_EmptySet DEF KeysOf, KeysIn
<1>6. BitsAgree /\ VetoCanBeGiven /\ PolicyInv
    BY <1>4, <1>5 DEF BitsAgree, VetoCanBeGiven, PolicyInv
<1>7. keyCount \in [Entities -> 0..(KeyWrap - 1)]
  <2>1. 0 \in 0..(KeyWrap - 1)
      BY WalletAssumption
  <2> QED BY <2>1, <1>4
<1>8. EntityTypes
  <2>1. entityAtBit = [b \in {} |-> 0] /\ entityBit = [e \in Entities |-> 0]
      BY DEF WalletInit
  <2>2. 0..(entityCount - 1) = {}
      BY <1>4
  <2>3. entityAtBit \in [0..(entityCount - 1) -> Entities]
      BY <2>1, <2>2
  <2> QED BY <2>1, <2>3, <1>4 DEF EntityTypes
<1>9. PolicyTypes
  <2>1. /\ advanced = FALSE /\ threshold = 0 /\ vetoCount = 0
        /\ entityBitmap = {} /\ vetoBitmap = {} /\ keys = {}
      BY DEF WalletInit
  <2>2. advanced \in BOOLEAN /\ threshold \in Nat /\ vetoCount \in Nat
      BY <2>1
  <2>3. entityBitmap \subseteq Nat /\ vetoBitmap \subseteq Nat /\ keys \subseteq Entities \X Keys
      BY <2>1
  <2> QED BY <2>2, <2>3, <1>7, <1>8 DEF PolicyTypes
<1> QED BY <1>3, <1>6, <1>9 DEF WalletInv, PolicyPart

LEMMA WalletStep == WalletInv /\ [WalletNext]_walletVars => WalletInv'
<1> SUFFICES ASSUME OwnerPart, PolicyPart, [WalletNext]_walletVars PROVE OwnerPart' /\ PolicyPart'
    BY DEF WalletInv
<1>1. CASE UNCHANGED walletVars
    BY <1>1, SameOwners, SamePolicy DEF walletVars, policyVars
<1>2. CASE \E k \in Keys : AddOwner(k) \/ RemoveOwner(k) \/ InitiateOwnerRecovery(k)
    BY <1>2, AddOwnerKeeps, RemoveOwnerKeeps, InitiateKeeps, SamePolicy
       DEF AddOwner, RemoveOwner, InitiateOwnerRecovery
<1>3. CASE ExecutePendingOwner \/ CancelPendingOwnerWithSignature \/ Tick
    BY <1>3, ExecuteKeeps, CancelKeeps, TickKeeps, SamePolicy
       DEF ExecutePendingOwner, CancelPendingOwnerWithSignature, Tick
<1>4. CASE \E e \in Entities : EnableAdvanced(e)
    BY <1>4, EnableKeepsOwners, EnableAdvancedKeeps DEF OwnerPart, OwnerTypes
<1>5. CASE \/ \E e \in Entities : AddEntity(e)
           \/ \E e \in Entities, gone \in SUBSET Keys : RemoveEntity(e, gone)
    BY <1>5, AddEntityKeeps, RemoveEntityKeeps, SameOwners DEF AddEntity, RemoveEntity
<1>6. CASE \E e \in Entities, k \in Keys : AddKey(e, k) \/ RemoveKey(e, k)
    BY <1>6, AddKeyKeeps, RemoveKeyKeeps, SameOwners DEF AddKey, RemoveKey
<1>7. CASE \E m \in 1..Cardinality(Entities) : SetThreshold(m)
    BY <1>7, SetThresholdKeeps, SameOwners DEF SetThreshold
<1>8. CASE \E e \in Entities, isVeto \in BOOLEAN : SetVeto(e, isVeto)
    BY <1>8, SetVetoKeeps, SameOwners DEF SetVeto
<1>9. CASE Reconfigure
    BY <1>9, ReconfigureKeeps, SameOwners DEF Reconfigure, ConfigureMultisig
<1> QED BY <1>1, <1>2, <1>3, <1>4, <1>5, <1>6, <1>7, <1>8, <1>9 DEF WalletNext

(* The inductive invariant of the wallet.                                   *)
THEOREM WalletInvariance == WalletSpec => []WalletInv
BY InitWallet, WalletStep, PTL DEF WalletSpec

(* Every variable keeps its type: key counts stay within their width, the   *)
(* bit tables as long as there are entities.                                *)
THEOREM WalletTypeCorrect == WalletSpec => []WalletTypeOK
<1>1. WalletInv => WalletTypeOK
    BY DEF WalletInv, OwnerPart, OwnerTypes, PolicyPart, PolicyTypes, EntityTypes, WalletTypeOK
<1> QED BY <1>1, WalletInvariance, PTL

(* The wallet is paused exactly while an owner is pending, and never in     *)
(* advanced mode (pause and recoveryAddOwner in one guardian call).         *)
THEOREM PauseAlwaysEnds == WalletSpec => []PausedHasWayOut
<1>1. WalletInv => PausedHasWayOut
    BY DEF WalletInv, OwnerPart
<1> QED BY <1>1, WalletInvariance, PTL

(* The list of owners and the mapping describe the same owners, at least    *)
(* one, after any additions and removals (_removeOwnerId).                  *)
THEOREM OwnersAlwaysAgree == WalletSpec => []OwnersAgree
<1>1. WalletInv => OwnersAgree
    BY DEF WalletInv, OwnerPart
<1> QED BY <1>1, WalletInvariance, PTL

(* Bits and entities agree after any registrations, removals and            *)
(* compactions (_removeEntityInternal), and key counts count keys up to     *)
(* their width, however often they wrap (_addKeyInternal).                  *)
THEOREM BitsAlwaysAgree == WalletSpec => []BitsAgree
<1>1. WalletInv => BitsAgree
    BY DEF WalletInv, PolicyPart
<1> QED BY <1>1, WalletInvariance, PTL

(* Every veto bit is that of an entity that can sign.                       *)
THEOREM VetoAlwaysPossible == WalletSpec => []VetoCanBeGiven
<1>1. WalletInv => VetoCanBeGiven
    BY DEF WalletInv, PolicyPart
<1> QED BY <1>1, WalletInvariance, PTL

(* A wallet whose entities all have a key can satisfy its own policy: the   *)
(* signed bits are then all the bits, at least threshold many, and a veto   *)
(* bit among them.                                                          *)
THEOREM LockoutOnlyByKeyless == WalletSpec => []LockoutNeedsKeyless
<1>1. WalletInv => LockoutNeedsKeyless
  <2> SUFFICES ASSUME WalletInv, advanced => \A e \in entities : CanVote(e) PROVE CanSign
      BY DEF LockoutNeedsKeyless
  <2>1. CASE ~advanced
    <3>1. PICK i \in 1..Len(ownerIds) : ownerIds[i] \in owners
        BY DEF WalletInv, OwnerPart, OwnersAgree
    <3>2. i \in DOMAIN ownerIds
        BY DEF WalletInv, OwnerPart, OwnerTypes
    <3> QED BY <2>1, <3>1, <3>2 DEF CanSign, OwnerCanSign
  <2>2. CASE advanced
    <3> DEFINE signedBits == {entityBit[e] : e \in {f \in entities : CanVote(f)}}
    <3>1. entityCount \in Nat /\ threshold \in 1..entityCount
        BY <2>2 DEF WalletInv, PolicyPart, PolicyTypes, EntityTypes, PolicyInv
    <3>2. signedBits = 0..(entityCount - 1)
      <4>1. \A e \in entities : CanVote(e) /\ entityBit[e] \in 0..(entityCount - 1)
          BY <2>2, <3>1, BitsSplit DEF WalletInv, PolicyPart, PolicyTypes, EntityTypes, Paired
      <4>2. \A b \in 0..(entityCount - 1) : entityAtBit[b] \in entities /\ entityBit[entityAtBit[b]] = b
          BY BitsSplit DEF WalletInv, PolicyPart, Paired
      <4>3. signedBits \subseteq 0..(entityCount - 1)
          BY <4>1
      <4>4. \A b \in 0..(entityCount - 1) : b \in signedBits
          BY <4>1, <4>2
      <4> QED BY <4>3, <4>4
    <3> HIDE DEF signedBits
    <3>3. Cardinality(signedBits) = entityCount
      <4>1. Cardinality(0..(entityCount - 1)) = entityCount
          BY <3>1, FS_Interval
      <4> QED BY <4>1, <3>2
    <3>4. vetoBitmap \subseteq signedBits
        BY <3>2, VetoBits DEF WalletInv
    <3>5. Cardinality(signedBits) >= threshold /\ (vetoBitmap = {} \/ signedBits \cap vetoBitmap # {})
        BY <3>1, <3>3, <3>4
    <3> QED BY <2>2, <3>5 DEF CanSign, EntitiesCanSign, Validates, signedBits
  <2> QED BY <2>1, <2>2
<1> QED BY <1>1, WalletInvariance, PTL

(* While a recovery is pending the owners change only by its execution,     *)
(* which adds the announced key alone, the timelock over.                   *)
THEOREM OwnersFrozen == WalletSpec => FrozenWhilePaused
<1>1. WalletInv /\ [WalletNext]_walletVars
        => [paused /\ owners' # owners =>
              /\ owners' = owners \cup {pendingOwner.key} /\ ~paused'
              /\ now >= scheduledAt + RecoveryTimelock]_walletVars
  <2> SUFFICES ASSUME WalletInv, WalletNext, paused, owners' # owners
               PROVE  /\ owners' = owners \cup {pendingOwner.key} /\ ~paused'
                      /\ now >= scheduledAt + RecoveryTimelock
      OBVIOUS
  <2>1. ~BySelf
      BY DEF BySelf
  <2>2. ExecutePendingOwner
      BY <2>1 DEF WalletNext, AddOwner, RemoveOwner, InitiateOwnerRecovery,
         CancelPendingOwnerWithSignature, Tick, EnableAdvanced, AddEntity, RemoveEntity, AddKey,
         RemoveKey, SetThreshold, SetVeto, Reconfigure, ConfigureMultisig, ownerVars
  <2> QED BY <2>2 DEF ExecutePendingOwner, AddOwnerKey, WalletInv, OwnerPart, PendingInv
<1> QED BY <1>1, WalletInvariance, PTL DEF WalletSpec, FrozenWhilePaused

-----------------------------------------------------------------------------
(* The policy: what the wallet's steps do to it.                            *)

\* A set of entities and its bits are equally many, and name the same vetoes.
LEMMA BitsOfEntities ==
    ASSUME PolicyPart, NEW S \in SUBSET entities
    PROVE  LET bits == {entityBit[e] : e \in S}
           IN  /\ Cardinality(bits) = Cardinality(S)
               /\ bits \cap vetoBitmap # {} <=> S \cap Vetoers # {}
<1> DEFINE bits == {entityBit[e] : e \in S}
           f == [e \in S |-> entityBit[e]]
<1>1. IsFiniteSet(S)
  <2>1. IsFiniteSet(Entities) /\ S \in SUBSET Entities
      BY WalletAssumption DEF PolicyPart, PolicyTypes, EntityTypes
  <2> QED BY <2>1, FS_Subset
<1>2. f \in [S -> bits] /\ \A b \in bits : \E e \in S : f[e] = b
    OBVIOUS
<1>3. \A d, e \in S : f[d] = f[e] => d = e
    BY BitsSplit DEF PolicyPart, Paired
<1>4. bits \cap vetoBitmap # {} <=> S \cap Vetoers # {}
    BY DEF Vetoers
<1> HIDE DEF f, bits
<1>5. Cardinality(bits) = Cardinality(S)
    BY <1>1, <1>2, <1>3, SameSize
<1> QED BY <1>4, <1>5 DEF bits

\* Every veto bit is that of an entity with the right to veto.
LEMMA SomeVetoer ==
    ASSUME PolicyPart
    PROVE  vetoBitmap = {} <=> Vetoers = {}
<1>1. \A b \in vetoBitmap : entityAtBit[b] \in entities /\ entityBit[entityAtBit[b]] = b
    BY VetoBits, BitsSplit DEF PolicyPart, Paired
<1> QED BY <1>1 DEF Vetoers

\* The policy's module has its own name for Cardinality.
LEMMA PolicyCounts ==
    ASSUME NEW S
    PROVE  Policy!Cardinality(S) = Cardinality(S)
BY DEF Cardinality, Policy!Cardinality

LEMMA ValidIfAccepted ==
    ASSUME PolicyPart, NEW S \in SUBSET entities
    PROVE  Validates(S) <=> Policy!Accepts(S)
BY BitsOfEntities, SomeVetoer, PolicyCounts DEF Validates, Policy!Accepts

Successor == IF pendingOwner.active THEN pendingOwner.key ELSE NoKey

LEMMA SuccessorIfPaused ==
    ASSUME OwnerPart
    PROVE  /\ paused <=> Successor # NoKey
           /\ pendingOwner.active => Successor = pendingOwner.key
BY WalletAssumption DEF OwnerPart, PausedHasWayOut, PendingInv, Successor

\* The contract lets the wallet act for itself only if the policy does.
LEMMA SelfIfAgreed ==
    ASSUME WalletInv, BySelf
    PROVE  Policy!Agreed
<1>1. Successor = NoKey
    BY SuccessorIfPaused DEF WalletInv, BySelf
<1>2. CASE advanced
  <2> DEFINE S == {e \in entities : CanVote(e)}
  <2>1. S = {e \in entities : Policy!HasKey(e)}
      BY DEF CanVote, KeysOf, KeysIn, Policy!HasKey
  <2>2. Validates(S)
      BY <1>2 DEF BySelf, CanSign, EntitiesCanSign
  <2> HIDE DEF S
  <2>3. S \in SUBSET entities
      BY DEF S
  <2>4. Policy!Accepts(S)
      BY <2>2, <2>3, ValidIfAccepted DEF WalletInv
  <2> QED BY <1>1, <1>2, <2>1, <2>4 DEF Policy!Agreed, Successor
<1>3. CASE ~advanced
    BY <1>1, <1>3 DEF WalletInv, OwnerPart, OwnersAgree, Policy!Agreed, Successor
<1> QED BY <1>2, <1>3

\* No step of the owners touches a member's rights.
LEMMA SameVetoers ==
    ASSUME UNCHANGED policyVars
    PROVE  UNCHANGED <<advanced, threshold, entities, keys, Vetoers>>
BY DEF policyVars, entityVars, vetoVars, keyVars, Vetoers

LEMMA AddOwnerAdmits ==
    ASSUME WalletInv, NEW k \in Keys, AddOwner(k)
    PROVE  Policy!AdmitOwner(k)
<1>1. BySelf /\ ~advanced /\ AddOwnerKey(k) /\ UNCHANGED pendingOwner /\ UNCHANGED policyVars
    BY DEF AddOwner, recoveryVars
<1> QED BY <1>1, SelfIfAgreed, SameVetoers DEF AddOwnerKey, Policy!AdmitOwner, Policy!SameAdvanced

LEMMA RemoveOwnerDismisses ==
    ASSUME WalletInv, WalletInv', NEW k \in Keys, RemoveOwner(k)
    PROVE  Policy!DismissOwner(k)
<1>1. /\ BySelf /\ ~advanced /\ k \in owners /\ owners' = owners \ {k}
      /\ UNCHANGED pendingOwner /\ UNCHANGED policyVars
    BY DEF RemoveOwner, recoveryVars
<1>2. owners' # {}
    BY DEF WalletInv, OwnerPart, OwnersAgree
<1> QED BY <1>1, <1>2, SelfIfAgreed, SameVetoers DEF Policy!DismissOwner, Policy!SameAdvanced

LEMMA InitiateAnnounces ==
    ASSUME WalletInv, NEW k \in Keys, InitiateOwnerRecovery(k)
    PROVE  Policy!Announce(k)
<1>1. /\ ~advanced /\ ~pendingOwner.active /\ UNCHANGED owners /\ UNCHANGED policyVars
      /\ pendingOwner' = [active |-> TRUE, key |-> k, executableAt |-> now + RecoveryTimelock]
    BY DEF InitiateOwnerRecovery, ownerVars
<1> QED BY <1>1, SameVetoers DEF Policy!Announce, Policy!SameAdvanced

LEMMA ExecuteSucceeds ==
    ASSUME WalletInv, ExecutePendingOwner
    PROVE  Policy!Succeed
<1>1. /\ ~advanced /\ pendingOwner.active /\ AddOwnerKey(pendingOwner.key)
      /\ pendingOwner' = NoPendingOwner /\ UNCHANGED policyVars
    BY DEF ExecutePendingOwner
<1> QED BY <1>1, SameVetoers, WalletAssumption
        DEF AddOwnerKey, NoPendingOwner, Policy!Succeed, Policy!SameAdvanced

LEMMA CancelCallsOff ==
    ASSUME WalletInv, CancelPendingOwnerWithSignature
    PROVE  Policy!CallOff
<1>1. /\ ~advanced /\ pendingOwner.active /\ pendingOwner' = NoPendingOwner
      /\ UNCHANGED owners /\ UNCHANGED policyVars
    BY DEF CancelPendingOwnerWithSignature, ownerVars
<1>2. owners # {} /\ pendingOwner.key # NoKey
    BY <1>1, WalletAssumption DEF WalletInv, OwnerPart, OwnersAgree, PendingInv
<1> QED BY <1>1, <1>2, SameVetoers DEF NoPendingOwner, Policy!CallOff, Policy!SameAdvanced

LEMMA EnableAdvances ==
    ASSUME WalletInv, NEW e \in Entities, EnableAdvanced(e)
    PROVE  Policy!Advance(e)
<1>1. /\ BySelf /\ ~advanced /\ Register(<<e>>) /\ advanced' = TRUE /\ threshold' = 1
      /\ keys' = keys \cup {<<e, k>> : k \in owners} /\ vetoBitmap' = vetoBitmap
      /\ UNCHANGED <<owners, pendingOwner>>
    BY DEF EnableAdvanced, ownerVars, vetoVars
<1>2. entities = {} /\ vetoBitmap = {} /\ keys = {}
    BY <1>1, BitsSplit DEF WalletInv, PolicyPart, PolicyInv, KeysCounted
<1>3. entities' = {e}
    BY <1>1, <1>2, OneName, RegisterPairs, BitsSplit DEF WalletInv, PolicyPart, PolicyTypes
<1>4. keys' = {e} \X owners
    BY <1>1, <1>2
<1>5. Vetoers' = {}
    BY <1>1, <1>2 DEF Vetoers
<1> QED BY <1>1, <1>3, <1>4, <1>5, SelfIfAgreed DEF Policy!Advance

\* The newcomer gets a bit nobody had, and so no veto.
LEMMA AddEntityJoins ==
    ASSUME WalletInv, NEW e \in Entities, AddEntity(e)
    PROVE  Policy!Join(e)
<1>1. /\ BySelf /\ advanced /\ Register(<<e>>) /\ UNCHANGED <<owners, pendingOwner, advanced>>
      /\ UNCHANGED <<threshold, vetoBitmap, keys>>
    BY DEF AddEntity, ownerVars, recoveryVars, vetoVars, keyVars
<1>2. /\ Paired' /\ entities' = entities \cup {e}
      /\ \A f \in entities : entityBit'[f] = entityBit[f]
      /\ \A b \in 0..(entityCount - 1) : entityAtBit'[b] = entityAtBit[b]
    BY <1>1, OneName, RegisterPairs, BitsSplit DEF WalletInv, PolicyPart, PolicyTypes
<1>3. e \notin entities
  <2>1. {<<e>>[i] : i \in 1..Len(<<e>>)} \cap entities = {}
      BY <1>1 DEF Register
  <2> QED BY <2>1, OneName DEF Names
<1>4. entityBit'[e] \notin vetoBitmap
  <2>1. SUFFICES ASSUME entityBit'[e] \in vetoBitmap PROVE FALSE
      OBVIOUS
  <2>2. entityBit'[e] \in 0..(entityCount - 1)
      BY <2>1, VetoBits DEF WalletInv
  <2>3. entityAtBit'[entityBit'[e]] \in entities
      BY <2>2, <1>2, BitsSplit DEF WalletInv, PolicyPart, Paired
  <2> QED BY <2>3, <1>2, <1>3 DEF Paired
<1>5. Vetoers' = Vetoers
    BY <1>1, <1>2, <1>4 DEF Vetoers
<1> QED BY <1>1, <1>2, <1>3, <1>5, SelfIfAgreed DEF Policy!Join, Policy!SameSimple

\* The last entity takes the leaver's bit, and the veto bit moves along with it.
LEMMA RemoveEntityVetoers ==
    ASSUME PolicyPart, NEW e \in Entities, NEW gone, RemoveEntity(e, gone)
    PROVE  Vetoers' = Vetoers \ {e}
<1> DEFINE bit == entityBit[e]
           last == entityCount - 1
           moved == entityAtBit[last]
           vetoes == vetoBitmap \ {bit}
<1>1. /\ e \in entities /\ entities' = entities \ {e} /\ entityBit' = BitsWithout(e)
      /\ vetoBitmap' = IF bit = last THEN vetoes ELSE MoveBit(vetoes, last, bit)
    BY DEF RemoveEntity
<1>2. vetoBitmap' = IF last \in vetoes THEN (vetoes \ {last}) \cup {bit} ELSE vetoes
    BY <1>1 DEF MoveBit
<1>3. \A f \in entities \ {e} : entityBit'[f] = IF f = moved THEN bit ELSE entityBit[f]
    BY <1>1 DEF BitsWithout, PolicyPart, PolicyTypes, EntityTypes
<1>4. \A f \in entities \ {e} : entityBit[f] # bit /\ (entityBit[f] = last <=> f = moved)
  <2>1. \A f \in entities : entityBit[f] < entityCount /\ entityAtBit[entityBit[f]] = f
      BY BitsSplit DEF PolicyPart, Paired
  <2>2. last \in 0..(entityCount - 1)
      BY <1>1, <2>1 DEF PolicyPart, PolicyTypes, EntityTypes
  <2>3. entityBit[moved] = last
      BY <2>2, BitsSplit DEF PolicyPart, Paired
  <2> QED BY <1>1, <2>1, <2>3
<1> HIDE DEF bit, last, moved
<1>5. \A f \in entities \ {e} : entityBit'[f] \in vetoBitmap' <=> entityBit[f] \in vetoBitmap
  <2>1. TAKE f \in entities \ {e}
  <2>2. CASE f = moved
      BY <2>2, <1>2, <1>3, <1>4
  <2>3. CASE f # moved
      BY <2>3, <1>2, <1>3, <1>4
  <2> QED BY <2>2, <2>3
<1> QED BY <1>1, <1>5 DEF Vetoers

LEMMA RemoveEntityLeaves ==
    ASSUME WalletInv, WalletInv', NEW e \in Entities, NEW gone, RemoveEntity(e, gone)
    PROVE  Policy!Leave(e)
<1>1. /\ BySelf /\ advanced /\ e \in entities /\ entities' = entities \ {e}
      /\ entityCount > threshold /\ entityCount' = entityCount - 1
      /\ keys' = keys \ ({e} \X gone)
      /\ UNCHANGED <<owners, pendingOwner, advanced, threshold>>
    BY DEF RemoveEntity, EnoughLeft, ownerVars, recoveryVars
<1>2. Vetoers' = Vetoers \ {e}
    BY RemoveEntityVetoers DEF WalletInv
<1>3. Cardinality(entities') >= threshold
  <2>1. Cardinality(entities') = entityCount'
      BY BitsSplit DEF WalletInv, PolicyPart, BitsAgree
  <2> QED BY <2>1, <1>1 DEF WalletInv, PolicyPart, PolicyTypes, EntityTypes
<1>4. keys' \subseteq keys /\ \A p \in keys \ keys' : p[1] = e
    BY <1>1
<1> DEFINE left == {p \in keys' : p[1] = e}
<1>5. left = {} \/ Cardinality(left) >= KeyWrap
  <2> DEFINE L == KeysIn(keys', e)
             f == [k \in L |-> <<e, k>>]
  <2>1. IsFiniteSet(L) /\ Cardinality(L) \in Nat /\ Cardinality(L) % KeyWrap = 0
      BY KeysFinite, RemovedCount DEF WalletInv, PolicyPart
  <2>2. left = {<<e, k>> : k \in L}
    <3>1. keys' \subseteq Entities \X Keys
        BY DEF WalletInv, PolicyPart, PolicyTypes
    <3>2. \A p \in left : p[2] \in L /\ p = <<e, p[2]>>
        BY <3>1 DEF KeysIn
    <3>3. \A k \in L : <<e, k>> \in left
        BY DEF KeysIn
    <3> QED BY <3>2, <3>3
  <2>3. /\ f \in [L -> left] /\ \A p \in left : \E k \in L : f[k] = p
        /\ \A j, k \in L : f[j] = f[k] => j = k
      BY <2>2
  <2> HIDE DEF L, f, left
  <2>4. Cardinality(left) = Cardinality(L)
      BY <2>1, <2>3, SameSize
  <2>5. CASE Cardinality(L) = 0
      BY <2>1, <2>2, <2>5, FS_EmptySet
  <2>6. CASE Cardinality(L) # 0
    <3>1. Cardinality(L) \notin 0..(KeyWrap - 1)
        BY <2>1, <2>6, WrapRange
    <3> QED BY <2>1, <2>4, <3>1, WalletAssumption
  <2> QED BY <2>5, <2>6
<1> HIDE DEF left
<1>6. Policy!Cardinality(left) = Cardinality(left)
    BY PolicyCounts
<1> QED BY <1>1, <1>2, <1>3, <1>4, <1>5, <1>6, SelfIfAgreed, PolicyCounts
        DEF Policy!Leave, Policy!SameSimple, left

LEMMA AddKeyGives ==
    ASSUME WalletInv, NEW e \in Entities, NEW k \in Keys, AddKey(e, k)
    PROVE  Policy!GiveKey(e, k)
<1>1. /\ BySelf /\ advanced /\ e \in entities /\ <<e, k>> \notin keys
      /\ keys' = keys \cup {<<e, k>>}
      /\ UNCHANGED <<owners, pendingOwner, advanced, threshold, entities, Vetoers>>
    BY DEF AddKey, ownerVars, recoveryVars, entityVars, vetoVars, Vetoers
<1> QED BY <1>1, SelfIfAgreed DEF Policy!GiveKey, Policy!SameSimple

LEMMA RemoveKeyTakes ==
    ASSUME WalletInv, NEW e \in Entities, NEW k \in Keys, RemoveKey(e, k)
    PROVE  Policy!TakeKey(e, k)
<1>1. /\ BySelf /\ advanced /\ <<e, k>> \in keys /\ keys' = keys \ {<<e, k>>} /\ keyCount[e] > 1
      /\ UNCHANGED <<owners, pendingOwner, advanced, threshold, entities, Vetoers>>
    BY DEF RemoveKey, ownerVars, recoveryVars, entityVars, vetoVars, Vetoers
<1>2. KeysOf(e) # {k}
  <2>1. Cardinality(KeysOf(e)) > 1
      BY <1>1, CountedTwice, BitsSplit DEF WalletInv, PolicyPart
  <2>2. Cardinality({k}) = 1
      BY FS_Singleton
  <2> QED BY <2>1, <2>2
<1>3. \E l \in Keys : <<e, l>> \in keys'
    BY <1>1, <1>2 DEF KeysOf, KeysIn
<1> QED BY <1>1, <1>3, SelfIfAgreed DEF Policy!TakeKey, Policy!HasKey, Policy!SameSimple

LEMMA SetThresholdRequires ==
    ASSUME WalletInv, NEW m, SetThreshold(m)
    PROVE  m \in 1..Cardinality(entities) /\ Policy!Require(m)
<1>1. /\ BySelf /\ advanced /\ m \in 1..entityCount /\ threshold' = m
      /\ UNCHANGED <<owners, pendingOwner, advanced, entities, keys, Vetoers>>
    BY DEF SetThreshold, ownerVars, recoveryVars, entityVars, vetoVars, keyVars, Vetoers
<1>2. entityCount = Cardinality(entities)
    BY BitsSplit DEF WalletInv, PolicyPart, Paired
<1> QED BY <1>1, <1>2, SelfIfAgreed DEF Policy!Require, Policy!SameSimple

LEMMA SetVetoGrantsOrRevokes ==
    ASSUME WalletInv, NEW e \in Entities, NEW isVeto \in BOOLEAN, SetVeto(e, isVeto)
    PROVE  Policy!GrantVeto(e) \/ Policy!RevokeVeto(e)
<1>1. /\ BySelf /\ advanced /\ e \in entities /\ keyCount[e] # 0
      /\ vetoBitmap' = IF isVeto THEN vetoBitmap \cup {entityBit[e]} ELSE vetoBitmap \ {entityBit[e]}
      /\ UNCHANGED <<owners, pendingOwner, advanced, threshold, entities, entityBit, keys>>
    BY DEF SetVeto, ownerVars, recoveryVars, entityVars, keyVars
<1>2. \A f \in entities : entityBit[f] = entityBit[e] <=> f = e
    BY <1>1, BitsSplit DEF WalletInv, PolicyPart, Paired
<1>3. Policy!HasKey(e)
  <2>1. CanVote(e)
      BY <1>1, CanVoteIfCounted, BitsSplit DEF WalletInv, PolicyPart
  <2> QED BY <2>1 DEF CanVote, KeysOf, KeysIn, Policy!HasKey
<1>4. CASE isVeto
  <2>1. Vetoers' = Vetoers \cup {e}
      BY <1>1, <1>2, <1>4 DEF Vetoers
  <2> QED BY <1>1, <1>3, <2>1, SelfIfAgreed DEF Policy!GrantVeto, Policy!SameSimple
<1>5. CASE ~isVeto
  <2>1. Vetoers' = Vetoers \ {e}
      BY <1>1, <1>2, <1>5 DEF Vetoers
  <2> QED BY <1>1, <2>1, SelfIfAgreed DEF Policy!RevokeVeto, Policy!SameSimple
<1> QED BY <1>4, <1>5

LEMMA ReconfigureRearranges ==
    ASSUME WalletInv, WalletInv', Reconfigure
    PROVE  Policy!Rearrange
<1>1. PICK names, remove, add :
           add \subseteq Entities \X Keys /\ advanced /\ ConfigureMultisig(remove, names, add)
  <2>1. PICK names, remove :
             \E add \in UpTo(MaxBatch - Len(names) - Cardinality(remove),
                             (Entities \X Keys) \ (keys \ remove)) :
                advanced /\ ConfigureMultisig(remove, names, add)
      BY DEF Reconfigure
  <2>2. PICK add \in UpTo(MaxBatch - Len(names) - Cardinality(remove),
                          (Entities \X Keys) \ (keys \ remove)) :
             advanced /\ ConfigureMultisig(remove, names, add)
      BY <2>1
  <2>3. add \subseteq (Entities \X Keys) \ (keys \ remove)
      BY UpToWithin
  <2> QED BY <2>2, <2>3
<1>2. /\ BySelf /\ Register(names) /\ \A e \in entities' : keyCount'[e] # 0
      /\ threshold' \in 1..entityCount' /\ UNCHANGED <<owners, pendingOwner, advanced>>
      /\ keys' = (keys \ remove) \cup add /\ \A p \in add : p[1] \in entities'
    BY <1>1 DEF ConfigureMultisig, ownerVars, recoveryVars
<1>3. entities \subseteq entities'
    BY <1>2 DEF Register
<1>4. /\ entities' \subseteq Entities /\ entityCount' = Cardinality(entities')
      /\ \A e \in Entities : keyCount'[e] = Cardinality(KeysIn(keys', e)) % KeyWrap
    BY DEF WalletInv, PolicyPart, PolicyTypes, EntityTypes, BitsAgree, KeysOf
<1>5. \A e \in entities' : \E k \in Keys : <<e, k>> \in keys'
  <2>1. \A e \in entities' : KeysIn(keys', e) # {}
      BY <1>2, <1>4, CountedHasKey
  <2> QED BY <2>1 DEF KeysIn
<1>6. keys' \subseteq keys \cup (entities' \X Keys)
    BY <1>1, <1>2
<1>7. Vetoers' \subseteq entities'
    BY DEF Vetoers
<1> QED BY <1>1, <1>2, <1>3, <1>4, <1>5, <1>6, <1>7, SelfIfAgreed, PolicyCounts
        DEF Policy!Rearrange, Policy!HasKey, Policy!SameSimple

LEMMA PolicyStep ==
    ASSUME WalletInv, WalletInv', [WalletNext]_walletVars
    PROVE  [Policy!Next]_(Policy!vars)
<1>1. CASE UNCHANGED walletVars \/ Tick
    BY <1>1, SameVetoers DEF walletVars, ownerVars, recoveryVars, Tick, Policy!vars
<1>2. CASE \E k \in Keys : AddOwner(k) \/ RemoveOwner(k) \/ InitiateOwnerRecovery(k)
    BY <1>2, AddOwnerAdmits, RemoveOwnerDismisses, InitiateAnnounces DEF Policy!Next
<1>3. CASE ExecutePendingOwner \/ CancelPendingOwnerWithSignature
    BY <1>3, ExecuteSucceeds, CancelCallsOff DEF Policy!Next
<1>4. CASE \/ \E e \in Entities : EnableAdvanced(e) \/ AddEntity(e)
           \/ \E e \in Entities, gone \in SUBSET Keys : RemoveEntity(e, gone)
    BY <1>4, EnableAdvances, AddEntityJoins, RemoveEntityLeaves DEF Policy!Next
<1>5. CASE \E e \in Entities, k \in Keys : AddKey(e, k) \/ RemoveKey(e, k)
    BY <1>5, AddKeyGives, RemoveKeyTakes DEF Policy!Next
<1>6. CASE \E m \in 1..Cardinality(Entities) : SetThreshold(m)
    BY <1>6, SetThresholdRequires, PolicyCounts DEF Policy!Next
<1>7. CASE \E e \in Entities, isVeto \in BOOLEAN : SetVeto(e, isVeto)
    BY <1>7, SetVetoGrantsOrRevokes DEF Policy!Next
<1>8. CASE Reconfigure
    BY <1>8, ReconfigureRearranges DEF Policy!Next
<1> QED BY <1>1, <1>2, <1>3, <1>4, <1>5, <1>6, <1>7, <1>8 DEF WalletNext

(* Lists, bits and counters do to owners, members, keys and vetoers what    *)
(* the policy says, and only with its consent: above all, compaction        *)
(* (_removeEntityInternal) changes nobody's rights but the leaver's, who    *)
(* leaves keys behind only as many as make a counter wrap.                  *)
THEOREM ImplementsPolicy == WalletSpec => PolicySpec
<1>1. WalletInit => Policy!Init
    BY DEF WalletInit, NoPendingOwner, Vetoers, Policy!Init
<1>2. WalletInv /\ WalletInv' /\ [WalletNext]_walletVars => [Policy!Next]_(Policy!vars)
    BY PolicyStep
<1> QED BY <1>1, <1>2, WalletInvariance, PTL DEF WalletSpec, PolicySpec, Policy!Spec

(* The bits that _validateAdvancedSignatures collects are as many as the    *)
(* entities that signed, and hold a veto bit exactly if one of them may     *)
(* veto.                                                                    *)
THEOREM SignaturesAreCounted == WalletSpec => []SignaturesCount
<1>1. WalletInv => SignaturesCount
    BY ValidIfAccepted DEF WalletInv, SignaturesCount
<1> QED BY <1>1, WalletInvariance, PTL
-----------------------------------------------------------------------------
(* The guardian's recovery is a delayed recovery.                           *)

RecoveryStep == [Recovery!RecoveryNext]_(Recovery!recoveryVars)

IsDue == pendingOwner.active /\ now >= pendingOwner.executableAt

\* Nothing happens to the recovery.
LEMMA RecoveryStays ==
    ASSUME UNCHANGED <<owners, pendingOwner, now>>
    PROVE  RecoveryStep
<1>1. IsDue' = IsDue
    BY DEF IsDue
<1> QED BY <1>1 DEF IsDue, RecoveryStep, Recovery!recoveryVars

LEMMA OwnersMove ==
    ASSUME NEW k \in Keys, AddOwner(k) \/ RemoveOwner(k)
    PROVE  RecoveryStep
<1>1. /\ UNCHANGED <<pendingOwner, now>>
      /\ owners' = owners \cup {k} \/ owners' = owners \ {k}
    BY DEF AddOwner, RemoveOwner, AddOwnerKey, recoveryVars
<1>2. IsDue' = IsDue
    BY <1>1 DEF IsDue
<1>3. Recovery!Admit(k) \/ Recovery!Dismiss(k)
    BY <1>1, <1>2 DEF IsDue, Recovery!Admit, Recovery!Dismiss
<1> QED BY <1>3 DEF RecoveryStep, Recovery!RecoveryNext

LEMMA RecoveryAnnounced ==
    ASSUME NEW k \in Keys, InitiateOwnerRecovery(k)
    PROVE  RecoveryStep
<1>1. /\ ~pendingOwner.active /\ pendingOwner'.active /\ pendingOwner'.key = k
      /\ UNCHANGED owners /\ IsDue' \in BOOLEAN
    BY DEF InitiateOwnerRecovery, ownerVars, IsDue
<1>2. Recovery!Announce(k)
    BY <1>1 DEF IsDue, Recovery!Announce
<1> QED BY <1>2 DEF RecoveryStep, Recovery!RecoveryNext

LEMMA RecoverySucceeds ==
    ASSUME ExecutePendingOwner
    PROVE  RecoveryStep
<1>1. /\ pendingOwner.active /\ IsDue /\ pendingOwner.key \notin owners
      /\ owners' = owners \cup {pendingOwner.key} /\ ~pendingOwner'.active /\ ~IsDue'
    BY DEF ExecutePendingOwner, AddOwnerKey, NoPendingOwner, IsDue
<1>2. Recovery!Succeed
    BY <1>1 DEF IsDue, Recovery!Succeed, Recovery!Over
<1> QED BY <1>2 DEF RecoveryStep, Recovery!RecoveryNext

LEMMA RecoveryCalledOff ==
    ASSUME CancelPendingOwnerWithSignature
    PROVE  RecoveryStep
<1>1. pendingOwner.active /\ ~pendingOwner'.active /\ ~IsDue' /\ UNCHANGED owners
    BY DEF CancelPendingOwnerWithSignature, NoPendingOwner, IsDue, ownerVars
<1>2. Recovery!CallOff
    BY <1>1 DEF IsDue, Recovery!CallOff, Recovery!Over
<1> QED BY <1>2 DEF RecoveryStep, Recovery!RecoveryNext

\* Time only brings a recovery closer.
LEMMA TickEndsDelay ==
    ASSUME WalletInv, Tick
    PROVE  RecoveryStep
<1>1. /\ UNCHANGED <<owners, pendingOwner>> /\ now' = now + 1
      /\ now \in Nat /\ pendingOwner.executableAt \in Nat /\ pendingOwner.active \in BOOLEAN
    BY DEF Tick, ownerVars, recoveryVars, WalletInv, OwnerPart, OwnerTypes
<1>2. CASE IsDue' = IsDue
    BY <1>1, <1>2 DEF IsDue, RecoveryStep, Recovery!recoveryVars
<1>3. CASE IsDue' # IsDue
  <2>1. pendingOwner.active /\ IsDue'
      BY <1>1, <1>3 DEF IsDue
  <2>2. Recovery!DelayEnds
      BY <1>1, <2>1 DEF IsDue, Recovery!DelayEnds
  <2> QED BY <2>2 DEF RecoveryStep, Recovery!RecoveryNext
<1> QED BY <1>2, <1>3

\* Advanced mode has nothing to do with recovery.
LEMMA AdvancedStays ==
    ASSUME \/ \E e \in Entities : EnableAdvanced(e) \/ AddEntity(e)
           \/ \E e \in Entities, gone \in SUBSET Keys : RemoveEntity(e, gone)
           \/ \E e \in Entities, k \in Keys : AddKey(e, k) \/ RemoveKey(e, k)
           \/ \E m \in 1..Cardinality(Entities) : SetThreshold(m)
           \/ \E e \in Entities, isVeto \in BOOLEAN : SetVeto(e, isVeto)
           \/ Reconfigure \/ UNCHANGED walletVars
    PROVE  UNCHANGED <<owners, pendingOwner, now>>
BY DEF EnableAdvanced, AddEntity, RemoveEntity, AddKey, RemoveKey, SetThreshold, SetVeto,
       Reconfigure, ConfigureMultisig, ownerVars, recoveryVars, walletVars

(* A passkey wallet offers the same delayed recovery as the identity store: *)
(* its announced owner waits out the timelock, and pause keeps signatures   *)
(* from touching it (initiateOwnerRecovery, executePendingOwner).           *)
THEOREM ImplementsRecovery == WalletSpec => RecoverySpec
<1>1. WalletInit => Recovery!RecoveryInit
    BY DEF WalletInit, NoPendingOwner, Recovery!RecoveryInit
<1>2. WalletInv /\ [WalletNext]_walletVars => [Recovery!RecoveryNext]_(Recovery!recoveryVars)
  <2> SUFFICES ASSUME WalletInv, [WalletNext]_walletVars PROVE RecoveryStep
      BY DEF RecoveryStep
  <2>1. ASSUME NEW k \in Keys, AddOwner(k) \/ RemoveOwner(k) \/ InitiateOwnerRecovery(k)
        PROVE  RecoveryStep
      BY <2>1, OwnersMove, RecoveryAnnounced
  <2>2. CASE ExecutePendingOwner \/ CancelPendingOwnerWithSignature \/ Tick
      BY <2>2, RecoverySucceeds, RecoveryCalledOff, TickEndsDelay
  <2> QED BY <2>1, <2>2, AdvancedStays, RecoveryStays DEF WalletNext
<1> QED BY <1>1, <1>2, WalletInvariance, PTL DEF WalletSpec, RecoverySpec, Recovery!RecoverySpec
=============================================================================
