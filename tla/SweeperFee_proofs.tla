-------------------------- MODULE SweeperFee_proofs --------------------------
(***************************************************************************)
(* What merchant and platform can rely on for every amount, rate and       *)
(* minimum.  All of it follows from the share being the one number whose   *)
(* multiple of BPS_DENOMINATOR lies within one denominator below           *)
(* amount * feeBps.                                                        *)
(***************************************************************************)
EXTENDS SweeperFee, TLAPS

LEMMA ShareIs ==
    ASSUME NEW amount \in Nat, NEW feeBps \in FeeRates
    PROVE  /\ Share(amount, feeBps) \in Nat
           /\ BPS_DENOMINATOR * Share(amount, feeBps) <= amount * feeBps
           /\ amount * feeBps < BPS_DENOMINATOR * (Share(amount, feeBps) + 1)
<1> DEFINE p == amount * feeBps
<1>1. p \in Nat
  <2>1. feeBps \in Nat
      BY DEF FeeRates, MAX_FEE_BPS
  <2> QED BY <2>1, SMT
<1> HIDE DEF p
<1>2. /\ p \div 10000 \in Nat /\ 10000 * (p \div 10000) <= p
      /\ p < 10000 * ((p \div 10000) + 1)
    BY <1>1, SMT
<1> QED BY <1>2 DEF Share, BPS_DENOMINATOR, p

\* A rate of at most MAX_FEE_BPS of an amount is at most a tenth of it.
LEMMA ProductBound ==
    ASSUME NEW amount \in Nat, NEW feeBps \in FeeRates
    PROVE  amount * feeBps \in Nat /\ amount * feeBps <= amount * MAX_FEE_BPS
<1>1. feeBps \in Nat /\ feeBps <= 1000
    BY DEF FeeRates, MAX_FEE_BPS
<1> QED BY <1>1, SMT DEF MAX_FEE_BPS

LEMMA ShareBound ==
    ASSUME NEW amount \in Nat, NEW feeBps \in FeeRates
    PROVE  10 * Share(amount, feeBps) <= amount
<1>1. /\ Share(amount, feeBps) \in Nat
      /\ 10000 * Share(amount, feeBps) <= amount * feeBps
      /\ amount * feeBps \in Nat /\ amount * feeBps <= amount * 1000
    BY ShareIs, ProductBound DEF BPS_DENOMINATOR, MAX_FEE_BPS
<1> QED BY <1>1

\* quoteFee is the share or the minimum, whichever is more, if there is as much.
LEMMA FeeCases ==
    ASSUME NEW amount \in Nat, NEW feeBps \in FeeRates, NEW minFee \in Nat
    PROVE  LET fee == QuoteFee(amount, feeBps, minFee)
           IN  /\ fee \in 0..amount
               /\ fee >= Share(amount, feeBps)
               /\ fee = Share(amount, feeBps) \/ fee = minFee \/ fee = amount
               /\ fee <= minFee \/ fee = Share(amount, feeBps)
               /\ fee >= minFee \/ fee = amount
<1>1. Share(amount, feeBps) \in Nat /\ Share(amount, feeBps) <= amount
    BY ShareIs, ShareBound
<1> QED BY <1>1 DEF QuoteFee

(* sweep never reverts with FeeExceedsAmount, and pays out exactly what it  *)
(* was asked to, whatever the rate and the minimum.                         *)
THEOREM NothingLost ==
    ASSUME NEW amount \in Nat, NEW feeBps \in FeeRates, NEW minFee \in Nat
    PROVE  /\ QuoteFee(amount, feeBps, minFee) <= amount
           /\ ToMerchant(amount, feeBps, minFee) \in 0..amount
           /\ QuoteFee(amount, feeBps, minFee) + ToMerchant(amount, feeBps, minFee) = amount
BY FeeCases DEF ToMerchant

(* A fee above the token's minimum is the owner's rate of the amount,       *)
(* rounded down, and so a tenth of it at most (MAX_FEE_BPS): only setMinFee *)
(* can take more.                                                           *)
THEOREM FeeIsLimited ==
    ASSUME NEW amount \in Nat, NEW feeBps \in FeeRates, NEW minFee \in Nat,
           QuoteFee(amount, feeBps, minFee) > minFee
    PROVE  /\ BPS_DENOMINATOR * QuoteFee(amount, feeBps, minFee) <= amount * feeBps
           /\ 10 * QuoteFee(amount, feeBps, minFee) <= amount
<1>1. QuoteFee(amount, feeBps, minFee) = Share(amount, feeBps)
    BY FeeCases
<1> QED BY <1>1, ShareIs, ShareBound

(* Who pays more gives neither side less: both the fee and what is left to  *)
(* the merchant grow with the amount, across the roundings and the minimum. *)
THEOREM BothGrow ==
    ASSUME NEW amount \in Nat, NEW more \in Nat, NEW feeBps \in FeeRates, NEW minFee \in Nat
    PROVE  /\ QuoteFee(amount, feeBps, minFee) <= QuoteFee(amount + more, feeBps, minFee)
           /\ ToMerchant(amount, feeBps, minFee) <= ToMerchant(amount + more, feeBps, minFee)
<1> DEFINE s == Share(amount, feeBps)
           t == Share(amount + more, feeBps)
           p == amount * feeBps
           q == more * feeBps
<1>1. amount + more \in Nat /\ feeBps \in Nat
    BY DEF FeeRates, MAX_FEE_BPS
<1>2. (amount + more) * feeBps = p + q
    BY <1>1, SMT
<1>3. s \in Nat /\ 10000 * s <= p /\ p < 10000 * (s + 1) /\ s <= amount
    BY ShareIs, ShareBound DEF BPS_DENOMINATOR
<1>4. t \in Nat /\ 10000 * t <= p + q /\ p + q < 10000 * (t + 1) /\ t <= amount + more
  <2> DEFINE sum == amount + more
  <2>1. sum \in Nat /\ sum * feeBps = p + q
      BY <1>1, <1>2
  <2> HIDE DEF sum
  <2>2. /\ Share(sum, feeBps) \in Nat /\ 10 * Share(sum, feeBps) <= sum
        /\ 10000 * Share(sum, feeBps) <= sum * feeBps
        /\ sum * feeBps < 10000 * (Share(sum, feeBps) + 1)
      BY <2>1, ShareIs, ShareBound DEF BPS_DENOMINATOR
  <2>3. Share(sum, feeBps) <= sum
      BY <2>1, <2>2
  <2> QED BY <2>1, <2>2, <2>3 DEF sum
<1>5. p \in Nat /\ q \in Nat /\ q <= more * 1000
    BY ProductBound DEF MAX_FEE_BPS
<1>6. s <= t /\ t <= s + more
  <2> HIDE DEF s, t, p, q
  <2>1. s <= t
      BY <1>3, <1>4, <1>5
  <2>2. t <= s + more
    <3>1. CASE more = 0
        BY <1>3, <1>4, <1>5, <3>1
    <3>2. CASE more >= 1
        BY <1>3, <1>4, <1>5, <3>2
    <3> QED BY <3>1, <3>2
  <2> QED BY <2>1, <2>2
<1> HIDE DEF s, t, p, q
<1>7. QuoteFee(amount, feeBps, minFee) =
         IF (IF s < minFee THEN minFee ELSE s) > amount THEN amount
         ELSE IF s < minFee THEN minFee ELSE s
    BY DEF QuoteFee, s
<1>8. QuoteFee(amount + more, feeBps, minFee) =
         IF (IF t < minFee THEN minFee ELSE t) > amount + more THEN amount + more
         ELSE IF t < minFee THEN minFee ELSE t
    BY DEF QuoteFee, t
<1> QED BY <1>3, <1>4, <1>6, <1>7, <1>8 DEF ToMerchant

(* Sweeping an invoice in two parts saves the merchant one unit of the      *)
(* token at most, by rounding; the minimum never makes it worth while.      *)
THEOREM SplittingSavesAUnit ==
    ASSUME NEW a \in Nat, NEW b \in Nat, NEW feeBps \in FeeRates, NEW minFee \in Nat
    PROVE  QuoteFee(a + b, feeBps, minFee)
             <= QuoteFee(a, feeBps, minFee) + QuoteFee(b, feeBps, minFee) + 1
<1> DEFINE s == Share(a, feeBps)
           t == Share(b, feeBps)
           u == Share(a + b, feeBps)
           p == a * feeBps
           q == b * feeBps
<1>1. a + b \in Nat /\ feeBps \in Nat
    BY DEF FeeRates, MAX_FEE_BPS
<1>2. (a + b) * feeBps = p + q
    BY <1>1, SMT
<1>3. /\ s \in Nat /\ p < 10000 * (s + 1) /\ t \in Nat /\ q < 10000 * (t + 1)
      /\ p \in Nat /\ q \in Nat
    BY ShareIs, ProductBound DEF BPS_DENOMINATOR
<1>4. u \in Nat /\ 10000 * u <= p + q
  <2> DEFINE sum == a + b
  <2>1. sum \in Nat /\ sum * feeBps = p + q
      BY <1>1, <1>2
  <2> HIDE DEF sum
  <2>2. Share(sum, feeBps) \in Nat /\ 10000 * Share(sum, feeBps) <= sum * feeBps
      BY <2>1, ShareIs DEF BPS_DENOMINATOR
  <2> QED BY <2>1, <2>2 DEF sum
<1>5. u <= s + t + 1
  <2> HIDE DEF s, t, u, p, q
  <2> QED BY <1>3, <1>4
<1> DEFINE f == QuoteFee(a, feeBps, minFee)
           g == QuoteFee(b, feeBps, minFee)
           h == QuoteFee(a + b, feeBps, minFee)
<1>6. /\ f \in 0..a /\ f >= s /\ (f >= minFee \/ f = a)
      /\ g \in 0..b /\ g >= t /\ (g >= minFee \/ g = b)
      /\ h \in 0..(a + b) /\ (h <= minFee \/ h = u)
    BY <1>1, FeeCases
<1> HIDE DEF s, t, u, f, g, h
<1>7. h <= f + g + 1
    BY <1>3, <1>4, <1>5, <1>6
<1> QED BY <1>7 DEF f, g, h
=============================================================================
