----------------------------- MODULE SweeperFee -----------------------------
(***************************************************************************)
(* How CommerceInvoiceSweeper divides what it sweeps between the platform  *)
(* and the merchant: a rounded share, at least a minimum the owner sets    *)
(* for the token, and never more than there is.                            *)
(***************************************************************************)
EXTENDS Integers

MAX_FEE_BPS == 1000
BPS_DENOMINATOR == 10000

FeeRates == 0..MAX_FEE_BPS

\* quoteFee before its two corrections.
Share(amount, feeBps) == (amount * feeBps) \div BPS_DENOMINATOR

QuoteFee(amount, feeBps, minFee) ==
    LET fee == IF Share(amount, feeBps) < minFee THEN minFee ELSE Share(amount, feeBps)
    IN  IF fee > amount THEN amount ELSE fee

\* What sweep leaves the merchant; it reverts if the fee exceeds the amount.
ToMerchant(amount, feeBps, minFee) == amount - QuoteFee(amount, feeBps, minFee)
=============================================================================
