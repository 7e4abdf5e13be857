---------------------------- MODULE SubAccounts ----------------------------
(***************************************************************************)
(* The rows of "public"."sub_accounts" and the four UPDATEs that           *)
(* SubAccountPostgresRepository runs on them.  A row is addressed by its   *)
(* primary key <<account, currency>>; its two int8 columns are the         *)
(* functions balance and hold.  An UPDATE is an operator on the column it  *)
(* assigns, its WHERE clause a predicate: the repository returns null, and *)
(* the account service throws, when the predicate is false.                *)
(*                                                                         *)
(* The vocabulary is the code's own, the reverse of bookkeeping usage:     *)
(* "debit" adds to a balance and "credit" takes from it.                   *)
(*                                                                         *)
(* An operator whose comment begins "Mutant" is a bug the operator after   *)
(* it could have had; nothing uses it but the mutation runs.               *)
(***************************************************************************)
EXTENDS Integers

\* domain/constants/index.ts: "2 percents".
PAYMENT_FEE_PERCENT == 2

\* Math.round((amount / 100) * PAYMENT_FEE_PERCENT): halves are rounded up, and
\* for the integers below 2^51 the floating-point halves are exact.
calculateTransactionFee(amount) == (amount * PAYMENT_FEE_PERCENT + 50) \div 100

\* AccountAggregate.toPlainJson(currency).currentBalance
currentBalance(balance, hold, key) == balance[key] - hold[key]

\* The one UPDATE without a condition: a value below zero takes from any balance.
debitForAmount(balance, key, value) == [balance EXCEPT ![key] = @ + value]

\* Mutant: an UPDATE without the condition on the balance.
CreditUnchecked(balance, key, value) == TRUE
CanCredit(balance, key, value) == balance[key] - value >= 0
\* Mutant: the sign that the word has in bookkeeping.
creditAdds(balance, key, value) == [balance EXCEPT ![key] = @ + value]
creditForAmount(balance, key, value) == [balance EXCEPT ![key] = @ - value]

\* Mutant: a condition that forgets what is on hold already.
HoldOfBalance(balance, hold, key, value) == balance[key] - value >= 0
CanHold(balance, hold, key, value) == balance[key] - hold[key] - value >= 0
holdForAmount(hold, key, value) == [hold EXCEPT ![key] = @ + value]

\* Mutant: an UPDATE without the condition on the hold.
ReleaseUnchecked(hold, key, value) == TRUE
CanRelease(hold, key, value) == hold[key] - value >= 0
\* Mutant: the fee is released with the amount, as if it were part of the hold.
releaseWithFee(hold, key, value) ==
  [hold EXCEPT ![key] = @ - value - calculateTransactionFee(value)]
releaseForAmount(hold, key, value) == [hold EXCEPT ![key] = @ - value]
=============================================================================
