------------------------- MODULE SubAccountsProofs -------------------------
(***************************************************************************)
(* Facts about the operators of SubAccounts.                               *)
(***************************************************************************)
EXTENDS SubAccounts, TLAPS

\* Math.round gives every amount a whole fee of the same sign, no further from zero: a
\* payment never costs more than twice its amount (calculateTransactionFee).
THEOREM FeeBounds ==
  \A n \in Int :
    /\ calculateTransactionFee(n) \in Int
    /\ n >= 0 => 0 <= calculateTransactionFee(n) /\ calculateTransactionFee(n) <= n
    /\ n <= 0 => n <= calculateTransactionFee(n) /\ calculateTransactionFee(n) <= 0
BY DEF calculateTransactionFee, PAYMENT_FEE_PERCENT

\* A larger payment never has a smaller fee.
THEOREM FeeMonotone ==
  \A m, n \in Int : m <= n => calculateTransactionFee(m) <= calculateTransactionFee(n)
BY DEF calculateTransactionFee, PAYMENT_FEE_PERCENT
=============================================================================
