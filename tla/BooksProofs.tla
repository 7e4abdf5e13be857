---------------------------- MODULE BooksProofs ----------------------------
(***************************************************************************)
(* No sequence of moves overdraws a sub-account, leaves a hold uncovered,   *)
(* or makes or loses money.                                                *)
(***************************************************************************)
EXTENDS Books, SubAccountsProofs, LibraryFacts

\* The two promises and the types that make them meaningful.
BooksInv ==
  /\ balance \in [SubKey -> Int]
  /\ hold \in [SubKey -> Int]
  /\ NeverNegative
  /\ Covered

\* What the moves do not disturb, one sub-account at a time.
Safe(b, h, k) ==
  ~Reached(k) => /\ b[k] >= 0 /\ h[k] >= 0
                 /\ k[1] # BalanceAccount => h[k] <= b[k]

LEMMA SafeInv == BooksInv <=> /\ balance \in [SubKey -> Int] /\ hold \in [SubKey -> Int]
                              /\ \A k \in SubKey : Safe(balance, hold, k)
BY DEF BooksInv, NeverNegative, Covered, Safe

\* Which sub-accounts are reached does not change.
LEMMA SafeInvNext == BooksInv' <=> /\ balance' \in [SubKey -> Int] /\ hold' \in [SubKey -> Int]
                                   /\ \A k \in SubKey : Safe(balance', hold', k)
BY DEF BooksInv, NeverNegative, Covered, Safe, Reached

\* The types of a payment, and of the sub-accounts that it changes.
LEMMA PaymentFacts ==
  ASSUME NEW p \in Payments
  PROVE  /\ p.debit \in Account /\ p.credit \in Account /\ p.currency \in Currency
         /\ p.amount \in Int /\ calculateTransactionFee(p.amount) \in Int
         /\ <<p.debit, p.currency>> \in SubKey /\ <<p.credit, p.currency>> \in SubKey
         /\ <<TransitAccount, p.currency>> \in SubKey
BY BooksAssumption, FeeBounds DEF SubKey

\* Only amounts of zero or more come to or leave a sub-account that is not reached.
LEMMA Unreached ==
  ASSUME NEW k \in SubKey, ~Reached(k), NEW p \in Payments, p.currency = k[2],
         k[1] \in {p.debit, p.credit, TransitAccount, BalanceAccount}
  PROVE  p.amount >= 0
<1>1. p.amount \in Int
  BY PaymentFacts
<1> QED
  BY <1>1 DEF Reached

LEMMA InitBooksInv == Init => BooksInv
BY BooksAssumption DEF Init, BooksInv, NeverNegative, Covered, SubKey

\* Setting aside takes from what is free.
LEMMA ReserveKeeps ==
  ASSUME BooksInv, NEW p \in Payments, Reserve(p)
  PROVE  BooksInv'
<1> DEFINE from == <<p.debit, p.currency>>
<1>1. /\ balance[from] - hold[from] - p.amount >= 0
      /\ hold' = [hold EXCEPT ![from] = @ + p.amount] /\ balance' = balance
  BY DEF Reserve, CanHold, holdForAmount
<1>3. /\ balance \in [SubKey -> Int] /\ hold \in [SubKey -> Int] /\ \A k \in SubKey : Safe(balance, hold, k)
      /\ from \in SubKey /\ p.amount \in Int
  BY SafeInv, PaymentFacts
<1>2. ASSUME NEW k \in SubKey
      PROVE  Safe(balance', hold', k)
  <2>1. ~Reached(k) /\ k = from => p.amount >= 0
    BY Unreached
  <2>2. /\ balance[k] \in Int /\ hold[k] \in Int /\ balance'[k] = balance[k]
        /\ hold'[k] = IF k = from THEN hold[k] + p.amount ELSE hold[k]
    BY <1>1, <1>3
  <2> HIDE DEF from
  <2> QED
    BY <1>1, <1>3, <2>1, <2>2 DEF Safe
<1> HIDE DEF from
<1>4. balance' \in [SubKey -> Int] /\ hold' \in [SubKey -> Int]
  BY <1>1, <1>3
<1> QED
  BY <1>2, <1>4, SafeInvNext

LEMMA FreeKeeps ==
  ASSUME BooksInv, NEW p \in Payments, Free(p)
  PROVE  BooksInv'
<1> DEFINE from == <<p.debit, p.currency>>
<1>1. /\ hold[from] - p.amount >= 0
      /\ hold' = [hold EXCEPT ![from] = @ - p.amount] /\ balance' = balance
  BY DEF Free, CanRelease, releaseForAmount
<1>3. /\ balance \in [SubKey -> Int] /\ hold \in [SubKey -> Int] /\ \A k \in SubKey : Safe(balance, hold, k)
      /\ from \in SubKey /\ p.amount \in Int
  BY SafeInv, PaymentFacts
<1>2. ASSUME NEW k \in SubKey
      PROVE  Safe(balance', hold', k)
  <2>1. ~Reached(k) /\ k = from => p.amount >= 0
    BY Unreached
  <2>2. /\ balance[k] \in Int /\ hold[k] \in Int /\ balance'[k] = balance[k]
        /\ hold'[k] = IF k = from THEN hold[k] - p.amount ELSE hold[k]
    BY <1>1, <1>3
  <2> HIDE DEF from
  <2> QED
    BY <1>1, <1>3, <2>1, <2>2 DEF Safe
<1> HIDE DEF from
<1>4. balance' \in [SubKey -> Int] /\ hold' \in [SubKey -> Int]
  BY <1>1, <1>3
<1> QED
  BY <1>2, <1>4, SafeInvNext

\* A settlement lowers the payer's free funds by the fee and no more.
LEMMA SettleKeeps ==
  ASSUME BooksInv, NEW p \in Payments, Settle(p)
  PROVE  BooksInv'
<1> DEFINE n == p.amount
           fee == calculateTransactionFee(n)
           ka == <<p.debit, p.currency>>
           kb == <<p.credit, p.currency>>
           kt == <<TransitAccount, p.currency>>
<1>1. n \in Int /\ fee \in Int /\ ka \in SubKey /\ kb \in SubKey /\ kt \in SubKey
  BY PaymentFacts
<1>2. /\ hold[ka] - n >= 0
      /\ balance[ka] - (n + fee) >= 0
      /\ balance[ka] - hold[ka] >= fee
      /\ hold' = [hold EXCEPT ![ka] = @ - n]
  BY DEF Settle, CanRelease, CanCredit, currentBalance, releaseForAmount
<1> DEFINE b1 == [balance EXCEPT ![ka] = @ - (n + fee)]
           b2 == [b1 EXCEPT ![kb] = @ + n]
<1>3. balance' = [b2 EXCEPT ![kt] = @ + fee]
  BY DEF Settle, creditForAmount, debitForAmount
<1>4. /\ balance \in [SubKey -> Int] /\ hold \in [SubKey -> Int]
      /\ \A k \in SubKey : Safe(balance, hold, k)
  BY SafeInv
<1>5. /\ hold' \in [SubKey -> Int] /\ b1 \in [SubKey -> Int]
      /\ b2 \in [SubKey -> Int] /\ balance' \in [SubKey -> Int]
  BY <1>1, <1>2, <1>3, <1>4
<1>6. ASSUME NEW k \in SubKey
      PROVE  Safe(balance', hold', k)
  <2>1. CASE Reached(k)
    BY <2>1 DEF Safe
  <2>2. CASE ~Reached(k) /\ k \in {ka, kb, kt}
    <3>1. n >= 0
      BY <2>2, Unreached
    <3>2. fee >= 0
      BY <1>1, <3>1, FeeBounds
    <3> HIDE DEF n, fee, ka, kb, kt
    <3>3. /\ hold'[k] = IF k = ka THEN hold[k] - n ELSE hold[k]
          /\ b1[k] = IF k = ka THEN balance[k] - (n + fee) ELSE balance[k]
      BY <1>1, <1>2, <1>4
    <3>4. hold'[k] >= 0 /\ b1[k] >= 0 /\ (k[1] # BalanceAccount => hold'[k] <= b1[k])
      BY <1>1, <1>2, <1>4, <2>2, <3>1, <3>2, <3>3 DEF Safe
    <3>5. balance'[k] >= b1[k]
      <4>1. b2[k] = IF k = kb THEN b1[k] + n ELSE b1[k]
        BY <1>1, <1>5
      <4>2. balance'[k] = IF k = kt THEN b2[k] + fee ELSE b2[k]
        BY <1>1, <1>3, <1>5
      <4>3. b1[k] \in Int
        BY <1>5
      <4> HIDE DEF b1, b2
      <4> QED
        BY <1>1, <3>1, <3>2, <4>1, <4>2, <4>3
    <3>6. hold'[k] \in Int /\ b1[k] \in Int /\ balance'[k] \in Int
      BY <1>5
    <3> HIDE DEF b1, b2
    <3> QED
      BY <3>4, <3>5, <3>6 DEF Safe
  <2>3. CASE k \notin {ka, kb, kt}
    <3>1. hold'[k] = hold[k] /\ balance'[k] = balance[k]
      BY <1>1, <1>2, <1>3, <1>4, <2>3
    <3> QED
      BY <1>4, <3>1 DEF Safe
  <2> QED
    BY <2>1, <2>2, <2>3
<1> QED
  BY <1>5, <1>6, SafeInvNext

\* A sweep leaves transit exactly its hold.
LEMMA SweepKeeps ==
  ASSUME BooksInv, NEW cs \in SUBSET Currency, Sweep(cs)
  PROVE  BooksInv'
<1> DEFINE free == [c \in Currency |-> IF c \in cs
              THEN currentBalance(balance, hold, <<TransitAccount, c>>) ELSE 0]
<1>1. /\ balance \in [SubKey -> Int] /\ hold \in [SubKey -> Int]
      /\ \A k \in SubKey : Safe(balance, hold, k)
  BY SafeInv
<1>2. /\ balance' = [k \in SubKey |->
                       IF k[1] = TransitAccount THEN balance[k] - free[k[2]]
                       ELSE IF k[1] = BalanceAccount THEN balance[k] + free[k[2]]
                       ELSE balance[k]]
      /\ hold' = hold
  BY DEF Sweep
<1>3. ASSUME NEW k \in SubKey
      PROVE  balance'[k] \in Int /\ Safe(balance', hold', k)
  <2> DEFINE c == k[2]
             kt == <<TransitAccount, c>>
  <2>1. c \in Currency /\ kt \in SubKey /\ k = <<k[1], c>>
    BY BooksAssumption DEF SubKey
  <2>2. /\ balance[kt] \in Int /\ hold[kt] \in Int /\ balance[k] \in Int /\ hold[k] \in Int
        /\ free[c] = IF c \in cs THEN balance[kt] - hold[kt] ELSE 0
    BY <1>1, <2>1 DEF currentBalance
  <2>3. ~Reached(k) /\ k[1] = BalanceAccount => ~Reached(kt)
    BY BooksAssumption DEF Reached
  <2>4. kt[1] # BalanceAccount /\ kt[2] = c
    BY BooksAssumption
  <2>5. Safe(balance, hold, k) /\ Safe(balance, hold, kt)
    BY <1>1, <2>1
  <2>6. k[1] = TransitAccount => k = kt
    BY <2>1
  <2>7. /\ k[1] = TransitAccount => balance'[k] = balance[k] - free[c]
        /\ k[1] = BalanceAccount => balance'[k] = balance[k] + free[c]
        /\ k[1] \notin {TransitAccount, BalanceAccount} => balance'[k] = balance[k]
    BY <1>2, BooksAssumption
  <2> HIDE DEF free, c, kt
  <2>8. CASE k[1] = TransitAccount
    BY <1>2, <2>2, <2>4, <2>5, <2>6, <2>7, <2>8 DEF Safe
  <2>9. CASE k[1] = BalanceAccount
    BY <1>2, <2>2, <2>3, <2>4, <2>5, <2>7, <2>9 DEF Safe
  <2>10. CASE k[1] \notin {TransitAccount, BalanceAccount}
    BY <1>2, <2>2, <2>5, <2>7, <2>10 DEF Safe
  <2> QED
    BY <2>8, <2>9, <2>10
<1>4. balance' \in [SubKey -> Int]
  BY <1>2, <1>3
<1> QED
  BY <1>1, <1>2, <1>3, <1>4, SafeInvNext

\* Opening an account looks at no hold, but takes from the balance account only; an
\* amount below zero takes from the new account.
LEMMA FundKeeps ==
  ASSUME BooksInv, NEW a \in NewAccount, NEW o \in Openings, Fund(a, o)
  PROVE  BooksInv'
<1> DEFINE n == o.amount
           kb == <<BalanceAccount, o.currency>>
           ka == <<a, o.currency>>
           b1 == [balance EXCEPT ![kb] = @ - n]
<1>1. /\ kb \in SubKey /\ ka \in SubKey /\ n \in Int /\ a # BalanceAccount
  BY BooksAssumption DEF SubKey
<1>2. balance[kb] - n >= 0 /\ balance' = [b1 EXCEPT ![ka] = @ + n] /\ hold' = hold
  BY DEF Fund, CanCredit, creditForAmount, debitForAmount
<1>3. /\ balance \in [SubKey -> Int] /\ hold \in [SubKey -> Int]
      /\ \A k \in SubKey : Safe(balance, hold, k)
  BY SafeInv
<1>4. balance' \in [SubKey -> Int] /\ hold' \in [SubKey -> Int]
  BY <1>1, <1>2, <1>3
<1>5. ASSUME NEW k \in SubKey
      PROVE  Safe(balance', hold', k)
  <2>1. Safe(balance, hold, k) /\ hold'[k] = hold[k] /\ hold[k] \in Int /\ balance[k] \in Int
    BY <1>2, <1>3
  <2>2. ~Reached(k) /\ k = ka => n >= 0
    BY <1>1 DEF Reached
  <2>3. k = kb => k[1] = BalanceAccount
    OBVIOUS
  <2>4. ka # kb
    BY <1>1
  <2>5. balance'[k] = IF k = ka THEN balance[k] + n ELSE IF k = kb THEN balance[k] - n ELSE balance[k]
    BY <1>1, <1>2, <1>3, <2>4
  <2> HIDE DEF n, ka, kb, b1
  <2> QED
    BY <1>1, <1>2, <2>1, <2>2, <2>3, <2>4, <2>5 DEF Safe
<1> QED
  BY <1>4, <1>5, SafeInvNext

LEMMA NextBooksInv == BooksInv /\ [Next]_books => BooksInv'
<1> SUFFICES ASSUME BooksInv, [Next]_books
             PROVE  BooksInv'
  OBVIOUS
<1>1. ASSUME NEW p \in Payments, Reserve(p) \/ Free(p) \/ Settle(p)
      PROVE  BooksInv'
  BY <1>1, ReserveKeeps, FreeKeeps, SettleKeeps
<1>2. ASSUME NEW cs \in SUBSET Currency, Sweep(cs)
      PROVE  BooksInv'
  BY <1>2, SweepKeeps
<1>3. ASSUME NEW a \in NewAccount, NEW o \in Openings, Fund(a, o)
      PROVE  BooksInv'
  BY <1>3, FundKeeps
<1>4. CASE UNCHANGED books
  BY <1>4 DEF books, BooksInv, NeverNegative, Covered, Reached
<1> QED
  BY <1>1, <1>2, <1>3, <1>4 DEF Next

\* Whatever amounts are submitted, no balance and no hold falls below zero but those
\* that an amount below zero reaches: for every other sub-account the guards of three
\* UPDATEs are enough, and debitForAmount, the fourth, needs none.
THEOREM BooksNeverNegative == Spec => []NeverNegative
<1>1. BooksInv => NeverNegative
  BY DEF BooksInv
<1> QED
  BY <1>1, InitBooksInv, NextBooksInv, PTL DEF Spec

\* Nor can any of those but the balance account be left with less than it holds: besides
\* the guards of the UPDATEs this takes the fee check of processTransaction.
THEOREM BooksSafe == Spec => []Covered
<1>1. BooksInv => Covered
  BY DEF BooksInv
<1> QED
  BY <1>1, InitBooksInv, NextBooksInv, PTL DEF Spec
-----------------------------------------------------------------------------
(* Every move takes from some sub-accounts what it gives to others.        *)

\* The balances g are b with n more in the sub-account e.
Changed(b, g, e, n) ==
  /\ e \in SubKey /\ n \in Int
  /\ \A k \in SubKey : b[k] \in Int /\ g[k] = b[k] + (IF k = e THEN n ELSE 0)

\* A change of one sub-account changes the total of its currency, and no other.
LEMMA TotalChanges ==
  ASSUME NEW b, NEW g, NEW e, NEW n, Changed(b, g, e, n), NEW c \in Currency
  PROVE  Total(g, c) = Total(b, c) + (IF e[2] = c THEN n ELSE 0)
<1> USE DEF Changed
<1> DEFINE Subs == Account \X {c}
<1>1. IsFiniteSet(Subs)
  BY BooksAssumption, FS_Product, FS_Singleton
<1>2. Subs \subseteq SubKey /\ \A k \in Subs : k[2] = c
  BY DEF SubKey
<1>3. \A k \in Subs : b[k] \in Int /\ g[k] \in Int
  BY <1>2
<1>4. SumFunctionOnSet(b, Subs) \in Int
  <2> HIDE DEF Subs
  <2> QED BY <1>1, <1>3, SumInt
<1>5. CASE e[2] = c
  <2>1. e \in Subs
    BY <1>5 DEF SubKey
  <2>2. \A k \in Subs \ {e} : g[k] = b[k]
    BY <1>2
  <2>3. SumFunctionOnSet(g, Subs) = SumFunctionOnSet(b, Subs) + (g[e] - b[e])
    <3> HIDE DEF Subs
    <3> QED BY <1>1, <1>3, <2>1, <2>2, SumChange
  <2> QED
    BY <1>3, <1>4, <1>5, <2>1, <2>3 DEF Total
<1>6. CASE e[2] # c
  <2>1. \A k \in Subs : g[k] = b[k]
    BY <1>2, <1>6
  <2>2. SumFunctionOnSet(g, Subs) = SumFunctionOnSet(b, Subs)
    <3> HIDE DEF Subs
    <3> QED BY <1>1, <2>1, SumSame
  <2> QED
    BY <1>4, <1>6, <2>2 DEF Total
<1> QED
  BY <1>5, <1>6

LEMMA TotalInt ==
  ASSUME NEW b, \A k \in SubKey : b[k] \in Int, NEW c \in Currency
  PROVE  Total(b, c) \in Int
<1>1. IsFiniteSet(Account \X {c})
  BY BooksAssumption, FS_Product, FS_Singleton
<1>2. \A k \in Account \X {c} : b[k] \in Int
  BY DEF SubKey
<1> QED
  BY <1>1, <1>2, SumInt DEF Total

\* What leaves the payer, the amount and the fee, reaches the payee and transit,
\* even when some of the three are one account.
LEMMA SettleConserves ==
  ASSUME BooksInv, NEW p \in Payments, Settle(p), NEW d \in Currency
  PROVE  Total(balance', d) = Total(balance, d)
<1> DEFINE n == p.amount
           c == p.currency
           fee == calculateTransactionFee(n)
           ka == <<p.debit, c>>
           kb == <<p.credit, c>>
           kt == <<TransitAccount, c>>
           b1 == [balance EXCEPT ![ka] = @ - (n + fee)]
           b2 == [b1 EXCEPT ![kb] = @ + n]
<1>1. fee \in Int /\ n \in Int
  BY PaymentFacts
<1>2. /\ ka \in SubKey /\ kb \in SubKey /\ kt \in SubKey
      /\ ka[2] = c /\ kb[2] = c /\ kt[2] = c
  BY PaymentFacts
<1>3. balance' = [b2 EXCEPT ![kt] = @ + fee]
  BY DEF Settle, creditForAmount, debitForAmount
<1> HIDE DEF n, c, fee, ka, kb, kt
<1>4. b1 \in [SubKey -> Int] /\ Changed(balance, b1, ka, -(n + fee))
  BY <1>1, <1>2 DEF BooksInv, Changed
<1>5. b2 \in [SubKey -> Int] /\ Changed(b1, b2, kb, n)
  <2> HIDE DEF b1
  <2> QED BY <1>1, <1>2, <1>4 DEF Changed
<1>6. Changed(b2, balance', kt, fee)
  <2> HIDE DEF b2
  <2> QED BY <1>1, <1>2, <1>3, <1>5 DEF Changed
<1> HIDE DEF b1, b2
<1>7. Total(b1, d) = Total(balance, d) + (IF c = d THEN -(n + fee) ELSE 0)
  BY <1>2, <1>4, TotalChanges
<1>8. Total(b2, d) = Total(b1, d) + (IF c = d THEN n ELSE 0)
  BY <1>2, <1>5, TotalChanges
<1>9. Total(balance', d) = Total(b2, d) + (IF c = d THEN fee ELSE 0)
  BY <1>2, <1>6, TotalChanges
<1>10. Total(balance, d) \in Int
  BY TotalInt DEF BooksInv
<1> QED
  BY <1>1, <1>7, <1>8, <1>9, <1>10

\* In each currency what leaves transit reaches the balance account.
LEMMA SweepConserves ==
  ASSUME BooksInv, NEW cs \in SUBSET Currency, Sweep(cs), NEW c \in Currency
  PROVE  Total(balance', c) = Total(balance, c)
<1> DEFINE free == [d \in Currency |-> IF d \in cs
              THEN currentBalance(balance, hold, <<TransitAccount, d>>) ELSE 0]
           kt == <<TransitAccount, c>>
           kb == <<BalanceAccount, c>>
           n == free[c]
           b1 == [balance EXCEPT ![kt] = @ - n]
           b2 == [b1 EXCEPT ![kb] = @ + n]
<1>1. n \in Int
  BY BooksAssumption DEF BooksInv, SubKey, currentBalance
<1>2. /\ kt \in SubKey /\ kb \in SubKey /\ kt # kb /\ kt[2] = c /\ kb[2] = c
      /\ \A k \in Account \X {c} : /\ k \in SubKey /\ k[2] = c
                                   /\ k[1] = TransitAccount <=> k = kt
                                   /\ k[1] = BalanceAccount <=> k = kb
  BY BooksAssumption DEF SubKey
<1>3. balance' = [k \in SubKey |->
                    IF k[1] = TransitAccount THEN balance[k] - free[k[2]]
                    ELSE IF k[1] = BalanceAccount THEN balance[k] + free[k[2]]
                    ELSE balance[k]]
  BY DEF Sweep
<1> HIDE DEF free, kt, kb
<1>4. \A k \in Account \X {c} :
        balance'[k] = IF k = kt THEN balance[k] - n ELSE IF k = kb THEN balance[k] + n ELSE balance[k]
  BY <1>2, <1>3
<1> HIDE DEF n
<1>5. b1 \in [SubKey -> Int] /\ Changed(balance, b1, kt, -n)
  BY <1>1, <1>2 DEF BooksInv, Changed
<1>6. Changed(b1, b2, kb, n)
  <2> HIDE DEF b1
  <2> QED BY <1>1, <1>2, <1>5 DEF Changed
<1>7. \A k \in Account \X {c} : balance'[k] = b2[k]
  <2> HIDE DEF b1, b2
  <2> QED BY <1>1, <1>2, <1>4, <1>5, <1>6 DEF BooksInv, Changed
<1> HIDE DEF b1, b2
<1>8. Total(b1, c) = Total(balance, c) + (-n)
  BY <1>2, <1>5, TotalChanges
<1>9. Total(b2, c) = Total(b1, c) + n
  BY <1>2, <1>6, TotalChanges
<1>10. Total(balance', c) = Total(b2, c)
  <2>1. IsFiniteSet(Account \X {c})
    BY BooksAssumption, FS_Product, FS_Singleton
  <2> QED
    BY <1>7, <2>1, SumSame DEF Total
<1>11. Total(balance, c) \in Int
  BY TotalInt DEF BooksInv
<1> QED
  BY <1>1, <1>8, <1>9, <1>10, <1>11

\* The funds of a new account come from the balance account.
LEMMA FundConserves ==
  ASSUME BooksInv, NEW a \in NewAccount, NEW o \in Openings, Fund(a, o), NEW d \in Currency
  PROVE  Total(balance', d) = Total(balance, d)
<1> DEFINE n == o.amount
           c == o.currency
           kb == <<BalanceAccount, c>>
           ka == <<a, c>>
           b1 == [balance EXCEPT ![kb] = @ - n]
<1>1. kb \in SubKey /\ ka \in SubKey /\ kb[2] = c /\ ka[2] = c /\ n \in Int
  BY BooksAssumption DEF SubKey
<1>2. balance' = [b1 EXCEPT ![ka] = @ + n]
  BY DEF Fund, creditForAmount, debitForAmount
<1> HIDE DEF n, c, ka, kb
<1>3. b1 \in [SubKey -> Int] /\ Changed(balance, b1, kb, -n)
  BY <1>1 DEF BooksInv, Changed
<1>4. Changed(b1, balance', ka, n)
  <2> HIDE DEF b1
  <2> QED BY <1>1, <1>2, <1>3 DEF Changed
<1> HIDE DEF b1
<1>5. Total(b1, d) = Total(balance, d) + (IF c = d THEN -n ELSE 0)
  BY <1>1, <1>3, TotalChanges
<1>6. Total(balance', d) = Total(b1, d) + (IF c = d THEN n ELSE 0)
  BY <1>1, <1>4, TotalChanges
<1>7. Total(balance, d) \in Int
  BY TotalInt DEF BooksInv
<1> QED
  BY <1>1, <1>5, <1>6, <1>7

LEMMA InitConserved == Init => Conserved
BY DEF Init, Conserved

LEMMA NextConserved == BooksInv /\ Conserved /\ [Next]_books => Conserved'
<1> SUFFICES ASSUME BooksInv, [Next]_books, NEW c \in Currency
             PROVE  Total(balance', c) = Total(balance, c)
  BY DEF Conserved, Total
<1>1. CASE balance' = balance
  BY <1>1
<1>2. ASSUME NEW p \in Payments, Settle(p)
      PROVE  Total(balance', c) = Total(balance, c)
  BY <1>2, SettleConserves
<1>3. ASSUME NEW cs \in SUBSET Currency, Sweep(cs)
      PROVE  Total(balance', c) = Total(balance, c)
  BY <1>3, SweepConserves
<1>4. ASSUME NEW a \in NewAccount, NEW o \in Openings, Fund(a, o)
      PROVE  Total(balance', c) = Total(balance, c)
  BY <1>4, FundConserves
<1> QED
  BY <1>1, <1>2, <1>3, <1>4 DEF Next, Reserve, Free, books

\* Money is neither made nor lost: the four UPDATEs of a move take from the balances
\* of a currency exactly what they add to others, whoever pays whom.
THEOREM BooksConserve == Spec => []Conserved
BY InitBooksInv, NextBooksInv, InitConserved, NextConserved, PTL DEF Spec
=============================================================================
