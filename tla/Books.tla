------------------------------- MODULE Books -------------------------------
(***************************************************************************)
(* What the ledger promises of its money: every change of a balance or a   *)
(* hold is one atomic move, decided on the amounts as they are at that     *)
(* moment.  No sessions, snapshots, retries or statuses.                   *)
(***************************************************************************)
EXTENDS SubAccounts, FiniteSets, Functions

CONSTANTS
  Account, BalanceAccount, TransitAccount, Currency,
  InitialFunds,  \* the balances to begin with
  Payments,      \* the payments that are made
  Openings,      \* the amounts and currencies that accounts are opened with
  NewAccount     \* the accounts that are opened

SubKey == Account \X Currency

ASSUME BooksAssumption ==
  /\ IsFiniteSet(Account)
  /\ BalanceAccount \in Account /\ TransitAccount \in Account
  /\ BalanceAccount # TransitAccount
  /\ InitialFunds \in [SubKey -> Nat]
  /\ Payments \subseteq [debit: Account, credit: Account, amount: Int, currency: Currency]
  /\ Openings \subseteq [amount: Int, currency: Currency]
  /\ NewAccount \subseteq Account \ {BalanceAccount, TransitAccount}

VARIABLES
  balance,   \* what each sub-account has
  hold       \* what of it is set aside for payments

books == <<balance, hold>>

Init == balance = InitialFunds /\ hold = [k \in SubKey |-> 0]

\* A payer sets the amount of a payment aside.
Reserve(p) ==
  LET k == <<p.debit, p.currency>> IN
  /\ CanHold(balance, hold, k, p.amount)
  /\ hold' = holdForAmount(hold, k, p.amount)
  /\ UNCHANGED balance

\* A cancelled payment gives it back.
Free(p) ==
  LET k == <<p.debit, p.currency>> IN
  /\ CanRelease(hold, k, p.amount)
  /\ hold' = releaseForAmount(hold, k, p.amount)
  /\ UNCHANGED balance

\* The amount on hold goes to the payee, a fee of funds not on hold to transit.
Settle(p) ==
  LET fee == calculateTransactionFee(p.amount)
      from == <<p.debit, p.currency>>
      paid == creditForAmount(balance, from, p.amount + fee)
  IN /\ CanRelease(hold, from, p.amount)
     /\ CanCredit(balance, from, p.amount + fee)
     /\ currentBalance(balance, hold, from) >= fee
     /\ hold' = releaseForAmount(hold, from, p.amount)
     /\ balance' = debitForAmount(debitForAmount(paid, <<p.credit, p.currency>>, p.amount),
                                  <<TransitAccount, p.currency>>, fee)

\* All that transit has free in the currencies cs goes to the balance account.
Sweep(cs) ==
  LET free == [c \in Currency |-> IF c \in cs
                 THEN currentBalance(balance, hold, <<TransitAccount, c>>) ELSE 0]
  IN /\ \A c \in cs : CanCredit(balance, <<TransitAccount, c>>, free[c])
     /\ balance' = [k \in SubKey |->
                      IF k[1] = TransitAccount THEN balance[k] - free[k[2]]
                      ELSE IF k[1] = BalanceAccount THEN balance[k] + free[k[2]]
                      ELSE balance[k]]
     /\ UNCHANGED hold

\* An account is opened with funds of the balance account, on hold or not.
Fund(a, o) ==
  LET from == <<BalanceAccount, o.currency>> IN
  /\ CanCredit(balance, from, o.amount)
  /\ balance' = debitForAmount(creditForAmount(balance, from, o.amount), <<a, o.currency>>, o.amount)
  /\ UNCHANGED hold

Next ==
  \/ \E p \in Payments : Reserve(p) \/ Free(p) \/ Settle(p)
  \/ \E cs \in SUBSET Currency : Sweep(cs)
  \/ \E a \in NewAccount, o \in Openings : Fund(a, o)

Spec == Init /\ [][Next]_books

-----------------------------------------------------------------------------
(* What the moves preserve; proved in BooksProofs.                         *)

\* Nothing asks for an amount of zero or more (AmountPayloadDto has @IsNumber only), and
\* an amount below zero takes from the payee without a condition, lowers the payer's
\* hold, and has a fee below zero.  The sub-accounts that such amounts reach: those of
\* its payer and payee, in its currency those of transit and of the balance account,
\* to which the fees go, and those of the accounts opened with one.
Reached(k) ==
  \/ \E p \in Payments :
       /\ p.amount < 0 /\ p.currency = k[2]
       /\ k[1] \in {p.debit, p.credit, TransitAccount, BalanceAccount}
  \/ k[1] \in NewAccount /\ \E o \in Openings : o.amount < 0 /\ o.currency = k[2]

\* No move takes any other balance or hold below zero.
NeverNegative == \A k \in SubKey : ~Reached(k) => balance[k] >= 0 /\ hold[k] >= 0

\* The moves neither create nor destroy money: in each currency there is as much of it
\* as in the beginning.
Total(b, c) == SumFunctionOnSet(b, Account \X {c})

Conserved == \A c \in Currency : Total(balance, c) = Total(InitialFunds, c)

\* None of those accounts holds more than it has, except the one accounts are opened
\* from.
Covered ==
  \A k \in SubKey : k[1] # BalanceAccount /\ ~Reached(k) => hold[k] <= balance[k]
=============================================================================
