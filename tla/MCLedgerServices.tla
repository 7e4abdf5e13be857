-------------------------- MODULE MCLedgerServices --------------------------
(***************************************************************************)
(* Instances of LedgerServices for TLC.  The amounts 50 and 100 have the   *)
(* fees 1 and 2.  In usd alice can hold and settle two payments and has    *)
(* nothing left; in eur she can hold two but has the fee of one only.     *)
(***************************************************************************)
EXTENDS LedgerServices, TLC

CONSTANTS w1, w2, t1, t2, alice, bob, carol, treasury, transit, usd, eur

Pay(d, c, n) == [debit |-> d, credit |-> c, amount |-> n, currency |-> usd]

\* One payer, one payee.
OneWay == {Pay(alice, bob, 50)}

\* In eur, where the fee of a second payment is missing.
InEur == {[Pay(alice, bob, 50) EXCEPT !.currency = eur]}

\* A payee that may not be open yet, the balance account as the payer, an
\* account that pays itself, an amount below zero for a payee that may not be open yet.
OpenMix == {Pay(alice, carol, 50), Pay(treasury, alice, 100), Pay(alice, alice, 50),
            Pay(treasury, carol, -50)}

None == {}

\* carol may be opened with an amount below zero, too.
OpenMixed == {[amount |-> 100, currency |-> usd], [amount |-> -50, currency |-> usd]}

Funds == [k \in SubKey |->
            IF k[2] = usd
            THEN CASE k[1] = alice -> 102 [] k[1] = treasury -> 150 [] OTHER -> 0
            ELSE IF k[1] = alice THEN 101 ELSE 0]

\* Two calls that both saw 100 put all of it on hold, and nothing is left for a fee.
TightFunds == [k \in SubKey |-> IF k[1] = alice THEN 100 ELSE 0]

\* Nothing bounds a hold that creates of such amounts lower and then fail.
Bound == 50
Bounded == \A k \in SubKey : hold[k] >= -Bound

Symmetry == Permutations(Worker) \cup Permutations(TrxId)
=============================================================================
