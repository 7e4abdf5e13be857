------------------------------ MODULE MCBooks ------------------------------
(***************************************************************************)
(* A small instance of Books: two clients, an account to open, and amounts *)
(* that leave the fee of the last payment uncovered.  In eur bob pays      *)
(* carol an amount below zero, which reaches them, transit and treasury;   *)
(* alice, who pays bob in that currency too, is not reached.               *)
(***************************************************************************)
EXTENDS Books

CONSTANTS alice, bob, carol, treasury, transit, usd, eur

Pay(d, c, n, cur) == [debit |-> d, credit |-> c, amount |-> n, currency |-> cur]

Paid == {Pay(alice, bob, 50, usd), Pay(alice, bob, 50, eur), Pay(bob, carol, -50, eur)}

Opened == {[amount |-> 50, currency |-> usd]}

Funds == [k \in SubKey |-> CASE k[1] = alice -> 52
                             [] k[1] = treasury /\ k[2] = usd -> 60
                             [] OTHER -> 0]

\* Nothing bounds what amounts below zero take from a payee, nor a hold they are added
\* to and released from.
Bound == 200
Bounded == \A k \in SubKey : hold[k] \in -Bound..Bound /\ balance[k] >= -Bound
=============================================================================
