----------------------------- MODULE WalletSpec -----------------------------
(***************************************************************************)
(* What billing promises to one organisation: a wallet and one book per    *)
(* billing reference, and what a step may do to them. Billing.tla, where   *)
(* the callers lock rows, read balances and write them back one step at a  *)
(* time, implements it.                                                    *)
(***************************************************************************)
EXTENDS CreditBook

CONSTANT Refs  \* the billing references

VARIABLES
  wallet,      \* Wallet.balance_cents of the organisation
  book         \* the summary of the ledger, one book per reference

vars == <<wallet, book>>

Init ==
  /\ wallet = 0
  /\ book = [r \in Refs |-> NoCharges]

\* The wallet receives the cents, or pays them.
Receives(cents) == cents > 0 /\ wallet' = wallet + cents
Pays(cents) == cents > 0 /\ wallet' = wallet - cents

\* A payment, a promo code or an adjustment; refused while it leaves a debt.
Deposit(cents) ==
  /\ Receives(cents)
  /\ wallet' >= 0
  /\ UNCHANGED book

\* A charge is taken only from money that is there.
Charge(r, cents) ==
  /\ Pays(cents)
  /\ wallet' >= 0
  /\ book' = [book EXCEPT ![r] = Charged(@, cents)]

\* What is returned was charged and had not been returned before.
Refund(r, cents) ==
  /\ Receives(cents)
  /\ cents <= book[r].open
  /\ book' = [book EXCEPT ![r] = Returned(@, cents)]

\* A settlement gives back, once, no more than was ever charged ...
Surplus(r, cents) ==
  /\ Receives(cents)
  /\ cents <= book[r].open + book[r].closed
  /\ book[r].setl = 0
  /\ book' = [book EXCEPT ![r] = Settled(@, cents, 0)]

\* ... or takes the overage, once; that alone may overdraw the wallet.
Overage(r, cents) ==
  /\ Pays(cents)
  /\ HasCharges(book[r])
  /\ ~book[r].over
  /\ book' = [book EXCEPT ![r] = Settled(@, 0, cents)]

\* The cents that this step moves.
Moved == IF wallet' > wallet THEN wallet' - wallet ELSE wallet - wallet'

Next ==
  \/ Deposit(Moved)
  \/ \E r \in Refs :
       Charge(r, Moved) \/ Refund(r, Moved) \/ Surplus(r, Moved) \/ Overage(r, Moved)

Spec == Init /\ [][Next]_vars
=============================================================================
