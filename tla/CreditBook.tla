----------------------------- MODULE CreditBook -----------------------------
(***************************************************************************)
(* The credit ledger of one billing reference (a generation job or a scene *)
(* regeneration), summarised by a book (apps/api/app/billing.py):          *)
(*   open     cents of ai_usage rows that no led_ref_ row has returned,    *)
(*   closed   cents of ai_usage rows that a led_ref_ row has returned,     *)
(*   setl     cents of the settlement refund led_set_, 0 without one,      *)
(*   over     the overage row led_over_ exists (its cents are in open or   *)
(*            closed: it is an ai_usage row).                              *)
(* Every module that pays for work uses these operators; Billing.tla shows *)
(* that the rows the code writes implement them.                           *)
(***************************************************************************)
EXTENDS Integers

Book == [open : Nat, closed : Nat, setl : Nat, over : BOOLEAN]

NoCharges == [open |-> 0, closed |-> 0, setl |-> 0, over |-> FALSE]

\* What the reference has received from the wallet; negative while it has paid.
Net(b) == b.setl - b.open

\* outstanding_charge_cents
Outstanding(b) == IF Net(b) < 0 THEN -Net(b) ELSE 0

HasCharges(b) == b.open + b.closed > 0

\* charge_feature, once the wallet has been found to hold the cents.
Charged(b, cents) == [b EXCEPT !.open = @ + cents]

\* refund_feature_charges over ai_usage rows of that many cents: they are
\* returned in full, whatever a settlement has already given back.
Returned(b, cents) == [b EXCEPT !.open = @ - cents, !.closed = @ + cents]

Refunded(b) == Returned(b, b.open)

\* settle_feature_charge: authorized is outstanding_charge_cents as it was
\* read, before the wallet row is locked; each of the two rows is written once.
Settled(b, authorized, actual) ==
  CASE ~HasCharges(b) -> b
    [] HasCharges(b) /\ authorized > actual /\ b.setl = 0 ->
         [b EXCEPT !.setl = authorized - actual]
    [] HasCharges(b) /\ actual > authorized /\ ~b.over ->
         [b EXCEPT !.open = @ + (actual - authorized), !.over = TRUE]
    [] OTHER -> b
=============================================================================
