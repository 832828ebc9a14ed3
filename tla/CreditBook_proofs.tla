-------------------------- MODULE CreditBook_proofs --------------------------
(***************************************************************************)
(* What the operators of the credit ledger keep and how much they move,    *)
(* for every book: the facts that the proofs about paid work rest on.      *)
(***************************************************************************)
EXTENDS CreditBook, TLAPS

\* The operators of the book keep its type.
LEMMA BookTypes ==
  ASSUME NEW b \in Book
  PROVE  /\ Net(b) \in Int /\ Outstanding(b) \in Nat
         /\ \A cents \in Nat : Charged(b, cents) \in Book
         /\ Refunded(b) \in Book
         /\ \A authorized, actual \in Nat : Settled(b, authorized, actual) \in Book
<1>1. b.open \in Nat /\ b.closed \in Nat /\ b.setl \in Nat /\ b.over \in BOOLEAN
  BY DEF Book
<1>2. Net(b) \in Int /\ Outstanding(b) \in Nat
  BY <1>1 DEF Net, Outstanding
<1>3. ASSUME NEW cents \in Nat PROVE Charged(b, cents) \in Book
  <2>1. b.open + cents \in Nat
    BY <1>1
  <2>2. QED
    BY <1>1, <2>1 DEF Charged, Book
<1>4. Refunded(b) \in Book
  <2>1. b.open - b.open \in Nat /\ b.closed + b.open \in Nat
    BY <1>1
  <2>2. QED
    BY <1>1, <2>1 DEF Refunded, Returned, Book
<1>5. ASSUME NEW authorized \in Nat, NEW actual \in Nat
      PROVE  Settled(b, authorized, actual) \in Book
  <2>1. authorized > actual => [b EXCEPT !.setl = authorized - actual] \in Book
    <3>1. authorized > actual => authorized - actual \in Nat
      OBVIOUS
    <3>2. QED
      BY <1>1, <3>1 DEF Book
  <2>2. actual > authorized =>
          [b EXCEPT !.open = @ + (actual - authorized), !.over = TRUE] \in Book
    <3>1. actual > authorized => b.open + (actual - authorized) \in Nat
      BY <1>1
    <3>2. QED
      BY <1>1, <3>1 DEF Book
  <2>3. QED
    BY <2>1, <2>2 DEF Settled
<1>6. QED
  BY <1>2, <1>3, <1>4, <1>5

\* A charge takes its cents from the wallet, a refund leaves the reference with
\* no less than it has paid.
LEMMA BookNets ==
  ASSUME NEW b \in Book
  PROVE  /\ \A cents \in Nat : Net(Charged(b, cents)) = Net(b) - cents
         /\ Net(Refunded(b)) \in Nat
<1>1. b.open \in Nat /\ b.setl \in Nat
  BY DEF Book
<1>2. ASSUME NEW cents \in Nat PROVE Net(Charged(b, cents)) = Net(b) - cents
  <2>1. Charged(b, cents).open = b.open + cents /\ Charged(b, cents).setl = b.setl
    BY DEF Charged, Book
  <2>2. QED
    BY <1>1, <2>1 DEF Net
<1>3. Refunded(b).open = 0 /\ Refunded(b).setl = b.setl
  BY <1>1 DEF Refunded, Returned, Book
<1>4. QED
  BY <1>1, <1>2, <1>3 DEF Net

\* A settlement that finds what it expects writes no row.
LEMMA SettledExact ==
  ASSUME NEW b \in Book, NEW actual \in Nat
  PROVE  Settled(b, actual, actual) = b
<1>1. ~(actual > actual)
  OBVIOUS
<1>2. QED
  BY <1>1 DEF Settled
=============================================================================
