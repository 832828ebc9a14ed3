------------------------------ MODULE Billing ------------------------------
(***************************************************************************)
(* apps/api/app/billing.py, one database statement at a time: the wallet   *)
(* of an organisation, its ledger, and the transactions that charge,       *)
(* refund, settle and top up. A transaction belongs to a process (a        *)
(* request handler, a background task or a workflow executor, on any API   *)
(* instance). SELECT .. FOR UPDATE takes the row lock of the wallet and of *)
(* the project; a plain SELECT sees what is committed when it runs         *)
(* (PostgreSQL, READ COMMITTED). All references belong to one project and  *)
(* one calendar month.                                                     *)
(*                                                                         *)
(* Processes in OnLoop are coroutines on the event loop of the instance:   *)
(* their statements block the loop, a row lock that has to be waited for   *)
(* included. The others are handlers on pool threads. A handler that       *)
(* leaves with an HTTPException keeps its locks until its session is       *)
(* closed (get_db), and closing it takes a turn of the loop in both cases. *)
(***************************************************************************)
EXTENDS CreditBook, Sequences, FiniteSets, Functions

CONSTANTS
  Refs,          \* the billing references: generation jobs, regenerations
  Procs,         \* the processes with a database session
  OnLoop,        \* those of them that run on the event loop
  Nobody,        \* the holder of a free row lock
  MaxCents,      \* bound: the largest price or payment
  MaxActual,     \* bound: the largest actual cost of a settlement
  BudgetCents,   \* monthly_usd of the project in cents, 0 for no limit
  MaxRows,       \* bound: charges of one reference
  MaxDeposits    \* bound: cents ever paid in

ASSUME BillingAssumption ==
  /\ Refs /= {} /\ IsFiniteSet(Refs)
  /\ Nobody \notin Procs
  /\ OnLoop \subseteq Procs
  /\ MaxCents \in Nat \ {0}
  /\ MaxActual \in Nat
  /\ BudgetCents \in Nat
  /\ MaxRows \in Nat
  /\ MaxDeposits \in Nat

VARIABLES
  wallet,      \* Wallet.balance_cents
  walletLock,  \* the process that holds the wallet row
  projectLock, \* the process that holds the project row
  usage,       \* usage[r]: the ai_usage rows of r, oldest first
  settlement,  \* settlement[r]: cents of the row led_set_, 0 without one
  deposits,    \* sum of the ledger rows without a reference
  proc         \* proc[p]: the transaction of p

vars == <<wallet, walletLock, projectLock, usage, settlement, deposits, proc>>

Cents == 1..MaxCents

\* An ai_usage row; refunded when the row led_ref_<its id> exists, over when it
\* is the row led_over_.
Row == [cents : Nat, over : BOOLEAN, refunded : BOOLEAN]

PCs == {"idle", "project", "charge", "chargeWrite", "refund", "refundWrite",
        "settleCheck", "settle", "settleWrite", "deposit", "depositWrite", "refused", "closing"}

HoldsWallet == {"chargeWrite", "refundWrite", "settleWrite", "depositWrite"}

NoTransaction ==
  [pc |-> "idle", ref |-> CHOOSE r \in Refs : TRUE, cents |-> 0, seen |-> 0, auth |-> 0, bal |-> 0]

Init ==
  /\ wallet = 0
  /\ walletLock = Nobody
  /\ projectLock = Nobody
  /\ usage = [r \in Refs |-> <<>>]
  /\ settlement = [r \in Refs |-> 0]
  /\ deposits = 0
  /\ proc = [p \in Procs |-> NoTransaction]

(***************************************************************************)
(* What a SELECT over the ledger returns.                                  *)
(***************************************************************************)
RowCents(rows, wanted) ==
  LET cents == [i \in DOMAIN rows |-> rows[i].cents]
  IN  SumFunctionOnSet(cents, wanted)

Unrefunded(rows) == {i \in DOMAIN rows : ~rows[i].refunded}

BookOf(r) ==
  [open   |-> RowCents(usage[r], Unrefunded(usage[r])),
   closed |-> RowCents(usage[r], DOMAIN usage[r] \ Unrefunded(usage[r])),
   setl   |-> settlement[r],
   over   |-> \E i \in DOMAIN usage[r] : usage[r][i].over]

NetOf(S) == LET net == [r \in S |-> Net(BookOf(r))] IN SumFunction(net)

\* project_budget_snapshot: usage and refunds of the project, never below zero.
Spent == LET net == NetOf(Refs) IN IF net < 0 THEN -net ELSE 0

\* The led_set_ or led_over_ row that this settlement would write exists.
AlreadySettled(p) ==
  LET r == proc[p].ref
  IN  IF proc[p].auth > proc[p].cents
      THEN settlement[r] > 0
      ELSE BookOf(r).over

(***************************************************************************)
(* Transactions.                                                           *)
(***************************************************************************)
Goto(p, pc) == proc' = [proc EXCEPT ![p].pc = pc]

\* Mistake: the wallet row stays locked.
EndKeepsWallet(p) ==
  /\ proc' = [proc EXCEPT ![p] = NoTransaction]
  /\ projectLock' = IF projectLock = p THEN Nobody ELSE projectLock
  /\ UNCHANGED walletLock

\* Commit, rollback or session close: every lock of p is released.
End(p) ==
  /\ proc' = [proc EXCEPT ![p] = NoTransaction]
  /\ walletLock' = IF walletLock = p THEN Nobody ELSE walletLock
  /\ projectLock' = IF projectLock = p THEN Nobody ELSE projectLock

\* No coroutine is inside a transaction; one that is being closed awaits.
LoopIsFree == \A p \in OnLoop : proc[p].pc \in {"idle", "closing"}

Begin(p, pc, r, cents, seen, auth) ==
  /\ proc[p].pc = "idle"
  /\ p \in OnLoop => LoopIsFree
  /\ proc' = [proc EXCEPT ![p] =
       [pc |-> pc, ref |-> r, cents |-> cents, seen |-> seen, auth |-> auth,
        bal |-> 0]]

BeginCharge(p, r, cents) ==
  /\ Len(usage[r]) < MaxRows
  /\ Begin(p, "project", r, cents, 0, 0)
  /\ UNCHANGED <<wallet, walletLock, projectLock, usage, settlement, deposits>>

WithinBudget(cents) == BudgetCents = 0 \/ Spent + cents <= BudgetCents

\* Mistake: the project row is read without FOR UPDATE.
TakeProjectNoWait(p) == TRUE

TakeProject(p) == projectLock = Nobody

\* enforce_project_budget: lock the project row, then compare.
LockProject(p) ==
  /\ proc[p].pc = "project"
  /\ TakeProject(p)
  /\ projectLock' = p
  /\ Goto(p, IF WithinBudget(proc[p].cents) THEN "charge" ELSE "refused")
  /\ UNCHANGED <<wallet, walletLock, usage, settlement, deposits>>

\* refund_feature_charges: the charges are read before the wallet is locked.
BeginRefund(p, r) ==
  /\ usage[r] /= <<>>
  /\ Begin(p, "refund", r, 0, Len(usage[r]), 0)
  /\ UNCHANGED <<wallet, walletLock, projectLock, usage, settlement, deposits>>

\* settle_feature_charge: so is what is outstanding.
BeginSettle(p, r, actual) ==
  /\ usage[r] /= <<>>
  /\ Begin(p, "settleCheck", r, actual, 0, Outstanding(BookOf(r)))
  /\ UNCHANGED <<wallet, walletLock, projectLock, usage, settlement, deposits>>

\* add_ledger_entry for a captured payment, a promo code or an adjustment.
BeginDeposit(p, cents) ==
  /\ deposits + cents <= MaxDeposits
  /\ Begin(p, "deposit", NoTransaction.ref, cents, 0, 0)
  /\ UNCHANGED <<wallet, walletLock, projectLock, usage, settlement, deposits>>

CheckSettled(p) ==
  /\ proc[p].pc = "settleCheck"
  /\ IF proc[p].auth = proc[p].cents \/ AlreadySettled(p)
       THEN End(p)
       ELSE Goto(p, "settle") /\ UNCHANGED <<walletLock, projectLock>>
  /\ UNCHANGED <<wallet, usage, settlement, deposits>>

\* Mistake: the wallet is read without FOR UPDATE.
TakeWalletNoWait(p) == TRUE

\* SELECT .. FOR UPDATE of the wallet waits for the holder and reads the row.
TakeWallet(p) == walletLock = Nobody

LockWallet(p, from, to) ==
  /\ proc[p].pc = from
  /\ TakeWallet(p)
  /\ walletLock' = p
  /\ proc' = [proc EXCEPT ![p] = [@ EXCEPT !.pc = to, !.bal = wallet]]
  /\ UNCHANGED <<wallet, projectLock, usage, settlement, deposits>>

\* next_balance < 0 and not allow_negative_balance: 402 insufficient_balance.
Covered(balance) == balance >= 0

Insufficient(p) ==
  /\ \/ proc[p].pc = "chargeWrite" /\ ~Covered(proc[p].bal - proc[p].cents)
     \/ proc[p].pc = "depositWrite" /\ ~Covered(proc[p].bal + proc[p].cents)
  /\ Goto(p, "refused")
  /\ UNCHANGED <<wallet, walletLock, projectLock, usage, settlement, deposits>>

\* 402: the handler catches it and commits (create_generation deletes the job),
\* or it leaves with its locks (retry_generation, start_generation_scenes).
Refused(p) ==
  /\ proc[p].pc = "refused"
  /\ \/ End(p)
     \/ Goto(p, "closing") /\ UNCHANGED <<walletLock, projectLock>>
  /\ UNCHANGED <<wallet, usage, settlement, deposits>>

\* get_db closes the session on a thread that the loop has to start.
Close(p) ==
  /\ proc[p].pc = "closing"
  /\ LoopIsFree
  /\ End(p)
  /\ UNCHANGED <<wallet, usage, settlement, deposits>>

\* Mistake: the row keeps the sign of the ledger amount.
WriteChargeNegative(p) ==
  /\ proc[p].pc = "chargeWrite"
  /\ Covered(proc[p].bal - proc[p].cents)
  /\ wallet' = proc[p].bal - proc[p].cents
  /\ usage' = [usage EXCEPT ![proc[p].ref] = Append(@,
       [cents |-> -proc[p].cents, over |-> FALSE, refunded |-> FALSE])]
  /\ End(p)
  /\ UNCHANGED <<settlement, deposits>>

WriteCharge(p) ==
  /\ proc[p].pc = "chargeWrite"
  /\ Covered(proc[p].bal - proc[p].cents)
  /\ wallet' = proc[p].bal - proc[p].cents
  /\ usage' = [usage EXCEPT ![proc[p].ref] = Append(@,
       [cents |-> proc[p].cents, over |-> FALSE, refunded |-> FALSE])]
  /\ End(p)
  /\ UNCHANGED <<settlement, deposits>>

WriteDeposit(p) ==
  /\ proc[p].pc = "depositWrite"
  /\ Covered(proc[p].bal + proc[p].cents)
  /\ wallet' = proc[p].bal + proc[p].cents
  /\ deposits' = deposits + proc[p].cents
  /\ End(p)
  /\ UNCHANGED <<usage, settlement>>

\* Mistake: a repeated refund returns every charge again.
ReturnableAgain(p) == 1..proc[p].seen

\* The rows the refund returns: those it read, without the ones that have a
\* led_ref_ row by now.
Returnable(p) == {i \in Unrefunded(usage[proc[p].ref]) : i <= proc[p].seen}

\* The led_ref_ rows of the rows W are written.
Returning(rows, W) ==
  [i \in DOMAIN rows |->
     IF i \in W THEN [rows[i] EXCEPT !.refunded = TRUE] ELSE rows[i]]

WriteRefund(p) ==
  /\ proc[p].pc = "refundWrite"
  /\ wallet' = proc[p].bal + RowCents(usage[proc[p].ref], Returnable(p))
  /\ usage' = [usage EXCEPT ![proc[p].ref] = Returning(@, Returnable(p))]
  /\ End(p)
  /\ UNCHANGED <<settlement, deposits>>

\* A second led_set_ or led_over_ row violates the primary key: rollback.
DuplicateSettlement(p) ==
  /\ proc[p].pc = "settleWrite"
  /\ AlreadySettled(p)
  /\ End(p)
  /\ UNCHANGED <<wallet, usage, settlement, deposits>>

WriteSettlement(p) ==
  /\ proc[p].pc = "settleWrite"
  /\ ~AlreadySettled(p)
  /\ wallet' = proc[p].bal + (proc[p].auth - proc[p].cents)
  /\ IF proc[p].auth > proc[p].cents
       THEN /\ settlement' = [settlement EXCEPT ![proc[p].ref] = proc[p].auth - proc[p].cents]
            /\ UNCHANGED usage
       ELSE /\ usage' = [usage EXCEPT ![proc[p].ref] = Append(@,
                 [cents |-> proc[p].cents - proc[p].auth, over |-> TRUE,
                  refunded |-> FALSE])]
            /\ UNCHANGED settlement
  /\ End(p)
  /\ UNCHANGED deposits

\* The process dies or is cut off from the database inside a transaction.
Abort(p) ==
  /\ proc[p].pc /= "idle"
  /\ End(p)
  /\ UNCHANGED <<wallet, usage, settlement, deposits>>

Call(p) ==
  \/ \E c \in Cents : BeginDeposit(p, c)
  \/ \E r \in Refs :
       \/ BeginRefund(p, r)
       \/ \E c \in Cents : BeginCharge(p, r, c)
       \/ \E actual \in 0..MaxActual : BeginSettle(p, r, actual)

Lock(p) ==
  \/ LockProject(p)
  \/ LockWallet(p, "charge", "chargeWrite")
  \/ LockWallet(p, "refund", "refundWrite")
  \/ LockWallet(p, "settle", "settleWrite")
  \/ LockWallet(p, "deposit", "depositWrite")

Write(p) ==
  \/ CheckSettled(p) \/ Insufficient(p) \/ Refused(p) \/ WriteCharge(p) \/ WriteDeposit(p)
  \/ WriteRefund(p) \/ DuplicateSettlement(p) \/ WriteSettlement(p)

Next == \E p \in Procs : Call(p) \/ Lock(p) \/ Write(p) \/ Close(p) \/ Abort(p)

Spec == Init /\ [][Next]_vars

\* The database serves the waiters of a row lock in order, the loop its tasks,
\* and a transaction that holds its locks runs on (billing.py never awaits).
Fairness ==
  \A p \in Procs : SF_vars(Lock(p)) /\ SF_vars(Close(p)) /\ WF_vars(Write(p))

FairSpec == Spec /\ Fairness

(***************************************************************************)
(* Properties.                                                             *)
(***************************************************************************)
\* The types of all variables; DOMAINs included so that updates stay defined.
TypeOK ==
  /\ wallet \in Int
  /\ walletLock \in Procs \cup {Nobody}
  /\ projectLock \in Procs \cup {Nobody}
  /\ usage \in [Refs -> Seq(Row)]
  /\ settlement \in [Refs -> Nat]
  /\ deposits \in Int
  /\ proc \in [Procs -> [pc : PCs, ref : Refs, cents : Nat, seen : Nat,
                         auth : Nat, bal : Int]]

OverRows(r) == {i \in DOMAIN usage[r] : usage[r][i].over}

OverageCents ==
  LET over == [r \in Refs |-> RowCents(usage[r], OverRows(r))]
  IN  SumFunction(over)

\* The monthly budget is passed by overages only: two charges that race on
\* different jobs of the project cannot both take the last cents
\* (enforce_project_budget holds the project row to the end of the charge).
BudgetRespected ==
  BudgetCents > 0 => -NetOf(Refs) <= BudgetCents + OverageCents

\* Lock order: a transaction that waits for a row eventually ends, so no two of
\* them wait for each other (project row before wallet row, everywhere).
TransactionsEnd == \A p \in Procs : proc[p].pc /= "idle" ~> proc[p].pc = "idle"

\* Who asks for more than there is, is answered (tests/test_auth_multitenancy.py:346,
\* "assert insufficient.status_code == 402"), and the locks of the request are
\* free again, also when somebody else asks at the same time.
RefusalsAnswered == \A p \in Procs : proc[p].pc = "closing" ~> proc[p].pc = "idle"

\* The row locks and the balances read under them are sound: the invariant
\* that the other ones rest on.
LocksHeld ==
  /\ \A p \in Procs : proc[p].pc \in HoldsWallet =>
       walletLock = p /\ proc[p].bal = wallet
  /\ \A p \in Procs : proc[p].pc \in {"charge", "chargeWrite"} => projectLock = p
  /\ \A p \in Procs : walletLock = p => proc[p].pc \in HoldsWallet \cup {"refused", "closing"}
  /\ \A p \in Procs : projectLock = p =>
       proc[p].pc \in {"charge", "chargeWrite", "refused", "closing"}

\* Billing implements WalletSpec: every commit is one step of the abstract
\* wallet, and everything before the commit is invisible.
Abstract == INSTANCE WalletSpec WITH book <- [r \in Refs |-> BookOf(r)]

ImplementsWallet == Abstract!Spec
=============================================================================
