------------------------------ MODULE Deposits ------------------------------
(***************************************************************************)
(* How credit comes into the wallet of an organisation: PayPal top-ups     *)
(* (apps/api/app/billing_routes.py, paypal.py) and promo codes. A top-up   *)
(* is finished by whoever comes first, the customer's capture request or   *)
(* PayPal's webhook, under the lock of its row.                            *)
(*                                                                         *)
(* Handlers are pool threads, Hooks are the webhook coroutine. A handler   *)
(* that leaves with an HTTPException keeps its row locks until get_db has  *)
(* closed its session, which takes a turn of the event loop. PayPal is an  *)
(* external service: it may fail before or after it has done what it was   *)
(* asked, and delivers a notification until it is answered with 2xx.       *)
(* add_ledger_entry is one step (module Billing shows that it acts so).    *)
(***************************************************************************)
EXTENDS Integers, FiniteSets

CONSTANTS
  Topups,       \* rows of paypal_topups
  Users,        \* accounts that redeem the promo code
  Handlers,     \* request handlers on pool threads
  Hooks,        \* handlers of the webhook
  Nobody,       \* the holder of a free row lock
  SharedLoop,   \* the webhook runs on the loop that closes the handlers' sessions
  Cents,        \* the price of a top-up; the bonus of the promo code is 1
  MaxOverdraft, \* bound: how far overages take the wallet below zero
  MaxFaults,    \* bound: failed calls, lost answers and dying handlers
  MaxPatches    \* bound: what an administrator changes

ASSUME DepositsAssumption ==
  /\ Handlers \cap Hooks = {}
  /\ Nobody \notin Handlers \cup Hooks
  /\ "promo" \notin Topups
  /\ SharedLoop \in BOOLEAN
  /\ Cents \in Nat \ {0, 1}
  /\ MaxOverdraft \in Nat
  /\ MaxFaults \in Nat
  /\ MaxPatches \in Nat

VARIABLES
  topup,     \* topup[t]: PayPalTopup.status, "none" before the row exists
  order,     \* order[t]: the order at PayPal and the cents it captures
  events,    \* the top-ups whose notification PayPal still delivers
  promo,     \* is_active, max_redemptions, redemption_count
  redeemed,  \* users with a promo_redemptions row
  rows,      \* rows[t]: balance_topup rows of the ledger
  wallet,    \* balance_cents
  overdraft, \* cents that overages have taken
  lock,      \* lock[t]: holder of the top-up row, lock["promo"] of the promo code
  proc,      \* proc[p]: the handler
  used       \* faults and administrator's changes so far

vars == <<topup, order, events, promo, redeemed, rows, wallet, overdraft, lock, proc, used>>

Procs == Handlers \cup Hooks

Bonus == 1

Order == [state : {"none", "created", "approved", "pending", "completed"}, cents : Nat]

NoOrder == [state |-> "none", cents |-> 0]

NoRequest == [pc |-> "idle", topup |-> Nobody, user |-> Nobody, seen |-> NoOrder]

Init ==
  /\ topup = [t \in Topups |-> "none"]
  /\ order = [t \in Topups |-> NoOrder]
  /\ events = {}
  /\ promo = [active |-> TRUE, max |-> 1, count |-> 0]
  /\ redeemed = {}
  /\ rows = [t \in Topups |-> 0]
  /\ wallet = 0
  /\ overdraft = 0
  /\ lock = [r \in Topups \cup {"promo"} |-> Nobody]
  /\ proc = [p \in Procs |-> NoRequest]
  /\ used = [faults |-> 0, patches |-> 0]

Goto(p, pc) == proc' = [proc EXCEPT ![p].pc = pc]

\* Answer, commit and session close: the request is over, its locks are free.
End(p) ==
  /\ proc' = [proc EXCEPT ![p] = NoRequest]
  /\ lock' = [r \in DOMAIN lock |-> IF lock[r] = p THEN Nobody ELSE lock[r]]

\* raise HTTPException or an unhandled exception, with whatever is locked.
Raise(p) == Goto(p, "closing") /\ UNCHANGED lock

Fault ==
  /\ used.faults < MaxFaults
  /\ used' = [used EXCEPT !.faults = @ + 1]

(***************************************************************************)
(* create_paypal_topup                                                     *)
(***************************************************************************)
BeginTopup(p, t) ==
  /\ proc[p].pc = "idle"
  /\ topup[t] = "none"
  /\ topup' = [topup EXCEPT ![t] = "creating"]
  /\ proc' = [proc EXCEPT ![p] = [NoRequest EXCEPT !.pc = "create", !.topup = t]]
  /\ UNCHANGED <<order, events, promo, redeemed, rows, wallet, overdraft, lock, used>>

Ordered(t) == order' = [order EXCEPT ![t] = [state |-> "created", cents |-> Cents]]

CreateOrder(p) ==
  /\ proc[p].pc = "create"
  /\ \/ Ordered(proc[p].topup) /\ Goto(p, "created") /\ UNCHANGED used
     \/ Ordered(proc[p].topup) /\ Goto(p, "failed") /\ Fault
     \/ UNCHANGED order /\ Goto(p, "failed") /\ Fault
  /\ UNCHANGED <<topup, events, promo, redeemed, rows, wallet, overdraft, lock>>

SaveOrder(p) ==
  /\ proc[p].pc \in {"created", "failed"}
  /\ topup' = [topup EXCEPT ![proc[p].topup] =
       IF proc[p].pc = "created" THEN "pending_approval" ELSE "failed"]
  /\ End(p)
  /\ UNCHANGED <<order, events, promo, redeemed, rows, wallet, overdraft, used>>

(***************************************************************************)
(* PayPal, and what else happens to the wallet.                            *)
(***************************************************************************)
\* The customer follows approval_url, which only a stored order has sent out.
Approve(t) ==
  /\ order[t].state = "created"
  /\ topup[t] = "pending_approval"
  /\ order' = [order EXCEPT ![t].state = "approved"]
  /\ UNCHANGED <<topup, events, promo, redeemed, rows, wallet, overdraft, lock, proc, used>>

\* A capture takes the money at once or after a review; what it takes may
\* differ from what was ordered.
Captured(t) ==
  \E state \in {"pending", "completed"}, cents \in {Cents - 1, Cents} :
    /\ order' = [order EXCEPT ![t] = [state |-> state, cents |-> cents]]
    /\ events' = IF state = "completed" THEN events \cup {t} ELSE events

Completes(t) ==
  /\ order[t].state = "pending"
  /\ order' = [order EXCEPT ![t].state = "completed"]
  /\ events' = events \cup {t}
  /\ UNCHANGED <<topup, promo, redeemed, rows, wallet, overdraft, lock, proc, used>>

\* settle_feature_charge may overdraw the wallet.
Overage ==
  /\ overdraft < MaxOverdraft
  /\ overdraft' = overdraft + 1
  /\ wallet' = wallet - 1
  /\ UNCHANGED <<topup, order, events, promo, redeemed, rows, lock, proc, used>>

(***************************************************************************)
(* capture_paypal_topup and paypal_webhook                                 *)
(***************************************************************************)
BeginCapture(p, t) ==
  /\ p \in Handlers
  /\ proc[p].pc = "idle"
  /\ topup[t] \in {"pending_approval", "captured", "amount_mismatch"}
  /\ proc' = [proc EXCEPT ![p] = [NoRequest EXCEPT !.pc = "lock", !.topup = t]]
  /\ UNCHANGED <<topup, order, events, promo, redeemed, rows, wallet, overdraft, lock, used>>

BeginWebhook(p, t) ==
  /\ p \in Hooks
  /\ proc[p].pc = "idle"
  /\ t \in events
  /\ proc' = [proc EXCEPT ![p] = [NoRequest EXCEPT !.pc = "verify", !.topup = t]]
  /\ UNCHANGED <<topup, order, events, promo, redeemed, rows, wallet, overdraft, lock, used>>

\* Mistake: PayPal gets its 2xx although the signature could not be verified.
VerifyAnswered(p) ==
  /\ proc[p].pc = "verify"
  /\ \/ Goto(p, "lock") /\ UNCHANGED <<events, used>>
     \/ Goto(p, "closing") /\ events' = events \ {proc[p].topup} /\ Fault
  /\ UNCHANGED <<topup, order, promo, redeemed, rows, wallet, overdraft, lock>>

\* verify_webhook asks PayPal.
Verify(p) ==
  /\ proc[p].pc = "verify"
  /\ \/ Goto(p, "lock") /\ UNCHANGED used
     \/ Goto(p, "closing") /\ Fault
  /\ UNCHANGED <<topup, order, events, promo, redeemed, rows, wallet, overdraft, lock>>

\* Answered with 2xx; the answer may be lost, then PayPal delivers it again.
Accept(p) ==
  \/ events' = (IF p \in Hooks THEN events \ {proc[p].topup} ELSE events) /\ UNCHANGED used
  \/ p \in Hooks /\ UNCHANGED events /\ Fault

\* Mistake: the row is read without FOR UPDATE.
TakeRowNoWait(p) == TRUE

TakeRow(p) == lock[proc[p].topup] = Nobody

LockTopup(p) ==
  /\ proc[p].pc = "lock"
  /\ TakeRow(p)
  /\ IF topup[proc[p].topup] = "captured"
       THEN End(p) /\ Accept(p)
       ELSE /\ lock' = [lock EXCEPT ![proc[p].topup] = p]
            /\ Goto(p, IF p \in Hooks THEN "look" ELSE "capture")
            /\ UNCHANGED <<events, used>>
  /\ UNCHANGED <<topup, order, promo, redeemed, rows, wallet, overdraft>>

\* capture_order: a repeated capture is answered 422 and looked up instead.
CaptureOrder(p) ==
  LET t == proc[p].topup
  IN
  /\ proc[p].pc = "capture"
  /\ IF order[t].state = "approved" THEN Captured(t) ELSE UNCHANGED <<order, events>>
  /\ \/ /\ proc' = [proc EXCEPT ![p].pc = "finalize", ![p].seen = order'[t]]
        /\ UNCHANGED used
     \/ Goto(p, "closing") /\ Fault
  /\ UNCHANGED <<topup, promo, redeemed, rows, wallet, overdraft, lock>>

GetOrder(p) ==
  /\ proc[p].pc = "look"
  /\ \/ /\ proc' = [proc EXCEPT ![p].pc = "finalize", ![p].seen = order[proc[p].topup]]
        /\ UNCHANGED used
     \/ Goto(p, "closing") /\ Fault
  /\ UNCHANGED <<topup, order, events, promo, redeemed, rows, wallet, overdraft, lock>>

\* _finalize_topup
NotCompleted(p) ==
  /\ proc[p].pc = "finalize"
  /\ proc[p].seen.state /= "completed"
  /\ Raise(p)
  /\ UNCHANGED <<topup, order, events, promo, redeemed, rows, wallet, overdraft, used>>

Mismatch(p) ==
  /\ proc[p].pc = "finalize"
  /\ proc[p].seen.state = "completed"
  /\ proc[p].seen.cents /= Cents
  /\ topup' = [topup EXCEPT ![proc[p].topup] = "amount_mismatch"]
  /\ End(p)
  /\ UNCHANGED <<order, events, promo, redeemed, rows, wallet, overdraft, used>>

\* Mistake: a capture that PayPal reviews is taken for a completed one.
PaidPending(p) ==
  /\ proc[p].pc = "finalize"
  /\ proc[p].seen.state \in {"pending", "completed"}
  /\ proc[p].seen.cents = Cents

Paid(p) ==
  /\ proc[p].pc = "finalize"
  /\ proc[p].seen = [state |-> "completed", cents |-> Cents]

Credit(p) ==
  /\ Paid(p)
  /\ wallet + Cents >= 0
  /\ wallet' = wallet + Cents
  /\ rows' = [rows EXCEPT ![proc[p].topup] = @ + 1]
  /\ topup' = [topup EXCEPT ![proc[p].topup] = "captured"]
  /\ End(p)
  /\ Accept(p)
  /\ UNCHANGED <<order, promo, redeemed, overdraft>>

\* add_ledger_entry refuses a deposit that leaves the wallet below zero.
StillOverdrawn(p) ==
  /\ \/ Paid(p) /\ wallet + Cents < 0
     \/ proc[p].pc = "redeem" /\ wallet + Bonus < 0
  /\ Raise(p)
  /\ UNCHANGED <<topup, order, events, promo, redeemed, rows, wallet, overdraft, used>>

(***************************************************************************)
(* redeem_promo_code, patch_promo and adjust_credits                       *)
(***************************************************************************)
BeginRedeem(p, u) ==
  /\ p \in Handlers
  /\ proc[p].pc = "idle"
  /\ proc' = [proc EXCEPT ![p] = [NoRequest EXCEPT !.pc = "promo", !.user = u]]
  /\ UNCHANGED <<topup, order, events, promo, redeemed, rows, wallet, overdraft, lock, used>>

\* Mistake: the limit is looked at without the lock.
TakePromoNoWait == TRUE

TakePromo == lock["promo"] = Nobody

\* ensure_promo_available
Available(u) == promo.active /\ promo.count < promo.max /\ u \notin redeemed

LockPromo(p) ==
  /\ proc[p].pc = "promo"
  /\ TakePromo
  /\ lock' = [lock EXCEPT !["promo"] = p]
  /\ Goto(p, IF Available(proc[p].user) THEN "redeem" ELSE "closing")
  /\ UNCHANGED <<topup, order, events, promo, redeemed, rows, wallet, overdraft, used>>

Redeem(p) ==
  /\ proc[p].pc = "redeem"
  /\ wallet + Bonus >= 0
  /\ redeemed' = redeemed \cup {proc[p].user}
  /\ promo' = [promo EXCEPT !.count = @ + 1]
  /\ wallet' = wallet + Bonus
  /\ End(p)
  /\ UNCHANGED <<topup, order, events, rows, overdraft, used>>

\* Mistake: a limit of no redemptions is accepted.
PatchPromoZero ==
  /\ used.patches < MaxPatches
  /\ used' = [used EXCEPT !.patches = @ + 1]
  /\ TakePromo
  /\ \E max \in 0..Cardinality(Users) : promo' = [promo EXCEPT !.max = max]
  /\ UNCHANGED <<topup, order, events, redeemed, rows, wallet, overdraft, lock, proc>>

\* The UPDATE of an administrator writes the changed columns only and waits
\* for the row.
PatchPromo ==
  /\ used.patches < MaxPatches
  /\ used' = [used EXCEPT !.patches = @ + 1]
  /\ TakePromo
  /\ \/ promo' = [promo EXCEPT !.active = ~@]
     \/ \E max \in 1..Cardinality(Users) : promo' = [promo EXCEPT !.max = max]
  /\ UNCHANGED <<topup, order, events, redeemed, rows, wallet, overdraft, lock, proc>>

\* adjust_credits: an administrator adds or takes credit, never past zero.
AdjustCredits ==
  /\ used.patches < MaxPatches
  /\ used' = [used EXCEPT !.patches = @ + 1]
  /\ \E cents \in {-1, 1} : wallet + cents >= 0 /\ wallet' = wallet + cents
  /\ UNCHANGED <<topup, order, events, promo, redeemed, rows, overdraft, lock, proc>>

(***************************************************************************)
(* Ends that nobody asked for.                                             *)
(***************************************************************************)
LoopIsFree(p) == SharedLoop => \A h \in Hooks \ {p} : proc[h].pc \in {"idle", "closing"}

Close(p) ==
  /\ proc[p].pc = "closing"
  /\ LoopIsFree(p)
  /\ End(p)
  /\ UNCHANGED <<topup, order, events, promo, redeemed, rows, wallet, overdraft, used>>

\* The process dies: the database rolls back.
Die(p) ==
  /\ proc[p].pc /= "idle"
  /\ Fault
  /\ End(p)
  /\ UNCHANGED <<topup, order, events, promo, redeemed, rows, wallet, overdraft>>

Take(p) == LockTopup(p) \/ LockPromo(p)

Work(p) ==
  \/ CreateOrder(p) \/ SaveOrder(p) \/ Verify(p) \/ CaptureOrder(p) \/ GetOrder(p)
  \/ NotCompleted(p) \/ Mismatch(p) \/ Credit(p) \/ StillOverdrawn(p) \/ Redeem(p)

Notify == \E p \in Hooks, t \in Topups : BeginWebhook(p, t)

Next ==
  \/ \E p \in Procs : Take(p) \/ Work(p) \/ Close(p) \/ Die(p)
  \/ \E p \in Handlers : \/ \E t \in Topups : BeginTopup(p, t) \/ BeginCapture(p, t)
                         \/ \E u \in Users : BeginRedeem(p, u)
  \/ Notify
  \/ \E t \in Topups : Approve(t) \/ Completes(t)
  \/ Overage
  \/ PatchPromo
  \/ AdjustCredits

Spec == Init /\ [][Next]_vars

\* PayPal delivers a notification again and again; the database serves the
\* waiters of a row; a handler goes on.
Fairness ==
  /\ \A p \in Procs : SF_vars(Take(p)) /\ SF_vars(Close(p)) /\ WF_vars(Work(p))
  /\ WF_vars(Notify)

FairSpec == Spec /\ Fairness

(***************************************************************************)
(* Properties.                                                             *)
(***************************************************************************)
\* The types of all variables.
TypeOK ==
  /\ topup \in [Topups -> {"none", "creating", "failed", "pending_approval", "captured",
                          "amount_mismatch"}]
  /\ order \in [Topups -> Order]
  /\ events \subseteq Topups
  /\ promo \in [active : BOOLEAN, max : Nat \ {0}, count : Nat]
  /\ redeemed \subseteq Users
  /\ rows \in [Topups -> Nat]
  /\ wallet \in Int
  /\ overdraft \in Nat
  /\ lock \in [Topups \cup {"promo"} -> Procs \cup {Nobody}]
  /\ proc \in [Procs ->
       [pc : {"idle", "create", "created", "failed", "verify", "lock", "capture", "look",
              "finalize", "promo", "redeem", "closing"},
        topup : Topups \cup {Nobody}, user : Users \cup {Nobody}, seen : Order]]
  /\ used \in [faults : Nat, patches : Nat]

\* However often and in whatever order capture requests and webhooks arrive,
\* a top-up is credited once, and when it is, its row says captured (both are
\* one commit of _finalize_topup).
CreditedOnce == \A t \in Topups : rows[t] = IF topup[t] = "captured" THEN 1 ELSE 0

\* No credit without the money: a captured top-up is completed at PayPal with
\* the amount that was asked for, also when the capture's answer was lost or
\* was about a review that is still going on.
CreditIsPaid ==
  \A t \in Topups : rows[t] > 0 => order[t] = [state |-> "completed", cents |-> Cents]

\* A promo code is never redeemed by more accounts than its limit at that
\* moment allows nor after it has been switched off, although the check and
\* the write are two statements and an administrator changes the code.
RedeemedWithinLimit ==
  [][redeemed' /= redeemed => promo.active /\ Cardinality(redeemed') <= promo.max]_vars

\* What the customer has paid is credited in the end, when the browser never
\* comes back from PayPal too.
PaidIsCredited ==
  \A t \in Topups :
    order[t] = [state |-> "completed", cents |-> Cents] ~> topup[t] = "captured"
=============================================================================
