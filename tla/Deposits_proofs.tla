-------------------------- MODULE Deposits_proofs --------------------------
(***************************************************************************)
(* A top-up is credited once and only when it is paid, for any number of   *)
(* top-ups, accounts, handlers and webhooks, any price and any faults.     *)
(***************************************************************************)
EXTENDS Deposits, FiniteSetTheorems, TLAPS

USE DepositsAssumption

(***************************************************************************)
(* The invariant.                                                          *)
(***************************************************************************)
\* What a customer may be asked to pay for, or has paid for.
Live == {"pending_approval", "captured", "amount_mismatch"}

Creating == {"create", "created", "failed"}

Finishing == {"capture", "look", "finalize"}

\* A request names what it is about.
Named ==
  \A p \in Procs :
    /\ proc[p].pc \in Creating \cup {"verify", "lock"} \cup Finishing => proc[p].topup \in Topups
    /\ proc[p].pc \in {"promo", "redeem"} => proc[p].user \in Users

\* A row is live before the customer can approve its order, PayPal notify of
\* it, or anybody try to finish it.
LiveFirst ==
  /\ \A t \in Topups : order[t].state \in {"approved", "pending", "completed"} => topup[t] \in Live
  /\ \A t \in events : topup[t] \in Live
  /\ \A p \in Procs : proc[p].pc \in {"verify", "lock"} \cup Finishing =>
       topup[proc[p].topup] \in Live

\* Only the request that has made a row changes it until it is live.
CreatorAlone ==
  \A p \in Procs : proc[p].pc \in Creating =>
    /\ topup[proc[p].topup] = "creating"
    /\ \A q \in Procs \ {p} : proc[q].pc \in Creating => proc[q].topup /= proc[p].topup

\* Whoever finishes a top-up holds its row, which is not captured yet; what it
\* has been told of a completed order is still so.
FinisherHoldsRow ==
  \A p \in Procs : proc[p].pc \in Finishing =>
    /\ lock[proc[p].topup] = p /\ topup[proc[p].topup] /= "captured"
    /\ proc[p].pc = "finalize" /\ proc[p].seen.state = "completed" =>
         order[proc[p].topup] = proc[p].seen

Inv == LiveFirst /\ CreatorAlone /\ FinisherHoldsRow /\ CreditedOnce /\ CreditIsPaid

(***************************************************************************)
(* Types.                                                                  *)
(***************************************************************************)
\* What a handler keeps.
Request ==
  [pc : {"idle", "create", "created", "failed", "verify", "lock", "capture", "look",
         "finalize", "promo", "redeem", "closing"},
   topup : Topups \cup {Nobody}, user : Users \cup {Nobody}, seen : Order]

\* A request that moves on is still one.
LEMMA GotoType ==
  ASSUME proc \in [Procs -> Request], NEW p \in Procs,
         NEW pc \in {"created", "failed", "verify", "lock", "capture", "look", "finalize",
                     "redeem", "closing"},
         Goto(p, pc)
  PROVE  proc' \in [Procs -> Request]
  BY DEF Goto, Request

\* A request that ends leaves an idle handler and frees rows.
LEMMA EndType ==
  ASSUME TypeOK, NEW p \in Procs, End(p)
  PROVE  /\ proc' \in [Procs -> Request]
         /\ lock' \in [Topups \cup {"promo"} -> Procs \cup {Nobody}]
  BY DEF TypeOK, End, NoRequest, NoOrder, Order, Request

\* So is one that has been told about its order.
LEMMA ToldType ==
  ASSUME proc \in [Procs -> Request], NEW p \in Procs, NEW o \in Order,
         proc' = [proc EXCEPT ![p].pc = "finalize", ![p].seen = o]
  PROVE  proc' \in [Procs -> Request]
<1>1. [proc[p] EXCEPT !.pc = "finalize", !.seen = o] \in Request
  <2>1. proc[p] \in Request
    OBVIOUS
  <2>2. QED
    BY <2>1 DEF Request
<1>2. proc' = [proc EXCEPT ![p] = [proc[p] EXCEPT !.pc = "finalize", !.seen = o]]
  OBVIOUS
<1>3. QED
  BY <1>1, <1>2

\* An order that moves on is still one.
LEMMA OrderType ==
  ASSUME order \in [Topups -> Order], NEW t \in Topups,
         NEW state \in {"created", "approved", "pending", "completed"},
         order' = [order EXCEPT ![t].state = state]
  PROVE  order' \in [Topups -> Order]
<1>1. order[t] \in Order
  OBVIOUS
<1>2. [order[t] EXCEPT !.state = state] \in Order
  BY <1>1 DEF Order
<1>3. QED
  BY <1>2

\* A fault is counted.
LEMMA FaultType ==
  ASSUME TypeOK, Fault
  PROVE  used' \in [faults : Nat, patches : Nat]
  BY DEF TypeOK, Fault

\* The initial state has the types.
LEMMA TypeInit == Init => TypeOK
  BY DEF Init, TypeOK, NoRequest, NoOrder, Order, Bonus

\* Every step keeps them.
LEMMA TypeNext ==
  ASSUME TypeOK, Named, [Next]_vars
  PROVE  TypeOK'
<1>0. proc \in [Procs -> Request]
  BY DEF TypeOK, Request
<1>1. ASSUME NEW p \in Procs, LockTopup(p) PROVE TypeOK'
  <2>1. CASE topup[proc[p].topup] = "captured"
    <3>1. End(p) /\ Accept(p)
      BY <1>1, <2>1 DEF LockTopup
    <3>2. used' \in [faults : Nat, patches : Nat] /\ events' \subseteq Topups
      BY <3>1, FaultType DEF Accept, TypeOK
    <3>3. QED
      BY <1>1, <3>1, <3>2, EndType DEF TypeOK, LockTopup, Request
  <2>2. CASE topup[proc[p].topup] /= "captured"
    <3>1. proc' \in [Procs -> Request]
      <4>1. PICK pc \in {"look", "capture"} : Goto(p, pc)
        BY <1>1, <2>2 DEF LockTopup
      <4>2. QED
        BY <1>0, <4>1, GotoType
    <3>2. lock' \in [Topups \cup {"promo"} -> Procs \cup {Nobody}]
      BY <1>1, <2>2 DEF TypeOK, LockTopup
    <3>3. QED
      BY <1>1, <2>2, <3>1, <3>2 DEF TypeOK, LockTopup, Request
  <2>3. QED
    BY <2>1, <2>2
<1>2. ASSUME NEW p \in Procs, LockPromo(p) PROVE TypeOK'
  BY <1>0, <1>2, GotoType DEF TypeOK, LockPromo, Request
<1>3. ASSUME NEW p \in Procs, CreateOrder(p) PROVE TypeOK'
  <2>1. order' \in [Topups -> Order]
    <3>1. CASE Ordered(proc[p].topup)
      BY <3>1 DEF Ordered, Order, TypeOK
    <3>2. CASE UNCHANGED order
      BY <3>2 DEF TypeOK
    <3>3. QED
      BY <1>3, <3>1, <3>2 DEF CreateOrder
  <2>2. proc' \in [Procs -> Request] /\ used' \in [faults : Nat, patches : Nat]
    BY <1>0, <1>3, GotoType, FaultType DEF TypeOK, CreateOrder
  <2>3. QED
    BY <1>3, <2>1, <2>2 DEF TypeOK, CreateOrder, Request
<1>4. ASSUME NEW p \in Procs, SaveOrder(p) PROVE TypeOK'
  BY <1>0, <1>4, EndType DEF TypeOK, SaveOrder, Request
<1>5. ASSUME NEW p \in Procs, Verify(p) PROVE TypeOK'
  BY <1>0, <1>5, GotoType, FaultType DEF TypeOK, Verify, Request
<1>6. ASSUME NEW p \in Procs, CaptureOrder(p) PROVE TypeOK'
  <2>1. proc[p].topup \in Topups
    BY <1>6 DEF Named, CaptureOrder, Finishing
  <2>2. order' \in [Topups -> Order] /\ events' \subseteq Topups
    <3>1. CASE Captured(proc[p].topup)
      BY <2>1, <3>1 DEF Captured, TypeOK, Order
    <3>2. CASE UNCHANGED <<order, events>>
      BY <3>2 DEF TypeOK
    <3>3. QED
      BY <1>6, <3>1, <3>2 DEF CaptureOrder
  <2>3. order'[proc[p].topup] \in Order
    BY <2>1, <2>2
  <2>4. proc' \in [Procs -> Request] /\ used' \in [faults : Nat, patches : Nat]
    <3>1. CASE Goto(p, "closing") /\ Fault
      BY <1>0, <3>1, GotoType, FaultType
    <3>2. CASE proc' = [proc EXCEPT ![p].pc = "finalize", ![p].seen = order'[proc[p].topup]]
               /\ UNCHANGED used
      BY <1>0, <2>3, <3>2, ToldType DEF TypeOK
    <3>3. QED
      BY <1>6, <3>1, <3>2 DEF CaptureOrder
  <2>5. QED
    BY <1>6, <2>2, <2>4 DEF TypeOK, CaptureOrder, Request
<1>7. ASSUME NEW p \in Procs, GetOrder(p) PROVE TypeOK'
  <2>1. order[proc[p].topup] \in Order
    BY <1>7 DEF Named, GetOrder, Finishing, TypeOK
  <2>2. proc' \in [Procs -> Request] /\ used' \in [faults : Nat, patches : Nat]
    <3>1. CASE Goto(p, "closing") /\ Fault
      BY <1>0, <3>1, GotoType, FaultType
    <3>2. CASE proc' = [proc EXCEPT ![p].pc = "finalize", ![p].seen = order[proc[p].topup]]
               /\ UNCHANGED used
      BY <1>0, <2>1, <3>2, ToldType DEF TypeOK
    <3>3. QED
      BY <1>7, <3>1, <3>2 DEF GetOrder
  <2>3. QED
    BY <1>7, <2>2 DEF TypeOK, GetOrder, Request
<1>8. ASSUME NEW p \in Procs, NotCompleted(p) PROVE TypeOK'
  BY <1>0, <1>8, GotoType DEF TypeOK, NotCompleted, Raise, Request
<1>9. ASSUME NEW p \in Procs, Mismatch(p) PROVE TypeOK'
  BY <1>0, <1>9, EndType DEF TypeOK, Mismatch, Request
<1>10. ASSUME NEW p \in Procs, Credit(p) PROVE TypeOK'
  <2>1. used' \in [faults : Nat, patches : Nat] /\ events' \subseteq Topups
    BY <1>10, FaultType DEF Credit, Accept, TypeOK
  <2>2. /\ wallet' \in Int
        /\ rows' \in [Topups -> Nat]
        /\ topup' \in [Topups -> {"none", "creating", "failed", "pending_approval", "captured",
                                  "amount_mismatch"}]
    BY <1>10 DEF Credit, Paid, Named, Finishing, TypeOK
  <2>3. QED
    BY <1>10, <2>1, <2>2, EndType DEF TypeOK, Credit, Request
<1>11. ASSUME NEW p \in Procs, StillOverdrawn(p) PROVE TypeOK'
  BY <1>0, <1>11, GotoType DEF TypeOK, StillOverdrawn, Raise, Request
<1>12. ASSUME NEW p \in Procs, Redeem(p) PROVE TypeOK'
  <2>1. redeemed' \subseteq Users
    BY <1>12 DEF Redeem, Named, TypeOK
  <2>2. promo' \in [active : BOOLEAN, max : Nat \ {0}, count : Nat]
    BY <1>12 DEF Redeem, TypeOK
  <2>3. QED
    BY <1>12, <2>1, <2>2, EndType DEF TypeOK, Redeem, Bonus, Request
<1>13. ASSUME NEW p \in Procs, Close(p) PROVE TypeOK'
  BY <1>0, <1>13, EndType DEF TypeOK, Close, Request
<1>14. ASSUME NEW p \in Procs, Die(p) PROVE TypeOK'
  BY <1>0, <1>14, EndType, FaultType DEF TypeOK, Die, Request
<1>15. ASSUME NEW p \in Handlers, NEW t \in Topups, BeginTopup(p, t) PROVE TypeOK'
  BY <1>0, <1>15 DEF TypeOK, BeginTopup, NoRequest, NoOrder, Order, Procs
<1>16. ASSUME NEW p \in Handlers, NEW t \in Topups, BeginCapture(p, t) PROVE TypeOK'
  BY <1>0, <1>16 DEF TypeOK, BeginCapture, NoRequest, NoOrder, Order, Procs
<1>17. ASSUME NEW p \in Handlers, NEW u \in Users, BeginRedeem(p, u) PROVE TypeOK'
  BY <1>0, <1>17 DEF TypeOK, BeginRedeem, NoRequest, NoOrder, Order, Procs
<1>18. ASSUME NEW p \in Hooks, NEW t \in Topups, BeginWebhook(p, t) PROVE TypeOK'
  BY <1>0, <1>18 DEF TypeOK, BeginWebhook, NoRequest, NoOrder, Order, Procs
<1>19. ASSUME NEW t \in Topups, Approve(t) \/ Completes(t) PROVE TypeOK'
  <2>1. order' \in [Topups -> Order] /\ events' \subseteq Topups
    BY <1>19, OrderType DEF TypeOK, Approve, Completes
  <2>2. QED
    BY <1>19, <2>1 DEF TypeOK, Approve, Completes
<1>20. CASE Overage
  BY <1>20 DEF TypeOK, Overage
<1>21. CASE PatchPromo
  <2>1. promo' \in [active : BOOLEAN, max : Nat \ {0}, count : Nat]
    <3>1. CASE promo' = [promo EXCEPT !.active = ~@]
      BY <3>1 DEF TypeOK
    <3>2. ASSUME NEW max \in 1..Cardinality(Users), promo' = [promo EXCEPT !.max = max]
          PROVE  promo' \in [active : BOOLEAN, max : Nat \ {0}, count : Nat]
      <4>1. max \in Nat \ {0}
        OBVIOUS
      <4>2. QED
        BY <3>2, <4>1 DEF TypeOK
    <3>3. QED
      BY <1>21, <3>1, <3>2 DEF PatchPromo
  <2>2. used' \in [faults : Nat, patches : Nat]
    BY <1>21 DEF PatchPromo, TypeOK
  <2>3. QED
    BY <1>21, <2>1, <2>2 DEF TypeOK, PatchPromo
<1>22. CASE AdjustCredits
  BY <1>22 DEF TypeOK, AdjustCredits
<1>23. CASE UNCHANGED vars
  BY <1>23 DEF TypeOK, vars
<1>24. QED
  BY <1>1, <1>2, <1>3, <1>4, <1>5, <1>6, <1>7, <1>8, <1>9, <1>10, <1>11, <1>12, <1>13, <1>14,
     <1>15, <1>16, <1>17, <1>18, <1>19, <1>20, <1>21, <1>22, <1>23
     DEF Next, Take, Work, Notify

(***************************************************************************)
(* Steps of one request. What the invariant says of the others stays true  *)
(* as long as nobody takes their row away.                                 *)
(***************************************************************************)
\* Only p has moved.
Moved(p) == proc' \in [Procs -> Request] /\ \A q \in Procs \ {p} : proc'[q] = proc[q]

\* A step that ends the work of p on its top-up, or that is about a promo code.
LEMMA Quiet ==
  ASSUME TypeOK, Named, Inv, NEW p \in Procs, Moved(p),
         UNCHANGED <<topup, order, rows>>, events' \subseteq events,
         proc'[p].pc \in {"idle", "promo", "redeem", "closing"},
         proc'[p].pc \in {"promo", "redeem"} => proc'[p].user \in Users,
         \A t \in Topups : lock[t] \in Procs \ {p} => lock'[t] = lock[t]
  PROVE  Named' /\ Inv'
<1>1. Named'
  BY DEF Named, Moved, Creating, Finishing
<1>2. LiveFirst'
  BY DEF Inv, LiveFirst, Moved, Finishing
<1>3. CreatorAlone'
  BY DEF Inv, CreatorAlone, Moved, Creating
<1>4. FinisherHoldsRow'
  BY DEF Inv, FinisherHoldsRow, Named, Moved, Finishing
<1>5. CreditedOnce' /\ CreditIsPaid'
  BY DEF Inv, CreditedOnce, CreditIsPaid
<1>6. QED
  BY <1>1, <1>2, <1>3, <1>4, <1>5 DEF Inv

\* An EXCEPT at p moves p alone.
LEMMA GotoMoves ==
  ASSUME TypeOK, TypeOK', NEW p \in Procs, NEW pc, Goto(p, pc)
  PROVE  /\ Moved(p)
         /\ proc'[p].pc = pc
         /\ proc'[p].topup = proc[p].topup
         /\ proc'[p].user = proc[p].user
         /\ proc'[p].seen = proc[p].seen
  BY DEF TypeOK, Moved, Goto, Request

\* The end of a request leaves the rows of the others locked.
LEMMA EndMoves ==
  ASSUME TypeOK, TypeOK', NEW p \in Procs, End(p)
  PROVE  /\ Moved(p)
         /\ proc'[p].pc = "idle"
         /\ \A t \in Topups : lock[t] \in Procs \ {p} => lock'[t] = lock[t]
  BY DEF TypeOK, Moved, End, NoRequest, Request

(***************************************************************************)
(* The invariant is kept.                                                  *)
(***************************************************************************)
\* It holds at first.
LEMMA InvInit == Init => Named /\ Inv
  BY DEF Init, Named, Inv, LiveFirst, CreatorAlone, FinisherHoldsRow, CreditedOnce, CreditIsPaid,
         NoRequest, NoOrder, Creating, Finishing

\* The row of a new top-up belongs to the request that makes it.
LEMMA BeginTopupInv ==
  ASSUME TypeOK, TypeOK', Named, Inv, NEW p \in Handlers, NEW t \in Topups, BeginTopup(p, t)
  PROVE  Named' /\ Inv'
<1>1. /\ p \in Procs
      /\ Moved(p)
      /\ proc'[p].pc = "create"
      /\ proc'[p].topup = t
  BY DEF TypeOK, BeginTopup, NoRequest, NoOrder, Moved, Procs, Request
<1>2. Named'
  BY <1>1 DEF Named, Moved, Creating, Finishing
<1>3. \A u \in Topups \ {t} : topup'[u] = topup[u]
  BY DEF BeginTopup, TypeOK
<1>4. topup[t] = "none" /\ topup'[t] = "creating"
  BY DEF BeginTopup, TypeOK
<1>5. UNCHANGED <<order, events, rows, lock>>
  BY DEF BeginTopup
<1>6. LiveFirst'
  <2>1. \A u \in Topups : topup[u] \in Live => topup'[u] = topup[u]
    BY <1>3, <1>4 DEF Live
  <2>2. QED
    BY <1>1, <1>5, <2>1 DEF Inv, LiveFirst, Named, Moved, Finishing, TypeOK
<1>7. CreatorAlone'
  <2>1. \A q \in Procs \ {p} : proc[q].pc \in Creating => proc[q].topup \in Topups \ {t}
    BY <1>4 DEF Inv, CreatorAlone, Named
  <2>2. QED
    BY <1>1, <1>3, <1>4, <2>1 DEF Inv, CreatorAlone, Moved
<1>8. FinisherHoldsRow'
  <2>1. \A q \in Procs : proc[q].pc \in Finishing => proc[q].topup \in Topups \ {t}
    BY <1>4 DEF Inv, LiveFirst, Live, Named
  <2>2. QED
    BY <1>1, <1>3, <1>5, <2>1 DEF Inv, FinisherHoldsRow, Moved, Finishing
<1>9. CreditedOnce' /\ CreditIsPaid'
  BY <1>3, <1>4, <1>5 DEF Inv, CreditedOnce, CreditIsPaid
<1>10. QED
  BY <1>2, <1>6, <1>7, <1>8, <1>9 DEF Inv

\* PayPal's order is the business of the request that creates the row.
LEMMA CreateOrderInv ==
  ASSUME TypeOK, TypeOK', Named, Inv, NEW p \in Procs, CreateOrder(p)
  PROVE  Named' /\ Inv'
<1> DEFINE t == proc[p].topup
<1>1. t \in Topups /\ topup[t] = "creating" /\ proc[p].pc \in Creating
  BY DEF Named, Creating, CreateOrder, Inv, CreatorAlone
<1>2. Moved(p) /\ proc'[p].pc \in {"created", "failed"} /\ proc'[p].topup = t
  BY GotoMoves DEF CreateOrder
<1>3. UNCHANGED <<topup, events, rows, lock>>
  BY DEF CreateOrder
<1>4. \A u \in Topups \ {t} : order'[u] = order[u]
  BY DEF CreateOrder, Ordered, TypeOK
<1>5. order'[t].state \in {"approved", "pending", "completed"} => order'[t] = order[t]
  BY <1>1 DEF CreateOrder, Ordered, TypeOK
<1>6. Named'
  BY <1>1, <1>2 DEF Named, Moved, Creating, Finishing
<1>7. LiveFirst'
  BY <1>2, <1>3, <1>4, <1>5 DEF Inv, LiveFirst, Moved, Finishing
<1>8. CreatorAlone'
  BY <1>1, <1>2, <1>3 DEF Inv, CreatorAlone, Moved, Creating
<1>9. FinisherHoldsRow'
  <2>1. \A q \in Procs : proc[q].pc \in Finishing => proc[q].topup \in Topups \ {t}
    BY <1>1 DEF Inv, LiveFirst, Live, Named
  <2>2. QED
    BY <1>2, <1>3, <1>4, <2>1 DEF Inv, FinisherHoldsRow, Moved, Finishing
<1>10. CreditedOnce' /\ CreditIsPaid'
  <2>1. rows[t] = 0
    BY <1>1 DEF Inv, CreditedOnce
  <2>2. QED
    BY <1>3, <1>4, <2>1 DEF Inv, CreditedOnce, CreditIsPaid
<1>11. QED
  BY <1>6, <1>7, <1>8, <1>9, <1>10 DEF Inv

\* The request that creates the row leaves it to the customer.
LEMMA SaveOrderInv ==
  ASSUME TypeOK, TypeOK', Named, Inv, NEW p \in Procs, SaveOrder(p)
  PROVE  Named' /\ Inv'
<1> DEFINE t == proc[p].topup
<1>1. t \in Topups /\ topup[t] = "creating" /\ proc[p].pc \in Creating
  BY DEF Named, Creating, SaveOrder, Inv, CreatorAlone
<1>2. /\ Moved(p)
      /\ proc'[p].pc = "idle"
      /\ \A u \in Topups : lock[u] \in Procs \ {p} => lock'[u] = lock[u]
  BY EndMoves DEF SaveOrder
<1>3. UNCHANGED <<order, events, rows>>
  BY DEF SaveOrder
<1>4. topup'[t] \in {"pending_approval", "failed"} /\ \A u \in Topups \ {t} : topup'[u] = topup[u]
  BY <1>1 DEF SaveOrder, TypeOK
<1>5. Named'
  BY <1>2 DEF Named, Moved, Creating, Finishing
<1>6. LiveFirst'
  <2>1. \A u \in Topups : topup[u] \in Live => topup'[u] = topup[u]
    BY <1>1, <1>4 DEF Live
  <2>2. QED
    BY <1>2, <1>3, <2>1 DEF Inv, LiveFirst, Named, Moved, Finishing, TypeOK
<1>7. CreatorAlone'
  <2>1. \A q \in Procs \ {p} : proc[q].pc \in Creating => proc[q].topup \in Topups \ {t}
    BY <1>1 DEF Inv, CreatorAlone, Named
  <2>2. QED
    BY <1>2, <1>4, <2>1 DEF Inv, CreatorAlone, Moved, Creating
<1>8. FinisherHoldsRow'
  <2>1. \A q \in Procs : proc[q].pc \in Finishing => proc[q].topup \in Topups \ {t}
    BY <1>1 DEF Inv, LiveFirst, Live, Named
  <2>2. QED
    BY <1>2, <1>3, <1>4, <2>1 DEF Inv, FinisherHoldsRow, Moved, Finishing
<1>9. CreditedOnce' /\ CreditIsPaid'
  BY <1>1, <1>3, <1>4 DEF Inv, CreditedOnce, CreditIsPaid
<1>10. QED
  BY <1>5, <1>6, <1>7, <1>8, <1>9 DEF Inv

\* The customer and PayPal move an order whose row is live.
LEMMA PayPalInv ==
  ASSUME TypeOK, TypeOK', Named, Inv, NEW t \in Topups, Approve(t) \/ Completes(t)
  PROVE  Named' /\ Inv'
<1>1. UNCHANGED <<topup, rows, lock, proc>> /\ topup[t] \in Live
  BY DEF Approve, Completes, Inv, LiveFirst, Live
<1>2. order[t].state \in {"created", "pending"} /\ \A u \in Topups \ {t} : order'[u] = order[u]
  BY DEF Approve, Completes, TypeOK
<1>3. events' \subseteq events \cup {t}
  BY DEF Approve, Completes
<1>4. LiveFirst'
  BY <1>1, <1>2, <1>3 DEF Inv, LiveFirst
<1>5. FinisherHoldsRow'
  <2>1. \A q \in Procs : proc[q].pc \in Finishing => proc[q].topup \in Topups
    BY DEF Named
  <2>2. QED
    BY <1>1, <1>2, <2>1 DEF Inv, FinisherHoldsRow
<1>6. CreditIsPaid'
  BY <1>1, <1>2 DEF Inv, CreditIsPaid
<1>7. QED
  BY <1>1, <1>4, <1>5, <1>6 DEF Inv, Named, CreatorAlone, CreditedOnce

\* A capture request or a notification is about a live row.
LEMMA BeginFinishInv ==
  ASSUME TypeOK, TypeOK', Named, Inv, NEW p \in Procs, NEW t \in Topups,
         BeginCapture(p, t) \/ BeginWebhook(p, t)
  PROVE  Named' /\ Inv'
<1>1. Moved(p) /\ proc'[p].pc \in {"lock", "verify"} /\ proc'[p].topup = t
  <2>1. CASE BeginCapture(p, t)
    BY <2>1 DEF TypeOK, BeginCapture, NoRequest, NoOrder, Moved, Request
  <2>2. CASE BeginWebhook(p, t)
    BY <2>2 DEF TypeOK, BeginWebhook, NoRequest, NoOrder, Moved, Request
  <2>3. QED
    BY <2>1, <2>2
<1>2. UNCHANGED <<topup, order, events, rows, lock>>
  BY DEF BeginCapture, BeginWebhook
<1>3. topup[t] \in Live
  BY DEF BeginCapture, BeginWebhook, Inv, LiveFirst, Live
<1>4. Named'
  BY <1>1 DEF Named, Moved, Creating, Finishing
<1>5. LiveFirst'
  BY <1>1, <1>2, <1>3 DEF Inv, LiveFirst, Moved, Finishing
<1>6. CreatorAlone'
  BY <1>1, <1>2 DEF Inv, CreatorAlone, Moved, Creating
<1>7. FinisherHoldsRow'
  BY <1>1, <1>2 DEF Inv, FinisherHoldsRow, Moved, Finishing
<1>8. CreditedOnce' /\ CreditIsPaid'
  BY <1>2 DEF Inv, CreditedOnce, CreditIsPaid
<1>9. QED
  BY <1>4, <1>5, <1>6, <1>7, <1>8 DEF Inv

\* A request that goes on with its live row, unlocked, locked or told what
\* PayPal says.
LEMMA GoesOn ==
  ASSUME TypeOK, Named, Inv, NEW p \in Procs, Moved(p),
         proc[p].pc \in {"verify", "lock"} \cup Finishing,
         proc'[p].pc \in {"lock"} \cup Finishing, proc'[p].topup = proc[p].topup,
         UNCHANGED <<topup, order, events, rows>>,
         \A t \in Topups : lock[t] \in Procs \ {p} => lock'[t] = lock[t],
         proc'[p].pc \in Finishing =>
           lock'[proc[p].topup] = p /\ topup[proc[p].topup] /= "captured",
         proc'[p].pc = "finalize" => proc'[p].seen = order[proc[p].topup]
  PROVE  Named' /\ Inv'
<1>1. proc[p].topup \in Topups /\ topup[proc[p].topup] \in Live
  BY DEF Named, Inv, LiveFirst
<1>2. Named'
  BY <1>1 DEF Named, Moved, Creating, Finishing
<1>3. LiveFirst'
  BY <1>1 DEF Inv, LiveFirst, Moved
<1>4. CreatorAlone'
  BY DEF Inv, CreatorAlone, Moved, Creating, Finishing
<1>5. FinisherHoldsRow'
  <2>1. \A q \in Procs : proc[q].pc \in Finishing => proc[q].topup \in Topups
    BY DEF Named
  <2>2. QED
    BY <2>1 DEF Inv, FinisherHoldsRow, Moved, Finishing
<1>6. CreditedOnce' /\ CreditIsPaid'
  BY DEF Inv, CreditedOnce, CreditIsPaid
<1>7. QED
  BY <1>2, <1>3, <1>4, <1>5, <1>6 DEF Inv

\* Verify, LockTopup and GetOrder move on or leave.
LEMMA WaitInv ==
  ASSUME TypeOK, TypeOK', Named, Inv, NEW p \in Procs, Verify(p) \/ LockTopup(p) \/ GetOrder(p)
  PROVE  Named' /\ Inv'
<1>1. CASE Goto(p, "closing") /\ UNCHANGED <<topup, order, events, rows, lock>>
  BY <1>1, GotoMoves, Quiet
<1>2. CASE Verify(p) /\ Goto(p, "lock")
  BY <1>2, GotoMoves, GoesOn DEF Verify, Finishing
<1>3. CASE LockTopup(p) /\ topup[proc[p].topup] = "captured"
  <2>1. End(p) /\ Accept(p) /\ UNCHANGED <<topup, order, rows>>
    BY <1>3 DEF LockTopup
  <2>2. events' \subseteq events
    BY <2>1 DEF Accept
  <2>3. QED
    BY <2>1, <2>2, EndMoves, Quiet
<1>4. CASE LockTopup(p) /\ topup[proc[p].topup] /= "captured"
  <2>1. /\ lock[proc[p].topup] = Nobody
        /\ lock' = [lock EXCEPT ![proc[p].topup] = p]
        /\ UNCHANGED <<topup, order, events, rows>>
    BY <1>4 DEF LockTopup, TakeRow
  <2>2. proc[p].topup \in Topups /\ proc[p].pc = "lock"
    BY <1>4 DEF LockTopup, Named
  <2>3. /\ lock'[proc[p].topup] = p
        /\ \A t \in Topups : lock[t] \in Procs \ {p} => lock'[t] = lock[t]
    BY <2>1, <2>2 DEF TypeOK, Procs
  <2>4. PICK pc \in {"look", "capture"} : Goto(p, pc)
    BY <1>4 DEF LockTopup
  <2>5. /\ Moved(p)
        /\ proc'[p].pc \in Finishing \ {"finalize"}
        /\ proc'[p].topup = proc[p].topup
    BY <2>4, GotoMoves DEF Finishing
  <2>6. QED
    BY <1>4, <2>1, <2>2, <2>3, <2>5, GoesOn
<1>5. CASE GetOrder(p) /\ proc' = [proc EXCEPT ![p].pc = "finalize",
                                               ![p].seen = order[proc[p].topup]]
  <2>1. /\ Moved(p)
        /\ proc'[p].pc = "finalize"
        /\ proc'[p].topup = proc[p].topup
        /\ proc'[p].seen = order[proc[p].topup]
    BY <1>5 DEF TypeOK, Moved, Request
  <2>2. proc[p].pc \in Finishing /\ UNCHANGED <<topup, order, events, rows, lock>>
    BY <1>5 DEF GetOrder, Finishing
  <2>3. lock[proc[p].topup] = p /\ topup[proc[p].topup] /= "captured"
    BY <2>2 DEF Inv, FinisherHoldsRow
  <2>4. QED
    BY <2>1, <2>2, <2>3, GoesOn DEF Finishing
<1>6. QED
  BY <1>1, <1>2, <1>3, <1>4, <1>5 DEF Verify, LockTopup, GetOrder

\* Nobody else finishes the top-up that p finishes.
LEMMA FinisherAlone ==
  ASSUME Inv, NEW p \in Procs, proc[p].pc \in Finishing
  PROVE  \A q \in Procs \ {p} : proc[q].pc \in Finishing => proc[q].topup /= proc[p].topup
  BY DEF Inv, FinisherHoldsRow

\* The capture is about an order nobody else is finishing.
LEMMA CaptureInv ==
  ASSUME TypeOK, TypeOK', Named, Inv, NEW p \in Procs, CaptureOrder(p)
  PROVE  Named' /\ Inv'
<1> DEFINE t == proc[p].topup
<1>1. t \in Topups /\ topup[t] \in Live /\ lock[t] = p /\ topup[t] /= "captured"
  BY DEF CaptureOrder, Finishing, Named, Inv, LiveFirst, FinisherHoldsRow
<1>2. /\ Moved(p)
      /\ proc'[p].topup = t
      /\ proc'[p].pc \in {"finalize", "closing"}
      /\ proc'[p].pc = "finalize" => proc'[p].seen = order'[t]
  <2>1. CASE Goto(p, "closing")
    BY <2>1, GotoMoves
  <2>2. CASE proc' = [proc EXCEPT ![p].pc = "finalize", ![p].seen = order'[t]]
    BY <2>2 DEF TypeOK, Moved, Request
  <2>3. QED
    BY <2>1, <2>2 DEF CaptureOrder
<1>3. UNCHANGED <<topup, rows, lock>> /\ proc[p].pc \in Finishing
  BY DEF CaptureOrder, Finishing
<1>4. (\A u \in Topups \ {t} : order'[u] = order[u]) /\ events' \subseteq events \cup {t}
  <2>1. CASE Captured(t)
    BY <2>1 DEF Captured, TypeOK
  <2>2. CASE UNCHANGED <<order, events>>
    BY <2>2
  <2>3. QED
    BY <2>1, <2>2 DEF CaptureOrder
<1>5. Named'
  BY <1>1, <1>2 DEF Named, Moved, Creating, Finishing
<1>6. LiveFirst'
  BY <1>1, <1>2, <1>3, <1>4 DEF Inv, LiveFirst, Moved, Finishing
<1>7. CreatorAlone'
  BY <1>2, <1>3 DEF Inv, CreatorAlone, Moved, Creating
<1>8. FinisherHoldsRow'
  <2>1. \A q \in Procs \ {p} : proc[q].pc \in Finishing => proc[q].topup \in Topups \ {t}
    BY <1>3, FinisherAlone DEF Named
  <2>2. QED
    BY <1>1, <1>2, <1>3, <1>4, <2>1 DEF Inv, FinisherHoldsRow, Moved, Finishing
<1>9. CreditedOnce' /\ CreditIsPaid'
  <2>1. rows[t] = 0
    BY <1>1 DEF Inv, CreditedOnce
  <2>2. QED
    BY <1>3, <1>4, <2>1 DEF Inv, CreditedOnce, CreditIsPaid
<1>10. QED
  BY <1>5, <1>6, <1>7, <1>8, <1>9 DEF Inv

\* The row is finished by the one request that holds it.
LEMMA FinalizeInv ==
  ASSUME TypeOK, TypeOK', Named, Inv, NEW p \in Procs, Mismatch(p) \/ Credit(p)
  PROVE  Named' /\ Inv'
<1> DEFINE t == proc[p].topup
<1>1. /\ t \in Topups /\ topup[t] \in Live /\ topup[t] /= "captured"
      /\ proc[p].pc = "finalize" /\ proc[p].seen.state = "completed"
      /\ order[t] = proc[p].seen
  <2>1. proc[p].pc = "finalize" /\ proc[p].seen.state = "completed"
    BY DEF Mismatch, Credit, Paid
  <2>2. QED
    BY <2>1 DEF Finishing, Named, Inv, LiveFirst, FinisherHoldsRow
<1>2. /\ Moved(p)
      /\ proc'[p].pc = "idle"
      /\ \A u \in Topups : lock[u] \in Procs \ {p} => lock'[u] = lock[u]
  BY EndMoves DEF Mismatch, Credit
<1>3. UNCHANGED order /\ events' \subseteq events
  BY DEF Mismatch, Credit, Accept
<1>4. \A u \in Topups \ {t} : topup'[u] = topup[u] /\ rows'[u] = rows[u]
  BY DEF Mismatch, Credit, TypeOK
<1>5. topup'[t] \in Live
  BY <1>1 DEF Mismatch, Credit, TypeOK, Live
<1>6. Named'
  BY <1>2 DEF Named, Moved, Creating, Finishing
<1>7. LiveFirst'
  <2>1. \A u \in Topups : topup[u] \in Live => topup'[u] \in Live
    BY <1>4, <1>5
  <2>2. QED
    BY <1>2, <1>3, <2>1 DEF Inv, LiveFirst, Named, Moved, Finishing, TypeOK
<1>8. CreatorAlone'
  <2>1. \A q \in Procs : proc[q].pc \in Creating => proc[q].topup \in Topups \ {t}
    BY <1>1 DEF Inv, CreatorAlone, Named, Live
  <2>2. QED
    BY <1>2, <1>4, <2>1 DEF Inv, CreatorAlone, Moved, Creating
<1>9. FinisherHoldsRow'
  <2>1. \A q \in Procs \ {p} : proc[q].pc \in Finishing => proc[q].topup \in Topups \ {t}
    BY <1>1, FinisherAlone DEF Named, Finishing
  <2>2. QED
    BY <1>2, <1>3, <1>4, <2>1 DEF Inv, FinisherHoldsRow, Moved, Finishing
<1>10. CreditedOnce' /\ CreditIsPaid'
  <2>1. rows[t] = 0
    BY <1>1 DEF Inv, CreditedOnce
  <2>2. CASE Mismatch(p)
    <3>1. rows'[t] = 0 /\ topup'[t] = "amount_mismatch"
      BY <1>1, <2>1, <2>2 DEF Mismatch, TypeOK
    <3>2. QED
      BY <1>3, <1>4, <3>1 DEF Inv, CreditedOnce, CreditIsPaid
  <2>3. CASE Credit(p)
    <3>1. rows'[t] = 1 /\ topup'[t] = "captured"
      BY <1>1, <2>1, <2>3 DEF Credit, TypeOK
    <3>2. order[t] = [state |-> "completed", cents |-> Cents]
      BY <1>1, <2>3 DEF Credit, Paid
    <3>3. QED
      BY <1>3, <1>4, <3>1, <3>2 DEF Inv, CreditedOnce, CreditIsPaid
  <2>4. QED
    BY <2>2, <2>3
<1>11. QED
  BY <1>6, <1>7, <1>8, <1>9, <1>10 DEF Inv

\* Every step keeps the invariant.
LEMMA InvNext ==
  ASSUME TypeOK, TypeOK', Named, Inv, [Next]_vars
  PROVE  Named' /\ Inv'
<1>1. ASSUME NEW p \in Procs, Verify(p) \/ LockTopup(p) \/ GetOrder(p) PROVE Named' /\ Inv'
  BY <1>1, WaitInv
<1>2. ASSUME NEW p \in Procs, LockPromo(p) PROVE Named' /\ Inv'
  <2>1. PICK pc \in {"redeem", "closing"} : Goto(p, pc)
    BY <1>2 DEF LockPromo
  <2>2. proc[p].user \in Users
    BY <1>2 DEF LockPromo, Named
  <2>3. \A t \in Topups : lock'[t] = lock[t]
    BY <1>2 DEF LockPromo, TypeOK
  <2>4. UNCHANGED <<topup, order, rows, events>>
    BY <1>2 DEF LockPromo
  <2>5. QED
    BY <2>1, <2>2, <2>3, <2>4, GotoMoves, Quiet
<1>3. ASSUME NEW p \in Procs, CreateOrder(p) PROVE Named' /\ Inv'
  BY <1>3, CreateOrderInv
<1>4. ASSUME NEW p \in Procs, SaveOrder(p) PROVE Named' /\ Inv'
  BY <1>4, SaveOrderInv
<1>5. ASSUME NEW p \in Procs, CaptureOrder(p) PROVE Named' /\ Inv'
  BY <1>5, CaptureInv
<1>6. ASSUME NEW p \in Procs, Mismatch(p) \/ Credit(p) PROVE Named' /\ Inv'
  BY <1>6, FinalizeInv
<1>7. ASSUME NEW p \in Procs, NotCompleted(p) \/ StillOverdrawn(p) PROVE Named' /\ Inv'
  <2>1. Goto(p, "closing") /\ UNCHANGED <<topup, order, rows, events, lock>>
    BY <1>7 DEF NotCompleted, StillOverdrawn, Raise
  <2>2. QED
    BY <2>1, GotoMoves, Quiet
<1>8. ASSUME NEW p \in Procs, Redeem(p) \/ Close(p) \/ Die(p) PROVE Named' /\ Inv'
  <2>1. End(p) /\ UNCHANGED <<topup, order, rows, events>>
    BY <1>8 DEF Redeem, Close, Die
  <2>2. QED
    BY <2>1, EndMoves, Quiet
<1>9. ASSUME NEW p \in Handlers, NEW t \in Topups, BeginTopup(p, t) PROVE Named' /\ Inv'
  BY <1>9, BeginTopupInv
<1>10. ASSUME NEW p \in Procs, NEW t \in Topups, BeginCapture(p, t) \/ BeginWebhook(p, t)
       PROVE  Named' /\ Inv'
  BY <1>10, BeginFinishInv
<1>11. ASSUME NEW p \in Handlers, NEW u \in Users, BeginRedeem(p, u) PROVE Named' /\ Inv'
  <2>1. /\ p \in Procs
        /\ Moved(p)
        /\ proc'[p].pc = "promo"
        /\ proc'[p].user = u
    BY <1>11 DEF TypeOK, BeginRedeem, NoRequest, NoOrder, Moved, Procs, Request
  <2>2. UNCHANGED <<topup, order, rows, events, lock>>
    BY <1>11 DEF BeginRedeem
  <2>3. QED
    BY <2>1, <2>2, Quiet
<1>12. ASSUME NEW t \in Topups, Approve(t) \/ Completes(t) PROVE Named' /\ Inv'
  BY <1>12, PayPalInv
<1>13. CASE Overage \/ PatchPromo \/ AdjustCredits \/ UNCHANGED vars
  <2>1. UNCHANGED <<topup, order, events, rows, lock, proc>>
    BY <1>13 DEF Overage, PatchPromo, AdjustCredits, vars
  <2>2. QED
    BY <2>1 DEF Named, Inv, LiveFirst, CreatorAlone, FinisherHoldsRow, CreditedOnce, CreditIsPaid
<1>14. QED
  BY <1>1, <1>2, <1>3, <1>4, <1>5, <1>6, <1>7, <1>8, <1>9, <1>10, <1>11, <1>12, <1>13
     DEF Next, Take, Work, Notify, Procs

\* The types and the invariant hold together: a request's top-up is typed
\* because the request names it.
LEMMA Always == Spec => [](TypeOK /\ Named /\ Inv)
<1>1. Init => TypeOK /\ Named /\ Inv
  BY TypeInit, InvInit
<1>2. TypeOK /\ Named /\ Inv /\ [Next]_vars => (TypeOK /\ Named /\ Inv)'
  BY TypeNext, InvNext
<1>3. QED
  BY <1>1, <1>2, PTL DEF Spec

\* Every reachable state of Deposits has its type.
THEOREM TypeCorrect == Spec => []TypeOK
  BY Always, PTL

\* However many capture requests and webhooks there are and in whatever order
\* they arrive, fail or die, a top-up is credited once, and its row says so.
THEOREM CreditedOnceHolds == Spec => []CreditedOnce
  BY Always, PTL DEF Inv

\* A top-up that is credited is completed at PayPal with the amount that was
\* asked for.
THEOREM CreditIsPaidHolds == Spec => []CreditIsPaid
  BY Always, PTL DEF Inv

(***************************************************************************)
(* Promo codes. Whoever redeems holds the row of the code, so that what    *)
(* ensure_promo_available has seen is still so when the redemption is      *)
(* written; and the counter is never behind the redemptions.               *)
(***************************************************************************)
RedeemerHoldsCode ==
  \A p \in Procs : proc[p].pc = "redeem" =>
    lock["promo"] = p /\ promo.active /\ promo.count < promo.max

RedemptionsCounted == IsFiniteSet(redeemed) /\ Cardinality(redeemed) <= promo.count

PromoInv == RedeemerHoldsCode /\ RedemptionsCounted

\* It holds at first.
LEMMA PromoInit == Init => PromoInv
<1>1. Init => RedeemerHoldsCode
  BY DEF Init, RedeemerHoldsCode, NoRequest, NoOrder
<1>2. Init => RedemptionsCounted
  BY FS_EmptySet DEF Init, RedemptionsCounted
<1>3. QED
  BY <1>1, <1>2 DEF PromoInv

\* A step of p that does not bring it to a redemption, and leaves the code and
\* its holder alone unless p holds it.
LEMMA PromoQuiet ==
  ASSUME PromoInv, NEW p \in Procs, Moved(p), UNCHANGED <<promo, redeemed>>,
         proc'[p].pc /= "redeem", lock["promo"] \in Procs \ {p} => lock'["promo"] = lock["promo"]
  PROVE  PromoInv'
<1>1. RedemptionsCounted'
  BY DEF PromoInv, RedemptionsCounted
<1>2. RedeemerHoldsCode'
  BY DEF PromoInv, RedeemerHoldsCode, Moved
<1>3. QED
  BY <1>1, <1>2 DEF PromoInv

\* Handlers of top-ups, and those that leave, do not touch the code.
LEMMA TopupKeepsPromo ==
  ASSUME TypeOK, TypeOK', Named, PromoInv, NEW p \in Procs,
         \/ \E t \in Topups : BeginTopup(p, t) \/ BeginCapture(p, t) \/ BeginWebhook(p, t)
         \/ \E u \in Users : BeginRedeem(p, u)
         \/ CreateOrder(p) \/ SaveOrder(p) \/ Verify(p) \/ LockTopup(p) \/ CaptureOrder(p)
         \/ GetOrder(p) \/ NotCompleted(p) \/ Mismatch(p) \/ Credit(p) \/ StillOverdrawn(p)
         \/ Close(p) \/ Die(p)
  PROVE  PromoInv'
<1>1. UNCHANGED <<promo, redeemed>>
  BY DEF BeginTopup, BeginCapture, BeginWebhook, BeginRedeem, CreateOrder, SaveOrder, Verify,
         LockTopup, CaptureOrder, GetOrder, NotCompleted, Mismatch, Credit, StillOverdrawn,
         Close, Die
<1>2. CASE End(p)
  <2>1. Moved(p) /\ proc'[p].pc = "idle"
    BY <1>2, EndMoves
  <2>2. lock["promo"] \in Procs \ {p} => lock'["promo"] = lock["promo"]
    BY <1>2 DEF End, TypeOK
  <2>3. QED
    BY <1>1, <2>1, <2>2, PromoQuiet
<1>3. ASSUME NEW pc \in {"created", "failed", "lock", "look", "capture", "closing"},
             Goto(p, pc), lock'["promo"] = lock["promo"]
      PROVE  PromoInv'
  BY <1>1, <1>3, GotoMoves, PromoQuiet
<1>4. ASSUME NEW e, e.pc /= "redeem", proc' = [proc EXCEPT ![p] = e],
             lock'["promo"] = lock["promo"]
      PROVE  PromoInv'
  <2>1. Moved(p) /\ proc'[p].pc /= "redeem"
    BY <1>4 DEF TypeOK, Moved, Request
  <2>2. QED
    BY <1>1, <1>4, <2>1, PromoQuiet
<1>5. ASSUME NEW o, proc' = [proc EXCEPT ![p].pc = "finalize", ![p].seen = o],
             lock'["promo"] = lock["promo"]
      PROVE  PromoInv'
  <2>1. Moved(p) /\ proc'[p].pc /= "redeem"
    BY <1>5 DEF TypeOK, Moved, Request
  <2>2. QED
    BY <1>1, <1>5, <2>1, PromoQuiet
<1>6. CASE \E t \in Topups : BeginTopup(p, t) \/ BeginCapture(p, t) \/ BeginWebhook(p, t)
  BY <1>6, <1>4 DEF BeginTopup, BeginCapture, BeginWebhook, NoRequest
<1>7. CASE \E u \in Users : BeginRedeem(p, u)
  BY <1>7, <1>4 DEF BeginRedeem, NoRequest
<1>8. CASE CreateOrder(p) \/ Verify(p) \/ NotCompleted(p) \/ StillOverdrawn(p)
  BY <1>8, <1>3 DEF CreateOrder, Verify, NotCompleted, StillOverdrawn, Raise
<1>9. CASE SaveOrder(p) \/ Mismatch(p) \/ Credit(p) \/ Close(p) \/ Die(p)
  BY <1>9, <1>2 DEF SaveOrder, Mismatch, Credit, Close, Die
<1>10. CASE LockTopup(p)
  <2>1. CASE topup[proc[p].topup] = "captured"
    BY <1>2, <1>10, <2>1 DEF LockTopup
  <2>2. CASE topup[proc[p].topup] /= "captured"
    <3>1. /\ lock' = [lock EXCEPT ![proc[p].topup] = p]
          /\ \E pc \in {"look", "capture"} : Goto(p, pc)
      BY <1>10, <2>2 DEF LockTopup
    <3>2. proc[p].topup \in Topups
      BY <1>10 DEF LockTopup, Named
    <3>3. lock'["promo"] = lock["promo"]
      BY <3>1, <3>2 DEF TypeOK
    <3>4. QED
      BY <3>1, <3>3, <1>3
  <2>3. QED
    BY <2>1, <2>2
<1>11. CASE CaptureOrder(p) \/ GetOrder(p)
  BY <1>11, <1>3, <1>5 DEF CaptureOrder, GetOrder
<1>12. QED
  BY <1>6, <1>7, <1>8, <1>9, <1>10, <1>11

\* The check: whoever passes it holds the code, which has one left.
LEMMA LockPromoKeepsPromo ==
  ASSUME TypeOK, TypeOK', PromoInv, NEW p \in Procs, LockPromo(p)
  PROVE  PromoInv'
<1>1. /\ lock["promo"] = Nobody /\ lock'["promo"] = p
      /\ UNCHANGED <<promo, redeemed>>
  BY DEF LockPromo, TakePromo, TypeOK
<1>2. PICK pc \in {"redeem", "closing"} :
        Goto(p, pc) /\ (pc = "redeem" => promo.active /\ promo.count < promo.max)
  BY DEF LockPromo, Available
<1>3. Moved(p) /\ proc'[p].pc = pc
  BY <1>2, GotoMoves
<1>4. \A q \in Procs : proc[q].pc /= "redeem"
  BY <1>1 DEF PromoInv, RedeemerHoldsCode, Procs
<1>5. RedeemerHoldsCode'
  BY <1>1, <1>2, <1>3, <1>4 DEF RedeemerHoldsCode, Moved
<1>6. RedemptionsCounted'
  BY <1>1 DEF PromoInv, RedemptionsCounted
<1>7. QED
  BY <1>5, <1>6 DEF PromoInv

\* The redemption: one more account, one more in the counter.
LEMMA RedeemCounts ==
  ASSUME TypeOK, PromoInv, NEW p \in Procs, Redeem(p)
  PROVE  /\ IsFiniteSet(redeemed') /\ Cardinality(redeemed') <= promo.count + 1
         /\ promo'.count = promo.count + 1
<1>1. redeemed' = redeemed \cup {proc[p].user}
  BY DEF Redeem
<1>2. IsFiniteSet(redeemed) /\ Cardinality(redeemed) <= promo.count
  BY DEF PromoInv, RedemptionsCounted
<1>3. /\ IsFiniteSet(redeemed')
      /\ \/ Cardinality(redeemed') = Cardinality(redeemed)
         \/ Cardinality(redeemed') = Cardinality(redeemed) + 1
  BY <1>1, <1>2, FS_AddElement
<1>4. Cardinality(redeemed) \in Nat /\ promo.count \in Nat
  BY <1>2, FS_CardinalityType DEF TypeOK
<1>5. promo'.count = promo.count + 1
  BY DEF Redeem, TypeOK
<1>6. QED
  BY <1>2, <1>3, <1>4, <1>5

\* It leaves the code, and nobody else held it.
LEMMA RedeemKeepsPromo ==
  ASSUME TypeOK, TypeOK', PromoInv, NEW p \in Procs, Redeem(p)
  PROVE  PromoInv'
<1>1. End(p) /\ proc[p].pc = "redeem"
  BY DEF Redeem
<1>2. Moved(p) /\ proc'[p].pc = "idle"
  BY <1>1, EndMoves
<1>3. \A q \in Procs \ {p} : proc[q].pc /= "redeem"
  BY <1>1 DEF PromoInv, RedeemerHoldsCode
<1>4. RedeemerHoldsCode'
  BY <1>2, <1>3 DEF RedeemerHoldsCode, Moved
<1>5. RedemptionsCounted'
  BY RedeemCounts DEF RedemptionsCounted
<1>6. QED
  BY <1>4, <1>5 DEF PromoInv

\* The administrator waits for the row, so nobody is between check and write.
LEMMA PatchKeepsPromo ==
  ASSUME TypeOK, PromoInv, PatchPromo
  PROVE  PromoInv'
<1>1. lock["promo"] = Nobody /\ UNCHANGED <<proc, redeemed>> /\ promo'.count = promo.count
  BY DEF PatchPromo, TakePromo, TypeOK
<1>2. \A q \in Procs : proc[q].pc /= "redeem"
  BY <1>1 DEF PromoInv, RedeemerHoldsCode, Procs
<1>3. QED
  BY <1>1, <1>2 DEF PromoInv, RedeemerHoldsCode, RedemptionsCounted

\* Every step keeps what is known of the code.
LEMMA PromoNext ==
  ASSUME TypeOK, TypeOK', Named, PromoInv, [Next]_vars
  PROVE  PromoInv'
<1>1. ASSUME NEW p \in Procs, Take(p) \/ Work(p) \/ Close(p) \/ Die(p) PROVE PromoInv'
  BY <1>1, TopupKeepsPromo, LockPromoKeepsPromo, RedeemKeepsPromo DEF Take, Work
<1>2. ASSUME NEW p \in Procs,
             \/ \E t \in Topups : BeginTopup(p, t) \/ BeginCapture(p, t) \/ BeginWebhook(p, t)
             \/ \E u \in Users : BeginRedeem(p, u)
      PROVE  PromoInv'
  BY <1>2, TopupKeepsPromo
<1>3. ASSUME NEW t \in Topups, Approve(t) \/ Completes(t) PROVE PromoInv'
  BY <1>3 DEF Approve, Completes, PromoInv, RedeemerHoldsCode, RedemptionsCounted
<1>4. CASE Overage \/ AdjustCredits \/ UNCHANGED vars
  BY <1>4 DEF Overage, AdjustCredits, vars, PromoInv, RedeemerHoldsCode, RedemptionsCounted
<1>5. CASE PatchPromo
  BY <1>5, PatchKeepsPromo
<1>6. QED
  BY <1>1, <1>2, <1>3, <1>4, <1>5 DEF Next, Notify, Procs

\* A step that adds a redemption is one of Redeem.
LEMMA OnlyRedeemRedeems ==
  ASSUME [Next]_vars, redeemed' /= redeemed
  PROVE  \E p \in Procs : Redeem(p)
  BY DEF Next, Take, Work, Notify, Procs, vars, LockTopup, LockPromo, CreateOrder, SaveOrder,
         Verify, CaptureOrder, GetOrder, NotCompleted, Mismatch, Credit, StillOverdrawn, Close,
         Die, BeginTopup, BeginCapture, BeginRedeem, BeginWebhook, Approve, Completes, Overage,
         PatchPromo, AdjustCredits

\* A code is never redeemed past its limit at that moment, nor after it has been
\* switched off (redeem_promo_code locks the row, patch_promo waits for it).
THEOREM RedeemedWithinLimitHolds == Spec => RedeemedWithinLimit
<1>1. ASSUME TypeOK, PromoInv, [Next]_vars, redeemed' /= redeemed
      PROVE  promo.active /\ Cardinality(redeemed') <= promo.max
  <2>1. PICK p \in Procs : Redeem(p)
    BY <1>1, OnlyRedeemRedeems
  <2>2. promo.active /\ promo.count < promo.max
    BY <1>1, <2>1 DEF Redeem, PromoInv, RedeemerHoldsCode
  <2>3. IsFiniteSet(redeemed') /\ Cardinality(redeemed') <= promo.count + 1
    BY <1>1, <2>1, RedeemCounts
  <2>4. Cardinality(redeemed') \in Nat /\ promo.count \in Nat /\ promo.max \in Nat
    BY <1>1, <2>3, FS_CardinalityType DEF TypeOK
  <2>5. QED
    BY <2>2, <2>3, <2>4
<1>2. TypeOK /\ PromoInv /\ [Next]_vars
        => [redeemed' /= redeemed => promo.active /\ Cardinality(redeemed') <= promo.max]_vars
  BY <1>1
<1>3. TypeOK /\ TypeOK' /\ Named /\ PromoInv /\ [Next]_vars => PromoInv'
  BY PromoNext
<1>4. QED
  BY <1>2, <1>3, PromoInit, Always, PTL DEF Spec, RedeemedWithinLimit
=============================================================================
