------------------------------- MODULE Billing -------------------------------
(***************************************************************************)
(* What one business pays for its plan, and the periods it gets for it.    *)
(* A payment is an order the customer pays in a checkout, confirmed by the *)
(* client and by webhooks in any order, or a recurring charge the provider *)
(* takes under a mandate.  Each request, webhook delivery and sweep of the *)
(* reconciliation job is a task; an action is one round trip to the        *)
(* database or the provider.  Times are ticks; the `now` of a task is the  *)
(* time it started.                                                        *)
(*                                                                         *)
(* Left out: prices and discounts (a change of plan credits the unused time *)
(* in the price), the refusal of a second order that carries such a credit, coupon slots (Coupons), the  *)
(* referrer's reward of a converted referral (Referrals), the state of the *)
(* mandate (Mandate), the grace window, plans that were withdrawn, the     *)
(* Business mirror, reminders and alerts.                                  *)
(***************************************************************************)
EXTENDS MoneySum, Integers

CONSTANTS
  Payments,     \* numbers above 0
  Slots,        \* tasks under way at once
  Refunds,      \* refund ids, per payment
  Net,          \* netAmount of a payment
  PlanOf,       \* [Payments -> the plan it buys]
  Period,       \* length of a paid period
  Couponed,     \* payments with a free_period coupon
  Bonus,        \* the time it adds
  FreeDays,     \* time a referral reward adds
  Hold,         \* CHECKOUT_HOLD_MS
  Grace,        \* ACTIVATION_GRACE_MS
  MaxTime,      \* bound: the clock, LastStart + Grace + 2
  Charges,      \* payments taken under the mandate, not in a checkout
  LastStart,    \* bound: requests start by it, and end by the next tick
  MaxRequests,  \* bound: requests and webhook deliveries
  MaxCrashes    \* bound: tasks that die or throw

Paid == {"pro", "business"}   \* the plans that are bought

ASSUME BillingShape ==
  /\ Payments \subseteq Nat \ {0} /\ Charges \subseteq Payments /\ Couponed \subseteq Payments
  /\ PlanOf \in [Payments -> Paid]
  /\ IsFiniteSet(Refunds) /\ "" \notin Refunds
  /\ {Net, Period, MaxTime} \subseteq Nat \ {0}
  /\ {Bonus, FreeDays, Hold, Grace} \subseteq Nat

VARIABLES
  now,
  row,     \* [Payments -> its SubscriptionPayment; linked: `subscription` is set]
  sub,     \* the Subscription: plan, period, end of a cancellation (0 for null)
  history, \* payments named by a SubscriptionHistory row
  remote,  \* [Payments -> what happened at the provider]
  task,    \* [Slots -> the request, its step and the documents in its hands]
  opened, crashes, \* what the bounds count
  granted, \* history: [Payments -> periods granted for it]
  slow,    \* history: payments swept while their activation was still running
  missed,  \* history: payments granted without a history row, which the plan shows no more
  raced    \* history: a subscription was saved from a copy others had changed

vars == <<now, row, sub, history, remote, task, opened, crashes, granted, slow, missed, raced>>
bounds == <<opened, crashes>>
ghosts == <<granted, slow, missed, raced>>

Statuses == {"none", "created", "captured", "failed", "partially_refunded", "refunded"}
NoRow == [status |-> "none", linked |-> FALSE, end |-> 0, created |-> 0, touched |-> 0,
          events |-> {}, refundIds |-> {}, refunded |-> 0, flagged |-> FALSE]
Unpaid == [kind |-> "none", captured |-> FALSE, failed |-> FALSE, odd |-> FALSE,
           refunds |-> [r \in Refunds |-> 0]]
Idle == [pc |-> "idle", p |-> 0, at |-> 0, end |-> 0, renew |-> FALSE, stale |-> FALSE,
         event |-> <<"", "">>, sweep |-> FALSE, left |-> {}]
EventKinds == {"", "captured", "failed", "created", "processed", "admin"}

Total(f, S) == Sum([r \in S |-> f[r]])

TypeOK ==
  /\ now \in 1..MaxTime
  /\ row \in [Payments -> [status : Statuses, linked : BOOLEAN, end : Nat, created : Nat,
       touched : Nat, events : SUBSET (EventKinds \X (Refunds \cup {""})),
       refundIds : SUBSET Refunds, refunded : 0..Net, flagged : BOOLEAN]]
  /\ sub \in [plan : {"free"} \cup Paid, status : {"active", "trialing"}, start : Nat,
              end : Nat, cancelAt : Nat, trialUsed : BOOLEAN]
  /\ sub.plan = "free" => sub.end = 0
  /\ history \subseteq {p \in Payments : granted[p] > 0}
  /\ \A p \in Payments :
       /\ row[p].end # 0 => row[p].linked /\ row[p].status \notin {"none", "created", "failed"}
       /\ row[p].status = "refunded" <=> row[p].refunded = Net
       /\ granted[p] > 0 => remote[p].captured
  /\ \A s \in Slots : task[s].pc = "idle" => task[s] = Idle

Init ==
  /\ now = 1
  /\ row = [p \in Payments |-> NoRow]
  /\ sub = [plan |-> "free", status |-> "active", start |-> 0, end |-> 0, cancelAt |-> 0,
            trialUsed |-> FALSE]
  /\ history = {}
  /\ remote = [p \in Payments |-> Unpaid]
  /\ task = [s \in Slots |-> Idle]
  /\ opened = 0 /\ crashes = 0
  /\ granted = [p \in Payments |-> 0] /\ slow = {} /\ missed = {} /\ raced = FALSE

-----------------------------------------------------------------------------
At(s, pc) == task[s].pc = pc
Payment(s) == row[task[s].p]
Do(s, next) == task' = [task EXCEPT ![s] = next]
Goto(s, pc) == Do(s, [task[s] EXCEPT !.pc = pc])
\* A task ends; a sweep turns to its next payment.
Done(s) == Do(s, IF task[s].sweep
                 THEN [Idle EXCEPT !.pc = "sweep", !.at = task[s].at, !.sweep = TRUE,
                                   !.left = task[s].left]
                 ELSE Idle)
Free(s) == At(s, "idle") /\ \A t \in Slots : t < s => ~At(t, "idle")
Open(s) ==
  /\ now <= LastStart /\ opened < MaxRequests /\ Free(s)
  /\ opened' = opened + 1
Begin(s, pc, p) == Do(s, [Idle EXCEPT !.pc = pc, !.p = p, !.at = now])

\* Saving the subscription: whoever read it before now holds an old copy.
Holding == {"extend", "write", "history", "bonus", "save", "reactivate", "free", "trial"}
Save(s, saved, next) ==
  /\ sub' = saved
  /\ raced' = (raced \/ task[s].stale)
  /\ task' = [t \in Slots |->
       IF t = s THEN next
       ELSE [task[t] EXCEPT !.stale = @ \/ task[t].pc \in Holding]]

-----------------------------------------------------------------------------
\* The customer and the provider.
Tick ==
  /\ now < MaxTime
  /\ now <= LastStart \/ \A s \in Slots : At(s, "idle") \/ task[s].sweep
  /\ now' = now + 1
  /\ UNCHANGED <<row, sub, history, remote, task, bounds, ghosts>>

\* An attempt to pay an order fails, or one succeeds; later attempts stay possible.
Attempt(p, ok, odd) ==
  /\ now <= LastStart
  /\ remote[p].kind = "order" /\ ~remote[p].captured /\ (odd => ok)
  /\ remote' = [remote EXCEPT ![p].captured = ok, ![p].failed = @ \/ ~ok, ![p].odd = odd]
  /\ UNCHANGED <<now, row, sub, history, task, bounds, ghosts>>

\* The mandate is debited, for the amount it was set up with or another one.
Debit(p, odd) ==
  /\ now <= LastStart
  /\ p \in Charges /\ remote[p] = Unpaid
  /\ remote' = [remote EXCEPT ![p].kind = "charge", ![p].captured = TRUE, ![p].odd = odd]
  /\ UNCHANGED <<now, row, sub, history, task, bounds, ghosts>>

Refundable(p, r, amount) ==
  /\ remote[p].captured /\ remote[p].refunds[r] = 0
  /\ amount + Total(remote[p].refunds, Refunds) <= Net
RefundAtProvider(p, r, amount) ==
  /\ now <= LastStart /\ Refundable(p, r, amount)
  /\ remote' = [remote EXCEPT ![p].refunds[r] = amount]
  /\ UNCHANGED <<now, row, sub, history, task, bounds, ghosts>>

Sent(p) ==
  {e \in EventKinds \X (Refunds \cup {""}) :
     \/ e = <<"captured", "">> /\ remote[p].captured
     \/ e = <<"failed", "">> /\ remote[p].failed
     \/ e[1] \in {"created", "processed"} /\ e[2] # "" /\ remote[p].refunds[e[2]] # 0}

-----------------------------------------------------------------------------
\* createCheckout: one open order for the same terms, else a row, then the order.
\* The row names the subscription the business has since it signed up.
OpenCheckout(p) == \E q \in Payments :
  PlanOf[q] = PlanOf[p] /\ row[q].status = "created" /\ remote[q].kind = "order" /\ row[q].created > now - Hold
Quote(s, p) ==
  /\ Open(s) /\ p \notin Charges /\ row[p] = NoRow /\ remote[p] = Unpaid /\ \A t \in Slots : task[t].p # p
  /\ ~OpenCheckout(p)
  /\ Begin(s, "insert", p)
  /\ UNCHANGED <<now, row, sub, history, remote, crashes, ghosts>>
InsertRow(s) ==
  /\ At(s, "insert")
  /\ row' = [row EXCEPT ![task[s].p] =
       [NoRow EXCEPT !.status = "created", !.linked = TRUE, !.created = task[s].at, !.touched = now]]
  /\ Goto(s, "order")
  /\ UNCHANGED <<now, sub, history, remote, bounds, ghosts>>
CreateOrder(s, ok) ==
  /\ At(s, "order")
  /\ IF ok THEN remote' = [remote EXCEPT ![task[s].p].kind = "order"] /\ UNCHANGED row
     ELSE row' = [row EXCEPT ![task[s].p].status = "failed"] /\ UNCHANGED remote
  /\ Done(s)
  /\ UNCHANGED <<now, sub, history, bounds, ghosts>>

\* verifyCheckout: the client confirms a capture it has a signature for.
Verify(s, p) ==
  /\ Open(s) /\ row[p].status \notin {"none", "captured"}
  /\ remote[p].kind = "order" /\ remote[p].captured /\ ~remote[p].odd
  /\ Begin(s, "claim", p)
  /\ UNCHANGED <<now, row, sub, history, remote, crashes, ghosts>>

\* A webhook, delivered again until it was handled; one already on the row is a no-op.
Webhook(s, p, e) ==
  /\ Open(s) /\ row[p] # NoRow /\ e \in Sent(p) \ row[p].events
  /\ remote[p].kind = "charge" => e[2] # ""
  /\ IF e[1] = "captured" /\ remote[p].odd
     THEN row' = [row EXCEPT ![p].flagged = TRUE] /\ UNCHANGED task
     ELSE /\ Do(s, [Idle EXCEPT !.p = p, !.at = now, !.end = row[p].end, !.event = e,
                 !.pc = CASE e[1] = "captured" -> "claim"
                          [] e[1] = "failed" -> "fail"
                          [] OTHER -> "refund"])
          /\ UNCHANGED row
  /\ UNCHANGED <<now, sub, history, remote, crashes, ghosts>>

CanClaim(p) == row[p].status = "created"
Marked(s) == IF task[s].event[1] = "" THEN {} ELSE {task[s].event}
Claim(s) ==
  /\ At(s, "claim")
  /\ LET p == task[s].p IN
     IF CanClaim(p)
     THEN /\ row' = [row EXCEPT ![p].status = "captured", ![p].touched = now,
                                ![p].events = @ \cup Marked(s)]
          /\ Goto(s, "first")
     ELSE Done(s) /\ UNCHANGED row
  /\ UNCHANGED <<now, sub, history, remote, bounds, ghosts>>

CanFailAny(p) == TRUE
CanFail(p) == row[p].status = "created"
FailPayment(s) ==
  /\ At(s, "fail")
  /\ row' = IF ~CanFail(task[s].p) THEN row
            ELSE [row EXCEPT ![task[s].p].status = "failed", ![task[s].p].touched = now,
                             ![task[s].p].events = @ \cup Marked(s)]
  /\ Done(s)
  /\ UNCHANGED <<now, sub, history, remote, bounds, ghosts>>

\* recordAutopayCharge, by webhook or by the client: find the row, else insert it.
\* An amount nobody authorised is recorded and flagged.
ChargeSeen(s, p) ==
  /\ Open(s) /\ remote[p].kind = "charge" /\ row[p] = NoRow
  /\ Begin(s, "record", p)
  /\ UNCHANGED <<now, row, sub, history, remote, crashes, ghosts>>
RecordCharge(s) ==
  /\ At(s, "record")
  /\ LET p == task[s].p IN
     IF row[p] = NoRow
     THEN /\ row' = [row EXCEPT ![p] = [NoRow EXCEPT !.status = "captured",
               !.created = now, !.touched = now, !.flagged = remote[p].odd]]
          /\ IF remote[p].odd THEN Done(s) ELSE Goto(s, "first")
     ELSE Done(s) /\ UNCHANGED row
  /\ UNCHANGED <<now, sub, history, remote, bounds, ghosts>>

-----------------------------------------------------------------------------
\* applyCapturedPayment and applyPlan: read (a renewal, or another plan?), read again
\* (from where does it extend?), write, history row, coupon time, link to the payment.
ReadPlan(s) ==
  /\ At(s, "first")
  /\ Do(s, [task[s] EXCEPT !.pc = "extend", !.renew = (sub.plan = PlanOf[task[s].p]), !.stale = FALSE])
  /\ UNCHANGED <<now, row, sub, history, remote, bounds, ghosts>>

ExtendFromNow(t) == t.at
ExtendFrom(t) == IF t.renew /\ sub.end > t.at THEN sub.end ELSE t.at
ReadPeriod(s) ==
  /\ At(s, "extend")
  /\ Do(s, [task[s] EXCEPT !.pc = "write", !.end = ExtendFrom(task[s]) + Period])
  /\ UNCHANGED <<now, row, sub, history, remote, bounds, ghosts>>

Applied(t, plan) == [sub EXCEPT !.plan = plan, !.status = "active", !.start = t.at,
                                !.end = t.end, !.cancelAt = 0]
WritePlan(s) ==
  /\ At(s, "write")
  /\ Save(s, Applied(task[s], PlanOf[task[s].p]), [task[s] EXCEPT !.pc = "history", !.stale = FALSE])
  /\ granted' = [granted EXCEPT ![task[s].p] = @ + 1]
  /\ UNCHANGED <<now, row, history, remote, bounds, slow, missed>>

\* recordHistory swallows its errors: the row may be lost and the activation goes on.
WriteHistory(s, ok) ==
  /\ At(s, "history") /\ (ok \/ crashes < MaxCrashes)
  /\ IF ok THEN history' = history \cup {task[s].p} /\ UNCHANGED crashes
     ELSE crashes' = crashes + 1 /\ UNCHANGED history
  /\ Goto(s, IF task[s].p \in Couponed THEN "bonus" ELSE "link")
  /\ UNCHANGED <<now, row, sub, remote, opened, ghosts>>

AddBonus(s) ==
  /\ At(s, "bonus")
  /\ LET end == task[s].end + Bonus IN
     Save(s, [sub EXCEPT !.end = end], [task[s] EXCEPT !.pc = "link", !.end = end])
  /\ UNCHANGED <<now, row, history, remote, bounds, granted, slow, missed>>

LinkPayment(s) ==
  /\ At(s, "link")
  /\ row' = [row EXCEPT ![task[s].p].linked = TRUE, ![task[s].p].end = task[s].end,
                        ![task[s].p].touched = now]
  /\ Done(s)
  /\ UNCHANGED <<now, sub, history, remote, bounds, ghosts>>

-----------------------------------------------------------------------------
\* reconcileCapturedPayments, one sweep at a time (the job is claimed by window).
StuckNow(p) ==
  row[p].status = "captured" /\ ~row[p].linked /\ row[p].touched > now + Grace
Stuck(p) ==
  row[p].status = "captured" /\ ~row[p].linked /\ row[p].touched < now - Grace
Activating(p) == \E t \in Slots :
  task[t].p = p /\ task[t].pc \in {"first", "extend", "write", "history", "bonus", "link"}
Sweep(s) ==
  /\ Free(s) /\ \A t \in Slots : ~task[t].sweep
  /\ \E p \in Payments : Stuck(p)
  /\ LET stuck == {p \in Payments : Stuck(p)} IN
     /\ Do(s, [Idle EXCEPT !.pc = "sweep", !.at = now, !.sweep = TRUE, !.left = stuck])
     /\ slow' = slow \cup {p \in stuck : Activating(p)}
  /\ UNCHANGED <<now, row, sub, history, remote, bounds, granted, missed, raced>>
NextStuck(s) ==
  /\ At(s, "sweep")
  /\ IF task[s].left = {} THEN Do(s, Idle)
     ELSE \E p \in task[s].left :
            /\ \A q \in task[s].left : row[p].touched <= row[q].touched
            /\ Do(s, [task[s] EXCEPT !.pc = "judge", !.p = p, !.left = @ \ {p}])
  /\ UNCHANGED <<now, row, sub, history, remote, bounds, ghosts>>

\* alreadyApplied: a history row, or else the state of the subscription.
FindHistory(s) ==
  /\ At(s, "judge")
  /\ Goto(s, IF task[s].p \in history THEN "backfill" ELSE "guess")
  /\ UNCHANGED <<now, row, sub, history, remote, bounds, ghosts>>
LooksAppliedNever(p) == FALSE
LooksApplied(p) == sub.plan = PlanOf[p] /\ sub.start >= row[p].created
GuessApplied(s) ==
  /\ At(s, "guess")
  /\ Goto(s, IF LooksApplied(task[s].p) THEN "backfill" ELSE "first")
  /\ missed' = IF /\ granted[task[s].p] > 0
                  /\ sub.plan # PlanOf[task[s].p] \/ sub.start < Payment(s).created
               THEN missed \cup {task[s].p} ELSE missed
  /\ UNCHANGED <<now, row, sub, history, remote, bounds, granted, slow, raced>>
Backfill(s) ==
  /\ At(s, "backfill")
  /\ Do(s, [task[s] EXCEPT !.pc = "link", !.end = sub.end])
  /\ UNCHANGED <<now, row, sub, history, remote, bounds, ghosts>>

-----------------------------------------------------------------------------
\* refundPayment: an administrator refunds through the provider.
AskRefund(s, p, r) ==
  /\ Open(s) /\ row[p].status \in {"captured", "partially_refunded"}
  /\ remote[p].refunds[r] = 0
  /\ Do(s, [Idle EXCEPT !.pc = "ask", !.p = p, !.at = now, !.end = row[p].end,
                        !.event = <<"admin", r>>])
  /\ UNCHANGED <<now, row, sub, history, remote, crashes, ghosts>>
ProviderRefunds(s, amount) ==
  /\ At(s, "ask")
  /\ LET p == task[s].p
         r == task[s].event[2] IN
     IF Refundable(p, r, amount) /\ amount <= Net - row[p].refunded
     THEN remote' = [remote EXCEPT ![p].refunds[r] = amount] /\ Goto(s, "refund")
     ELSE Done(s) /\ UNCHANGED remote
  /\ UNCHANGED <<now, row, sub, history, bounds, ghosts>>

\* applyRefund: keyed by the refund, whichever event brings it.
AlreadyAppliedByEvent(s) == task[s].event \in Payment(s).events
AlreadyApplied(s) == task[s].event[2] \in Payment(s).refundIds
RefundedBy(s) ==
  LET sum == Payment(s).refunded + remote[task[s].p].refunds[task[s].event[2]] IN
  IF sum >= Net THEN Net ELSE sum
ApplyRefund(s) ==
  /\ At(s, "refund")
  /\ IF AlreadyApplied(s) THEN Done(s) /\ UNCHANGED row
     ELSE /\ row' = [row EXCEPT ![task[s].p].refunded = RefundedBy(s),
               ![task[s].p].refundIds = @ \cup {task[s].event[2]},
               ![task[s].p].events = @ \cup (IF task[s].event[1] = "admin" THEN {} ELSE Marked(s)),
               ![task[s].p].touched = now,
               ![task[s].p].status =
                 IF RefundedBy(s) = Net THEN "refunded" ELSE "partially_refunded"]
          /\ IF RefundedBy(s) = Net /\ task[s].end # 0 THEN Goto(s, "compare") ELSE Done(s)
  /\ UNCHANGED <<now, sub, history, remote, bounds, ghosts>>
ComparePeriod(s) ==
  /\ At(s, "compare")
  /\ IF sub.end = task[s].end THEN Do(s, [task[s] EXCEPT !.pc = "cancel"]) ELSE Done(s)
  /\ UNCHANGED <<now, row, sub, history, remote, bounds, ghosts>>

\* cancelSubscription, at once (a refund) or at the end of the period (the user).
Ended(at) ==
  \/ sub.cancelAt # 0 /\ sub.cancelAt <= at
  \/ sub.status = "active" /\ sub.end # 0 /\ sub.end <= at
UserCancels(s) ==
  /\ Open(s) /\ Begin(s, "cancel", 0)
  /\ UNCHANGED <<now, row, sub, history, remote, crashes, ghosts>>
Cancel(s) ==
  /\ At(s, "cancel")
  /\ IF Ended(task[s].at) THEN Done(s)
     ELSE Do(s, [task[s] EXCEPT !.pc = "save", !.stale = FALSE,
            !.end = IF task[s].p # 0 \/ sub.end <= task[s].at THEN task[s].at ELSE sub.end])
  /\ UNCHANGED <<now, row, sub, history, remote, bounds, ghosts>>
SaveCancel(s) ==
  /\ At(s, "save")
  /\ Save(s, [sub EXCEPT !.cancelAt = task[s].end], Idle)
  /\ UNCHANGED <<now, row, history, remote, bounds, granted, slow, missed>>

UserReactivates(s) ==
  /\ Open(s) /\ sub.cancelAt > now /\ Begin(s, "reactivate", 0)
  /\ UNCHANGED <<now, row, sub, history, remote, crashes, ghosts>>
Reactivate(s) ==
  /\ At(s, "reactivate")
  /\ Save(s, [sub EXCEPT !.cancelAt = 0], Idle)
  /\ UNCHANGED <<now, row, history, remote, bounds, granted, slow, missed>>

\* startTrial: once, and not over a running paid period.
UserTries(s) ==
  /\ Open(s) /\ ~sub.trialUsed
  /\ sub.end = 0 \/ sub.status = "trialing" \/ Ended(now)
  /\ Begin(s, "trial", 0)
  /\ UNCHANGED <<now, row, sub, history, remote, crashes, ghosts>>
StartTrial(s, plan) ==
  /\ At(s, "trial")
  /\ Save(s, [plan |-> plan, status |-> "trialing", start |-> task[s].at, end |-> 0,
              cancelAt |-> 0, trialUsed |-> TRUE], Idle)
  /\ UNCHANGED <<now, row, history, remote, bounds, granted, slow, missed>>

\* grantFreeDays: added to the period that runs, else a period of their own.
RewardEarned(s) ==
  /\ Open(s)
  /\ Do(s, [Idle EXCEPT !.pc = "free", !.at = now, !.renew = (sub.end > now),
            !.end = (IF sub.end > now THEN sub.end ELSE now) + FreeDays])
  /\ UNCHANGED <<now, row, sub, history, remote, crashes, ghosts>>
GrantFreeDays(s) ==
  /\ At(s, "free")
  /\ Save(s, IF task[s].renew THEN [sub EXCEPT !.end = task[s].end, !.status = "active"]
             ELSE Applied(task[s], "pro"), Idle)
  /\ UNCHANGED <<now, row, history, remote, bounds, granted, slow, missed>>

-----------------------------------------------------------------------------
\* The process dies, or the step throws: a webhook is then delivered again.
Crash(s) ==
  /\ crashes < MaxCrashes /\ now <= LastStart /\ ~At(s, "idle")
  /\ crashes' = crashes + 1
  /\ Do(s, Idle)
  /\ UNCHANGED <<now, row, sub, history, remote, opened, ghosts>>

Step(s) ==
  \/ InsertRow(s) \/ \E ok \in BOOLEAN : CreateOrder(s, ok)
  \/ Claim(s) \/ FailPayment(s) \/ RecordCharge(s)
  \/ ReadPlan(s) \/ ReadPeriod(s) \/ WritePlan(s) \/ AddBonus(s)
  \/ LinkPayment(s) \/ \E ok \in BOOLEAN : WriteHistory(s, ok)
  \/ NextStuck(s) \/ FindHistory(s) \/ GuessApplied(s) \/ Backfill(s)
  \/ \E amount \in 1..Net : ProviderRefunds(s, amount)
  \/ ApplyRefund(s) \/ ComparePeriod(s) \/ Cancel(s) \/ SaveCancel(s)
  \/ Reactivate(s) \/ GrantFreeDays(s)
  \/ \E plan \in Paid : StartTrial(s, plan)

Next ==
  \/ Tick
  \/ \E p \in Payments :
       \/ \E ok, odd \in BOOLEAN : Attempt(p, ok, odd)
       \/ \E odd \in BOOLEAN : Debit(p, odd)
       \/ \E r \in Refunds, amount \in 1..Net : RefundAtProvider(p, r, amount)
  \/ \E s \in Slots :
       \/ \E p \in Payments : Quote(s, p) \/ Verify(s, p) \/ ChargeSeen(s, p)
       \/ \E p \in Payments : \E e \in Sent(p) : Webhook(s, p, e)
       \/ \E p \in Payments, r \in Refunds : AskRefund(s, p, r)
       \/ UserCancels(s) \/ UserReactivates(s) \/ UserTries(s) \/ RewardEarned(s)
       \/ Sweep(s) \/ Crash(s) \/ Step(s)

Spec == Init /\ [][Next]_vars

\* The clock runs, tasks run on, and the job keeps sweeping.
Fairness ==
  /\ WF_vars(Tick)
  /\ \A s \in Slots : WF_vars(Step(s)) /\ WF_vars(Sweep(s))
FairSpec == Spec /\ Fairness

-----------------------------------------------------------------------------
\* A captured payment buys one period, whoever confirms it, however often and
\* wherever its activation died.  Two cases are excepted, and are real.  The sweep
\* took it for stuck while its activation still ran.  Or its plan was written and its
\* history row was not (the activation died in between, or the row was lost before it
\* died), and the second signal of alreadyApplied fails too: the plan was changed since,
\* or the period began before the row was created, as a charge's does that is recorded
\* by a task of an earlier tick.
OnePeriodPerPayment ==
  \A p \in Payments : granted[p] <= 1 \/ p \in slow \cup missed

\* No step takes time from a running period, unless two of them worked on the same
\* subscription at once, or it is the payment of the other plan: that one starts a
\* period of its own, and the time it cuts off was credited in its price.
Running == sub.end > now /\ (sub.cancelAt = 0 \/ sub.cancelAt > now)
ChangesPlan(s) ==
  /\ At(s, "write") /\ sub.plan # PlanOf[task[s].p]
  /\ sub' = Applied(task[s], PlanOf[task[s].p])
NeverShortened ==
  [][Running => sub'.end >= sub.end \/ raced' \/ \E s \in Slots : ChangesPlan(s)]_vars

\* What is recorded as refunded is what the provider refunded, although every
\* refund is reported by two events, redelivered, and by the request that made it; and
\* every variable has its type.
RefundExact ==
  TypeOK /\ \A p \in Payments :
    row[p].refunded = Total(remote[p].refunds, row[p].refundIds)

\* A recorded charge of the amount agreed does not stay unlinked, wherever its
\* activation died.  One of another amount is flagged and should stay unlinked for
\* review (autopayService.js:145); nothing is said of it, and the sweep, which does not
\* look at the flag, activates it.
EveryChargeLinked ==
  \A p \in Charges :
    row[p].status = "captured" /\ ~row[p].flagged
      ~> (row[p].linked \/ row[p].status # "captured")

\* "a customer who has paid and has nothing" is found and finished by the sweep, a
\* payment from a checkout too.
EveryCaptureFinished ==
  \A p \in Payments :
    row[p].status = "captured" ~> (row[p].end # 0 \/ row[p].status # "captured")

\* "marking the row failed would lock out the genuine capture": confirming a capture
\* never leaves its payment failed.
CaptureHonoured == [][\A s \in Slots :
  At(s, "claim") /\ task'[s].pc # "claim" /\ crashes' = crashes
    => row'[task[s].p].status # "failed"]_vars
=============================================================================
