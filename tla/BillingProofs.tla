---------------------------- MODULE BillingProofs ----------------------------
(***************************************************************************)
(* What a payment buys, for any number of payments, requests, webhooks and *)
(* crashes: one period, no time lost from a running one, and refunds       *)
(* recorded exactly.                                                       *)
(***************************************************************************)
EXTENDS Billing, MoneySumProofs

Labels == {"idle", "insert", "order", "claim", "fail", "record",
           "first", "extend", "write", "history", "bonus", "link",
           "sweep", "judge", "guess", "backfill",
           "ask", "refund", "compare", "cancel", "save", "reactivate", "trial", "free"}
\* Activating a payment, and deciding whether to.
Acting == {"first", "extend", "write", "history", "bonus", "link"}
Judging == {"judge", "guess", "backfill"}
\* The steps that are about a payment.
About == Acting \cup Judging
           \cup {"insert", "order", "claim", "fail", "record", "ask", "refund", "compare"}

Events == EventKinds \X (Refunds \cup {""})
Task == [pc : Labels, p : Payments \cup {0}, at : Nat, end : Nat, renew : BOOLEAN,
         stale : BOOLEAN, event : Events, sweep : BOOLEAN, left : SUBSET Payments]
Row == [status : Statuses, linked : BOOLEAN, end : Nat, created : Nat, touched : Nat,
        events : SUBSET Events, refundIds : SUBSET Refunds, refunded : Nat, flagged : BOOLEAN]
Remote == [kind : {"none", "order", "charge"}, captured : BOOLEAN, failed : BOOLEAN,
           odd : BOOLEAN, refunds : [Refunds -> Nat]]
Sub == [plan : {"free"} \cup Paid, status : {"active", "trialing"}, start : Nat, end : Nat,
        cancelAt : Nat, trialUsed : BOOLEAN]

\* A task at a step about a payment has one, and none began in the future.
Begun(m, at) ==
  /\ m.pc \in About => m.p \in Payments
  /\ m.at <= at
  /\ m.pc \in {"ask", "refund"} => m.event[2] \in Refunds
  /\ m.pc = "idle" => m = Idle

Types ==
  /\ now \in 1..MaxTime
  /\ row \in [Payments -> Row] /\ remote \in [Payments -> Remote]
  /\ sub \in Sub /\ history \subseteq Payments
  /\ task \in [Slots -> Task] /\ granted \in [Payments -> Nat]
  /\ raced \in BOOLEAN
  /\ \A s \in Slots : Begun(task[s], now)

Unsettled == {"none", "created", "failed"}

\* What a step needs of the payment it is about.
Fits(m) ==
  LET x == row[m.p]
      y == remote[m.p] IN
  /\ m.pc \in Judging \cup {"sweep"} => m.sweep
  /\ m.left # {} => m.sweep
  /\ m.pc = "insert" => m.p \notin Charges /\ x = NoRow /\ y = Unpaid
  /\ m.pc = "order" => m.p \notin Charges /\ x.status = "created" /\ y = Unpaid
  /\ m.pc = "claim" => y.captured
  /\ m.pc = "fail" => y # Unpaid
  /\ m.pc = "record" => y.kind = "charge"
  /\ m.pc = "refund" => y.refunds[m.event[2]] # 0
  /\ m.pc \in {"history", "bonus"} => granted[m.p] > 0
  /\ m.pc \in Acting \cup Judging => m.p \notin m.left

\* The payments a task activates, or will.
Hand(m) == m.left \cup {p \in Payments : m.p = p /\ m.pc \in Acting \cup Judging}
Ready(m) == m.pc \in {"first", "extend", "write"}

\* The order of a checkout is made by one task, before anyone else hears of it.
Alone ==
  \A s, t \in Slots : task[s].pc \in {"insert", "order"} /\ task[t].p = task[s].p => s = t
OneSweep == \A s, t \in Slots : task[s].sweep /\ task[t].sweep => s = t

\* Only money that was taken is activated or refunded.
Taken(p) ==
  /\ row[p].status \in Unsettled =>
       granted[p] = 0 /\ row[p].end = 0 /\ \A s \in Slots : p \notin Hand(task[s])
  /\ row[p].status \notin Unsettled => remote[p].captured
  /\ remote[p].kind = "charge" => p \in Charges /\ remote[p].captured
  /\ \A r \in Refunds : remote[p].refunds[r] # 0 => remote[p].captured
  /\ row[p].end # 0 => row[p].linked

\* A payment is activated by one task, which finds it without a period.
Once(p) ==
  p \notin slow \cup missed =>
    /\ granted[p] <= 1
    /\ \A s, t \in Slots : p \in Hand(task[s]) /\ p \in Hand(task[t]) => s = t
    /\ \A s \in Slots : Ready(task[s]) /\ task[s].p = p => granted[p] = 0

Granted ==
  /\ \A p \in Payments : granted[p] > 0 => sub.plan \in Paid
  /\ \A p \in history : granted[p] > 0

Core ==
  /\ Types
  /\ \A s \in Slots : Fits(task[s])
  /\ Alone /\ OneSweep /\ Granted
  /\ \A p \in Payments : Taken(p) /\ Once(p)

-----------------------------------------------------------------------------
(***************************************************************************)
(* Types.                                                                  *)
(***************************************************************************)
\* The values tasks and rows start with.
LEMMA Constants ==
  /\ Idle \in Task /\ NoRow \in Row /\ Unpaid \in Remote
  /\ Net \in Nat /\ Net > 0 /\ Period \in Nat /\ Bonus \in Nat /\ FreeDays \in Nat
  /\ MaxTime \in Nat /\ MaxTime > 0 /\ 0 \notin Payments
<1>1. Idle \in Task
  <2>1. <<"", "">> \in Events
    BY DEF Events, EventKinds
  <2> QED BY <2>1 DEF Idle, Task, Labels
<1>2. NoRow \in Row
  BY DEF NoRow, Row, Statuses
<1>3. Unpaid \in Remote
  BY DEF Unpaid, Remote
<1>4. /\ Net \in Nat /\ Net > 0 /\ Period \in Nat /\ Bonus \in Nat /\ FreeDays \in Nat
      /\ MaxTime \in Nat /\ MaxTime > 0 /\ 0 \notin Payments
  <2>1. Net \in Nat \ {0} /\ Period \in Nat \ {0} /\ MaxTime \in Nat \ {0}
    BY BillingShape
  <2>2. Bonus \in Nat /\ FreeDays \in Nat /\ 0 \notin Payments
    BY BillingShape
  <2> QED BY <2>1, <2>2
<1> QED BY <1>1, <1>2, <1>3, <1>4

LEMMA TypesInit == Init => Types
<1> SUFFICES ASSUME Init PROVE Types
  OBVIOUS
<1>1. sub \in Sub
  BY DEF Init, Sub
<1>2. \A s \in Slots : Begun(task[s], now)
  <2>1. \A s \in Slots : task[s] = Idle
    BY DEF Init
  <2>2. Idle.pc = "idle" /\ Idle.at = 0
    BY DEF Idle
  <2> QED BY <2>1, <2>2 DEF Begun, About, Acting, Judging, Init
<1>3. now \in 1..MaxTime
  BY Constants DEF Init
<1> QED BY <1>1, <1>2, <1>3, Constants DEF Init, Types

\* The fields of a task.
LEMMA TaskTyped ==
  ASSUME NEW m \in Task
  PROVE  /\ m.pc \in Labels /\ m.p \in Payments \cup {0} /\ m.at \in Nat /\ m.end \in Nat
         /\ m.renew \in BOOLEAN /\ m.stale \in BOOLEAN /\ m.event \in Events
         /\ m.sweep \in BOOLEAN /\ m.left \subseteq Payments
         /\ m.event[1] \in EventKinds /\ m.event[2] \in Refunds \cup {""}
BY DEF Task, Events

\* Two records of a task that differ at most in what Save marks.
SameTask(n, m) ==
  /\ n.pc = m.pc /\ n.p = m.p /\ n.at = m.at /\ n.end = m.end /\ n.renew = m.renew
  /\ n.event = m.event /\ n.sweep = m.sweep /\ n.left = m.left
\* What Save marks: a task that holds a copy of the subscription.
Marks(m, n) == n.stale = (m.stale \/ m.pc \in Holding)

\* Moving one task.
LEMMA DoTyped ==
  ASSUME task \in [Slots -> Task], NEW s \in Slots, NEW next \in Task, Do(s, next)
  PROVE  /\ task' \in [Slots -> Task] /\ task'[s] = next
         /\ \A t \in Slots : t # s => task'[t] = task[t]
BY DEF Do

\* What Save leaves of the tasks.
LEMMA SaveTyped ==
  ASSUME task \in [Slots -> Task], NEW s \in Slots, NEW next \in Task, NEW saved, Save(s, saved, next)
  PROVE  /\ task' \in [Slots -> Task] /\ task'[s] = next /\ sub' = saved
         /\ raced' = (raced \/ task[s].stale)
         /\ \A t \in Slots : t # s =>
              SameTask(task'[t], task[t]) /\ Marks(task[t], task'[t])
<1>1. \A t \in Slots : t # s => task'[t] = [task[t] EXCEPT !.stale = @ \/ task[t].pc \in Holding]
  BY DEF Save
<1>2. ASSUME NEW t \in Slots, t # s
      PROVE  /\ task'[t] \in Task
             /\ SameTask(task'[t], task[t]) /\ Marks(task[t], task'[t])
  <2>1. PICK b : b = (task[t].stale \/ task[t].pc \in Holding)
    OBVIOUS
  <2>2. b \in BOOLEAN
    BY <2>1
  <2>3. task'[t] = [task[t] EXCEPT !.stale = b]
    BY <1>1, <1>2, <2>1
  <2>4. task[t] \in Task
    OBVIOUS
  <2>5. task'[t] \in Task /\ SameTask(task'[t], task[t]) /\ task'[t].stale = b
    BY <2>2, <2>3, <2>4 DEF Task, SameTask
  <2> QED BY <2>1, <2>5 DEF Marks
<1>3. task'[s] = next /\ sub' = saved /\ raced' = (raced \/ task[s].stale)
  BY DEF Save
<1>4. task' = [t \in Slots |-> task'[t]]
  BY DEF Save
<1>5. \A t \in Slots : task'[t] \in Task
  BY <1>2, <1>3
<1>6. task' \in [Slots -> Task]
  BY <1>4, <1>5
<1> QED BY <1>1, <1>2, <1>3, <1>6


\* The clock does not run back.
LEMMA ClockRuns ==
  ASSUME Types, Next
  PROVE  now' \in 1..MaxTime /\ now <= now'
<1>1. now \in 1..MaxTime /\ MaxTime \in Nat
  BY Constants DEF Types
<1>2. CASE Tick
  BY <1>1, <1>2 DEF Tick
<1>3. CASE UNCHANGED now
  BY <1>1, <1>3
<1>4. ASSUME NEW s \in Slots, Step(s) PROVE UNCHANGED now
  BY <1>4, Zenon
     DEF Step, InsertRow, CreateOrder, Claim, FailPayment, RecordCharge, ReadPlan, ReadPeriod,
         WritePlan, WriteHistory, AddBonus, LinkPayment, NextStuck, FindHistory, GuessApplied,
         Backfill, ProviderRefunds, ApplyRefund, ComparePeriod, Cancel, SaveCancel, Reactivate,
         StartTrial, GrantFreeDays
<1>5. ASSUME NEW s \in Slots, NEW p \in Payments,
             \/ Quote(s, p) \/ Verify(s, p) \/ ChargeSeen(s, p)
             \/ \E e \in Sent(p) : Webhook(s, p, e)
             \/ \E r \in Refunds : AskRefund(s, p, r)
      PROVE  UNCHANGED now
  BY <1>5, Zenon DEF Quote, Verify, ChargeSeen, Webhook, AskRefund
<1>6. ASSUME NEW s \in Slots,
             \/ UserCancels(s) \/ UserReactivates(s) \/ UserTries(s) \/ RewardEarned(s)
             \/ Sweep(s) \/ Crash(s)
      PROVE  UNCHANGED now
  BY <1>6, Zenon DEF UserCancels, UserReactivates, UserTries, RewardEarned, Sweep, Crash
<1>7. ASSUME NEW p \in Payments,
             \/ \E ok, odd \in BOOLEAN : Attempt(p, ok, odd)
             \/ \E odd \in BOOLEAN : Debit(p, odd)
             \/ \E r \in Refunds, amount \in 1..Net : RefundAtProvider(p, r, amount)
      PROVE  UNCHANGED now
  BY <1>7, Zenon DEF Attempt, Debit, RefundAtProvider
<1> QED BY <1>2, <1>3, <1>4, <1>5, <1>6, <1>7, Zenon DEF Next

-----------------------------------------------------------------------------
(***************************************************************************)
(* The task a step leaves in its slot.                                     *)
(***************************************************************************)
\* A task that goes on to another step.
LEMMA Turned ==
  ASSUME NEW m \in Task, NEW l \in Labels
  PROVE  LET n == [m EXCEPT !.pc = l] IN
         /\ n \in Task /\ n.pc = l /\ n.p = m.p /\ n.at = m.at /\ n.end = m.end
         /\ n.renew = m.renew /\ n.stale = m.stale /\ n.event = m.event
         /\ n.sweep = m.sweep /\ n.left = m.left
BY DEF Task

After(m) == IF m.sweep THEN [Idle EXCEPT !.pc = "sweep", !.at = m.at, !.sweep = TRUE, !.left = m.left]
                       ELSE Idle

\* A task that ends, and turns to the next payment if it is a sweep.
LEMMA Ends ==
  ASSUME NEW m \in Task, now \in Nat, m.at <= now
  PROVE  LET n == After(m) IN
         /\ n \in Task /\ n.p = 0 /\ n.sweep = m.sweep
         /\ n.left = IF m.sweep THEN m.left ELSE {}
         /\ n.pc = IF m.sweep THEN "sweep" ELSE "idle"
         /\ Begun(n, now)
<1>1. Idle \in Task /\ Idle.pc = "idle" /\ Idle.p = 0 /\ Idle.sweep = FALSE /\ Idle.left = {}
      /\ Idle.at = 0
  BY Constants DEF Idle
<1>2. CASE m.sweep
  <2>1. PICK n : n = After(m)
    OBVIOUS
  <2>2. n = [Idle EXCEPT !.pc = "sweep", !.at = m.at, !.sweep = TRUE, !.left = m.left]
    BY <1>2, <2>1 DEF After
  <2>3. m.at \in Nat /\ m.left \subseteq Payments
    BY TaskTyped
  <2>4. /\ n \in Task /\ n.pc = "sweep" /\ n.p = 0 /\ n.sweep = TRUE /\ n.left = m.left
        /\ n.at = m.at
    BY <1>1, <2>2, <2>3 DEF Task, Labels, Idle
  <2>5. Begun(n, now)
    BY <2>4 DEF Begun, About, Acting, Judging
  <2> QED BY <1>2, <2>1, <2>4, <2>5
<1>3. CASE ~m.sweep
  <2>1. After(m) = Idle
    BY <1>3 DEF After
  <2>2. Begun(Idle, now)
    BY <1>1 DEF Begun, About, Acting, Judging
  <2> QED BY <1>1, <1>3, <2>1, <2>2, TaskTyped
<1> QED BY <1>2, <1>3

-----------------------------------------------------------------------------
(***************************************************************************)
(* Steps that move one task and leave the payments alone.                  *)
(***************************************************************************)
\* A step of s leaves the other tasks where they are.
OthersStay(s) ==
  \A t \in Slots : t # s => /\ SameTask(task'[t], task[t])
                            /\ task[t].pc = "idle" => task'[t] = task[t]

LEMMA SameFits ==
  ASSUME NEW m \in Task, NEW n \in Task, SameTask(n, m)
  PROVE  Hand(n) = Hand(m) /\ (Ready(n) <=> Ready(m)) /\ (Fits(n) <=> Fits(m))
<1>1. Hand(n) = Hand(m)
  BY DEF SameTask, Hand
<1>2. Ready(n) <=> Ready(m)
  BY DEF SameTask, Ready
<1>3. Fits(n) <=> Fits(m)
  BY DEF SameTask, Fits
<1> QED BY <1>1, <1>2, <1>3

\* A payment under way is settled, and so is not in a checkout being made.
LEMMA HandSettled ==
  ASSUME Core, NEW s \in Slots, NEW p \in Hand(task[s])
  PROVE  p \in Payments /\ row[p].status \notin Unsettled /\ remote[p].captured
<1>1. task[s] \in Task
  BY DEF Core, Types
<1>2. p \in Payments
  BY <1>1, TaskTyped DEF Hand
<1> QED BY <1>2 DEF Core, Taken

LEMMA TaskMoves ==
  ASSUME Core, Types', Granted', NEW s \in Slots, OthersStay(s),
         UNCHANGED <<row, remote, granted>>, slow \subseteq slow', missed \subseteq missed',
         NEW n, n = task'[s], Fits(n), n.sweep => task[s].sweep,
         Hand(n) \subseteq Hand(task[s]), n.pc \notin {"insert", "order"},
         \/ n.p \in {0, task[s].p} \cup Hand(task[s])
         \/ row[n.p].status \notin {"none", "created"} \/ remote[n.p] # Unpaid,
         Ready(n) => n.p \in slow' \cup missed' \/ granted[n.p] = 0
  PROVE  Core'
<1> DEFINE m(t) == task[t]
           k(t) == task'[t]
<1>1. \A t \in Slots : m(t) \in Task /\ k(t) \in Task
  BY DEF Core, Types
<1>2. \A t \in Slots : t # s => /\ k(t).pc = m(t).pc /\ k(t).p = m(t).p /\ k(t).sweep = m(t).sweep
                                /\ Hand(k(t)) = Hand(m(t)) /\ (Ready(k(t)) <=> Ready(m(t)))
                                /\ (Fits(k(t)) <=> Fits(m(t)))
  BY <1>1, SameFits DEF OthersStay, SameTask
<1>3. \A t \in Slots : Fits(k(t))
  BY <1>2 DEF Core
<1>4. \A t \in Slots : Hand(k(t)) \subseteq Hand(m(t)) /\ (k(t).sweep => m(t).sweep)
  BY <1>2
<1>5. OneSweep'
  BY <1>4 DEF Core, OneSweep
<1>6. Alone'
  <2> SUFFICES ASSUME NEW t \in Slots, NEW u \in Slots, k(t).pc \in {"insert", "order"},
                      k(u).p = k(t).p
               PROVE  t = u
    BY DEF Alone
  <2>1. t # s /\ m(t).pc \in {"insert", "order"} /\ k(t).p = m(t).p
    BY <1>2
  <2>2. Fits(m(t)) /\ Begun(m(t), now)
    BY DEF Core, Types
  <2>3. m(t).p \in Payments /\ row[m(t).p].status \in {"none", "created"} /\ remote[m(t).p] = Unpaid
    BY <2>1, <2>2 DEF Fits, Begun, About, NoRow
  <2>4. CASE u # s
    BY <1>2, <2>1, <2>4 DEF Core, Alone
  <2>5. CASE u = s
    <3>1. m(t).p \notin Hand(m(s))
      BY <2>3, HandSettled DEF Unsettled
    <3>2. m(t).p # m(s).p
      BY <2>1 DEF Core, Alone
    <3> QED BY <2>1, <2>3, <2>5, <3>1, <3>2, Constants
  <2> QED BY <2>4, <2>5
<1>7. ASSUME NEW p \in Payments PROVE Taken(p)'
  <2>1. \A t \in Slots : p \in Hand(k(t)) => p \in Hand(m(t))
    BY <1>4
  <2> QED BY <2>1 DEF Core, Taken, Hand
<1>8. ASSUME NEW p \in Payments PROVE Once(p)'
  <2> SUFFICES ASSUME p \notin slow' \cup missed'
               PROVE  /\ granted[p] <= 1
                      /\ \A t, u \in Slots : p \in Hand(k(t)) /\ p \in Hand(k(u)) => t = u
                      /\ \A t \in Slots : Ready(k(t)) /\ k(t).p = p => granted[p] = 0
    BY DEF Once, Hand, Ready
  <2>1. /\ granted[p] <= 1
        /\ \A t, u \in Slots : p \in Hand(m(t)) /\ p \in Hand(m(u)) => t = u
        /\ \A t \in Slots : Ready(m(t)) /\ m(t).p = p => granted[p] = 0
    BY DEF Core, Once
  <2>2. \A t \in Slots : Ready(k(t)) /\ k(t).p = p => granted[p] = 0
    BY <1>2, <2>1
  <2>3. \A t, u \in Slots : p \in Hand(k(t)) /\ p \in Hand(k(u)) => t = u
    BY <1>4, <2>1
  <2> QED BY <2>1, <2>2, <2>3
<1>9. (\A t \in Slots : Fits(task[t]))'
  BY <1>3 DEF Fits
<1> QED BY <1>5, <1>6, <1>7, <1>8, <1>9 DEF Core

LEMMA DoStays ==
  ASSUME Types, NEW s \in Slots, NEW n \in Task, Do(s, n)
  PROVE  task' \in [Slots -> Task] /\ task'[s] = n /\ OthersStay(s)
<1>1. task \in [Slots -> Task]
  BY DEF Types
<1> QED BY <1>1, DoTyped DEF OthersStay, SameTask

LEMMA SaveStays ==
  ASSUME Types, NEW s \in Slots, NEW n \in Task, NEW saved, Save(s, saved, n)
  PROVE  /\ task' \in [Slots -> Task] /\ task'[s] = n /\ OthersStay(s)
         /\ sub' = saved /\ raced' \in BOOLEAN
<1>1. task \in [Slots -> Task] /\ raced \in BOOLEAN /\ \A t \in Slots : Begun(task[t], now)
  BY DEF Types
<1>2. \A t \in Slots : t # s => SameTask(task'[t], task[t]) /\ Marks(task[t], task'[t])
  BY <1>1, SaveTyped
<1>3. ASSUME NEW t \in Slots, t # s, task[t].pc = "idle" PROVE task'[t] = task[t]
  <2>1. task[t] = Idle
    BY <1>1, <1>3 DEF Begun
  <2>2. task' \in [Slots -> Task]
    BY <1>1, SaveTyped
  <2>3. task'[t] \in Task /\ SameTask(task'[t], task[t])
    BY <1>2, <1>3, <2>2
  <2>4. task[t].stale \in BOOLEAN /\ task[t] \in Task
    BY <1>1, TaskTyped
  <2>5. task'[t].stale = task[t].stale
    <3>1. task[t].pc \notin Holding
      BY <1>3 DEF Holding
    <3>2. task'[t].stale = (task[t].stale \/ task[t].pc \in Holding)
      BY <1>2, <1>3, Zenon DEF Marks
    <3> QED BY <2>4, <3>1, <3>2, Zenon
  <2> QED BY <2>3, <2>4, <2>5 DEF SameTask, Task
<1>4. task' \in [Slots -> Task] /\ task'[s] = n /\ sub' = saved /\ raced' \in BOOLEAN
  BY <1>1, SaveTyped, TaskTyped
<1> QED BY <1>2, <1>3, <1>4 DEF OthersStay

\* A task that had begun has begun.
LEMMA BegunStays ==
  ASSUME NEW m \in Task, NEW at \in Nat, NEW later \in Nat, Begun(m, at), at <= later,
         NEW n \in Task, SameTask(n, m), m.pc = "idle" => n = m
  PROVE  Begun(n, later)
<1>1. m.at \in Nat
  BY TaskTyped
<1> QED BY <1>1 DEF Begun, SameTask

\* A step that moves one task and leaves the payments as they are keeps Core.
LEMMA LightMove ==
  ASSUME Core, NEW s \in Slots, NEW n \in Task, n = task'[s], Begun(n, now),
         task' \in [Slots -> Task], OthersStay(s),
         UNCHANGED <<now, row, remote, granted>>, slow \subseteq slow', missed \subseteq missed',
         raced' \in BOOLEAN, sub' \in Sub, sub'.plan \in Paid \cup {sub.plan},
         \A p \in history' : p \in history \/ (p \in Payments /\ granted[p] > 0),
         Fits(n), n.sweep => task[s].sweep,
         Hand(n) \subseteq Hand(task[s]), n.pc \notin {"insert", "order"},
         \/ n.p \in {0, task[s].p} \cup Hand(task[s])
         \/ row[n.p].status \notin {"none", "created"} \/ remote[n.p] # Unpaid,
         Ready(n) => n.p \in slow' \cup missed' \/ granted[n.p] = 0
  PROVE  Core'
<1>1. Types /\ task \in [Slots -> Task] /\ now \in 1..MaxTime /\ MaxTime \in Nat
  BY Constants DEF Core, Types
<1>2. \A t \in Slots : Begun(task'[t], now)
  <2>1. ASSUME NEW t \in Slots, t # s PROVE Begun(task'[t], now)
    <3>1. task[t] \in Task /\ task'[t] \in Task /\ Begun(task[t], now) /\ now \in Nat
      BY <1>1 DEF Types
    <3>2. SameTask(task'[t], task[t]) /\ (task[t].pc = "idle" => task'[t] = task[t])
      BY <2>1 DEF OthersStay
    <3>3. now <= now
      BY <3>1
    <3> QED BY <3>1, <3>2, <3>3, BegunStays
  <2> QED BY <2>1
<1>3. Types'
  <2>1. history' \subseteq Payments
    BY <1>1 DEF Types
  <2> QED BY <1>1, <1>2, <2>1 DEF Types
<1>4. Granted'
  BY DEF Core, Granted
<1> QED BY <1>3, <1>4, TaskMoves

-----------------------------------------------------------------------------
(***************************************************************************)
(* Requests that arrive.                                                   *)
(***************************************************************************)

\* A request begins with nothing in hand.
Fresh(n) == n.sweep = FALSE /\ n.left = {} /\ n.at = now

LEMMA NewMoves ==
  ASSUME Core, NEW s \in Slots, task[s].pc = "idle", NEW n \in Task, Do(s, n), Fresh(n),
         n.pc \in {"claim", "fail", "refund", "record", "ask", "cancel", "reactivate", "trial", "free"},
         UNCHANGED <<now, row, sub, history, remote, ghosts>>,
         n.pc \in About => n.p \in Payments,
         n.pc \in {"ask", "refund"} => n.event[2] \in Refunds,
         n.p # 0 => row[n.p].status \notin {"none", "created"} \/ remote[n.p] # Unpaid,
         n.pc = "claim" => remote[n.p].captured,
         n.pc = "fail" => remote[n.p] # Unpaid,
         n.pc = "record" => remote[n.p].kind = "charge",
         n.pc = "refund" => remote[n.p].refunds[n.event[2]] # 0
  PROVE  Core'
<1>1. Types /\ now \in Nat /\ sub \in Sub /\ raced \in BOOLEAN
  BY Constants DEF Core, Types
<1>2. task' \in [Slots -> Task] /\ task'[s] = n /\ OthersStay(s)
  BY <1>1, DoStays
<1>3. n.sweep = FALSE /\ n.left = {} /\ n.at = now
  BY DEF Fresh
<1>4. Begun(n, now)
  BY <1>1, <1>3 DEF Begun
<1>5. Fits(n)
  BY <1>3 DEF Fits, Acting, Judging
<1>6. Hand(n) \subseteq Hand(task[s]) /\ ~Ready(n)
  BY <1>3 DEF Hand, Ready, Acting, Judging
<1>7. UNCHANGED <<now, row, remote, granted, slow, missed, raced, sub, history>>
  BY DEF ghosts
<1> QED BY <1>1, <1>2, <1>3, <1>4, <1>5, <1>6, <1>7, LightMove

\* What requests begin from.
LEMMA Blank ==
  ASSUME Core
  PROVE  /\ now \in Nat /\ Idle \in Task /\ Idle.p = 0 /\ Idle.event = <<"", "">>
         /\ Idle.sweep = FALSE /\ Idle.left = {} /\ Idle.end = 0 /\ Idle.pc = "idle"
<1>1. now \in Nat /\ Idle \in Task
  BY Constants DEF Core, Types
<1> QED BY <1>1 DEF Idle

\* What a task's slot was before a request came.
LEMMA OpenSlot ==
  ASSUME Core, NEW s \in Slots, Open(s)
  PROVE  task[s].pc = "idle" /\ now \in Nat /\ <<"", "">> \in Events
<1>1. now \in Nat
  BY Constants DEF Core, Types
<1>2. <<"", "">> \in Events
  BY DEF Events, EventKinds
<1> QED BY <1>1, <1>2 DEF Open, Free, At

\* Begin makes a fresh task.
LEMMA BeginMoves ==
  ASSUME Core, NEW s \in Slots, Open(s), NEW l \in {"claim", "record", "cancel", "reactivate", "trial"},
         NEW p \in Payments \cup {0}, Begin(s, l, p),
         UNCHANGED <<now, row, sub, history, remote, ghosts>>,
         l \in About => p \in Payments,
         p # 0 => row[p].status \notin {"none", "created"} \/ remote[p] # Unpaid,
         l = "claim" => remote[p].captured,
         l = "record" => remote[p].kind = "charge"
  PROVE  Core'
<1>1. PICK n : n = [Idle EXCEPT !.pc = l, !.p = p, !.at = now]
  OBVIOUS
<1>2. Do(s, n)
  BY <1>1, Zenon DEF Begin, Do
<1>3. l \in Labels /\ 0 \in Nat /\ TRUE \in BOOLEAN /\ <<"", "">> \in Events
  BY OpenSlot DEF Labels
<1>4. n \in Task /\ Fresh(n) /\ n.pc = l /\ n.p = p
  BY <1>1, <1>3, Blank DEF Task, Fresh
<1> QED BY <1>2, <1>4, OpenSlot, NewMoves

LEMMA VerifyKeeps ==
  ASSUME Core, NEW s \in Slots, NEW p \in Payments, Verify(s, p)
  PROVE  Core'
<1>1. remote[p].captured /\ remote[p] # Unpaid
  BY DEF Verify, Unpaid
<1>2. Open(s) /\ Begin(s, "claim", p) /\ UNCHANGED <<now, row, sub, history, remote, ghosts>>
  BY DEF Verify
<1> QED BY <1>1, <1>2, BeginMoves

LEMMA ChargeSeenKeeps ==
  ASSUME Core, NEW s \in Slots, NEW p \in Payments, ChargeSeen(s, p)
  PROVE  Core'
<1>1. remote[p].kind = "charge" /\ remote[p] # Unpaid
  BY DEF ChargeSeen, Unpaid
<1>2. Open(s) /\ Begin(s, "record", p) /\ UNCHANGED <<now, row, sub, history, remote, ghosts>>
  BY DEF ChargeSeen
<1> QED BY <1>1, <1>2, BeginMoves

LEMMA AskRefundKeeps ==
  ASSUME Core, NEW s \in Slots, NEW p \in Payments, NEW r \in Refunds, AskRefund(s, p, r)
  PROVE  Core'
<1>1. PICK n : n = [Idle EXCEPT !.pc = "ask", !.p = p, !.at = now, !.end = row[p].end,
                                !.event = <<"admin", r>>]
  OBVIOUS
<1>2. Do(s, n)
  BY <1>1, Zenon DEF AskRefund, Do
<1>3. row[p] \in Row
  BY DEF Core, Types
<1>4. row[p].end \in Nat /\ "ask" \in Labels /\ TRUE \in BOOLEAN
  BY <1>3 DEF Row, Labels
<1>5. <<"admin", r>> \in Events
  BY DEF Events, EventKinds
<1>10. p \in Payments \cup {0}
  OBVIOUS
<1>6. n \in Task /\ Fresh(n) /\ n.pc = "ask" /\ n.p = p
  BY <1>1, <1>4, <1>5, <1>10, Blank DEF Task, Fresh
<1>7. n.event[2] = r
  <2>1. n.event = <<"admin", r>>
    BY <1>1 DEF Idle
  <2> QED BY <2>1
<1>8. row[p].status \notin {"none", "created"}
  BY DEF AskRefund
<1>9. Open(s) /\ UNCHANGED <<now, row, sub, history, remote, ghosts>>
  BY DEF AskRefund
<1> QED BY <1>2, <1>6, <1>7, <1>8, <1>9, OpenSlot, NewMoves

LEMMA UserKeeps ==
  ASSUME Core, NEW s \in Slots,
         UserCancels(s) \/ UserReactivates(s) \/ UserTries(s) \/ RewardEarned(s)
  PROVE  Core'
<1>1. sub \in Sub /\ FreeDays \in Nat
  BY Constants DEF Core, Types
<1>2. ASSUME NEW l \in {"cancel", "reactivate", "trial"}, Open(s), Begin(s, l, 0),
             UNCHANGED <<now, row, sub, history, remote, ghosts>>
      PROVE  Core'
  <2>1. l \notin About
    BY <1>2 DEF About, Acting, Judging
  <2> QED BY <1>2, <2>1, BeginMoves
<1>3. CASE UserCancels(s)
  BY <1>2, <1>3 DEF UserCancels
<1>4. CASE UserReactivates(s)
  BY <1>2, <1>4 DEF UserReactivates
<1>5. CASE UserTries(s)
  BY <1>2, <1>5 DEF UserTries
<1>6. CASE RewardEarned(s)
  <2>4. now \in Nat /\ sub.end \in Nat
    BY <1>1, <1>6, OpenSlot DEF Sub, RewardEarned
  <2>5. sub.end + FreeDays \in Nat /\ now + FreeDays \in Nat
    BY <1>1, <2>4
  <2>0. PICK end \in Nat : end = (IF sub.end > now THEN sub.end ELSE now) + FreeDays
    BY <2>5
  <2>1. PICK renew \in BOOLEAN : (sub.end > now) = renew
    <3>1. CASE sub.end > now
      <4>1. (sub.end > now) = TRUE
        BY <3>1
      <4> QED BY <4>1
    <3>2. CASE ~(sub.end > now)
      <4>1. (sub.end > now) = FALSE
        BY <3>2
      <4> QED BY <4>1
    <3> QED BY <3>1, <3>2
  <2>2. PICK n : n = [Idle EXCEPT !.pc = "free", !.at = now, !.renew = renew, !.end = end]
    OBVIOUS
  <2>3. Do(s, n)
    BY <1>6, <2>0, <2>1, <2>2, Zenon DEF RewardEarned, Do
  <2>6. "free" \notin About /\ "free" \in Labels
    BY DEF About, Acting, Judging, Labels
  <2>9. 0 \in Payments \cup {0}
    OBVIOUS
  <2>7. n \in Task /\ Fresh(n) /\ n.pc = "free" /\ n.p = 0
    BY <2>2, <2>4, <2>5, <2>6, <2>9, Blank DEF Task, Fresh
  <2>8. Open(s) /\ UNCHANGED <<now, row, sub, history, remote, ghosts>>
    BY <1>6 DEF RewardEarned
  <2> QED BY <2>3, <2>6, <2>7, <2>8, OpenSlot, NewMoves
<1> QED BY <1>3, <1>4, <1>5, <1>6

\* A webhook tells of something that happened at the provider.
LEMMA SentTyped ==
  ASSUME Core, NEW p \in Payments, NEW e \in Sent(p)
  PROVE  /\ e \in Events /\ e[2] \in Refunds \cup {""} /\ remote[p] # Unpaid
         /\ e[1] = "captured" => remote[p].captured
         /\ e[1] \notin {"captured", "failed"} =>
              e[2] \in Refunds /\ remote[p].refunds[e[2]] # 0
<1>1. e \in Events /\ e[2] \in Refunds \cup {""}
  BY DEF Sent, Events
<1>2. \/ e = <<"captured", "">> /\ remote[p].captured
      \/ e = <<"failed", "">> /\ remote[p].failed
      \/ e[1] \in {"created", "processed"} /\ e[2] # "" /\ remote[p].refunds[e[2]] # 0
  BY DEF Sent
<1>3. \A r \in Refunds : Unpaid.refunds[r] = 0
  BY DEF Unpaid
<1>4. Unpaid.captured = FALSE /\ Unpaid.failed = FALSE
  BY DEF Unpaid
<1>5. CASE e = <<"captured", "">> /\ remote[p].captured
  <2>1. e[1] = "captured"
    BY <1>5
  <2>2. remote[p] # Unpaid
    BY <1>4, <1>5
  <2> QED BY <1>1, <1>5, <2>1, <2>2
<1>6. CASE e = <<"failed", "">> /\ remote[p].failed
  <2>1. e[1] = "failed"
    BY <1>6
  <2>2. remote[p] # Unpaid
    BY <1>4, <1>6
  <2> QED BY <1>1, <2>1, <2>2
<1>7. CASE e[1] \in {"created", "processed"} /\ e[2] # "" /\ remote[p].refunds[e[2]] # 0
  <2>1. e[2] \in Refunds
    BY <1>1, <1>7
  <2>2. remote[p] # Unpaid
    BY <1>3, <1>7, <2>1
  <2>3. e[1] # "captured" /\ e[1] # "failed"
    BY <1>7
  <2> QED BY <1>1, <1>7, <2>1, <2>2, <2>3
<1> QED BY <1>2, <1>5, <1>6, <1>7

-----------------------------------------------------------------------------
(***************************************************************************)
(* Steps that move a task on, or end it.                                   *)
(***************************************************************************)
LEMMA Here ==
  ASSUME Core, NEW s \in Slots
  PROVE  /\ Types /\ task \in [Slots -> Task] /\ now \in Nat /\ sub \in Sub /\ raced \in BOOLEAN
         /\ history \subseteq Payments /\ granted \in [Payments -> Nat]
         /\ task[s] \in Task /\ Begun(task[s], now) /\ Fits(task[s])
         /\ task[s].at \in Nat /\ task[s].at <= now
<1>1. /\ Types /\ task \in [Slots -> Task] /\ now \in 1..MaxTime /\ sub \in Sub /\ raced \in BOOLEAN
      /\ history \subseteq Payments /\ granted \in [Payments -> Nat]
      /\ Begun(task[s], now) /\ Fits(task[s])
  BY DEF Core, Types
<1>2. now \in Nat
  BY <1>1, Constants
<1>3. task[s] \in Task
  BY <1>1
<1>4. task[s].at \in Nat /\ task[s].at <= now
  BY <1>1, <1>3, TaskTyped DEF Begun
<1> QED BY <1>1, <1>2, <1>3, <1>4

\* What an ended task still has in hand.
LEMMA EndFits ==
  ASSUME Core, NEW s \in Slots
  PROVE  LET n == After(task[s]) IN
         /\ n \in Task /\ n.p = 0 /\ n.sweep = task[s].sweep /\ Begun(n, now) /\ Fits(n)
         /\ Hand(n) \subseteq Hand(task[s]) /\ ~Ready(n) /\ n.pc \notin {"insert", "order"}
         /\ n.pc \notin Acting \cup Judging
<1>1. PICK n : n = After(task[s])
  OBVIOUS
<1>2. /\ n \in Task /\ n.p = 0 /\ n.sweep = task[s].sweep
      /\ n.left = IF task[s].sweep THEN task[s].left ELSE {}
      /\ n.pc = IF task[s].sweep THEN "sweep" ELSE "idle"
      /\ Begun(n, now)
  BY <1>1, Here, Ends
<1>3. Fits(n)
  BY <1>2 DEF Fits, Acting, Judging
<1>4. Hand(n) \subseteq Hand(task[s])
  BY <1>2 DEF Hand, Acting, Judging
<1> QED BY <1>1, <1>2, <1>3, <1>4 DEF Ready, Acting, Judging

LEMMA DoneIs ==
  ASSUME NEW s, Done(s)
  PROVE  Do(s, After(task[s]))
BY DEF Done, After

LEMMA EndMove ==
  ASSUME Core, NEW s \in Slots, Done(s), UNCHANGED <<now, row, sub, history, remote, ghosts>>
  PROVE  Core'
<1>1. PICK n : n = After(task[s])
  OBVIOUS
<1>2. Do(s, n)
  BY <1>1, DoneIs
<1>3. /\ n \in Task /\ n.p = 0 /\ n.sweep = task[s].sweep /\ Begun(n, now) /\ Fits(n)
      /\ Hand(n) \subseteq Hand(task[s]) /\ ~Ready(n) /\ n.pc \notin {"insert", "order"}
  BY <1>1, EndFits
<1>4. task' \in [Slots -> Task] /\ n = task'[s] /\ OthersStay(s)
  BY <1>2, <1>3, Here, DoStays
<1>5. UNCHANGED <<now, row, remote, granted, slow, missed, raced, sub, history>>
  BY DEF ghosts
<1> QED BY <1>3, <1>4, <1>5, Here, LightMove

\* Nothing in hand.
LEMMA IdleFits ==
  ASSUME Core, NEW s \in Slots
  PROVE  /\ Idle \in Task /\ Idle.p = 0 /\ Idle.sweep = FALSE /\ Begun(Idle, now) /\ Fits(Idle)
         /\ Hand(Idle) = {} /\ ~Ready(Idle) /\ Idle.pc \notin {"insert", "order"}
<1>1. /\ Idle \in Task /\ Idle.p = 0 /\ Idle.left = {} /\ Idle.sweep = FALSE /\ Idle.pc = "idle"
      /\ Idle.at = 0 /\ now \in Nat
  BY Blank DEF Idle
<1>2. Fits(Idle) /\ Begun(Idle, now)
  BY <1>1 DEF Fits, Begun, About, Acting, Judging
<1>3. Hand(Idle) = {} /\ ~Ready(Idle)
  BY <1>1 DEF Hand, Ready, Acting, Judging
<1> QED BY <1>1, <1>2, <1>3

\* Saving the subscription and ending.
LEMMA SaveEnds ==
  ASSUME Core, NEW s \in Slots, NEW saved \in Sub, saved.plan \in Paid \cup {sub.plan},
         Save(s, saved, Idle), UNCHANGED <<now, row, history, remote, granted, slow, missed>>
  PROVE  Core'
<1>1. /\ Idle \in Task /\ Idle.p = 0 /\ Idle.sweep = FALSE /\ Begun(Idle, now) /\ Fits(Idle)
      /\ Hand(Idle) = {} /\ ~Ready(Idle) /\ Idle.pc \notin {"insert", "order"}
  BY IdleFits
<1>2. task' \in [Slots -> Task] /\ task'[s] = Idle /\ OthersStay(s) /\ sub' = saved /\ raced' \in BOOLEAN
  BY <1>1, Here, SaveStays, Zenon
<1> QED BY <1>1, <1>2, Here, LightMove

LEMMA CrashKeeps ==
  ASSUME Core, NEW s \in Slots, Crash(s)
  PROVE  Core'
<1>1. /\ Idle \in Task /\ Idle.p = 0 /\ Idle.sweep = FALSE /\ Begun(Idle, now) /\ Fits(Idle)
      /\ Hand(Idle) = {} /\ ~Ready(Idle) /\ Idle.pc \notin {"insert", "order"}
  BY IdleFits
<1>2. Do(s, Idle) /\ UNCHANGED <<now, row, remote, granted, slow, missed, raced, sub, history>>
  BY DEF Crash, ghosts
<1>3. task' \in [Slots -> Task] /\ task'[s] = Idle /\ OthersStay(s)
  BY <1>1, <1>2, Here, DoStays
<1> QED BY <1>1, <1>2, <1>3, Here, LightMove

\* A task that goes on about the payment it has.
LEMMA GoOn ==
  ASSUME Core, NEW s \in Slots, NEW n \in Task, Do(s, n),
         n.p = task[s].p, n.at = task[s].at, n.sweep = task[s].sweep, n.left = task[s].left,
         UNCHANGED <<now, row, sub, remote, granted, raced>>,
         slow \subseteq slow', missed \subseteq missed',
         \A p \in history' : p \in history \/ (p \in Payments /\ granted[p] > 0),
         n.pc \notin {"insert", "order", "ask", "refund", "idle"},
         n.pc \in About => task[s].pc \in About,
         n.pc \in Acting \cup Judging => task[s].pc \in Acting \cup Judging,
         n.pc \in Judging => task[s].pc \in Judging,
         Fits(n), Ready(n) => n.p \in slow' \cup missed' \/ granted[n.p] = 0
  PROVE  Core'
<1>1. task' \in [Slots -> Task] /\ n = task'[s] /\ OthersStay(s)
  BY Here, DoStays
<1>2. Begun(n, now)
  BY Here DEF Begun
<1>3. Hand(n) \subseteq Hand(task[s])
  BY DEF Hand
<1>4. sub' \in Sub /\ sub'.plan \in Paid \cup {sub.plan} /\ raced' \in BOOLEAN
  BY Here
<1> QED BY <1>1, <1>2, <1>3, <1>4, LightMove

\* What Fits asks of a task at a step, by the step.
LEMMA ActingFits ==
  ASSUME NEW m \in Task, m.pc \in {"first", "extend", "write", "link"}, m.p \notin m.left,
         m.left # {} => m.sweep
  PROVE  Fits(m)
BY DEF Fits, Acting, Judging

LEMMA ReadPlanKeeps ==
  ASSUME Core, NEW s \in Slots, ReadPlan(s)
  PROVE  Core'
<1>1. PICK n : n = [task[s] EXCEPT !.pc = "extend", !.renew = (sub.plan = PlanOf[task[s].p]), !.stale = FALSE]
  OBVIOUS
<1>2. task[s] \in Task /\ Fits(task[s]) /\ task[s].pc = "first"
  BY Here DEF ReadPlan, At
<1>3. /\ n \in Task /\ n.pc = "extend" /\ n.p = task[s].p /\ n.at = task[s].at
      /\ n.sweep = task[s].sweep /\ n.left = task[s].left
  BY <1>1, <1>2 DEF Task, Labels
<1>4. Fits(n)
  <2>1. task[s].p \notin task[s].left /\ (task[s].left # {} => task[s].sweep)
    BY <1>2 DEF Fits, Acting
  <2> QED BY <1>3, <2>1, ActingFits
<1>5. Ready(n) => n.p \in slow' \cup missed' \/ granted[n.p] = 0
  BY <1>2, <1>3, Here DEF Core, Once, Ready, Begun, About, Acting, ReadPlan, ghosts
<1>6. Do(s, n) /\ UNCHANGED <<now, row, sub, history, remote, granted, raced, slow, missed>>
  BY <1>1, Zenon DEF ReadPlan, Do, ghosts
<1>7. n.pc \in About /\ task[s].pc \in Acting /\ task[s].pc \in About /\ n.pc \notin Judging
  BY <1>2, <1>3 DEF About, Acting, Judging
<1> QED BY <1>3, <1>4, <1>5, <1>6, <1>7, Here, GoOn

LEMMA ReadPeriodKeeps ==
  ASSUME Core, NEW s \in Slots, ReadPeriod(s)
  PROVE  Core'
<1>1. PICK n : n = [task[s] EXCEPT !.pc = "write", !.end = ExtendFrom(task[s]) + Period]
  OBVIOUS
<1>2. task[s] \in Task /\ Fits(task[s]) /\ task[s].pc = "extend"
  BY Here DEF ReadPeriod, At
<1>3. ExtendFrom(task[s]) + Period \in Nat
  <2>1. sub.end \in Nat /\ task[s].at \in Nat /\ Period \in Nat
    BY Here, Constants DEF Sub
  <2>2. ExtendFrom(task[s]) \in Nat
    BY <2>1 DEF ExtendFrom
  <2> QED BY <2>1, <2>2
<1>4. /\ n \in Task /\ n.pc = "write" /\ n.p = task[s].p /\ n.at = task[s].at
      /\ n.sweep = task[s].sweep /\ n.left = task[s].left
  BY <1>1, <1>2, <1>3 DEF Task, Labels
<1>5. Fits(n)
  <2>1. task[s].p \notin task[s].left /\ (task[s].left # {} => task[s].sweep)
    BY <1>2 DEF Fits, Acting
  <2> QED BY <1>4, <2>1, ActingFits
<1>6. Ready(n) => n.p \in slow' \cup missed' \/ granted[n.p] = 0
  BY <1>2, <1>4, Here DEF Core, Once, Ready, Begun, About, Acting, ReadPeriod, ghosts
<1>7. Do(s, n) /\ UNCHANGED <<now, row, sub, history, remote, granted, raced, slow, missed>>
  BY <1>1, Zenon DEF ReadPeriod, Do, ghosts
<1>8. n.pc \in About /\ task[s].pc \in Acting /\ task[s].pc \in About /\ n.pc \notin Judging
  BY <1>2, <1>4 DEF About, Acting, Judging
<1> QED BY <1>4, <1>5, <1>6, <1>7, <1>8, Here, GoOn

LEMMA WriteHistoryKeeps ==
  ASSUME Core, NEW s \in Slots, NEW ok \in BOOLEAN, WriteHistory(s, ok)
  PROVE  Core'
<1>1. PICK l \in {"bonus", "link"} : l = IF task[s].p \in Couponed THEN "bonus" ELSE "link"
  OBVIOUS
<1>2. PICK n : n = [task[s] EXCEPT !.pc = l]
  OBVIOUS
<1>3. task[s] \in Task /\ Fits(task[s]) /\ task[s].pc = "history" /\ task[s].p \in Payments
  BY Here DEF WriteHistory, At, Begun, About, Acting
<1>4. l \in Labels
  BY DEF Labels
<1>5. /\ n \in Task /\ n.pc = l /\ n.p = task[s].p /\ n.at = task[s].at
      /\ n.sweep = task[s].sweep /\ n.left = task[s].left
  BY <1>2, <1>3, <1>4, Turned
<1>6. granted[task[s].p] > 0 /\ task[s].p \notin task[s].left /\ (task[s].left # {} => task[s].sweep)
  BY <1>3 DEF Fits, Acting
<1>7. Fits(n)
  BY <1>5, <1>6 DEF Fits, Acting, Judging
<1>8. Do(s, n) /\ UNCHANGED <<now, row, sub, remote, granted, raced, slow, missed>>
  BY <1>1, <1>2, Zenon DEF WriteHistory, Goto, Do, ghosts
<1>9. \A p \in history' : p \in history \/ (p \in Payments /\ granted[p] > 0)
  BY <1>3, <1>6 DEF WriteHistory
<1>10. /\ n.pc \in About /\ task[s].pc \in Acting /\ task[s].pc \in About /\ n.pc \notin Judging
       /\ ~Ready(n)
  BY <1>3, <1>5 DEF About, Acting, Judging, Ready
<1> QED BY <1>5, <1>7, <1>8, <1>9, <1>10, Here, GoOn

LEMMA AddBonusKeeps ==
  ASSUME Core, NEW s \in Slots, AddBonus(s)
  PROVE  Core'
<1>1. PICK end : end = task[s].end + Bonus
  OBVIOUS
<1>2. PICK n, saved : n = [task[s] EXCEPT !.pc = "link", !.end = end] /\ saved = [sub EXCEPT !.end = end]
  OBVIOUS
<1>3. task[s] \in Task /\ Fits(task[s]) /\ task[s].pc = "bonus" /\ task[s].end \in Nat
  BY Here, TaskTyped DEF AddBonus, At
<1>4. end \in Nat
  BY <1>1, <1>3, Constants
<1>5. /\ n \in Task /\ n.pc = "link" /\ n.p = task[s].p /\ n.at = task[s].at
      /\ n.sweep = task[s].sweep /\ n.left = task[s].left
  BY <1>2, <1>3, <1>4 DEF Task, Labels
<1>6. saved \in Sub /\ saved.plan = sub.plan
  BY <1>2, <1>4, Here DEF Sub
<1>7. task[s].p \notin task[s].left /\ (task[s].left # {} => task[s].sweep)
  BY <1>3 DEF Fits, Acting
<1>8. Fits(n)
  BY <1>5, <1>7, ActingFits
<1>9. Save(s, saved, n) /\ UNCHANGED <<now, row, history, remote, granted, slow, missed>>
  BY <1>1, <1>2, Zenon DEF AddBonus, Save
<1>10. task' \in [Slots -> Task] /\ task'[s] = n /\ OthersStay(s) /\ sub' = saved /\ raced' \in BOOLEAN
  BY <1>5, <1>9, Here, SaveStays, Zenon
<1>11. Begun(n, now) /\ Hand(n) \subseteq Hand(task[s]) /\ ~Ready(n)
  BY <1>3, <1>5, Here DEF Begun, Hand, Ready, About, Acting, Judging
<1> QED BY <1>5, <1>6, <1>8, <1>9, <1>10, <1>11, Here, LightMove

\* The sweep: its next payment, and whether the payment has its period.
LEMMA NextStuckKeeps ==
  ASSUME Core, NEW s \in Slots, NextStuck(s)
  PROVE  Core'
<1>1. task[s] \in Task /\ Fits(task[s]) /\ task[s].pc = "sweep" /\ task[s].left \subseteq Payments
  BY Here, TaskTyped DEF NextStuck, At
<1>2. UNCHANGED <<now, row, sub, history, remote, granted, raced, slow, missed>>
  BY DEF NextStuck, ghosts
<1>3. CASE task[s].left = {}
  <2>1. Do(s, Idle)
    BY <1>3 DEF NextStuck
  <2>2. /\ Idle \in Task /\ Idle.p = 0 /\ Idle.sweep = FALSE /\ Begun(Idle, now) /\ Fits(Idle)
        /\ Hand(Idle) = {} /\ ~Ready(Idle) /\ Idle.pc \notin {"insert", "order"}
    BY IdleFits
  <2>3. task' \in [Slots -> Task] /\ task'[s] = Idle /\ OthersStay(s)
    BY <2>1, <2>2, Here, DoStays
  <2> QED BY <1>2, <2>2, <2>3, Here, LightMove
<1>4. CASE task[s].left # {}
  <2>1. PICK p \in task[s].left : Do(s, [task[s] EXCEPT !.pc = "judge", !.p = p, !.left = @ \ {p}])
    BY <1>4 DEF NextStuck
  <2>2. PICK left : left = task[s].left \ {p}
    OBVIOUS
  <2>3. PICK n : n = [task[s] EXCEPT !.pc = "judge", !.p = p, !.left = left]
    OBVIOUS
  <2>4. Do(s, n)
    BY <2>1, <2>2, <2>3, Zenon DEF Do
  <2>5. left \subseteq Payments /\ p \in Payments /\ left \subseteq task[s].left /\ p \notin left
    BY <1>1, <2>2
  <2>6. /\ n \in Task /\ n.pc = "judge" /\ n.p = p /\ n.at = task[s].at
        /\ n.sweep = task[s].sweep /\ n.left = left
    BY <1>1, <2>3, <2>5 DEF Task, Labels
  <2>7. Fits(n)
    BY <1>1, <2>5, <2>6 DEF Fits, Acting, Judging
  <2>8. Hand(n) \subseteq Hand(task[s]) /\ p \in Hand(task[s]) /\ ~Ready(n)
    BY <2>5, <2>6 DEF Hand, Ready, Acting, Judging
  <2>9. task' \in [Slots -> Task] /\ task'[s] = n /\ OthersStay(s)
    BY <2>4, <2>6, Here, DoStays
  <2>10. Begun(n, now)
    BY <2>5, <2>6, Here DEF Begun
  <2> QED BY <1>2, <2>5, <2>6, <2>7, <2>8, <2>9, <2>10, Here, LightMove
<1> QED BY <1>3, <1>4

\* A step of a sweep that only moves on about its payment.
LEMMA JudgeMoves ==
  ASSUME Core, NEW s \in Slots, task[s].pc \in Judging,
         NEW l \in {"guess", "backfill", "first"}, Goto(s, l),
         UNCHANGED <<now, row, sub, history, remote, granted, slow, raced>>, missed \subseteq missed',
         l = "first" => task[s].p \in missed' \/ granted[task[s].p] = 0
  PROVE  Core'
<1>1. PICK n : n = [task[s] EXCEPT !.pc = l]
  OBVIOUS
<1>2. task[s] \in Task /\ Fits(task[s])
  BY Here
<1>3. l \in Labels
  BY DEF Labels
<1>4. /\ n \in Task /\ n.pc = l /\ n.p = task[s].p /\ n.at = task[s].at
      /\ n.sweep = task[s].sweep /\ n.left = task[s].left
  BY <1>1, <1>2, <1>3, Turned
<1>5. task[s].p \notin task[s].left /\ task[s].sweep
  BY <1>2 DEF Fits
<1>6. Fits(n)
  BY <1>4, <1>5 DEF Fits, Acting, Judging
<1>7. Do(s, n)
  BY <1>1, Zenon DEF Goto, Do
<1>8. Ready(n) => n.p \in slow' \cup missed' \/ granted[n.p] = 0
  BY <1>4 DEF Ready
<1>9. n.pc \in About /\ task[s].pc \in About /\ n.pc \notin {"insert", "order", "ask", "refund", "idle"}
  BY <1>4 DEF About, Acting, Judging
<1> QED BY <1>4, <1>6, <1>7, <1>8, <1>9, GoOn

LEMMA FindHistoryKeeps ==
  ASSUME Core, NEW s \in Slots, FindHistory(s)
  PROVE  Core'
<1>1. task[s].pc \in Judging
  BY DEF FindHistory, At, Judging
<1>2. PICK l \in {"guess", "backfill"} : Goto(s, l)
  BY Zenon DEF FindHistory
<1>3. UNCHANGED <<now, row, sub, history, remote, granted, slow, raced, missed>>
  BY DEF FindHistory, ghosts
<1> QED BY <1>1, <1>2, <1>3, JudgeMoves

\* The guess: a period no younger than the payment is taken for its own.
LEMMA GuessAppliedKeeps ==
  ASSUME Core, NEW s \in Slots, GuessApplied(s)
  PROVE  Core'
<1>1. task[s].pc \in Judging /\ task[s].p \in Payments
  BY Here DEF GuessApplied, At, Judging, Begun, About
<1>2. PICK p \in Payments : p = task[s].p
  BY <1>1
<1>3. /\ UNCHANGED <<now, row, sub, history, remote, granted, slow, raced>>
      /\ missed' = IF granted[p] > 0 /\ (sub.plan # PlanOf[p] \/ sub.start < row[p].created)
                   THEN missed \cup {p} ELSE missed
      /\ Goto(s, IF LooksApplied(p) THEN "backfill" ELSE "first")
  BY <1>2 DEF GuessApplied, Payment
<1>4. missed \subseteq missed'
  BY <1>3
<1>5. CASE LooksApplied(p)
  <2>1. Goto(s, "backfill")
    BY <1>3, <1>5
  <2> QED BY <1>1, <1>3, <1>4, <2>1, JudgeMoves
<1>6. CASE ~LooksApplied(p)
  <2>1. Goto(s, "first")
    BY <1>3, <1>6
  <2>2. p \in missed' \/ granted[p] = 0
    <3>1. sub.start \in Nat /\ row[p].created \in Nat /\ granted[p] \in Nat
      <4>1. row[p] \in Row
        BY DEF Core, Types
      <4> QED BY <4>1, Here DEF Sub, Row
    <3> QED BY <1>3, <1>6, <3>1 DEF LooksApplied
  <2> QED BY <1>1, <1>2, <1>3, <1>4, <2>1, <2>2, JudgeMoves
<1> QED BY <1>5, <1>6

LEMMA BackfillKeeps ==
  ASSUME Core, NEW s \in Slots, Backfill(s)
  PROVE  Core'
<1>1. PICK n : n = [task[s] EXCEPT !.pc = "link", !.end = sub.end]
  OBVIOUS
<1>2. task[s] \in Task /\ Fits(task[s]) /\ task[s].pc = "backfill" /\ sub.end \in Nat
  BY Here DEF Backfill, At, Sub
<1>3. /\ n \in Task /\ n.pc = "link" /\ n.p = task[s].p /\ n.at = task[s].at
      /\ n.sweep = task[s].sweep /\ n.left = task[s].left
  BY <1>1, <1>2 DEF Task, Labels
<1>4. Fits(n)
  <2>1. task[s].p \notin task[s].left /\ task[s].sweep
    BY <1>2 DEF Fits, Judging
  <2> QED BY <1>3, <2>1, ActingFits
<1>5. Do(s, n) /\ UNCHANGED <<now, row, sub, history, remote, granted, raced, slow, missed>>
  BY <1>1, Zenon DEF Backfill, Do, ghosts
<1>6. n.pc \in About /\ task[s].pc \in Judging /\ task[s].pc \in About /\ n.pc \notin Judging /\ ~Ready(n)
  BY <1>2, <1>3 DEF About, Acting, Judging, Ready
<1> QED BY <1>3, <1>4, <1>5, <1>6, Here, GoOn

-----------------------------------------------------------------------------
\* The subscription of a request that is not about a payment.
LEMMA ComparePeriodKeeps ==
  ASSUME Core, NEW s \in Slots, ComparePeriod(s)
  PROVE  Core'
<1>1. UNCHANGED <<now, row, sub, history, remote, granted, raced, slow, missed>>
  BY DEF ComparePeriod, ghosts
<1>2. CASE Done(s)
  BY <1>1, <1>2, EndMove DEF ghosts
<1>3. CASE Do(s, [task[s] EXCEPT !.pc = "cancel"])
  <2>1. PICK n : n = [task[s] EXCEPT !.pc = "cancel"]
    OBVIOUS
  <2>2. task[s] \in Task /\ Fits(task[s]) /\ task[s].pc = "compare" /\ "cancel" \in Labels
    BY Here DEF ComparePeriod, At, Labels
  <2>3. /\ n \in Task /\ n.pc = "cancel" /\ n.p = task[s].p /\ n.at = task[s].at
        /\ n.sweep = task[s].sweep /\ n.left = task[s].left
    BY <2>1, <2>2, Turned
  <2>4. Fits(n)
    BY <2>2, <2>3 DEF Fits, Acting, Judging
  <2>5. n.pc \notin About /\ n.pc \notin Acting \cup Judging /\ ~Ready(n)
    BY <2>3 DEF About, Acting, Judging, Ready
  <2>6. Do(s, n)
    BY <1>3, <2>1, Zenon
  <2> QED BY <1>1, <2>3, <2>4, <2>5, <2>6, GoOn
<1> QED BY <1>2, <1>3 DEF ComparePeriod

LEMMA CancelKeeps ==
  ASSUME Core, NEW s \in Slots, Cancel(s)
  PROVE  Core'
<1>1. UNCHANGED <<now, row, sub, history, remote, granted, raced, slow, missed>>
  BY DEF Cancel, ghosts
<1>2. CASE Done(s)
  BY <1>1, <1>2, EndMove DEF ghosts
<1>3. CASE ~Done(s)
  <2>1. sub.end \in Nat /\ task[s].at \in Nat
    BY Here DEF Sub
  <2>2. PICK end \in Nat : end = IF task[s].p # 0 \/ sub.end <= task[s].at THEN task[s].at ELSE sub.end
    BY <2>1
  <2>3. PICK n : n = [task[s] EXCEPT !.pc = "save", !.stale = FALSE, !.end = end]
    OBVIOUS
  <2>4. Do(s, n)
    BY <1>3, <2>2, <2>3, Zenon DEF Cancel, Do
  <2>5. task[s] \in Task /\ Fits(task[s]) /\ task[s].pc = "cancel"
    BY Here DEF Cancel, At
  <2>6. /\ n \in Task /\ n.pc = "save" /\ n.p = task[s].p /\ n.at = task[s].at
        /\ n.sweep = task[s].sweep /\ n.left = task[s].left
    BY <2>2, <2>3, <2>5 DEF Task, Labels
  <2>7. Fits(n)
    BY <2>5, <2>6 DEF Fits, Acting, Judging
  <2>8. n.pc \notin About /\ n.pc \notin Acting \cup Judging /\ ~Ready(n)
    BY <2>6 DEF About, Acting, Judging, Ready
  <2> QED BY <1>1, <2>4, <2>6, <2>7, <2>8, GoOn
<1> QED BY <1>2, <1>3

LEMMA SavesKeep ==
  ASSUME Core, NEW s \in Slots,
         SaveCancel(s) \/ Reactivate(s) \/ (\E plan \in Paid : StartTrial(s, plan)) \/ GrantFreeDays(s)
  PROVE  Core'
<1>1. sub \in Sub /\ task[s].end \in Nat /\ task[s].at \in Nat
  BY Here, TaskTyped
<1>2. CASE SaveCancel(s)
  <2>1. PICK saved : saved = [sub EXCEPT !.cancelAt = task[s].end]
    OBVIOUS
  <2>2. saved \in Sub /\ saved.plan = sub.plan
    BY <1>1, <2>1 DEF Sub
  <2> QED BY <1>2, <2>1, <2>2, SaveEnds DEF SaveCancel
<1>3. CASE Reactivate(s)
  <2>1. PICK saved : saved = [sub EXCEPT !.cancelAt = 0]
    OBVIOUS
  <2>2. saved \in Sub /\ saved.plan = sub.plan
    BY <1>1, <2>1 DEF Sub
  <2> QED BY <1>3, <2>1, <2>2, SaveEnds DEF Reactivate
<1>4. CASE \E plan \in Paid : StartTrial(s, plan)
  <2>0. PICK plan \in Paid : StartTrial(s, plan)
    BY <1>4
  <2>1. PICK saved : saved = [plan |-> plan, status |-> "trialing", start |-> task[s].at, end |-> 0,
                              cancelAt |-> 0, trialUsed |-> TRUE]
    OBVIOUS
  <2>2. saved \in Sub /\ saved.plan \in Paid
    BY <1>1, <2>0, <2>1 DEF Sub
  <2> QED BY <2>0, <2>1, <2>2, SaveEnds DEF StartTrial
<1>5. CASE GrantFreeDays(s)
  <2>1. PICK saved : saved = IF task[s].renew THEN [sub EXCEPT !.end = task[s].end, !.status = "active"]
                             ELSE Applied(task[s], "pro")
    OBVIOUS
  <2>2. Applied(task[s], "pro") \in Sub /\ Applied(task[s], "pro").plan \in Paid
    BY <1>1 DEF Sub, Applied, Paid
  <2>3. [sub EXCEPT !.end = task[s].end, !.status = "active"] \in Sub
        /\ [sub EXCEPT !.end = task[s].end, !.status = "active"].plan = sub.plan
    BY <1>1 DEF Sub
  <2>4. saved \in Sub /\ saved.plan \in Paid \cup {sub.plan}
    BY <2>1, <2>2, <2>3
  <2> QED BY <1>5, <2>1, <2>4, SaveEnds DEF GrantFreeDays
<1> QED BY <1>2, <1>3, <1>4, <1>5

-----------------------------------------------------------------------------
(***************************************************************************)
(* Steps that change a payment.                                            *)
(***************************************************************************)
Making == {"insert", "order"}

\* What no step takes back of a payment.
Kept(p) ==
  /\ remote[p] # Unpaid => remote'[p] # Unpaid
  /\ remote[p].captured => remote'[p].captured
  /\ remote[p].kind = "charge" => remote'[p].kind = "charge"
  /\ \A r \in Refunds : remote[p].refunds[r] # 0 => remote'[p].refunds[r] # 0
  /\ granted[p] > 0 => granted'[p] > 0

\* What a step leaves of the row and the provider's side of its payment.
Leaves(p) ==
  /\ row'[p].status \in Unsettled => row[p].status \in Unsettled /\ granted'[p] = 0 /\ row'[p].end = 0
  /\ row'[p].status \notin Unsettled => remote'[p].captured
  /\ remote'[p].kind = "charge" => p \in Charges /\ remote'[p].captured
  /\ \A r \in Refunds : remote'[p].refunds[r] # 0 => remote'[p].captured
  /\ row'[p].end # 0 => row'[p].linked

OthersSame(p) == \A q \in Payments \ {p} :
  row'[q] = row[q] /\ remote'[q] = remote[q] /\ granted'[q] = granted[q]

LEMMA OtherFits ==
  ASSUME Core, NEW p \in Payments, Kept(p), OthersSame(p), NEW t \in Slots,
         task[t].p = p => task[t].pc \notin Making,
         NEW n \in Task, SameTask(n, task[t])
  PROVE  Fits(n)'
<1>1. Fits(task[t]) /\ Begun(task[t], now)
  BY Here
<1>2. task[t] \in Task
  BY Here
<1>3. Fits(n) /\ n.pc = task[t].pc /\ n.p = task[t].p /\ n.event = task[t].event
  BY <1>1, <1>2, SameFits DEF SameTask
<1>4. n.pc \in About => n.p \in Payments
  BY <1>1, <1>3 DEF Begun
<1>5. n.pc = "refund" => n.event[2] \in Refunds
  BY <1>1, <1>3 DEF Begun
<1>6. CASE n.pc \notin About
  BY <1>3, <1>6 DEF Fits, About, Acting, Judging
<1>7. CASE n.pc \in About /\ n.p # p
  BY <1>3, <1>4, <1>7 DEF Fits, OthersSame
<1>8. CASE n.p = p
  BY <1>3, <1>5, <1>8 DEF Fits, Kept, Making
<1> QED BY <1>6, <1>7, <1>8

LEMMA PayMove ==
  ASSUME Core, Types', Granted', NEW s \in Slots, OthersStay(s), NEW n, n = task'[s],
         NEW p \in Payments, OthersSame(p), Kept(p), Leaves(p),
         slow \subseteq slow', missed \subseteq missed',
         \A t \in Slots : t # s /\ task[t].p = p => task[t].pc \notin Making,
         Fits(n)', n.sweep => task[s].sweep \/ \A t \in Slots : ~task[t].sweep,
         n.p \in {0, p, task[s].p},
         n.pc \in Making =>
           \/ task[s].pc \in Making /\ task[s].p = n.p
           \/ \A t \in Slots : task[t].p # n.p,
         \A q \in Hand(n) :
           /\ row'[q].status \notin Unsettled
           /\ \/ q \in Hand(task[s]) \/ q \in slow' \cup missed'
              \/ \A t \in Slots : t # s => q \notin Hand(task[t]),
         granted'[p] # granted[p] => p \in Hand(task[s]) \/ p \in slow' \cup missed',
         p \notin slow' \cup missed' => granted'[p] <= 1,
         Ready(n) /\ n.p \notin slow' \cup missed' => granted'[n.p] = 0
  PROVE  Core'
<1> DEFINE m(t) == task[t]
           k(t) == task'[t]
<1>1. \A t \in Slots : m(t) \in Task /\ k(t) \in Task
  BY DEF Core, Types
<1>2. \A t \in Slots : t # s => /\ SameTask(k(t), m(t))
                                /\ k(t).pc = m(t).pc /\ k(t).p = m(t).p /\ k(t).sweep = m(t).sweep
                                /\ Hand(k(t)) = Hand(m(t)) /\ (Ready(k(t)) <=> Ready(m(t)))
  BY <1>1, SameFits DEF OthersStay, SameTask
<1>3. (\A t \in Slots : Fits(task[t]))'
  <2>1. ASSUME NEW t \in Slots PROVE Fits(task[t])'
    <3>1. PICK x : x = k(t)
      OBVIOUS
    <3>2. CASE t = s
      BY <3>2 DEF Fits
    <3>3. CASE t # s
      <4>1. x \in Task /\ SameTask(x, task[t]) /\ (task[t].p = p => task[t].pc \notin Making)
        BY <1>1, <1>2, <3>1, <3>3
      <4>2. Fits(x)'
        BY <4>1, OtherFits
      <4> QED BY <3>1, <4>2 DEF Fits
    <3> QED BY <3>2, <3>3
  <2> QED BY <2>1
<1>4. OneSweep'
  BY <1>2 DEF Core, OneSweep
<1>5. Alone'
  <2> SUFFICES ASSUME NEW t \in Slots, NEW u \in Slots, k(t).pc \in Making, k(u).p = k(t).p
               PROVE  t = u
    BY DEF Alone, Making
  <2>1. CASE t # s
    <3>1. m(t).pc \in Making /\ k(t).p = m(t).p /\ Begun(m(t), now)
      BY <1>2, <2>1, Here
    <3>2. m(t).p \in Payments /\ m(t).p # p
      BY <2>1, <3>1 DEF Begun, About, Making
    <3>3. CASE u # s
      BY <1>2, <3>1, <3>3 DEF Core, Alone, Making
    <3>4. CASE u = s
      <4>1. m(t).p # m(s).p
        BY <2>1, <3>1 DEF Core, Alone, Making
      <4>2. n.p = m(t).p
        BY <3>1, <3>4
      <4>3. m(t).p # 0
        BY <3>2, Constants
      <4> QED BY <3>2, <4>1, <4>2, <4>3
    <3> QED BY <3>3, <3>4
  <2>2. CASE t = s /\ u # s
    <3>1. m(u).p = n.p
      BY <1>2, <2>2
    <3>2. m(s).pc \in Making /\ m(s).p = m(u).p
      BY <2>2, <3>1
    <3> QED BY <2>2, <3>2 DEF Core, Alone, Making
  <2> QED BY <2>1, <2>2
<1>6. ASSUME NEW q \in Payments PROVE Taken(q)'
  <2>1. row'[q].status \in Unsettled => row[q].status \in Unsettled /\ granted'[q] = 0 /\ row'[q].end = 0
    BY DEF Core, Taken, Leaves, OthersSame
  <2>2. \A t \in Slots : q \in Hand(k(t)) => row'[q].status \notin Unsettled
    <3>1. ASSUME NEW t \in Slots, t # s, q \in Hand(k(t)) PROVE row[q].status \notin Unsettled
      BY <1>2, <3>1, HandSettled
    <3> QED BY <2>1, <3>1
  <2>3. /\ row'[q].status \notin Unsettled => remote'[q].captured
        /\ remote'[q].kind = "charge" => q \in Charges /\ remote'[q].captured
        /\ \A r \in Refunds : remote'[q].refunds[r] # 0 => remote'[q].captured
        /\ row'[q].end # 0 => row'[q].linked
    BY DEF Core, Taken, Leaves, OthersSame
  <2> QED BY <2>1, <2>2, <2>3 DEF Taken, Hand
<1>7. ASSUME NEW q \in Payments PROVE Once(q)'
  <2> SUFFICES ASSUME q \notin slow' \cup missed'
               PROVE  /\ granted'[q] <= 1
                      /\ \A t, u \in Slots : q \in Hand(k(t)) /\ q \in Hand(k(u)) => t = u
                      /\ \A t \in Slots : Ready(k(t)) /\ k(t).p = q => granted'[q] = 0
    BY DEF Once, Hand, Ready
  <2>1. /\ granted[q] <= 1
        /\ \A t, u \in Slots : q \in Hand(m(t)) /\ q \in Hand(m(u)) => t = u
        /\ \A t \in Slots : Ready(m(t)) /\ m(t).p = q => granted[q] = 0
    BY DEF Core, Once
  <2>2. granted'[q] <= 1
    BY <2>1 DEF OthersSame
  <2>3. ASSUME NEW t \in Slots, t # s, q \in Hand(k(t)) PROVE q \notin Hand(k(s)) /\ q \in Hand(m(t))
    BY <1>2, <2>1, <2>3
  <2>4. \A t, u \in Slots : q \in Hand(k(t)) /\ q \in Hand(k(u)) => t = u
    BY <2>1, <2>3
  <2>5. ASSUME NEW t \in Slots, Ready(k(t)), k(t).p = q PROVE granted'[q] = 0
    <3>1. CASE t = s
      BY <2>5, <3>1
    <3>2. CASE t # s
      <4>1. Ready(m(t)) /\ m(t).p = q /\ granted[q] = 0
        BY <1>2, <2>1, <2>5, <3>2
      <4>2. q \in Hand(m(t))
        BY <4>1 DEF Ready, Hand, Acting
      <4>3. q \notin Hand(m(s))
        BY <2>1, <3>2, <4>2
      <4> QED BY <4>1, <4>3 DEF OthersSame
    <3> QED BY <3>1, <3>2
  <2> QED BY <2>2, <2>4, <2>5
<1> QED BY <1>3, <1>4, <1>5, <1>6, <1>7 DEF Core

\* Nobody but s is making the order of p.
Quiet(s, p) == \A t \in Slots : t # s /\ task[t].p = p => task[t].pc \notin Making
\* All that is written is the row of p.
SetsRow(p, x) ==
  /\ row' = [row EXCEPT ![p] = x]
  /\ UNCHANGED <<now, sub, history, remote, granted, slow, missed, raced>>
\* A row as Taken wants it.
Sound(p, x) ==
  /\ x \in Row
  /\ x.status \in Unsettled => row[p].status \in Unsettled /\ x.end = 0
  /\ x.status \notin Unsettled => remote[p].captured
  /\ x.end # 0 => x.linked
\* What s may have in hand when x is the row of p.
Grasp(s, n, p, x) ==
  /\ n.p \in {0, p} /\ n.pc \notin {"insert"} /\ (n.sweep => task[s].sweep)
  /\ n.pc = "order" => task[s].pc \in Making /\ task[s].p = n.p
  /\ \/ Hand(n) \subseteq Hand(task[s])
     \/ Hand(n) \subseteq Hand(task[s]) \cup {p} /\ row[p].status \in Unsettled /\ x.status \notin Unsettled
  /\ ~Ready(n) \/ (n.p = p /\ row[p].status \in Unsettled)

\* Typed parts of the state a step leaves.
LEMMA RowTyped ==
  ASSUME NEW x \in Row
  PROVE  /\ x.status \in Statuses /\ x.linked \in BOOLEAN /\ x.end \in Nat /\ x.created \in Nat
         /\ x.touched \in Nat /\ x.events \subseteq Events /\ x.refundIds \subseteq Refunds
         /\ x.refunded \in Nat /\ x.flagged \in BOOLEAN
BY DEF Row

LEMMA TypesMove ==
  ASSUME Core, NEW s \in Slots, OthersStay(s), task' \in [Slots -> Task], Begun(task'[s], now),
         UNCHANGED now, row' \in [Payments -> Row], remote' \in [Payments -> Remote], sub' \in Sub,
         history' \subseteq Payments, granted' \in [Payments -> Nat], raced' \in BOOLEAN
  PROVE  Types'
<1>1. \A t \in Slots : Begun(task'[t], now)
  <2>1. ASSUME NEW t \in Slots, t # s PROVE Begun(task'[t], now)
    <3>1. task[t] \in Task /\ task'[t] \in Task /\ Begun(task[t], now) /\ now \in Nat
      BY Here
    <3>2. SameTask(task'[t], task[t]) /\ (task[t].pc = "idle" => task'[t] = task[t])
      BY <2>1 DEF OthersStay
    <3>3. now <= now
      BY <3>1
    <3> QED BY <3>1, <3>2, <3>3, BegunStays
  <2> QED BY <2>1
<1>2. now \in 1..MaxTime
  BY DEF Core, Types
<1> QED BY <1>1, <1>2 DEF Types

\* Most steps leave what was granted, the plan and the history.
LEMMA PlanStays ==
  ASSUME Core, UNCHANGED <<sub, history, granted>>
  PROVE  Granted'
BY DEF Core, Granted

\* The row of one payment changes, or what the provider has of it.
LEMMA OneRow ==
  ASSUME Core, NEW p \in Payments, NEW x \in Row, row' = [row EXCEPT ![p] = x],
         UNCHANGED <<remote, granted>>
  PROVE  row' \in [Payments -> Row] /\ row'[p] = x /\ OthersSame(p) /\ Kept(p)
<1>1. row \in [Payments -> Row]
  BY DEF Core, Types
<1> QED BY <1>1 DEF OthersSame, Kept

\* A step that changes the row of one payment and moves one task.
LEMMA RowMove ==
  ASSUME Core, NEW s \in Slots, NEW n \in Task, Do(s, n), Begun(n, now),
         NEW p \in Payments, NEW x, SetsRow(p, x), Sound(p, x), Quiet(s, p),
         Fits(n)', Grasp(s, n, p, x)
  PROVE  Core'
<1>0. /\ x \in Row /\ row' = [row EXCEPT ![p] = x]
      /\ UNCHANGED <<now, sub, history, remote, granted, slow, missed, raced>>
      /\ x.status \in Unsettled => row[p].status \in Unsettled /\ x.end = 0
      /\ x.status \notin Unsettled => remote[p].captured
      /\ x.end # 0 => x.linked
  BY DEF SetsRow, Sound
<1>1. task' \in [Slots -> Task] /\ n = task'[s] /\ OthersStay(s)
  BY Here, DoStays
<1>2. row' \in [Payments -> Row] /\ row'[p] = x /\ OthersSame(p) /\ Kept(p)
  BY <1>0, OneRow
<1>3. remote \in [Payments -> Remote]
  BY DEF Core, Types
<1>4. Types'
  BY <1>0, <1>1, <1>2, <1>3, Here, TypesMove
<1>5. Granted'
  BY <1>0, PlanStays
<1>6. Taken(p) /\ Once(p)
  BY DEF Core
<1>7. Leaves(p)
  BY <1>0, <1>2, <1>6 DEF Leaves, Taken
<1>8. \A q \in Hand(n) :
        /\ row'[q].status \notin Unsettled
        /\ \/ q \in Hand(task[s]) \/ q \in slow' \cup missed'
           \/ \A t \in Slots : t # s => q \notin Hand(task[t])
  <2> SUFFICES ASSUME NEW q \in Hand(n)
               PROVE  /\ row'[q].status \notin Unsettled
                      /\ \/ q \in Hand(task[s]) \/ q \in slow' \cup missed'
                         \/ \A t \in Slots : t # s => q \notin Hand(task[t])
    OBVIOUS
  <2>1. CASE q \in Hand(task[s])
    <3>1. q \in Payments /\ row[q].status \notin Unsettled
      BY <2>1, HandSettled
    <3> QED BY <1>0, <1>2, <2>1, <3>1 DEF OthersSame
  <2>2. CASE q \notin Hand(task[s])
    <3>1. q = p /\ row[p].status \in Unsettled /\ x.status \notin Unsettled
      BY <2>2 DEF Grasp
    <3> QED BY <1>2, <1>6, <3>1 DEF Taken
  <2> QED BY <2>1, <2>2
<1>9. p \notin slow' \cup missed' => granted'[p] <= 1
  BY <1>0, <1>6 DEF Once
<1>10. Ready(n) /\ n.p \notin slow' \cup missed' => granted'[n.p] = 0
  BY <1>0, <1>6 DEF Taken, Grasp
<1> QED BY <1>0, <1>1, <1>2, <1>4, <1>5, <1>7, <1>8, <1>9, <1>10, PayMove DEF Making, Grasp, Quiet

\* Where a task stands with its payment.
LEMMA Subject ==
  ASSUME Core, NEW s \in Slots, task[s].pc \in About
  PROVE  /\ task[s].p \in Payments /\ row[task[s].p] \in Row /\ remote[task[s].p] \in Remote
         /\ row \in [Payments -> Row] /\ remote \in [Payments -> Remote]
         /\ Taken(task[s].p) /\ Once(task[s].p)
BY DEF Core, Types, Begun

\* Nobody else makes the order of a payment that has one, or has a row somebody saw.
LEMMA NotMaking ==
  ASSUME Core, NEW p \in Payments, NEW s \in Slots,
         \/ row[p].status \notin {"none", "created"} \/ remote[p] # Unpaid
         \/ task[s].pc \in Making /\ task[s].p = p
  PROVE  Quiet(s, p)
<1> SUFFICES ASSUME NEW t \in Slots, t # s, task[t].p = p, task[t].pc \in Making
             PROVE  FALSE
  BY DEF Quiet
<1>1. Fits(task[t])
  BY Here
<1>2. row[p].status \in {"none", "created"} /\ remote[p] = Unpaid
  BY <1>1 DEF Fits, NoRow, Making
<1> QED BY <1>2 DEF Core, Alone, Making

\* A step that changes the row of its payment and ends.
LEMMA RowEnd ==
  ASSUME Core, NEW s \in Slots, Done(s), NEW p \in Payments, NEW x,
         SetsRow(p, x), Sound(p, x), Quiet(s, p)
  PROVE  Core'
<1>1. PICK n : n = After(task[s])
  OBVIOUS
<1>2. Do(s, n)
  BY <1>1, DoneIs
<1>3. /\ n \in Task /\ n.p = 0 /\ n.sweep = task[s].sweep /\ Begun(n, now) /\ Fits(n)
      /\ Hand(n) \subseteq Hand(task[s]) /\ ~Ready(n)
  BY <1>1, EndFits
<1>4. n.pc \in {"sweep", "idle"}
  BY <1>1, Here, Ends
<1>5. Fits(n)'
  BY <1>3, <1>4 DEF Fits, Acting, Judging
<1>6. Grasp(s, n, p, x)
  <2>1. n.sweep => task[s].sweep
    BY <1>3, Zenon
  <2>2. n.p \in {0, p} /\ n.pc \notin {"insert"} /\ n.pc # "order"
    BY <1>3, <1>4
  <2> QED BY <1>3, <2>1, <2>2, Zenon DEF Grasp
<1> QED BY <1>2, <1>3, <1>5, <1>6, RowMove, Zenon

LEMMA LinkPaymentKeeps ==
  ASSUME Core, NEW s \in Slots, LinkPayment(s)
  PROVE  Core'
<1>1. PICK p \in Payments : p = task[s].p
  BY Subject DEF LinkPayment, At, About, Acting
<1>2. task[s].pc = "link" /\ task[s] \in Task /\ now \in Nat
  BY Here DEF LinkPayment, At
<1>20. task[s].end \in Nat
  BY <1>2, TaskTyped
<1>3. row \in [Payments -> Row] /\ row[p] \in Row
  BY <1>1, <1>2, Subject DEF About, Acting
<1>4. PICK x : x = [row[p] EXCEPT !.linked = TRUE, !.end = task[s].end, !.touched = now]
  OBVIOUS
<1>5. row' = [row EXCEPT ![p] = x]
  BY <1>1, <1>3, <1>4 DEF LinkPayment
<1>6. x \in Row /\ x.status = row[p].status /\ x.linked
  BY <1>2, <1>3, <1>4, <1>20 DEF Row
<1>7. Done(s) /\ UNCHANGED <<now, sub, history, remote, granted, slow, missed, raced>>
  BY DEF LinkPayment, ghosts
<1>8. p \in Hand(task[s])
  BY <1>1, <1>2 DEF Hand, Acting
<1>9. row[p].status \notin Unsettled /\ remote[p].captured
  BY <1>8, HandSettled
<1>10. Quiet(s, p)
  BY <1>9, NotMaking DEF Unsettled
<1>11. SetsRow(p, x) /\ Sound(p, x)
  BY <1>5, <1>6, <1>7, <1>9 DEF SetsRow, Sound
<1> QED BY <1>7, <1>10, <1>11, RowEnd, Zenon

\* The row of a checkout, before its order is made.
LEMMA InsertRowKeeps ==
  ASSUME Core, NEW s \in Slots, InsertRow(s)
  PROVE  Core'
<1>1. task[s].pc = "insert" /\ task[s] \in Task /\ now \in Nat /\ task[s].at \in Nat
      /\ Fits(task[s]) /\ Begun(task[s], now) /\ "order" \in Labels
  BY Here DEF InsertRow, At, Labels
<1>2. PICK p \in Payments : p = task[s].p
  BY <1>1 DEF Begun, About
<1>3. p \notin Charges /\ row[p] = NoRow /\ remote[p] = Unpaid /\ (task[s].left # {} => task[s].sweep)
  BY <1>1, <1>2 DEF Fits
<1>4. PICK x : x = [NoRow EXCEPT !.status = "created", !.linked = TRUE, !.created = task[s].at,
                                 !.touched = now]
  OBVIOUS
<1>5. row' = [row EXCEPT ![p] = x]
  BY <1>2, <1>4, Zenon DEF InsertRow
<1>6. x \in Row /\ x.status = "created" /\ x.end = 0
  <2>1. NoRow.end = 0
    BY DEF NoRow
  <2> QED BY <1>1, <1>4, <2>1, Constants DEF Row, Statuses
<1>7. PICK n : n = [task[s] EXCEPT !.pc = "order"]
  OBVIOUS
<1>8. Do(s, n) /\ UNCHANGED <<now, sub, history, remote, granted, slow, missed, raced>>
  BY <1>7, Zenon DEF InsertRow, Goto, Do, ghosts
<1>9. /\ n \in Task /\ n.pc = "order" /\ n.p = p /\ n.at = task[s].at
      /\ n.sweep = task[s].sweep /\ n.left = task[s].left
  BY <1>1, <1>2, <1>7, Turned
<1>10. row' \in [Payments -> Row] /\ row'[p] = x /\ UNCHANGED remote
  BY <1>5, <1>6, <1>8, OneRow
<1>11. Fits(n)'
  BY <1>3, <1>6, <1>9, <1>10 DEF Fits, Acting, Judging
<1>12. Begun(n, now)
  BY <1>1, <1>9 DEF Begun, About
<1>13. Hand(n) \subseteq Hand(task[s]) /\ ~Ready(n)
  BY <1>9 DEF Hand, Ready, Acting, Judging
<1>14. task[s].pc \in Making /\ task[s].p = p
  BY <1>1, <1>2 DEF Making
<1>15. Quiet(s, p)
  BY <1>14, NotMaking
<1>16. row[p].status \in Unsettled /\ x.status \in Unsettled
  BY <1>3, <1>6 DEF NoRow, Unsettled
<1>17. SetsRow(p, x) /\ Sound(p, x)
  BY <1>5, <1>6, <1>8, <1>16 DEF SetsRow, Sound
<1>18. Grasp(s, n, p, x)
  <2>1. n.sweep => task[s].sweep
    BY <1>9, Zenon
  <2>2. n.p \in {0, p} /\ n.pc \notin {"insert"} /\ task[s].p = n.p
    BY <1>9, <1>14
  <2> QED BY <1>13, <1>14, <2>1, <2>2, Zenon DEF Grasp
<1> QED BY <1>8, <1>9, <1>11, <1>12, <1>15, <1>17, <1>18, RowMove, Zenon

\* A task takes a payment nobody has in hand.
LEMMA TakesUp ==
  ASSUME Core, NEW s \in Slots, NEW p \in Payments, task[s].p = p, row[p].status \in Unsettled,
         NEW x, Sound(p, x), x.status \notin Unsettled, SetsRow(p, x), Goto(s, "first")
  PROVE  Core'
<1>1. task[s] \in Task /\ Fits(task[s]) /\ "first" \in Labels /\ task[s].at <= now
  BY Here DEF Labels
<1>2. PICK n : n = [task[s] EXCEPT !.pc = "first"]
  OBVIOUS
<1>3. Do(s, n)
  BY <1>2, Zenon DEF Goto, Do
<1>4. /\ n \in Task /\ n.pc = "first" /\ n.p = p /\ n.at = task[s].at
      /\ n.sweep = task[s].sweep /\ n.left = task[s].left
  BY <1>1, <1>2, Turned
<1>5. p \notin task[s].left
  BY DEF Core, Taken, Hand
<1>6. task[s].left # {} => task[s].sweep
  BY <1>1 DEF Fits
<1>7. Fits(n)
  BY <1>4, <1>5, <1>6, ActingFits
<1>8. Fits(n)'
  BY <1>4, <1>7 DEF Fits, Acting, Judging
<1>9. Begun(n, now)
  BY <1>1, <1>4 DEF Begun
<1>10. Grasp(s, n, p, x)
  <2>1. n.sweep => task[s].sweep
    BY <1>4, Zenon
  <2>2. Ready(n) /\ n.pc \notin {"insert", "order"}
    BY <1>4 DEF Ready
  <2>3. Hand(n) \subseteq Hand(task[s]) \cup {p}
    BY <1>4 DEF Hand
  <2>4. n.p \in {0, p} /\ (n.pc = "order" => task[s].pc \in Making /\ task[s].p = n.p)
    BY <1>4
  <2> QED BY <1>4, <2>1, <2>2, <2>3, <2>4, Zenon DEF Grasp
<1>11. Quiet(s, p)
  <2>1. remote[p] # Unpaid
    BY DEF Sound, Unpaid
  <2> QED BY <2>1, NotMaking
<1> QED BY <1>3, <1>4, <1>8, <1>9, <1>10, <1>11, RowMove, Zenon

\* The claim: a payment of the checkout turns to captured once.
LEMMA ClaimKeeps ==
  ASSUME Core, NEW s \in Slots, Claim(s)
  PROVE  Core'
<1>1. task[s].pc = "claim" /\ task[s] \in Task /\ now \in Nat /\ Fits(task[s])
  BY Here DEF Claim, At
<1>2. PICK p \in Payments : p = task[s].p
  BY <1>1, Subject DEF About
<1>3. row \in [Payments -> Row] /\ row[p] \in Row /\ remote[p].captured /\ Taken(p)
  BY <1>1, <1>2, Subject DEF Fits, About
<1>4. UNCHANGED <<now, sub, history, remote, granted, slow, missed, raced>>
  BY DEF Claim, ghosts
<1>5. CASE ~CanClaim(p)
  <2>1. Done(s) /\ UNCHANGED row
    BY <1>2, <1>5 DEF Claim
  <2> QED BY <1>4, <2>1, EndMove DEF ghosts
<1>6. CASE CanClaim(p)
  <2>1. PICK marks : marks = row[p].events \cup Marked(s)
    OBVIOUS
  <2>2. PICK x : x = [row[p] EXCEPT !.status = "captured", !.touched = now, !.events = marks]
    OBVIOUS
  <2>3. row' = [row EXCEPT ![p] = x] /\ Goto(s, "first")
    BY <1>2, <1>3, <1>6, <2>1, <2>2 DEF Claim
  <2>4. marks \subseteq Events
    <3>1. Marked(s) \subseteq Events
      BY <1>1, TaskTyped DEF Marked
    <3>2. row[p].events \subseteq Events
      BY <1>3, RowTyped
    <3> QED BY <2>1, <3>1, <3>2
  <2>5. x \in Row /\ x.status = "captured" /\ x.end = row[p].end /\ x.linked = row[p].linked
    BY <1>1, <1>3, <2>2, <2>4 DEF Row, Statuses
  <2>6. row[p].status \in Unsettled /\ x.status \notin Unsettled
    BY <1>6, <2>5 DEF CanClaim, Unsettled
  <2>7. row[p].end = 0
    BY <1>3, <2>6 DEF Taken
  <2>8. Sound(p, x) /\ SetsRow(p, x)
    BY <1>3, <1>4, <2>3, <2>5, <2>6, <2>7 DEF Sound, SetsRow
  <2> QED BY <1>2, <2>3, <2>6, <2>8, TakesUp
<1> QED BY <1>5, <1>6

\* A failed attempt fails a payment that waits, and no other.
LEMMA FailPaymentKeeps ==
  ASSUME Core, NEW s \in Slots, FailPayment(s)
  PROVE  Core'
<1>1. task[s].pc = "fail" /\ task[s] \in Task /\ now \in Nat /\ Fits(task[s])
  BY Here DEF FailPayment, At
<1>2. PICK p \in Payments : p = task[s].p
  BY <1>1, Subject DEF About
<1>3. row \in [Payments -> Row] /\ row[p] \in Row /\ Taken(p) /\ remote[p] # Unpaid
  BY <1>1, <1>2, Subject DEF About, Fits
<1>4. UNCHANGED <<now, sub, history, remote, granted, slow, missed, raced>> /\ Done(s)
  BY DEF FailPayment, ghosts
<1>5. CASE ~CanFail(p)
  <2>1. UNCHANGED row
    BY <1>2, <1>5 DEF FailPayment
  <2> QED BY <1>4, <2>1, EndMove DEF ghosts
<1>6. CASE CanFail(p)
  <2>1. PICK marks : marks = row[p].events \cup Marked(s)
    OBVIOUS
  <2>2. PICK x : x = [row[p] EXCEPT !.status = "failed", !.touched = now, !.events = marks]
    OBVIOUS
  <2>3. row' = [row EXCEPT ![p] = x]
    BY <1>2, <1>3, <1>6, <2>1, <2>2 DEF FailPayment
  <2>4. marks \subseteq Events
    <3>1. Marked(s) \subseteq Events
      BY <1>1, TaskTyped DEF Marked
    <3>2. row[p].events \subseteq Events
      BY <1>3, RowTyped
    <3> QED BY <2>1, <3>1, <3>2
  <2>5. x \in Row /\ x.status = "failed" /\ x.end = row[p].end
    BY <1>1, <1>3, <2>2, <2>4 DEF Row, Statuses
  <2>6. row[p].status \in Unsettled /\ x.status \in Unsettled
    BY <1>6, <2>5 DEF CanFail, Unsettled
  <2>7. x.end = 0
    BY <1>3, <2>5, <2>6 DEF Taken
  <2>8. Sound(p, x) /\ SetsRow(p, x)
    BY <1>4, <2>3, <2>5, <2>6, <2>7 DEF Sound, SetsRow
  <2>9. Quiet(s, p)
    BY <1>3, NotMaking
  <2> QED BY <1>4, <2>8, <2>9, RowEnd, Zenon
<1> QED BY <1>5, <1>6

\* A recurring charge is recorded by whoever hears of it first.
LEMMA RecordChargeKeeps ==
  ASSUME Core, NEW s \in Slots, RecordCharge(s)
  PROVE  Core'
<1>1. task[s].pc = "record" /\ task[s] \in Task /\ now \in Nat /\ Fits(task[s])
  BY Here DEF RecordCharge, At
<1>2. PICK p \in Payments : p = task[s].p
  BY <1>1, Subject DEF About
<1>3. row \in [Payments -> Row] /\ row[p] \in Row /\ Taken(p) /\ remote[p].kind = "charge"
      /\ remote[p] \in Remote
  BY <1>1, <1>2, Subject DEF Fits, About
<1>4. UNCHANGED <<now, sub, history, remote, granted, slow, missed, raced>>
  BY DEF RecordCharge, ghosts
<1>5. CASE row[p] # NoRow
  <2>1. Done(s) /\ UNCHANGED row
    BY <1>2, <1>5 DEF RecordCharge
  <2> QED BY <1>4, <2>1, EndMove DEF ghosts
<1>6. CASE row[p] = NoRow
  <2>1. PICK x : x = [NoRow EXCEPT !.status = "captured", !.created = now, !.touched = now,
                                   !.flagged = remote[p].odd]
    OBVIOUS
  <2>2. row' = [row EXCEPT ![p] = x]
    BY <1>2, <1>6, <2>1, Zenon DEF RecordCharge
  <2>3. remote[p].odd \in BOOLEAN
    BY <1>3 DEF Remote
  <2>4. x \in Row /\ x.status = "captured" /\ x.end = 0
    <3>1. NoRow.end = 0
      BY DEF NoRow
    <3> QED BY <1>1, <2>1, <2>3, <3>1, Constants DEF Row, Statuses
  <2>5. row[p].status \in Unsettled /\ x.status \notin Unsettled /\ remote[p].captured
    BY <1>3, <1>6, <2>4 DEF NoRow, Unsettled, Taken
  <2>6. Sound(p, x) /\ SetsRow(p, x)
    BY <1>4, <2>2, <2>4, <2>5 DEF Sound, SetsRow
  <2>7. CASE Done(s)
    <3>1. remote[p] # Unpaid
      BY <2>5 DEF Unpaid
    <3>2. Quiet(s, p)
      BY <3>1, NotMaking
    <3> QED BY <2>6, <2>7, <3>2, RowEnd, Zenon
  <2>8. CASE Goto(s, "first")
    BY <1>2, <2>5, <2>6, <2>8, TakesUp
  <2> QED BY <1>2, <1>6, <2>7, <2>8 DEF RecordCharge
<1> QED BY <1>5, <1>6

-----------------------------------------------------------------------------
\* What the provider has of one payment changes; the rows stay.
Provider(p) ==
  /\ remote' \in [Payments -> Remote]
  /\ \A q \in Payments \ {p} : remote'[q] = remote[q]
  /\ UNCHANGED <<now, row, sub, history, granted, slow, missed, raced>>

\* What happens there is that a payment is captured, debited or refunded.
Grows(p) ==
  /\ Kept(p) /\ remote'[p] # Unpaid
  /\ remote'[p].kind = "charge" => p \in Charges /\ remote'[p].captured
  /\ \A r \in Refunds : remote'[p].refunds[r] # 0 => remote'[p].captured

LEMMA ProviderKeeps ==
  ASSUME Core, NEW p \in Payments, Provider(p), Grows(p), UNCHANGED task,
         \A t \in Slots : task[t].p = p => task[t].pc \notin Making
  PROVE  Core'
<1>1. Types'
  BY DEF Core, Types, Provider
<1>2. Granted'
  BY PlanStays DEF Provider
<1>3. (\A t \in Slots : Fits(task[t]))'
  <2>1. ASSUME NEW t \in Slots PROVE Fits(task[t])'
    <3>1. PICK x : x = task[t]
      OBVIOUS
    <3>2. x \in Task /\ SameTask(x, task[t])
      BY <3>1, Here DEF SameTask
    <3>3. OthersSame(p) /\ Kept(p)
      BY DEF OthersSame, Provider, Grows
    <3>4. Fits(x)'
      BY <3>2, <3>3, OtherFits
    <3> QED BY <3>1, <3>4 DEF Fits
  <2> QED BY <2>1
<1>4. Alone' /\ OneSweep'
  BY DEF Core, Alone, OneSweep
<1>5. ASSUME NEW q \in Payments PROVE Taken(q)' /\ Once(q)'
  <2>1. Taken(q) /\ Once(q)
    BY DEF Core
  <2>2. Once(q)'
    BY <2>1 DEF Once, Provider, Hand, Ready
  <2>3. Taken(q)'
    <3>1. CASE q = p
      BY <2>1, <3>1 DEF Taken, Provider, Grows, Kept, Hand
    <3>2. CASE q # p
      BY <2>1, <3>2 DEF Taken, Provider, Hand
    <3> QED BY <3>1, <3>2
  <2> QED BY <2>2, <2>3
<1> QED BY <1>1, <1>2, <1>3, <1>4, <1>5 DEF Core

\* The same with a task that goes on or ends.
LEMMA ProviderMove ==
  ASSUME Core, NEW s \in Slots, NEW n \in Task, Do(s, n), Begun(n, now),
         NEW p \in Payments, Provider(p), Grows(p), Quiet(s, p), Fits(n)',
         n.p \in {0, p}, n.pc \notin Making, n.sweep => task[s].sweep,
         Hand(n) \subseteq Hand(task[s]), ~Ready(n)
  PROVE  Core'
<1>0. /\ remote' \in [Payments -> Remote]
      /\ \A q \in Payments \ {p} : remote'[q] = remote[q]
      /\ UNCHANGED <<now, row, sub, history, granted, slow, missed, raced>>
  BY DEF Provider
<1>1. task' \in [Slots -> Task] /\ n = task'[s] /\ OthersStay(s)
  BY Here, DoStays
<1>2. row \in [Payments -> Row]
  BY DEF Core, Types
<1>3. Types'
  BY <1>0, <1>1, <1>2, Here, TypesMove
<1>4. Granted'
  BY <1>0, PlanStays
<1>5. Taken(p) /\ Once(p)
  BY DEF Core
<1>6. OthersSame(p) /\ Kept(p) /\ Leaves(p)
  BY <1>0, <1>5 DEF OthersSame, Grows, Leaves, Kept, Taken
<1>7. \A q \in Hand(n) :
        /\ row'[q].status \notin Unsettled
        /\ \/ q \in Hand(task[s]) \/ q \in slow' \cup missed'
           \/ \A t \in Slots : t # s => q \notin Hand(task[t])
  BY <1>0, HandSettled
<1>8. p \notin slow' \cup missed' => granted'[p] <= 1
  BY <1>0, <1>5 DEF Once
<1> QED BY <1>0, <1>1, <1>3, <1>4, <1>6, <1>7, <1>8, PayMove DEF Quiet

\* One field of what the provider has.
LEMMA RemoteTyped ==
  ASSUME NEW y \in Remote
  PROVE  /\ y.kind \in {"none", "order", "charge"} /\ y.captured \in BOOLEAN /\ y.failed \in BOOLEAN
         /\ y.odd \in BOOLEAN /\ y.refunds \in [Refunds -> Nat]
BY DEF Remote

LEMMA AttemptKeeps ==
  ASSUME Core, NEW p \in Payments, NEW ok \in BOOLEAN, NEW odd \in BOOLEAN, Attempt(p, ok, odd)
  PROVE  Core'
<1>1. remote \in [Payments -> Remote] /\ remote[p] \in Remote /\ Taken(p)
  BY DEF Core, Types
<1>2. PICK failed \in BOOLEAN : failed = (remote[p].failed \/ ~ok)
  BY <1>1, RemoteTyped
<1>3. PICK y : y = [remote[p] EXCEPT !.captured = ok, !.failed = failed, !.odd = odd]
  OBVIOUS
<1>4. remote' = [remote EXCEPT ![p] = y]
  BY <1>1, <1>2, <1>3 DEF Attempt
<1>5. /\ y \in Remote /\ y.kind = remote[p].kind /\ y.captured = ok
      /\ y.refunds = remote[p].refunds
  BY <1>1, <1>2, <1>3 DEF Remote
<1>6. remote[p].kind = "order" /\ ~remote[p].captured
      /\ UNCHANGED <<now, row, sub, history, task, granted, slow, missed, raced>>
  BY DEF Attempt, ghosts
<1>7. Provider(p) /\ remote'[p] = y
  BY <1>1, <1>4, <1>5, <1>6 DEF Provider
<1>8. remote[p] # Unpaid /\ y # Unpaid
  BY <1>5, <1>6 DEF Unpaid
<1>9. Grows(p)
  BY <1>1, <1>5, <1>6, <1>7, <1>8 DEF Grows, Kept, Taken
<1>10. \A t \in Slots : task[t].p = p => task[t].pc \notin Making
  <2>1. ASSUME NEW t \in Slots, task[t].p = p, task[t].pc \in Making PROVE FALSE
    BY <1>8, <2>1, Here DEF Fits, Making
  <2> QED BY <2>1
<1> QED BY <1>6, <1>7, <1>9, <1>10, ProviderKeeps

LEMMA DebitKeeps ==
  ASSUME Core, NEW p \in Payments, NEW odd \in BOOLEAN, Debit(p, odd)
  PROVE  Core'
<1>1. remote \in [Payments -> Remote] /\ remote[p] \in Remote
  BY DEF Core, Types
<1>2. PICK y : y = [remote[p] EXCEPT !.kind = "charge", !.captured = TRUE, !.odd = odd]
  OBVIOUS
<1>3. remote' = [remote EXCEPT ![p] = y]
  BY <1>1, <1>2 DEF Debit
<1>4. y \in Remote /\ y.kind = "charge" /\ y.captured /\ y.refunds = remote[p].refunds
  BY <1>1, <1>2 DEF Remote
<1>5. remote[p] = Unpaid /\ p \in Charges
      /\ UNCHANGED <<now, row, sub, history, task, granted, slow, missed, raced>>
  BY DEF Debit, ghosts
<1>6. Provider(p) /\ remote'[p] = y
  BY <1>1, <1>3, <1>4, <1>5 DEF Provider
<1>7. y # Unpaid
  BY <1>4 DEF Unpaid
<1>8. Grows(p)
  BY <1>4, <1>5, <1>6, <1>7 DEF Grows, Kept
<1>9. \A t \in Slots : task[t].p = p => task[t].pc \notin Making
  <2>1. ASSUME NEW t \in Slots, task[t].p = p, task[t].pc \in Making PROVE FALSE
    BY <1>5, <2>1, Here DEF Fits, Making
  <2> QED BY <2>1
<1> QED BY <1>5, <1>6, <1>8, <1>9, ProviderKeeps

\* A refund at the provider, whoever asked for it.
LEMMA RefundGrows ==
  ASSUME Core, NEW p \in Payments, NEW r \in Refunds, NEW amount \in 1..Net, remote[p].captured,
         remote' = [remote EXCEPT ![p].refunds[r] = amount],
         UNCHANGED <<now, row, sub, history, granted, slow, missed, raced>>
  PROVE  /\ Provider(p) /\ Grows(p)
         /\ remote'[p].refunds = [remote[p].refunds EXCEPT ![r] = amount]
         /\ remote'[p].refunds[r] = amount /\ amount # 0
<1>1. remote \in [Payments -> Remote] /\ remote[p] \in Remote /\ Taken(p)
  BY DEF Core, Types
<1>2. PICK f : f = [remote[p].refunds EXCEPT ![r] = amount]
  OBVIOUS
<1>3. PICK y : y = [remote[p] EXCEPT !.refunds = f]
  OBVIOUS
<1>4. remote' = [remote EXCEPT ![p] = y]
  BY <1>1, <1>2, <1>3
<1>5. amount \in Nat /\ amount # 0
  BY Constants
<1>6. f \in [Refunds -> Nat] /\ f[r] = amount /\ \A i \in Refunds \ {r} : f[i] = remote[p].refunds[i]
  BY <1>1, <1>2, <1>5, RemoteTyped
<1>7. y \in Remote /\ y.kind = remote[p].kind /\ y.captured = remote[p].captured /\ y.refunds = f
  BY <1>1, <1>3, <1>6 DEF Remote
<1>8. Provider(p) /\ remote'[p] = y
  BY <1>1, <1>4, <1>7 DEF Provider
<1>9. y.captured
  BY <1>7
<1>10. y # Unpaid
  BY <1>9 DEF Unpaid
<1>11. Kept(p)
  BY <1>5, <1>6, <1>7, <1>8, <1>9, <1>10 DEF Kept
<1>12. Grows(p)
  BY <1>1, <1>7, <1>8, <1>9, <1>10, <1>11 DEF Grows, Taken
<1> QED BY <1>2, <1>5, <1>6, <1>7, <1>8, <1>12

LEMMA RefundAtProviderKeeps ==
  ASSUME Core, NEW p \in Payments, NEW r \in Refunds, NEW amount \in 1..Net,
         RefundAtProvider(p, r, amount)
  PROVE  Core'
<1>1. /\ remote[p].captured /\ remote' = [remote EXCEPT ![p].refunds[r] = amount]
      /\ UNCHANGED <<now, row, sub, history, task, granted, slow, missed, raced>>
  BY DEF RefundAtProvider, Refundable, ghosts
<1>2. Provider(p) /\ Grows(p)
  BY <1>1, RefundGrows
<1>3. \A t \in Slots : task[t].p = p => task[t].pc \notin Making
  <2>1. ASSUME NEW t \in Slots, task[t].p = p, task[t].pc \in Making PROVE FALSE
    <3>1. remote[p] = Unpaid
      BY <2>1, Here DEF Fits, Making
    <3> QED BY <1>1, <3>1 DEF Unpaid
  <2> QED BY <2>1
<1> QED BY <1>1, <1>2, <1>3, ProviderKeeps

\* A task that ends while the provider's side of its payment changes.
LEMMA ProviderEnd ==
  ASSUME Core, NEW s \in Slots, Done(s), NEW p \in Payments, Provider(p), Grows(p), Quiet(s, p)
  PROVE  Core'
<1>1. PICK n : n = After(task[s])
  OBVIOUS
<1>2. Do(s, n)
  BY <1>1, DoneIs
<1>3. /\ n \in Task /\ n.p = 0 /\ n.sweep = task[s].sweep /\ Begun(n, now) /\ Fits(n)
      /\ Hand(n) \subseteq Hand(task[s]) /\ ~Ready(n)
  BY <1>1, EndFits
<1>4. n.pc \in {"sweep", "idle"}
  BY <1>1, Here, Ends
<1>5. Fits(n)'
  BY <1>3, <1>4 DEF Fits, Acting, Judging
<1>6. n.sweep => task[s].sweep
  BY <1>3, Zenon
<1>7. n.p \in {0, p} /\ n.pc \notin Making
  BY <1>3, <1>4 DEF Making
<1> QED BY <1>2, <1>3, <1>5, <1>6, <1>7, ProviderMove, Zenon

LEMMA CreateOrderKeeps ==
  ASSUME Core, NEW s \in Slots, NEW ok \in BOOLEAN, CreateOrder(s, ok)
  PROVE  Core'
<1>1. task[s].pc = "order" /\ Fits(task[s])
  BY Here DEF CreateOrder, At
<1>2. PICK p \in Payments : p = task[s].p
  BY <1>1, Subject DEF About
<1>3. /\ row[p].status = "created" /\ remote[p] = Unpaid /\ p \notin Charges /\ Taken(p)
      /\ row \in [Payments -> Row] /\ row[p] \in Row
      /\ remote \in [Payments -> Remote] /\ remote[p] \in Remote
  BY <1>1, <1>2, Subject DEF Fits, About
<1>4. Quiet(s, p)
  BY <1>1, <1>2, NotMaking DEF Making
<1>5. UNCHANGED <<now, sub, history, granted, slow, missed, raced>> /\ Done(s)
  BY DEF CreateOrder, ghosts
<1>6. CASE ok
  <2>1. PICK y : y = [remote[p] EXCEPT !.kind = "order"]
    OBVIOUS
  <2>2. remote' = [remote EXCEPT ![p] = y] /\ UNCHANGED row
    BY <1>2, <1>3, <1>6, <2>1 DEF CreateOrder
  <2>3. y \in Remote /\ y.kind = "order" /\ y.captured = remote[p].captured /\ y.refunds = remote[p].refunds
    BY <1>3, <2>1 DEF Remote
  <2>4. Provider(p) /\ remote'[p] = y
    BY <1>3, <1>5, <2>2, <2>3 DEF Provider
  <2>5. y # Unpaid
    BY <2>3 DEF Unpaid
  <2>6. remote[p].kind # "charge" /\ remote[p].captured = FALSE /\ \A r \in Refunds : remote[p].refunds[r] = 0
    BY <1>3 DEF Unpaid
  <2>7. Kept(p)
    BY <2>4, <2>5, <2>6 DEF Kept, Provider
  <2>8. Grows(p)
    BY <2>3, <2>4, <2>5, <2>6, <2>7 DEF Grows
  <2> QED BY <1>4, <1>5, <2>4, <2>8, ProviderEnd, Zenon
<1>7. CASE ~ok
  <2>1. PICK x : x = [row[p] EXCEPT !.status = "failed"]
    OBVIOUS
  <2>2. row' = [row EXCEPT ![p] = x] /\ UNCHANGED remote
    BY <1>2, <1>3, <1>7, <2>1 DEF CreateOrder
  <2>3. x \in Row /\ x.status = "failed" /\ x.end = row[p].end
    BY <1>3, <2>1 DEF Row, Statuses
  <2>4. row[p].status \in Unsettled /\ x.status \in Unsettled
    BY <1>3, <2>3 DEF Unsettled
  <2>5. x.end = 0
    BY <1>3, <2>3, <2>4 DEF Taken
  <2>6. Sound(p, x) /\ SetsRow(p, x)
    BY <1>5, <2>2, <2>3, <2>4, <2>5 DEF Sound, SetsRow
  <2> QED BY <1>4, <1>5, <2>6, RowEnd, Zenon
<1> QED BY <1>6, <1>7

LEMMA ProviderRefundsKeeps ==
  ASSUME Core, NEW s \in Slots, NEW amount \in 1..Net, ProviderRefunds(s, amount)
  PROVE  Core'
<1>1. task[s].pc = "ask" /\ task[s] \in Task /\ Fits(task[s]) /\ Begun(task[s], now)
      /\ "refund" \in Labels
  BY Here DEF ProviderRefunds, At, Labels
<1>2. PICK p \in Payments, r \in Refunds : p = task[s].p /\ r = task[s].event[2]
  BY <1>1 DEF Begun, About
<1>3. UNCHANGED <<now, row, sub, history, granted, slow, missed, raced>>
  BY DEF ProviderRefunds, ghosts
<1>4. CASE Refundable(p, r, amount) /\ amount <= Net - row[p].refunded
  <2>1. remote[p].captured /\ remote' = [remote EXCEPT ![p].refunds[r] = amount] /\ Goto(s, "refund")
    BY <1>2, <1>4 DEF ProviderRefunds, Refundable
  <2>2. Provider(p) /\ Grows(p) /\ remote'[p].refunds[r] # 0
    BY <1>3, <2>1, RefundGrows
  <2>3. PICK n : n = [task[s] EXCEPT !.pc = "refund"]
    OBVIOUS
  <2>4. Do(s, n)
    BY <2>1, <2>3, Zenon DEF Goto, Do
  <2>5. /\ n \in Task /\ n.pc = "refund" /\ n.p = p /\ n.at = task[s].at /\ n.event = task[s].event
        /\ n.sweep = task[s].sweep /\ n.left = task[s].left
    BY <1>1, <1>2, <2>3, Turned
  <2>6. Fits(n)'
    BY <1>1, <1>2, <2>2, <2>5 DEF Fits, Acting, Judging
  <2>7. Begun(n, now)
    BY <1>1, <1>2, <2>5 DEF Begun
  <2>8. Hand(n) \subseteq Hand(task[s]) /\ ~Ready(n) /\ n.p \in {0, p} /\ n.pc \notin Making
    BY <2>5 DEF Hand, Ready, Acting, Judging, Making
  <2>9. n.sweep => task[s].sweep
    BY <2>5, Zenon
  <2>10. Quiet(s, p)
    <3>1. remote[p] # Unpaid
      BY <2>1 DEF Unpaid
    <3> QED BY <3>1, NotMaking
  <2> QED BY <2>2, <2>4, <2>5, <2>6, <2>7, <2>8, <2>9, <2>10, ProviderMove, Zenon
<1>5. CASE ~(Refundable(p, r, amount) /\ amount <= Net - row[p].refunded)
  <2>1. Done(s) /\ UNCHANGED remote
    BY <1>2, <1>5 DEF ProviderRefunds
  <2> QED BY <1>3, <2>1, EndMove DEF ghosts
<1> QED BY <1>4, <1>5

-----------------------------------------------------------------------------
\* A refund is written on the row of its payment.
LEMMA ApplyRefundKeeps ==
  ASSUME Core, NEW s \in Slots, ApplyRefund(s)
  PROVE  Core'
<1>1. task[s].pc = "refund" /\ task[s] \in Task /\ now \in Nat /\ Fits(task[s]) /\ Begun(task[s], now)
      /\ "compare" \in Labels
  BY Here DEF ApplyRefund, At, Labels
<1>2. PICK p \in Payments, r \in Refunds : p = task[s].p /\ r = task[s].event[2]
  BY <1>1 DEF Begun, About
<1>3. /\ row \in [Payments -> Row] /\ row[p] \in Row /\ remote[p] \in Remote /\ Taken(p)
      /\ remote[p].refunds[r] # 0
  BY <1>1, <1>2, Subject DEF About, Fits
<1>4. UNCHANGED <<now, sub, history, remote, granted, slow, missed, raced>>
  BY DEF ApplyRefund, ghosts
<1>5. CASE AlreadyApplied(s)
  <2>1. Done(s) /\ UNCHANGED row
    BY <1>5 DEF ApplyRefund
  <2> QED BY <1>4, <2>1, EndMove DEF ghosts
<1>6. CASE ~AlreadyApplied(s)
  <2>0. PICK new : new = IF task[s].event[1] = "admin" THEN {} ELSE Marked(s)
    OBVIOUS
  <2>1. PICK marks : marks = row[p].events \cup new
    OBVIOUS
  <2>2. PICK ids : ids = row[p].refundIds \cup {r}
    OBVIOUS
  <2>3. PICK sum : sum = RefundedBy(s)
    OBVIOUS
  <2>4. PICK status \in {"refunded", "partially_refunded"} :
          status = IF sum = Net THEN "refunded" ELSE "partially_refunded"
    OBVIOUS
  <2>5. PICK x : x = [row[p] EXCEPT !.refunded = sum, !.refundIds = ids, !.events = marks,
                                    !.touched = now, !.status = status]
    OBVIOUS
  <2>6. row' = [row EXCEPT ![p] = x]
    <3>1. row' = [row EXCEPT ![p].refunded = sum, ![p].refundIds = @ \cup {r}, ![p].events = @ \cup new,
                             ![p].touched = now, ![p].status = status]
      BY <1>2, <1>6, <2>0, <2>3, <2>4, Zenon DEF ApplyRefund
    <3> QED BY <1>3, <2>1, <2>2, <2>5, <3>1
  <2>7. marks \subseteq Events
    <3>1. Marked(s) \subseteq Events
      BY <1>1, TaskTyped DEF Marked
    <3>2. row[p].events \subseteq Events
      BY <1>3, RowTyped
    <3> QED BY <2>0, <2>1, <3>1, <3>2
  <2>8. sum \in Nat
    <3>1. row[p].refunded \in Nat /\ remote[p].refunds[r] \in Nat
      BY <1>3, RowTyped, RemoteTyped
    <3> QED BY <1>2, <2>3, <3>1, Constants DEF RefundedBy, Payment
  <2>9. ids \subseteq Refunds
    BY <1>3, <2>2, RowTyped
  <2>10. x \in Row /\ x.status = status /\ x.end = row[p].end /\ x.linked = row[p].linked
    BY <1>1, <1>3, <2>5, <2>7, <2>8, <2>9 DEF Row, Statuses
  <2>11. x.status \notin Unsettled /\ remote[p].captured /\ (x.end # 0 => x.linked)
    BY <1>3, <2>10 DEF Unsettled, Taken
  <2>12. Sound(p, x) /\ SetsRow(p, x)
    BY <1>4, <2>6, <2>10, <2>11 DEF Sound, SetsRow
  <2>13. Quiet(s, p)
    <3>1. remote[p] # Unpaid
      BY <2>11 DEF Unpaid
    <3> QED BY <3>1, NotMaking
  <2>14. CASE Done(s)
    BY <2>12, <2>13, <2>14, RowEnd, Zenon
  <2>15. CASE Goto(s, "compare")
    <3>1. PICK n : n = [task[s] EXCEPT !.pc = "compare"]
      OBVIOUS
    <3>2. Do(s, n)
      BY <2>15, <3>1, Zenon DEF Goto, Do
    <3>3. /\ n \in Task /\ n.pc = "compare" /\ n.p = p /\ n.at = task[s].at
          /\ n.sweep = task[s].sweep /\ n.left = task[s].left
      BY <1>1, <1>2, <3>1, Turned
    <3>4. Fits(n)'
      BY <1>1, <3>3 DEF Fits, Acting, Judging
    <3>5. Begun(n, now)
      BY <1>1, <1>2, <3>3 DEF Begun
    <3>6. Hand(n) \subseteq Hand(task[s]) /\ ~Ready(n) /\ n.p \in {0, p} /\ n.pc \notin {"insert"} /\ n.pc # "order"
      BY <3>3 DEF Hand, Ready, Acting, Judging
    <3>7. n.sweep => task[s].sweep
      BY <3>3, Zenon
    <3>8. Grasp(s, n, p, x)
      BY <3>6, <3>7, Zenon DEF Grasp
    <3> QED BY <2>12, <2>13, <3>2, <3>3, <3>4, <3>5, <3>8, RowMove, Zenon
  <2> QED BY <1>6, <2>14, <2>15 DEF ApplyRefund
<1> QED BY <1>5, <1>6

\* A webhook: an amount nobody authorised is flagged, all else is a task.
LEMMA WebhookKeeps ==
  ASSUME Core, NEW s \in Slots, NEW p \in Payments, NEW e \in Sent(p), Webhook(s, p, e)
  PROVE  Core'
<1>1. Open(s) /\ UNCHANGED <<now, sub, history, remote, granted, slow, missed, raced>>
  BY DEF Webhook, ghosts
<1>2. row \in [Payments -> Row] /\ row[p] \in Row /\ Taken(p)
  BY DEF Core, Types
<1>3. /\ e \in Events /\ e[2] \in Refunds \cup {""} /\ remote[p] # Unpaid
      /\ e[1] = "captured" => remote[p].captured
      /\ e[1] \notin {"captured", "failed"} => e[2] \in Refunds /\ remote[p].refunds[e[2]] # 0
  BY SentTyped
<1>4. CASE e[1] = "captured" /\ remote[p].odd
  <2>1. row' = [row EXCEPT ![p].flagged = TRUE] /\ UNCHANGED task
    BY <1>4 DEF Webhook
  <2>2. PICK x : x = [row[p] EXCEPT !.flagged = TRUE]
    OBVIOUS
  <2>3. row' = [row EXCEPT ![p] = x]
    BY <1>2, <2>1, <2>2
  <2>4. x \in Row /\ x.status = row[p].status /\ x.end = row[p].end /\ x.linked = row[p].linked
    BY <1>2, <2>2 DEF Row
  <2>5. Sound(p, x) /\ SetsRow(p, x)
    BY <1>1, <1>2, <2>3, <2>4 DEF Sound, SetsRow, Taken
  <2>6. PICK n : n = task[s]
    OBVIOUS
  <2>7. n \in Task /\ Begun(n, now) /\ Fits(n) /\ n.pc = "idle" /\ n = Idle
    BY <1>1, <2>6, Here, OpenSlot DEF Begun
  <2>8. Do(s, n)
    BY <2>1, <2>6, Here DEF Do
  <2>9. Fits(n)'
    BY <2>7 DEF Fits, Acting, Judging
  <2>10. n.p \in {0, p} /\ ~Ready(n) /\ n.pc \notin {"insert"} /\ n.pc # "order"
    BY <2>7, Blank DEF Ready
  <2>11. Hand(n) \subseteq Hand(task[s]) /\ (n.sweep => task[s].sweep)
    BY <2>6
  <2>12. Grasp(s, n, p, x)
    BY <2>10, <2>11, Zenon DEF Grasp
  <2>13. Quiet(s, p)
    BY <1>3, NotMaking
  <2> QED BY <2>5, <2>7, <2>8, <2>9, <2>12, <2>13, RowMove, Zenon
<1>5. CASE ~(e[1] = "captured" /\ remote[p].odd)
  <2>1. PICK l : l = CASE e[1] = "captured" -> "claim" [] e[1] = "failed" -> "fail" [] OTHER -> "refund"
    OBVIOUS
  <2>2. PICK n : n = [Idle EXCEPT !.p = p, !.at = now, !.end = row[p].end, !.event = e, !.pc = l]
    OBVIOUS
  <2>3. Do(s, n) /\ UNCHANGED row
    BY <1>5, <2>1, <2>2, Zenon DEF Webhook, Do
  <2>4. l \in {"claim", "fail", "refund"} /\ l \in Labels /\ row[p].end \in Nat
    BY <1>2, <2>1, RowTyped DEF Labels
  <2>5. n \in Task /\ Fresh(n) /\ n.pc = l /\ n.p = p /\ n.event = e
    BY <1>3, <2>2, <2>4, Blank DEF Task, Fresh
  <2>6. /\ l = "claim" => e[1] = "captured"
        /\ l = "refund" => e[1] \notin {"captured", "failed"}
    BY <2>1
  <2> QED BY <1>1, <1>3, <2>3, <2>4, <2>5, <2>6, OpenSlot, NewMoves DEF ghosts
<1> QED BY <1>4, <1>5

-----------------------------------------------------------------------------
\* A checkout begins for a payment nobody is about.
LEMMA QuoteKeeps ==
  ASSUME Core, NEW s \in Slots, NEW p \in Payments, Quote(s, p)
  PROVE  Core'
<1>1. Open(s) /\ p \notin Charges /\ row[p] = NoRow /\ remote[p] = Unpaid
      /\ (\A t \in Slots : task[t].p # p) /\ Begin(s, "insert", p)
      /\ UNCHANGED <<now, row, sub, history, remote, granted, slow, missed, raced>>
  BY DEF Quote, ghosts
<1>2. PICK n : n = [Idle EXCEPT !.pc = "insert", !.p = p, !.at = now]
  OBVIOUS
<1>3. Do(s, n)
  BY <1>1, <1>2, Zenon DEF Begin, Do
<1>4. "insert" \in Labels
  BY DEF Labels
<1>5. n \in Task /\ Fresh(n) /\ n.pc = "insert" /\ n.p = p
  BY <1>2, <1>4, Blank DEF Task, Fresh
<1>6. n.left = {} /\ n.sweep = FALSE /\ n.at = now /\ now \in Nat
  BY <1>5, Blank DEF Fresh
<1>7. task' \in [Slots -> Task] /\ n = task'[s] /\ OthersStay(s)
  BY <1>3, <1>5, Here, DoStays
<1>8. Begun(n, now)
  BY <1>5, <1>6 DEF Begun, About
<1>9. Fits(n)'
  BY <1>1, <1>5, <1>6 DEF Fits, Acting, Judging
<1>10. Types'
  BY <1>1, <1>7, <1>8, Here, TypesMove DEF Core, Types
<1>11. Granted'
  BY <1>1, PlanStays
<1>12. Taken(p) /\ Once(p)
  BY DEF Core
<1>13. OthersSame(p) /\ Kept(p) /\ Leaves(p)
  BY <1>1, <1>12 DEF OthersSame, Kept, Leaves, Taken
<1>14. Hand(n) = {} /\ ~Ready(n)
  BY <1>5, <1>6 DEF Hand, Ready, Acting, Judging
<1>15. p \notin slow' \cup missed' => granted'[p] <= 1
  BY <1>1, <1>12 DEF Once
<1> QED BY <1>1, <1>5, <1>6, <1>7, <1>9, <1>10, <1>11, <1>13, <1>14, <1>15, PayMove

\* The subscription is written, and the payment has its period.
LEMMA WritePlanKeeps ==
  ASSUME Core, NEW s \in Slots, WritePlan(s)
  PROVE  Core'
<1>1. task[s].pc = "write" /\ task[s] \in Task /\ Fits(task[s]) /\ Begun(task[s], now)
      /\ sub \in Sub /\ granted \in [Payments -> Nat]
  BY Here DEF WritePlan, At
<1>2. PICK p \in Payments : p = task[s].p
  BY <1>1, Subject DEF About, Acting
<1>3. p \in Hand(task[s]) /\ Ready(task[s])
  BY <1>1, <1>2 DEF Hand, Ready, Acting
<1>4. PICK n : n = [task[s] EXCEPT !.pc = "history", !.stale = FALSE]
  OBVIOUS
<1>5. PICK saved : saved = Applied(task[s], PlanOf[task[s].p])
  OBVIOUS
<1>6. Save(s, saved, n) /\ UNCHANGED <<now, row, history, remote, slow, missed>>
  BY <1>4, <1>5, Zenon DEF WritePlan
<1>7. granted' = [granted EXCEPT ![p] = @ + 1]
  BY <1>2, Zenon DEF WritePlan
<1>8. /\ n \in Task /\ n.pc = "history" /\ n.p = p /\ n.at = task[s].at
      /\ n.sweep = task[s].sweep /\ n.left = task[s].left
  BY <1>1, <1>2, <1>4 DEF Task, Labels
<1>9. saved \in Sub /\ saved.plan \in Paid
  <2>1. task[s].at \in Nat /\ task[s].end \in Nat /\ PlanOf[task[s].p] \in Paid
    BY <1>1, <1>2, TaskTyped, BillingShape
  <2> QED BY <1>1, <1>5, <2>1 DEF Applied, Sub
<1>10. task' \in [Slots -> Task] /\ n = task'[s] /\ OthersStay(s) /\ sub' = saved /\ raced' \in BOOLEAN
  BY <1>6, <1>8, Here, SaveStays, Zenon
<1>11. Begun(n, now)
  BY <1>1, <1>2, <1>8 DEF Begun
<1>12. /\ granted' \in [Payments -> Nat] /\ granted'[p] = granted[p] + 1 /\ granted[p] \in Nat
       /\ \A q \in Payments \ {p} : granted'[q] = granted[q]
  BY <1>1, <1>7
<1>13. Types'
  BY <1>6, <1>9, <1>10, <1>11, <1>12, Here, TypesMove DEF Core, Types
<1>14. Granted'
  <2>1. \A q \in history' : granted'[q] > 0
    BY <1>6, <1>12, Here DEF Core, Granted
  <2> QED BY <1>9, <1>10, <2>1 DEF Granted
<1>15. Taken(p) /\ Once(p)
  BY DEF Core
<1>16. row[p].status \notin Unsettled
  BY <1>3, HandSettled
<1>17. OthersSame(p) /\ Kept(p) /\ Leaves(p)
  BY <1>6, <1>12, <1>15, <1>16 DEF OthersSame, Kept, Leaves, Taken
<1>18. p \notin task[s].left /\ (task[s].left # {} => task[s].sweep)
  BY <1>1, <1>2 DEF Fits, Acting
<1>19. Fits(n)'
  BY <1>8, <1>12, <1>18 DEF Fits, Acting, Judging
<1>20. Hand(n) \subseteq Hand(task[s]) /\ ~Ready(n)
  BY <1>1, <1>8, <1>2 DEF Hand, Ready, Acting
<1>21. \A q \in Hand(n) :
        /\ row'[q].status \notin Unsettled
        /\ \/ q \in Hand(task[s]) \/ q \in slow' \cup missed'
           \/ \A t \in Slots : t # s => q \notin Hand(task[t])
  BY <1>6, <1>20, HandSettled
<1>22. p \notin slow' \cup missed' => granted'[p] <= 1
  BY <1>2, <1>3, <1>6, <1>12, <1>15 DEF Once
<1>23. \A t \in Slots : t # s /\ task[t].p = p => task[t].pc \notin Making
  <2>1. remote[p] # Unpaid
    BY <1>15, <1>16 DEF Taken, Unpaid
  <2> QED BY <2>1, NotMaking DEF Quiet
<1>24. (n.sweep => task[s].sweep) /\ n.pc \notin Making
  BY <1>8, Zenon DEF Making
<1> QED BY <1>3, <1>6, <1>8, <1>10, <1>13, <1>14, <1>17, <1>19, <1>20, <1>21, <1>22, <1>23, <1>24, PayMove

\* A sweep takes the stuck payments, those that are being activated too.
LEMMA SweepKeeps ==
  ASSUME Core, NEW s \in Slots, Sweep(s)
  PROVE  Core'
<1>1. PICK stuck : stuck = {q \in Payments : Stuck(q)}
  OBVIOUS
<1>2. PICK n : n = [Idle EXCEPT !.pc = "sweep", !.at = now, !.sweep = TRUE, !.left = stuck]
  OBVIOUS
<1>3. Do(s, n) /\ slow' = slow \cup {q \in stuck : Activating(q)}
      /\ UNCHANGED <<now, row, sub, history, remote, granted, missed, raced>>
  BY <1>1, <1>2, Zenon DEF Sweep, Do
<1>4. \A t \in Slots : ~task[t].sweep
  BY DEF Sweep
<1>5. n \in Task /\ n.pc = "sweep" /\ n.p = 0 /\ n.at = now /\ n.sweep /\ n.left = stuck /\ now \in Nat
  BY <1>1, <1>2, Blank DEF Task, Labels
<1>6. task' \in [Slots -> Task] /\ n = task'[s] /\ OthersStay(s)
  BY <1>3, <1>5, Here, DoStays
<1>7. PICK p \in Payments : p \in stuck
  BY <1>1 DEF Sweep
<1>8. Begun(n, now)
  BY <1>5 DEF Begun, About, Acting, Judging
<1>9. Types'
  BY <1>3, <1>6, <1>8, Here, TypesMove DEF Core, Types
<1>10. Granted'
  BY <1>3, PlanStays
<1>11. Taken(p) /\ Once(p)
  BY DEF Core
<1>12. OthersSame(p) /\ Kept(p) /\ Leaves(p)
  BY <1>3, <1>11 DEF OthersSame, Kept, Leaves, Taken
<1>13. Fits(n)'
  BY <1>5 DEF Fits, Acting, Judging
<1>14. \A q \in Hand(n) :
        /\ row'[q].status \notin Unsettled
        /\ \/ q \in Hand(task[s]) \/ q \in slow' \cup missed'
           \/ \A t \in Slots : t # s => q \notin Hand(task[t])
  <2> SUFFICES ASSUME NEW q \in Hand(n)
               PROVE  /\ row[q].status \notin Unsettled
                      /\ q \in slow' \/ \A t \in Slots : q \notin Hand(task[t])
    BY <1>3
  <2>1. q \in stuck /\ Stuck(q)
    BY <1>1, <1>5 DEF Hand, Acting, Judging
  <2>2. row[q].status \notin Unsettled
    BY <2>1 DEF Stuck, Unsettled
  <2>3. ASSUME NEW t \in Slots, q \in Hand(task[t]) PROVE Activating(q)
    <3>1. Fits(task[t])
      BY Here
    <3>2. task[t].left = {} /\ task[t].pc \notin Judging
      BY <1>4, <3>1 DEF Fits
    <3> QED BY <2>3, <3>2 DEF Hand, Activating, Acting
  <2> QED BY <1>3, <2>1, <2>2, <2>3
<1>15. p \notin slow' \cup missed' => granted'[p] <= 1
  BY <1>3, <1>11 DEF Once
<1>16. \A t \in Slots : t # s /\ task[t].p = p => task[t].pc \notin Making
  <2>1. row[p].status = "captured"
    BY <1>1, <1>7 DEF Stuck
  <2> QED BY <2>1, NotMaking DEF Quiet
<1>17. ~Ready(n) /\ n.pc \notin Making
  BY <1>5 DEF Ready, Making
<1> QED BY <1>3, <1>4, <1>5, <1>6, <1>9, <1>10, <1>12, <1>13, <1>14, <1>15, <1>16, <1>17, PayMove

LEMMA TickKeeps ==
  ASSUME Core, Tick
  PROVE  Core'
<1>1. /\ UNCHANGED <<row, sub, history, remote, task, granted, slow, missed, raced>>
      /\ now < MaxTime /\ now' = now + 1
  BY DEF Tick, ghosts
<1>2. now \in 1..MaxTime /\ MaxTime \in Nat /\ task \in [Slots -> Task]
  BY Constants DEF Core, Types
<1>3. now \in Nat /\ now' \in Nat /\ now <= now' /\ now' \in 1..MaxTime
  BY <1>1, <1>2
<1>4. \A t \in Slots : Begun(task[t], now')
  <2>1. ASSUME NEW t \in Slots PROVE Begun(task[t], now')
    <3>1. task[t] \in Task /\ Begun(task[t], now) /\ SameTask(task[t], task[t])
      BY Here DEF SameTask
    <3> QED BY <1>3, <3>1, BegunStays
  <2> QED BY <2>1
<1>5. Types'
  BY <1>1, <1>3, <1>4 DEF Core, Types
<1>6. Alone' /\ OneSweep' /\ Granted' /\ (\A t \in Slots : Fits(task[t]))'
  BY <1>1 DEF Core, Alone, OneSweep, Granted, Fits
<1>7. ASSUME NEW p \in Payments PROVE Taken(p)' /\ Once(p)'
  <2>1. Taken(p) /\ Once(p)
    BY DEF Core
  <2> QED BY <1>1, <2>1 DEF Taken, Once, Hand, Ready
<1> QED BY <1>5, <1>6, <1>7 DEF Core

-----------------------------------------------------------------------------
LEMMA StepKeeps ==
  ASSUME Core, NEW s \in Slots, Step(s)
  PROVE  Core'
<1>1. CASE InsertRow(s) \/ (\E ok \in BOOLEAN : CreateOrder(s, ok)) \/ Claim(s) \/ FailPayment(s)
           \/ RecordCharge(s)
  BY <1>1, InsertRowKeeps, CreateOrderKeeps, ClaimKeeps, FailPaymentKeeps, RecordChargeKeeps
<1>2. CASE ReadPlan(s) \/ ReadPeriod(s) \/ WritePlan(s) \/ (\E ok \in BOOLEAN : WriteHistory(s, ok)) \/ AddBonus(s) \/ LinkPayment(s)
  BY <1>2, ReadPlanKeeps, ReadPeriodKeeps, WritePlanKeeps, WriteHistoryKeeps, AddBonusKeeps,
     LinkPaymentKeeps
<1>3. CASE NextStuck(s) \/ FindHistory(s) \/ GuessApplied(s) \/ Backfill(s)
  BY <1>3, NextStuckKeeps, FindHistoryKeeps, GuessAppliedKeeps, BackfillKeeps
<1>4. CASE (\E amount \in 1..Net : ProviderRefunds(s, amount)) \/ ApplyRefund(s) \/ ComparePeriod(s) \/ Cancel(s)
  BY <1>4, ProviderRefundsKeeps, ApplyRefundKeeps, ComparePeriodKeeps, CancelKeeps
<1>5. CASE SaveCancel(s) \/ Reactivate(s) \/ (\E plan \in Paid : StartTrial(s, plan)) \/ GrantFreeDays(s)
  BY <1>5, SavesKeep
<1> QED BY <1>1, <1>2, <1>3, <1>4, <1>5, Zenon DEF Step

LEMMA CoreStep ==
  ASSUME Core, [Next]_vars
  PROVE  Core'
<1>1. CASE UNCHANGED vars
  BY <1>1 DEF vars, Core, Types, Alone, OneSweep, Granted, Taken, Once, Fits, Hand, Ready
<1>2. CASE Tick
  BY <1>2, TickKeeps
<1>3. ASSUME NEW p \in Payments,
             \/ \E ok, odd \in BOOLEAN : Attempt(p, ok, odd)
             \/ \E odd \in BOOLEAN : Debit(p, odd)
             \/ \E r \in Refunds, amount \in 1..Net : RefundAtProvider(p, r, amount)
      PROVE  Core'
  BY <1>3, AttemptKeeps, DebitKeeps, RefundAtProviderKeeps
<1>4. ASSUME NEW s \in Slots, NEW p \in Payments, Quote(s, p) \/ Verify(s, p) \/ ChargeSeen(s, p)
      PROVE  Core'
  BY <1>4, QuoteKeeps, VerifyKeeps, ChargeSeenKeeps
<1>5. ASSUME NEW s \in Slots, NEW p \in Payments,
             (\E e \in Sent(p) : Webhook(s, p, e)) \/ (\E r \in Refunds : AskRefund(s, p, r))
      PROVE  Core'
  BY <1>5, WebhookKeeps, AskRefundKeeps
<1>6. ASSUME NEW s \in Slots,
             \/ UserCancels(s) \/ UserReactivates(s) \/ UserTries(s) \/ RewardEarned(s)
             \/ Sweep(s) \/ Crash(s) \/ Step(s)
      PROVE  Core'
  BY <1>6, UserKeeps, SweepKeeps, CrashKeeps, StepKeeps
<1> QED BY <1>1, <1>2, <1>3, <1>4, <1>5, <1>6, Zenon DEF Next

LEMMA CoreInit ==
  ASSUME Init
  PROVE  Core
<1>1. Types
  BY TypesInit
<1>2. \A s \in Slots : task[s] = Idle
  BY DEF Init
<1>3. Idle.pc = "idle" /\ Idle.left = {} /\ Idle.sweep = FALSE
  BY DEF Idle
<1>4. \A s \in Slots : Fits(task[s]) /\ Hand(task[s]) = {} /\ ~Ready(task[s])
  BY <1>2, <1>3 DEF Fits, Hand, Ready, Acting, Judging
<1>5. Alone /\ OneSweep
  BY <1>2, <1>3 DEF Alone, OneSweep
<1>6. Granted
  BY DEF Granted, Init
<1>7. ASSUME NEW p \in Payments PROVE Taken(p) /\ Once(p)
  <2>1. row[p] = NoRow /\ remote[p] = Unpaid /\ granted[p] = 0
    BY DEF Init
  <2>2. NoRow.status = "none" /\ NoRow.end = 0
    BY DEF NoRow
  <2>3. Unpaid.kind = "none" /\ \A r \in Refunds : Unpaid.refunds[r] = 0
    BY DEF Unpaid
  <2>4. Taken(p)
    BY <1>4, <2>1, <2>2, <2>3 DEF Taken, Unsettled
  <2>5. Once(p)
    BY <1>4, <2>1 DEF Once
  <2> QED BY <2>4, <2>5
<1> QED BY <1>1, <1>4, <1>5, <1>6, <1>7 DEF Core

\* The inductive invariant: only money that was taken is activated, by one task at a
\* time, which finds the payment without a period unless the sweep was too early or
\* the activation of a charge left no history row.
THEOREM CoreAlways == Spec => []Core
<1>1. Init => Core
  BY CoreInit
<1>2. Core /\ [Next]_vars => Core'
  BY CoreStep
<1> QED BY <1>1, <1>2, PTL DEF Spec

\* A captured payment buys one period, whoever confirms it and however often, in
\* every interleaving of requests, webhooks, sweeps and crashes.
THEOREM OnePeriodAlways == Spec => []OnePeriodPerPayment
<1>1. Core => OnePeriodPerPayment
  BY DEF Core, Once, OnePeriodPerPayment
<1> QED BY <1>1, CoreAlways, PTL

-----------------------------------------------------------------------------
(***************************************************************************)
(* What the tasks know of the subscription.                                *)
(***************************************************************************)
Watched == {"extend", "write", "history", "bonus", "trial", "free"}

\* A task whose copy nobody changed since it read it still holds what it read.
Steady(m) ==
  ~m.stale =>
    /\ m.pc = "extend" => (m.renew <=> sub.plan = PlanOf[m.p])
    /\ m.pc = "write" /\ sub.plan = PlanOf[m.p] /\ sub.end > m.at => m.end = sub.end + Period
    /\ m.pc \in {"history", "bonus"} => m.end = sub.end /\ sub.status = "active"
    /\ m.pc = "trial" => sub.end = 0 \/ sub.status = "trialing" \/ Ended(m.at)
    /\ m.pc = "free" => /\ m.renew <=> sub.end > m.at
                        /\ m.end = (IF sub.end > m.at THEN sub.end ELSE m.at) + FreeDays

\* Only a plan has a period, a trial has none, and a reward is added to one that runs.
PeriodFits ==
  /\ sub.plan = "free" => sub.end = 0
  /\ raced \/ (sub.status = "trialing" => sub.end = 0)
Extends(m) == m.pc = "free" /\ m.renew => sub.plan \in Paid

Plans ==
  /\ PeriodFits
  /\ \A s \in Slots : Steady(task[s]) /\ Extends(task[s])

LEMMA PlansInit ==
  ASSUME Init
  PROVE  Plans
<1>1. sub.end = 0
  BY DEF Init
<1>2. \A s \in Slots : task[s].pc = "idle"
  BY DEF Init, Idle
<1> QED BY <1>1, <1>2 DEF Plans, PeriodFits, Steady, Extends

\* A step that leaves the subscription, and a task that is about it or knows it.
LEMMA SubStays ==
  ASSUME Plans, UNCHANGED <<sub, raced>>, NEW s \in Slots,
         \A t \in Slots : t # s => task'[t] = task[t],
         NEW n, n = task'[s], n.pc \notin Watched \/ (Steady(n) /\ Extends(n))
  PROVE  Plans'
<1>1. PeriodFits'
  BY DEF Plans, PeriodFits
<1>2. Steady(n)' /\ Extends(n)'
  <2>1. CASE n.pc \notin Watched
    BY <2>1 DEF Steady, Extends, Watched
  <2>2. CASE Steady(n) /\ Extends(n)
    BY <2>2 DEF Steady, Extends, Ended
  <2> QED BY <2>1, <2>2
<1>3. ASSUME NEW t \in Slots PROVE Steady(task[t])' /\ Extends(task[t])'
  <2>1. CASE t = s
    BY <1>2, <2>1 DEF Steady, Extends, Ended
  <2>2. CASE t # s
    <3>1. Steady(task[t]) /\ Extends(task[t])
      BY DEF Plans
    <3> QED BY <2>2, <3>1 DEF Steady, Extends, Ended
  <2> QED BY <2>1, <2>2
<1> QED BY <1>1, <1>3 DEF Plans

\* A step that saves the subscription: who held a copy holds an old one.
LEMMA SubSaved ==
  ASSUME Core, Plans, NEW s \in Slots, NEW n \in Task, NEW saved, Save(s, saved, n),
         saved.plan \in Paid \cup {sub.plan},
         saved.plan = "free" => saved.end = 0,
         task[s].stale \/ raced \/ (saved.status = "trialing" => saved.end = 0),
         (n.pc \notin Watched \/ (Steady(n) /\ Extends(n)))'
  PROVE  Plans'
<1>1. /\ task' \in [Slots -> Task] /\ task'[s] = n /\ sub' = saved
      /\ raced' = (raced \/ task[s].stale)
      /\ \A t \in Slots : t # s => SameTask(task'[t], task[t]) /\ Marks(task[t], task'[t])
  BY Here, SaveTyped
<1>2. PeriodFits'
  <2>1. raced' \/ (saved.status = "trialing" => saved.end = 0)
    BY <1>1, Here, TaskTyped
  <2> QED BY <1>1, <2>1 DEF PeriodFits
<1>3. Steady(n)' /\ Extends(n)'
  BY DEF Steady, Extends, Watched
<1>4. ASSUME NEW t \in Slots PROVE Steady(task[t])' /\ Extends(task[t])'
  <2>1. CASE t = s
    BY <1>1, <1>3, <2>1 DEF Steady, Extends, Ended
  <2>2. CASE t # s
    <3>1. Extends(task[t]) /\ task[t].stale \in BOOLEAN
      BY Here, TaskTyped DEF Plans
    <3>2. SameTask(task'[t], task[t]) /\ Marks(task[t], task'[t])
      BY <1>1, <2>2
    <3>3. Extends(task[t])'
      BY <1>1, <3>1, <3>2 DEF Extends, SameTask
    <3>4. CASE task[t].pc \in Holding
      <4>1. task'[t].stale
        BY <3>2, <3>4, Zenon DEF Marks
      <4> QED BY <3>3, <4>1 DEF Steady
    <3>5. CASE task[t].pc \notin Holding
      <4>1. task'[t].pc \notin Watched
        BY <3>2, <3>5 DEF SameTask, Watched, Holding
      <4> QED BY <3>3, <4>1 DEF Steady, Watched
    <3> QED BY <3>4, <3>5
  <2> QED BY <2>1, <2>2
<1> QED BY <1>2, <1>4 DEF Plans

\* Steps that leave the subscription, and whose task knows nothing of it after.
Calm(s) ==
  /\ UNCHANGED <<sub, raced>>
  /\ \/ UNCHANGED task
     \/ \E n : Do(s, n) /\ n.pc \notin Watched

LEMMA CalmKeeps ==
  ASSUME Core, Plans, NEW s \in Slots, Calm(s)
  PROVE  Plans'
<1>1. task \in [Slots -> Task]
  BY DEF Core, Types
<1>2. CASE UNCHANGED task
  <2>1. Steady(task[s]) /\ Extends(task[s])
    BY DEF Plans
  <2>2. UNCHANGED <<sub, raced>> /\ (\A t \in Slots : t # s => task'[t] = task[t]) /\ task'[s] = task[s]
    BY <1>2 DEF Calm
  <2> QED BY <2>1, <2>2, SubStays
<1>3. CASE \E n : Do(s, n) /\ n.pc \notin Watched
  <2>1. PICK n : Do(s, n) /\ n.pc \notin Watched
    BY <1>3
  <2>2. (\A t \in Slots : t # s => task'[t] = task[t]) /\ task'[s] = n
    BY <1>1, <2>1 DEF Do
  <2>3. UNCHANGED <<sub, raced>>
    BY DEF Calm
  <2> QED BY <2>1, <2>2, <2>3, SubStays
<1> QED BY <1>2, <1>3 DEF Calm

LEMMA DoneCalm ==
  ASSUME Core, NEW s \in Slots, Done(s)
  PROVE  \E n : Do(s, n) /\ n.pc \notin Watched
<1>1. PICK n : n = After(task[s])
  OBVIOUS
<1>2. n.pc \in {"sweep", "idle"}
  BY <1>1, Here, Ends
<1>3. Do(s, n)
  BY <1>1, DoneIs
<1> QED BY <1>2, <1>3 DEF Watched

LEMMA GotoCalm ==
  ASSUME Core, NEW s \in Slots, NEW l, l \notin Watched, Goto(s, l)
  PROVE  \E n : Do(s, n) /\ n.pc \notin Watched
<1>1. PICK n : n = [task[s] EXCEPT !.pc = l]
  OBVIOUS
<1>2. n.pc = l
  BY <1>1, Here DEF Task
<1>3. Do(s, n)
  BY <1>1, Zenon DEF Goto
<1> QED BY <1>2, <1>3

LEMMA BeginCalm ==
  ASSUME NEW s, NEW l, NEW p, l \notin Watched, Begin(s, l, p)
  PROVE  \E n : Do(s, n) /\ n.pc \notin Watched
<1>1. PICK n : n = [Idle EXCEPT !.pc = l, !.p = p, !.at = now]
  OBVIOUS
<1>2. n.pc = l
  BY <1>1 DEF Idle
<1>3. Do(s, n)
  BY <1>1, Zenon DEF Begin
<1> QED BY <1>2, <1>3

\* The steps of a payment that do not touch the subscription.
LEMMA QuietSteps ==
  ASSUME Core, NEW s \in Slots,
         \/ InsertRow(s) \/ (\E ok \in BOOLEAN : CreateOrder(s, ok)) \/ Claim(s) \/ FailPayment(s)
         \/ RecordCharge(s) \/ LinkPayment(s) \/ FindHistory(s) \/ GuessApplied(s)
         \/ (\E amount \in 1..Net : ProviderRefunds(s, amount)) \/ ApplyRefund(s)
  PROVE  Calm(s)
<1>1. UNCHANGED <<sub, raced>>
  BY Zenon DEF InsertRow, CreateOrder, Claim, FailPayment, RecordCharge, LinkPayment, FindHistory,
     GuessApplied, ProviderRefunds, ApplyRefund, ghosts
<1>2. Done(s) \/ \E l \in {"order", "first", "backfill", "guess", "refund", "compare"} : Goto(s, l)
  <2>1. CASE InsertRow(s) \/ (\E ok \in BOOLEAN : CreateOrder(s, ok)) \/ Claim(s) \/ FailPayment(s)
    BY <2>1, Zenon DEF InsertRow, CreateOrder, Claim, FailPayment
  <2>2. CASE RecordCharge(s) \/ LinkPayment(s) \/ ApplyRefund(s)
    BY <2>2, Zenon DEF RecordCharge, LinkPayment, ApplyRefund
  <2>3. CASE FindHistory(s) \/ GuessApplied(s) \/ (\E amount \in 1..Net : ProviderRefunds(s, amount))
    BY <2>3, Zenon DEF FindHistory, GuessApplied, ProviderRefunds
  <2> QED BY <2>1, <2>2, <2>3
<1>3. \A l \in {"order", "first", "backfill", "guess", "refund", "compare"} : l \notin Watched
  BY DEF Watched
<1>4. \E n : Do(s, n) /\ n.pc \notin Watched
  BY <1>2, <1>3, DoneCalm, GotoCalm
<1> QED BY <1>1, <1>4 DEF Calm

LEMMA QuietJobs ==
  ASSUME Core, NEW s \in Slots,
         NextStuck(s) \/ Backfill(s) \/ ComparePeriod(s) \/ Cancel(s) \/ Sweep(s) \/ Crash(s)
  PROVE  Calm(s)
<1>0. task[s] \in Task /\ Idle.pc = "idle"
  BY Here DEF Idle
<1>1. UNCHANGED <<sub, raced>>
  BY Zenon DEF NextStuck, Backfill, ComparePeriod, Cancel, Sweep, Crash, ghosts
<1>2. CASE NextStuck(s)
  <2>1. CASE task[s].left = {}
    BY <1>0, <1>1, <1>2, <2>1 DEF NextStuck, Calm, Watched
  <2>2. CASE task[s].left # {}
    <3>1. PICK p, left : Do(s, [task[s] EXCEPT !.pc = "judge", !.p = p, !.left = left])
      BY <1>2, <2>2, Zenon DEF NextStuck
    <3>2. [task[s] EXCEPT !.pc = "judge", !.p = p, !.left = left].pc = "judge"
      BY <1>0 DEF Task
    <3> QED BY <1>1, <3>1, <3>2 DEF Calm, Watched
  <2> QED BY <2>1, <2>2
<1>3. CASE Backfill(s)
  <2>1. Do(s, [task[s] EXCEPT !.pc = "link", !.end = sub.end])
    BY <1>3 DEF Backfill
  <2>2. [task[s] EXCEPT !.pc = "link", !.end = sub.end].pc = "link"
    BY <1>0 DEF Task
  <2> QED BY <1>1, <2>1, <2>2 DEF Calm, Watched
<1>4. CASE ComparePeriod(s)
  <2>1. Done(s) \/ Do(s, [task[s] EXCEPT !.pc = "cancel"])
    BY <1>4 DEF ComparePeriod
  <2>2. [task[s] EXCEPT !.pc = "cancel"].pc = "cancel"
    BY <1>0 DEF Task
  <2>3. \E n : Do(s, n) /\ n.pc \notin Watched
    BY <2>1, <2>2, DoneCalm DEF Watched
  <2> QED BY <1>1, <2>3 DEF Calm
<1>5. CASE Cancel(s)
  <2>1. Done(s) \/ \E end : Do(s, [task[s] EXCEPT !.pc = "save", !.stale = FALSE, !.end = end])
    BY <1>5, Zenon DEF Cancel
  <2>2. \A end : [task[s] EXCEPT !.pc = "save", !.stale = FALSE, !.end = end].pc = "save"
    BY <1>0 DEF Task
  <2>3. \E n : Do(s, n) /\ n.pc \notin Watched
    BY <2>1, <2>2, DoneCalm DEF Watched
  <2> QED BY <1>1, <2>3 DEF Calm
<1>6. CASE Sweep(s)
  <2>1. PICK at, left : Do(s, [Idle EXCEPT !.pc = "sweep", !.at = at, !.sweep = TRUE, !.left = left])
    BY <1>6, Zenon DEF Sweep
  <2>2. [Idle EXCEPT !.pc = "sweep", !.at = at, !.sweep = TRUE, !.left = left].pc = "sweep"
    BY DEF Idle
  <2> QED BY <1>1, <2>1, <2>2 DEF Calm, Watched
<1>7. CASE Crash(s)
  BY <1>0, <1>1, <1>7 DEF Crash, Calm, Watched
<1> QED BY <1>2, <1>3, <1>4, <1>5, <1>6, <1>7

LEMMA QuietRequests ==
  ASSUME Core, NEW s \in Slots, NEW p \in Payments,
         \/ Quote(s, p) \/ Verify(s, p) \/ ChargeSeen(s, p)
         \/ (\E e \in Sent(p) : Webhook(s, p, e)) \/ (\E r \in Refunds : AskRefund(s, p, r))
  PROVE  Calm(s)
<1>1. UNCHANGED <<sub, raced>>
  BY Zenon DEF Quote, Verify, ChargeSeen, Webhook, AskRefund, ghosts
<1>2. CASE Quote(s, p) \/ Verify(s, p) \/ ChargeSeen(s, p)
  <2>1. \E l \in {"insert", "claim", "record"} : Begin(s, l, p)
    BY <1>2, Zenon DEF Quote, Verify, ChargeSeen
  <2>2. \A l \in {"insert", "claim", "record"} : l \notin Watched
    BY DEF Watched
  <2> QED BY <1>1, <2>1, <2>2, BeginCalm DEF Calm
<1>3. CASE \E e \in Sent(p) : Webhook(s, p, e)
  <2>1. PICK e \in Sent(p) : Webhook(s, p, e)
    BY <1>3
  <2>2. PICK l : l = CASE e[1] = "captured" -> "claim" [] e[1] = "failed" -> "fail" [] OTHER -> "refund"
    OBVIOUS
  <2>3. \/ UNCHANGED task
        \/ Do(s, [Idle EXCEPT !.p = p, !.at = now, !.end = row[p].end, !.event = e, !.pc = l])
    BY <2>1, <2>2, Zenon DEF Webhook
  <2>4. [Idle EXCEPT !.p = p, !.at = now, !.end = row[p].end, !.event = e, !.pc = l].pc = l
    BY DEF Idle
  <2>5. l \in {"claim", "fail", "refund"}
    BY <2>2
  <2> QED BY <1>1, <2>3, <2>4, <2>5 DEF Calm, Watched
<1>4. CASE \E r \in Refunds : AskRefund(s, p, r)
  <2>1. PICK r : Do(s, [Idle EXCEPT !.pc = "ask", !.p = p, !.at = now, !.end = row[p].end,
                                    !.event = <<"admin", r>>])
    BY <1>4, Zenon DEF AskRefund
  <2>2. [Idle EXCEPT !.pc = "ask", !.p = p, !.at = now, !.end = row[p].end,
                     !.event = <<"admin", r>>].pc = "ask"
    BY DEF Idle
  <2> QED BY <1>1, <2>1, <2>2 DEF Calm, Watched
<1> QED BY <1>2, <1>3, <1>4

\* Reading the subscription: what the task then knows is true of it.
LEMMA Reads ==
  ASSUME Core, Plans, NEW s \in Slots, NEW n, Do(s, n), UNCHANGED <<sub, raced>>,
         n.pc \notin Watched \/ (Steady(n) /\ Extends(n))
  PROVE  Plans'
<1>1. task \in [Slots -> Task]
  BY Here
<1>2. (\A t \in Slots : t # s => task'[t] = task[t]) /\ task'[s] = n
  BY <1>1 DEF Do
<1> QED BY <1>2, SubStays

LEMMA ReadPlanKnows ==
  ASSUME Core, Plans, NEW s \in Slots, ReadPlan(s)
  PROVE  Plans'
<1>1. PICK renew \in BOOLEAN : renew = (sub.plan = PlanOf[task[s].p])
  OBVIOUS
<1>2. PICK n : n = [task[s] EXCEPT !.pc = "extend", !.renew = renew, !.stale = FALSE]
  OBVIOUS
<1>3. Do(s, n) /\ UNCHANGED <<sub, raced>>
  BY <1>1, <1>2, Zenon DEF ReadPlan, ghosts
<1>4. n.pc = "extend" /\ n.renew = renew /\ n.p = task[s].p
  BY <1>2, Here DEF Task
<1>5. n.renew <=> sub.plan = PlanOf[n.p]
  BY <1>1, <1>4, Zenon
<1>6. Steady(n) /\ Extends(n)
  BY <1>4, <1>5 DEF Steady, Extends
<1> QED BY <1>3, <1>6, Reads

LEMMA ReadPeriodKnows ==
  ASSUME Core, Plans, NEW s \in Slots, ReadPeriod(s)
  PROVE  Plans'
<1>1. PICK end : end = ExtendFrom(task[s]) + Period
  OBVIOUS
<1>2. PICK n : n = [task[s] EXCEPT !.pc = "write", !.end = end]
  OBVIOUS
<1>3. Do(s, n) /\ UNCHANGED <<sub, raced>> /\ task[s].pc = "extend"
  BY <1>1, <1>2, Zenon DEF ReadPeriod, ghosts, At
<1>4. n.pc = "write" /\ n.end = end /\ n.at = task[s].at /\ n.stale = task[s].stale
      /\ n.p = task[s].p
  BY <1>2, Here DEF Task
<1>5. ~n.stale /\ sub.plan = PlanOf[n.p] /\ sub.end > n.at => n.end = sub.end + Period
  <2>1. ~task[s].stale => (task[s].renew <=> sub.plan = PlanOf[task[s].p])
    BY <1>3 DEF Plans, Steady
  <2> QED BY <1>1, <1>4, <2>1 DEF ExtendFrom
<1>6. Steady(n) /\ Extends(n)
  BY <1>4, <1>5 DEF Steady, Extends
<1> QED BY <1>3, <1>6, Reads

LEMMA WriteHistoryKnows ==
  ASSUME Core, Plans, NEW s \in Slots, NEW ok \in BOOLEAN, WriteHistory(s, ok)
  PROVE  Plans'
<1>1. PICK l \in {"bonus", "link"} : l = IF task[s].p \in Couponed THEN "bonus" ELSE "link"
  OBVIOUS
<1>2. PICK n : n = [task[s] EXCEPT !.pc = l]
  OBVIOUS
<1>3. Do(s, n) /\ UNCHANGED <<sub, raced>> /\ task[s].pc = "history"
  BY <1>1, <1>2, Zenon DEF WriteHistory, Goto, ghosts, At
<1>4. n.pc = l /\ n.end = task[s].end /\ n.stale = task[s].stale
  BY <1>2, Here DEF Task
<1>5. ~n.stale => n.end = sub.end /\ sub.status = "active"
  <2>1. ~task[s].stale => task[s].end = sub.end /\ sub.status = "active"
    BY <1>3 DEF Plans, Steady
  <2> QED BY <1>4, <2>1
<1>6. Steady(n) /\ Extends(n)
  BY <1>4, <1>5 DEF Steady, Extends
<1> QED BY <1>3, <1>6, Reads

LEMMA UserKnows ==
  ASSUME Core, Plans, NEW s \in Slots,
         UserCancels(s) \/ UserReactivates(s) \/ UserTries(s) \/ RewardEarned(s)
  PROVE  Plans'
<1>1. UNCHANGED <<sub, raced>>
  BY Zenon DEF UserCancels, UserReactivates, UserTries, RewardEarned, ghosts
<1>2. CASE UserCancels(s) \/ UserReactivates(s)
  <2>1. \E l \in {"cancel", "reactivate"} : Begin(s, l, 0)
    BY <1>2, Zenon DEF UserCancels, UserReactivates
  <2>2. \A l \in {"cancel", "reactivate"} : l \notin Watched
    BY DEF Watched
  <2>3. Calm(s)
    BY <1>1, <2>1, <2>2, BeginCalm DEF Calm
  <2> QED BY <2>3, CalmKeeps
<1>3. CASE UserTries(s)
  <2>1. PICK n : n = [Idle EXCEPT !.pc = "trial", !.p = 0, !.at = now]
    OBVIOUS
  <2>2. Do(s, n)
    BY <1>3, <2>1, Zenon DEF UserTries, Begin
  <2>3. n.pc = "trial" /\ n.at = now
    BY <2>1 DEF Idle
  <2>4. sub.end = 0 \/ sub.status = "trialing" \/ Ended(now)
    BY <1>3 DEF UserTries
  <2>5. Steady(n) /\ Extends(n)
    BY <2>3, <2>4 DEF Steady, Extends
  <2> QED BY <1>1, <2>2, <2>5, Reads
<1>4. CASE RewardEarned(s)
  <2>1. PICK renew \in BOOLEAN : (sub.end > now) = renew
    <3>1. CASE sub.end > now
      <4>1. (sub.end > now) = TRUE
        BY <3>1
      <4> QED BY <4>1
    <3>2. CASE ~(sub.end > now)
      <4>1. (sub.end > now) = FALSE
        BY <3>2
      <4> QED BY <4>1
    <3> QED BY <3>1, <3>2
  <2>2. PICK end : end = (IF sub.end > now THEN sub.end ELSE now) + FreeDays
    OBVIOUS
  <2>3. PICK n : n = [Idle EXCEPT !.pc = "free", !.at = now, !.renew = renew, !.end = end]
    OBVIOUS
  <2>4. Do(s, n)
    BY <1>4, <2>1, <2>2, <2>3, Zenon DEF RewardEarned
  <2>5. n.pc = "free" /\ n.at = now /\ n.renew = renew /\ n.end = end
    BY <2>3 DEF Idle
  <2>6. n.renew <=> sub.end > n.at
    BY <2>1, <2>5
  <2>7. Steady(n)
    BY <2>2, <2>5, <2>6 DEF Steady
  <2>8. Extends(n)
    <3>1. sub \in Sub /\ now \in Nat
      BY Here
    <3>2. sub.end > now => sub.plan \in Paid
      BY <3>1 DEF Sub, Plans, PeriodFits
    <3> QED BY <2>5, <2>6, <3>2 DEF Extends
  <2> QED BY <1>1, <2>4, <2>7, <2>8, Reads
<1> QED BY <1>2, <1>3, <1>4

\* Saving it.
LEMMA WritePlanKnows ==
  ASSUME Core, Plans, NEW s \in Slots, WritePlan(s)
  PROVE  Plans'
<1>1. task[s].pc = "write" /\ task[s] \in Task
  BY Here DEF WritePlan, At
<1>2. PICK n : n = [task[s] EXCEPT !.pc = "history", !.stale = FALSE]
  OBVIOUS
<1>3. PICK saved : saved = Applied(task[s], PlanOf[task[s].p])
  OBVIOUS
<1>4. Save(s, saved, n)
  BY <1>2, <1>3, Zenon DEF WritePlan
<1>5. n \in Task /\ n.pc = "history" /\ n.end = task[s].end
  BY <1>1, <1>2 DEF Task, Labels
<1>6. saved.plan \in Paid /\ saved.status = "active" /\ saved.end = task[s].end
  <2>1. PlanOf[task[s].p] \in Paid
    BY <1>1, Here, BillingShape DEF Begun, About, Acting
  <2> QED BY <1>3, <2>1, Here DEF Applied, Sub
<1>7. sub' = saved
  BY <1>4 DEF Save
<1>8. Steady(n)' /\ Extends(n)'
  BY <1>5, <1>6, <1>7 DEF Steady, Extends
<1> QED BY <1>4, <1>5, <1>6, <1>8, SubSaved DEF Paid

LEMMA AddBonusKnows ==
  ASSUME Core, Plans, NEW s \in Slots, AddBonus(s)
  PROVE  Plans'
<1>1. PICK end : end = task[s].end + Bonus
  OBVIOUS
<1>2. PICK n, saved : n = [task[s] EXCEPT !.pc = "link", !.end = end] /\ saved = [sub EXCEPT !.end = end]
  OBVIOUS
<1>3. task[s] \in Task /\ Fits(task[s]) /\ task[s].pc = "bonus" /\ task[s].end \in Nat
  BY Here, TaskTyped DEF AddBonus, At
<1>4. end \in Nat
  BY <1>1, <1>3, Constants
<1>5. n \in Task /\ n.pc = "link"
  BY <1>2, <1>3, <1>4 DEF Task, Labels
<1>6. saved.plan = sub.plan /\ saved.status = sub.status
  BY <1>2, Here DEF Sub
<1>7. sub.plan \in Paid
  BY <1>3, Here DEF Fits, Core, Granted, Begun, About, Acting
<1>8. Save(s, saved, n)
  BY <1>1, <1>2, Zenon DEF AddBonus, Save
<1>9. task[s].stale \/ sub.status = "active"
  BY <1>3 DEF Plans, Steady
<1>10. (n.pc \notin Watched)'
  BY <1>5 DEF Watched
<1> QED BY <1>5, <1>6, <1>7, <1>8, <1>9, <1>10, SubSaved DEF Paid

LEMMA SavesKnow ==
  ASSUME Core, Plans, NEW s \in Slots,
         SaveCancel(s) \/ Reactivate(s) \/ (\E plan \in Paid : StartTrial(s, plan)) \/ GrantFreeDays(s)
  PROVE  Plans'
<1>1. sub \in Sub /\ Idle \in Task /\ Idle.pc \notin Watched /\ task[s] \in Task
  BY Here, Blank DEF Watched
<1>2. (Idle.pc \notin Watched)'
  BY Blank DEF Watched, Idle
<1>3. CASE SaveCancel(s)
  <2>1. PICK saved : saved = [sub EXCEPT !.cancelAt = task[s].end]
    OBVIOUS
  <2>2. saved.plan = sub.plan /\ saved.end = sub.end /\ saved.status = sub.status
    BY <1>1, <2>1 DEF Sub
  <2>3. Save(s, saved, Idle)
    BY <1>3, <2>1, Zenon DEF SaveCancel
  <2> QED BY <1>1, <1>2, <2>2, <2>3, SubSaved DEF Plans, PeriodFits
<1>4. CASE Reactivate(s)
  <2>1. PICK saved : saved = [sub EXCEPT !.cancelAt = 0]
    OBVIOUS
  <2>2. saved.plan = sub.plan /\ saved.end = sub.end /\ saved.status = sub.status
    BY <1>1, <2>1 DEF Sub
  <2>3. Save(s, saved, Idle)
    BY <1>4, <2>1, Zenon DEF Reactivate
  <2> QED BY <1>1, <1>2, <2>2, <2>3, SubSaved DEF Plans, PeriodFits
<1>5. CASE \E plan \in Paid : StartTrial(s, plan)
  <2>0. PICK plan \in Paid : StartTrial(s, plan)
    BY <1>5
  <2>1. PICK saved : saved = [plan |-> plan, status |-> "trialing", start |-> task[s].at, end |-> 0,
                              cancelAt |-> 0, trialUsed |-> TRUE]
    OBVIOUS
  <2>2. saved.plan \in Paid /\ saved.end = 0
    BY <2>0, <2>1
  <2>3. Save(s, saved, Idle)
    BY <2>0, <2>1, Zenon DEF StartTrial
  <2> QED BY <1>1, <1>2, <2>2, <2>3, SubSaved
<1>6. CASE GrantFreeDays(s)
  <2>1. PICK saved : saved = IF task[s].renew THEN [sub EXCEPT !.end = task[s].end, !.status = "active"]
                             ELSE Applied(task[s], "pro")
    OBVIOUS
  <2>2. Applied(task[s], "pro").plan \in Paid /\ Applied(task[s], "pro").status = "active"
    BY <1>1 DEF Sub, Applied, Paid
  <2>3. [sub EXCEPT !.end = task[s].end, !.status = "active"].plan = sub.plan
        /\ [sub EXCEPT !.end = task[s].end, !.status = "active"].status = "active"
    BY <1>1 DEF Sub
  <2>4. task[s].renew => sub.plan \in Paid
    BY <1>6 DEF GrantFreeDays, At, Plans, Extends
  <2>5. saved.plan \in Paid /\ saved.status = "active"
    BY <2>1, <2>2, <2>3, <2>4
  <2>6. Save(s, saved, Idle)
    BY <1>6, <2>1, Zenon DEF GrantFreeDays
  <2> QED BY <1>1, <1>2, <2>5, <2>6, SubSaved DEF Paid
<1> QED BY <1>3, <1>4, <1>5, <1>6

LEMMA PlansStep ==
  ASSUME Core, Plans, [Next]_vars
  PROVE  Plans'
<1>1. CASE UNCHANGED <<sub, raced, task>>
  BY <1>1 DEF Plans, PeriodFits, Steady, Extends, Ended
<1>2. CASE UNCHANGED vars
  BY <1>1, <1>2 DEF vars
<1>3. CASE Tick
  BY <1>1, <1>3 DEF Tick, ghosts
<1>4. ASSUME NEW p \in Payments,
             \/ \E ok, odd \in BOOLEAN : Attempt(p, ok, odd)
             \/ \E odd \in BOOLEAN : Debit(p, odd)
             \/ \E r \in Refunds, amount \in 1..Net : RefundAtProvider(p, r, amount)
      PROVE  Plans'
  <2>1. UNCHANGED <<sub, raced, task>>
    BY <1>4, Zenon DEF Attempt, Debit, RefundAtProvider, ghosts
  <2> QED BY <1>1, <2>1
<1>5. ASSUME NEW s \in Slots, NEW p \in Payments,
             \/ Quote(s, p) \/ Verify(s, p) \/ ChargeSeen(s, p)
             \/ (\E e \in Sent(p) : Webhook(s, p, e)) \/ (\E r \in Refunds : AskRefund(s, p, r))
      PROVE  Plans'
  BY <1>5, QuietRequests, CalmKeeps
<1>6. ASSUME NEW s \in Slots,
             UserCancels(s) \/ UserReactivates(s) \/ UserTries(s) \/ RewardEarned(s)
      PROVE  Plans'
  BY <1>6, UserKnows
<1>7. ASSUME NEW s \in Slots, Sweep(s) \/ Crash(s) PROVE Plans'
  BY <1>7, QuietJobs, CalmKeeps
<1>8. ASSUME NEW s \in Slots, Step(s) PROVE Plans'
  <2>1. CASE \/ InsertRow(s) \/ (\E ok \in BOOLEAN : CreateOrder(s, ok)) \/ Claim(s) \/ FailPayment(s)
             \/ RecordCharge(s) \/ LinkPayment(s) \/ FindHistory(s) \/ GuessApplied(s)
             \/ (\E amount \in 1..Net : ProviderRefunds(s, amount)) \/ ApplyRefund(s)
    BY <2>1, QuietSteps, CalmKeeps
  <2>2. CASE NextStuck(s) \/ Backfill(s) \/ ComparePeriod(s) \/ Cancel(s)
    BY <2>2, QuietJobs, CalmKeeps
  <2>3. CASE ReadPlan(s) \/ ReadPeriod(s) \/ WritePlan(s) \/ (\E ok \in BOOLEAN : WriteHistory(s, ok)) \/ AddBonus(s)
    BY <2>3, ReadPlanKnows, ReadPeriodKnows, WritePlanKnows, WriteHistoryKnows, AddBonusKnows
  <2>4. CASE SaveCancel(s) \/ Reactivate(s) \/ (\E plan \in Paid : StartTrial(s, plan)) \/ GrantFreeDays(s)
    BY <2>4, SavesKnow
  <2> QED BY <1>8, <2>1, <2>2, <2>3, <2>4, Zenon DEF Step
<1> QED BY <1>2, <1>3, <1>4, <1>5, <1>6, <1>7, <1>8, Zenon DEF Next

\* A step that changes the subscription is one of six.
LEMMA WhoSaves ==
  ASSUME Core, Next
  PROVE  \/ UNCHANGED sub
         \/ \E s \in Slots : \/ WritePlan(s) \/ AddBonus(s) \/ SaveCancel(s) \/ Reactivate(s)
                             \/ (\E plan \in Paid : StartTrial(s, plan)) \/ GrantFreeDays(s)
<1>1. CASE Tick
  BY <1>1 DEF Tick
<1>2. ASSUME NEW p \in Payments,
             \/ \E ok, odd \in BOOLEAN : Attempt(p, ok, odd)
             \/ \E odd \in BOOLEAN : Debit(p, odd)
             \/ \E r \in Refunds, amount \in 1..Net : RefundAtProvider(p, r, amount)
      PROVE  UNCHANGED sub
  BY <1>2, Zenon DEF Attempt, Debit, RefundAtProvider
<1>3. ASSUME NEW s \in Slots, NEW p \in Payments,
             \/ Quote(s, p) \/ Verify(s, p) \/ ChargeSeen(s, p)
             \/ (\E e \in Sent(p) : Webhook(s, p, e)) \/ (\E r \in Refunds : AskRefund(s, p, r))
      PROVE  UNCHANGED sub
  BY <1>3, Zenon DEF Quote, Verify, ChargeSeen, Webhook, AskRefund
<1>4. ASSUME NEW s \in Slots,
             \/ UserCancels(s) \/ UserReactivates(s) \/ UserTries(s) \/ RewardEarned(s)
             \/ Sweep(s) \/ Crash(s)
      PROVE  UNCHANGED sub
  BY <1>4, Zenon DEF UserCancels, UserReactivates, UserTries, RewardEarned, Sweep, Crash
<1>5. ASSUME NEW s \in Slots, Step(s)
      PROVE  \/ UNCHANGED sub
             \/ WritePlan(s) \/ AddBonus(s) \/ SaveCancel(s) \/ Reactivate(s)
             \/ (\E plan \in Paid : StartTrial(s, plan)) \/ GrantFreeDays(s)
  BY <1>5, Zenon
     DEF Step, InsertRow, CreateOrder, Claim, FailPayment, RecordCharge, ReadPlan, ReadPeriod,
         WriteHistory, LinkPayment, NextStuck, FindHistory, GuessApplied,
         Backfill, ProviderRefunds, ApplyRefund, ComparePeriod, Cancel
<1> QED BY <1>1, <1>2, <1>3, <1>4, <1>5, Zenon DEF Next

LEMMA KeepsTime ==
  ASSUME Core, Plans, [Next]_vars, Running
  PROVE  sub'.end >= sub.end \/ raced' \/ \E s \in Slots : ChangesPlan(s)
<1>1. sub \in Sub /\ now \in Nat /\ sub.end \in Nat /\ sub.cancelAt \in Nat /\ sub.end > now
      /\ Period \in Nat /\ Bonus \in Nat /\ FreeDays \in Nat
  BY Here, Constants DEF Core, Types, Sub, Running
<1>2. CASE UNCHANGED sub
  BY <1>1, <1>2
<1>3. ASSUME NEW s \in Slots,
             \/ WritePlan(s) \/ AddBonus(s) \/ SaveCancel(s) \/ Reactivate(s)
             \/ (\E plan \in Paid : StartTrial(s, plan)) \/ GrantFreeDays(s)
      PROVE  sub'.end >= sub.end \/ raced' \/ ChangesPlan(s)
  <2>1. PICK m \in Task : m = task[s]
    BY Here
  <2>2. Steady(m) /\ m.at \in Nat /\ m.at <= now /\ m.end \in Nat /\ m.stale \in BOOLEAN
    BY <2>1, Here, TaskTyped DEF Plans
  <2>3. raced' = (raced \/ m.stale)
    BY <1>3, <2>1, Zenon
       DEF WritePlan, AddBonus, SaveCancel, Reactivate, StartTrial, GrantFreeDays, Save
  <2>4. CASE m.stale
    BY <2>3, <2>4
  <2>5. CASE ~m.stale
    <3>1. CASE WritePlan(s)
      <4>1. m.pc = "write" /\ sub' = Applied(m, PlanOf[m.p])
        BY <2>1, <3>1, Zenon DEF WritePlan, Save, At
      <4>2. sub'.end = m.end
        BY <1>1, <4>1 DEF Applied, Sub
      <4>3. CASE sub.plan # PlanOf[m.p]
        BY <2>1, <4>1, <4>3 DEF ChangesPlan, At
      <4>4. sub.end > m.at
        BY <1>1, <2>2
      <4>5. CASE sub.plan = PlanOf[m.p]
        <5>1. m.end = sub.end + Period
          BY <2>2, <2>5, <4>1, <4>4, <4>5 DEF Steady
        <5> QED BY <1>1, <4>2, <5>1
      <4> QED BY <4>3, <4>5
    <3>2. CASE AddBonus(s)
      <4>1. m.pc = "bonus" /\ sub' = [sub EXCEPT !.end = m.end + Bonus]
        BY <2>1, <3>2, Zenon DEF AddBonus, Save, At
      <4>2. m.end = sub.end
        BY <2>2, <2>5, <4>1 DEF Steady
      <4>3. sub'.end = m.end + Bonus
        BY <1>1, <4>1 DEF Sub
      <4> QED BY <1>1, <4>2, <4>3
    <3>3. CASE SaveCancel(s)
      <4>1. sub' = [sub EXCEPT !.cancelAt = m.end]
        BY <2>1, <3>3, Zenon DEF SaveCancel, Save
      <4> QED BY <1>1, <4>1 DEF Sub
    <3>4. CASE Reactivate(s)
      <4>1. sub' = [sub EXCEPT !.cancelAt = 0]
        BY <3>4, Zenon DEF Reactivate, Save
      <4> QED BY <1>1, <4>1 DEF Sub
    <3>5. CASE \E plan \in Paid : StartTrial(s, plan)
      <4>1. m.pc = "trial"
        BY <2>1, <3>5 DEF StartTrial, At
      <4>2. sub.end = 0 \/ sub.status = "trialing" \/ Ended(m.at)
        BY <2>2, <2>5, <4>1 DEF Steady
      <4>3. ~Ended(m.at)
        BY <1>1, <2>2 DEF Ended, Running
      <4>4. sub.status = "trialing" /\ sub.end # 0
        BY <1>1, <4>2, <4>3
      <4>5. raced
        BY <4>4 DEF Plans, PeriodFits
      <4> QED BY <2>3, <4>5
    <3>6. CASE GrantFreeDays(s)
      <4>1. m.pc = "free"
            /\ sub' = IF m.renew THEN [sub EXCEPT !.end = m.end, !.status = "active"] ELSE Applied(m, "pro")
        BY <2>1, <3>6, Zenon DEF GrantFreeDays, Save, At
      <4>2. sub'.end = m.end
        <5>1. [sub EXCEPT !.end = m.end, !.status = "active"].end = m.end /\ Applied(m, "pro").end = m.end
          BY <1>1 DEF Applied, Sub
        <5> QED BY <4>1, <5>1
      <4>3. m.end = (IF sub.end > m.at THEN sub.end ELSE m.at) + FreeDays
        BY <2>2, <2>5, <4>1 DEF Steady
      <4>4. m.end = sub.end + FreeDays
        BY <1>1, <2>2, <4>3
      <4> QED BY <1>1, <4>2, <4>4
    <3> QED BY <1>3, <3>1, <3>2, <3>3, <3>4, <3>5, <3>6
  <2> QED BY <2>4, <2>5
<1>4. CASE Next
  BY <1>2, <1>3, <1>4, WhoSaves, Zenon
<1>5. CASE UNCHANGED vars
  BY <1>2, <1>5 DEF vars
<1> QED BY <1>4, <1>5

\* No step takes time from a period that runs, unless it saved a copy of the
\* subscription that another step had changed since it was read, or it wrote the other
\* plan that was paid for.
THEOREM NeverShortenedAlways == Spec => NeverShortened
<1>1. Init => Core /\ Plans
  BY CoreInit, PlansInit
<1>2. Core /\ Plans /\ [Next]_vars => (Core /\ Plans)'
  BY CoreStep, PlansStep
<1>3. Core /\ Plans /\ [Next]_vars =>
        [Running => sub'.end >= sub.end \/ raced' \/ \E s \in Slots : ChangesPlan(s)]_vars
  BY KeepsTime
<1> QED BY <1>1, <1>2, <1>3, PTL DEF Spec, NeverShortened

-----------------------------------------------------------------------------
(***************************************************************************)
(* What is recorded as refunded.                                           *)
(***************************************************************************)
\* The refunds recorded on a row are refunds the provider made, recorded once, and
\* all it made are within what was paid.
Counted(x, f) ==
  /\ \A r \in x.refundIds : f[r] # 0
  /\ x.refunded = Total(f, x.refundIds)
  /\ Total(f, Refunds) <= Net
  /\ x.status = "refunded" <=> x.refunded = Net
Exacts == \A p \in Payments : Counted(row[p], remote[p].refunds)

\* Totals of the refunds in a set are amounts.
LEMMA TotalNat ==
  ASSUME NEW f \in [Refunds -> Nat], NEW ids \in SUBSET Refunds
  PROVE  IsFiniteSet(ids) /\ Total(f, ids) \in Nat
<1>1. IsFiniteSet(ids)
  BY BillingShape, FS_Subset
<1>2. [r \in ids |-> f[r]] \in [ids -> Nat]
  OBVIOUS
<1> QED BY <1>1, <1>2, SumNat DEF Total

\* One more refund adds its amount.
LEMMA TotalAdd ==
  ASSUME NEW f \in [Refunds -> Nat], NEW ids \in SUBSET Refunds, NEW r \in Refunds \ ids
  PROVE  Total(f, ids \cup {r}) = Total(f, ids) + f[r]
<1> DEFINE T == ids \cup {r}
           all == [i \in T |-> f[i]]
           old == [i \in T |-> IF i = r THEN 0 ELSE f[i]]
           one == [i \in T |-> IF i = r THEN f[r] ELSE 0]
           some == [i \in ids |-> f[i]]
<1>1. IsFiniteSet(T)
  BY TotalNat
<1>2. all \in [T -> Nat] /\ old \in [T -> Nat] /\ one \in [T -> Nat] /\ some \in [ids -> Nat]
  OBVIOUS
<1>3. \A i \in T : (old[i] = 0 /\ all[i] = one[i]) \/ (one[i] = 0 /\ all[i] = old[i])
  OBVIOUS
<1>4. Sum(all) = Sum(old) + Sum(one)
  BY <1>1, <1>2, <1>3, SumDisjoint
<1>5. r \in T /\ one[r] = f[r] /\ \A i \in T : i # r => one[i] = 0
  OBVIOUS
<1>6. Sum(one) = f[r]
  BY <1>1, <1>2, <1>5, SumOnly
<1>7. (\A i \in ids : some[i] = old[i]) /\ (\A i \in T \ ids : old[i] = 0) /\ ids \in SUBSET T
  OBVIOUS
<1>8. Sum(old) = Sum(some)
  BY <1>2, <1>7, SumWithin
<1> QED BY <1>4, <1>6, <1>8 DEF Total

\* The recorded ones are no more than all.
LEMMA TotalMono ==
  ASSUME NEW f \in [Refunds -> Nat], NEW ids \in SUBSET Refunds
  PROVE  Total(f, ids) <= Total(f, Refunds)
<1> DEFINE all == [i \in Refunds |-> f[i]]
           part == [i \in Refunds |-> IF i \in ids THEN f[i] ELSE 0]
           some == [i \in ids |-> f[i]]
<1>1. all \in [Refunds -> Nat] /\ part \in [Refunds -> Nat] /\ some \in [ids -> Nat]
  OBVIOUS
<1>2. \A i \in Refunds : part[i] <= all[i]
  OBVIOUS
<1>3. IsFiniteSet(Refunds)
  BY BillingShape
<1>4. Sum(part) <= Sum(all)
  BY <1>1, <1>2, <1>3, SumMono
<1>5. (\A i \in ids : some[i] = part[i]) /\ (\A i \in Refunds \ ids : part[i] = 0)
  OBVIOUS
<1>6. Sum(part) = Sum(some)
  BY <1>1, <1>5, SumWithin
<1> QED BY <1>4, <1>6 DEF Total

\* A refund the provider makes is its own amount more, and none that was recorded.
LEMMA TotalChange ==
  ASSUME NEW f \in [Refunds -> Nat], NEW g \in [Refunds -> Nat], NEW r \in Refunds, NEW amount \in Nat,
         f[r] = 0, g[r] = amount, \A i \in Refunds : i # r => g[i] = f[i]
  PROVE  /\ Total(g, Refunds) = Total(f, Refunds) + amount
         /\ \A ids \in SUBSET Refunds : r \notin ids => Total(g, ids) = Total(f, ids)
<1> DEFINE before == [i \in Refunds |-> f[i]]
           after == [i \in Refunds |-> g[i]]
<1>1. before \in [Refunds -> Nat] /\ after \in [Refunds -> Nat] /\ IsFiniteSet(Refunds)
  BY BillingShape
<1>2. before[r] = 0 /\ after[r] = amount /\ \A i \in Refunds : i # r => after[i] = before[i]
  OBVIOUS
<1>3. Sum(after) + before[r] = Sum(before) + after[r]
  BY <1>1, <1>2, SumChange
<1>4. Sum(after) \in Nat /\ Sum(before) \in Nat
  BY <1>1, SumNat
<1>5. Sum(after) = Sum(before) + amount
  BY <1>2, <1>3, <1>4
<1>6. ASSUME NEW ids \in SUBSET Refunds, r \notin ids PROVE Total(g, ids) = Total(f, ids)
  <2>1. [i \in ids |-> g[i]] = [i \in ids |-> f[i]]
    BY <1>6
  <2> QED BY <2>1, Zenon DEF Total
<1> QED BY <1>5, <1>6 DEF Total

LEMMA ExactsInit ==
  ASSUME Init
  PROVE  Exacts
<1> SUFFICES ASSUME NEW p \in Payments PROVE Counted(row[p], remote[p].refunds)
  BY DEF Exacts
<1>1. row[p] = NoRow /\ remote[p] = Unpaid
  BY DEF Init
<1>2. NoRow.refundIds = {} /\ NoRow.refunded = 0 /\ NoRow.status = "none"
  BY DEF NoRow
<1>3. PICK f : f = Unpaid.refunds
  OBVIOUS
<1>4. f \in [Refunds -> Nat] /\ \A r \in Refunds : f[r] = 0
  BY <1>3 DEF Unpaid
<1>5. \A ids \in SUBSET Refunds : Total(f, ids) = 0
  <2>1. ASSUME NEW ids \in SUBSET Refunds PROVE Total(f, ids) = 0
    <3>1. PICK g : g = [r \in ids |-> f[r]]
      OBVIOUS
    <3>2. g \in [ids -> Nat] /\ \A r \in ids : g[r] = 0
      BY <1>4, <3>1
    <3>3. Sum(g) = 0
      BY <3>2, SumZero
    <3> QED BY <3>1, <3>3 DEF Total
  <2> QED BY <2>1
<1>6. Total(f, {}) = 0 /\ Total(f, Refunds) = 0
  BY <1>5
<1>7. Counted(NoRow, f)
  BY <1>2, <1>6, Constants DEF Counted
<1> QED BY <1>1, <1>3, <1>7

\* Writing a row: it counts as the one it replaces, or again exactly.
LEMMA RowCounts ==
  ASSUME Core, Exacts, NEW p \in Payments, NEW x, row' = [row EXCEPT ![p] = x], UNCHANGED remote,
         Counted(x, remote[p].refunds)
  PROVE  Exacts'
<1>1. row \in [Payments -> Row]
  BY DEF Core, Types
<1>2. ASSUME NEW q \in Payments PROVE Counted(row'[q], remote'[q].refunds)
  <2>1. CASE q = p
    BY <1>1, <2>1
  <2>2. CASE q # p
    <3>1. row'[q] = row[q]
      BY <1>1, <2>2
    <3> QED BY <3>1 DEF Exacts
  <2> QED BY <2>1, <2>2
<1> QED BY <1>2 DEF Exacts

LEMMA SameMoney ==
  ASSUME Core, Exacts, NEW p \in Payments, NEW x, row' = [row EXCEPT ![p] = x], UNCHANGED remote,
         x.refundIds = row[p].refundIds, x.refunded = row[p].refunded,
         x.status = "refunded" <=> row[p].status = "refunded"
  PROVE  Exacts'
<1>1. Counted(row[p], remote[p].refunds)
  BY DEF Exacts
<1>2. Counted(x, remote[p].refunds)
  BY <1>1 DEF Counted
<1> QED BY <1>2, RowCounts

LEMMA RemoteCounts ==
  ASSUME Core, Exacts, NEW p \in Payments, NEW y, remote' = [remote EXCEPT ![p] = y], UNCHANGED row,
         Counted(row[p], y.refunds)
  PROVE  Exacts'
<1>1. remote \in [Payments -> Remote]
  BY DEF Core, Types
<1>2. ASSUME NEW q \in Payments PROVE Counted(row'[q], remote'[q].refunds)
  <2>1. CASE q = p
    BY <1>1, <2>1
  <2>2. CASE q # p
    <3>1. remote'[q] = remote[q]
      BY <1>1, <2>2
    <3> QED BY <3>1 DEF Exacts
  <2> QED BY <2>1, <2>2
<1> QED BY <1>2 DEF Exacts

\* The provider refunds no more than is left, and under an id it has not used.
LEMMA RefundCounts ==
  ASSUME Core, Exacts, NEW p \in Payments, NEW r \in Refunds, NEW amount \in 1..Net,
         Refundable(p, r, amount), UNCHANGED row,
         remote' = [remote EXCEPT ![p].refunds[r] = amount]
  PROVE  Exacts'
<1>1. remote \in [Payments -> Remote] /\ remote[p] \in Remote /\ row[p] \in Row
  BY DEF Core, Types
<1>2. PICK f : f = remote[p].refunds
  OBVIOUS
<1>3. PICK g : g = [f EXCEPT ![r] = amount]
  OBVIOUS
<1>4. PICK y : y = [remote[p] EXCEPT !.refunds = g]
  OBVIOUS
<1>5. remote' = [remote EXCEPT ![p] = y]
  BY <1>1, <1>2, <1>3, <1>4
<1>6. y.refunds = g /\ f \in [Refunds -> Nat] /\ amount \in Nat /\ amount > 0
  BY <1>1, <1>2, <1>4, Constants, RemoteTyped DEF Remote
<1>7. f[r] = 0 /\ amount + Total(f, Refunds) <= Net
  BY <1>2 DEF Refundable
<1>8. PICK ids \in SUBSET Refunds : ids = row[p].refundIds
  BY <1>1, RowTyped
<1>9. Counted(row[p], f)
  BY <1>2 DEF Exacts
<1>10. r \notin ids
  BY <1>7, <1>8, <1>9 DEF Counted
<1>11. Total(g, Refunds) = Total(f, Refunds) + amount /\ Total(g, ids) = Total(f, ids)
  <2>1. /\ Total(g, Refunds) = Total(f, Refunds) + amount
        /\ \A i \in SUBSET Refunds : r \notin i => Total(g, i) = Total(f, i)
    <3>1. g \in [Refunds -> Nat] /\ g[r] = amount /\ \A i \in Refunds : i # r => g[i] = f[i]
      BY <1>3, <1>6
    <3> QED BY <1>6, <1>7, <3>1, TotalChange
  <2> QED BY <1>10, <2>1, Zenon
<1>12. Total(f, Refunds) \in Nat
  BY <1>6, TotalNat
<1>13. Total(g, Refunds) <= Net
  BY <1>6, <1>7, <1>11, <1>12
<1>14. \A i \in ids : g[i] # 0
  BY <1>3, <1>6, <1>8, <1>9, <1>10 DEF Counted
<1>15. Counted(row[p], g)
  BY <1>8, <1>9, <1>11, <1>13, <1>14 DEF Counted
<1> QED BY <1>5, <1>6, <1>15, RemoteCounts

\* A refund is recorded once, with the amount the provider has for it.
LEMMA ApplyRefundCounts ==
  ASSUME Core, Exacts, NEW s \in Slots, ApplyRefund(s)
  PROVE  Exacts'
<1>1. task[s].pc = "refund" /\ task[s] \in Task /\ now \in Nat /\ Fits(task[s]) /\ Begun(task[s], now)
  BY Here DEF ApplyRefund, At
<1>2. PICK p \in Payments, r \in Refunds : p = task[s].p /\ r = task[s].event[2]
  BY <1>1 DEF Begun, About
<1>3. /\ row \in [Payments -> Row] /\ row[p] \in Row /\ remote[p] \in Remote
      /\ remote[p].refunds[r] # 0
  BY <1>1, <1>2, Subject DEF About, Fits
<1>4. UNCHANGED remote
  BY DEF ApplyRefund
<1>5. CASE AlreadyApplied(s)
  <2>1. UNCHANGED row
    BY <1>5 DEF ApplyRefund
  <2> QED BY <1>4, <2>1 DEF Exacts
<1>6. CASE ~AlreadyApplied(s)
  <2>1. PICK ids \in SUBSET Refunds : ids = row[p].refundIds
    BY <1>3, RowTyped
  <2>2. PICK more : more = ids \cup {r}
    OBVIOUS
  <2>3. PICK sum : sum = RefundedBy(s)
    OBVIOUS
  <2>4. PICK status \in {"refunded", "partially_refunded"} :
          status = IF sum = Net THEN "refunded" ELSE "partially_refunded"
    OBVIOUS
  <2>5. PICK new : new = IF task[s].event[1] = "admin" THEN {} ELSE Marked(s)
    OBVIOUS
  <2>6. PICK marks : marks = row[p].events \cup new
    OBVIOUS
  <2>7. PICK x : x = [row[p] EXCEPT !.refunded = sum, !.refundIds = more, !.events = marks,
                                    !.touched = now, !.status = status]
    OBVIOUS
  <2>8. row' = [row EXCEPT ![p] = x]
    <3>1. row' = [row EXCEPT ![p].refunded = sum, ![p].refundIds = @ \cup {r}, ![p].events = @ \cup new,
                             ![p].touched = now, ![p].status = status]
      BY <1>2, <1>6, <2>3, <2>4, <2>5, Zenon DEF ApplyRefund
    <3> QED BY <1>3, <2>1, <2>2, <2>6, <2>7, <3>1
  <2>9. x.refunded = sum /\ x.refundIds = more /\ x.status = status
    BY <1>3, <2>7 DEF Row
  <2>10. r \notin ids
    BY <1>2, <1>6, <2>1 DEF AlreadyApplied, Payment
  <2>11. PICK f \in [Refunds -> Nat] : f = remote[p].refunds
    BY <1>3, RemoteTyped
  <2>12. Counted(row[p], f)
    BY <2>11 DEF Exacts
  <2>13. row[p].refunded = Total(f, ids) /\ Total(f, Refunds) <= Net /\ \A i \in ids : f[i] # 0
    BY <2>1, <2>12 DEF Counted
  <2>14. more \in SUBSET Refunds /\ Total(f, more) = Total(f, ids) + f[r]
    BY <2>2, <2>10, TotalAdd
  <2>15. Total(f, more) <= Total(f, Refunds) /\ Total(f, more) \in Nat /\ Total(f, Refunds) \in Nat
    BY <2>14, TotalMono, TotalNat
  <2>16. Total(f, more) <= Net
    BY <2>13, <2>15, Constants
  <2>17. sum = IF Total(f, more) >= Net THEN Net ELSE Total(f, more)
    BY <1>2, <2>3, <2>11, <2>13, <2>14 DEF RefundedBy, Payment
  <2>18. sum = Total(f, more)
    BY <2>15, <2>16, <2>17, Constants
  <2>19. \A i \in more : f[i] # 0
    BY <1>3, <2>2, <2>11, <2>13
  <2>20. status = "refunded" <=> sum = Net
    BY <2>4
  <2>21. Counted(x, f)
    BY <2>9, <2>13, <2>18, <2>19, <2>20 DEF Counted
  <2> QED BY <1>4, <2>8, <2>11, <2>21, RowCounts
<1> QED BY <1>5, <1>6

\* The other steps that write a row leave its money.
LEMMA InsertRowCounts ==
  ASSUME Core, Exacts, NEW s \in Slots, InsertRow(s)
  PROVE  Exacts'
<1>1. task[s].pc = "insert" /\ Fits(task[s]) /\ Begun(task[s], now)
  BY Here DEF InsertRow, At
<1>2. PICK p \in Payments : p = task[s].p
  BY <1>1 DEF Begun, About
<1>3. row[p] = NoRow
  BY <1>1, <1>2 DEF Fits
<1>4. PICK x : x = [NoRow EXCEPT !.status = "created", !.linked = TRUE, !.created = task[s].at,
                                 !.touched = now]
  OBVIOUS
<1>5. row' = [row EXCEPT ![p] = x] /\ UNCHANGED remote
  BY <1>2, <1>4, Zenon DEF InsertRow
<1>6. /\ x.refundIds = NoRow.refundIds /\ x.refunded = NoRow.refunded
      /\ x.status = "created" /\ NoRow.status = "none"
  BY <1>4 DEF NoRow
<1> QED BY <1>3, <1>5, <1>6, SameMoney

LEMMA CreateOrderCounts ==
  ASSUME Core, Exacts, NEW s \in Slots, NEW ok \in BOOLEAN, CreateOrder(s, ok)
  PROVE  Exacts'
<1>1. task[s].pc = "order" /\ Fits(task[s])
  BY Here DEF CreateOrder, At
<1>2. PICK p \in Payments : p = task[s].p
  BY <1>1, Subject DEF About
<1>3. /\ row[p].status = "created"
      /\ row \in [Payments -> Row] /\ row[p] \in Row
      /\ remote \in [Payments -> Remote] /\ remote[p] \in Remote
  BY <1>1, <1>2, Subject DEF Fits, About
<1>4. CASE ok
  <2>1. PICK y : y = [remote[p] EXCEPT !.kind = "order"]
    OBVIOUS
  <2>2. remote' = [remote EXCEPT ![p] = y] /\ UNCHANGED row
    BY <1>2, <1>3, <1>4, <2>1 DEF CreateOrder
  <2>3. y.refunds = remote[p].refunds
    BY <1>3, <2>1 DEF Remote
  <2>4. Counted(row[p], y.refunds)
    BY <2>3 DEF Exacts
  <2> QED BY <2>2, <2>4, RemoteCounts
<1>5. CASE ~ok
  <2>1. PICK x : x = [row[p] EXCEPT !.status = "failed"]
    OBVIOUS
  <2>2. row' = [row EXCEPT ![p] = x] /\ UNCHANGED remote
    BY <1>2, <1>3, <1>5, <2>1 DEF CreateOrder
  <2>3. x.refundIds = row[p].refundIds /\ x.refunded = row[p].refunded /\ x.status = "failed"
    BY <1>3, <2>1 DEF Row
  <2> QED BY <1>3, <2>2, <2>3, SameMoney
<1> QED BY <1>4, <1>5

\* A payment that waits is captured or fails.
LEMMA SettledCounts ==
  ASSUME Core, Exacts, NEW p \in Payments, NEW status, NEW marks, UNCHANGED remote,
         row[p].status = "created", status # "refunded",
         row' = [row EXCEPT ![p].status = status, ![p].touched = now, ![p].events = marks]
  PROVE  Exacts'
<1>1. row \in [Payments -> Row] /\ row[p] \in Row
  BY DEF Core, Types
<1>2. PICK x : x = [row[p] EXCEPT !.status = status, !.touched = now, !.events = marks]
  OBVIOUS
<1>3. row' = [row EXCEPT ![p] = x]
  BY <1>1, <1>2
<1>4. x.refundIds = row[p].refundIds /\ x.refunded = row[p].refunded /\ x.status = status
  BY <1>1, <1>2 DEF Row
<1> QED BY <1>3, <1>4, SameMoney

LEMMA ClaimCounts ==
  ASSUME Core, Exacts, NEW s \in Slots, Claim(s) \/ FailPayment(s)
  PROVE  Exacts'
<1>1. task[s].pc \in About
  BY DEF Claim, FailPayment, At, About
<1>2. PICK p \in Payments : p = task[s].p
  BY <1>1, Subject
<1>3. row \in [Payments -> Row] /\ UNCHANGED remote
  BY <1>1, Subject DEF Claim, FailPayment
<1>4. PICK marks : marks = row[p].events \cup Marked(s)
  OBVIOUS
<1>5. CASE UNCHANGED row
  BY <1>3, <1>5 DEF Exacts
<1>6. CASE row[p].status = "created" /\ ~UNCHANGED row
  <2>1. PICK status \in {"captured", "failed"} :
          row' = [row EXCEPT ![p].status = status, ![p].touched = now, ![p].events = @ \cup Marked(s)]
    BY <1>2, <1>6, Zenon DEF Claim, FailPayment
  <2>2. row' = [row EXCEPT ![p].status = status, ![p].touched = now, ![p].events = marks]
    BY <1>3, <1>4, <2>1
  <2>3. status # "refunded"
    OBVIOUS
  <2> QED BY <1>3, <1>6, <2>2, <2>3, SettledCounts
<1> QED BY <1>2, <1>5, <1>6 DEF Claim, FailPayment, CanClaim, CanFail

LEMMA RecordChargeCounts ==
  ASSUME Core, Exacts, NEW s \in Slots, RecordCharge(s)
  PROVE  Exacts'
<1>1. task[s].pc = "record" /\ UNCHANGED remote
  BY DEF RecordCharge, At
<1>2. PICK p \in Payments : p = task[s].p
  BY <1>1, Subject DEF About
<1>3. CASE row[p] # NoRow
  <2>1. UNCHANGED row
    BY <1>2, <1>3 DEF RecordCharge
  <2> QED BY <1>1, <2>1 DEF Exacts
<1>4. CASE row[p] = NoRow
  <2>1. PICK x : x = [NoRow EXCEPT !.status = "captured", !.created = now, !.touched = now,
                                   !.flagged = remote[p].odd]
    OBVIOUS
  <2>2. row' = [row EXCEPT ![p] = x]
    BY <1>2, <1>4, <2>1, Zenon DEF RecordCharge
  <2>3. /\ x.refundIds = NoRow.refundIds /\ x.refunded = NoRow.refunded
        /\ x.status = "captured" /\ NoRow.status = "none"
    BY <2>1 DEF NoRow
  <2> QED BY <1>1, <1>4, <2>2, <2>3, SameMoney
<1> QED BY <1>3, <1>4

LEMMA LinkPaymentCounts ==
  ASSUME Core, Exacts, NEW s \in Slots, LinkPayment(s)
  PROVE  Exacts'
<1>1. task[s].pc = "link" /\ UNCHANGED remote
  BY DEF LinkPayment, At
<1>2. PICK p \in Payments : p = task[s].p
  BY <1>1, Subject DEF About, Acting
<1>3. row \in [Payments -> Row] /\ row[p] \in Row
  BY <1>1, <1>2, Subject DEF About, Acting
<1>4. PICK x : x = [row[p] EXCEPT !.linked = TRUE, !.end = task[s].end, !.touched = now]
  OBVIOUS
<1>5. row' = [row EXCEPT ![p] = x]
  BY <1>2, <1>3, <1>4 DEF LinkPayment
<1>6. x.refundIds = row[p].refundIds /\ x.refunded = row[p].refunded /\ x.status = row[p].status
  BY <1>3, <1>4 DEF Row
<1> QED BY <1>1, <1>5, <1>6, SameMoney

LEMMA WebhookCounts ==
  ASSUME Core, Exacts, NEW s \in Slots, NEW p \in Payments, NEW e \in Sent(p), Webhook(s, p, e)
  PROVE  Exacts'
<1>1. row \in [Payments -> Row] /\ row[p] \in Row /\ UNCHANGED remote
  BY DEF Core, Types, Webhook
<1>2. CASE UNCHANGED row
  BY <1>1, <1>2 DEF Exacts
<1>3. CASE row' = [row EXCEPT ![p].flagged = TRUE]
  <2>1. PICK x : x = [row[p] EXCEPT !.flagged = TRUE]
    OBVIOUS
  <2>2. row' = [row EXCEPT ![p] = x]
    BY <1>1, <1>3, <2>1
  <2>3. x.refundIds = row[p].refundIds /\ x.refunded = row[p].refunded /\ x.status = row[p].status
    BY <1>1, <2>1 DEF Row
  <2> QED BY <1>1, <2>2, <2>3, SameMoney
<1> QED BY <1>2, <1>3 DEF Webhook

\* What happens at the provider, refunds apart, leaves what it refunded.
LEMMA AttemptCounts ==
  ASSUME Core, Exacts, NEW p \in Payments, NEW ok \in BOOLEAN, NEW odd \in BOOLEAN,
         Attempt(p, ok, odd) \/ Debit(p, odd)
  PROVE  Exacts'
<1>1. remote \in [Payments -> Remote] /\ remote[p] \in Remote /\ UNCHANGED row
  BY DEF Core, Types, Attempt, Debit
<1>2. PICK failed \in BOOLEAN : failed = (remote[p].failed \/ ~ok)
  BY <1>1, RemoteTyped
<1>3. PICK y : /\ remote' = [remote EXCEPT ![p] = y] /\ y.refunds = remote[p].refunds
  <2>1. CASE Attempt(p, ok, odd)
    <3>1. PICK y : y = [remote[p] EXCEPT !.captured = ok, !.failed = failed, !.odd = odd]
      OBVIOUS
    <3>2. remote' = [remote EXCEPT ![p] = y]
      BY <1>1, <1>2, <2>1, <3>1 DEF Attempt
    <3>3. y.refunds = remote[p].refunds
      BY <1>1, <3>1 DEF Remote
    <3> QED BY <3>2, <3>3
  <2>2. CASE Debit(p, odd)
    <3>1. PICK y : y = [remote[p] EXCEPT !.kind = "charge", !.captured = TRUE, !.odd = odd]
      OBVIOUS
    <3>2. remote' = [remote EXCEPT ![p] = y]
      BY <1>1, <2>2, <3>1 DEF Debit
    <3>3. y.refunds = remote[p].refunds
      BY <1>1, <3>1 DEF Remote
    <3> QED BY <3>2, <3>3
  <2> QED BY <2>1, <2>2
<1>4. Counted(row[p], y.refunds)
  BY <1>3 DEF Exacts
<1> QED BY <1>1, <1>3, <1>4, RemoteCounts

LEMMA ProviderRefundsCounts ==
  ASSUME Core, Exacts, NEW s \in Slots, NEW amount \in 1..Net, ProviderRefunds(s, amount)
  PROVE  Exacts'
<1>1. task[s].pc = "ask" /\ Begun(task[s], now) /\ UNCHANGED row
  BY Here DEF ProviderRefunds, At
<1>2. PICK p \in Payments, r \in Refunds : p = task[s].p /\ r = task[s].event[2]
  BY <1>1 DEF Begun, About
<1>3. CASE Refundable(p, r, amount) /\ amount <= Net - row[p].refunded
  <2>1. remote' = [remote EXCEPT ![p].refunds[r] = amount]
    BY <1>2, <1>3 DEF ProviderRefunds
  <2> QED BY <1>1, <1>3, <2>1, RefundCounts
<1>4. CASE ~(Refundable(p, r, amount) /\ amount <= Net - row[p].refunded)
  <2>1. UNCHANGED remote
    BY <1>2, <1>4 DEF ProviderRefunds
  <2> QED BY <1>1, <2>1 DEF Exacts
<1> QED BY <1>3, <1>4

LEMMA ExactsStep ==
  ASSUME Core, Exacts, [Next]_vars
  PROVE  Exacts'
<1>1. CASE UNCHANGED <<row, remote>>
  BY <1>1 DEF Exacts
<1>2. CASE UNCHANGED vars \/ Tick
  BY <1>1, <1>2 DEF vars, Tick
<1>3. ASSUME NEW p \in Payments,
             \/ \E ok, odd \in BOOLEAN : Attempt(p, ok, odd)
             \/ \E odd \in BOOLEAN : Debit(p, odd)
      PROVE  Exacts'
  BY <1>3, AttemptCounts
<1>4. ASSUME NEW p \in Payments, NEW r \in Refunds, NEW amount \in 1..Net,
             RefundAtProvider(p, r, amount)
      PROVE  Exacts'
  BY <1>4, RefundCounts DEF RefundAtProvider
<1>5. ASSUME NEW s \in Slots, NEW p \in Payments,
             \/ Quote(s, p) \/ Verify(s, p) \/ ChargeSeen(s, p) \/ \E r \in Refunds : AskRefund(s, p, r)
      PROVE  Exacts'
  <2>1. UNCHANGED <<row, remote>>
    BY <1>5, Zenon DEF Quote, Verify, ChargeSeen, AskRefund
  <2> QED BY <1>1, <2>1
<1>6. ASSUME NEW s \in Slots, NEW p \in Payments, \E e \in Sent(p) : Webhook(s, p, e)
      PROVE  Exacts'
  BY <1>6, WebhookCounts
<1>7. ASSUME NEW s \in Slots,
             \/ UserCancels(s) \/ UserReactivates(s) \/ UserTries(s) \/ RewardEarned(s)
             \/ Sweep(s) \/ Crash(s)
      PROVE  Exacts'
  <2>1. UNCHANGED <<row, remote>>
    BY <1>7, Zenon DEF UserCancels, UserReactivates, UserTries, RewardEarned, Sweep, Crash
  <2> QED BY <1>1, <2>1
<1>8. ASSUME NEW s \in Slots, Step(s) PROVE Exacts'
  <2>1. CASE InsertRow(s) \/ (\E ok \in BOOLEAN : CreateOrder(s, ok)) \/ Claim(s) \/ FailPayment(s)
             \/ RecordCharge(s) \/ LinkPayment(s)
    BY <2>1, InsertRowCounts, CreateOrderCounts, ClaimCounts, RecordChargeCounts, LinkPaymentCounts
  <2>2. CASE (\E amount \in 1..Net : ProviderRefunds(s, amount)) \/ ApplyRefund(s)
    BY <2>2, ProviderRefundsCounts, ApplyRefundCounts
  <2>3. CASE \/ ReadPlan(s) \/ ReadPeriod(s) \/ WritePlan(s) \/ (\E ok \in BOOLEAN : WriteHistory(s, ok)) \/ AddBonus(s)
             \/ NextStuck(s) \/ FindHistory(s) \/ GuessApplied(s) \/ Backfill(s)
             \/ ComparePeriod(s) \/ Cancel(s) \/ SaveCancel(s)
             \/ Reactivate(s) \/ (\E plan \in Paid : StartTrial(s, plan)) \/ GrantFreeDays(s)
    <3>1. UNCHANGED <<row, remote>>
      BY <2>3, Zenon DEF ReadPlan, ReadPeriod, WritePlan, WriteHistory, AddBonus, NextStuck,
         FindHistory, GuessApplied, Backfill, ComparePeriod, Cancel, SaveCancel,
         Reactivate, StartTrial, GrantFreeDays
    <3> QED BY <1>1, <3>1
  <2> QED BY <1>8, <2>1, <2>2, <2>3, Zenon DEF Step
<1> QED BY <1>2, <1>3, <1>4, <1>5, <1>6, <1>7, <1>8, Zenon DEF Next

\* The three invariants give the types and what is recorded.
LEMMA ExactTyped ==
  ASSUME Core, Plans, Exacts
  PROVE  RefundExact
<1>1. ASSUME NEW p \in Payments
      PROVE  /\ row[p].refunded = Total(remote[p].refunds, row[p].refundIds)
             /\ row[p].refunded \in 0..Net
             /\ row[p].status = "refunded" <=> row[p].refunded = Net
  <2>1. row[p] \in Row /\ remote[p] \in Remote
    BY DEF Core, Types
  <2>2. PICK f \in [Refunds -> Nat], ids \in SUBSET Refunds :
          f = remote[p].refunds /\ ids = row[p].refundIds
    BY <2>1, RowTyped, RemoteTyped
  <2>3. Counted(row[p], f)
    BY <2>2 DEF Exacts
  <2>4. /\ row[p].refunded = Total(f, ids) /\ Total(f, Refunds) <= Net
        /\ row[p].status = "refunded" <=> row[p].refunded = Net
    BY <2>2, <2>3 DEF Counted
  <2>5. Total(f, ids) <= Total(f, Refunds) /\ Total(f, ids) \in Nat /\ Total(f, Refunds) \in Nat
    BY TotalMono, TotalNat
  <2> QED BY <2>2, <2>4, <2>5, Constants
<1>2. row \in [Payments -> [status : Statuses, linked : BOOLEAN, end : Nat, created : Nat,
        touched : Nat, events : SUBSET (EventKinds \X (Refunds \cup {""})),
        refundIds : SUBSET Refunds, refunded : 0..Net, flagged : BOOLEAN]]
  <2>1. row \in [Payments -> Row]
    BY DEF Core, Types
  <2> QED BY <1>1, <2>1 DEF Row, Events
<1>3. now \in 1..MaxTime /\ sub \in Sub /\ (sub.plan = "free" => sub.end = 0)
  BY DEF Core, Types, Plans, PeriodFits
<1>4. history \subseteq {p \in Payments : granted[p] > 0}
  BY DEF Core, Types, Granted
<1>5. ASSUME NEW p \in Payments
      PROVE  /\ row[p].end # 0 => row[p].linked /\ row[p].status \notin {"none", "created", "failed"}
             /\ granted[p] > 0 => remote[p].captured
  <2>1. Taken(p) /\ granted[p] \in Nat
    BY DEF Core, Types
  <2> QED BY <2>1 DEF Taken, Unsettled
<1>6. \A s \in Slots : task[s].pc = "idle" => task[s] = Idle
  BY DEF Core, Types, Begun
<1>7. TypeOK
  BY <1>1, <1>2, <1>3, <1>4, <1>5, <1>6 DEF TypeOK, Sub
<1> QED BY <1>1, <1>7 DEF RefundExact

\* What is recorded as refunded is what the provider refunded, whichever of the two
\* events and the administrator's request brings a refund, and however often.
THEOREM RefundExactAlways == Spec => []RefundExact
<1>1. Init => Core /\ Plans /\ Exacts
  BY CoreInit, PlansInit, ExactsInit
<1>2. Core /\ Plans /\ Exacts /\ [Next]_vars => (Core /\ Plans /\ Exacts)'
  BY CoreStep, PlansStep, ExactsStep
<1>3. Core /\ Plans /\ Exacts => RefundExact
  BY ExactTyped
<1> QED BY <1>1, <1>2, <1>3, PTL DEF Spec

=============================================================================
