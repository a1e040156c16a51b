------------------------------- MODULE Notices -------------------------------
(***************************************************************************)
(* The notices about one invoice and one product.  Events of the outbox    *)
(* are projected to notices, and an hourly sweep, which opening the app    *)
(* runs too, writes those that time brings.  Notices are rewritten under   *)
(* one key, and pushed to the phones when first made, by a call that       *)
(* nobody waits for.  Goods bought or sent back move stock with no event.  *)
(***************************************************************************)
EXTENDS Naturals, FiniteSets

CONSTANTS
  Events,    \* outbox events, published in this order: 1..n
  Tasks,     \* dispatchers and sweeps that overlap
  MaxSweeps, MaxFaults, MaxChanges   \* bounds: sweeps, failures, changes with no event

\* What is assumed of the constants.
NoticesShape ==
  /\ Events \subseteq Nat \ {0}
  /\ MaxSweeps \in Nat /\ MaxFaults \in Nat /\ MaxChanges \in Nat

VARIABLES
  owing, due,    \* the invoice: is it owed, and how near is its due date
  level,         \* the stock of the product
  event,         \* [Events -> its kind and state]
  made, open,    \* notices that exist, and those not resolved
  sending,       \* new notices whose push is under way
  pushed,        \* [Notice -> pushes sent]
  task,          \* [Tasks -> what it does]
  sweeps, faults, changes,
  unnamed,       \* ghost: the invoice was settled, and no event left to tell of it
  untold,        \* ghost: stock moved, and no event left to tell of it
  unsent,        \* ghost: notices whose push was lost
  outgrown,      \* ghost: shortages left open when the other one was written
  stale          \* ghost: SUBSET {"invoice", "product"}, last written from an old read

vars == <<owing, due, level, event, made, open, sending, pushed, task, sweeps, faults, changes,
          unnamed, untold, unsent, outgrown, stale>>

Reminders == {"soon", "late"}
Shortages == {"low", "below"}
Notice == Reminders \cup Shortages \cup {"paid"}
NoEvent == [kind |-> "none", done |-> FALSE]
Idle == [pc |-> "idle", event |-> 0, read |-> {}]

Init ==
  /\ owing = TRUE /\ due = "early" /\ level = "ok"
  /\ event = [e \in Events |-> NoEvent]
  /\ made = {} /\ open = {} /\ sending = {} /\ pushed = [n \in Notice |-> 0]
  /\ task = [t \in Tasks |-> Idle]
  /\ sweeps = 0 /\ faults = 0 /\ changes = 0
  /\ unnamed = FALSE /\ untold = FALSE /\ unsent = {} /\ outgrown = {} /\ stale = {}

TypeOK ==
  /\ owing \in BOOLEAN /\ due \in {"early", "soon", "late"} /\ level \in {"ok", "low", "below"}
  /\ event \in [Events -> [kind : {"none", "paid", "stock"}, done : BOOLEAN]]
  /\ open \subseteq made /\ made \subseteq Notice
  /\ sending \subseteq made /\ unsent \subseteq made
  /\ pushed \in [Notice -> Nat]
  /\ task \in [Tasks -> [pc : {"idle", "project", "tell", "stock", "sweep"},
                         event : {0} \cup Events, read : SUBSET (Notice \cup {"ok"})]]
  /\ sweeps \in 0..MaxSweeps /\ faults \in 0..MaxFaults /\ changes \in 0..MaxChanges
  /\ unnamed \in BOOLEAN /\ untold \in BOOLEAN
  /\ outgrown \subseteq Shortages /\ stale \subseteq {"invoice", "product"}

world == <<owing, due, level, event, unnamed, untold>>
phones == <<pushed, unsent>>
rows == <<made, open, sending, outgrown, stale, phones>>
bounds == <<sweeps, faults, changes>>

\* An event is still to be acted on by a task that has not read the world yet.
ToCome(kind) ==
  \E e \in Events : /\ event[e].kind = kind /\ ~event[e].done
                    /\ \A t \in Tasks : task[t].event = e => task[t].pc = "project"

-----------------------------------------------------------------------------
\* The world: the invoice is paid, owed again or grows old, and goods move.
Publish(kind) ==
  \E e \in Events :
    /\ event[e].kind = "none" /\ \A d \in Events : event[d].kind = "none" => e <= d
    /\ event' = [event EXCEPT ![e].kind = kind]

Change == changes < MaxChanges /\ changes' = changes + 1 /\ UNCHANGED <<sweeps, faults>>
Pay ==
  /\ owing /\ owing' = FALSE /\ Publish("paid")
  /\ UNCHANGED <<due, level, unnamed, untold, rows, task, bounds>>

\* Credit applied, or a receipt over several invoices, whose event names one of them.
PayUnnamed ==
  /\ owing /\ owing' = FALSE /\ unnamed' = TRUE /\ Change
  /\ UNCHANGED <<due, level, event, untold, rows, task>>
OweAgain ==
  /\ ~owing /\ owing' = TRUE /\ unnamed' = FALSE /\ Change
  /\ UNCHANGED <<due, level, event, untold, rows, task>>
Age ==
  /\ due # "late" /\ due' = IF due = "early" THEN "soon" ELSE "late"
  /\ UNCHANGED <<owing, level, event, unnamed, untold, rows, task, bounds>>

\* A sale, its cancellation or an edit of the product tells of the movement; a purchase and
\* its cancellation do not.
MoveStock(to) ==
  /\ level # to /\ level' = to /\ Publish("stock") /\ untold' = FALSE
  /\ UNCHANGED <<owing, due, unnamed, rows, task, bounds>>

Receive(to) ==
  /\ level # to /\ level' = to /\ untold' = ~ToCome("stock") /\ Change
  /\ UNCHANGED <<owing, due, event, unnamed, rows, task>>

-----------------------------------------------------------------------------
\* upsertNotification: the row is written whole, unresolved, and its push begins when it is
\* new.  The notice of the other shortage stays as it is.
Others(n) == IF n \in Shortages THEN (open \cap Shortages) \ {n} ELSE outgrown
Upsert(n) ==
  /\ made' = made \cup {n} /\ open' = open \cup {n}
  /\ sending' = IF n \in made THEN sending ELSE sending \cup {n}
  /\ outgrown' = Others(n)
  /\ UNCHANGED phones
Resolve(kinds) ==
  open' = open \ kinds /\ outgrown' = outgrown \ kinds /\ UNCHANGED <<made, sending, phones>>

\* sendPushForNotification, some time after; its failure is only logged.
Push(n) ==
  /\ n \in sending /\ sending' = sending \ {n} /\ pushed' = [pushed EXCEPT ![n] = @ + 1]
  /\ UNCHANGED <<world, made, open, outgrown, stale, unsent, task, bounds>>
LosePush(n) ==
  /\ n \in sending /\ sending' = sending \ {n} /\ unsent' = unsent \cup {n}
  /\ faults < MaxFaults /\ faults' = faults + 1
  /\ UNCHANGED <<world, made, open, outgrown, stale, pushed, task, sweeps, changes>>

\* dispatchOutboxEvent, for an event pending or to be retried.
Dispatch(t, e) ==
  /\ task[t].pc = "idle"
  /\ event[e].kind # "none" /\ ~event[e].done /\ \A u \in Tasks : task[u].event # e
  /\ task' = [task EXCEPT ![t] = [Idle EXCEPT !.pc = "project", !.event = e]]
  /\ UNCHANGED <<world, rows, bounds>>

\* paymentRecorded: the reminders are resolved, then the payment is told of.
ResolvedLate == {"late"}
Resolved == Reminders
ProjectPayment(t) ==
  /\ task[t].pc = "project" /\ event[task[t].event].kind = "paid"
  /\ Resolve(Resolved) /\ stale' = stale \ {"invoice"}
  /\ task' = [task EXCEPT ![t].pc = "tell"]
  /\ UNCHANGED <<world, bounds>>
Done(t) ==
  /\ event' = [event EXCEPT ![task[t].event].done = TRUE]
  /\ task' = [task EXCEPT ![t] = Idle]
TellPayment(t) ==
  /\ task[t].pc = "tell"
  /\ Upsert("paid") /\ Done(t)
  /\ UNCHANGED <<owing, due, level, unnamed, untold, stale, bounds>>

\* stockAdjusted: the product is read, and its notice written a round trip later.
ReadStock(t) ==
  /\ task[t].pc = "project" /\ event[task[t].event].kind = "stock"
  /\ task' = [task EXCEPT ![t].pc = "stock", ![t].read = {level}]
  /\ untold' = FALSE
  /\ UNCHANGED <<owing, due, level, event, unnamed, rows, bounds>>
StaleProduct(n) ==
  IF n = level \/ ToCome("stock") THEN stale \ {"product"} ELSE stale \cup {"product"}
TellsProduct(n) == stale' = StaleProduct(n) /\ untold' = (untold /\ n # level)
WriteStock(t) ==
  /\ task[t].pc = "stock"
  /\ \E n \in task[t].read :
       /\ IF n = "ok" THEN Resolve(Shortages) ELSE Upsert(n)
       /\ TellsProduct(n)
  /\ Done(t)
  /\ UNCHANGED <<owing, due, level, unnamed, bounds>>

\* A dispatch that fails is tried again from its beginning.
Fail(t) ==
  /\ task[t].pc \in {"project", "tell", "stock"} /\ faults < MaxFaults /\ faults' = faults + 1
  /\ task' = [task EXCEPT ![t] = Idle]
  /\ UNCHANGED <<world, rows, sweeps, changes>>

\* The process that runs a task dies: its event stays claimed, and nobody takes it up again.
Abandons(t, kind) ==
  task[t].event # 0 /\ event[task[t].event].kind = kind /\ task[t].pc # "tell"
Crash(t) ==
  /\ task[t].pc # "idle" /\ faults < MaxFaults /\ faults' = faults + 1
  /\ event' = [e \in Events |-> IF e = task[t].event THEN [event[e] EXCEPT !.done = TRUE]
                                ELSE event[e]]
  /\ task' = [task EXCEPT ![t] = Idle]
  /\ unnamed' = (unnamed \/ (Abandons(t, "paid") /\ ~owing /\ ~ToCome("paid")'))
  /\ untold' = (untold \/ (Abandons(t, "stock") /\ ~ToCome("stock")'))
  /\ UNCHANGED <<owing, due, level, rows, sweeps, changes>>

-----------------------------------------------------------------------------
\* materializeReminderNotifications: five lists are read, and what is on them is written.
Sweep(t) ==
  /\ task[t].pc = "idle" /\ sweeps < MaxSweeps /\ sweeps' = sweeps + 1
  /\ task' = [task EXCEPT ![t] =
       [Idle EXCEPT !.pc = "sweep",
                    !.read = (IF owing /\ due # "early" THEN {due} ELSE {}) \cup
                             (IF level # "ok" THEN {level} ELSE {})]]
  /\ UNCHANGED <<world, rows, faults, changes>>
WriteNotice(t, n) ==
  /\ task[t].pc = "sweep" /\ n \in task[t].read
  /\ Upsert(n)
  /\ IF n \in Shortages THEN TellsProduct(n)
     ELSE /\ stale' = IF owing \/ ToCome("paid") THEN stale ELSE stale \cup {"invoice"}
          /\ UNCHANGED untold
  /\ task' = [task EXCEPT ![t].read = @ \ {n}]
  /\ UNCHANGED <<owing, due, level, event, unnamed, bounds>>
EndSweep(t) ==
  /\ task[t].pc = "sweep" /\ task[t].read = {}
  /\ task' = [task EXCEPT ![t] = Idle]
  /\ UNCHANGED <<world, rows, bounds>>

Next ==
  \/ Pay \/ PayUnnamed \/ OweAgain \/ Age
  \/ \E to \in Shortages \cup {"ok"} : MoveStock(to) \/ Receive(to)
  \/ \E n \in Notice : Push(n) \/ LosePush(n)
  \/ \E t \in Tasks :
       \/ \E e \in Events : Dispatch(t, e)
       \/ ProjectPayment(t) \/ TellPayment(t) \/ ReadStock(t) \/ WriteStock(t) \/ Fail(t)
       \/ Crash(t) \/ Sweep(t) \/ EndSweep(t)
       \/ \E n \in Notice : WriteNotice(t, n)

Spec == Init /\ [][Next]_vars

-----------------------------------------------------------------------------
Quiet ==
  /\ \A t \in Tasks : task[t].pc = "idle"
  /\ \A e \in Events : event[e].kind # "none" => event[e].done

\* When no event is waiting and nothing runs, nobody is reminded of an invoice that is not
\* owed, unless no event was left to name it or a sweep wrote after the payment's event.  The
\* product's notice is that of its level, with the same exceptions, goods bought among them;
\* the notice of the other shortage is open only if it was when this one was written
\* (notificationService).  A notice is pushed once, however often it is rewritten, unless its
\* push is under way or was lost (upsertNotification).
NoticesExact ==
  /\ Quiet =>
       /\ owing \/ unnamed \/ "invoice" \in stale \/ open \cap Reminders = {}
       /\ \/ "product" \in stale \/ untold
          \/ IF level = "ok" THEN open \cap Shortages = {}
             ELSE level \in open /\ open \cap Shortages \subseteq {level} \cup outgrown
  /\ \A n \in Notice : pushed[n] = IF n \in made \ (sending \cup unsent) THEN 1 ELSE 0
=============================================================================
