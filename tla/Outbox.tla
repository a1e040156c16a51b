------------------------------- MODULE Outbox -------------------------------
(***************************************************************************)
(* The outbox that carries domain events from the writes that raise them   *)
(* to their handlers, and doubles as the queue of export jobs.  A worker   *)
(* is one tick of the dispatcher: ticks start every 2.5 s on every         *)
(* instance whether or not the last one ended, so workers overlap freely.  *)
(* One action per database round trip; a worker that crashes (its process  *)
(* dies, or the save of an outcome throws) abandons its batch.             *)
(*                                                                         *)
(* Three kinds of event: a requested export; a recorded payment of an      *)
(* order's invoice, whose handler recomputes the order's cached figure;    *)
(* and a shared reminder, published again by every further share of a day. *)
(* Left out: the content of notifications, archives and e-mails, sockets,  *)
(* the report cache.                                                       *)
(***************************************************************************)
EXTENDS Naturals, Sequences, FiniteSets, SequencesExt

CONSTANTS
  Exports,    \* export requests that may be made, and their rows; numbers, so
  Payments,   \* are payments of the order: ids are handed out in ascending order
  Shares,     \* reminders that may be shared, each any number of times
  Workers,    \* slots for ticks that run at the same time, the lowest free one
              \* taken first
  MaxAttempts,
  BatchSize,
  MaxEvents,  \* bound: events asked for
  MaxCrashes  \* bound: ticks that may be abandoned

ASSUME OutboxAssumption ==
  /\ Exports \cup Payments \cup Workers \subseteq Nat
  /\ Exports \cap Payments = {} /\ Shares \cap (Exports \cup Payments) = {}
  /\ MaxAttempts \in Nat \ {0} /\ BatchSize \in Nat \ {0}
  /\ MaxEvents \in Nat /\ MaxCrashes \in Nat

VARIABLES
  outbox,    \* events in the order they were published
  event,     \* [Events -> status, attempts, whether availableAt has passed]
  worker,    \* each tick's program counter and what it has read
  row,       \* status of each DataExport row
  archives,  \* rows that hold an object key
  request,   \* progress of each requestExport call
  paid,      \* payments the order's live invoices show
  cache,     \* payments the order's cached figure shows
  crashes,
  failures,  \* history: failed dispatches of each event
  overlapped \* history: two recomputations of the cache were under way at once

vars == <<outbox, event, worker, row, archives, request, paid, cache,
          crashes, failures, overlapped>>

Events == Exports \cup Payments \cup Shares
\* A worker that is to claim the first of a batch.
Facing(batch) == [pc |-> IF batch = <<>> THEN "idle" ELSE "claim", batch |-> batch,
                  tries |-> 0, stale |-> {}, seen |-> {}]
Idle == Facing(<<>>)
\* The event a running worker has in hand.
Current(w) == Head(worker[w].batch).id
Handling(w) == worker[w].pc \notin {"idle", "claim"}

TypeOK ==
  /\ outbox \in Seq(Events) /\ IsInjective(outbox)
  /\ event \in [Events -> [status : {"none", "pending", "processing", "processed", "failed"},
                           attempts : Nat, due : BOOLEAN]]
  /\ \A e \in Events : event[e].status # "none" <=> e \in Range(outbox)
  /\ \A w \in Workers :
       /\ worker[w].pc \in {"idle", "claim", "start", "build", "discard", "clear",
                            "announce", "notify", "derive", "write", "done", "fail"}
       /\ worker[w].pc # "idle" <=> worker[w].batch # <<>>
       /\ worker[w].stale \subseteq Exports /\ worker[w].seen \subseteq Payments
  /\ row \in [Exports -> {"none", "queued", "processing", "completed", "failed"}]
  /\ archives \subseteq Exports
  /\ request \in [Exports -> {"none", "asked", "clear", "created", "done"}]
  /\ cache \subseteq paid /\ paid \subseteq Payments
  /\ crashes \in 0..MaxCrashes

Init ==
  /\ outbox = <<>>
  /\ event = [e \in Events |-> [status |-> "none", attempts |-> 0, due |-> FALSE]]
  /\ worker = [w \in Workers |-> Idle]
  /\ row = [x \in Exports |-> "none"]
  /\ archives = {}
  /\ request = [x \in Exports |-> "none"]
  /\ paid = {} /\ cache = {}
  /\ crashes = 0
  /\ failures = [e \in Events |-> 0]
  /\ overlapped = FALSE

-----------------------------------------------------------------------------
\* Publishing: an upsert on the dedupe key, so an event is inserted once.
Insert(e) ==
  /\ outbox' = Append(outbox, e)
  /\ event' = [event EXCEPT ![e] = [status |-> "pending", attempts |-> 0, due |-> TRUE]]
PublishAgain(e) == Insert(e)
Publish(e) ==
  IF e \in Range(outbox) THEN UNCHANGED <<outbox, event>>
  ELSE Insert(e)

Asked == (Shares \cap Range(outbox)) \cup paid \cup {x \in Exports : request[x] # "none"}
MayAsk == Cardinality(Asked) < MaxEvents

\* A payment is written and its event published in one transaction.
RecordPayment(p) ==
  /\ p \notin paid /\ MayAsk
  /\ \A q \in Payments : q < p => q \in paid
  /\ paid' = paid \cup {p}
  /\ Publish(p)
  /\ UNCHANGED <<worker, row, archives, request, cache, crashes, failures, overlapped>>

Share(s) ==
  /\ MayAsk \/ s \in Range(outbox)
  /\ Publish(s)
  /\ UNCHANGED <<worker, row, archives, request, paid, cache, crashes, failures,
                 overlapped>>

\* requestExport: two reads, then the row, then its event.
RequestStep(x, from, to) ==
  /\ request[x] = from
  /\ request' = [request EXCEPT ![x] = to]
  /\ UNCHANGED <<worker, archives, paid, cache, crashes, failures, overlapped>>

InFlight == {x \in Exports : row[x] \in {"queued", "processing"}}
FindInFlight(x) ==
  /\ MayAsk /\ \A y \in Exports : y < x => request[y] # "none"
  /\ RequestStep(x, "none", IF InFlight = {} THEN "asked" ELSE "none")
  /\ UNCHANGED <<outbox, event, row>>
\* An export completed within the hour refuses the request; an older one does not.
FindRecent(x) ==
  /\ \/ RequestStep(x, "asked", "clear")
     \/ (\E y \in Exports : row[y] = "completed") /\ RequestStep(x, "asked", "none")
  /\ UNCHANGED <<outbox, event, row>>
CreateRow(x) ==
  /\ RequestStep(x, "clear", "created")
  /\ row' = [row EXCEPT ![x] = "queued"]
  /\ UNCHANGED <<outbox, event>>
PublishExport(x) ==
  RequestStep(x, "created", "done") /\ Publish(x) /\ UNCHANGED row

\* A failed event's backoff passes.
BackoffEnds(e) ==
  /\ event[e].status = "failed" /\ ~event[e].due
  /\ event' = [event EXCEPT ![e].due = TRUE]
  /\ UNCHANGED <<outbox, worker, row, archives, request, paid, cache, crashes,
                 failures, overlapped>>

-----------------------------------------------------------------------------
\* The dispatcher.
WaitingOrDone(e) ==
  /\ event[e].status \in {"pending", "failed", "processed"}
  /\ event[e].attempts < MaxAttempts
  /\ event[e].due
Waiting(e) ==
  /\ event[e].status \in {"pending", "failed"}
  /\ event[e].attempts < MaxAttempts
  /\ event[e].due
\* The batch: the first BatchSize of the events that wait, in the order of the outbox.
Candidate(e) == [id |-> e, status |-> event[e].status]
IsFirst(n, at) ==
  /\ \A i \in 1..n : Waiting(outbox[at[i]])
  /\ \A i, j \in 1..n : i < j => at[i] < at[j]
  /\ \A k \in DOMAIN outbox :
       Waiting(outbox[k]) => k \in Range(at) \/ (n = BatchSize /\ k > at[n])

FindCandidates(w) ==
  /\ worker[w].pc = "idle" /\ \A v \in Workers : v < w => worker[v].pc # "idle"
  /\ \E n \in 1..BatchSize : \E at \in [1..n -> DOMAIN outbox] :
       /\ IsFirst(n, at)
       /\ worker' = [worker EXCEPT ![w] = Facing([i \in 1..n |-> Candidate(outbox[at[i]])])]
  /\ UNCHANGED <<outbox, event, row, archives, request, paid, cache, crashes,
                 failures, overlapped>>

NextCandidate(w) == Facing(Tail(worker[w].batch))

\* The claim compares the status the candidate was read with, and nothing else.
ClaimsBlindly(w) == event[Current(w)].status # "none"
CanClaim(w) == event[Current(w)].status = Head(worker[w].batch).status
Claim(w) ==
  /\ worker[w].pc = "claim"
  /\ IF CanClaim(w)
     THEN /\ event' = [event EXCEPT ![Current(w)].status = "processing"]
          /\ worker' = [worker EXCEPT
               ![w].pc = IF Current(w) \in Exports THEN "start" ELSE "notify",
               ![w].tries = event[Current(w)].attempts]
     ELSE /\ worker' = [worker EXCEPT ![w] = NextCandidate(w)]
          /\ UNCHANGED event
  /\ UNCHANGED <<outbox, row, archives, request, paid, cache, crashes,
                 failures, overlapped>>

\* Outcome of a dispatch, saved on the event.
EventProcessed(w) ==
  /\ worker[w].pc = "done"
  /\ event' = [event EXCEPT ![Current(w)].status = "processed"]
  /\ worker' = [worker EXCEPT ![w] = NextCandidate(w)]
  /\ UNCHANGED <<outbox, row, archives, request, paid, cache, crashes,
                 failures, overlapped>>

StaysLocked(w) == [status |-> "processing", attempts |-> worker[w].tries + 1, due |-> FALSE]
Failed(w) == [status |-> "failed", attempts |-> worker[w].tries + 1, due |-> FALSE]
EventFailed(w) ==
  /\ worker[w].pc = "fail"
  /\ event' = [event EXCEPT ![Current(w)] = Failed(w)]
  /\ failures' = [failures EXCEPT ![Current(w)] = @ + 1]
  /\ worker' = [worker EXCEPT ![w] = NextCandidate(w)]
  /\ UNCHANGED <<outbox, row, archives, request, paid, cache, crashes, overlapped>>

\* The tick ends where it stands; what it claimed stays in processing.
Crash(w) ==
  /\ worker[w].pc # "idle" /\ crashes < MaxCrashes
  /\ worker' = [worker EXCEPT ![w] = Idle]
  /\ crashes' = crashes + 1
  /\ UNCHANGED <<outbox, event, row, archives, request, paid, cache, failures,
                 overlapped>>

-----------------------------------------------------------------------------
\* runDataExport.  A failing step marks the row failed and the error goes on
\* to the dispatcher.
ExportStep(w, from) ==
  /\ worker[w].pc = from
  /\ UNCHANGED <<outbox, event, request, paid, cache, crashes, failures, overlapped>>
Goes(w, to) == worker' = [worker EXCEPT ![w].pc = to]
ExportFails(w) ==
  /\ row' = [row EXCEPT ![Current(w)] = "failed"]
  /\ Goes(w, "fail")
  /\ UNCHANGED archives

StartExport(w) ==
  /\ ExportStep(w, "start")
  /\ \/ row[Current(w)] = "completed" /\ Goes(w, "done") /\ UNCHANGED row
     \/ /\ row[Current(w)] # "completed"
        /\ row' = [row EXCEPT ![Current(w)] = "processing"]
        /\ Goes(w, "build")
     \/ Goes(w, "fail") /\ UNCHANGED row
  /\ UNCHANGED archives

BuildAndStore(w) ==
  /\ ExportStep(w, "build")
  /\ \/ /\ row' = [row EXCEPT ![Current(w)] = "completed"]
        /\ archives' = archives \cup {Current(w)}
        /\ Goes(w, "discard")
     \/ ExportFails(w)

SupersededFailed(w) == {x \in archives \ {Current(w)} : row[x] = "failed"}
Superseded(w) == archives \ {Current(w)}
FindSuperseded(w) ==
  /\ ExportStep(w, "discard")
  /\ \/ /\ worker' = [worker EXCEPT ![w].stale = Superseded(w),
                                   ![w].pc = IF Superseded(w) = {} THEN "announce" ELSE "clear"]
        /\ UNCHANGED <<row, archives>>
     \/ ExportFails(w)

ClearSuperseded(w) ==
  /\ ExportStep(w, "clear")
  /\ \/ \E x \in worker[w].stale :
          /\ archives' = archives \ {x}
          /\ worker' = [worker EXCEPT ![w].stale = @ \ {x},
                                      ![w].pc = IF worker[w].stale = {x} THEN "announce" ELSE @]
          /\ UNCHANGED row
     \/ ExportFails(w)

\* The notification; the e-mail after it cannot fail the job.
Announce(w) ==
  /\ ExportStep(w, "announce")
  /\ \/ Goes(w, "done") /\ UNCHANGED <<row, archives>>
     \/ ExportFails(w)

-----------------------------------------------------------------------------
\* A recorded payment: the notification, then the order's figure, read from
\* its invoices and written to the order in two round trips.
PaymentStep(w, from) ==
  /\ worker[w].pc = from
  /\ UNCHANGED <<outbox, event, row, archives, request, paid, crashes, failures>>

Notify(w) ==
  /\ PaymentStep(w, "notify")
  /\ \E to \in {IF Current(w) \in Payments THEN "derive" ELSE "done", "fail"} : Goes(w, to)
  /\ UNCHANGED <<cache, overlapped>>

Derive(w) ==
  /\ PaymentStep(w, "derive")
  /\ worker' = [worker EXCEPT ![w].seen = paid, ![w].pc = "write"]
  /\ overlapped' = (overlapped \/ \E v \in Workers \ {w} : worker[v].pc = "write")
  /\ UNCHANGED cache

SnapshotOfEvent(w) == {Current(w)}
SnapshotOf(w) == worker[w].seen
WriteCache(w) ==
  /\ PaymentStep(w, "write")
  /\ \/ cache' = SnapshotOf(w) /\ Goes(w, "done")
     \/ UNCHANGED cache /\ Goes(w, "fail")
  /\ UNCHANGED overlapped

-----------------------------------------------------------------------------
Dispatch(w) ==
  \/ FindCandidates(w) \/ Claim(w) \/ EventProcessed(w) \/ EventFailed(w)
  \/ StartExport(w) \/ BuildAndStore(w) \/ FindSuperseded(w) \/ ClearSuperseded(w)
  \/ Announce(w) \/ Notify(w) \/ Derive(w) \/ WriteCache(w)
Request(x) == FindInFlight(x) \/ FindRecent(x) \/ CreateRow(x) \/ PublishExport(x)

Next ==
  \/ \E w \in Workers : Dispatch(w) \/ Crash(w)
  \/ \E x \in Exports : Request(x)
  \/ \E p \in Payments : RecordPayment(p)
  \/ \E s \in Shares : Share(s)
  \/ \E e \in Events : BackoffEnds(e)

Spec == Init /\ [][Next]_vars

\* The timer keeps ticking and a tick that does not crash runs on; backoffs pass.
Fairness ==
  /\ \A w \in Workers : WF_vars(Dispatch(w))
  /\ \A e \in Events : WF_vars(BackoffEnds(e))
FairSpec == Spec /\ Fairness

-----------------------------------------------------------------------------
\* An event is in the hands of at most one worker, whatever candidate lists
\* overlapping ticks hold, and so the attempts it records are the dispatches
\* that failed: none is lost to a concurrent save.
ExclusiveDispatch ==
  /\ \A v, w \in Workers :
       Handling(v) /\ Handling(w) /\ Current(v) = Current(w) => v = w
  /\ \A w \in Workers : Handling(w) => event[Current(w)].status = "processing"
  /\ \A e \in Events : event[e].attempts = failures[e]

\* "storage stays bounded at one live archive per business": of the exports
\* whose event is processed at most one still holds its archive, although two
\* requests may run at once and either may be retried.
OneLiveArchive ==
  \A x, y \in archives :
    event[x].status = "processed" /\ event[y].status = "processed" => x = y

\* When every recorded payment's event is processed, the order's cached figure
\* is the one its invoices show, unless two recomputations overlapped (then the
\* later write may carry the older read); and every variable has its type.
CacheExact ==
  TypeOK /\ ((~overlapped /\ \A p \in paid : event[p].status = "processed") => cache = paid)

\* In the end every published event is processed or out of attempts, for good,
\* and only a worker that was abandoned leaves one in processing.
Abandoned(e) ==
  event[e].status = "processing" /\ \A w \in Workers : ~(Handling(w) /\ Current(w) = e)
Settled(e) ==
  \/ event[e].status = "processed" \/ event[e].attempts >= MaxAttempts
  \/ crashes > 0 /\ Abandoned(e)
EventsSettle == <>[](\A e \in Events : event[e].status = "none" \/ Settled(e))

\* The queue implements at-least-once delivery with a final acknowledgement.
Phase == [e \in Events |->
  CASE event[e].status \in {"pending", "failed"} -> "waiting"
    [] event[e].status = "processing" -> "running"
    [] event[e].status = "processed" -> "delivered"
    [] OTHER -> "none"]
Promise == INSTANCE DeliveryPromise WITH
  phase <- Phase, tries <- [e \in Events |-> event[e].attempts]
DeliveryPromised == Promise!Spec
=============================================================================
