---------------------------- MODULE OutboxProofs ----------------------------
(***************************************************************************)
(* What the outbox guarantees whatever the number of events and workers,   *)
(* the batch size, the attempts allowed and the crashes.                   *)
(***************************************************************************)
EXTENDS Outbox, SequenceTheorems, TLAPS

Entry == [id : Events, status : {"pending", "failed"}]
Record == [pc : {"idle", "claim", "start", "build", "discard", "clear", "announce",
                 "notify", "derive", "write", "done", "fail"},
           batch : Seq(Entry), tries : Nat, stale : SUBSET Exports, seen : SUBSET Payments]

\* What a worker has in hand suits what it does.
Fits(r, rows) ==
  /\ r.pc = "idle" <=> r.batch = <<>>
  /\ r.pc \in {"start", "build", "discard", "clear", "announce"} => Head(r.batch).id \in Exports
  /\ r.pc \in {"derive", "write"} => Head(r.batch).id \in Payments
  /\ r.pc = "notify" => Head(r.batch).id \notin Exports
  /\ r.seen \subseteq rows

\* A payment is published with its row.
Shape ==
  /\ TypeOK
  /\ worker \in [Workers -> Record] /\ \A w \in Workers : Fits(worker[w], paid)
  /\ failures \in [Events -> Nat] /\ overlapped \in BOOLEAN
  /\ \A p \in Payments : event[p].status # "none" => p \in paid

\* An event is in the hands of one worker, which knows its attempts, and was found waiting.
Exclusive ==
  /\ ExclusiveDispatch
  /\ \A w \in Workers : Handling(w) => worker[w].tries = event[Current(w)].attempts
  /\ \A e \in Events : event[e].status = "none" => event[e].attempts = 0

-----------------------------------------------------------------------------
(***************************************************************************)
(* The shape of the state.                                                 *)
(***************************************************************************)
LEMMA BatchHead ==
  ASSUME Shape, NEW w \in Workers, worker[w].pc # "idle"
  PROVE  /\ worker[w].batch # <<>>
         /\ Head(worker[w].batch) \in Entry /\ Current(w) \in Events
<1>1. worker[w].batch \in Seq(Entry) /\ worker[w].batch # <<>>
  BY DEF Shape, TypeOK, Record, Fits
<1>2. Head(worker[w].batch) \in Entry
  BY <1>1, HeadTailProperties
<1> QED BY <1>1, <1>2 DEF Current, Entry

LEMMA FacingIsRecord ==
  ASSUME NEW batch \in Seq(Entry)
  PROVE  /\ Facing(batch) \in Record /\ Facing(batch).batch = batch
         /\ Facing(batch).pc = IF batch = <<>> THEN "idle" ELSE "claim"
         /\ Facing(batch).seen = {} /\ Facing(batch).stale = {}
BY DEF Facing, Record

LEMMA IdleIsRecord == Idle \in Record /\ Idle.pc = "idle" /\ Idle.seen = {} /\ Idle.batch = <<>>
BY EmptySeq, FacingIsRecord DEF Idle

LEMMA NextIsRecord ==
  ASSUME Shape, NEW w \in Workers, worker[w].pc # "idle"
  PROVE  /\ NextCandidate(w) \in Record
         /\ NextCandidate(w).pc \in {"idle", "claim"} 
         /\ \A rows : Fits(NextCandidate(w), rows)
<1>1. Tail(worker[w].batch) \in Seq(Entry)
  BY BatchHead, HeadTailProperties DEF Shape, Record
<1> QED BY <1>1, FacingIsRecord DEF NextCandidate, Fits

\* Publishing keeps the events and the outbox in step.
LEMMA PublishKeeps ==
  ASSUME Shape, NEW e \in Events, Publish(e)
  PROVE  /\ outbox' \in Seq(Events) /\ IsInjective(outbox')
         /\ event' \in [Events -> [status : {"none", "pending", "processing", "processed",
                                             "failed"}, attempts : Nat, due : BOOLEAN]]
         /\ \A x \in Events : event'[x].status # "none" <=> x \in Range(outbox')
         /\ \A x \in Events :
              \/ event'[x] = event[x]
              \/ x = e /\ event[x].status = "none"
                 /\ event'[x] = [status |-> "pending", attempts |-> 0, due |-> TRUE]
<1>1. CASE e \in Range(outbox)
  BY <1>1 DEF Publish, Shape, TypeOK
<1>2. CASE e \notin Range(outbox)
  <2>1. /\ outbox' = Append(outbox, e)
        /\ event' = [event EXCEPT ![e] = [status |-> "pending", attempts |-> 0, due |-> TRUE]]
    BY <1>2 DEF Publish, Insert
  <2>2. /\ outbox \in Seq(Events) /\ Len(outbox) \in Nat
        /\ DOMAIN outbox = 1..Len(outbox)
    BY LenProperties DEF Shape, TypeOK
  <2>3. /\ outbox' \in Seq(Events) /\ Len(outbox') = Len(outbox) + 1
        /\ \A i \in 1..Len(outbox) : outbox'[i] = outbox[i]
        /\ outbox'[Len(outbox) + 1] = e
    BY <2>1, <2>2, AppendProperties
  <2>4. DOMAIN outbox' = 1..(Len(outbox) + 1)
    BY <2>3, LenProperties
  <2>5. IsInjective(outbox')
    <3>1. SUFFICES ASSUME NEW a \in 1..(Len(outbox) + 1), NEW b \in 1..(Len(outbox) + 1),
                          outbox'[a] = outbox'[b]
                   PROVE a = b
      BY <2>4 DEF IsInjective
    <3>2. \A i \in 1..Len(outbox) : outbox'[i] # e
      BY <2>2, <2>3, <1>2 DEF Range
    <3>3. \A i, j \in 1..Len(outbox) : outbox[i] = outbox[j] => i = j
      BY <2>2 DEF Shape, TypeOK, IsInjective
    <3> QED BY <3>1, <3>2, <3>3, <2>2, <2>3
  <2>6. Range(outbox') = Range(outbox) \cup {e}
    BY <2>2, <2>3, <2>4 DEF Range
  <2>7. event[e].status = "none"
    BY <1>2 DEF Shape, TypeOK
  <2> QED BY <2>1, <2>3, <2>5, <2>6, <2>7 DEF Shape, TypeOK
<1> QED BY <1>1, <1>2

\* A worker that moves to another record that fits leaves the workers in shape.
LEMMA MoveKeeps ==
  ASSUME Shape, NEW w \in Workers, NEW r \in Record, worker' = [worker EXCEPT ![w] = r],
         Fits(r, paid'), paid \subseteq paid'
  PROVE  worker' \in [Workers -> Record] /\ \A v \in Workers : Fits(worker'[v], paid')
BY DEF Shape, Fits

\* So does one that only goes on to another step of what it has in hand.
LEMMA GoKeeps ==
  ASSUME Shape, NEW w \in Workers, worker[w].pc # "idle", NEW q,
         worker' = [worker EXCEPT ![w].pc = q], paid \subseteq paid',
         \/ q \in {"done", "fail"}
         \/ q \in {"start", "build", "discard", "clear", "announce"} /\ Current(w) \in Exports
         \/ q \in {"derive", "write"} /\ Current(w) \in Payments
         \/ q = "notify" /\ Current(w) \notin Exports
  PROVE  worker' \in [Workers -> Record] /\ \A v \in Workers : Fits(worker'[v], paid')
<1> DEFINE r == [worker[w] EXCEPT !.pc = q]
<1>1. worker[w] \in Record /\ worker[w].batch # <<>> /\ worker[w].seen \subseteq paid
  BY BatchHead DEF Shape, Fits
<1>2. /\ r \in Record /\ r.pc = q /\ r.batch = worker[w].batch /\ r.seen = worker[w].seen
  BY <1>1 DEF Record
<1>3. worker' = [worker EXCEPT ![w] = r]
  BY <1>1 DEF Shape
<1> HIDE DEF r
<1>4. Fits(r, paid')
  BY <1>1, <1>2 DEF Fits, Current
<1> QED BY <1>2, <1>3, <1>4, MoveKeeps

\* What is left to show of the shape once the workers are known to be in shape.
LEMMA ShapeFrom ==
  ASSUME Shape, worker' \in [Workers -> Record], \A w \in Workers : Fits(worker'[w], paid'),
         outbox' \in Seq(Events) /\ IsInjective(outbox'),
         event' \in [Events -> [status : {"none", "pending", "processing", "processed",
                                         "failed"}, attempts : Nat, due : BOOLEAN]],
         \A e \in Events : event'[e].status # "none" <=> e \in Range(outbox'),
         row' \in [Exports -> {"none", "queued", "processing", "completed", "failed"}],
         archives' \subseteq Exports,
         request' \in [Exports -> {"none", "asked", "clear", "created", "done"}],
         cache' \subseteq paid' /\ paid' \subseteq Payments,
         crashes' \in 0..MaxCrashes,
         failures' \in [Events -> Nat], overlapped' \in BOOLEAN,
         \A p \in Payments : event'[p].status # "none" => p \in paid'
  PROVE  Shape'
<1>1. \A w \in Workers :
        /\ worker'[w].pc \in {"idle", "claim", "start", "build", "discard", "clear",
                             "announce", "notify", "derive", "write", "done", "fail"}
        /\ worker'[w].pc # "idle" <=> worker'[w].batch # <<>>
        /\ worker'[w].stale \subseteq Exports /\ worker'[w].seen \subseteq Payments
  BY DEF Record, Fits
<1> QED BY <1>1 DEF Shape, TypeOK

\* The type of the variables but the workers, as a step that leaves them alone keeps it.
LEMMA SameEvents ==
  ASSUME Shape, UNCHANGED <<outbox, event>>
  PROVE  /\ outbox' \in Seq(Events) /\ IsInjective(outbox')
         /\ event' \in [Events -> [status : {"none", "pending", "processing", "processed",
                                         "failed"}, attempts : Nat, due : BOOLEAN]]
         /\ \A e \in Events : event'[e].status # "none" <=> e \in Range(outbox')
BY DEF Shape, TypeOK

\* A step that changes how far a published event got, and no more of it.
LEMMA MarkedEvent ==
  ASSUME Shape, NEW e \in Events, event[e].status # "none", NEW r,
         r \in [status : {"pending", "processing", "processed", "failed"}, attempts : Nat,
               due : BOOLEAN],
         event' = [event EXCEPT ![e] = r], outbox' = outbox, paid' = paid
  PROVE  /\ outbox' \in Seq(Events) /\ IsInjective(outbox')
         /\ event' \in [Events -> [status : {"none", "pending", "processing", "processed",
                                         "failed"}, attempts : Nat, due : BOOLEAN]]
         /\ \A x \in Events : event'[x].status # "none" <=> x \in Range(outbox')
         /\ \A p \in Payments : event'[p].status # "none" => p \in paid'
BY DEF Shape, TypeOK

LEMMA ShapeInit == Init => Shape
<1> SUFFICES ASSUME Init PROVE Shape
  OBVIOUS
<1>1. /\ worker \in [Workers -> Record]
      /\ \A w \in Workers : worker[w].pc = "idle" /\ worker[w].batch = <<>> /\ worker[w].seen = {}
  BY IdleIsRecord DEF Init
<1>2. \A w \in Workers : Fits(worker[w], paid)
  BY <1>1 DEF Fits
<1>3. outbox \in Seq(Events) /\ DOMAIN outbox = {} /\ Range(outbox) = {}
  BY EmptySeq, LenProperties DEF Init, Range
<1>4. TypeOK
  <2>1. IsInjective(outbox)
    BY <1>3 DEF IsInjective
  <2>2. \A w \in Workers : worker[w].stale \subseteq Exports
    BY <1>1 DEF Record
  <2>3. 0 \in 0..MaxCrashes
    BY OutboxAssumption
  <2> QED BY <1>1, <1>3, <2>1, <2>2, <2>3 DEF Init, TypeOK
<1> QED BY <1>1, <1>2, <1>4 DEF Init, Shape, Events

\* Nothing but workers and events, of what Shape tells, is changed by a step of the queue.
LEMMA SameData ==
  ASSUME Shape, UNCHANGED <<row, archives, request, paid, cache>>
  PROVE  /\ row' \in [Exports -> {"none", "queued", "processing", "completed", "failed"}]
         /\ archives' \subseteq Exports
         /\ request' \in [Exports -> {"none", "asked", "clear", "created", "done"}]
         /\ cache' \subseteq paid' /\ paid' \subseteq Payments
BY DEF Shape, TypeOK

LEMMA SameHistory ==
  ASSUME Shape, UNCHANGED <<crashes, failures, overlapped>>
  PROVE  crashes' \in 0..MaxCrashes /\ failures' \in [Events -> Nat] /\ overlapped' \in BOOLEAN
BY DEF Shape, TypeOK

LEMMA SameWorkers ==
  ASSUME Shape, worker' = worker, paid \subseteq paid'
  PROVE  worker' \in [Workers -> Record] /\ \A w \in Workers : Fits(worker'[w], paid')
BY DEF Shape, Fits

LEMMA SamePaid ==
  ASSUME Shape, UNCHANGED <<event, paid>>
  PROVE  \A p \in Payments : event'[p].status # "none" => p \in paid'
BY DEF Shape

LEMMA PublishShape ==
  ASSUME Shape, NEW e \in Events, Publish(e), e \in Payments => e \in paid', paid \subseteq paid'
  PROVE  \A p \in Payments : event'[p].status # "none" => p \in paid'
BY PublishKeeps DEF Shape, Events

\* Requests, payments, shares and the passing of backoffs keep the shape.
LEMMA AskingShape ==
  ASSUME Shape, (\E x \in Exports : Request(x)) \/ (\E p \in Payments : RecordPayment(p))
                \/ (\E s \in Shares : Share(s)) \/ (\E e \in Events : BackoffEnds(e))
  PROVE  Shape'
<1>1. ASSUME NEW x \in Exports, Request(x) PROVE Shape'
  <2>1. /\ UNCHANGED <<worker, archives, paid, cache, crashes, failures, overlapped>>
        /\ request' \in [Exports -> {"none", "asked", "clear", "created", "done"}]
    BY <1>1 DEF Request, FindInFlight, FindRecent, CreateRow, PublishExport, RequestStep, Shape,
             TypeOK
  <2>2. row' \in [Exports -> {"none", "queued", "processing", "completed", "failed"}]
    BY <1>1 DEF Request, FindInFlight, FindRecent, CreateRow, PublishExport, Shape, TypeOK
  <2>3. Publish(x) \/ UNCHANGED <<outbox, event>>
    BY <1>1 DEF Request, FindInFlight, FindRecent, CreateRow, PublishExport
  <2>4. x \in Events /\ x \notin Payments
    BY OutboxAssumption DEF Events
  <2>5. CASE Publish(x)
    BY <2>1, <2>2, <2>4, <2>5, PublishKeeps, PublishShape, SameWorkers, ShapeFrom
       DEF Shape, TypeOK
  <2>6. CASE UNCHANGED <<outbox, event>>
    BY <2>1, <2>2, <2>6, SameEvents, SamePaid, SameWorkers, ShapeFrom DEF Shape, TypeOK
  <2> QED BY <2>3, <2>5, <2>6
<1>2. ASSUME NEW p \in Payments, RecordPayment(p) PROVE Shape'
  <2>1. /\ Publish(p) /\ paid' = paid \cup {p} /\ p \in Events
        /\ UNCHANGED <<worker, row, archives, request, cache, crashes, failures, overlapped>>
    BY <1>2 DEF RecordPayment, Events
  <2> QED BY <2>1, PublishKeeps, PublishShape, SameWorkers, ShapeFrom DEF Shape, TypeOK
<1>3. ASSUME NEW s \in Shares, Share(s) PROVE Shape'
  <2>1. /\ Publish(s) /\ s \in Events /\ s \notin Payments
        /\ UNCHANGED <<worker, row, archives, request, paid, cache, crashes, failures, overlapped>>
    BY <1>3, OutboxAssumption DEF Share, Events
  <2> QED BY <2>1, PublishKeeps, PublishShape, SameWorkers, SameData, SameHistory, ShapeFrom
<1>4. ASSUME NEW e \in Events, BackoffEnds(e) PROVE Shape'
  <2> DEFINE r == [event[e] EXCEPT !.due = TRUE]
  <2>1. /\ event[e].status = "failed" /\ event' = [event EXCEPT ![e] = r]
        /\ UNCHANGED <<outbox, worker, row, archives, request, paid, cache, crashes,
                       failures, overlapped>>
    BY <1>4 DEF BackoffEnds, Shape, TypeOK
  <2>2. r \in [status : {"pending", "processing", "processed", "failed"}, attempts : Nat,
               due : BOOLEAN]
    BY <2>1 DEF Shape, TypeOK
  <2> HIDE DEF r
  <2> QED BY <2>1, <2>2, MarkedEvent, SameWorkers, SameData, SameHistory, ShapeFrom
<1> QED BY <1>1, <1>2, <1>3, <1>4

\* Taking a batch, claiming, and saving an outcome keep the shape.
LEMMA QueueShape ==
  ASSUME Shape, Exclusive, NEW w \in Workers,
         FindCandidates(w) \/ Claim(w) \/ EventProcessed(w) \/ EventFailed(w) \/ Crash(w)
  PROVE  Shape'
<1>1. CASE FindCandidates(w)
  <2>1. PICK n \in 1..BatchSize : \E at \in [1..n -> DOMAIN outbox] :
          /\ IsFirst(n, at)
          /\ worker' = [worker EXCEPT ![w] =
               Facing([i \in 1..n |-> Candidate(outbox[at[i]])])]
    BY <1>1 DEF FindCandidates
  <2>2. PICK at \in [1..n -> DOMAIN outbox] :
          /\ IsFirst(n, at)
          /\ worker' = [worker EXCEPT ![w] =
               Facing([i \in 1..n |-> Candidate(outbox[at[i]])])]
    BY <2>1
  <2> DEFINE batch == [i \in 1..n |-> Candidate(outbox[at[i]])]
  <2>3. n \in Nat /\ \A i \in 1..n : outbox[at[i]] \in Events
    BY OutboxAssumption, LenProperties DEF Shape, TypeOK
  <2>4. \A i \in 1..n : Candidate(outbox[at[i]]) \in Entry
    BY <2>2, <2>3 DEF IsFirst, Waiting, Candidate, Entry
  <2>5. batch \in Seq(Entry)
    BY <2>3, <2>4, IsASeq
  <2> HIDE DEF batch
  <2>6. Facing(batch) \in Record /\ Fits(Facing(batch), paid)
    BY <2>5, FacingIsRecord DEF Fits
  <2>7. worker' \in [Workers -> Record] /\ \A v \in Workers : Fits(worker'[v], paid')
    BY <1>1, <2>2, <2>6, MoveKeeps DEF batch, FindCandidates
  <2> QED BY <1>1, <2>7, SameEvents, SamePaid, SameData, SameHistory, ShapeFrom
          DEF FindCandidates
<1>2. CASE Claim(w)
  <2>1. Current(w) \in Events /\ Head(worker[w].batch).status \in {"pending", "failed"}
    BY <1>2, BatchHead DEF Claim, Entry
  <2>2. CASE CanClaim(w)
    <3> DEFINE r == [event[Current(w)] EXCEPT !.status = "processing"]
               q == IF Current(w) \in Exports THEN "start" ELSE "notify"
               m == [worker[w] EXCEPT !.pc = q, !.tries = event[Current(w)].attempts]
    <3>1. event[Current(w)].status # "none" /\ event[Current(w)].attempts \in Nat
      BY <2>1, <2>2 DEF CanClaim, Shape, TypeOK
    <3>2. r \in [status : {"pending", "processing", "processed", "failed"}, attempts : Nat,
                 due : BOOLEAN]
      BY <2>1 DEF Shape, TypeOK
    <3>3. event' = [event EXCEPT ![Current(w)] = r]
      BY <1>2, <2>1, <2>2 DEF Claim, Shape, TypeOK
    <3>4. worker[w] \in Record /\ worker[w].batch # <<>> /\ worker[w].seen \subseteq paid
      BY <1>2, BatchHead DEF Claim, Shape, Fits
    <3>5. /\ m \in Record /\ m.pc = q /\ m.batch = worker[w].batch /\ m.seen = worker[w].seen
      BY <3>1, <3>4 DEF Record
    <3>6. worker' = [worker EXCEPT ![w] = m]
      BY <1>2, <2>2, <3>4 DEF Claim, Shape
    <3>7. Fits(m, paid)
      BY <3>4, <3>5 DEF Fits, Current
    <3> HIDE DEF m, r, q
    <3>8. worker' \in [Workers -> Record] /\ \A v \in Workers : Fits(worker'[v], paid')
      BY <1>2, <3>5, <3>6, <3>7, MoveKeeps DEF Claim
    <3> QED BY <1>2, <2>1, <3>1, <3>2, <3>3, <3>8, MarkedEvent, SameData, SameHistory, ShapeFrom
            DEF Claim
  <2>3. CASE ~CanClaim(w)
    <3>1. worker' = [worker EXCEPT ![w] = NextCandidate(w)] /\ event' = event
      BY <1>2, <2>3 DEF Claim
    <3>2. NextCandidate(w) \in Record /\ Fits(NextCandidate(w), paid')
      BY <1>2, NextIsRecord DEF Claim
    <3>3. worker' \in [Workers -> Record] /\ \A v \in Workers : Fits(worker'[v], paid')
      BY <1>2, <3>1, <3>2, MoveKeeps DEF Claim
    <3> QED BY <1>2, <3>1, <3>3, SameEvents, SamePaid, SameData, SameHistory, ShapeFrom DEF Claim
  <2> QED BY <2>2, <2>3
<1>3. CASE EventProcessed(w) \/ EventFailed(w)
  <2>1. /\ worker[w].pc \in {"done", "fail"} /\ Current(w) \in Events
        /\ worker' = [worker EXCEPT ![w] = NextCandidate(w)]
        /\ UNCHANGED <<outbox, row, archives, request, paid, cache, crashes, overlapped>>
    BY <1>3, BatchHead DEF EventProcessed, EventFailed
  <2>2. event[Current(w)].status # "none"
    BY <2>1 DEF Exclusive, ExclusiveDispatch, Handling
  <2>3. PICK r \in [status : {"pending", "processing", "processed", "failed"},
                    attempts : Nat, due : BOOLEAN] : event' = [event EXCEPT ![Current(w)] = r]
    <3>1. CASE EventProcessed(w)
      <4>1. [event[Current(w)] EXCEPT !.status = "processed"] \in
              [status : {"pending", "processing", "processed", "failed"}, attempts : Nat,
               due : BOOLEAN]
        BY <2>1 DEF Shape, TypeOK
      <4>2. event' = [event EXCEPT ![Current(w)] =
                       [event[Current(w)] EXCEPT !.status = "processed"]]
        BY <3>1, <2>1 DEF EventProcessed, Shape, TypeOK
      <4> QED BY <4>1, <4>2
    <3>2. CASE EventFailed(w)
      <4>1. worker[w].tries \in Nat
        BY DEF Shape, Record
      <4>2. Failed(w) \in [status : {"pending", "processing", "processed", "failed"},
                           attempts : Nat, due : BOOLEAN]
        BY <4>1 DEF Failed
      <4>3. event' = [event EXCEPT ![Current(w)] = Failed(w)]
        BY <3>2 DEF EventFailed
      <4> QED BY <4>2, <4>3
    <3> QED BY <1>3, <3>1, <3>2
  <2>4. NextCandidate(w) \in Record /\ Fits(NextCandidate(w), paid')
    BY <2>1, NextIsRecord
  <2>5. worker' \in [Workers -> Record] /\ \A v \in Workers : Fits(worker'[v], paid')
    BY <2>1, <2>4, MoveKeeps
  <2>6. failures' \in [Events -> Nat]
    BY <1>3, <2>1 DEF EventProcessed, EventFailed, Shape
  <2>7. crashes' \in 0..MaxCrashes /\ overlapped' \in BOOLEAN
    BY <2>1 DEF Shape, TypeOK
  <2> QED BY <2>1, <2>2, <2>3, <2>5, <2>6, <2>7, MarkedEvent, SameData, ShapeFrom
<1>4. CASE Crash(w)
  <2>1. worker' \in [Workers -> Record] /\ \A v \in Workers : Fits(worker'[v], paid')
    <3>1. Idle \in Record /\ Fits(Idle, paid')
      BY IdleIsRecord DEF Fits
    <3> QED BY <1>4, <3>1, MoveKeeps DEF Crash
  <2>2. crashes' \in 0..MaxCrashes /\ failures' \in [Events -> Nat] /\ overlapped' \in BOOLEAN
    BY <1>4, OutboxAssumption DEF Crash, Shape, TypeOK
  <2> QED BY <1>4, <2>1, <2>2, SameEvents, SamePaid, SameData, ShapeFrom DEF Crash
<1> QED BY <1>1, <1>2, <1>3, <1>4

Handlers(w) ==
  \/ StartExport(w) \/ BuildAndStore(w) \/ FindSuperseded(w) \/ ClearSuperseded(w)
  \/ Announce(w) \/ Notify(w) \/ Derive(w) \/ WriteCache(w)

\* What every step of a handler leaves alone, and that it keeps its event in hand.
LEMMA HandlerKeeps ==
  ASSUME Shape, NEW w \in Workers, Handlers(w)
  PROVE  /\ UNCHANGED <<outbox, event, request, paid, crashes, failures>>
         /\ Handling(w) /\ worker[w] \in Record /\ worker[w].batch # <<>>
         /\ worker[w].seen \subseteq paid /\ Current(w) \in Events
<1>1. /\ UNCHANGED <<outbox, event, request, paid, crashes, failures>>
      /\ worker[w].pc \in {"start", "build", "discard", "clear", "announce", "notify", "derive",
                           "write"}
  BY DEF Handlers, StartExport, BuildAndStore, FindSuperseded, ClearSuperseded, Announce,
         Notify, Derive, WriteCache, ExportStep, PaymentStep
<1> QED BY <1>1, BatchHead DEF Shape, Fits, Handling

\* The steps of an export.
LEMMA ExportShape ==
  ASSUME Shape, NEW w \in Workers,
         \/ StartExport(w) \/ BuildAndStore(w) \/ FindSuperseded(w) \/ ClearSuperseded(w)
         \/ Announce(w)
  PROVE  Shape'
<1>1. /\ UNCHANGED <<outbox, event, request, paid, cache, crashes, failures, overlapped>>
      /\ worker[w].pc \in {"start", "build", "discard", "clear", "announce"}
  BY DEF StartExport, BuildAndStore, FindSuperseded, ClearSuperseded, Announce, ExportStep
<1>2. Current(w) \in Exports /\ worker[w].pc # "idle"
  BY <1>1 DEF Shape, Fits, Current
<1>3. /\ row' \in [Exports -> {"none", "queued", "processing", "completed", "failed"}]
      /\ archives' \subseteq Exports
  BY <1>2 DEF Shape, TypeOK, StartExport, BuildAndStore, FindSuperseded, ClearSuperseded,
              Announce, ExportFails
<1>4. worker' \in [Workers -> Record] /\ \A v \in Workers : Fits(worker'[v], paid')
  <2>1. ASSUME NEW q \in {"start", "build", "discard", "clear", "announce", "done", "fail"},
               Goes(w, q)
        PROVE  worker' \in [Workers -> Record] /\ \A v \in Workers : Fits(worker'[v], paid')
    BY <1>1, <1>2, <2>1, GoKeeps DEF Goes
  <2>2. ASSUME NEW q \in {"announce", "clear"}, NEW gone \in SUBSET Exports,
               worker' = [worker EXCEPT ![w].stale = gone, ![w].pc = q]
        PROVE  worker' \in [Workers -> Record] /\ \A v \in Workers : Fits(worker'[v], paid')
    <3> DEFINE m == [worker[w] EXCEPT !.stale = gone, !.pc = q]
    <3>1. worker[w] \in Record /\ worker[w].batch # <<>> /\ worker[w].seen \subseteq paid
      BY <1>2, BatchHead DEF Shape, Fits
    <3>2. /\ m \in Record /\ m.pc = q /\ m.batch = worker[w].batch /\ m.seen = worker[w].seen
      BY <3>1 DEF Record
    <3>3. worker' = [worker EXCEPT ![w] = m]
      BY <2>2, <3>1 DEF Shape
    <3>4. Fits(m, paid')
      BY <1>1, <1>2, <3>1, <3>2 DEF Fits, Current
    <3> HIDE DEF m
    <3> QED BY <1>1, <3>2, <3>3, <3>4, MoveKeeps
  <2>3. CASE StartExport(w)
    BY <2>1, <2>3 DEF StartExport
  <2>4. CASE BuildAndStore(w)
    BY <2>1, <2>4 DEF BuildAndStore, ExportFails
  <2>5. CASE FindSuperseded(w)
    <3>1. Superseded(w) \in SUBSET Exports
      BY DEF Superseded, Shape, TypeOK
    <3> QED BY <2>1, <2>2, <2>5, <3>1 DEF FindSuperseded, ExportFails
  <2>6. CASE ClearSuperseded(w)
    <3>1. CASE ExportFails(w)
      BY <2>1, <3>1 DEF ExportFails
    <3>2. ASSUME NEW x \in worker[w].stale,
                 worker' = [worker EXCEPT ![w].stale = @ \ {x},
                                          ![w].pc = IF worker[w].stale = {x} THEN "announce" ELSE @]
          PROVE  worker' \in [Workers -> Record] /\ \A v \in Workers : Fits(worker'[v], paid')
      <4>1. worker[w].stale \in SUBSET Exports /\ worker[w].pc = "clear"
        BY <2>6 DEF Shape, Record, ClearSuperseded, ExportStep
      <4>2. worker' = [worker EXCEPT ![w].stale = worker[w].stale \ {x},
                  ![w].pc = IF worker[w].stale = {x} THEN "announce" ELSE "clear"]
        BY <3>2, <4>1 DEF Shape, Record
      <4>3. worker[w].stale \ {x} \in SUBSET Exports
        BY <4>1
      <4>4. CASE worker[w].stale = {x}
        <5>1. worker' = [worker EXCEPT ![w].stale = worker[w].stale \ {x}, ![w].pc = "announce"]
          BY <4>2, <4>4, Zenon
        <5> QED BY <2>2, <4>3, <5>1
      <4>5. CASE worker[w].stale # {x}
        <5>1. worker' = [worker EXCEPT ![w].stale = worker[w].stale \ {x}, ![w].pc = "clear"]
          BY <4>2, <4>5, Zenon
        <5> QED BY <2>2, <4>3, <5>1
      <4> QED BY <4>4, <4>5
    <3> QED BY <2>6, <3>1, <3>2 DEF ClearSuperseded
  <2>7. CASE Announce(w)
    BY <2>1, <2>7 DEF Announce, ExportFails
  <2> QED BY <2>3, <2>4, <2>5, <2>6, <2>7
<1>5. cache' \subseteq paid' /\ paid' \subseteq Payments
  BY <1>1 DEF Shape, TypeOK
<1>6. request' \in [Exports -> {"none", "asked", "clear", "created", "done"}]
  BY <1>1 DEF Shape, TypeOK
<1> QED BY <1>1, <1>3, <1>4, <1>5, <1>6, SameEvents, SamePaid, SameHistory, ShapeFrom

\* The steps of a payment's or a reminder's handler.
LEMMA PaymentShape ==
  ASSUME Shape, NEW w \in Workers, Notify(w) \/ Derive(w) \/ WriteCache(w)
  PROVE  Shape'
<1>1. /\ UNCHANGED <<outbox, event, row, archives, request, paid, crashes, failures>>
      /\ worker[w].pc \in {"notify", "derive", "write"} /\ worker[w].pc # "idle"
  BY DEF Notify, Derive, WriteCache, PaymentStep
<1>2. /\ worker[w] \in Record /\ worker[w].batch # <<>> /\ worker[w].seen \subseteq paid
      /\ paid \subseteq Payments
  BY <1>1, BatchHead DEF Shape, Fits, TypeOK
<1>3. cache' \subseteq paid' /\ overlapped' \in BOOLEAN
  BY <1>1, <1>2 DEF Shape, TypeOK, Notify, Derive, WriteCache, SnapshotOf
<1>4. worker' \in [Workers -> Record] /\ \A v \in Workers : Fits(worker'[v], paid')
  <2>1. CASE Notify(w)
    <3>1. CASE Current(w) \in Payments
      <4>1. PICK q \in {"derive", "fail"} : Goes(w, q)
        BY <2>1, <3>1 DEF Notify
      <4> QED BY <1>1, <3>1, <4>1, GoKeeps DEF Goes
    <3>2. CASE Current(w) \notin Payments
      <4>1. PICK q \in {"done", "fail"} : Goes(w, q)
        BY <2>1, <3>2 DEF Notify
      <4> QED BY <1>1, <4>1, GoKeeps DEF Goes
    <3> QED BY <3>1, <3>2
  <2>2. CASE Derive(w)
    <3> DEFINE m == [worker[w] EXCEPT !.seen = paid, !.pc = "write"]
    <3>1. /\ m \in Record /\ m.pc = "write" /\ m.batch = worker[w].batch /\ m.seen = paid
      BY <1>2 DEF Record
    <3>2. worker' = [worker EXCEPT ![w] = m] /\ worker[w].pc = "derive"
      BY <2>2, <1>2 DEF Derive, Shape, PaymentStep
    <3>3. Current(w) \in Payments
      BY <3>2 DEF Shape, Fits, Current
    <3>4. Fits(m, paid')
      BY <1>1, <1>2, <3>1, <3>3 DEF Fits, Current
    <3> HIDE DEF m
    <3> QED BY <1>1, <3>1, <3>2, <3>4, MoveKeeps
  <2>3. CASE WriteCache(w)
    <3>1. PICK q \in {"done", "fail"} : Goes(w, q)
      BY <2>3 DEF WriteCache
    <3> QED BY <1>1, <3>1, GoKeeps DEF Goes
  <2> QED BY <2>1, <2>2, <2>3
<1>5. row' \in [Exports -> {"none", "queued", "processing", "completed", "failed"}]
      /\ archives' \subseteq Exports
      /\ request' \in [Exports -> {"none", "asked", "clear", "created", "done"}]
  BY <1>1 DEF Shape, TypeOK
<1>6. paid' \subseteq Payments /\ crashes' \in 0..MaxCrashes /\ failures' \in [Events -> Nat]
  BY <1>1 DEF Shape, TypeOK
<1> QED BY <1>1, <1>3, <1>4, <1>5, <1>6, SameEvents, SamePaid, ShapeFrom

\* What the requests, payments and shares may do to an event.
Asking ==
  \/ \E x \in Exports : Request(x)
  \/ \E p \in Payments : RecordPayment(p)
  \/ \E s \in Shares : Share(s)
  \/ \E e \in Events : BackoffEnds(e)
Queue(w) ==
  FindCandidates(w) \/ Claim(w) \/ EventProcessed(w) \/ EventFailed(w) \/ Crash(w)

LEMMA NextSplits ==
  ASSUME Next PROVE Asking \/ \E w \in Workers : Queue(w) \/ Handlers(w)
BY DEF Next, Asking, Queue, Handlers, Dispatch

LEMMA ShapeStep ==
  ASSUME Shape, Exclusive, [Next]_vars PROVE Shape'
<1>1. CASE Asking
  BY <1>1, AskingShape DEF Asking
<1>2. ASSUME NEW w \in Workers, Queue(w) PROVE Shape'
  BY <1>2, QueueShape DEF Queue
<1>3. ASSUME NEW w \in Workers, Handlers(w) PROVE Shape'
  BY <1>3, ExportShape, PaymentShape DEF Handlers
<1>4. CASE UNCHANGED vars
  BY <1>4, SameEvents, SamePaid, SameWorkers, SameData, SameHistory, ShapeFrom DEF vars
<1> QED BY <1>1, <1>2, <1>3, <1>4, NextSplits

-----------------------------------------------------------------------------
(***************************************************************************)
(* One worker for an event.                                                *)
(***************************************************************************)
\* A step that asks for something changes no event that was published.
LEMMA AskingEvents ==
  ASSUME Shape, Asking
  PROVE  /\ UNCHANGED <<worker, failures, crashes>>
         /\ \A e \in Events :
              \/ event'[e] = event[e]
              \/ event[e].status = "none"
                 /\ event'[e] = [status |-> "pending", attempts |-> 0, due |-> TRUE]
              \/ event[e].status = "failed"
                 /\ event'[e].status = "failed" /\ event'[e].attempts = event[e].attempts
<1>1. UNCHANGED <<worker, failures, crashes>>
  BY DEF Asking, Request, FindInFlight, FindRecent, CreateRow, PublishExport, RequestStep,
         RecordPayment, Share, BackoffEnds
<1>2. \/ \E e \in Events : Publish(e)
      \/ \E e \in Events : BackoffEnds(e)
      \/ UNCHANGED event
  BY DEF Asking, Request, FindInFlight, FindRecent, CreateRow, PublishExport, RecordPayment,
         Share, Events
<1>3. CASE \E e \in Events : Publish(e)
  BY <1>1, <1>3, PublishKeeps
<1>4. CASE \E e \in Events : BackoffEnds(e)
  BY <1>1, <1>4 DEF BackoffEnds, Shape, TypeOK
<1> QED BY <1>1, <1>2, <1>3, <1>4

\* A step of a handler keeps every worker's event, and whether it has one, as they are.
LEMMA HandlerMoves ==
  ASSUME Shape, NEW w \in Workers, Handlers(w)
  PROVE  /\ \A v \in Workers \ {w} : worker'[v] = worker[v]
         /\ worker'[w].batch = worker[w].batch /\ worker'[w].tries = worker[w].tries
         /\ worker'[w].pc \notin {"idle", "claim"}
<1>1. worker[w] \in Record /\ worker \in [Workers -> Record]
  BY DEF Shape
<1>2. CASE StartExport(w) \/ BuildAndStore(w) \/ Announce(w) \/ Notify(w) \/ WriteCache(w)
  <2>1. PICK q : Goes(w, q) /\ q \notin {"idle", "claim"}
    BY <1>2 DEF StartExport, BuildAndStore, Announce, Notify, WriteCache, ExportFails
  <2> QED BY <1>1, <2>1 DEF Goes, Record
<1>3. CASE FindSuperseded(w)
  BY <1>1, <1>3 DEF FindSuperseded, ExportFails, Goes, Record
<1>4. CASE ClearSuperseded(w)
  <2>1. CASE ExportFails(w)
    BY <1>1, <2>1 DEF ExportFails, Goes, Record
  <2>2. ASSUME NEW x \in worker[w].stale,
               worker' = [worker EXCEPT ![w].stale = @ \ {x},
                                        ![w].pc = IF worker[w].stale = {x} THEN "announce" ELSE @]
        PROVE  /\ \A v \in Workers \ {w} : worker'[v] = worker[v]
               /\ worker'[w].batch = worker[w].batch /\ worker'[w].tries = worker[w].tries
               /\ worker'[w].pc \in {"announce", "clear"}
    <3>1. worker[w].pc = "clear"
      BY <1>4 DEF ClearSuperseded, ExportStep
    <3>2. worker' = [worker EXCEPT ![w].stale = worker[w].stale \ {x},
                ![w].pc = IF worker[w].stale = {x} THEN "announce" ELSE "clear"]
      BY <1>1, <2>2, <3>1 DEF Record
    <3> QED BY <1>1, <3>2 DEF Record
  <2> QED BY <1>4, <2>1, <2>2 DEF ClearSuperseded
<1>5. CASE Derive(w)
  BY <1>1, <1>5 DEF Derive, Record
<1> QED BY <1>2, <1>3, <1>4, <1>5 DEF Handlers

LEMMA ExclusiveInit == Init => Exclusive
BY IdleIsRecord DEF Init, Exclusive, ExclusiveDispatch, Handling

\* The parts of Exclusive after a step make it hold after the step.
LEMMA ExclusiveFrom ==
  ASSUME \A u, v \in Workers : Handling(u)' /\ Handling(v)' /\ Current(u)' = Current(v)' => u = v,
         \A v \in Workers : Handling(v)' => /\ event'[Current(v)'].status = "processing"
                                            /\ worker'[v].tries = event'[Current(v)'].attempts,
         \A e \in Events : /\ event'[e].attempts = failures'[e]
                           /\ event'[e].status = "none" => event'[e].attempts = 0
  PROVE  Exclusive'
<1>1. \A u, v \in Workers : (Handling(u) /\ Handling(v) /\ Current(u) = Current(v) => u = v)'
  OBVIOUS
<1>2. \A v \in Workers : (Handling(v) => event[Current(v)].status = "processing")'
  OBVIOUS
<1>3. \A v \in Workers : (Handling(v) => worker[v].tries = event[Current(v)].attempts)'
  OBVIOUS
<1>4. \A e \in Events : (event[e].attempts = failures[e])'
                       /\ (event[e].status = "none" => event[e].attempts = 0)'
  OBVIOUS
<1>5. ExclusiveDispatch'
  BY <1>1, <1>2, <1>4 DEF ExclusiveDispatch
<1> QED BY <1>3, <1>4, <1>5 DEF Exclusive

LEMMA ExclusiveStep ==
  ASSUME Shape, Exclusive, [Next]_vars PROVE Exclusive'
<1>1. CASE Asking
  BY <1>1, AskingEvents, BatchHead DEF Exclusive, ExclusiveDispatch, Handling, Current
<1>2. ASSUME NEW w \in Workers, Handlers(w) PROVE Exclusive'
  <2>1. \A v \in Workers : /\ worker'[v].batch = worker[v].batch
                           /\ worker'[v].tries = worker[v].tries
                           /\ Handling(v)' = Handling(v) /\ Current(v)' = Current(v)
    BY <1>2, HandlerMoves, HandlerKeeps DEF Handling, Current
  <2>2. event' = event /\ failures' = failures
    BY <1>2, HandlerKeeps
  <2>3. \A u, v \in Workers : Handling(u)' /\ Handling(v)' /\ Current(u)' = Current(v)' => u = v
    BY <2>1 DEF Exclusive, ExclusiveDispatch
  <2>4. \A v \in Workers : Handling(v)' => /\ event'[Current(v)'].status = "processing"
                                           /\ worker'[v].tries = event'[Current(v)'].attempts
    BY <2>1, <2>2 DEF Exclusive, ExclusiveDispatch
  <2>5. \A e \in Events : /\ event'[e].attempts = failures'[e]
                          /\ event'[e].status = "none" => event'[e].attempts = 0
    BY <2>2 DEF Exclusive, ExclusiveDispatch
  <2> QED BY <2>3, <2>4, <2>5, ExclusiveFrom, Zenon
<1>3. ASSUME NEW w \in Workers, Queue(w) PROVE Exclusive'
  <2>1. CASE FindCandidates(w) \/ Crash(w) \/ (Claim(w) /\ ~CanClaim(w))
    <3>1. /\ UNCHANGED <<event, failures>>
          /\ \A v \in Workers \ {w} : worker'[v] = worker[v]
          /\ worker'[w].pc \in {"idle", "claim"}
      <4>1. CASE FindCandidates(w)
        BY <4>1 DEF FindCandidates, Facing, Shape
      <4>2. CASE Crash(w)
        BY <4>2, IdleIsRecord DEF Crash, Shape
      <4>3. CASE Claim(w) /\ ~CanClaim(w)
        BY <4>3, NextIsRecord DEF Claim, Shape
      <4> QED BY <2>1, <4>1, <4>2, <4>3
    <3> QED BY <3>1 DEF Exclusive, ExclusiveDispatch, Handling, Current
  <2>2. CASE Claim(w) /\ CanClaim(w)
    <3>1. /\ Current(w) \in Events /\ event[Current(w)].status \in {"pending", "failed"}
      BY <2>2, BatchHead DEF Claim, CanClaim, Entry
    <3>2. /\ event' = [event EXCEPT ![Current(w)].status = "processing"]
          /\ failures' = failures /\ \A v \in Workers \ {w} : worker'[v] = worker[v]
      BY <2>2 DEF Claim, Shape
    <3>3. /\ worker'[w].batch = worker[w].batch
          /\ worker'[w].tries = event[Current(w)].attempts
          /\ worker'[w].pc \notin {"idle", "claim"}
      BY <2>2 DEF Claim, Shape, Record
    <3>4. /\ event'[Current(w)].status = "processing"
          /\ event'[Current(w)].attempts = event[Current(w)].attempts
          /\ \A e \in Events \ {Current(w)} : event'[e] = event[e]
      BY <3>1, <3>2 DEF Shape, TypeOK
    <3>5. \A v \in Workers : Handling(v) => Current(v) \in Events /\ Current(v) # Current(w)
      BY <3>1, BatchHead DEF Exclusive, ExclusiveDispatch, Handling
    <3>6. Current(w)' = Current(w) /\ \A v \in Workers \ {w} : Current(v)' = Current(v)
      BY <3>2, <3>3 DEF Current
    <3>7. \A v \in Workers \ {w} : Handling(v)' = Handling(v)
      BY <3>2 DEF Handling
    <3>8. \A u, v \in Workers : Handling(u)' /\ Handling(v)' /\ Current(u)' = Current(v)' => u = v
      BY <3>5, <3>6, <3>7 DEF Exclusive, ExclusiveDispatch
    <3>9. \A v \in Workers : Handling(v)' => event'[Current(v)'].status = "processing"
                                           /\ worker'[v].tries = event'[Current(v)'].attempts
      <4>1. ASSUME NEW v \in Workers \ {w}, Handling(v)'
            PROVE  /\ event'[Current(v)'].status = "processing"
                   /\ worker'[v].tries = event'[Current(v)'].attempts
        BY <4>1, <3>2, <3>4, <3>5, <3>6, <3>7 DEF Exclusive, ExclusiveDispatch
      <4> QED BY <4>1, <3>3, <3>4, <3>6
    <3> QED BY <3>1, <3>2, <3>4, <3>8, <3>9 DEF Exclusive, ExclusiveDispatch
  <2>3. CASE EventProcessed(w) \/ EventFailed(w)
    <3>1. /\ worker[w].pc \in {"done", "fail"} /\ Current(w) \in Events /\ Handling(w)
          /\ \A v \in Workers \ {w} : worker'[v] = worker[v]
          /\ worker'[w].pc \in {"idle", "claim"}
      BY <2>3, BatchHead, NextIsRecord DEF EventProcessed, EventFailed, Shape, Handling
    <3>2. \A e \in Events \ {Current(w)} : event'[e] = event[e] /\ failures'[e] = failures[e]
      BY <2>3, <3>1 DEF EventProcessed, EventFailed, Shape, TypeOK
    <3>3. /\ event'[Current(w)].attempts = failures'[Current(w)]
          /\ event'[Current(w)].status # "none"
      BY <2>3, <3>1 DEF EventProcessed, EventFailed, Failed, Shape, TypeOK, Exclusive,
                        ExclusiveDispatch
    <3>4. \A v \in Workers \ {w} : Handling(v) => Current(v) \in Events \ {Current(w)}
      BY <3>1, BatchHead DEF Exclusive, ExclusiveDispatch, Handling
    <3>5. ~Handling(w)' /\ \A v \in Workers \ {w} :
            Handling(v)' = Handling(v) /\ Current(v)' = Current(v)
      BY <3>1 DEF Handling, Current
    <3>6. \A u, v \in Workers : Handling(u)' /\ Handling(v)' /\ Current(u)' = Current(v)' => u = v
      BY <3>5 DEF Exclusive, ExclusiveDispatch
    <3>7. \A v \in Workers : Handling(v)' => /\ event'[Current(v)'].status = "processing"
                                             /\ worker'[v].tries = event'[Current(v)'].attempts
      BY <3>1, <3>2, <3>4, <3>5 DEF Exclusive, ExclusiveDispatch
    <3>8. \A e \in Events : /\ event'[e].attempts = failures'[e]
                            /\ event'[e].status = "none" => event'[e].attempts = 0
      BY <3>2, <3>3 DEF Exclusive, ExclusiveDispatch
    <3> QED BY <3>6, <3>7, <3>8, ExclusiveFrom, Zenon
  <2> QED BY <1>3, <2>1, <2>2, <2>3 DEF Queue
<1>4. CASE UNCHANGED vars
  BY <1>4 DEF vars, Exclusive, ExclusiveDispatch, Handling, Current
<1> QED BY <1>1, <1>2, <1>3, <1>4, NextSplits

-----------------------------------------------------------------------------
(***************************************************************************)
(* One live archive.  Of two exports, the one whose sweep came later found *)
(* the archive of the other and took it, unless that was stored later      *)
(* still: they cannot both be past the sweep with both archives in place.  *)
(***************************************************************************)
\* A completed export is not run again.
Completed ==
  \A x \in Exports : row[x] = "completed" =>
    /\ event[x].status \in {"processing", "processed"}
    /\ \A w \in Workers : Handling(w) /\ Current(w) = x =>
         worker[w].pc \in {"discard", "clear", "announce", "done"}

\* The sweep of export x is over, as far as the archive of y goes.
Swept(w, y) ==
  worker[w].pc \in {"announce", "done"} \/ (worker[w].pc = "clear" /\ y \notin worker[w].stale)
Past(x, y) ==
  \/ event[x].status = "processed"
  \/ \E w \in Workers : Handling(w) /\ Current(w) = x /\ Swept(w, y)
NeitherBehind == \A x, y \in archives : Past(x, y) /\ Past(y, x) => x = y

Archived == Completed /\ NeitherBehind

LEMMA ArchivedInit == Init => Archived
BY DEF Init, Archived, Completed, NeitherBehind

\* What a step of the queue does, as far as the archives are concerned.
LEMMA QueueArchives ==
  ASSUME Shape, Exclusive, Archived, NEW w \in Workers, Queue(w)
  PROVE  Archived'
<1>1. UNCHANGED <<row, archives>> /\ archives \subseteq Exports /\ Exports \subseteq Events
  BY DEF Queue, FindCandidates, Claim, EventProcessed, EventFailed, Crash, Shape, TypeOK, Events
<1>2. CASE FindCandidates(w) \/ Crash(w) \/ (Claim(w) /\ ~CanClaim(w))
  <2>1. /\ event' = event /\ \A v \in Workers \ {w} : worker'[v] = worker[v]
        /\ worker'[w].pc \in {"idle", "claim"}
    <3>1. CASE FindCandidates(w)
      BY <3>1 DEF FindCandidates, Facing, Shape
    <3>2. CASE Crash(w)
      BY <3>2, IdleIsRecord DEF Crash, Shape
    <3>3. CASE Claim(w) /\ ~CanClaim(w)
      BY <3>3, NextIsRecord DEF Claim, Shape
    <3> QED BY <1>2, <3>1, <3>2, <3>3
  <2> QED BY <1>1, <2>1 DEF Archived, Completed, NeitherBehind, Past, Swept, Handling, Current
<1>3. CASE Claim(w) /\ CanClaim(w)
  <2>1. /\ Current(w) \in Events /\ event[Current(w)].status \in {"pending", "failed"}
        /\ event' = [event EXCEPT ![Current(w)].status = "processing"]
        /\ \A v \in Workers \ {w} : worker'[v] = worker[v]
    BY <1>3, BatchHead DEF Claim, CanClaim, Entry, Shape
  <2>2. worker'[w].batch = worker[w].batch /\ worker'[w].pc \in {"start", "notify"}
    BY <1>3 DEF Claim, Shape, Record
  <2>3. /\ event'[Current(w)].status = "processing"
        /\ \A e \in Events \ {Current(w)} : event'[e] = event[e]
    BY <2>1 DEF Shape, TypeOK
  <2>4. Completed'
    BY <1>1, <2>1, <2>2, <2>3 DEF Archived, Completed, Handling, Current
  <2>5. \A x \in Exports, y \in Exports : Past(x, y)' => Past(x, y)
    BY <1>1, <2>1, <2>2, <2>3 DEF Past, Swept, Handling, Current
  <2> QED BY <1>1, <2>4, <2>5 DEF Archived, NeitherBehind
<1>4. CASE EventProcessed(w) \/ EventFailed(w)
  <2>1. /\ worker[w].pc \in {"done", "fail"} /\ Current(w) \in Events /\ Handling(w)
        /\ \A v \in Workers \ {w} : worker'[v] = worker[v]
        /\ worker'[w].pc \in {"idle", "claim"}
    BY <1>4, BatchHead, NextIsRecord DEF EventProcessed, EventFailed, Shape, Handling
  <2>2. \A e \in Events \ {Current(w)} : event'[e] = event[e]
    BY <1>4, <2>1 DEF EventProcessed, EventFailed, Shape, TypeOK
  <2>3. \/ worker[w].pc = "done" /\ event'[Current(w)].status = "processed"
        \/ worker[w].pc = "fail" /\ event'[Current(w)].status = "failed"
    BY <1>4, <2>1 DEF EventProcessed, EventFailed, Failed, Shape, TypeOK
  <2>4. Completed'
    BY <1>1, <2>1, <2>2, <2>3 DEF Archived, Completed, Handling, Current
  <2>5. \A x \in Exports, y \in Exports : Past(x, y)' => Past(x, y)
    BY <1>1, <2>1, <2>2, <2>3 DEF Past, Swept, Handling, Current
  <2> QED BY <1>1, <2>4, <2>5 DEF Archived, NeitherBehind
<1> QED BY <1>2, <1>3, <1>4 DEF Queue

\* A step of an export: only its own row, archive and sweep move.
LEMMA ExportArchives ==
  ASSUME Shape, Exclusive, Archived, NEW w \in Workers,
         \/ StartExport(w) \/ BuildAndStore(w) \/ FindSuperseded(w) \/ ClearSuperseded(w)
         \/ Announce(w)
  PROVE  Archived'
<1>1. PICK e \in Exports :
      /\ e = Current(w) /\ Handling(w) /\ event' = event /\ archives \subseteq Exports
      /\ event[e].status = "processing"
      /\ worker[w].pc \in {"start", "build", "discard", "clear", "announce"}
  <2>1. worker[w].pc \in {"start", "build", "discard", "clear", "announce"} /\ event' = event
    BY DEF StartExport, BuildAndStore, FindSuperseded, ClearSuperseded, Announce, ExportStep
  <2> QED BY <2>1 DEF Shape, Fits, Current, Handling, TypeOK, Exclusive, ExclusiveDispatch
<1>2. /\ \A v \in Workers \ {w} : worker'[v] = worker[v] /\ (Handling(v) => Current(v) # e)
      /\ \A v \in Workers : Current(v)' = Current(v)
      /\ worker'[w].pc \notin {"idle", "claim"} /\ worker[w] \in Record
  BY <1>1, HandlerMoves DEF Handlers, Exclusive, ExclusiveDispatch, Current, Shape
<1>3. \A x \in Exports \ {e}, y \in Exports : Past(x, y)' => Past(x, y)
  BY <1>1, <1>2 DEF Past, Swept, Handling
<1>4. \A y \in Exports : Past(e, y)' => Swept(w, y)'
  BY <1>1, <1>2 DEF Past, Handling
<1>5. ASSUME row'[e] = "completed" => worker'[w].pc \in {"discard", "clear", "announce", "done"},
             \A x \in Exports \ {e} : row'[x] = row[x]
      PROVE  Completed'
  <2>1. SUFFICES ASSUME NEW x \in Exports, row'[x] = "completed"
                 PROVE  /\ event[x].status \in {"processing", "processed"}
                        /\ \A v \in Workers : Handling(v)' /\ Current(v)' = x =>
                             worker'[v].pc \in {"discard", "clear", "announce", "done"}
    BY <1>1 DEF Completed
  <2>2. CASE x = e
    BY <1>1, <1>2, <1>5, <2>1, <2>2 DEF Handling
  <2>3. CASE x # e
    BY <1>1, <1>2, <1>5, <2>1, <2>3 DEF Handling, Archived, Completed
  <2> QED BY <2>2, <2>3
<1>6. row[e] = "completed" => worker[w].pc \in {"discard", "clear", "announce", "done"}
  BY <1>1 DEF Archived, Completed
<1>7. CASE StartExport(w)
  <2>1. /\ archives' = archives /\ worker'[w].pc \in {"build", "fail"}
        /\ row'[e] # "completed" /\ \A x \in Exports \ {e} : row'[x] = row[x]
    BY <1>1, <1>2, <1>6, <1>7 DEF StartExport, ExportStep, Goes, Record, Shape, TypeOK
  <2>2. \A y \in Exports : ~Past(e, y)'
    BY <1>4, <2>1 DEF Swept
  <2> QED BY <1>1, <1>3, <1>5, <2>1, <2>2 DEF Archived, NeitherBehind
<1>8. ASSUME ExportFails(w) PROVE Archived'
  <2>1. /\ archives' = archives /\ worker'[w].pc = "fail"
        /\ row'[e] # "completed" /\ \A x \in Exports \ {e} : row'[x] = row[x]
    BY <1>1, <1>2, <1>8 DEF ExportFails, Goes, Record, Shape, TypeOK
  <2>2. \A y \in Exports : ~Past(e, y)'
    BY <1>4, <2>1 DEF Swept
  <2> QED BY <1>1, <1>3, <1>5, <2>1, <2>2 DEF Archived, NeitherBehind
<1>9. CASE BuildAndStore(w) /\ ~ExportFails(w)
  <2>1. /\ archives' = archives \cup {e} /\ worker'[w].pc = "discard"
        /\ \A x \in Exports \ {e} : row'[x] = row[x]
    BY <1>1, <1>2, <1>9 DEF BuildAndStore, Goes, Record, Shape, TypeOK
  <2>2. \A y \in Exports : ~Past(e, y)'
    BY <1>4, <2>1 DEF Swept
  <2> QED BY <1>1, <1>3, <1>5, <2>1, <2>2 DEF Archived, NeitherBehind
<1>10. CASE FindSuperseded(w) /\ ~ExportFails(w)
  <2>1. /\ archives' = archives /\ row' = row
        /\ worker'[w].stale = archives \ {e}
        /\ worker'[w].pc = IF archives \ {e} = {} THEN "announce" ELSE "clear"
    BY <1>1, <1>2, <1>10 DEF FindSuperseded, Superseded, Record, Shape
  <2>2. \A y \in archives \ {e} : ~Past(e, y)'
    BY <1>1, <1>4, <2>1 DEF Swept
  <2> QED BY <1>1, <1>3, <1>5, <2>1, <2>2 DEF Archived, NeitherBehind
<1>11. CASE ClearSuperseded(w) /\ ~ExportFails(w)
  <2>1. PICK x \in worker[w].stale :
          /\ archives' = archives \ {x} /\ row' = row
          /\ worker' = [worker EXCEPT ![w].stale = @ \ {x},
                                      ![w].pc = IF worker[w].stale = {x} THEN "announce" ELSE @]
    BY <1>11 DEF ClearSuperseded
  <2>2. worker[w].pc = "clear"
    BY <1>11 DEF ClearSuperseded, ExportStep
  <2>3. /\ worker'[w].stale = worker[w].stale \ {x}
        /\ worker'[w].pc \in {"announce", "clear"}
        /\ worker'[w].pc = "announce" => worker[w].stale = {x}
    <3>1. worker' = [worker EXCEPT ![w].stale = worker[w].stale \ {x},
                       ![w].pc = IF worker[w].stale = {x} THEN "announce" ELSE "clear"]
      BY <1>2, <2>1, <2>2 DEF Record, Shape
    <3> QED BY <1>2, <3>1 DEF Record, Shape
  <2>4. \A y \in archives' : Past(e, y)' => Past(e, y)
    BY <1>1, <1>4, <2>1, <2>2, <2>3 DEF Swept, Past
  <2>5. NeitherBehind'
    BY <1>1, <1>3, <2>1, <2>4 DEF Archived, NeitherBehind
  <2> QED BY <1>5, <2>1, <2>3, <2>5 DEF Archived
<1>12. CASE Announce(w) /\ ~ExportFails(w)
  <2>1. /\ archives' = archives /\ row' = row
        /\ worker[w].pc = "announce" /\ worker'[w].pc = "done"
    BY <1>2, <1>12 DEF Announce, ExportStep, Goes, Record, Shape
  <2>2. \A y \in Exports : Past(e, y)
    BY <1>1, <2>1 DEF Swept, Past
  <2> QED BY <1>1, <1>3, <1>5, <2>1, <2>2 DEF Archived, NeitherBehind
<1> QED BY <1>7, <1>8, <1>9, <1>10, <1>11, <1>12

LEMMA ArchivedStep ==
  ASSUME Shape, Exclusive, Archived, [Next]_vars PROVE Archived'
<1>1. CASE Asking
  <2>1. /\ UNCHANGED worker
        /\ \A e \in Events : event'[e] = event[e]
                            \/ /\ event[e].status \in {"none", "failed"}
                               /\ event'[e].status \in {"pending", "failed"}
    BY <1>1, AskingEvents
  <2>2. /\ archives' = archives /\ archives \subseteq Exports /\ Exports \subseteq Events
        /\ \A x \in Exports : row'[x] = "completed" => row[x] = "completed"
    BY <1>1 DEF Asking, Request, FindInFlight, FindRecent, CreateRow, PublishExport,
                RequestStep, RecordPayment, Share, BackoffEnds, Shape, TypeOK, Events
  <2>3. Completed'
    BY <2>1, <2>2 DEF Archived, Completed, Handling, Current
  <2>4. \A x, y \in Exports : Past(x, y)' => Past(x, y)
    BY <2>1, <2>2 DEF Past, Swept, Handling, Current
  <2> QED BY <2>2, <2>3, <2>4 DEF Archived, NeitherBehind
<1>2. ASSUME NEW w \in Workers, Queue(w) PROVE Archived'
  BY <1>2, QueueArchives
<1>3. ASSUME NEW w \in Workers, Notify(w) \/ Derive(w) \/ WriteCache(w) PROVE Archived'
  <2>1. /\ UNCHANGED <<event, row, archives>> /\ archives \subseteq Exports
        /\ worker[w].pc \in {"notify", "derive", "write"} /\ Current(w) \notin Exports
    BY <1>3, OutboxAssumption DEF Notify, Derive, WriteCache, PaymentStep, Shape, TypeOK, Fits,
       Current
  <2>2. /\ \A v \in Workers \ {w} : worker'[v] = worker[v]
        /\ \A v \in Workers : Current(v)' = Current(v)
    BY <1>3, HandlerMoves DEF Handlers, Current
  <2>3. Completed'
    BY <2>1, <2>2 DEF Archived, Completed, Handling
  <2>4. \A x, y \in Exports : Past(x, y)' => Past(x, y)
    BY <2>1, <2>2 DEF Past, Swept, Handling
  <2> QED BY <2>1, <2>3, <2>4 DEF Archived, NeitherBehind
<1>4. ASSUME NEW w \in Workers, Handlers(w) PROVE Archived'
  BY <1>3, <1>4, ExportArchives DEF Handlers
<1>5. CASE UNCHANGED vars
  BY <1>5 DEF vars, Archived, Completed, NeitherBehind, Past, Swept, Handling, Current
<1> QED BY <1>1, <1>2, <1>4, <1>5, NextSplits

-----------------------------------------------------------------------------
(***************************************************************************)
(* The order's figure.  While no two recomputations overlap, the one that  *)
(* is about to write read all that the figure shows, and its own payment.  *)
(***************************************************************************)
Cached ==
  ~overlapped =>
    /\ \A v, w \in Workers : worker[v].pc = "write" /\ worker[w].pc = "write" => v = w
    /\ \A w \in Workers : worker[w].pc = "write" =>
         cache \subseteq worker[w].seen /\ Current(w) \in worker[w].seen
    /\ \A w \in Workers : worker[w].pc = "done" /\ Current(w) \in Payments => Current(w) \in cache
    /\ \A p \in Payments : event[p].status = "processed" => p \in cache

LEMMA CachedInit == Init => Cached
BY IdleIsRecord DEF Init, Cached, Events

LEMMA CachedStep ==
  ASSUME Shape, Exclusive, Cached, [Next]_vars PROVE Cached'
<1>0. Payments \subseteq Events /\ Payments \cap Exports = {}
  BY OutboxAssumption DEF Events
<1>1. CASE Asking
  <2>1. UNCHANGED <<cache, overlapped>>
    BY <1>1 DEF Asking, Request, FindInFlight, FindRecent, CreateRow, PublishExport,
                RequestStep, RecordPayment, Share, BackoffEnds
  <2> QED BY <1>0, <1>1, <2>1, AskingEvents DEF Cached, Current
<1>2. ASSUME NEW w \in Workers, Queue(w) PROVE Cached'
  <2>1. /\ UNCHANGED <<cache, overlapped>> /\ \A v \in Workers \ {w} : worker'[v] = worker[v]
        /\ worker'[w].pc \in {"idle", "claim", "start", "notify"}
    <3>1. CASE FindCandidates(w)
      BY <3>1 DEF FindCandidates, Facing, Shape
    <3>2. CASE Crash(w)
      BY <3>2, IdleIsRecord DEF Crash, Shape
    <3>3. CASE Claim(w)
      BY <3>3, NextIsRecord DEF Claim, Shape, Record
    <3>4. CASE EventProcessed(w) \/ EventFailed(w)
      BY <3>4, NextIsRecord DEF EventProcessed, EventFailed, Shape
    <3> QED BY <1>2, <3>1, <3>2, <3>3, <3>4 DEF Queue
  <2>2. \A p \in Payments : event'[p].status = "processed" =>
           event[p].status = "processed" \/ (worker[w].pc = "done" /\ Current(w) = p)
    BY <1>0, <1>2 DEF Queue, FindCandidates, Claim, EventProcessed, EventFailed, Crash, Failed,
                      Shape, TypeOK
  <2> QED BY <2>1, <2>2 DEF Cached, Current
<1>3. ASSUME NEW w \in Workers,
             StartExport(w) \/ BuildAndStore(w) \/ FindSuperseded(w) \/ ClearSuperseded(w)
             \/ Announce(w)
      PROVE Cached'
  <2>1. /\ UNCHANGED <<event, cache, overlapped>> /\ Current(w) \in Exports
    BY <1>3 DEF StartExport, BuildAndStore, FindSuperseded, ClearSuperseded, Announce,
                ExportStep, Shape, Fits, Current
  <2>2. /\ \A v \in Workers \ {w} : worker'[v] = worker[v]
        /\ \A v \in Workers : Current(v)' = Current(v)
    BY <1>3, HandlerMoves DEF Handlers, Current
  <2>3. worker'[w].pc # "write"
    <3>1. worker[w] \in Record /\ worker \in [Workers -> Record]
      BY DEF Shape
    <3>2. CASE StartExport(w) \/ BuildAndStore(w) \/ Announce(w)
      BY <3>1, <3>2 DEF StartExport, BuildAndStore, Announce, ExportFails, Goes, Record
    <3>3. CASE FindSuperseded(w)
      BY <3>1, <3>3 DEF FindSuperseded, ExportFails, Goes, Record
    <3>4. CASE ClearSuperseded(w)
      BY <3>1, <3>4 DEF ClearSuperseded, ExportFails, ExportStep, Goes, Record
    <3> QED BY <1>3, <3>2, <3>3, <3>4
  <2> QED BY <1>0, <2>1, <2>2, <2>3 DEF Cached
<1>4. ASSUME NEW w \in Workers, Notify(w) \/ Derive(w) \/ WriteCache(w) PROVE Cached'
  <2>1. /\ event' = event /\ worker[w] \in Record /\ worker \in [Workers -> Record]
        /\ \A v \in Workers \ {w} : worker'[v] = worker[v]
        /\ \A v \in Workers : Current(v)' = Current(v)
    BY <1>4, HandlerMoves DEF Handlers, Current, Shape, Notify, Derive, WriteCache, PaymentStep
  <2>2. CASE Notify(w)
    <3>1. /\ UNCHANGED <<cache, overlapped>>
          /\ worker'[w].pc \in {IF Current(w) \in Payments THEN "derive" ELSE "done", "fail"}
      BY <2>1, <2>2 DEF Notify, Goes, Record
    <3> QED BY <2>1, <3>1 DEF Cached
  <2>3. CASE Derive(w)
    <3>1. /\ cache' = cache /\ worker'[w].pc = "write" /\ worker'[w].seen = paid
          /\ overlapped' = (overlapped \/ \E v \in Workers \ {w} : worker[v].pc = "write")
      BY <2>1, <2>3 DEF Derive, Record
    <3>2. cache \subseteq paid /\ Current(w) \in paid
      <4>1. Current(w) \in Payments /\ Handling(w)
        BY <2>3 DEF Derive, PaymentStep, Shape, Fits, Current, Handling
      <4> QED BY <4>1 DEF Shape, TypeOK, Exclusive, ExclusiveDispatch
    <3> QED BY <2>1, <3>1, <3>2 DEF Cached
  <2>4. CASE WriteCache(w)
    <3>1. /\ overlapped' = overlapped /\ worker[w].pc = "write"
          /\ \/ cache' = worker[w].seen /\ worker'[w].pc = "done"
             \/ cache' = cache /\ worker'[w].pc = "fail"
      BY <2>1, <2>4 DEF WriteCache, PaymentStep, SnapshotOf, Goes, Record
    <3> QED BY <2>1, <3>1 DEF Cached
  <2> QED BY <1>4, <2>2, <2>3, <2>4
<1>5. ASSUME NEW w \in Workers, Handlers(w) PROVE Cached'
  BY <1>3, <1>4, <1>5 DEF Handlers
<1>6. CASE UNCHANGED vars
  BY <1>6 DEF vars, Cached, Current
<1> QED BY <1>1, <1>2, <1>5, <1>6, NextSplits

-----------------------------------------------------------------------------
IInv == Shape /\ Exclusive /\ Archived /\ Cached

LEMMA IInvAlways == Spec => []IInv
<1>1. Init => IInv
  BY ShapeInit, ExclusiveInit, ArchivedInit, CachedInit DEF IInv
<1>2. IInv /\ [Next]_vars => IInv'
  BY ShapeStep, ExclusiveStep, ArchivedStep, CachedStep DEF IInv
<1> QED BY <1>1, <1>2, PTL DEF Spec

\* An event is never in two hands, and its attempts are the dispatches that failed: overlapping
\* ticks lose none (processPendingOutboxEvents).
THEOREM ExclusiveDispatchAlways == Spec => []ExclusiveDispatch
<1>1. IInv => ExclusiveDispatch
  BY DEF IInv, Exclusive
<1> QED BY <1>1, IInvAlways, PTL

\* Of the exports that ran to the end one at most still has its archive (runDataExport).
THEOREM OneLiveArchiveAlways == Spec => []OneLiveArchive
<1>1. IInv => OneLiveArchive
  BY DEF IInv, Archived, NeitherBehind, Past, OneLiveArchive
<1> QED BY <1>1, IInvAlways, PTL

\* Once every recorded payment is handled the order shows them all (syncOrderSettlement), if no
\* two recomputations overlapped.
THEOREM CacheExactAlways == Spec => []CacheExact
<1>1. IInv => CacheExact
  BY DEF IInv, Shape, TypeOK, Cached, CacheExact
<1> QED BY <1>1, IInvAlways, PTL

-----------------------------------------------------------------------------
(***************************************************************************)
(* The queue implements the promise of delivery.                           *)
(***************************************************************************)
PhaseOf(status) ==
  IF status \in {"pending", "failed"} THEN "waiting"
  ELSE IF status = "processing" THEN "running"
  ELSE IF status = "processed" THEN "delivered" ELSE "none"
Tries == [e \in Events |-> event[e].attempts]

LEMMA PhaseIs ==
  ASSUME NEW e \in Events PROVE Phase[e] = PhaseOf(event[e].status)
BY DEF Phase, PhaseOf

\* One event changes, as the promise says, or none changes in what the promise tells.
LEMMA PromiseMoves ==
  ASSUME NEW e \in Events, \A x \in Events \ {e} : event'[x] = event[x],
         NEW from, NEW to, NEW failed \in Nat,
         PhaseOf(event[e].status) = from, PhaseOf(event'[e].status) = to,
         event'[e].attempts = event[e].attempts + failed
  PROVE  Promise!Step(e, from, to, failed)
<1>1. Phase[e] = from
  BY PhaseIs
<1>2. Phase' = [Phase EXCEPT ![e] = to]
  BY DEF Phase, PhaseOf
<1>3. Tries' = [Tries EXCEPT ![e] = @ + failed]
  BY DEF Tries
<1> QED BY <1>1, <1>2, <1>3 DEF Promise!Step, Tries

LEMMA PromiseInit == Init => Promise!Init
<1> SUFFICES ASSUME Init PROVE Promise!Init
  OBVIOUS
<1>1. Phase = [e \in Events |-> "none"] /\ Tries = [e \in Events |-> 0]
  BY DEF Init, Phase, Tries
<1> QED BY <1>1 DEF Promise!Init, Tries

LEMMA PromiseStep ==
  ASSUME IInv, [Next]_vars PROVE [Promise!Next]_<<Phase, Tries>>
<1>1. CASE Asking
  <2>1. PICK e : \/ e \in Events /\ (Publish(e) \/ BackoffEnds(e))
                 \/ UNCHANGED event
    BY <1>1 DEF Asking, Request, FindInFlight, FindRecent, CreateRow, PublishExport,
                RecordPayment, Share, Events
  <2>2. CASE UNCHANGED event
    BY <2>2 DEF Phase, Tries
  <2>3. CASE e \in Events /\ BackoffEnds(e)
    <3>1. \A x \in Events :
            event'[x].status = event[x].status /\ event'[x].attempts = event[x].attempts
      BY <2>3 DEF BackoffEnds, IInv, Shape, TypeOK
    <3> QED BY <3>1 DEF Phase, Tries
  <2>4. CASE e \in Events /\ Publish(e)
    <3>1. CASE \A x \in Events : event'[x] = event[x]
      BY <3>1 DEF Phase, Tries
    <3>2. CASE /\ event[e].status = "none" /\ event'[e].status = "pending"
               /\ event'[e].attempts = 0 /\ \A x \in Events \ {e} : event'[x] = event[x]
      <4>1. event[e].attempts = 0
        BY <2>4, <3>2 DEF IInv, Exclusive
      <4>2. Promise!Step(e, "none", "waiting", 0)
        BY <2>4, <3>2, <4>1, PromiseMoves DEF PhaseOf
      <4> QED BY <2>4, <4>2 DEF Promise!Next
    <3>3. \A x \in Events : \/ event'[x] = event[x]
                            \/ x = e /\ event[e].status = "none"
                               /\ event'[e] = [status |-> "pending", attempts |-> 0, due |-> TRUE]
      BY <2>4, PublishKeeps DEF IInv
    <3> QED BY <3>1, <3>2, <3>3
  <2> QED BY <2>1, <2>2, <2>3, <2>4
<1>2. ASSUME NEW w \in Workers, Queue(w) PROVE [Promise!Next]_<<Phase, Tries>>
  <2>1. CASE event' = event
    BY <2>1 DEF Phase, Tries
  <2>2. CASE Claim(w) /\ CanClaim(w)
    <3>1. /\ Current(w) \in Events /\ event[Current(w)].status \in {"pending", "failed"}
          /\ event' = [event EXCEPT ![Current(w)].status = "processing"]
      BY <2>2, BatchHead DEF Claim, CanClaim, Entry, IInv
    <3>2. /\ event'[Current(w)].status = "processing"
          /\ event'[Current(w)].attempts = event[Current(w)].attempts + 0
          /\ \A x \in Events \ {Current(w)} : event'[x] = event[x]
      BY <3>1 DEF IInv, Shape, TypeOK
    <3>3. Promise!Step(Current(w), "waiting", "running", 0)
      BY <3>1, <3>2, PromiseMoves DEF PhaseOf
    <3> QED BY <3>1, <3>3 DEF Promise!Next
  <2>3. CASE EventProcessed(w) \/ EventFailed(w)
    <3>1. /\ Current(w) \in Events /\ Handling(w) /\ worker[w].tries = event[Current(w)].attempts
          /\ event[Current(w)].status = "processing"
      BY <2>3, BatchHead DEF EventProcessed, EventFailed, Handling, IInv, Exclusive,
                             ExclusiveDispatch
    <3>2. \A x \in Events \ {Current(w)} : event'[x] = event[x]
      BY <2>3, <3>1 DEF EventProcessed, EventFailed, IInv, Shape, TypeOK
    <3>3. CASE EventProcessed(w)
      <4>1. /\ event'[Current(w)].status = "processed"
            /\ event'[Current(w)].attempts = event[Current(w)].attempts + 0
        BY <3>1, <3>3 DEF EventProcessed, IInv, Shape, TypeOK
      <4>2. Promise!Step(Current(w), "running", "delivered", 0)
        BY <3>1, <3>2, <4>1, PromiseMoves DEF PhaseOf
      <4> QED BY <3>1, <4>2 DEF Promise!Next
    <3>4. CASE EventFailed(w)
      <4>1. /\ event'[Current(w)].status = "failed"
            /\ event'[Current(w)].attempts = event[Current(w)].attempts + 1
        BY <3>1, <3>4 DEF EventFailed, Failed, IInv, Shape, TypeOK
      <4>2. Promise!Step(Current(w), "running", "waiting", 1)
        BY <3>1, <3>2, <4>1, PromiseMoves DEF PhaseOf
      <4> QED BY <3>1, <4>2 DEF Promise!Next
    <3> QED BY <2>3, <3>3, <3>4
  <2> QED BY <1>2, <2>1, <2>2, <2>3 DEF Queue, FindCandidates, Claim, Crash
<1>3. ASSUME NEW w \in Workers, Handlers(w) PROVE [Promise!Next]_<<Phase, Tries>>
  BY <1>3, HandlerKeeps DEF IInv, Phase, Tries
<1>4. CASE UNCHANGED vars
  BY <1>4 DEF vars, Phase, Tries
<1> QED BY <1>1, <1>2, <1>3, <1>4, NextSplits

\* Whatever ticks overlap or die: an event is accepted once, handled by one handler at a time,
\* handed back only with one more failure on its record, and never handled again once its
\* success is saved.
THEOREM DeliveryAlwaysPromised == Spec => DeliveryPromised
<1>1. Init => Promise!Init
  BY PromiseInit
<1>2. IInv /\ [Next]_vars => [Promise!Next]_<<Phase, Tries>>
  BY PromiseStep
<1> QED BY <1>1, <1>2, IInvAlways, PTL DEF Spec, DeliveryPromised, Promise!Spec, Tries
=============================================================================
