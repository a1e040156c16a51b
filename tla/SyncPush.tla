------------------------------ MODULE SyncPush ------------------------------
(***************************************************************************)
(* One device pushing the sales it made offline, beside sales posted       *)
(* online, into one numbering series.  A sale is                           *)
(*   "printed": made offline, the next number of the series already on the *)
(*              customer's copy;                                           *)
(*   "plain":   made offline without a number, the server gives it one;    *)
(*   "web":     posted online, and retried under the same Idempotency-Key. *)
(* The series is the shared one (device 1).  A device with a segment of    *)
(* its own runs the same steps on a series no web sale draws from.         *)
(* A request is a batch of operations executed one at a time, one action   *)
(* per round trip; the device may push again while an earlier request that *)
(* it gave up on still runs.                                               *)
(*                                                                         *)
(* Left out: permissions, plan warnings, validation, the format of         *)
(* numbers, the request hash (a key names one operation for good).         *)
(***************************************************************************)
EXTENDS Integers, Sequences, FiniteSets

CONSTANTS
  Sales,       \* numbers: the order in which the device made them
  Slots,       \* requests that can be under way at once
  MaxFaults,   \* bound: crashes, failed transactions and unsaved outcomes
  MaxExpiries  \* bound: locks that outlive LOCK_TIMEOUT_MS

PushShape == IsFiniteSet(Sales) /\ IsFiniteSet(Slots)

VARIABLES
  counter, \* NumberSequence.current
  docs,    \* documents, [sale, number]; the number is unique
  stamped, \* [Sales -> number of the document that carries its clientId, or 0]
  key,     \* [Sales -> its IdempotencyKey row]
  local,   \* the device's copy of the series position
  kind,    \* [Sales -> "none" until made]
  printed, \* [Sales -> number on the printed copy, 0 for none]
  answer,  \* [Sales -> what the client was last told]
  slot,    \* [Slots -> the request: batch left, step, document in hand, results]
  faults, expiries,
  runs,    \* history: [Sales -> locks of this key that expired]
  cut      \* history: sales whose request died before their number was burned

vars == <<counter, docs, stamped, key, local, kind, printed, answer, slot,
          faults, expiries, runs, cut>>
device == <<local, kind, printed>>

Idle == [pc |-> "idle", batch |-> <<>>, doc |-> 0, lock |-> 0, told |-> {}]
Unclaimed == [status |-> "none", lock |-> 0, stale |-> FALSE, result |-> 0]
Used == {d.number : d \in docs}
Sale(s) == Head(slot[s].batch)
Larger(a, b) == IF a > b THEN a ELSE b

TypeOK ==
  /\ counter \in Nat /\ local \in Nat
  /\ docs \subseteq [sale : Sales, number : Nat \ {0}]
  /\ \A d, e \in docs : d.number = e.number => d = e
  /\ stamped \in [Sales -> Used \cup {0}]
  /\ key \in [Sales -> [status : {"none", "processing", "completed", "failed"},
                        lock : Nat, stale : BOOLEAN, result : Nat]]
  /\ kind \in [Sales -> {"none", "printed", "plain", "web"}]
  /\ \A o \in Sales : kind[o] = "printed" <=> printed[o] # 0
  /\ answer \in [Sales -> {"none", "ok", "refused"}]
  /\ \A s \in Slots :
       /\ slot[s].pc \in {"idle", "match", "guard", "key", "reclaim", "handle",
                          "finish", "stamp", "burn", "reply"}
       /\ slot[s].pc \in {"idle", "reply"} <=> slot[s].batch = <<>>

Init ==
  /\ counter = 0 /\ docs = {} /\ local = 0
  /\ stamped = [o \in Sales |-> 0]
  /\ key = [o \in Sales |-> Unclaimed]
  /\ kind = [o \in Sales |-> "none"] /\ printed = [o \in Sales |-> 0]
  /\ answer = [o \in Sales |-> "none"]
  /\ slot = [s \in Slots |-> Idle]
  /\ faults = 0 /\ expiries = 0
  /\ runs = [o \in Sales |-> 0]
  /\ cut = {}

-----------------------------------------------------------------------------
\* The clients.
\* A printed number follows the device's copy of the position, which it reads again
\* (registerDevice) whenever it is online.
Make(o, k) ==
  /\ kind[o] = "none" /\ \A p \in Sales : p < o => kind[p] # "none"
  /\ kind' = [kind EXCEPT ![o] = k]
  /\ IF k = "printed"
     THEN \E from \in {local, Larger(local, counter)} :
            local' = from + 1 /\ printed' = [printed EXCEPT ![o] = from + 1]
     ELSE UNCHANGED <<local, printed>>
  /\ UNCHANGED <<counter, docs, stamped, key, answer, slot, faults, expiries, runs, cut>>

Waiting(o) == kind[o] # "none" /\ answer[o] = "none"
InOrder(S) ==
  {q \in [1..Cardinality(S) -> S] : \A i, j \in 1..Cardinality(S) : i < j => q[i] < q[j]}
Start(s, batch, pc) ==
  /\ slot[s].pc = "idle" /\ batch # <<>>
  /\ slot' = [slot EXCEPT ![s] = [Idle EXCEPT !.pc = pc, !.batch = batch]]
  /\ UNCHANGED <<counter, docs, stamped, key, device, answer, faults, expiries, runs,
                 cut>>
Push(s) ==
  \E batch \in InOrder({o \in Sales : Waiting(o) /\ kind[o] # "web"}) : Start(s, batch, "match")
Post(s, o) == Waiting(o) /\ kind[o] = "web" /\ Start(s, <<o>>, "key")

-----------------------------------------------------------------------------
\* The server.  A request's step, and the end of its current operation.
At(s, pc) == slot[s].pc = pc
Goto(s, pc) == slot' = [slot EXCEPT ![s].pc = pc]
Tell(s, what) ==
  LET left == Tail(slot[s].batch) IN
  slot' = [slot EXCEPT ![s] =
    [Idle EXCEPT !.pc = IF left = <<>> THEN "reply" ELSE "match",
                 !.batch = left,
                 !.told = slot[s].told \cup {<<Sale(s), what>>}]]

\* Echo matching: a create that already landed is answered with what it made.
Match(s) ==
  /\ At(s, "match")
  /\ IF stamped[Sale(s)] # 0 THEN Tell(s, "ok") ELSE Goto(s, "guard")
  /\ UNCHANGED <<counter, docs, stamped, key, device, answer, faults, expiries, runs,
                 cut>>

\* A printed number must lie beyond what the series has issued.
Issued(n) == n # 0 /\ n <= counter
Guard(s) ==
  /\ At(s, "guard")
  /\ LET n == printed[Sale(s)] IN
     IF Issued(n) THEN Tell(s, "refused") ELSE Goto(s, "key")
  /\ UNCHANGED <<counter, docs, stamped, key, device, answer, faults, expiries, runs, cut>>

\* The idempotency record: insert it, replay it, wait for it or reclaim it.
Replayable(k) == k.status = "completed"
Locked(k) == k.status = "processing" /\ ~k.stale
Claim(s) ==
  /\ At(s, "key")
  /\ LET o == Sale(s)
         k == key[o] IN
     \/ /\ k.status = "none"
        /\ key' = [key EXCEPT ![o].status = "processing"]
        /\ Goto(s, "handle")
     \/ /\ Replayable(k)
        /\ IF k.result = 0 THEN Tell(s, "refused")
           ELSE IF kind[o] = "web" THEN Tell(s, "ok")
           ELSE slot' = [slot EXCEPT ![s].pc = "stamp", ![s].doc = k.result]
        /\ UNCHANGED key
     \/ /\ ~Replayable(k) /\ Locked(k)
        /\ Tell(s, "again")
        /\ UNCHANGED key
     \/ /\ ~Replayable(k) /\ k.status # "none" /\ ~Locked(k)
        /\ slot' = [slot EXCEPT ![s].pc = "reclaim", ![s].lock = k.lock]
        /\ UNCHANGED key
  /\ UNCHANGED <<counter, docs, stamped, device, answer, faults, expiries, runs, cut>>

HeldStill(k, seen) == k.status \in {"processing", "failed"}
CanReclaim(k, seen) == k.status \in {"processing", "failed"} /\ k.lock = seen
Reclaim(s) ==
  /\ At(s, "reclaim")
  /\ LET o == Sale(s) IN
     IF CanReclaim(key[o], slot[s].lock)
     THEN /\ key' = [key EXCEPT ![o] =
               [status |-> "processing", lock |-> @.lock + 1, stale |-> FALSE, result |-> 0]]
          /\ Goto(s, "handle")
     ELSE Tell(s, "again") /\ UNCHANGED key
  /\ UNCHANGED <<counter, docs, stamped, device, answer, faults, expiries, runs, cut>>

\* The controller, one transaction.  A taken number aborts it, with its $inc.
NumberBefore(o) == IF printed[o] # 0 THEN printed[o] ELSE counter
NumberAssigned(o) == counter + 1
NumberFor(o) == IF printed[o] # 0 THEN printed[o] ELSE counter + 1
Create(s) ==
  /\ At(s, "handle")
  /\ LET o == Sale(s)
         n == NumberFor(o) IN
     /\ n \notin Used
     /\ docs' = docs \cup {[sale |-> o, number |-> n]}
     /\ counter' = IF printed[o] # 0 THEN counter ELSE n
     /\ slot' = [slot EXCEPT ![s].pc = "finish", ![s].doc = n]
  /\ UNCHANGED <<stamped, key, device, answer, faults, expiries, runs, cut>>

\* Online the error handler's answer is an outcome too, and is recorded; on the
\* push path a thrown error reaches no res.json, and the key stays locked.
NumberTaken(s) ==
  /\ At(s, "handle")
  /\ LET o == Sale(s) IN
     /\ NumberFor(o) \in Used
     /\ key' = IF kind[o] = "web"
               THEN [key EXCEPT ![o].status = "completed", ![o].result = 0] ELSE key
     /\ Tell(s, "refused")
  /\ UNCHANGED <<counter, docs, stamped, device, answer, faults, expiries, runs, cut>>

Fault == faults < MaxFaults /\ faults' = faults + 1
CreateFails(s) ==
  /\ At(s, "handle") /\ Fault
  /\ LET o == Sale(s) IN
     key' = IF kind[o] = "web" THEN [key EXCEPT ![o].status = "failed"] ELSE key
  /\ Tell(s, "again")
  /\ UNCHANGED <<counter, docs, stamped, device, answer, expiries, runs, cut>>

\* Recording the outcome, by _id alone and best-effort.
Finish(s, saved) ==
  /\ At(s, "finish")
  /\ LET o == Sale(s) IN
     /\ IF saved
        THEN /\ key' = [key EXCEPT ![o].status = "completed", ![o].result = slot[s].doc]
             /\ UNCHANGED faults
        ELSE Fault /\ UNCHANGED key
     /\ IF kind[o] = "web" THEN Tell(s, "ok") ELSE Goto(s, "stamp")
  /\ UNCHANGED <<counter, docs, stamped, device, answer, expiries, runs, cut>>

\* The clientId, unique, goes on the document; then its number is burned.
Stamp(s) ==
  /\ At(s, "stamp")
  /\ LET o == Sale(s) IN
     IF stamped[o] \in {0, slot[s].doc}
     THEN /\ stamped' = [stamped EXCEPT ![o] = slot[s].doc]
          /\ Goto(s, "burn")
     ELSE Tell(s, "refused") /\ UNCHANGED stamped
  /\ UNCHANGED <<counter, docs, key, device, answer, faults, expiries, runs, cut>>

BurnedAsSent(n) == IF n = 0 THEN counter ELSE n
Burned(n) == Larger(counter, n)
Burn(s) ==
  /\ At(s, "burn")
  /\ counter' = Burned(printed[Sale(s)])
  /\ Tell(s, "ok")
  /\ UNCHANGED <<docs, stamped, key, device, answer, faults, expiries, runs, cut>>

Reply(s, lost) ==
  /\ At(s, "reply")
  /\ slot' = [slot EXCEPT ![s] = Idle]
  /\ answer' = IF lost THEN answer
       ELSE [o \in Sales |->
         IF answer[o] # "none" THEN answer[o]
         ELSE IF <<o, "ok">> \in slot[s].told THEN "ok"
         ELSE IF <<o, "refused">> \in slot[s].told THEN "refused" ELSE "none"]
  /\ UNCHANGED <<counter, docs, stamped, key, device, faults, expiries, runs, cut>>

\* The process dies, or a write outside the controller throws.
Crash(s) ==
  /\ slot[s].batch # <<>> /\ Fault
  /\ slot' = [slot EXCEPT ![s] = Idle]
  /\ cut' = IF At(s, "burn") THEN cut \cup {Sale(s)} ELSE cut
  /\ UNCHANGED <<counter, docs, stamped, key, device, answer, expiries, runs>>

Expire(o) ==
  /\ Locked(key[o]) /\ expiries < MaxExpiries
  /\ expiries' = expiries + 1
  /\ key' = [key EXCEPT ![o].stale = TRUE]
  /\ runs' = [runs EXCEPT ![o] = @ + 1]
  /\ UNCHANGED <<counter, docs, stamped, device, answer, slot, faults, cut>>

Next ==
  \/ \E o \in Sales :
       Expire(o) \/ \E k \in {"printed", "plain", "web"} : Make(o, k)
  \/ \E s \in Slots :
       \/ Push(s) \/ \E o \in Sales : Post(s, o)
       \/ Match(s) \/ Guard(s) \/ Claim(s) \/ Reclaim(s)
       \/ Create(s) \/ NumberTaken(s) \/ CreateFails(s)
       \/ \E saved \in BOOLEAN : Finish(s, saved)
       \/ Stamp(s) \/ Burn(s)
       \/ \E lost \in BOOLEAN : Reply(s, lost)
       \/ Crash(s)

Spec == Init /\ [][Next]_vars

-----------------------------------------------------------------------------
Burning(o) == \E s \in Slots : At(s, "burn") /\ Sale(s) = o
Covered(o) == printed[o] = 0 \/ printed[o] <= counter

\* However often a sale is pushed or posted, and whatever crashes, it becomes one
\* document, and one more for each time its lock expired (or its failure was
\* recorded) and the key was claimed again.
OneDocumentPerClaim ==
  \A o \in Sales : Cardinality({d \in docs : d.sale = o}) <= 1 + runs[o]

\* A sale the client was told is written has its document; a printed one has it
\* under the number on the customer's copy.
AcknowledgedIsWritten ==
  \A o \in Sales : answer[o] = "ok" =>
    \E d \in docs :
      /\ d.sale = o
      /\ kind[o] # "web" => stamped[o] = d.number
      /\ kind[o] = "printed" => d.number = printed[o]

\* Behind an acknowledged printed sale the series has moved past its number, unless
\* a request is about to move it or died at that very point.
NumberBurned ==
  \A o \in Sales : answer[o] = "ok" => Covered(o) \/ Burning(o) \/ o \in cut

\* A number the server has put on a document is never offered to another sale,
\* whatever crashed.
NeverHandedOutAgain ==
  \A o \in Sales : answer[o] = "ok" => Covered(o) \/ Burning(o)

\* A number refused as already issued is on a document.
RefusedMeansIssued ==
  [][\A s \in Slots : Guard(s) /\ slot'[s].pc # "key" => printed[Sale(s)] \in Used]_vars
=============================================================================
