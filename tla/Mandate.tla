------------------------------- MODULE Mandate -------------------------------
(***************************************************************************)
(* Autopay: the mandates of one business at the provider, and their mirror *)
(* on its Subscription.  The mirror follows webhooks, which come late, out *)
(* of order and more than once; requests of the customer and the sweep for *)
(* quiet mandates act on the mirror and on the provider, one round trip at *)
(* a time.  What a charge buys is in Billing.                              *)
(***************************************************************************)
EXTENDS Naturals

CONSTANTS
  Mandates,   \* provider subscription ids, numbers above 0
  Slots       \* requests and sweeps under way at once

\* What is assumed of the constants.
MandateShape == Mandates \subseteq Nat \ {0}

VARIABLES
  remote,   \* [Mandates -> status at the provider]
  sent,     \* [Mandates -> events the provider sent, deliverable ever after]
  charged,  \* mandates whose charge has a payment row
  mirror,   \* the Subscription: subscriptionId and autopay fields
  task,     \* [Slots -> the step of a request and what it has read]
  quit,     \* history: a cancellation succeeded, and no enrolment since
  orphans,  \* history: mandates overwritten by another enrolment
  misled    \* history: the mirror was set by news of another mandate, or old news

vars == <<remote, sent, charged, mirror, task, quit, orphans, misled>>
ghosts == <<quit, orphans, misled>>

Events == {"authenticated", "charged", "pending", "halted", "cancelled", "completed"}
Ended == {"halted", "cancelled", "completed"}
Live == {"authenticated", "active", "pending"}     \* AUTOPAY_LIVE_STATUSES
Debiting == {"authenticated", "active", "retrying"}
Idle == [pc |-> "idle", m |-> 0, status |-> "none", cancels |-> FALSE]
NoMandate == [id |-> 0, status |-> "none", enabled |-> FALSE]

TypeOK ==
  /\ remote \in [Mandates -> {"none", "created", "ending"} \cup Debiting \cup Ended]
  /\ sent \in [Mandates -> SUBSET Events] /\ charged \subseteq Mandates
  /\ mirror \in [id : Mandates \cup {0}, status : {"none"} \cup Live \cup Ended, enabled : BOOLEAN]
  /\ quit \in BOOLEAN /\ misled \in BOOLEAN /\ orphans \subseteq Mandates
  /\ mirror.enabled => charged # {}
  /\ \A m \in Mandates : remote[m] = "none" => sent[m] = {} /\ mirror.id # m

Init ==
  /\ remote = [m \in Mandates |-> "none"]
  /\ sent = [m \in Mandates |-> {}]
  /\ charged = {} /\ mirror = NoMandate
  /\ task = [s \in Slots |-> Idle]
  /\ quit = FALSE /\ orphans = {} /\ misled = FALSE

At(s, pc) == task[s].pc = pc
Free(s) == At(s, "idle")
Do(s, next) == task' = [task EXCEPT ![s] = next]
IsLive == mirror.id # 0 /\ mirror.status \in Live

-----------------------------------------------------------------------------
\* The provider: a mandate is approved, debited, retried, halted, runs out, or is
\* cancelled by the bank or at the end of its cycle.  The customer sees it once saved.
Moves(from, to, event) == \E m \in Mandates :
  /\ remote[m] \in from /\ \A s \in Slots : task[s].m = m => ~At(s, "enrolled")
  /\ remote' = [remote EXCEPT ![m] = to]
  /\ sent' = [sent EXCEPT ![m] = @ \cup {event}]
  /\ UNCHANGED <<charged, mirror, task, ghosts>>
Approved == Moves({"created"}, "authenticated", "authenticated")
Debited == Moves(Debiting, "active", "charged")
DebitFails == Moves({"active"}, "retrying", "pending")
GivesUp == Moves({"retrying"}, "halted", "halted")
RunsOut == Moves({"active"}, "completed", "completed")
Cancelled == Moves(Debiting \cup {"ending"}, "cancelled", "cancelled")

-----------------------------------------------------------------------------
\* handleAutopayEvent.  findMandate falls back on the notes, so an event of any
\* mandate of the business finds this subscription, whichever mandate it names now.
Mirrored(e) == [mirror EXCEPT !.status = e, !.enabled = @ /\ e \notin Ended]
Charge(m) ==
  IF m \in charged THEN mirror ELSE [mirror EXCEPT !.status = "active", !.enabled = TRUE]
Latest(m, e) == remote[m] = CASE e = "charged" -> "active" [] e = "pending" -> "retrying" [] OTHER -> e
Webhook(m, e) ==
  /\ e \in sent[m]
  /\ mirror' = IF e = "charged" THEN Charge(m) ELSE Mirrored(e)
  /\ charged' = IF e = "charged" THEN charged \cup {m} ELSE charged
  /\ misled' = (misled \/ m # mirror.id \/ ~Latest(m, e))
  /\ UNCHANGED <<remote, sent, task, quit, orphans>>

-----------------------------------------------------------------------------
\* createAutopayEnrolment: read, mint at the provider, save.  The copy read has enabled
\* FALSE, so the save of FALSE writes nothing.
Enrol(s) ==
  /\ Free(s) /\ ~IsLive
  /\ Do(s, [Idle EXCEPT !.pc = "mint"])
  /\ UNCHANGED <<remote, sent, charged, mirror, ghosts>>
Mint(s) ==
  /\ At(s, "mint")
  /\ \E m \in Mandates :
       /\ remote[m] = "none" /\ \A n \in Mandates : remote[n] = "none" => m <= n
       /\ remote' = [remote EXCEPT ![m] = "created"]
       /\ Do(s, [Idle EXCEPT !.pc = "enrolled", !.m = m])
  /\ quit' = FALSE
  /\ UNCHANGED <<sent, charged, mirror, orphans, misled>>
SaveEnrolment(s) ==
  /\ At(s, "enrolled")
  /\ mirror' = [mirror EXCEPT !.id = task[s].m, !.status = "pending"]
  /\ orphans' = IF IsLive THEN orphans \cup {mirror.id} ELSE orphans
  /\ quit' = FALSE
  /\ Do(s, Idle)
  /\ UNCHANGED <<remote, sent, charged, misled>>

\* confirmAutopayMandate: the status saved is decided from the copy that was read,
\* and only a status that differs from it is written.
Confirm(s) ==
  /\ Free(s) /\ mirror.id # 0 /\ "authenticated" \in sent[mirror.id]
  /\ Do(s, [Idle EXCEPT !.pc = "confirm", !.m = mirror.id, !.status = mirror.status])
  /\ UNCHANGED <<remote, sent, charged, mirror, ghosts>>
SaveConfirmed(s) ==
  /\ At(s, "confirm")
  /\ mirror' = IF task[s].status \in {"active", "authenticated"} THEN mirror
               ELSE [mirror EXCEPT !.status = "authenticated"]
  /\ misled' = (misled \/ mirror.status # task[s].status \/ mirror.id # task[s].m)
  /\ Do(s, IF "charged" \in sent[task[s].m] THEN [task[s] EXCEPT !.pc = "charge"] ELSE Idle)
  /\ UNCHANGED <<remote, sent, charged, quit, orphans>>
ConfirmCharge(s) ==
  /\ At(s, "charge")
  /\ mirror' = Charge(task[s].m)
  /\ charged' = charged \cup {task[s].m}
  /\ misled' = (misled \/ mirror.id # task[s].m \/ remote[task[s].m] # "active")
  /\ Do(s, Idle)
  /\ UNCHANGED <<remote, sent, quit, orphans>>

-----------------------------------------------------------------------------
\* disableAutopay and cancelWithProvider: the mandate goes first, if the mirror says
\* there is one; a cancellation then ends the subscription too.
Stop(s, cancels) ==
  /\ Free(s)
  /\ IF IsLive
     THEN /\ Do(s, [Idle EXCEPT !.pc = "stop", !.m = mirror.id, !.cancels = cancels])
          /\ UNCHANGED quit
     ELSE cancels /\ quit' = TRUE /\ UNCHANGED task
  /\ UNCHANGED <<remote, sent, charged, mirror, orphans, misled>>

\* The provider's call may fail; the mandate is then read, and the request goes on
\* only if it had ended already.
OverAnyway(m) == TRUE
Over(m) == remote[m] \in {"cancelled", "completed"}
StopAtProvider(s, ok) ==
  /\ At(s, "stop")
  /\ LET m == task[s].m IN
     /\ remote' = IF ~ok \/ remote[m] \in Ended THEN remote
                  ELSE [remote EXCEPT ![m] = IF @ = "created" THEN "cancelled" ELSE "ending"]
     /\ Do(s, IF (ok /\ remote[m] \notin Ended) \/ Over(m)
              THEN [task[s] EXCEPT !.pc = "stopped"] ELSE Idle)
  /\ UNCHANGED <<sent, charged, mirror, ghosts>>
StopLocally(s) ==
  /\ At(s, "stopped")
  /\ mirror' = [mirror EXCEPT !.status = "cancelled", !.enabled = FALSE]
  /\ misled' = (misled \/ mirror.id # task[s].m)
  /\ quit' = (quit \/ task[s].cancels)
  /\ Do(s, Idle)
  /\ UNCHANGED <<remote, sent, charged, orphans>>

-----------------------------------------------------------------------------
\* reconcileAutopayMandates: a debit that was due has not come; ask the provider.
FindQuiet(s) ==
  /\ Free(s) /\ mirror.enabled /\ mirror.id # 0
  /\ Do(s, [Idle EXCEPT !.pc = "quiet", !.m = mirror.id])
  /\ UNCHANGED <<remote, sent, charged, mirror, ghosts>>
ReadRemote(s) ==
  /\ At(s, "quiet")
  /\ Do(s, [task[s] EXCEPT !.pc = "sync",
        !.status = IF remote[task[s].m] \in Ended THEN remote[task[s].m] ELSE "active"])
  /\ UNCHANGED <<remote, sent, charged, mirror, ghosts>>
SyncMirror(s) ==
  /\ At(s, "sync")
  /\ mirror' = IF task[s].status = "active" THEN [mirror EXCEPT !.status = "active"]
               ELSE [mirror EXCEPT !.status = task[s].status, !.enabled = FALSE]
  /\ misled' = (misled \/ mirror.id # task[s].m)
  /\ Do(s, Idle)
  /\ UNCHANGED <<remote, sent, charged, quit, orphans>>

Next ==
  \/ Approved \/ Debited \/ DebitFails \/ GivesUp \/ RunsOut \/ Cancelled
  \/ \E m \in Mandates, e \in Events : Webhook(m, e)
  \/ \E s \in Slots :
       \/ Enrol(s) \/ Mint(s) \/ SaveEnrolment(s)
       \/ Confirm(s) \/ SaveConfirmed(s) \/ ConfirmCharge(s)
       \/ \E cancels \in BOOLEAN : Stop(s, cancels)
       \/ \E ok \in BOOLEAN : StopAtProvider(s, ok)
       \/ StopLocally(s)
       \/ FindQuiet(s) \/ ReadRemote(s) \/ SyncMirror(s)

Spec == Init /\ [][Next]_vars

-----------------------------------------------------------------------------
\* A customer who cancelled is not debited: no mandate is left live (cancelWithProvider),
\* unless two enrolments at once orphaned it or the mirror believed an event of another
\* mandate, or an old one, which findMandate attributes to the subscription all the same.
CancelledStopsDebits ==
  quit => \A m \in Mandates : remote[m] \in Debiting => m \in orphans \/ misled
=============================================================================
