------------------------------- MODULE PdfCache -------------------------------
(***************************************************************************)
(* The rendered PDF of one invoice, cached in object storage under a key   *)
(* made of the time of the last edit, and the pointer by which the invoice *)
(* knows which object to delete.  Pages are rendered from the copy of the  *)
(* invoice a request loaded; uploads and deletions are not waited for.     *)
(* Each action is a round trip to the database or to the storage.          *)
(***************************************************************************)
EXTENDS Naturals, FiniteSets

CONSTANTS
  Slots,      \* requests that overlap
  MaxEdits,   \* bound: edits of the invoice
  MaxPages    \* bound: pages asked for

\* What is assumed of the constants.
CacheShape == MaxEdits \in Nat /\ MaxPages \in Nat

VARIABLES
  invoice,  \* the edits it has seen, the time of the last one, and pdfCacheKey (0 for none)
  objects,  \* [times -> the edit the cached page shows, 0 for no object]
  request,
  served,
  rapid,    \* ghost: two edits had the same time
  outdated, \* ghost: a page was served that was older than the invoice its request loaded
  astray    \* ghost: times whose object was lost sight of

vars == <<invoice, objects, request, served, rapid, outdated, astray>>

Times == 1..(MaxEdits + 1)
New == [edit |-> 1, time |-> 1, key |-> 0]
Idle == [pc |-> "idle", read |-> New]

Init ==
  /\ invoice = New /\ objects = [t \in Times |-> 0]
  /\ request = [s \in Slots |-> Idle] /\ served = 0
  /\ rapid = FALSE /\ outdated = FALSE /\ astray = {}

TypeOK ==
  /\ invoice \in [edit : Times, time : Times, key : Times \cup {0}]
  /\ objects \in [Times -> Times \cup {0}]
  /\ request \in [Slots -> [pc : {"idle", "look", "put", "remember", "drop", "save", "delete",
                                  "purge", "commit"},
                            read : [edit : Times, time : Times, key : Times \cup {0}]]]
  /\ served \in 0..MaxPages
  /\ rapid \in BOOLEAN /\ outdated \in BOOLEAN /\ astray \subseteq Times

At(s, pc) == request[s].pc = pc
Go(s, r) == request' = [request EXCEPT ![s] = r]
Goto(s, pc) == Go(s, [request[s] EXCEPT !.pc = pc])
Unstamped(i) == 1
KeyOf(i) == i.time
Without(keys) == [t \in Times |-> IF t \in keys THEN 0 ELSE objects[t]]

-----------------------------------------------------------------------------
\* downloadInvoicePdf, publicInvoicePdf and sendInvoiceEmail load the invoice, and look for
\* the page of its last edit; a read that fails counts as a miss.
Download(s) ==
  /\ At(s, "idle") /\ served < MaxPages /\ served' = served + 1
  /\ Go(s, [pc |-> "look", read |-> invoice])
  /\ UNCHANGED <<invoice, objects, rapid, outdated, astray>>
Look(s) ==
  /\ At(s, "look")
  /\ LET i == request[s].read
         page == objects[KeyOf(i)]
     IN \/ /\ page # 0 /\ Go(s, Idle)
           /\ outdated' = (outdated \/ page < i.edit)
        \/ Goto(s, "put") /\ UNCHANGED outdated
  /\ UNCHANGED <<invoice, objects, served, rapid, astray>>

\* The page is rendered from the copy; the upload may fail.
Put(s) ==
  /\ At(s, "put")
  /\ LET i == request[s].read IN
     \/ objects' = [objects EXCEPT ![KeyOf(i)] = i.edit] /\ Goto(s, "remember")
     \/ UNCHANGED objects /\ Go(s, Idle)
  /\ UNCHANGED <<invoice, served, rapid, outdated, astray>>

\* rememberCacheKey: the pointer moves to the new object and the previous one of the copy is
\* deleted; it may fail, and without timestamps it does not count as an edit.
Locked == \E s \in Slots : At(s, "purge") \/ At(s, "commit")
Remembered(key) == [invoice EXCEPT !.key = key]
LostBy(s) == {invoice.key} \ {0, request[s].read.key, KeyOf(request[s].read)}
Remember(s) ==
  /\ At(s, "remember")
  /\ LET i == request[s].read
         key == KeyOf(i)
         missed == IF invoice.key = key THEN {} ELSE {key}
     IN \/ /\ i.key # key /\ ~Locked
           /\ invoice' = Remembered(key) /\ astray' = astray \cup LostBy(s)
           /\ IF i.key # 0 THEN Goto(s, "drop") ELSE Go(s, Idle)
        \/ UNCHANGED invoice /\ astray' = astray \cup missed /\ Go(s, Idle)
  /\ UNCHANGED <<objects, served, rapid, outdated>>
Deletes(keys) ==
  \E gone \in SUBSET keys :
    objects' = Without(gone) /\ astray' = astray \cup (keys \ gone)
Drop(s) ==
  /\ At(s, "drop")
  /\ Deletes({request[s].read.key})
  /\ Go(s, Idle) /\ UNCHANGED <<invoice, served, rapid, outdated>>

-----------------------------------------------------------------------------
\* A save of the invoice: its time moves on, unless two saves fall into one millisecond.
Edited(time) == [invoice EXCEPT !.edit = @ + 1, !.time = time]
Saved ==
  /\ invoice.edit <= MaxEdits /\ ~Locked
  /\ \E time \in {invoice.time, invoice.time + 1} :
       /\ invoice' = Edited(time) /\ rapid' = (rapid \/ time = invoice.time)

\* Most edits leave the cache alone: rotating the link, changing the status.
Edit ==
  /\ Saved /\ UNCHANGED <<objects, request, served, outdated, astray>>

\* A payment invalidates when it is through: the key of the copy as saved, and the pointer
\* as it was loaded.
Settle(s) ==
  /\ At(s, "idle") /\ invoice.edit <= MaxEdits
  /\ Go(s, [pc |-> "save", read |-> invoice])
  /\ UNCHANGED <<invoice, objects, served, rapid, outdated, astray>>
SaveSettled(s) ==
  /\ At(s, "save") /\ Saved
  /\ Go(s, [pc |-> "delete", read |-> [invoice' EXCEPT !.key = request[s].read.key]])
  /\ UNCHANGED <<objects, served, outdated, astray>>
Invalidate(s) ==
  /\ At(s, "delete")
  /\ Deletes({KeyOf(request[s].read), request[s].read.key} \ {0})
  /\ Go(s, Idle) /\ UNCHANGED <<invoice, served, rapid, outdated>>

\* A cancellation and a deletion invalidate before their transaction commits; meanwhile
\* nobody else writes the invoice.
Cancel(s) ==
  /\ At(s, "idle") /\ invoice.edit <= MaxEdits /\ ~Locked
  /\ \E time \in {invoice.time, invoice.time + 1} :
       Go(s, [pc |-> "purge", read |-> Edited(time)])
  /\ UNCHANGED <<invoice, objects, served, rapid, outdated, astray>>
Purge(s) ==
  /\ At(s, "purge")
  /\ Deletes({KeyOf(request[s].read), request[s].read.key} \ {0})
  /\ Goto(s, "commit") /\ UNCHANGED <<invoice, served, rapid, outdated>>
Commit(s) ==
  /\ At(s, "commit")
  /\ invoice' = request[s].read /\ rapid' = (rapid \/ request[s].read.time = invoice.time)
  /\ Go(s, Idle) /\ UNCHANGED <<objects, served, outdated, astray>>

Next ==
  \/ \E s \in Slots :
       \/ Download(s) \/ Look(s) \/ Put(s) \/ Remember(s) \/ Drop(s)
       \/ Settle(s) \/ SaveSettled(s) \/ Invalidate(s)
       \/ Cancel(s) \/ Purge(s) \/ Commit(s)
  \/ Edit

Spec == Init /\ [][Next]_vars

-----------------------------------------------------------------------------
\* A page is never older than the invoice its request loaded, unless two edits shared a
\* millisecond (invoicePdfCacheKey); and an object that is neither uploaded just now nor the
\* one the invoice points to was lost by a failure or by a pointer written from a stale copy
\* (rememberCacheKey, invalidateInvoicePdf).
PagesExact ==
  /\ outdated => rapid
  /\ \A t \in Times : objects[t] # 0 =>
       \/ t \in astray \/ invoice.key = t
       \/ \E s \in Slots : At(s, "remember") /\ KeyOf(request[s].read) = t
       \/ \E s \in Slots : At(s, "drop") /\ request[s].read.key = t
=============================================================================
