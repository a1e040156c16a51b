------------------------------- MODULE Access -------------------------------
(***************************************************************************)
(* What a business may do.  Its subscription carries a copy of what the    *)
(* plan offered when it was applied; every request resolves the status     *)
(* from the dates, and falls back to the default plan, which is cached,    *)
(* when the subscription has lapsed.  Transitions read the subscription,   *)
(* save it and write the mirror on the business; a sweep an hour tells     *)
(* those whose plan is about to end.  A time is an hour of the sweep.      *)
(***************************************************************************)
EXTENDS Integers, FiniteSets

CONSTANTS
  Businesses,
  Stages,      \* RENEWAL_REMINDER_DAYS
  Term, GraceTerm, TrialTerm,
  Batch,       \* BATCH_LIMIT
  Ttl,         \* PLAN_CACHE_TTL_MS
  Slots,       \* requests that overlap
  MaxTime, MaxRequests, MaxEdits   \* bounds

\* What is assumed of the constants: reminders come within a term, and are finitely many.
AccessShape ==
  /\ Term \in Nat /\ GraceTerm \in Nat /\ TrialTerm \in Nat /\ Ttl \in Nat \ {0}
  /\ MaxTime \in Nat \ {0} /\ MaxRequests \in Nat /\ MaxEdits \in Nat
  /\ Stages \subseteq 1..(Term - 1) /\ Stages # {}
  /\ \A S \in SUBSET Stages : S # {} =>
       (\E d \in S : \A e \in S : d <= e) /\ (\E d \in S : \A e \in S : e <= d)

VARIABLES
  now,
  offered,   \* [free, pro -> what the live plan offers: a number that edits count up]
  cache,     \* the default plan as cached: value and time, value -1 for none
  sub,       \* [Businesses -> Subscription]
  mirror,    \* [Businesses -> Business.plan: key and status]
  request, served,
  told,      \* notices of a plan about to end: business, its end, stage
  sweptAt,   \* the time of the last sweep
  bought,    \* ghost: [Businesses -> what the plan offered when it was applied]
  replaced,  \* ghost: offers of the default plan and the time of the edit that ended them
  overlapped,\* ghost: businesses with two transitions at once
  hurried    \* ghost: businesses a sweep left out, or changed after the last one

vars == <<now, offered, cache, sub, mirror, request, served, told, sweptAt,
          bought, replaced, overlapped, hurried>>

Null == 0
Free(has) == [plan |-> "free", status |-> "active", has |-> has, periodEnd |-> Null,
              graceEnd |-> Null, trialEnd |-> Null, trialUsed |-> FALSE, cancelAt |-> Null,
              autopay |-> FALSE]
Idle == [pc |-> "idle", kind |-> "none", b |-> 1, copy |-> Free(0), status |-> "none",
         source |-> "none", has |-> 0, at |-> 0]

Init ==
  /\ now = 1 /\ offered = [free |-> 0, pro |-> 0]
  /\ cache = [value |-> -1, at |-> 0]
  /\ sub = [b \in Businesses |-> Free(0)]
  /\ mirror = [b \in Businesses |-> [key |-> "free", status |-> "active"]]
  /\ request = [s \in Slots |-> Idle] /\ served = 0
  /\ told = {} /\ sweptAt = 0
  /\ bought = [b \in Businesses |-> 0] /\ replaced = {}
  /\ overlapped = {} /\ hurried = {}

Statuses == {"active", "trialing", "in_grace", "expired", "cancelled"}
TypeOK ==
  /\ now \in 1..MaxTime /\ sweptAt \in 0..MaxTime
  /\ offered \in [{"free", "pro"} -> 0..MaxEdits] /\ cache.value \in -1..MaxEdits
  /\ \A b \in Businesses :
       /\ sub[b].plan \in {"free", "pro"} /\ sub[b].status \in {"active", "trialing"}
       /\ mirror[b].key \in {"free", "pro"} /\ mirror[b].status \in Statuses
       /\ sub[b].graceEnd >= sub[b].periodEnd
  /\ \A s \in Slots : request[s].pc \in {"idle", "save", "mirror", "decide"}
  /\ served \in 0..MaxRequests
  /\ overlapped \subseteq Businesses /\ hurried \subseteq Businesses

-----------------------------------------------------------------------------
\* resolveStatus: from the dates, on every read.
Status(x) ==
  CASE x.cancelAt # Null /\ x.cancelAt <= now -> "cancelled"
    [] OTHER ->
       IF x.status = "trialing" THEN IF x.trialEnd > now THEN "trialing" ELSE "expired"
       ELSE IF x.periodEnd = Null \/ x.periodEnd > now THEN "active"
       ELSE IF x.graceEnd > now THEN "in_grace" ELSE "expired"
Entitled(x) == Status(x) \in {"trialing", "active", "in_grace"}

At(s, pc) == request[s].pc = pc
Go(s, r) == request' = [request EXCEPT ![s] = r]
Serve(s) == At(s, "idle") /\ served < MaxRequests /\ served' = served + 1
Moving(b) == {s \in Slots : request[s].b = b /\ request[s].pc \in {"save", "mirror"}}

\* A transition reads the subscription first.
Read(s, kind, b) ==
  /\ Serve(s)
  /\ Go(s, [Idle EXCEPT !.pc = "save", !.kind = kind, !.b = b, !.copy = sub[b]])
  /\ overlapped' = IF Moving(b) = {} THEN overlapped \ {b} ELSE overlapped \cup {b}
  /\ UNCHANGED <<now, offered, cache, sub, mirror, told, sweptAt, bought, replaced, hurried>>

\* startTrial, cancelSubscription and reactivateSubscription have their conditions.
Paid(x) == Status(x) \in {"active", "in_grace"} /\ x.periodEnd # Null
MayBegin(kind, x) ==
  CASE kind = "apply" -> TRUE
    [] kind = "trial" -> ~x.trialUsed /\ ~Paid(x)
    [] kind = "cancel" -> Status(x) \notin {"cancelled", "expired"}
    [] kind = "reactivate" -> x.cancelAt # Null /\ x.cancelAt > now
Begin(s, kind, b) == MayBegin(kind, sub[b]) /\ Read(s, kind, b)

\* applyPlan: the copy of the plan is taken; a renewal runs from the end of the period.
Applied(x, copy) ==
  LET from == IF copy.periodEnd > now THEN {now, copy.periodEnd} ELSE {now}
  IN {[x EXCEPT !.plan = "pro", !.status = "active", !.has = offered.pro,
                !.periodEnd = f + Term, !.graceEnd = f + Term + GraceTerm,
                !.cancelAt = Null] : f \in from}
Tried(x) ==
  [x EXCEPT !.plan = "pro", !.status = "trialing", !.has = offered.pro, !.periodEnd = Null,
            !.graceEnd = Null, !.trialEnd = now + TrialTerm, !.trialUsed = TRUE,
            !.cancelAt = Null]
CancelTime(copy) == IF copy.periodEnd > now THEN copy.periodEnd ELSE now
Saved(r, x) ==
  CASE r.kind = "apply" -> Applied(x, r.copy)
    [] r.kind = "trial" -> {Tried(x)}
    [] r.kind = "cancel" -> {[x EXCEPT !.cancelAt = CancelTime(r.copy)]}
    [] r.kind = "reactivate" -> {[x EXCEPT !.cancelAt = Null]}

\* The document the request holds afterwards: whole after an update that returns it, the
\* copy with its own change after a save.
Save(s) ==
  /\ At(s, "save")
  /\ LET r == request[s]
         b == r.b
         whole == r.kind \in {"apply", "trial"}
     IN /\ \E x \in Saved(r, sub[b]) :
             /\ sub' = [sub EXCEPT ![b] = x]
             /\ LET mine == IF whole THEN x ELSE [r.copy EXCEPT !.cancelAt = x.cancelAt]
                IN Go(s, [r EXCEPT !.pc = "mirror", !.copy = mine, !.status = Status(mine)])
        /\ bought' = IF whole THEN [bought EXCEPT ![b] = offered.pro] ELSE bought
        /\ hurried' = IF whole THEN hurried \ {b} ELSE hurried \cup {b}
  /\ UNCHANGED <<now, offered, cache, mirror, served, told, sweptAt, replaced, overlapped>>

\* syncBusinessMirror
WriteMirror(s) ==
  /\ At(s, "mirror")
  /\ mirror' = [mirror EXCEPT ![request[s].b] =
                 [key |-> request[s].copy.plan, status |-> request[s].status]]
  /\ Go(s, Idle)
  /\ UNCHANGED <<now, offered, cache, sub, served, told, sweptAt, bought, replaced,
                 overlapped, hurried>>

\* The mandate is set up, or stops (Mandate).
Autopay(b) ==
  /\ sub[b].periodEnd > now
  /\ sub' = [sub EXCEPT ![b].autopay = ~@]
  /\ hurried' = hurried \cup {b}
  /\ UNCHANGED <<now, offered, cache, mirror, request, served, told, sweptAt, bought,
                 replaced, overlapped>>

\* An admin edits a plan.
Edit(plan) ==
  /\ offered[plan] < MaxEdits
  /\ offered' = [offered EXCEPT ![plan] = @ + 1]
  /\ replaced' = IF plan = "free" THEN replaced \cup {<<offered.free, now>>} ELSE replaced
  /\ UNCHANGED <<now, cache, sub, mirror, request, served, told, sweptAt, bought,
                 overlapped, hurried>>

-----------------------------------------------------------------------------
\* req.access: resolved once, kept for the rest of the request.
Cached == IF cache.value # -1 /\ now - cache.at < Ttl THEN cache
          ELSE [value |-> offered.free, at |-> now]
ResolvedLive(b) == IF Entitled(sub[b]) THEN [source |-> "snapshot", has |-> offered[sub[b].plan]]
                   ELSE [source |-> "fallback", has |-> Cached.value]
Resolved(b) == IF Entitled(sub[b]) THEN [source |-> "snapshot", has |-> sub[b].has]
               ELSE [source |-> "fallback", has |-> Cached.value]
Resolve(s, b) ==
  /\ Serve(s)
  /\ cache' = IF Entitled(sub[b]) THEN cache ELSE Cached
  /\ Go(s, [Idle EXCEPT !.pc = "decide", !.b = b, !.source = Resolved(b).source,
                        !.has = Resolved(b).has, !.at = now,
                        !.copy = [sub[b] EXCEPT !.has = bought[b]]])
  /\ UNCHANGED <<now, offered, sub, mirror, told, sweptAt, bought, replaced, overlapped,
                 hurried>>
Decide(s) ==
  /\ At(s, "decide") /\ Go(s, Idle)
  /\ UNCHANGED <<now, offered, cache, sub, mirror, served, told, sweptAt, bought, replaced,
                 overlapped, hurried>>

-----------------------------------------------------------------------------
\* sendRenewalReminders: a batch of those whose period ends within the widest stage.
Widest == CHOOSE d \in Stages : \A e \in Stages : e <= d
DueSoon == {b \in Businesses : /\ sub[b].periodEnd > now /\ sub[b].periodEnd <= now + Widest
                               /\ sub[b].cancelAt = Null}
StageOf(b) == CHOOSE d \in Stages : /\ sub[b].periodEnd <= now + d
                                    /\ \A e \in Stages : sub[b].periodEnd <= now + e => d <= e
Silent(b) == sub[b].autopay \/ Status(sub[b]) # "active"
Sweep ==
  /\ sweptAt < now /\ sweptAt' = now
  /\ \E these \in SUBSET DueSoon :
       /\ Cardinality(these) = (IF Cardinality(DueSoon) < Batch THEN Cardinality(DueSoon)
                                ELSE Batch)
       /\ told' = told \cup {<<b, sub[b].periodEnd, StageOf(b)>> : b \in
                              {c \in these : ~Silent(c)}}
       /\ hurried' = (hurried \cup DueSoon) \ {b \in these : ~Silent(b)}
  /\ UNCHANGED <<now, offered, cache, sub, mirror, request, served, bought, replaced,
                 overlapped>>

\* An hour goes by once it had its sweep.
Tick ==
  /\ now < MaxTime /\ sweptAt = now /\ now' = now + 1
  /\ UNCHANGED <<offered, cache, sub, mirror, request, served, told, sweptAt, bought,
                 replaced, overlapped, hurried>>

Next ==
  \/ \E s \in Slots, b \in Businesses :
       \/ \E kind \in {"apply", "trial", "cancel", "reactivate"} : Begin(s, kind, b)
       \/ Resolve(s, b)
  \/ \E s \in Slots : Save(s) \/ WriteMirror(s) \/ Decide(s)
  \/ \E b \in Businesses : Autopay(b)
  \/ \E plan \in {"free", "pro"} : Edit(plan)
  \/ Sweep \/ Tick

Spec == Init /\ [][Next]_vars

-----------------------------------------------------------------------------
\* A subscriber has what the plan offered when it was applied, whatever the plan offers now
\* (resolveEntitlements); one whose plan has lapsed has the default plan, as it is or was
\* less than the life of the cache ago (getDefaultPlan).
AccessAsBought ==
  \A s \in Slots : At(s, "decide") =>
    LET r == request[s] IN
    IF r.source = "snapshot" THEN r.has = r.copy.has
    ELSE r.has = offered.free \/ \E e \in replaced : e[1] = r.has /\ r.at < e[2] + Ttl

\* The mirror on the business names the plan of the subscription, unless two transitions
\* overlapped (syncBusinessMirror).
MirrorFollows ==
  \A b \in Businesses : Moving(b) = {} /\ b \notin overlapped => mirror[b].key = sub[b].plan

\* A paid plan that ends was announced (sendRenewalReminders), unless it is cancelled, was
\* renewed by a mandate or changed after the last sweep, or the sweep had more than a batch.
EndAnnounced ==
  \A b \in Businesses :
    /\ sub[b].status = "active" /\ sub[b].periodEnd # Null /\ sub[b].periodEnd <= now
    /\ sub[b].cancelAt = Null /\ b \notin hurried
    => \E d \in Stages : <<b, sub[b].periodEnd, d>> \in told

AccessExact == AccessAsBought /\ MirrorFollows /\ EndAnnounced
=============================================================================
