------------------------------- MODULE Quota -------------------------------
(***************************************************************************)
(* A metered limit: documents, exports or imports of a month.  A unit is   *)
(* consumed before the work and given back if the work fails; the counter  *)
(* is one row per month and per source of the entitlement.                 *)
(***************************************************************************)
EXTENDS Integers, FiniteSets

CONSTANTS
  Policies,     \* what a plan and a deployment may say: the ceiling by source of the
                \* entitlement, UNLIMITED is -1, and whether enforcementMode() is "on"
  Slots,        \* requests that overlap
  Months,       \* 1..n
  MaxRequests   \* bound: requests served

Sources == {"snapshot", "fallback"}

\* What is assumed of the constants.
QuotaShape ==
  /\ Policies \subseteq [limits : [Sources -> Int], enforced : BOOLEAN]
  /\ 1 \in Months /\ Months \subseteq Nat /\ IsFiniteSet(Slots) /\ MaxRequests \in Nat

VARIABLES
  terms,                  \* one of the Policies: the plan and the deployment of this business
  month, lapsed,          \* the calendar, and whether the subscription lapsed
  usage,                  \* SubscriptionUsage rows, by bucket
  issued,                 \* what the work produced, by bucket: interactive and offline
  request, served,
  leaked,                 \* units of work that failed and whose release failed too
  strayed,                \* ghost: a unit was released into another month
  contested, denied       \* ghosts: bucket created under a request; refused below the ceiling

vars == <<terms, month, lapsed, usage, issued, request, served, leaked, strayed, contested, denied>>

Buckets == Months \X Sources
Unlimited(c) == c < 0
Ceiling(b) == terms.limits[b[2]]
Enforced == terms.enforced
NoRow == [exists |-> FALSE, count |-> 0, overage |-> 0]
Idle == [pc |-> "idle", bucket |-> <<1, "snapshot">>, offline |-> FALSE, under |-> FALSE]

Init ==
  /\ terms \in Policies /\ month = 1 /\ lapsed = FALSE
  /\ usage = [b \in Buckets |-> NoRow]
  /\ issued = [b \in Buckets |-> [online |-> 0, offline |-> 0]]
  /\ request = [s \in Slots |-> Idle] /\ served = 0
  /\ leaked = [b \in Buckets |-> 0] /\ strayed = FALSE
  /\ contested = {} /\ denied = {}

TypeOK ==
  /\ terms \in Policies /\ month \in Months /\ lapsed \in BOOLEAN
  /\ usage \in [Buckets -> [exists : BOOLEAN, count : Nat, overage : Nat]]
  /\ issued \in [Buckets -> [online : Nat, offline : Nat]]
  /\ request \in [Slots -> [pc : {"idle", "find", "insert", "full", "work", "release"},
                            bucket : Buckets, offline : BOOLEAN, under : BOOLEAN]]
  /\ served \in 0..MaxRequests
  /\ leaked \in [Buckets -> Nat] /\ strayed \in BOOLEAN
  /\ contested \subseteq Buckets /\ denied \subseteq Buckets

At(s, pc) == request[s].pc = pc
Goto(s, pc) == request' = [request EXCEPT ![s].pc = pc]
End(s) == request' = [request EXCEPT ![s] = Idle]
Below(b) == ~Unlimited(Ceiling(b)) /\ usage[b].count < Ceiling(b)
Refused(s, b) == request' = [request EXCEPT ![s].pc = "full", ![s].under = Below(b)]
AllowOverage(s) == request[s].offline \/ ~Enforced
Add(row, n, over) ==
  [exists |-> TRUE, count |-> row.count + n, overage |-> row.overage + over]
books == <<issued, leaked, strayed>>
world == <<terms, month, lapsed, served>>

-----------------------------------------------------------------------------
MonthTurns == /\ month + 1 \in Months /\ month' = month + 1
              /\ UNCHANGED <<terms, lapsed, usage, request, served, books, contested, denied>>
Lapses == /\ lapsed' = ~lapsed
          /\ UNCHANGED <<terms, month, usage, request, served, books, contested, denied>>

\* consumeQuota: the entitlement resolved for the request decides the bucket (periodKeyFor,
\* usesFallbackQuota) for the rest of it.  A ceiling of zero is reached before any count.
BucketNow == <<month, IF lapsed THEN "fallback" ELSE "snapshot">>
AtZeroCeiling(b) == Ceiling(b) = 0
Consume(s, offline) ==
  /\ At(s, "idle") /\ served < MaxRequests /\ served' = served + 1
  /\ request' = [request EXCEPT ![s] =
       [pc |-> IF AtZeroCeiling(BucketNow) THEN "full" ELSE "find",
        bucket |-> BucketNow, offline |-> offline, under |-> FALSE]]
  /\ UNCHANGED <<terms, month, lapsed, usage, books, contested, denied>>

\* incrementUsage: one guarded upsert.  Where the filter finds no row the server inserts
\* one, in a second step; the unique index refuses it if there is a row by then.
HasRoomOffByOne(b) == Unlimited(Ceiling(b)) \/ usage[b].count <= Ceiling(b)
HasRoom(b) == Unlimited(Ceiling(b)) \/ usage[b].count <= Ceiling(b) - 1
Find(s) ==
  /\ At(s, "find")
  /\ LET b == request[s].bucket IN
     CASE ~usage[b].exists -> Goto(s, "insert") /\ UNCHANGED usage
       [] usage[b].exists /\ HasRoom(b) ->
            Goto(s, "work") /\ usage' = [usage EXCEPT ![b] = Add(@, 1, 0)]
       [] OTHER -> Refused(s, b) /\ UNCHANGED usage
  /\ UNCHANGED <<world, books, contested, denied>>

\* The server repeats an upsert it lost by itself only where the filter has equalities
\* alone: for an unlimited plan.
Insert(s) ==
  /\ At(s, "insert")
  /\ LET b == request[s].bucket IN
     IF usage[b].exists
     THEN /\ IF Unlimited(Ceiling(b)) THEN Goto(s, "find") ELSE Refused(s, b)
          /\ contested' = contested \cup {b}
          /\ UNCHANGED usage
     ELSE /\ Goto(s, "work") /\ usage' = [usage EXCEPT ![b] = Add(@, 1, 0)]
          /\ UNCHANGED contested
  /\ UNCHANGED <<world, books, denied>>

\* The duplicate key is taken for a ceiling that was reached: refuse, or count the unit as
\* overage (recordOverage).
Full(s) ==
  /\ At(s, "full")
  /\ LET b == request[s].bucket IN
     IF AllowOverage(s)
     THEN /\ Goto(s, "work") /\ usage' = [usage EXCEPT ![b] = Add(@, 1, 1)]
          /\ UNCHANGED denied
     ELSE /\ End(s) /\ UNCHANGED usage
          /\ denied' = IF request[s].under THEN denied \cup {b} ELSE denied
  /\ UNCHANGED <<world, books, contested>>

\* meterQuota: the work, and the release if it throws.
Work(s, ok) ==
  /\ At(s, "work")
  /\ LET b == request[s].bucket IN
     IF ok
     THEN /\ End(s)
          /\ issued' = IF request[s].offline THEN [issued EXCEPT ![b].offline = @ + 1]
                       ELSE [issued EXCEPT ![b].online = @ + 1]
     ELSE Goto(s, "release") /\ UNCHANGED issued
  /\ UNCHANGED <<world, usage, leaked, strayed, contested, denied>>

\* decrementUsage in the month of the release, with the entitlement of the request.  It is
\* best effort: an error is swallowed.
ReleasedInto(s) == <<month, request[s].bucket[2]>>
Release(s, ok) ==
  /\ At(s, "release")
  /\ LET b == request[s].bucket  r == ReleasedInto(s) IN
     /\ usage' = IF ok /\ usage[r].count >= 1 THEN [usage EXCEPT ![r].count = @ - 1] ELSE usage
     /\ leaked' = IF ok THEN leaked ELSE [leaked EXCEPT ![b] = @ + 1]
     /\ strayed' = (strayed \/ (ok /\ month # b[1]))
  /\ End(s)
  /\ UNCHANGED <<world, issued, contested, denied>>

Next ==
  \/ MonthTurns \/ Lapses
  \/ \E s \in Slots :
       \/ \E offline \in BOOLEAN : Consume(s, offline)
       \/ Find(s) \/ Insert(s) \/ Full(s)
       \/ \E ok \in BOOLEAN : Work(s, ok) \/ Release(s, ok)

Spec == Init /\ [][Next]_vars

-----------------------------------------------------------------------------
Open(b) == {s \in Slots : request[s].pc \in {"work", "release"} /\ request[s].bucket = b}

\* The counter of a month is what was issued, what is under way and what failed without
\* its unit being given back, unless a unit came back in another month (releaseQuota);
\* interactive requests never issue more than the plan has (incrementUsage); and none is
\* turned away below the ceiling unless another request created the bucket under it.
QuotaExact ==
  \A b \in Buckets :
    /\ \/ strayed
       \/ usage[b].count = issued[b].online + issued[b].offline + Cardinality(Open(b)) + leaked[b]
    /\ strayed \/ ~Enforced \/ Unlimited(Ceiling(b)) \/ issued[b].online <= Ceiling(b)
    /\ b \in denied => b \in contested
=============================================================================
