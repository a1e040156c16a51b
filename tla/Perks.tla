-------------------------------- MODULE Perks --------------------------------
(***************************************************************************)
(* Coupons and referrals: the redemption slots of one capped coupon, and   *)
(* the free days one referrer and those it referred are granted.  Both     *)
(* hang on payments: the tail of applyCapturedPayment redeems and converts,*)
(* a full refund gives the slot back.  A request is cut at every round     *)
(* trip, may die between two, and is not resumed: a checkout payment is    *)
(* linked before its tail, so no sweep picks it up again (see Billing).    *)
(***************************************************************************)
EXTENDS Naturals, FiniteSets

CONSTANTS
  Referred, Payments, OwnerOf,  \* businesses, their payments: [Payments -> Referred]
  Cap,                          \* Coupon.maxRedemptions
  Slots, MaxCrashes             \* requests at once, how many of them die

VARIABLES
  ref,          \* [Referred -> status of its Referral row, "none" without one]
  rewards,      \* ReferralReward rows: <<business, rule>>
  added,        \* those whose days were added to a period
  honoured,     \* those with an appliedPeriodEnd
  days,         \* [businesses -> grants its currentPeriodEnd contains]
  paid,         \* [Payments -> "open", "captured" or "refunded"]
  count,        \* Coupon.redemptionCount
  redemptions,  \* payments with a CouponRedemption
  task,         \* [Slots -> the step of a request and what it has read]
  lost, leaked, \* history: businesses whose request died, slots lost that way
  late,         \* history: payments refunded before their redemption was written
  blended,      \* history: businesses whose period two requests had read before writing it
  forfeited     \* history: grants cut off by the payment of another plan

vars == <<ref, rewards, added, honoured, days, paid, count, redemptions, task, lost, leaked, late,
          blended, forfeited>>
referral == <<ref, rewards, added, honoured, days, blended, forfeited>>
coupon == <<paid, count, redemptions, late>>
deaths == <<lost, leaked>>

Referrer == 0     \* the business that referred the others

PerksShape ==
  /\ IsFiniteSet(Slots) /\ IsFiniteSet(Payments) /\ OwnerOf \in [Payments -> Referred]
  /\ Cap \in Nat /\ MaxCrashes \in Nat /\ Referrer \notin Referred

Rules == {"referral_signup", "referral_conversion"}
Idle == [pc |-> "idle", b |-> Referrer, p |-> 0, rule |-> "none", copy |-> 0]

TypeOK ==
  /\ ref \in [Referred -> {"none", "pending", "converted"}]
  /\ honoured \cup forfeited \subseteq added /\ added \subseteq rewards
  /\ rewards \subseteq Referred \X Rules
  /\ days \in [Referred \cup {Referrer} -> Nat]
  /\ paid \in [Payments -> {"open", "captured", "refunded"}]
  /\ count \in Nat /\ redemptions \subseteq Payments
  /\ Cardinality(lost) + leaked \in 0 .. 2 * MaxCrashes

Init ==
  /\ ref = [b \in Referred |-> "none"] /\ rewards = {} /\ added = {} /\ honoured = {}
  /\ days = [b \in Referred \cup {Referrer} |-> 0]
  /\ paid = [p \in Payments |-> "open"] /\ count = 0 /\ redemptions = {}
  /\ task = [s \in Slots |-> Idle]
  /\ lost = {} /\ leaked = 0 /\ late = {} /\ blended = {} /\ forfeited = {}

At(s, pc) == task[s].pc = pc
Free(s) == At(s, "idle")
Go(s, pc) == task' = [task EXCEPT ![s].pc = pc]
End(s) == task' = [task EXCEPT ![s] = Idle]
Active(p, pcs) == \E s \in Slots : task[s].p = p /\ task[s].pc \in pcs

-----------------------------------------------------------------------------
\* applyReferral: a business that never paid and was never referred or rewarded.
HasEverPaid(b) == \E p \in Payments : OwnerOf[p] = b /\ paid[p] = "captured"
Blocked(b) == ref[b] # "none" \/ <<b, "referral_signup">> \in rewards \/ HasEverPaid(b)
Apply(s, b) ==
  /\ Free(s) /\ ~Blocked(b)
  /\ task' = [task EXCEPT ![s] = [Idle EXCEPT !.pc = "refer", !.b = b, !.rule = "referral_signup"]]
  /\ UNCHANGED <<referral, coupon, deaths>>
Refer(s) ==
  /\ At(s, "refer")
  /\ LET b == task[s].b IN
     IF ref[b] = "none" THEN ref' = [ref EXCEPT ![b] = "pending"] /\ Go(s, "reward")
     ELSE End(s) /\ UNCHANGED ref          \* the unique index: another device won
  /\ UNCHANGED <<rewards, added, honoured, days, blended, forfeited, coupon, deaths>>

\* grantOnce and grantFreeDays: the reward row, the period, read and saved, and the period
\* it came to on the reward row.
Grant(s) == <<task[s].b, task[s].rule>>
Beneficiary(grant) == IF grant[2] = "referral_signup" THEN grant[1] ELSE Referrer
FreshAlways(grant) == TRUE
Fresh(grant) == grant \notin rewards
Reward(s) ==
  /\ At(s, "reward")
  /\ IF Fresh(Grant(s)) THEN rewards' = rewards \cup {Grant(s)} /\ Go(s, "read")
     ELSE End(s) /\ UNCHANGED rewards
  /\ UNCHANGED <<ref, added, honoured, days, blended, forfeited, coupon, deaths>>
\* A request that read the period of x has its write of it still to do.
HoldsCopy(s, x) ==
  \/ At(s, "extend") /\ Beneficiary(Grant(s)) = x
  \/ At(s, "write") /\ task[s].b = x
Blend(x) == IF \E s \in Slots : HoldsCopy(s, x) THEN blended \cup {x} ELSE blended
ReadPeriod(s) ==
  /\ At(s, "read")
  /\ LET x == Beneficiary(Grant(s)) IN
     /\ task' = [task EXCEPT ![s].pc = "extend", ![s].copy = days[x]]
     /\ blended' = Blend(x)
  /\ UNCHANGED <<ref, rewards, added, honoured, days, forfeited, coupon, deaths>>
ExtendPeriod(s) ==
  /\ At(s, "extend")
  /\ days' = [days EXCEPT ![Beneficiary(Grant(s))] = task[s].copy + 1]
  /\ added' = added \cup {Grant(s)}
  /\ task' = [task EXCEPT ![s].pc = "record", ![s].copy = 0]
  /\ UNCHANGED <<ref, rewards, honoured, blended, forfeited, coupon, deaths>>
RecordGrant(s) ==
  /\ At(s, "record")
  /\ honoured' = honoured \cup {Grant(s)}
  /\ End(s)
  /\ UNCHANGED <<ref, rewards, added, days, blended, forfeited, coupon, deaths>>

-----------------------------------------------------------------------------
\* A payment is captured by one confirmation, which applies the plan and then redeems
\* the coupon the payment was priced with, whatever has become of it since.  The plan of
\* the running period extends it; another one starts a period of its own.
Capture(s, p) ==
  /\ Free(s) /\ paid[p] = "open"
  /\ paid' = [paid EXCEPT ![p] = "captured"]
  /\ task' = [task EXCEPT ![s] = [Idle EXCEPT !.pc = "plan", !.b = OwnerOf[p], !.p = p,
                                              !.rule = "referral_conversion"]]
  /\ UNCHANGED <<referral, count, redemptions, late, deaths>>
ReadPlan(s) ==
  /\ At(s, "plan")
  /\ LET b == task[s].b IN
     /\ task' = [task EXCEPT ![s].pc = "write", ![s].copy = days[b]]
     /\ blended' = Blend(b)
  /\ UNCHANGED <<ref, rewards, added, honoured, days, forfeited, coupon, deaths>>
GrantsOf(x) == {grant \in added : Beneficiary(grant) = x}
WritePlan(s, renewed) ==
  /\ At(s, "write")
  /\ LET b == task[s].b IN
     /\ days' = [days EXCEPT ![b] = IF renewed THEN task[s].copy ELSE 0]
     /\ forfeited' = IF renewed THEN forfeited ELSE forfeited \cup GrantsOf(b)
  /\ task' = [task EXCEPT ![s].pc = "claim", ![s].copy = 0]
  /\ UNCHANGED <<ref, rewards, added, honoured, blended, coupon, deaths>>
UncappedRoom == TRUE
Room == count < Cap
ClaimSlot(s) ==
  /\ At(s, "claim")
  /\ IF Room THEN count' = count + 1 /\ Go(s, "row") ELSE Go(s, "convert") /\ UNCHANGED count
  /\ UNCHANGED <<referral, paid, redemptions, late, deaths>>
CreateRedemption(s) ==
  /\ At(s, "row")
  /\ redemptions' = redemptions \cup {task[s].p}
  /\ Go(s, "convert")
  /\ UNCHANGED <<referral, paid, count, late, deaths>>

\* convertReferral: marked as converted first, rewarded after.
FindPending(s) ==
  /\ At(s, "convert")
  /\ IF ref[task[s].b] = "pending" THEN Go(s, "mark") ELSE End(s)
  /\ UNCHANGED <<referral, coupon, deaths>>
MarkConverted(s) ==
  /\ At(s, "mark")
  /\ ref' = [ref EXCEPT ![task[s].b] = "converted"]
  /\ Go(s, "reward")
  /\ UNCHANGED <<rewards, added, honoured, days, blended, forfeited, coupon, deaths>>

\* recordRefund, of the whole amount: the redemption is deleted, then the slot returned.
Refund(s, p) ==
  /\ Free(s) /\ paid[p] = "captured"
  /\ paid' = [paid EXCEPT ![p] = "refunded"]
  /\ task' = [task EXCEPT ![s] = [Idle EXCEPT !.pc = "release", !.p = p]]
  /\ UNCHANGED <<referral, count, redemptions, late, deaths>>
DeleteRedemption(s) ==
  /\ At(s, "release")
  /\ LET p == task[s].p IN
     /\ IF p \in redemptions THEN Go(s, "return") ELSE End(s)
     /\ redemptions' = redemptions \ {p}
     /\ late' = IF Active(p, {"plan", "write", "claim", "row"}) THEN late \cup {p} ELSE late
  /\ UNCHANGED <<referral, paid, count, deaths>>
ReturnSlot(s) ==
  /\ At(s, "return")
  /\ count' = IF count > 0 THEN count - 1 ELSE count
  /\ End(s)
  /\ UNCHANGED <<referral, paid, redemptions, late, deaths>>

\* The process of a request dies.
Crash(s) ==
  /\ ~At(s, "idle") /\ Cardinality(lost) + leaked < MaxCrashes
  /\ lost' = IF task[s].b # Referrer THEN lost \cup {task[s].b} ELSE lost
  /\ leaked' = leaked + IF task[s].pc \in {"row", "return"} THEN 1 ELSE 0
  /\ late' = IF At(s, "release") THEN late \cup {task[s].p} ELSE late
  /\ End(s)
  /\ UNCHANGED <<referral, paid, count, redemptions>>

Next == \E s \in Slots :
  \/ \E b \in Referred : Apply(s, b)
  \/ \E p \in Payments : Capture(s, p) \/ Refund(s, p)
  \/ ReadPlan(s)
  \/ \E renewed \in BOOLEAN : WritePlan(s, renewed)
  \/ Refer(s) \/ Reward(s) \/ ReadPeriod(s) \/ ExtendPeriod(s) \/ RecordGrant(s)
  \/ ClaimSlot(s) \/ CreateRedemption(s) \/ FindPending(s) \/ MarkConverted(s)
  \/ DeleteRedemption(s) \/ ReturnSlot(s) \/ Crash(s)

Spec == Init /\ [][Next]_vars

-----------------------------------------------------------------------------
\* redemptionCount is what the redemptions and the requests between claiming and writing
\* say, short of dead requests, and never above the cap; a refunded payment keeps its
\* redemption only if the refund found it not written yet, or died.
CouponExact ==
  /\ count <= Cap
  /\ count = leaked + Cardinality(redemptions)
             + Cardinality({s \in Slots : task[s].pc \in {"row", "return"}})
  /\ \A p \in redemptions : paid[p] = "refunded" => p \in late \/ Active(p, {"release"})

\* Every referral is rewarded once per rule and every reward adds its days once, whoever
\* pays, retries or pushes at the same time; a dead request leaves its own reward undone, or
\* done and unrecorded.  A period holds the days added to it and not cut off by another
\* plan, unless two requests had read it before either wrote it: of those one is lost.  Only
\* a payment rewards the referrer.
Granting(grant, pcs) == \E s \in Slots : Grant(s) = grant /\ task[s].pc \in pcs
RewardsExact ==
  /\ \A b \in Referred :
       /\ <<b, "referral_conversion">> \in rewards =>
            ref[b] = "converted" /\ \E p \in Payments : OwnerOf[p] = b /\ paid[p] # "open"
       /\ ref[b] # "none" => \/ <<b, "referral_signup">> \in rewards \/ b \in lost
                             \/ Granting(<<b, "referral_signup">>, {"reward"})
       /\ ref[b] = "converted" =>
            \/ <<b, "referral_conversion">> \in rewards \/ b \in lost
            \/ Granting(<<b, "referral_conversion">>, {"reward"})
  /\ \A grant \in rewards \ added : grant[1] \in lost \/ Granting(grant, {"read", "extend"})
  /\ \A grant \in added \ honoured : grant[1] \in lost \/ Granting(grant, {"record"})
  /\ \A x \in DOMAIN days \ blended : days[x] = Cardinality(GrantsOf(x) \ forfeited)
=============================================================================
