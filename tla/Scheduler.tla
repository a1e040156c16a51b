------------------------------ MODULE Scheduler ------------------------------
(***************************************************************************)
(* The job scheduler.  Ticks of every instance, which may overlap, take    *)
(* the jobs in the order they were registered; a job is run by the tick    *)
(* that claims its row.  The time is read once, when the tick begins.      *)
(***************************************************************************)
EXTENDS Integers

CONSTANTS
  Ticks,    \* ticks under way at once, over all instances
  Jobs,     \* 1..n in the order of registration
  Every,    \* [Jobs -> everyMs]
  MaxTime   \* bound: the clock

\* What is assumed of the constants.
SchedulerShape ==
  Jobs \subseteq Nat \ {0} /\ Every \in [Jobs -> Nat \ {0}] /\ MaxTime \in Nat

VARIABLES
  clock,
  lastRunAt,  \* [Jobs -> time or Never]: ScheduledJobRun
  tick,       \* [Ticks -> what it does]
  claims      \* ghost: [Jobs -> claims made: the tick and its time]

vars == <<clock, lastRunAt, tick, claims>>

Never == -1
Claim == [by : Ticks, now : 0..MaxTime]
Idle == [pc |-> "idle", job |-> 1, now |-> 0, skipped |-> {}]

Init ==
  /\ clock = 0
  /\ lastRunAt = [j \in Jobs |-> Never]
  /\ tick = [t \in Ticks |-> Idle]
  /\ claims = [j \in Jobs |-> {}]

TypeOK ==
  /\ clock \in 0..MaxTime
  /\ lastRunAt \in [Jobs -> {Never} \cup 0..MaxTime]
  /\ tick \in [Ticks -> [pc : {"idle", "claim", "run"}, job : Int,
                         now : 0..MaxTime, skipped : SUBSET Jobs]]
  /\ \A t \in Ticks : tick[t].pc = "run" => tick[t].job \in Jobs
  /\ claims \in [Jobs -> SUBSET Claim]

-----------------------------------------------------------------------------
\* setInterval: a tick begins whether or not earlier ones are over.
Begin(t) ==
  /\ tick[t].pc = "idle"
  /\ tick' = [tick EXCEPT ![t] = [pc |-> "claim", job |-> 1, now |-> clock,
                                 skipped |-> {}]]
  /\ UNCHANGED <<clock, lastRunAt, claims>>

\* claimJob: one update on the row of the job, or an insert the unique key decides.
DueOffByOne(j, now) == lastRunAt[j] = Never \/ lastRunAt[j] + Every[j] <= now + 1
Due(j, now) == lastRunAt[j] = Never \/ lastRunAt[j] + Every[j] <= now
ClaimJob(t) ==
  LET j == tick[t].job
      now == tick[t].now
  IN /\ tick[t].pc = "claim" /\ j \in Jobs
     /\ Due(j, now)
     /\ lastRunAt' = [lastRunAt EXCEPT ![j] = now]
     /\ tick' = [tick EXCEPT ![t].pc = "run"]
     /\ claims' = [claims EXCEPT ![j] = @ \cup {[by |-> t, now |-> now]}]
     /\ UNCHANGED clock

\* The window is somebody else's, or the claim could not be made.
Pass(t, error) ==
  LET j == tick[t].job
  IN /\ tick[t].pc = "claim" /\ j \in Jobs
     /\ error \/ ~Due(j, tick[t].now)
     /\ tick' = [tick EXCEPT ![t] =
                  [pc |-> "claim", job |-> j + 1, now |-> tick[t].now,
                   skipped |-> tick[t].skipped \cup (IF error THEN {j} ELSE {})]]
     /\ UNCHANGED <<clock, lastRunAt, claims>>

\* The job ends, well or not; the next one is tried.
FinishJob(t) ==
  /\ tick[t].pc = "run"
  /\ tick' = [tick EXCEPT ![t].pc = "claim", ![t].job = @ + 1]
  /\ UNCHANGED <<clock, lastRunAt, claims>>

\* runDueJobs returns, or the process dies anywhere before.
End(t) ==
  /\ tick[t].pc # "idle"
  /\ tick' = [tick EXCEPT ![t] = Idle]
  /\ UNCHANGED <<clock, lastRunAt, claims>>

Advance ==
  /\ clock < MaxTime /\ clock' = clock + 1
  /\ UNCHANGED <<lastRunAt, tick, claims>>

Next ==
  \/ \E t \in Ticks : Begin(t) \/ ClaimJob(t) \/ Pass(t, TRUE) \/ Pass(t, FALSE)
                      \/ FinishJob(t) \/ End(t)
  \/ Advance

Spec == Init /\ [][Next]_vars

-----------------------------------------------------------------------------
\* No job is claimed twice in a window (claimJob), as the ticks tell the time.
Spaced ==
  \A j \in Jobs : \A c, d \in claims[j] :
    c # d => c.now + Every[j] <= d.now \/ d.now + Every[j] <= c.now

\* Two ticks are in the same job only when the earlier one has outlived its window, which
\* began with its tick and not with the job: jobs of a tick are claimed at one time.
OverlapIsLate ==
  \A t, u \in Ticks :
    /\ t # u /\ tick[t].pc = "run" /\ tick[u].pc = "run" /\ tick[t].job = tick[u].job
    /\ tick[t].now <= tick[u].now
    => tick[t].now + Every[tick[t].job] <= clock

\* A tick leaves no job behind: what it passed over was claimed within the window that ends
\* with it, unless the claim failed.
NoneLeftOut ==
  \A t \in Ticks : \A j \in Jobs :
    tick[t].pc # "idle" /\ j < tick[t].job /\ j \notin tick[t].skipped
      => lastRunAt[j] # Never /\ tick[t].now < lastRunAt[j] + Every[j]

WindowHeld == Spaced /\ OverlapIsLate /\ NoneLeftOut
=============================================================================
