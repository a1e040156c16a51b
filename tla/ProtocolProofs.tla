--------------------------- MODULE ProtocolProofs ----------------------------
(***************************************************************************)
(* What is proved of the scheduler, the devices, the numbers, the stock,   *)
(* the books and the metered work, for any number of requests, devices and *)
(* papers.  Each protocol has an inductive invariant of its own; the       *)
(* composition takes steps of one of them at a time, so what its invariant *)
(* gives holds always.                                                     *)
(***************************************************************************)
EXTENDS Protocols, Sequences, MoneySumProofs

\* The row of a job tells of its latest claim.
RowIsLatest ==
  \A j \in Jobs : \A c \in claims[j] : lastRunAt[j] # Sched!Never /\ c.now <= lastRunAt[j]

\* A tick that runs a job has claimed it, and the window it claimed is not over for it.
RunsWhatItClaimed ==
  \A t \in Ticks : tick[t].pc = "run" =>
    LET j == tick[t].job IN
      /\ [by |-> t, now |-> tick[t].now] \in claims[j]
      /\ lastRunAt[j] # Sched!Never /\ tick[t].now < lastRunAt[j] + Every[j]

\* No tick began in the future.
Begun == \A t \in Ticks : tick[t].now <= clock

SchedulerInv ==
  /\ Sched!TypeOK /\ Sched!Spaced /\ Sched!NoneLeftOut
  /\ RowIsLatest /\ RunsWhatItClaimed /\ Begun

\* The initial state satisfies the invariant.
LEMMA SchedulerInit ==
  ASSUME Sched!SchedulerShape PROVE Sched!Init => SchedulerInv
BY DEF Sched!SchedulerShape, Sched!Init, SchedulerInv, Sched!TypeOK, Sched!Spaced,
       Sched!NoneLeftOut, RowIsLatest, RunsWhatItClaimed,
       Begun, Sched!Idle, Sched!Never, Sched!Claim

\* Every step of a tick, and of the clock, preserves the invariant.
LEMMA SchedulerStep ==
  ASSUME Sched!SchedulerShape, SchedulerInv, [Sched!Next]_(Sched!vars) PROVE SchedulerInv'
<1> USE DEF Sched!SchedulerShape, SchedulerInv, Sched!Never, Sched!Claim
<1>1. CASE UNCHANGED Sched!vars
  BY <1>1 DEF Sched!vars, Sched!TypeOK, Sched!Spaced, Sched!NoneLeftOut, RowIsLatest,
         RunsWhatItClaimed, Begun
<1>2. CASE Sched!Advance
  BY <1>2 DEF Sched!Advance, Sched!TypeOK, Sched!Spaced, Sched!NoneLeftOut, RowIsLatest,
         RunsWhatItClaimed, Begun
<1>3. ASSUME NEW t \in Ticks, Sched!Begin(t) PROVE SchedulerInv'
  <2>0. /\ tick' = [tick EXCEPT ![t] = [pc |-> "claim", job |-> 1, now |-> clock,
                                       skipped |-> {}]]
        /\ UNCHANGED <<clock, lastRunAt, claims>>
    BY <1>3 DEF Sched!Begin, Sched!Idle
  <2>1. Sched!TypeOK'
    BY <2>0 DEF Sched!TypeOK
  <2>5. Sched!Spaced' /\ RowIsLatest'
    BY <2>0 DEF Sched!Spaced, RowIsLatest
  <2>2. Sched!NoneLeftOut'
    BY <1>3 DEF Sched!Begin, Sched!Idle, Sched!TypeOK, Sched!NoneLeftOut
  <2>3. RunsWhatItClaimed'
    BY <1>3 DEF Sched!Begin, Sched!Idle, Sched!TypeOK, RunsWhatItClaimed
  <2>4. Begun'
    BY <1>3 DEF Sched!Begin, Sched!Idle, Sched!TypeOK, Begun
  <2> QED BY <2>1, <2>2, <2>3, <2>4, <2>5
<1>4. ASSUME NEW t \in Ticks, Sched!ClaimJob(t) PROVE SchedulerInv'
  <2> DEFINE j == tick[t].job
             time == tick[t].now
             mine == [by |-> t, now |-> time]
  <2>1. j \in Jobs /\ time \in 0..SchedulerTime /\ Sched!Due(j, time) /\ mine \in Sched!Claim
    BY <1>4 DEF Sched!ClaimJob, Sched!TypeOK
  <2>2. /\ lastRunAt' = [lastRunAt EXCEPT ![j] = time]
        /\ tick' = [tick EXCEPT ![t].pc = "run"]
        /\ claims' = [claims EXCEPT ![j] = @ \cup {mine}]
        /\ clock' = clock
    BY <1>4 DEF Sched!ClaimJob
  <2>3. Sched!TypeOK'
    BY <2>1, <2>2 DEF Sched!TypeOK
  <2>4. \A c \in claims[j] : c.now + Every[j] <= time
    BY <2>1 DEF Sched!Due, RowIsLatest, Sched!TypeOK
  <2>5. Sched!Spaced'
    BY <2>1, <2>2, <2>4 DEF Sched!Spaced, Sched!TypeOK
  <2>6. lastRunAt[j] # Sched!Never => lastRunAt[j] + Every[j] <= time
    BY <2>1 DEF Sched!Due
  <2>7. Sched!NoneLeftOut'
    <3>1. SUFFICES ASSUME NEW u \in Ticks, NEW k \in Jobs, tick'[u].pc # "idle",
                          k < tick'[u].job, k \notin tick'[u].skipped
                   PROVE lastRunAt'[k] # Sched!Never /\ tick'[u].now < lastRunAt'[k] + Every[k]
      BY Zenon DEF Sched!NoneLeftOut
    <3>2. /\ tick[u].pc # "idle" /\ tick'[u].job = tick[u].job
          /\ tick'[u].skipped = tick[u].skipped /\ tick'[u].now = tick[u].now
      BY <3>1, <1>4, <2>2 DEF Sched!ClaimJob, Sched!TypeOK
    <3>3. lastRunAt[k] # Sched!Never /\ tick[u].now < lastRunAt[k] + Every[k]
      BY <3>1, <3>2 DEF Sched!NoneLeftOut
    <3>4. CASE k = j
      BY <3>2, <3>3, <3>4, <2>1, <2>2, <2>6 DEF Sched!TypeOK
    <3>5. CASE k # j
      BY <3>2, <3>3, <3>5, <2>1, <2>2 DEF Sched!TypeOK
    <3> QED BY <3>4, <3>5
  <2>8. RowIsLatest'
    BY <2>1, <2>2, <2>4 DEF RowIsLatest, Sched!TypeOK
  <2>9. RunsWhatItClaimed'
    <3>1. SUFFICES ASSUME NEW u \in Ticks, tick'[u].pc = "run"
                   PROVE /\ [by |-> u, now |-> tick'[u].now] \in claims'[tick'[u].job]
                         /\ lastRunAt'[tick'[u].job] # Sched!Never
                         /\ tick'[u].now < lastRunAt'[tick'[u].job] + Every[tick'[u].job]
      BY DEF RunsWhatItClaimed
    <3>2. CASE u = t
      BY <3>2, <2>1, <2>2 DEF Sched!TypeOK
    <3>3. CASE u # t
      BY <3>1, <3>3, <2>1, <2>2, <2>6 DEF Sched!TypeOK, RunsWhatItClaimed
    <3> QED BY <3>2, <3>3
  <2>10. Begun'
    BY <2>2 DEF Begun, Sched!TypeOK
  <2> QED BY <2>3, <2>5, <2>7, <2>8, <2>9, <2>10
<1>5. ASSUME NEW t \in Ticks, NEW error \in BOOLEAN, Sched!Pass(t, error) PROVE SchedulerInv'
  <2> DEFINE j == tick[t].job
             skips == tick[t].skipped \cup (IF error THEN {j} ELSE {})
  <2>0. /\ j \in Jobs /\ tick[t].pc = "claim" /\ (error \/ ~Sched!Due(j, tick[t].now))
        /\ skips \in SUBSET Jobs
        /\ tick' = [tick EXCEPT ![t] = [pc |-> "claim", job |-> j + 1, now |-> tick[t].now,
                                       skipped |-> skips]]
        /\ UNCHANGED <<clock, lastRunAt, claims>>
    BY <1>5 DEF Sched!Pass, Sched!TypeOK
  <2>1. Sched!TypeOK'
    BY <2>0 DEF Sched!TypeOK
  <2>2. Sched!NoneLeftOut'
    <3>1. SUFFICES ASSUME NEW u \in Ticks, NEW k \in Jobs, tick'[u].pc # "idle",
                          k < tick'[u].job, k \notin tick'[u].skipped
                   PROVE lastRunAt[k] # Sched!Never /\ tick'[u].now < lastRunAt[k] + Every[k]
      BY <2>0 DEF Sched!NoneLeftOut
    <3>2. CASE u # t
      BY <3>1, <3>2, <2>0 DEF Sched!NoneLeftOut
    <3>3. CASE u = t /\ k = j
      <4>0. tick'[u].skipped = skips /\ tick'[u].now = tick[t].now
        BY <3>3, <2>0 DEF Sched!TypeOK
      <4>1. ~Sched!Due(j, tick[t].now) /\ tick'[u].now = tick[t].now
        BY <3>1, <3>3, <4>0, <2>0
      <4> QED BY <4>1, <3>3, <2>0 DEF Sched!Due, Sched!TypeOK
    <3>4. CASE u = t /\ k # j
      <4>0. /\ tick'[u].job = j + 1 /\ tick'[u].skipped = skips
            /\ tick'[u].now = tick[t].now
        BY <3>4, <2>0 DEF Sched!TypeOK
      <4>1. k < j /\ k \notin tick[t].skipped /\ tick'[u].now = tick[t].now
        <5>1. k \in Nat /\ j \in Nat
          BY <2>0
        <5>2. k < j + 1 /\ k # j
          BY <3>1, <3>4, <4>0
        <5>3. k \notin tick[t].skipped
          BY <3>1, <4>0
        <5> QED BY <5>1, <5>2, <5>3, <4>0
      <4> QED BY <4>1, <3>4, <2>0 DEF Sched!NoneLeftOut
    <3> QED BY <3>2, <3>3, <3>4
  <2>3. Sched!Spaced' /\ RowIsLatest'
    BY <1>5 DEF Sched!Pass, Sched!Spaced, RowIsLatest
  <2>4. RunsWhatItClaimed'
    BY <1>5 DEF Sched!Pass, Sched!TypeOK, RunsWhatItClaimed
  <2>5. Begun'
    BY <1>5 DEF Sched!Pass, Sched!TypeOK, Begun
  <2> QED BY <2>1, <2>2, <2>3, <2>4, <2>5
<1>6. ASSUME NEW t \in Ticks, Sched!FinishJob(t) PROVE SchedulerInv'
  <2>1. Sched!TypeOK'
    BY <1>6 DEF Sched!FinishJob, Sched!TypeOK
  <2>2. Sched!NoneLeftOut'
    BY <1>6 DEF Sched!FinishJob, Sched!NoneLeftOut, RunsWhatItClaimed, Sched!TypeOK
  <2>3. Sched!Spaced' /\ RowIsLatest'
    BY <1>6 DEF Sched!FinishJob, Sched!Spaced, RowIsLatest
  <2>4. RunsWhatItClaimed'
    BY <1>6 DEF Sched!FinishJob, Sched!TypeOK, RunsWhatItClaimed
  <2>5. Begun'
    BY <1>6 DEF Sched!FinishJob, Sched!TypeOK, Begun
  <2> QED BY <2>1, <2>2, <2>3, <2>4, <2>5
<1>7. ASSUME NEW t \in Ticks, Sched!End(t) PROVE SchedulerInv'
  <2>0. 0 \in 0..SchedulerTime
    BY DEF Sched!SchedulerShape
  <2>1. Sched!TypeOK'
    BY <1>7, <2>0 DEF Sched!End, Sched!Idle, Sched!TypeOK
  <2>5. Sched!Spaced' /\ RowIsLatest'
    BY <1>7 DEF Sched!End, Sched!Spaced, RowIsLatest
  <2>2. Sched!NoneLeftOut'
    BY <1>7 DEF Sched!End, Sched!Idle, Sched!TypeOK, Sched!NoneLeftOut
  <2>3. RunsWhatItClaimed'
    BY <1>7 DEF Sched!End, Sched!Idle, Sched!TypeOK, RunsWhatItClaimed
  <2>4. Begun'
    BY <1>7 DEF Sched!End, Sched!Idle, Sched!TypeOK, Begun
  <2> QED BY <2>1, <2>2, <2>3, <2>4, <2>5
<1> QED BY <1>1, <1>2, <1>3, <1>4, <1>5, <1>6, <1>7, Zenon DEF Sched!Next

\* The invariant gives what is promised of the windows.
LEMMA SchedulerGivesWindows ==
  ASSUME Sched!SchedulerShape, SchedulerInv PROVE Sched!WindowHeld
<1>1. Sched!OverlapIsLate
  <2>1. SUFFICES ASSUME NEW t \in Ticks, NEW u \in Ticks, t # u,
                        tick[t].pc = "run", tick[u].pc = "run", tick[t].job = tick[u].job,
                        tick[t].now <= tick[u].now
                 PROVE tick[t].now + Every[tick[t].job] <= clock
    BY DEF Sched!OverlapIsLate
  <2> DEFINE j == tick[t].job
             c == [by |-> t, now |-> tick[t].now]
             d == [by |-> u, now |-> tick[u].now]
  <2>2. j \in Jobs /\ c \in claims[j] /\ d \in claims[j]
    BY <2>1 DEF SchedulerInv, Sched!TypeOK, RunsWhatItClaimed
  <2>3. c # d
    BY <2>1
  <2>4. c.now + Every[j] <= d.now \/ d.now + Every[j] <= c.now
    BY <2>2, <2>3 DEF SchedulerInv, Sched!Spaced
  <2>5. /\ tick[t].now \in Int /\ tick[u].now \in Int /\ clock \in Int
        /\ Every[j] \in Nat \ {0} /\ tick[u].now <= clock
    BY <2>1, <2>2 DEF Sched!SchedulerShape, SchedulerInv, Sched!TypeOK, Begun
  <2> QED BY <2>1, <2>4, <2>5
<1> QED BY <1>1 DEF SchedulerInv, Sched!WindowHeld

\* The ticks of the scheduler run by themselves.
LEMMA SchedulerRuns ==
  ASSUME [Next]_vars, part' = "scheduler"
  PROVE  part = "scheduler" /\ [Sched!Next]_(Sched!vars)
<1>1. CASE UNCHANGED vars
  <2>1. part' = part /\ schedulerVars' = schedulerVars
    BY <1>1 DEF vars
  <2> QED BY <2>1 DEF schedulerVars, Sched!vars
<1>2. CASE Next
  BY <1>2 DEF Next, Only
<1> QED BY <1>1, <1>2

\* A job is run once per window, however ticks overlap, and no tick leaves one behind.
THEOREM WindowHeldAlways == Spec => []WindowHeld
<1> DEFINE I == part = "scheduler" => SchedulerInv
<1>1. Init => I
  BY SchedulerInit, ProtocolShape DEF Init
<1>2. I /\ [Next]_vars => I'
  <2> SUFFICES ASSUME I, [Next]_vars, part' = "scheduler" PROVE SchedulerInv'
    OBVIOUS
  <2>1. part = "scheduler" /\ [Sched!Next]_(Sched!vars)
    BY SchedulerRuns
  <2> QED BY <2>1, SchedulerStep, ProtocolShape
<1>3. I => WindowHeld
  BY SchedulerGivesWindows, ProtocolShape DEF WindowHeld, SchedulerInv
<1> QED BY <1>1, <1>2, <1>3, PTL DEF Spec

-----------------------------------------------------------------------------

\* What is visible is not newer than the clock; what is under way is younger than MaxCommit.
WritesSound ==
  /\ now >= 1
  /\ \A r \in Rows : stamp[r] <= now
  /\ \A r \in Rows : writing[r] # 0 => writing[r] <= now /\ now <= writing[r] + MaxCommit

\* A cursor is behind the horizon, so behind every write under way.
Behind(c) == c = Pull!Origin \/ c[1] <= Pull!Horizon
CursorsBehind == \A d \in Readers : Behind(cursor[d]) /\ Behind(start[d])

\* During a bootstrap the device holds, of what lies before the delta, what is behind the
\* cursor; what is not has not been sent to it.
RowSound(d, r) ==
  /\ phase[d] = "delta" /\ Pull!Exists(r) /\ ~Pull!After(Pull!At(r), cursor[d]) => Pull!UpToDate(d, r)
  /\ phase[d] = "bootstrap" /\ Pull!Exists(r) /\ ~Pull!After(Pull!At(r), start[d]) =>
       IF Pull!After(Pull!At(r), cursor[d]) THEN copy[d][r] = 0 ELSE Pull!UpToDate(d, r)
RowsSound == \A d \in Readers, r \in Rows : RowSound(d, r)

PullInv == Pull!TypeOK /\ WritesSound /\ CursorsBehind /\ RowsSound

LEMMA PullInit ==
  ASSUME Pull!PullShape, Pull!Init
  PROVE  PullInv
<1>1. Pull!TypeOK /\ WritesSound
  BY DEF Pull!Init, Pull!TypeOK, WritesSound, Pull!Origin
<1>2. CursorsBehind /\ RowsSound
  BY DEF Pull!Init, CursorsBehind, Behind, RowsSound, RowSound, Pull!Exists
<1> QED BY <1>1, <1>2 DEF PullInv

\* A row that was written is after the origin, and after every cursor when its write is newer
\* than the horizon.
LEMMA RowAfter ==
  ASSUME Pull!PullShape, Pull!TypeOK, NEW t \in Nat, NEW r \in Rows, NEW c \in Nat \X Nat
  PROVE  /\ c = Pull!Origin /\ t # 0 => Pull!After(<<t, r>>, c)
         /\ t > c[1] => Pull!After(<<t, r>>, c)
BY DEF Pull!PullShape, Pull!Origin, Pull!After

\* Rows are ordered: what is not after a row, and not after what precedes it, lies between.
LEMMA RowOrder ==
  ASSUME NEW a \in Nat \X Nat, NEW b \in Nat \X Nat, NEW c \in Nat \X Nat
  PROVE  /\ ~(Pull!After(a, b) /\ Pull!After(b, a))
         /\ ~Pull!After(a, b) /\ ~Pull!After(b, c) => ~Pull!After(a, c)
         /\ ~Pull!After(a, b) => a[1] <= b[1]
BY DEF Pull!After

LEMMA RowPlace ==
  ASSUME Pull!PullShape, Pull!TypeOK, NEW r \in Rows
  PROVE  Pull!At(r) \in Nat \X Nat
BY DEF Pull!PullShape, Pull!TypeOK, Pull!At

\* A step that leaves the rows and a device alone leaves what it holds sound.
LEMMA PullTickStep ==
  ASSUME Pull!PullShape, PullInv, Pull!Tick
  PROVE  PullInv'
<1> USE DEF PullInv
<1>1. Pull!TypeOK'
  BY DEF Pull!TypeOK, Pull!Tick
<1>2. WritesSound'
  BY DEF Pull!PullShape, Pull!TypeOK, WritesSound, Pull!Tick
<1>3. CursorsBehind'
  <2> SUFFICES ASSUME NEW d \in Readers
               PROVE  (Behind(cursor[d]) /\ Behind(start[d]))'
    BY DEF CursorsBehind
  <2>1. Behind(cursor[d]) /\ Behind(start[d])
    BY DEF CursorsBehind
  <2> QED BY <2>1 DEF Pull!PullShape, Pull!TypeOK, Behind, Pull!Horizon, Pull!Tick
<1>4. RowsSound'
  BY DEF RowsSound, RowSound, Pull!Exists, Pull!After, Pull!At, Pull!UpToDate, Pull!Tick
<1> QED BY <1>1, <1>2, <1>3, <1>4

LEMMA PullWriteStep ==
  ASSUME Pull!PullShape, PullInv, NEW r \in Rows, Pull!IssueWrite(r) \/ Pull!Abort(r)
  PROVE  PullInv'
<1> USE DEF PullInv
<1>1. UNCHANGED <<now, stamp, version, deleted, phase, cursor, start, copy>>
  BY DEF Pull!IssueWrite, Pull!Abort
<1>2. now \in Nat /\ now >= 1
  BY DEF WritesSound, Pull!TypeOK
<1>3. PICK w \in {0, now} : writing' = [writing EXCEPT ![r] = w]
  BY DEF Pull!IssueWrite, Pull!Abort
<1>4. Pull!TypeOK'
  BY <1>1, <1>2, <1>3 DEF Pull!TypeOK
<1>5. WritesSound'
  BY <1>1, <1>2, <1>3 DEF Pull!PullShape, Pull!TypeOK, WritesSound
<1>6. CursorsBehind'
  BY <1>1 DEF CursorsBehind, Behind, Pull!Horizon
<1>7. RowsSound'
  BY <1>1 DEF RowsSound, RowSound, Pull!Exists, Pull!After, Pull!At, Pull!UpToDate
<1> QED BY <1>4, <1>5, <1>6, <1>7

LEMMA CommitWriteStep ==
  ASSUME Pull!PullShape, PullInv, NEW r \in Rows, NEW delete \in BOOLEAN, Pull!Commit(r, delete)
  PROVE  PullInv'
<1> USE DEF PullInv
<1>1. writing[r] \in Nat /\ writing[r] # 0 /\ writing[r] <= now /\ now <= writing[r] + MaxCommit
      /\ now \in Nat
  BY DEF Pull!TypeOK, WritesSound, Pull!Commit
<1>2. Pull!TypeOK'
  BY DEF Pull!TypeOK, Pull!Commit
<1>3. WritesSound'
  BY <1>1 DEF Pull!PullShape, Pull!TypeOK, WritesSound, Pull!Commit
<1>4. CursorsBehind'
  BY DEF CursorsBehind, Behind, Pull!Horizon, Pull!Commit
<1>5. RowsSound'
  <2> SUFFICES ASSUME NEW d \in Readers, NEW q \in Rows
               PROVE  RowSound(d, q)'
    BY DEF RowsSound
  <2>1. RowSound(d, q) /\ Behind(cursor[d]) /\ Behind(start[d])
    BY DEF RowsSound, CursorsBehind
  <2>2. cursor[d] \in Nat \X Nat /\ start[d] \in Nat \X Nat
    BY DEF Pull!TypeOK
  <2>3. CASE q = r
    <3>1. Pull!At(r)' = <<writing[r], r>>
      BY DEF Pull!Commit, Pull!At, Pull!TypeOK
    <3>2. \A c \in Nat \X Nat : Behind(c) => Pull!After(<<writing[r], r>>, c)
      BY <1>1, RowAfter DEF Behind, Pull!Horizon, Pull!PullShape
    <3>3. Pull!After(Pull!At(r)', cursor[d]) /\ Pull!After(Pull!At(r)', start[d])
      BY <2>1, <2>2, <3>1, <3>2
    <3>4. UNCHANGED <<phase, cursor, start>>
      BY DEF Pull!Commit
    <3> QED BY <2>3, <3>3, <3>4 DEF RowSound, Pull!After
  <2>4. CASE q # r
    <3>1. UNCHANGED <<stamp[q], version[q], deleted[q], phase, cursor, start, copy>>
      BY <2>4 DEF Pull!Commit, Pull!TypeOK
    <3> QED BY <2>1, <3>1 DEF RowSound, Pull!Exists, Pull!After, Pull!At, Pull!UpToDate
  <2> QED BY <2>3, <2>4
<1> QED BY <1>2, <1>3, <1>4, <1>5

\* A step of a device: the rows stay, and the other devices with them.
LEMMA PullDeviceStep ==
  ASSUME Pull!PullShape, PullInv, NEW d \in Readers,
         UNCHANGED <<now, stamp, version, deleted, writing>>,
         NEW p \in {"new", "bootstrap", "delta"}, NEW c \in Nat \X Nat, NEW b \in Nat \X Nat,
         NEW got \in [Rows -> Nat],
         phase' = [phase EXCEPT ![d] = p], cursor' = [cursor EXCEPT ![d] = c],
         start' = [start EXCEPT ![d] = b], copy' = [copy EXCEPT ![d] = got],
         Behind(c), Behind(b), \A r \in Rows : RowSound(d, r)'
  PROVE  PullInv'
<1> USE DEF PullInv
<1>1. Pull!TypeOK'
  BY DEF Pull!TypeOK
<1>2. WritesSound'
  BY DEF WritesSound
<1>3. CursorsBehind'
  BY DEF CursorsBehind, Behind, Pull!Horizon, Pull!TypeOK
<1>4. RowsSound'
  <2> SUFFICES ASSUME NEW e \in Readers, NEW r \in Rows, e # d
               PROVE  RowSound(e, r)'
    BY DEF RowsSound
  <2>1. RowSound(e, r)
    BY DEF RowsSound
  <2>2. UNCHANGED <<phase[e], cursor[e], start[e], copy[e]>>
    BY DEF Pull!TypeOK
  <2> QED BY <2>1, <2>2 DEF RowSound, Pull!Exists, Pull!After, Pull!At, Pull!UpToDate
<1> QED BY <1>1, <1>2, <1>3, <1>4

LEMMA StartBootstrapStep ==
  ASSUME Pull!PullShape, PullInv, NEW d \in Readers, Pull!StartBootstrap(d)
  PROVE  PullInv'
<1> USE DEF PullInv
<1>1. PICK b \in {Pull!At(r) : r \in Rows} \cup {Pull!Origin} :
        Pull!Newest(b) /\ start' = [start EXCEPT ![d] = b]
  BY Zenon DEF Pull!StartBootstrap
<1>2. b \in Nat \X Nat /\ Pull!Origin \in Nat \X Nat
  BY <1>1, RowPlace DEF Pull!Origin
<1>3. Behind(b) /\ Behind(Pull!Origin)
  BY <1>1 DEF Pull!Newest, Behind, Pull!Settled, Pull!At
<1>4. ASSUME NEW r \in Rows PROVE RowSound(d, r)'
  <2>1. phase[d]' = "bootstrap" /\ cursor[d]' = Pull!Origin /\ copy[d]'[r] = 0
    BY DEF Pull!StartBootstrap, Pull!TypeOK
  <2>2. UNCHANGED <<stamp, version, deleted>>
    BY DEF Pull!StartBootstrap
  <2>3. Pull!Exists(r) => Pull!After(Pull!At(r), Pull!Origin)
    BY RowAfter, <1>2 DEF Pull!Exists, Pull!At, Pull!TypeOK
  <2> QED BY <2>1, <2>2, <2>3 DEF RowSound, Pull!Exists, Pull!At, Pull!After
<1>5. /\ phase' = [phase EXCEPT ![d] = "bootstrap"] /\ cursor' = [cursor EXCEPT ![d] = Pull!Origin]
      /\ copy' = [copy EXCEPT ![d] = [r \in Rows |-> 0]]
      /\ UNCHANGED <<now, stamp, version, deleted, writing>>
  BY DEF Pull!StartBootstrap
<1>6. [r \in Rows |-> 0] \in [Rows -> Nat] /\ \A r \in Rows : RowSound(d, r)'
  BY <1>4
<1> QED BY <1>1, <1>2, <1>3, <1>5, <1>6, PullDeviceStep, Zenon

LEMMA PullRefuseStep ==
  ASSUME Pull!PullShape, PullInv, NEW d \in Readers, Pull!Refuse(d)
  PROVE  PullInv'
<1> USE DEF PullInv
<1>1. /\ phase' = [phase EXCEPT ![d] = "new"] /\ cursor' = [cursor EXCEPT ![d] = cursor[d]]
      /\ start' = [start EXCEPT ![d] = start[d]] /\ copy' = [copy EXCEPT ![d] = copy[d]]
      /\ UNCHANGED <<now, stamp, version, deleted, writing>>
  BY DEF Pull!Refuse, Pull!TypeOK
<1>2. \A r \in Rows : RowSound(d, r)'
  BY <1>1 DEF RowSound, Pull!TypeOK
<1>3. Behind(cursor[d]) /\ Behind(start[d])
  BY DEF CursorsBehind
<1>4. cursor[d] \in Nat \X Nat /\ start[d] \in Nat \X Nat /\ copy[d] \in [Rows -> Nat]
  BY DEF Pull!TypeOK
<1> QED BY <1>1, <1>2, <1>3, <1>4, PullDeviceStep, Zenon

\* The copy after a page.
PageHeld(d, page) == [r \in Rows |-> IF r \in page THEN version[r] ELSE copy[d][r]]

\* The last page of a bootstrap hands over to the delta.
LEMMA PullHandOver ==
  ASSUME Pull!PullShape, PullInv, NEW d \in Readers, Pull!BootstrapPage(d), phase[d]' = "delta"
  PROVE  PullInv'
<1> USE DEF PullInv
<1> DEFINE live == {r \in Pull!Undelivered(d) : ~deleted[r]}
<1>1. PICK page \in SUBSET live :
        /\ Pull!IsPage(page, live) /\ Pull!Receive(d, page)
        /\ IF page = live
           THEN /\ phase' = [phase EXCEPT ![d] = "delta"]
                /\ cursor' = [cursor EXCEPT ![d] = start[d]]
           ELSE UNCHANGED phase
  BY Zenon DEF Pull!BootstrapPage
<1>2. page = live
  BY <1>1 DEF Pull!BootstrapPage, Pull!TypeOK
<1>3. /\ phase' = [phase EXCEPT ![d] = "delta"] /\ cursor' = [cursor EXCEPT ![d] = start[d]]
      /\ start' = [start EXCEPT ![d] = start[d]] /\ copy' = [copy EXCEPT ![d] = PageHeld(d, live)]
      /\ UNCHANGED <<now, stamp, version, deleted, writing>>
  BY <1>1, <1>2 DEF Pull!Receive, PageHeld, Pull!TypeOK
<1>4. Behind(start[d]) /\ start[d] \in Nat \X Nat /\ PageHeld(d, live) \in [Rows -> Nat]
  BY DEF CursorsBehind, Pull!TypeOK, PageHeld
<1>5. ASSUME NEW r \in Rows PROVE RowSound(d, r)'
  <2>1. phase[d]' = "delta" /\ cursor[d]' = start[d] /\ copy[d]'[r] = PageHeld(d, live)[r]
    BY <1>3 DEF Pull!TypeOK
  <2> SUFFICES ASSUME Pull!Exists(r), ~Pull!After(Pull!At(r), start[d])
               PROVE  PageHeld(d, live)[r] = version[r] \/ (deleted[r] /\ PageHeld(d, live)[r] = 0)
    BY <1>3, <2>1 DEF RowSound, Pull!Exists, Pull!At, Pull!After, Pull!UpToDate
  <2>2. IF Pull!After(Pull!At(r), cursor[d]) THEN copy[d][r] = 0 ELSE Pull!UpToDate(d, r)
    <3>1. phase[d] = "bootstrap"
      BY DEF Pull!BootstrapPage
    <3> QED BY <3>1 DEF RowsSound, RowSound
  <2>3. r \in Pull!Settled
    <3>1. start[d] # Pull!Origin
      BY RowAfter, <1>4 DEF Pull!Exists, Pull!At, Pull!TypeOK
    <3>2. stamp[r] <= start[d][1]
      BY <1>4, RowPlace, RowOrder DEF Pull!At
    <3>3. now \in Nat /\ stamp[r] \in Nat /\ start[d][1] \in Nat
      BY <1>4 DEF Pull!TypeOK
    <3> QED BY <3>1, <3>2, <3>3, <1>4 DEF Pull!Settled, Behind, Pull!Horizon, Pull!PullShape
  <2>4. CASE r \in live
    BY <2>4 DEF PageHeld
  <2>5. CASE r \notin live
    <3>1. deleted[r] \/ ~Pull!After(Pull!At(r), cursor[d])
      BY <2>3, <2>5 DEF Pull!Undelivered
    <3> QED BY <2>2, <2>5, <3>1 DEF PageHeld, Pull!UpToDate
  <2> QED BY <2>4, <2>5
<1>6. \A r \in Rows : RowSound(d, r)'
  BY <1>5
<1> QED BY <1>3, <1>4, <1>6, PullDeviceStep, Zenon

\* A page that is not the last moves the cursor to its last row.
LEMMA PullPageStep ==
  ASSUME Pull!PullShape, PullInv, NEW d \in Readers,
         NEW from, from \subseteq Pull!Undelivered(d),
         \/ phase[d] = "delta" /\ from = Pull!Undelivered(d)
         \/ phase[d] = "bootstrap" /\ from = {r \in Pull!Undelivered(d) : ~deleted[r]},
         NEW page \in SUBSET from, Pull!IsPage(page, from), Pull!Receive(d, page),
         UNCHANGED phase,
         NEW c, Pull!Last(c, page), cursor' = [cursor EXCEPT ![d] = c]
  PROVE  PullInv'
<1> USE DEF PullInv
<1>1. PICK l \in page : c = Pull!At(l) /\ \A s \in page : ~Pull!After(Pull!At(s), c)
  BY DEF Pull!Last
<1>2. l \in Pull!Settled /\ l \in Rows /\ Pull!After(Pull!At(l), cursor[d])
  BY <1>1 DEF Pull!Undelivered, Pull!Settled
<1>3. c \in Nat \X Nat /\ Behind(c)
  BY <1>1, <1>2, RowPlace DEF Pull!Settled, Behind, Pull!At
<1>4. /\ phase' = [phase EXCEPT ![d] = phase[d]] /\ start' = [start EXCEPT ![d] = start[d]]
      /\ copy' = [copy EXCEPT ![d] = PageHeld(d, page)]
      /\ UNCHANGED <<now, stamp, version, deleted, writing>>
  BY DEF Pull!Receive, PageHeld, Pull!TypeOK
<1>5. /\ Behind(start[d]) /\ start[d] \in Nat \X Nat /\ cursor[d] \in Nat \X Nat
      /\ PageHeld(d, page) \in [Rows -> Nat] /\ phase[d] \in {"new", "bootstrap", "delta"}
  BY DEF CursorsBehind, Pull!TypeOK, PageHeld
<1>6. ASSUME NEW r \in Rows PROVE RowSound(d, r)'
  <2>1. /\ phase[d]' = phase[d] /\ cursor[d]' = c /\ start[d]' = start[d]
        /\ copy[d]'[r] = PageHeld(d, page)[r]
    BY <1>4 DEF Pull!TypeOK
  <2>2. RowSound(d, r) /\ Pull!At(r) \in Nat \X Nat /\ Pull!At(l) \in Nat \X Nat
    BY <1>2, RowPlace DEF RowsSound
  <2>3. CASE r \in page
    <3>1. PageHeld(d, page)[r] = version[r] /\ ~Pull!After(Pull!At(r), c)
      BY <1>1, <2>3 DEF PageHeld
    <3> QED BY <1>4, <2>1, <3>1 DEF RowSound, Pull!UpToDate, Pull!At, Pull!After
  <2>4. CASE r \notin page
    <3>1. PageHeld(d, page)[r] = copy[d][r]
      BY <2>4 DEF PageHeld
    <3>2. CASE ~Pull!After(Pull!At(r), cursor[d])
      <4>1. ~Pull!After(Pull!At(r), c)
        BY <1>1, <1>2, <1>5, <2>2, <3>2 DEF Pull!After
      <4> QED BY <1>4, <2>1, <2>2, <3>1, <3>2, <4>1
         DEF RowSound, Pull!UpToDate, Pull!Exists, Pull!At, Pull!After
    <3>3. CASE Pull!After(Pull!At(r), cursor[d]) /\ ~Pull!After(Pull!At(r), c) /\ Pull!Exists(r)
      <4>1. r \in Pull!Undelivered(d)
        <5>1. stamp[r] <= stamp[l] /\ stamp[l] <= Pull!Horizon
          BY <1>1, <1>2, <2>2, <3>3, RowOrder DEF Pull!At, Pull!Settled
        <5>2. now \in Nat /\ stamp[r] \in Nat /\ stamp[l] \in Nat
          BY <1>2 DEF Pull!TypeOK
        <5> QED BY <3>3, <5>1, <5>2
           DEF Pull!Undelivered, Pull!Settled, Pull!Horizon, Pull!PullShape
      <4>2. r \notin from
        BY <1>1, <2>2, <2>4, <3>3 DEF Pull!IsPage, Pull!After
      <4>3. phase[d] = "bootstrap" /\ deleted[r]
        BY <4>1, <4>2
      <4> QED BY <1>4, <2>1, <2>2, <3>1, <3>3, <4>3
         DEF RowSound, Pull!UpToDate, Pull!Exists, Pull!At, Pull!After
    <3>4. CASE Pull!After(Pull!At(r), c) \/ ~Pull!Exists(r)
      <4>1. Pull!Exists(r) => Pull!After(Pull!At(r), cursor[d])
        BY <1>1, <1>2, <1>5, <2>2, <3>4 DEF Pull!After
      <4> QED BY <1>4, <2>1, <2>2, <3>1, <3>4, <4>1
         DEF RowSound, Pull!UpToDate, Pull!Exists, Pull!At, Pull!After
    <3> QED BY <3>2, <3>3, <3>4
  <2> QED BY <2>3, <2>4
<1>7. \A r \in Rows : RowSound(d, r)'
  BY <1>6
<1> QED BY <1>3, <1>4, <1>5, <1>7, PullDeviceStep, Zenon

LEMMA PullBootstrapStep ==
  ASSUME Pull!PullShape, PullInv, NEW d \in Readers, Pull!BootstrapPage(d)
  PROVE  PullInv'
<1> DEFINE live == {r \in Pull!Undelivered(d) : ~deleted[r]}
<1>1. PICK page \in SUBSET live :
        /\ Pull!IsPage(page, live) /\ Pull!Receive(d, page)
        /\ IF page = live
           THEN /\ phase' = [phase EXCEPT ![d] = "delta"]
                /\ cursor' = [cursor EXCEPT ![d] = start[d]]
           ELSE /\ \E c \in {Pull!At(r) : r \in page} :
                     Pull!Last(c, page) /\ cursor' = [cursor EXCEPT ![d] = c]
                /\ UNCHANGED phase
  BY Zenon DEF Pull!BootstrapPage
<1>2. CASE page = live
  <2>1. phase[d]' = "delta"
    BY <1>1, <1>2 DEF PullInv, Pull!TypeOK
  <2> QED BY <2>1, PullHandOver
<1>3. CASE page # live
  <2>1. PICK c \in {Pull!At(r) : r \in page} : Pull!Last(c, page) /\ cursor' = [cursor EXCEPT ![d] = c]
    BY <1>1, <1>3
  <2>2. phase[d] = "bootstrap"
    BY DEF Pull!BootstrapPage
  <2> QED BY <1>1, <1>3, <2>1, <2>2, PullPageStep, Zenon
<1> QED BY <1>2, <1>3

LEMMA PullDeltaStep ==
  ASSUME Pull!PullShape, PullInv, NEW d \in Readers, Pull!DeltaPage(d)
  PROVE  PullInv'
<1>1. PICK page \in SUBSET Pull!Undelivered(d) :
        /\ Pull!IsPage(page, Pull!Undelivered(d)) /\ Pull!Receive(d, page)
        /\ \E c \in {Pull!At(r) : r \in page} : Pull!Last(c, page) /\ cursor' = [cursor EXCEPT ![d] = c]
  BY Zenon DEF Pull!DeltaPage
<1>2. PICK c \in {Pull!At(r) : r \in page} : Pull!Last(c, page) /\ cursor' = [cursor EXCEPT ![d] = c]
  BY <1>1, Zenon
<1>3. phase[d] = "delta" /\ UNCHANGED phase
  BY DEF Pull!DeltaPage
<1> QED BY <1>1, <1>2, <1>3, PullPageStep, Zenon

LEMMA PullStep ==
  ASSUME Pull!PullShape, PullInv, [Pull!Next]_(Pull!vars)
  PROVE  PullInv'
<1>1. CASE UNCHANGED Pull!vars
  BY <1>1 DEF Pull!vars, PullInv, Pull!TypeOK, WritesSound, CursorsBehind, Behind,
         Pull!Horizon, RowsSound,
              RowSound, Pull!Exists, Pull!At, Pull!After, Pull!UpToDate
<1>2. CASE Pull!Tick
  BY <1>2, PullTickStep
<1>3. CASE \E r \in Rows : Pull!IssueWrite(r) \/ Pull!Abort(r) \/ \E delete \in BOOLEAN : Pull!Commit(r, delete)
  BY <1>3, PullWriteStep, CommitWriteStep
<1>4. CASE \E d \in Readers : Pull!StartBootstrap(d) \/ Pull!Refuse(d) \/ Pull!BootstrapPage(d) \/ Pull!DeltaPage(d)
  BY <1>4, StartBootstrapStep, PullRefuseStep, PullBootstrapStep, PullDeltaStep
<1> QED BY <1>1, <1>2, <1>3, <1>4 DEF Pull!Next

LEMMA PullGives ==
  ASSUME PullInv
  PROVE  Pull!NothingSkipped
BY DEF PullInv, RowsSound, RowSound, Pull!NothingSkipped

-----------------------------------------------------------------------------

PageCopies == [edit : Pages!Times, time : Pages!Times, key : Pages!Times \cup {0}]
PageLabels == {"idle", "look", "put", "remember", "drop", "save", "delete", "purge", "commit"}

\* A copy taken before two edits shared a millisecond: its time tells its edit.
Dated(i) == i.time <= i.edit /\ (~rapid => i.time = i.edit)
\* While a cancellation holds the invoice nobody else does, and it writes the next edit.
Cancels(s) == Pages!At(s, "purge") \/ Pages!At(s, "commit")
NextEdit(i) ==
  /\ i.edit = invoice.edit + 1 /\ i.time \in {invoice.time, invoice.time + 1}
  /\ i.key = invoice.key
CopiesSound ==
  /\ Dated(invoice)
  /\ \A s \in Requests : Pages!At(s, "look") \/ Pages!At(s, "put") => Dated(paging[s].read)
  /\ \A s \in Requests : Pages!At(s, "drop") => paging[s].read.key # 0
  /\ \A s \in Requests : Cancels(s) => NextEdit(paging[s].read)
  /\ \A s, z \in Requests : Cancels(s) /\ Cancels(z) => s = z
ObjectsSound == ~rapid => \A t \in Pages!Times : objects[t] \in {0, t}

\* Who still knows of an object.
PageKnown(t) ==
  \/ t \in adrift \/ invoice.key = t
  \/ \E s \in Requests : Pages!At(s, "remember") /\ Pages!KeyOf(paging[s].read) = t
  \/ \E s \in Requests : Pages!At(s, "drop") /\ paging[s].read.key = t
ObjectsKnown == \A t \in Pages!Times : objects[t] # 0 => PageKnown(t)

PagesInv ==
  Pages!TypeOK /\ CopiesSound /\ ObjectsSound /\ ObjectsKnown /\ (outdated => rapid)

PageAsks == [pc : PageLabels, read : PageCopies]

LEMMA PagesTypes ==
  Pages!TypeOK <=> /\ invoice \in PageCopies /\ objects \in [Pages!Times -> Pages!Times \cup {0}]
             /\ paging \in [Requests -> PageAsks]
             /\ paged \in 0..MaxPages
             /\ rapid \in BOOLEAN /\ outdated \in BOOLEAN /\ adrift \subseteq Pages!Times
BY DEF Pages!TypeOK, PageCopies, PageLabels, PageAsks

LEMMA PagesNew ==
  ASSUME Pages!CacheShape
  PROVE  Pages!New \in PageCopies /\ Pages!Idle \in PageAsks /\ 1 \in Pages!Times
BY DEF Pages!CacheShape, Pages!New, Pages!Idle, PageCopies, PageAsks, PageLabels, Pages!Times

LEMMA PagesInit ==
  ASSUME Pages!CacheShape, Pages!Init
  PROVE  PagesInv
<1>1. Pages!TypeOK
  <2>1. /\ invoice \in PageCopies /\ paging \in [Requests -> PageAsks] /\ paged \in 0..MaxPages
    BY PagesNew DEF Pages!CacheShape, Pages!Init
  <2>2. objects \in [Pages!Times -> Pages!Times \cup {0}]
    BY DEF Pages!Init
  <2>3. rapid \in BOOLEAN /\ outdated \in BOOLEAN /\ adrift \subseteq Pages!Times
    BY Zenon DEF Pages!Init
  <2> QED BY <2>1, <2>2, <2>3, PagesTypes
<1>2. CopiesSound
  BY DEF Pages!Init, CopiesSound, Dated, Pages!New, Pages!Idle, Pages!At, Cancels
<1>3. ObjectsSound /\ ObjectsKnown
  BY DEF Pages!Init, ObjectsSound, ObjectsKnown
<1> QED BY <1>1, <1>2, <1>3 DEF PagesInv, Pages!Init

\* A save of the invoice.
LEMMA EditedType ==
  ASSUME Pages!CacheShape, invoice \in PageCopies, Dated(invoice), invoice.edit <= PageEdits,
         NEW t \in {invoice.time, invoice.time + 1}
  PROVE  /\ Pages!Edited(t) \in PageCopies /\ Pages!Edited(t).edit = invoice.edit + 1
         /\ Pages!Edited(t).time = t /\ Pages!Edited(t).key = invoice.key
<1>1. /\ invoice.edit \in 1..(PageEdits + 1) /\ invoice.time \in 1..(PageEdits + 1)
      /\ invoice.time <= invoice.edit /\ PageEdits \in Nat
  BY DEF Pages!CacheShape, PageCopies, Pages!Times, Dated
<1>2. invoice.edit + 1 \in Pages!Times /\ t \in Pages!Times
  BY <1>1 DEF Pages!Times
<1> QED BY <1>2, Zenon DEF PageCopies, Pages!Edited

\* What a step makes of its request, and of the pointer and the objects.
LEMMA RequestTyped ==
  ASSUME Pages!CacheShape, Pages!TypeOK, NEW s \in Requests, NEW r \in PageAsks, Pages!Go(s, r),
         invoice' \in PageCopies, objects' \in [Pages!Times -> Pages!Times \cup {0}],
         paged' \in 0..MaxPages,
         rapid' \in BOOLEAN, outdated' \in BOOLEAN, adrift' \subseteq Pages!Times
  PROVE  Pages!TypeOK'
<1>1. paging' \in [Requests -> PageAsks]
  BY PagesTypes DEF Pages!Go
<1> QED BY <1>1 DEF Pages!TypeOK, PageCopies, PageLabels, PageAsks

PageTo(s, pc) == [paging[s] EXCEPT !.pc = pc]

LEMMA CopyMoved ==
  ASSUME Pages!TypeOK, NEW s \in Requests, NEW pc \in PageLabels
  PROVE  /\ paging[s].read \in PageCopies /\ paging[s].pc \in PageLabels
         /\ PageTo(s, pc) \in PageAsks /\ PageTo(s, pc).pc = pc /\ PageTo(s, pc).read = paging[s].read
         /\ Pages!KeyOf(paging[s].read) \in Pages!Times
<1>1. paging[s] \in PageAsks
  BY PagesTypes
<1> QED BY <1>1 DEF PageAsks, PageLabels, PageCopies, Pages!KeyOf, PageTo

LEMMA DeletesTyped ==
  ASSUME Pages!TypeOK, NEW keys, keys \subseteq Pages!Times, Pages!Deletes(keys)
  PROVE  objects' \in [Pages!Times -> Pages!Times \cup {0}] /\ adrift' \subseteq Pages!Times
BY DEF Pages!TypeOK, Pages!Deletes, Pages!Without

LEMMA PagesType ==
  ASSUME Pages!CacheShape, PagesInv, Pages!Next
  PROVE  Pages!TypeOK'
<1> USE DEF PagesInv
<1>0. /\ invoice \in PageCopies /\ objects \in [Pages!Times -> Pages!Times \cup {0}]
      /\ paged \in 0..MaxPages /\ Pages!Idle \in PageAsks
      /\ rapid \in BOOLEAN /\ outdated \in BOOLEAN /\ adrift \subseteq Pages!Times
  BY PagesTypes, PagesNew
<1>1. ASSUME NEW s \in Requests, Pages!Download(s) PROVE Pages!TypeOK'
  <2>1. [pc |-> "look", read |-> invoice] \in PageAsks
    BY <1>0 DEF PageAsks, PageLabels
  <2>2. paged' \in 0..MaxPages
    BY <1>0, <1>1 DEF Pages!Download, Pages!CacheShape
  <2> QED BY <1>0, <1>1, <2>1, <2>2, RequestTyped DEF Pages!Download
<1>2. ASSUME NEW s \in Requests, Pages!Look(s) PROVE Pages!TypeOK'
  <2>1. PageTo(s, "put") \in PageAsks
    BY CopyMoved DEF PageLabels
  <2>2. outdated' \in BOOLEAN
    BY <1>0, <1>2, Zenon DEF Pages!Look
  <2>3. PICK r \in PageAsks : Pages!Go(s, r)
    BY <1>0, <1>2, <2>1 DEF Pages!Look, Pages!Goto, PageTo
  <2>4. UNCHANGED <<invoice, objects, paged, rapid, adrift>>
    BY <1>2 DEF Pages!Look
  <2> QED BY <1>0, <2>2, <2>3, <2>4, RequestTyped
<1>3. ASSUME NEW s \in Requests, Pages!Put(s) PROVE Pages!TypeOK'
  <2>1. PageTo(s, "remember") \in PageAsks /\ paging[s].read \in PageCopies
    BY CopyMoved DEF PageLabels
  <2>2. PICK r \in PageAsks : Pages!Go(s, r)
    BY <1>0, <1>3, <2>1 DEF Pages!Put, Pages!Goto, PageTo
  <2>3. objects' \in [Pages!Times -> Pages!Times \cup {0}]
    BY <1>0, <1>3, <2>1 DEF Pages!Put, PageCopies
  <2>4. UNCHANGED <<invoice, paged, rapid, outdated, adrift>>
    BY <1>3 DEF Pages!Put
  <2> QED BY <1>0, <2>2, <2>3, <2>4, RequestTyped
<1>4. ASSUME NEW s \in Requests, Pages!Remember(s) PROVE Pages!TypeOK'
  <2>1. PageTo(s, "drop") \in PageAsks /\ Pages!KeyOf(paging[s].read) \in Pages!Times
    BY CopyMoved DEF PageLabels
  <2>2. PICK r \in PageAsks : Pages!Go(s, r)
    BY <1>0, <1>4, <2>1 DEF Pages!Remember, Pages!Goto, PageTo
  <2>3. invoice' \in PageCopies
    BY <1>0, <1>4, <2>1 DEF Pages!Remember, Pages!Remembered, PageCopies
  <2>4. invoice.key \in Pages!Times \cup {0}
    BY <1>0 DEF PageCopies
  <2>5. adrift' \subseteq Pages!Times
    BY <1>0, <1>4, <2>1, <2>4 DEF Pages!Remember, Pages!LostBy
  <2>6. UNCHANGED <<objects, paged, rapid, outdated>>
    BY <1>4 DEF Pages!Remember
  <2> QED BY <1>0, <2>2, <2>3, <2>5, <2>6, RequestTyped
<1>5. ASSUME NEW s \in Requests, Pages!Drop(s) \/ Pages!Invalidate(s) PROVE Pages!TypeOK'
  <2>1. /\ Pages!KeyOf(paging[s].read) \in Pages!Times /\ paging[s].read.key \in Pages!Times \cup {0}
        /\ Pages!At(s, "drop") => paging[s].read.key # 0
    BY CopyMoved DEF PageLabels, PageCopies, CopiesSound
  <2>2. PICK keys \in SUBSET Pages!Times : Pages!Deletes(keys)
    BY <1>5, <2>1 DEF Pages!Drop, Pages!Invalidate
  <2>3. UNCHANGED <<invoice, paged, rapid, outdated>> /\ Pages!Go(s, Pages!Idle)
    BY <1>5 DEF Pages!Drop, Pages!Invalidate
  <2> QED BY <1>0, <2>2, <2>3, DeletesTyped, RequestTyped
<1>6. ASSUME NEW s \in Requests, Pages!Purge(s) PROVE Pages!TypeOK'
  <2>1. /\ Pages!KeyOf(paging[s].read) \in Pages!Times /\ paging[s].read.key \in Pages!Times \cup {0}
        /\ PageTo(s, "commit") \in PageAsks
    BY CopyMoved DEF PageLabels, PageCopies
  <2>2. Pages!Deletes({Pages!KeyOf(paging[s].read), paging[s].read.key} \ {0})
    BY <1>6 DEF Pages!Purge
  <2>3. objects' \in [Pages!Times -> Pages!Times \cup {0}] /\ adrift' \subseteq Pages!Times
    BY <2>1, <2>2, DeletesTyped
  <2>4. UNCHANGED <<invoice, paged, rapid, outdated>> /\ Pages!Go(s, PageTo(s, "commit"))
    BY <1>6 DEF Pages!Purge, Pages!Goto, PageTo
  <2> QED BY <1>0, <2>1, <2>3, <2>4, RequestTyped
<1>7. ASSUME NEW s \in Requests, Pages!Settle(s) PROVE Pages!TypeOK'
  <2>1. [pc |-> "save", read |-> invoice] \in PageAsks
    BY <1>0 DEF PageAsks, PageLabels
  <2> QED BY <1>0, <1>7, <2>1, RequestTyped DEF Pages!Settle
<1>8. ASSUME NEW s \in Requests, Pages!SaveSettled(s) PROVE Pages!TypeOK'
  <2>1. PICK t \in {invoice.time, invoice.time + 1} :
          invoice' = Pages!Edited(t) /\ rapid' = (rapid \/ t = invoice.time)
    BY <1>8 DEF Pages!SaveSettled, Pages!Saved
  <2>2. invoice' \in PageCopies
    BY <1>0, <1>8, <2>1, EditedType DEF Pages!SaveSettled, Pages!Saved, CopiesSound
  <2>3. [pc |-> "delete", read |-> [invoice' EXCEPT !.key = paging[s].read.key]] \in PageAsks
    <3>1. paging[s].read.key \in Pages!Times \cup {0}
      BY CopyMoved DEF PageLabels, PageCopies
    <3>2. [invoice' EXCEPT !.key = paging[s].read.key] \in PageCopies
      BY <2>2, <3>1 DEF PageCopies
    <3> QED BY <3>2 DEF PageAsks, PageLabels
  <2>4. rapid' \in BOOLEAN
    BY <1>0, <2>1
  <2> QED BY <1>0, <1>8, <2>2, <2>3, <2>4, RequestTyped DEF Pages!SaveSettled
<1>9. ASSUME NEW s \in Requests, Pages!Cancel(s) PROVE Pages!TypeOK'
  <2>1. PICK t \in {invoice.time, invoice.time + 1} : Pages!Go(s, [pc |-> "purge", read |-> Pages!Edited(t)])
    BY <1>9 DEF Pages!Cancel
  <2>2. [pc |-> "purge", read |-> Pages!Edited(t)] \in PageAsks
    BY <1>0, <1>9, EditedType DEF Pages!Cancel, CopiesSound, PageAsks, PageLabels
  <2> QED BY <1>0, <1>9, <2>1, <2>2, RequestTyped DEF Pages!Cancel
<1>10. ASSUME NEW s \in Requests, Pages!Commit(s) PROVE Pages!TypeOK'
  <2>1. paging[s].read \in PageCopies
    BY CopyMoved DEF PageLabels
  <2>2. rapid' \in BOOLEAN
    BY <1>0, <1>10 DEF Pages!Commit
  <2> QED BY <1>0, <1>10, <2>1, <2>2, RequestTyped DEF Pages!Commit
<1>11. ASSUME Pages!Edit PROVE Pages!TypeOK'
  <2>1. PICK t \in {invoice.time, invoice.time + 1} :
          invoice' = Pages!Edited(t) /\ rapid' = (rapid \/ t = invoice.time)
    BY <1>11 DEF Pages!Edit, Pages!Saved
  <2>2. invoice' \in PageCopies
    BY <1>0, <1>11, <2>1, EditedType DEF Pages!Edit, Pages!Saved, CopiesSound
  <2>3. rapid' \in BOOLEAN
    BY <1>0, <2>1
  <2> QED BY <1>0, <1>11, <2>2, <2>3 DEF Pages!Edit, Pages!TypeOK, PageCopies
<1> QED BY <1>1, <1>2, <1>3, <1>4, <1>5, <1>6, <1>7, <1>8, <1>9, <1>10, <1>11 DEF Pages!Next

\* A step of a request keeps the copies sound: its own, and those of the others, when it
\* leaves the invoice alone or nobody else holds it.
LEMMA CopiesMove ==
  ASSUME Pages!CacheShape, PagesInv, NEW s \in Requests, NEW r \in PageAsks, Pages!Go(s, r),
         Dated(invoice)', rapid => rapid',
         r.pc \in {"look", "put"} => Dated(r.read)', r.pc = "drop" => r.read.key # 0,
         r.pc \in {"purge", "commit"} => NextEdit(r.read)',
         r.pc \in {"purge", "commit"} \/ invoice' # invoice =>
           \A z \in Requests : Cancels(z) => z = s
  PROVE  CopiesSound'
<1> USE DEF PagesInv
<1>1. paging \in [Requests -> PageAsks] /\ \A z \in Requests : paging[z].read \in PageCopies
  BY PagesTypes DEF PageAsks
<1>2. paging'[s] = r /\ \A z \in Requests : z # s => paging'[z] = paging[z]
  BY <1>1 DEF Pages!Go
<1>3. \A z \in Requests : (Pages!At(z, "look") \/ Pages!At(z, "put"))' => Dated(paging[z].read)'
  BY <1>2 DEF CopiesSound, Pages!At, Dated
<1>4. \A z \in Requests : Pages!At(z, "drop")' => paging'[z].read.key # 0
  BY <1>2 DEF CopiesSound, Pages!At
<1>5. \A z \in Requests : Cancels(z)' => NextEdit(paging[z].read)'
  BY <1>2 DEF CopiesSound, Cancels, Pages!At, NextEdit
<1>6. \A z, y \in Requests : Cancels(z)' /\ Cancels(y)' => z = y
  BY <1>2 DEF CopiesSound, Cancels, Pages!At
<1> QED BY <1>3, <1>4, <1>5, <1>6 DEF CopiesSound

\* While nobody holds the invoice nobody cancels it.
LEMMA Unlocked ==
  ASSUME ~Pages!Locked
  PROVE  \A z \in Requests : ~Cancels(z)
BY DEF Pages!Locked, Cancels

LEMMA DatedEdit ==
  ASSUME Pages!CacheShape, PagesInv, invoice.edit <= PageEdits,
         NEW t \in {invoice.time, invoice.time + 1}, invoice' = Pages!Edited(t),
         rapid' = (rapid \/ t = invoice.time)
  PROVE  Dated(invoice)' /\ (rapid => rapid')
<1>1. invoice.edit \in Nat /\ invoice.time \in Nat /\ Dated(invoice)
  BY PagesTypes DEF PagesInv, CopiesSound, PageCopies, Pages!Times, Pages!CacheShape
<1>2. Pages!Edited(t).edit = invoice.edit + 1 /\ Pages!Edited(t).time = t
  BY PagesTypes, EditedType DEF PagesInv, CopiesSound
<1>3. Pages!Edited(t).time <= Pages!Edited(t).edit
  BY <1>1, <1>2 DEF Dated
<1>4. CASE rapid \/ t = invoice.time
  <2>1. rapid'
    BY <1>4, Zenon
  <2> QED BY <1>3, <2>1 DEF Dated
<1>5. CASE ~rapid /\ t = invoice.time + 1
  BY <1>1, <1>2, <1>3, <1>5 DEF Dated
<1> QED BY <1>4, <1>5

LEMMA PagesCopies ==
  ASSUME Pages!CacheShape, PagesInv, Pages!Next
  PROVE  CopiesSound'
<1> USE DEF PagesInv
<1>0. /\ Dated(invoice) /\ invoice \in PageCopies /\ Pages!Idle \in PageAsks /\ Pages!Idle.pc = "idle"
      /\ \A s \in Requests : paging[s] \in PageAsks
  BY PagesTypes, PagesNew DEF CopiesSound, Pages!Idle
<1>1. ASSUME UNCHANGED <<invoice, rapid>> PROVE Dated(invoice)'
  BY <1>0, <1>1 DEF Dated
<1>2. ASSUME NEW s \in Requests, Pages!Download(s) PROVE CopiesSound'
  <2>1. PICK r : r = [pc |-> "look", read |-> invoice] /\ Pages!Go(s, r)
    BY <1>2 DEF Pages!Download
  <2>2. r \in PageAsks /\ r.pc = "look" /\ Dated(r.read)'
    BY <1>0, <1>2, <2>1 DEF PageAsks, PageLabels, Dated, Pages!Download
  <2> QED BY <1>1, <1>2, <2>1, <2>2, CopiesMove DEF Pages!Download
<1>3. ASSUME NEW s \in Requests, Pages!Look(s) PROVE CopiesSound'
  <2>1. PICK r \in {Pages!Idle, PageTo(s, "put")} : Pages!Go(s, r)
    BY <1>3 DEF Pages!Look, Pages!Goto, PageTo
  <2>2. r \in PageAsks /\ (r.pc = "idle" \/ (r.pc = "put" /\ r.read = paging[s].read))
    BY <1>0, <2>1, CopyMoved DEF PageLabels
  <2>3. PICK i : i = paging[s].read
    OBVIOUS
  <2>4. Dated(i)' /\ UNCHANGED <<invoice, rapid>>
    BY <1>3, <2>3 DEF Pages!Look, CopiesSound, Dated
  <2>5. r.pc \in {"look", "put"} => Dated(r.read)'
    BY <2>2, <2>3, <2>4 DEF Dated
  <2> QED BY <1>1, <2>1, <2>2, <2>4, <2>5, CopiesMove
<1>4. ASSUME NEW s \in Requests, Pages!Put(s) PROVE CopiesSound'
  <2>1. PICK r \in {Pages!Idle, PageTo(s, "remember")} : Pages!Go(s, r)
    BY <1>4 DEF Pages!Put, Pages!Goto, PageTo
  <2>2. r \in PageAsks /\ r.pc \in {"idle", "remember"}
    BY <1>0, <2>1, CopyMoved DEF PageLabels
  <2> QED BY <1>1, <1>4, <2>1, <2>2, CopiesMove DEF Pages!Put
<1>5. ASSUME NEW s \in Requests, Pages!Remember(s) PROVE CopiesSound'
  <2>1. PICK r \in {Pages!Idle, PageTo(s, "drop")} :
          Pages!Go(s, r) /\ (r.pc = "drop" => paging[s].read.key # 0)
    BY <1>0, <1>5 DEF Pages!Remember, Pages!Goto, PageTo
  <2>2. r \in PageAsks /\ (r.pc = "idle" \/ (r.pc = "drop" /\ r.read = paging[s].read))
    BY <1>0, <2>1, CopyMoved DEF PageLabels
  <2>3. Dated(invoice)' /\ rapid' = rapid /\ (invoice' # invoice => ~Pages!Locked)
    BY <1>0, <1>5 DEF Pages!Remember, Pages!Remembered, PageCopies, Dated
  <2> QED BY <2>1, <2>2, <2>3, Unlocked, CopiesMove
<1>6. ASSUME NEW s \in Requests, Pages!Drop(s) \/ Pages!Invalidate(s) PROVE CopiesSound'
  <2>1. Pages!Go(s, Pages!Idle) /\ UNCHANGED <<invoice, rapid>>
    BY <1>6 DEF Pages!Drop, Pages!Invalidate
  <2> QED BY <1>0, <1>1, <2>1, CopiesMove
<1>7. ASSUME NEW s \in Requests, Pages!Purge(s) PROVE CopiesSound'
  <2>1. PICK r : r = PageTo(s, "commit") /\ Pages!Go(s, r)
    BY <1>7 DEF Pages!Purge, Pages!Goto, PageTo
  <2>2. r \in PageAsks /\ r.pc = "commit" /\ r.read = paging[s].read
    BY <2>1, CopyMoved DEF PageLabels
  <2>3. Cancels(s) /\ UNCHANGED <<invoice, rapid>>
    BY <1>7 DEF Pages!Purge, Cancels
  <2>4. NextEdit(r.read)'
    BY <2>2, <2>3 DEF CopiesSound, NextEdit
  <2> QED BY <1>1, <2>1, <2>2, <2>3, <2>4, CopiesMove DEF CopiesSound
<1>8. ASSUME NEW s \in Requests, Pages!Settle(s) PROVE CopiesSound'
  <2>1. PICK r : r = [pc |-> "save", read |-> invoice] /\ Pages!Go(s, r)
    BY <1>8 DEF Pages!Settle
  <2>2. r \in PageAsks /\ r.pc = "save"
    BY <1>0, <2>1 DEF PageAsks, PageLabels
  <2> QED BY <1>1, <1>8, <2>1, <2>2, CopiesMove DEF Pages!Settle
<1>9. ASSUME NEW s \in Requests, Pages!SaveSettled(s) PROVE CopiesSound'
  <2>1. PICK t \in {invoice.time, invoice.time + 1} :
          invoice' = Pages!Edited(t) /\ rapid' = (rapid \/ t = invoice.time)
    BY <1>9 DEF Pages!SaveSettled, Pages!Saved
  <2>2. Dated(invoice)' /\ (rapid => rapid') /\ ~Pages!Locked
    BY <1>9, <2>1, DatedEdit DEF Pages!SaveSettled, Pages!Saved
  <2>3. PICK r : r = [pc |-> "delete", read |-> [invoice' EXCEPT !.key = paging[s].read.key]]
                 /\ Pages!Go(s, r)
    BY <1>9 DEF Pages!SaveSettled
  <2>4. invoice' \in PageCopies
    BY <1>0, <1>9, <2>1, EditedType DEF Pages!SaveSettled, Pages!Saved
  <2>5. paging[s].read.key \in Pages!Times \cup {0}
    BY <1>0 DEF PageAsks, PageCopies
  <2>6. r \in PageAsks /\ r.pc = "delete"
    BY <2>3, <2>4, <2>5 DEF PageAsks, PageLabels, PageCopies
  <2> QED BY <2>2, <2>3, <2>6, Unlocked, CopiesMove
<1>10. ASSUME NEW s \in Requests, Pages!Cancel(s) PROVE CopiesSound'
  <2>1. PICK t \in {invoice.time, invoice.time + 1} : Pages!Go(s, [pc |-> "purge", read |-> Pages!Edited(t)])
    BY <1>10 DEF Pages!Cancel
  <2>2. PICK r : r = [pc |-> "purge", read |-> Pages!Edited(t)] /\ Pages!Go(s, r)
    BY <2>1
  <2>3. ~Pages!Locked /\ invoice.edit <= PageEdits /\ UNCHANGED <<invoice, rapid>>
    BY <1>10 DEF Pages!Cancel
  <2>4. /\ Pages!Edited(t) \in PageCopies /\ Pages!Edited(t).edit = invoice.edit + 1
        /\ Pages!Edited(t).time = t /\ Pages!Edited(t).key = invoice.key
    BY <1>0, <2>3, EditedType
  <2>5. r \in PageAsks /\ r.pc = "purge" /\ NextEdit(r.read)'
    BY <2>2, <2>3, <2>4 DEF PageAsks, PageLabels, NextEdit
  <2> QED BY <1>1, <2>2, <2>3, <2>5, Unlocked, CopiesMove
<1>11. ASSUME NEW s \in Requests, Pages!Commit(s) PROVE CopiesSound'
  <2>1. Cancels(s) /\ NextEdit(paging[s].read)
    BY <1>11 DEF Pages!Commit, Cancels, CopiesSound
  <2>2. /\ invoice' = paging[s].read
        /\ rapid' = (rapid \/ paging[s].read.time = invoice.time)
        /\ Pages!Go(s, Pages!Idle)
    BY <1>11 DEF Pages!Commit
  <2>3. invoice.edit \in Nat /\ invoice.time \in Nat
    BY <1>0 DEF PageCopies, Pages!Times, Pages!CacheShape
  <2>4. Dated(invoice)'
    <3>1. CASE rapid \/ paging[s].read.time = invoice.time
      <4>1. rapid'
        BY <2>2, <3>1, Zenon
      <4> QED BY <1>0, <2>1, <2>2, <2>3, <4>1 DEF NextEdit, Dated
    <3>2. CASE ~rapid /\ paging[s].read.time = invoice.time + 1
      BY <1>0, <2>1, <2>2, <2>3, <3>2 DEF NextEdit, Dated
    <3> QED BY <2>1, <3>1, <3>2 DEF NextEdit
  <2>5. \A z \in Requests : Cancels(z) => z = s
    BY <2>1 DEF CopiesSound
  <2>6. rapid => rapid'
    BY <2>2, Zenon
  <2> QED BY <1>0, <2>2, <2>4, <2>5, <2>6, CopiesMove
<1>12. ASSUME Pages!Edit PROVE CopiesSound'
  <2>1. PICK t \in {invoice.time, invoice.time + 1} :
          invoice' = Pages!Edited(t) /\ rapid' = (rapid \/ t = invoice.time)
    BY <1>12 DEF Pages!Edit, Pages!Saved
  <2>2. Dated(invoice)' /\ (rapid => rapid') /\ ~Pages!Locked /\ UNCHANGED paging
    BY <1>12, <2>1, DatedEdit DEF Pages!Edit, Pages!Saved
  <2>3. \A z \in Requests : ~Cancels(z)
    BY <2>2, Unlocked
  <2> QED BY <2>2, <2>3 DEF CopiesSound, Dated, Pages!At, Cancels
<1> QED BY <1>2, <1>3, <1>4, <1>5, <1>6, <1>7, <1>8, <1>9, <1>10, <1>11, <1>12 DEF Pages!Next

\* An object of a time shows the edit of that time, unless two edits had it.
LEMMA PagesObjects ==
  ASSUME Pages!CacheShape, PagesInv, Pages!Next
  PROVE  ObjectsSound' /\ (outdated => rapid)'
<1> USE DEF PagesInv
<1>0. /\ objects \in [Pages!Times -> Pages!Times \cup {0}] /\ \A s \in Requests : paging[s] \in PageAsks
  BY PagesTypes
<1>1. CASE rapid'
  BY <1>1 DEF ObjectsSound
<1>2. ASSUME ~rapid', UNCHANGED <<rapid, outdated>>,
             \A t \in Pages!Times : objects'[t] \in {objects[t], 0, t}
      PROVE  ObjectsSound' /\ (outdated => rapid)'
  BY <1>2 DEF ObjectsSound
<1>3. ASSUME NEW s \in Requests, ~rapid', Pages!Download(s) \/ Pages!Remember(s) \/ Pages!Settle(s) \/ Pages!Cancel(s)
      PROVE  ObjectsSound' /\ (outdated => rapid)'
  BY <1>2, <1>3 DEF Pages!Download, Pages!Remember, Pages!Settle, Pages!Cancel
<1>4. ASSUME NEW s \in Requests, ~rapid', Pages!Drop(s) \/ Pages!Invalidate(s) \/ Pages!Purge(s)
      PROVE  ObjectsSound' /\ (outdated => rapid)'
  <2>1. PICK gone : objects' = Pages!Without(gone)
    BY <1>4 DEF Pages!Drop, Pages!Invalidate, Pages!Purge, Pages!Deletes
  <2>2. \A t \in Pages!Times : objects'[t] \in {objects[t], 0}
    BY <2>1 DEF Pages!Without
  <2> QED BY <1>2, <1>4, <2>2 DEF Pages!Drop, Pages!Invalidate, Pages!Purge
<1>5. ASSUME NEW s \in Requests, ~rapid', Pages!SaveSettled(s) \/ Pages!Commit(s)
      PROVE  ObjectsSound' /\ (outdated => rapid)'
  <2>1. PICK b : rapid' = (rapid \/ b)
    BY <1>5 DEF Pages!SaveSettled, Pages!Commit, Pages!Saved
  <2>2. ~rapid /\ UNCHANGED <<objects, outdated>>
    BY <1>5, <2>1, Zenon DEF Pages!SaveSettled, Pages!Commit
  <2> QED BY <2>2 DEF ObjectsSound
<1>6. ASSUME ~rapid', Pages!Edit PROVE ObjectsSound' /\ (outdated => rapid)'
  BY <1>6, Zenon DEF Pages!Edit, Pages!Saved, ObjectsSound
<1>7. ASSUME NEW s \in Requests, ~rapid', Pages!Look(s) PROVE ObjectsSound' /\ (outdated => rapid)'
  <2>1. UNCHANGED <<objects, rapid>> /\ Pages!At(s, "look")
    BY <1>7 DEF Pages!Look
  <2>2. /\ paging[s].read.edit \in Nat /\ paging[s].read.time \in Pages!Times
        /\ paging[s].read.time = paging[s].read.edit
    BY <1>0, <1>7, <2>1
       DEF PageAsks, PageCopies, Pages!Times, Pages!CacheShape, CopiesSound, Dated
  <2>3. objects[Pages!KeyOf(paging[s].read)] \in {0, paging[s].read.edit}
    BY <1>7, <2>1, <2>2 DEF ObjectsSound, Pages!KeyOf
  <2>4. ~outdated
    BY <1>7, <2>1
  <2>5. PICK p : p = objects[Pages!KeyOf(paging[s].read)]
    OBVIOUS
  <2>6. ~(p # 0 /\ p < paging[s].read.edit)
    BY <2>2, <2>3, <2>5
  <2>7. UNCHANGED outdated \/ (outdated' = (outdated \/ p < paging[s].read.edit) /\ p # 0)
    BY <1>7, <2>5 DEF Pages!Look
  <2>8. ~outdated'
    BY <2>4, <2>6, <2>7, Zenon
  <2> QED BY <2>1, <2>8 DEF ObjectsSound
<1>8. ASSUME NEW s \in Requests, ~rapid', Pages!Put(s) PROVE ObjectsSound' /\ (outdated => rapid)'
  <2>1. UNCHANGED <<rapid, outdated>> /\ Pages!At(s, "put")
    BY <1>8 DEF Pages!Put
  <2>2. paging[s].read.time = paging[s].read.edit
    BY <1>8, <2>1 DEF CopiesSound, Dated
  <2>3. \A t \in Pages!Times : objects'[t] \in {objects[t], t}
    BY <1>0, <1>8, <2>2 DEF Pages!Put, Pages!KeyOf
  <2> QED BY <1>2, <1>8, <2>1, <2>3
<1> QED BY <1>1, <1>3, <1>4, <1>5, <1>6, <1>7, <1>8 DEF Pages!Next

\* A step of a request loses sight of no object: what it uploads it remembers, and what it
\* or the invoice knew somebody knows, or it is gone, or counted astray.
LEMMA KnownMove ==
  ASSUME Pages!CacheShape, PagesInv, NEW s \in Requests, NEW r \in PageAsks, Pages!Go(s, r),
         adrift \subseteq adrift',
         \A t \in Pages!Times : objects'[t] # 0 =>
           objects[t] # 0 \/ (r.pc = "remember" /\ Pages!KeyOf(r.read) = t),
         invoice.key \in adrift' \cup {0, invoice'.key} \/ (r.pc = "drop" /\ r.read.key = invoice.key),
         Pages!At(s, "remember") => Pages!KeyOf(paging[s].read) \in adrift' \cup {invoice'.key},
         Pages!At(s, "drop") => \/ paging[s].read.key \in adrift'
                          \/ objects'[paging[s].read.key] = 0
  PROVE  ObjectsKnown'
<1> USE DEF PagesInv
<1>1. paging \in [Requests -> PageAsks]
  BY PagesTypes
<1>2. paging'[s] = r /\ \A z \in Requests : z # s => paging'[z] = paging[z]
  BY <1>1 DEF Pages!Go
<1> SUFFICES ASSUME NEW t \in Pages!Times, objects'[t] # 0 PROVE PageKnown(t)'
  BY DEF ObjectsKnown
<1>3. CASE r.pc = "remember" /\ Pages!KeyOf(r.read) = t
  BY <1>2, <1>3 DEF PageKnown, Pages!At, Pages!KeyOf
<1>4. CASE objects[t] # 0
  <2>1. PageKnown(t)
    BY <1>4 DEF ObjectsKnown
  <2>2. CASE t \in adrift
    BY <2>2 DEF PageKnown
  <2>3. CASE invoice.key = t
    <3>1. t # 0
      BY DEF Pages!Times
    <3> QED BY <1>2, <2>3, <3>1 DEF PageKnown, Pages!At
  <2>4. ASSUME NEW z \in Requests, Pages!At(z, "remember") /\ Pages!KeyOf(paging[z].read) = t PROVE PageKnown(t)'
    <3>1. CASE z = s
      BY <2>4, <3>1 DEF PageKnown
    <3>2. CASE z # s
      BY <1>2, <2>4, <3>2 DEF PageKnown, Pages!At, Pages!KeyOf
    <3> QED BY <3>1, <3>2
  <2>5. ASSUME NEW z \in Requests, Pages!At(z, "drop") /\ paging[z].read.key = t PROVE PageKnown(t)'
    <3>1. CASE z = s
      BY <2>5, <3>1 DEF PageKnown
    <3>2. CASE z # s
      BY <1>2, <2>5, <3>2 DEF PageKnown, Pages!At
    <3> QED BY <3>1, <3>2
  <2> QED BY <2>1, <2>2, <2>3, <2>4, <2>5 DEF PageKnown
<1> QED BY <1>3, <1>4

LEMMA PagesKnown ==
  ASSUME Pages!CacheShape, PagesInv, Pages!Next
  PROVE  ObjectsKnown'
<1> USE DEF PagesInv
<1>0. /\ objects \in [Pages!Times -> Pages!Times \cup {0}] /\ \A s \in Requests : paging[s] \in PageAsks
      /\ invoice \in PageCopies /\ Pages!Idle \in PageAsks /\ Pages!Idle.pc = "idle"
  BY PagesTypes, PagesNew DEF Pages!Idle
<1>1. ASSUME NEW s \in Requests, Pages!Download(s) \/ Pages!Settle(s) PROVE ObjectsKnown'
  <2>1. PICK r : r \in {[pc |-> "look", read |-> invoice], [pc |-> "save", read |-> invoice]}
                 /\ Pages!Go(s, r)
    BY <1>1 DEF Pages!Download, Pages!Settle
  <2>2. r \in PageAsks /\ r.pc # "remember"
    BY <1>0, <2>1 DEF PageAsks, PageLabels
  <2>3. Pages!At(s, "idle") /\ UNCHANGED <<invoice, objects, adrift>>
    BY <1>1 DEF Pages!Download, Pages!Settle
  <2> QED BY <2>1, <2>2, <2>3, KnownMove DEF Pages!At
<1>2. ASSUME NEW s \in Requests, Pages!Look(s) PROVE ObjectsKnown'
  <2>1. PICK r \in {Pages!Idle, PageTo(s, "put")} : Pages!Go(s, r)
    BY <1>2 DEF Pages!Look, Pages!Goto, PageTo
  <2>2. r \in PageAsks /\ r.pc # "remember"
    BY <1>0, <2>1, CopyMoved DEF PageLabels
  <2>3. Pages!At(s, "look") /\ UNCHANGED <<invoice, objects, adrift>>
    BY <1>2 DEF Pages!Look
  <2> QED BY <2>1, <2>2, <2>3, KnownMove DEF Pages!At
<1>3. ASSUME NEW s \in Requests, Pages!Put(s) PROVE ObjectsKnown'
  <2>1. PICK r \in {Pages!Idle, PageTo(s, "remember")} :
          /\ Pages!Go(s, r)
          /\ \A t \in Pages!Times : objects'[t] # objects[t] =>
               r = PageTo(s, "remember") /\ Pages!KeyOf(paging[s].read) = t
    BY <1>0, <1>3 DEF Pages!Put, Pages!Goto, PageTo
  <2>2. r \in PageAsks /\ (r = PageTo(s, "remember") => r.pc = "remember" /\ r.read = paging[s].read)
    BY <1>0, <2>1, CopyMoved DEF PageLabels
  <2>3. Pages!At(s, "put") /\ UNCHANGED <<invoice, adrift>>
    BY <1>3 DEF Pages!Put
  <2> QED BY <2>1, <2>2, <2>3, KnownMove DEF Pages!At
<1>4. ASSUME NEW s \in Requests, Pages!Remember(s) PROVE ObjectsKnown'
  <2>1. /\ Pages!At(s, "remember") /\ UNCHANGED objects
        /\ Pages!Idle \in PageAsks /\ PageTo(s, "drop") \in PageAsks
        /\ PageTo(s, "drop").pc = "drop" /\ PageTo(s, "drop").read = paging[s].read
    BY <1>0, <1>4, CopyMoved DEF Pages!Remember, PageLabels
  <2> DEFINE t == Pages!KeyOf(paging[s].read)
  <2>2. CASE /\ UNCHANGED invoice /\ Pages!Go(s, Pages!Idle)
             /\ adrift' = adrift \cup (IF invoice.key = t THEN {} ELSE {t})
    <3>1. adrift \subseteq adrift' /\ t \in adrift' \cup {invoice'.key}
      BY <2>2
    <3> QED BY <1>0, <2>1, <2>2, <3>1, KnownMove DEF Pages!At
  <2>3. ASSUME invoice' = Pages!Remembered(t), adrift' = adrift \cup Pages!LostBy(s),
               NEW r \in PageAsks, Pages!Go(s, r), r.pc # "remember",
               paging[s].read.key # 0 => r.pc = "drop" /\ r.read = paging[s].read
        PROVE  ObjectsKnown'
    <3>1. invoice'.key = t
      BY <1>0, <2>3 DEF Pages!Remembered, PageCopies
    <3>2. invoice.key \in adrift' \cup {0, paging[s].read.key, t}
      BY <2>3 DEF Pages!LostBy
    <3>3. invoice.key \in adrift' \cup {0, invoice'.key}
          \/ (r.pc = "drop" /\ r.read.key = invoice.key)
      BY <2>3, <3>1, <3>2
    <3> QED BY <2>1, <2>3, <3>1, <3>3, KnownMove DEF Pages!At
  <2>4. CASE invoice' = Pages!Remembered(t) /\ adrift' = adrift \cup Pages!LostBy(s)
             /\ paging[s].read.key # 0 /\ Pages!Go(s, PageTo(s, "drop"))
    BY <2>1, <2>3, <2>4
  <2>5. CASE invoice' = Pages!Remembered(t) /\ adrift' = adrift \cup Pages!LostBy(s)
             /\ paging[s].read.key = 0 /\ Pages!Go(s, Pages!Idle)
    BY <1>0, <2>1, <2>3, <2>5
  <2> QED BY <1>4, <2>2, <2>4, <2>5 DEF Pages!Remember, Pages!Goto, PageTo
<1>5. ASSUME NEW s \in Requests, Pages!Drop(s) PROVE ObjectsKnown'
  <2>1. PICK gone \in SUBSET {paging[s].read.key} :
          /\ objects' = Pages!Without(gone)
          /\ adrift' = adrift \cup ({paging[s].read.key} \ gone)
    BY <1>5 DEF Pages!Drop, Pages!Deletes
  <2>2. Pages!Go(s, Pages!Idle) /\ Pages!At(s, "drop") /\ UNCHANGED invoice
    BY <1>5 DEF Pages!Drop
  <2>3. paging[s].read.key \in Pages!Times
    BY <1>0, <2>2 DEF PageAsks, PageCopies, CopiesSound
  <2>4. paging[s].read.key \in adrift' \/ objects'[paging[s].read.key] = 0
    BY <2>1, <2>3 DEF Pages!Without
  <2>5. \A t \in Pages!Times : objects'[t] # 0 => objects[t] # 0
    BY <2>1 DEF Pages!Without
  <2> QED BY <1>0, <2>1, <2>2, <2>4, <2>5, KnownMove DEF Pages!At
<1>6. ASSUME NEW s \in Requests, Pages!Invalidate(s) \/ Pages!Purge(s) PROVE ObjectsKnown'
  <2>1. PICK keys, gone : objects' = Pages!Without(gone) /\ adrift' = adrift \cup (keys \ gone)
    BY <1>6 DEF Pages!Invalidate, Pages!Purge, Pages!Deletes
  <2>2. \A t \in Pages!Times : objects'[t] # 0 => objects[t] # 0
    BY <2>1 DEF Pages!Without
  <2>3. PICK r \in {Pages!Idle, PageTo(s, "commit")} : Pages!Go(s, r)
    BY <1>6 DEF Pages!Invalidate, Pages!Purge, Pages!Goto, PageTo
  <2>4. r \in PageAsks
    BY <1>0, <2>3, CopyMoved DEF PageLabels
  <2>5. UNCHANGED invoice /\ ~Pages!At(s, "remember") /\ ~Pages!At(s, "drop")
    BY <1>6 DEF Pages!Invalidate, Pages!Purge, Pages!At
  <2> QED BY <2>1, <2>2, <2>3, <2>4, <2>5, KnownMove
<1>7. ASSUME NEW s \in Requests, Pages!SaveSettled(s) PROVE ObjectsKnown'
  <2>1. PICK r : r = [pc |-> "delete", read |-> [invoice' EXCEPT !.key = paging[s].read.key]]
                 /\ Pages!Go(s, r)
    BY <1>7 DEF Pages!SaveSettled
  <2>2. PICK t \in {invoice.time, invoice.time + 1} : invoice' = Pages!Edited(t)
    BY <1>7 DEF Pages!SaveSettled, Pages!Saved
  <2>3. invoice' \in PageCopies /\ invoice'.key = invoice.key
    BY <1>0, <1>7, <2>2, EditedType DEF Pages!SaveSettled, Pages!Saved, CopiesSound
  <2>4. paging[s].read.key \in Pages!Times \cup {0}
    BY <1>0 DEF PageAsks, PageCopies
  <2>5. r \in PageAsks /\ r.pc = "delete"
    BY <2>1, <2>3, <2>4 DEF PageAsks, PageLabels, PageCopies
  <2>6. Pages!At(s, "save") /\ UNCHANGED <<objects, adrift>>
    BY <1>7 DEF Pages!SaveSettled
  <2> QED BY <2>1, <2>3, <2>5, <2>6, KnownMove DEF Pages!At
<1>8. ASSUME NEW s \in Requests, Pages!Cancel(s) PROVE ObjectsKnown'
  <2>1. PICK t \in {invoice.time, invoice.time + 1} : Pages!Go(s, [pc |-> "purge", read |-> Pages!Edited(t)])
    BY <1>8 DEF Pages!Cancel
  <2>2. PICK r : r = [pc |-> "purge", read |-> Pages!Edited(t)] /\ Pages!Go(s, r)
    BY <2>1
  <2>3. Pages!At(s, "idle") /\ invoice.edit <= PageEdits /\ UNCHANGED <<invoice, objects, adrift>>
    BY <1>8 DEF Pages!Cancel
  <2>4. r \in PageAsks /\ r.pc = "purge"
    BY <1>0, <2>2, <2>3, EditedType DEF PageAsks, PageLabels, CopiesSound
  <2> QED BY <2>2, <2>3, <2>4, KnownMove DEF Pages!At
<1>9. ASSUME NEW s \in Requests, Pages!Commit(s) PROVE ObjectsKnown'
  <2>1. invoice' = paging[s].read /\ Pages!Go(s, Pages!Idle) /\ Pages!At(s, "commit")
        /\ UNCHANGED <<objects, adrift>>
    BY <1>9 DEF Pages!Commit
  <2>2. invoice'.key = invoice.key
    BY <2>1 DEF CopiesSound, Cancels, NextEdit
  <2> QED BY <1>0, <2>1, <2>2, KnownMove DEF Pages!At
<1>10. ASSUME Pages!Edit PROVE ObjectsKnown'
  <2>1. PICK t \in {invoice.time, invoice.time + 1} : invoice' = Pages!Edited(t)
    BY <1>10 DEF Pages!Edit, Pages!Saved
  <2>2. invoice'.key = invoice.key
    BY <1>0, <1>10, <2>1, EditedType DEF Pages!Edit, Pages!Saved, CopiesSound
  <2>3. UNCHANGED <<objects, paging, adrift>>
    BY <1>10 DEF Pages!Edit
  <2> QED BY <2>2, <2>3 DEF ObjectsKnown, PageKnown, Pages!At, Pages!KeyOf
<1> QED BY <1>1, <1>2, <1>3, <1>4, <1>5, <1>6, <1>7, <1>8, <1>9, <1>10 DEF Pages!Next

LEMMA PagesStep ==
  ASSUME Pages!CacheShape, PagesInv, [Pages!Next]_(Pages!vars)
  PROVE  PagesInv'
<1>1. CASE UNCHANGED Pages!vars
  BY <1>1 DEF Pages!vars, PagesInv, Pages!TypeOK, CopiesSound, Dated, Cancels, NextEdit,
         ObjectsSound,
              ObjectsKnown, PageKnown, Pages!At, Pages!KeyOf
<1>2. CASE Pages!Next
  BY <1>2, PagesType, PagesCopies, PagesObjects, PagesKnown DEF PagesInv
<1> QED BY <1>1, <1>2

LEMMA PagesGives ==
  ASSUME PagesInv
  PROVE  Pages!PagesExact
BY DEF PagesInv, ObjectsKnown, PageKnown, Pages!PagesExact

\* That part runs by itself.
LEMMA PullRuns ==
  ASSUME [Next]_vars, part' = "pull"
  PROVE  part = "pull" /\ [Pull!Next]_(Pull!vars)
<1>1. CASE UNCHANGED vars
  <2>1. part' = part /\ pullVars' = pullVars
    BY <1>1 DEF vars
  <2> QED BY <2>1 DEF pullVars, Pull!vars
<1>2. CASE Next
  BY <1>2 DEF Next, Only
<1> QED BY <1>1, <1>2

\* That part runs by itself.
LEMMA PagesRuns ==
  ASSUME [Next]_vars, part' = "pages"
  PROVE  part = "pages" /\ [Pages!Next]_(Pages!vars)
<1>1. CASE UNCHANGED vars
  <2>1. part' = part /\ pageVars' = pageVars
    BY <1>1 DEF vars
  <2> QED BY <2>1 DEF pageVars, Pages!vars
<1>2. CASE Next
  BY <1>2 DEF Next, Only
<1> QED BY <1>1, <1>2

\* A device's copy is complete but for the rows of slow writers, and a rendered page is as
\* fresh as the invoice, for any number of rows, devices and requests (syncService.js, pdf
\* cache).
THEOREM CopiesExactAlways == Spec => []CopiesExact
<1> DEFINE I == /\ part = "pull" => PullInv
                /\ part = "pages" => PagesInv
<1>1. Init => I
  BY PullInit, PagesInit, ProtocolShape DEF Init
<1>2. I /\ [Next]_vars => I'
  <2> SUFFICES ASSUME I, [Next]_vars PROVE I'
    OBVIOUS
  <2>1. part' = "pull" => PullInv'
    <3> SUFFICES ASSUME part' = "pull" PROVE PullInv'
      OBVIOUS
    <3>1. part = "pull" /\ [Pull!Next]_(Pull!vars)
      BY PullRuns
    <3> QED BY <3>1, PullStep, ProtocolShape
  <2>2. part' = "pages" => PagesInv'
    <3> SUFFICES ASSUME part' = "pages" PROVE PagesInv'
      OBVIOUS
    <3>1. part = "pages" /\ [Pages!Next]_(Pages!vars)
      BY PagesRuns
    <3> QED BY <3>1, PagesStep, ProtocolShape
  <2> QED BY <2>1, <2>2
<1>3. I => CopiesExact
  BY PullGives, PagesGives, ProtocolShape DEF CopiesExact, PullInv, PagesInv
<1> QED BY <1>1, <1>2, <1>3, PTL DEF Spec

-----------------------------------------------------------------------------

CallSteps == [pc : {"idle", "read", "insert", "done", "full", "refused", "revoked"},
          attempts : 0..MaxAttempts, free : 0..MaxIndex]

\* A failed attempt was outrun: an index free when it was read is taken when another row
\* landed, or the device's own row did.
Outrun(c) ==
  \/ index[DeviceOf[c]] # 0
  \/ /\ landed[c] >= call[c].attempts
     /\ call[c].pc = "insert" /\ call[c].free \in Series!Taken => landed[c] >= call[c].attempts + 1
CallSound(c) ==
  /\ call[c].pc = "idle" => call[c].attempts = 0
  /\ call[c].pc \in {"read", "insert"} => call[c].attempts < MaxAttempts
  /\ call[c].pc = "insert" => call[c].free # 0
  /\ call[c].pc = "refused" => call[c].attempts = MaxAttempts
  /\ Outrun(c)

SeriesInv ==
  /\ Series!TypeOK /\ call \in [Calls -> CallSteps] /\ landed \in [Calls -> Nat]
  /\ \A c \in Calls : CallSound(c)

LEMMA SeriesInit ==
  ASSUME Series!SeriesShape, Series!Init
  PROVE  SeriesInv
<1>1. Series!TypeOK /\ landed \in [Calls -> Nat]
  BY DEF Series!SeriesShape, Series!Init, Series!TypeOK, Series!Idle
<1>2. call \in [Calls -> CallSteps]
  BY DEF Series!SeriesShape, Series!Init, Series!Idle, CallSteps
<1>3. ASSUME NEW c \in Calls PROVE CallSound(c)
  BY DEF Series!SeriesShape, Series!Init, Series!Idle, CallSound, Outrun
<1> QED BY <1>1, <1>2, <1>3 DEF SeriesInv

\* A call that moves while no row is written.
LEMMA CallMoved ==
  ASSUME Series!SeriesShape, SeriesInv, NEW c \in Calls, NEW r \in CallSteps,
         call' = [call EXCEPT ![c] = r],
         UNCHANGED <<index, revoked, landed>>, CallSound(c)'
  PROVE  SeriesInv'
<1> USE DEF SeriesInv
<1>1. Series!TypeOK' /\ call' \in [Calls -> CallSteps] /\ landed' \in [Calls -> Nat]
  BY DEF Series!TypeOK, CallSteps
<1>2. ASSUME NEW o \in Calls, o # c PROVE CallSound(o)'
  BY <1>2 DEF CallSound, Outrun, Series!Taken
<1> QED BY <1>1, <1>2

LEMMA RegisterCallStep ==
  ASSUME Series!SeriesShape, SeriesInv, NEW c \in Calls, Series!Register(c)
  PROVE  SeriesInv'
<1> USE DEF SeriesInv
<1>1. PICK pc \in {"revoked", "done", "read"} : call' = [call EXCEPT ![c].pc = pc]
  BY Zenon DEF Series!Register, Series!Goto
<1>2. call[c] \in CallSteps /\ call[c].pc = "idle" /\ CallSound(c)
  BY DEF Series!Register
<1>3. PICK r : r = [call[c] EXCEPT !.pc = pc] /\ call' = [call EXCEPT ![c] = r]
  BY <1>1, Zenon
<1>4. r \in CallSteps /\ r.pc = pc /\ r.attempts = call[c].attempts /\ r.free = call[c].free
  BY <1>2, <1>3 DEF CallSteps
<1>5. call'[c] = r /\ UNCHANGED <<index, revoked, landed>>
  BY <1>3 DEF Series!Register
<1>6. CallSound(c)'
  BY <1>2, <1>4, <1>5 DEF CallSound, Outrun, Series!Taken, Series!SeriesShape
<1> QED BY <1>3, <1>4, <1>5, <1>6, CallMoved, Zenon

LEMMA NextFreeStep ==
  ASSUME Series!SeriesShape, SeriesInv, NEW c \in Calls, Series!NextFreeIndex(c)
  PROVE  SeriesInv'
<1> USE DEF SeriesInv
<1>1. call[c] \in CallSteps /\ call[c].pc = "read" /\ CallSound(c)
      /\ UNCHANGED <<index, revoked, landed>>
  BY DEF Series!NextFreeIndex
<1>2. ASSUME NEW r \in CallSteps, call' = [call EXCEPT ![c] = r], r.attempts = call[c].attempts,
             r.pc = "full" \/ (r.pc = "insert" /\ r.free \in Series!Free)
      PROVE  SeriesInv'
  <2>1. call'[c] = r
    BY <1>2
  <2>2. r.pc = "insert" => r.free # 0 /\ r.free \notin Series!Taken
    BY <1>2 DEF Series!Free
  <2>3. CallSound(c)'
    BY <1>1, <1>2, <2>1, <2>2 DEF CallSound, Outrun, Series!Taken
  <2> QED BY <1>1, <1>2, <2>3, CallMoved, Zenon
<1>3. CASE Series!Free = {}
  <2>1. PICK r : r = [call[c] EXCEPT !.pc = "full"] /\ call' = [call EXCEPT ![c] = r]
    BY <1>3 DEF Series!NextFreeIndex, Series!Goto
  <2>2. r \in CallSteps /\ r.pc = "full" /\ r.attempts = call[c].attempts
    BY <1>1, <2>1 DEF CallSteps
  <2> QED BY <1>2, <2>1, <2>2, Zenon
<1>4. CASE Series!Free # {}
  <2>1. PICK i \in Series!Free : call' = [call EXCEPT ![c].pc = "insert", ![c].free = i]
    BY <1>4 DEF Series!NextFreeIndex
  <2>2. PICK r : r = [call[c] EXCEPT !.pc = "insert", !.free = i] /\ call' = [call EXCEPT ![c] = r]
    BY <1>1, <2>1, Zenon
  <2>3. i \in 0..MaxIndex
    BY <2>1 DEF Series!Free, Series!SeriesShape
  <2>4. r \in CallSteps /\ r.pc = "insert" /\ r.attempts = call[c].attempts /\ r.free = i
    BY <1>1, <2>2, <2>3, Zenon DEF CallSteps
  <2> QED BY <1>2, <2>1, <2>2, <2>4, Zenon
<1> QED BY <1>3, <1>4

LEMMA InsertDeviceStep ==
  ASSUME Series!SeriesShape, SeriesInv, NEW c \in Calls, Series!Insert(c)
  PROVE  SeriesInv'
<1> USE DEF SeriesInv
<1> DEFINE d == DeviceOf[c]
<1>1. /\ call[c] \in CallSteps /\ call[c].pc = "insert" /\ CallSound(c) /\ UNCHANGED revoked
      /\ d \in Registering /\ landed \in [Calls -> Nat]
  BY DEF Series!Insert, Series!SeriesShape
<1>2. CASE index[d] = 0 /\ call[c].free \notin Series!Taken
  <2>1. /\ index' = [index EXCEPT ![d] = call[c].free]
        /\ landed' = [o \in Calls |->
             IF call[o].pc \in {"read", "insert"} /\ o # c THEN landed[o] + 1 ELSE landed[o]]
    BY <1>2 DEF Series!Insert
  <2>2. PICK r : r = [call[c] EXCEPT !.pc = "done"] /\ call' = [call EXCEPT ![c] = r]
    BY <1>2 DEF Series!Insert, Series!Goto
  <2>3. r \in CallSteps /\ r.pc = "done" /\ call'[c] = r /\ call' \in [Calls -> CallSteps]
    BY <1>1, <2>2 DEF CallSteps
  <2>4. call[c].free \in 1..MaxIndex
    BY <1>1 DEF CallSound, CallSteps, Series!SeriesShape
  <2>5. index \in [Registering -> 0..MaxIndex] /\ index' \in [Registering -> 0..MaxIndex]
        /\ index'[d] = call[c].free /\ \A e \in Registering : e # d => index'[e] = index[e]
    BY <1>1, <2>1, <2>4 DEF Series!TypeOK, Series!SeriesShape
  <2>6. \A e \in Registering : index[e] # call[c].free
    BY <1>2, <2>4 DEF Series!Taken
  <2>7. Series!TypeOK'
    <3>1. \A e, f \in Registering : index'[e] = index'[f] /\ index'[e] # 0 => e = f
      BY <2>5, <2>6 DEF Series!TypeOK
    <3>2. revoked' \subseteq {e \in Registering : index'[e] # 0}
      BY <1>1, <2>4, <2>5 DEF Series!TypeOK
    <3> QED BY <2>3, <2>5, <3>1, <3>2 DEF Series!TypeOK, CallSteps
  <2>8. landed' \in [Calls -> Nat]
    BY <1>1, <2>1
  <2>9. ASSUME NEW o \in Calls PROVE CallSound(o)'
    <3>1. \A e \in Registering : index[e] # 0 => index'[e] # 0
      BY <2>4, <2>5
    <3>2. CASE o = c
      <4>1. index'[d] # 0
        BY <2>4, <2>5
      <4> QED BY <2>3, <3>2, <4>1 DEF CallSound, Outrun
    <3>3. CASE o # c
      <4>1. call'[o] = call[o] /\ call[o] \in CallSteps /\ CallSound(o)
            /\ DeviceOf[o] \in Registering
        BY <2>2, <3>3 DEF Series!SeriesShape
      <4>2. call[o].pc \in {"read", "insert"} => landed'[o] = landed[o] + 1
        BY <2>1, <3>3
      <4>3. call[o].pc \notin {"read", "insert"} => landed'[o] = landed[o]
        BY <2>1, <3>3
      <4>4. landed[o] \in Nat /\ call[o].attempts \in Nat
        BY <4>1 DEF CallSteps, Series!SeriesShape
      <4>5. Outrun(o)'
        BY <3>1, <4>1, <4>2, <4>3, <4>4 DEF CallSound, Outrun
      <4> QED BY <4>1, <4>5 DEF CallSound
    <3> QED BY <3>2, <3>3
  <2> QED BY <2>3, <2>7, <2>8, <2>9
<1>3. CASE ~(index[d] = 0 /\ call[c].free \notin Series!Taken)
  <2>1. PICK r : /\ r = [pc |-> IF Series!GivesUp(c) THEN "refused" ELSE "read",
                         attempts |-> call[c].attempts + 1, free |-> 0]
                 /\ call' = [call EXCEPT ![c] = r] /\ UNCHANGED <<index, landed>>
    BY <1>3 DEF Series!Insert
  <2>2. call[c].attempts \in Nat /\ call[c].attempts < MaxAttempts /\ MaxAttempts \in Nat
    BY <1>1 DEF CallSound, CallSteps, Series!SeriesShape
  <2>3. r \in CallSteps /\ call'[c] = r
    BY <1>1, <2>1, <2>2 DEF CallSteps, Series!SeriesShape
  <2>4. /\ r.pc = "read" => r.attempts < MaxAttempts
        /\ r.pc = "refused" => r.attempts = MaxAttempts
        /\ r.pc \in {"read", "refused"} /\ r.attempts = call[c].attempts + 1
    BY <2>1, <2>2 DEF Series!GivesUp
  <2>5. index[d] # 0 \/ landed[c] >= call[c].attempts + 1
    BY <1>1, <1>3 DEF CallSound, Outrun
  <2>6. CallSound(c)'
    BY <2>1, <2>3, <2>4, <2>5 DEF CallSound, Outrun
  <2> QED BY <1>1, <2>1, <2>3, <2>6, CallMoved, Zenon
<1> QED BY <1>2, <1>3

LEMMA SeriesRevokeStep ==
  ASSUME Series!SeriesShape, SeriesInv, NEW d \in Registering, Series!Revoke(d)
  PROVE  SeriesInv'
BY DEF SeriesInv, Series!Revoke, Series!TypeOK, CallSound, Outrun, Series!Taken

LEMMA SeriesStep ==
  ASSUME Series!SeriesShape, SeriesInv, [Series!Next]_(Series!vars)
  PROVE  SeriesInv'
<1>1. CASE UNCHANGED Series!vars
  BY <1>1 DEF Series!vars, SeriesInv, Series!TypeOK, CallSound, Outrun, Series!Taken
<1>2. CASE Series!Next
  BY <1>2, RegisterCallStep, NextFreeStep, InsertDeviceStep, SeriesRevokeStep DEF Series!Next
<1> QED BY <1>1, <1>2

LEMMA SeriesGives ==
  ASSUME Series!SeriesShape, SeriesInv
  PROVE  Series!RefusedOnlyByTraffic
BY DEF SeriesInv, CallSound, Outrun, Series!RefusedOnlyByTraffic, Series!SeriesShape

-----------------------------------------------------------------------------

Short(p) == LengthOf[p] <= Numbers!MAX_DOCUMENT_PREFIX_LENGTH

\* Why a number the device has yet to print, or to push, would be accepted, or why not: the
\* series is behind it, a paper took its place, or it has five digits.
Covered(d, y, n) ==
  \/ n > Numbers!Current(d, y)
  \/ Numbers!Digits(n) # 4
  \/ \E x \in papers : x.type = "invoice" /\ x.device = d /\ x.year = y /\ x.number.sequence >= n

\* The number of a paper or a sale: how it is formed, and where its series stands.
WellFormed(number, type, y, d) ==
  /\ number.prefix \in Prefixes \cup {"CN", "ORD"} /\ number.sequence \in Nat
  /\ number = Numbers!Form(type, number.prefix, y, Numbers!Segment(d), number.sequence)
  /\ type # "order" => ~Numbers!TooLong(number)
PaperPlace(x) ==
  IF x.device = 1 THEN sequence[x.type][Numbers!ScopeOf(x.type, x.year)] ELSE counters[x.device][x.year]
PaperSound(x) ==
  /\ x.type \in Numbers!Types /\ x.device \in Tills /\ x.year \in Years
  /\ x.type # "invoice" => x.device = 1
  /\ x.type = "credit_note" => x.number.prefix = "CN"
  /\ WellFormed(x.number, x.type, x.year, x.device)
  /\ x.number.sequence <= PaperPlace(x)
SamePlace(x, y) ==
  /\ x.type = y.type /\ x.device = y.device /\ x.number.sequence = y.number.sequence
  /\ Numbers!ScopeOf(x.type, x.year) = Numbers!ScopeOf(y.type, y.year)
PapersSound ==
  /\ \A x \in papers : PaperSound(x)
  /\ \A x, y \in papers : SamePlace(x, y) => x = y

\* A sale printed and not pushed, a refused one, and what a device may print next.
SaleSound(s) ==
  /\ s.device \in Tills /\ s.year \in Years
  /\ s.number.prefix \in Prefixes /\ Short(s.number.prefix)
  /\ WellFormed(s.number, "invoice", s.year, s.device)
SalesSound ==
  /\ \A s \in unpushed : SaleSound(s) /\ Covered(s.device, s.year, s.number.sequence)
  /\ \A r \in refused : r.sale.device \in Tills /\ r.sale.year \in Years
  /\ \A d \in Tills : series[d].year # 0 /\ Short(series[d].prefix) =>
       \A n \in Nat : n > series[d].position => Covered(d, series[d].year, n)
\* A prefix from before the limit: nobody was told another, and nothing is printed.
OldPrefix == ~Short(prefix) => unpushed = {} /\ \A d \in Tills : ~Short(series[d].prefix)

NumbersInv == Numbers!TypeOK /\ PapersSound /\ SalesSound /\ OldPrefix /\ Numbers!RefusedOnlyForReason

LEMMA NumbersInit ==
  ASSUME Numbers!NumberingShape, Numbers!Init
  PROVE  NumbersInv
<1> PICK n \in FirstNumbers :
       /\ sequence = [type \in Numbers!Types |-> [y \in Years \cup {0} |-> IF y < 2 THEN n ELSE 0]]
       /\ counters = [d \in Tills |-> [y \in Years |-> IF d # 1 /\ y = 1 THEN n ELSE 0]]
  BY DEF Numbers!Init
<1>1. Numbers!TypeOK
  <2>1. n \in Nat
    BY DEF Numbers!NumberingShape
  <2>2. sequence \in [Numbers!Types -> [Years \cup {0} -> Nat]]
        /\ counters \in [Tills -> [Years -> Nat]]
    BY <2>1
  <2> QED BY <2>2 DEF Numbers!NumberingShape, Numbers!Init, Numbers!TypeOK
<1>2. PapersSound /\ SalesSound /\ OldPrefix /\ Numbers!RefusedOnlyForReason
  BY DEF Numbers!Init, PapersSound, SalesSound, OldPrefix, Numbers!RefusedOnlyForReason, Short
<1> QED BY <1>1, <1>2 DEF NumbersInv

\* Scopes and prefixes are what the series are kept by.
LEMMA ScopeType ==
  ASSUME Numbers!NumberingShape, Numbers!TypeOK, NEW type \in Numbers!Types, NEW y \in Years
  PROVE  /\ Numbers!ScopeOf(type, y) \in Years \cup {0}
         /\ sequence[type][Numbers!ScopeOf(type, y)] \in Nat
         /\ Numbers!PrefixFor(type) \in Prefixes \cup {"CN", "ORD"}
         /\ type = "credit_note" => Numbers!PrefixFor(type) = "CN"
         /\ type = "invoice" => Numbers!PrefixFor(type) = prefix /\ Numbers!ScopeOf(type, y) = y
BY DEF Numbers!NumberingShape, Numbers!TypeOK, Numbers!ScopeOf, Numbers!PrefixFor, Numbers!Types

LEMMA CurrentType ==
  ASSUME Numbers!NumberingShape, Numbers!TypeOK, NEW d \in Tills, NEW y \in Years
  PROVE  Numbers!Current(d, y) \in Nat
BY DEF Numbers!NumberingShape, Numbers!TypeOK, Numbers!Current, Numbers!Types

LEMMA PaperPlaceType ==
  ASSUME Numbers!NumberingShape, Numbers!TypeOK, NEW x, x.type \in Numbers!Types,
         x.device \in Tills, x.year \in Years
  PROVE  PaperPlace(x) \in Nat
BY ScopeType, Zenon DEF Numbers!TypeOK, PaperPlace

\* A number of the series of a type is well formed, whatever its prefix.
LEMMA FormSound ==
  ASSUME Numbers!NumberingShape, NEW type \in Numbers!Types, NEW y \in Years, NEW d \in Tills,
         type # "invoice" => d = 1, NEW p \in Prefixes \cup {"CN", "ORD"}, NEW n \in Nat,
         NEW number, number = Numbers!Form(type, p, y, Numbers!Segment(d), n),
         type # "order" => ~Numbers!TooLong(number)
  PROVE  /\ number.prefix = p /\ number.sequence = n
         /\ WellFormed(number, type, y, d)
BY DEF Numbers!Form, WellFormed

\* The length of a number: a short prefix leaves room for four digits.
LEMMA ShortFits ==
  ASSUME Numbers!NumberingShape, NEW number, number.prefix \in Prefixes \cup {"CN", "ORD"},
         Short(number.prefix), Numbers!TooLong(number)
  PROVE  Numbers!Digits(number.sequence) # 4
BY DEF Numbers!NumberingShape, Short, Numbers!TooLong, Numbers!LengthOfNumber, Numbers!Digits,
       Numbers!MAX_DOCUMENT_PREFIX_LENGTH,
       Numbers!GST_DOCUMENT_NUMBER_MAX_LENGTH

-----------------------------------------------------------------------------
\* The series after an issue.
LEMMA IssueMoves ==
  ASSUME Numbers!NumberingShape, Numbers!TypeOK, NEW type \in Numbers!Types, NEW y \in Years,
         Numbers!Issue(type, y)
  PROVE  \E number :
           /\ number = Numbers!Form(type, Numbers!PrefixFor(type), y, 0, sequence[type][Numbers!ScopeOf(type, y)] + 1)
           /\ number.sequence = sequence[type][Numbers!ScopeOf(type, y)] + 1
           /\ number.prefix = Numbers!PrefixFor(type)
           /\ \/ UNCHANGED <<sequence, papers>> /\ Numbers!TooLong(number)
              \/ /\ sequence' = [sequence EXCEPT ![type][Numbers!ScopeOf(type, y)] = number.sequence]
                 /\ \/ Numbers!TooLong(number) /\ UNCHANGED papers
                    \/ /\ ~Numbers!TooLong(number)
                       /\ papers' = papers \cup {Numbers!Paper(numbered + 1, type, y, 1, number)}
BY DEF Numbers!Issue, Numbers!Form

\* The series after a push that fits.
LEMMA PushMoves ==
  ASSUME Numbers!NumberingShape, Numbers!TypeOK, NEW sale, Numbers!Push(sale),
         Numbers!Fits(sale), SaleSound(sale)
  PROVE  LET n == sale.number.sequence IN
         /\ n \in Nat /\ n > Numbers!Current(sale.device, sale.year)
         /\ papers' = papers \cup {Numbers!Paper(sale.id, "invoice", sale.year, sale.device, sale.number)}
         /\ sale.device = 1 => sequence' = [sequence EXCEPT !["invoice"][sale.year] = n]
                               /\ UNCHANGED counters
         /\ sale.device # 1 => counters' = [counters EXCEPT ![sale.device][sale.year] = n]
                               /\ UNCHANGED sequence
<1>1. sale.device \in Tills /\ sale.year \in Years /\ sale.number.sequence \in Nat
  BY DEF SaleSound, WellFormed
<1>2. Numbers!Current(sale.device, sale.year) \in Nat
  BY <1>1, CurrentType
<1> QED BY <1>1, <1>2
   DEF Numbers!Push, Numbers!Fits, Numbers!Advance, Numbers!Beyond, Numbers!Current

LEMMA NumbersType ==
  ASSUME Numbers!NumberingShape, NumbersInv, Numbers!Next
  PROVE  Numbers!TypeOK'
<1> USE DEF NumbersInv
<1>1. ASSUME NEW type \in Numbers!Types, NEW y \in Years, Numbers!Issue(type, y) PROVE Numbers!TypeOK'
  <2>1. PICK number :
           /\ number.sequence = sequence[type][Numbers!ScopeOf(type, y)] + 1
           /\ \/ UNCHANGED <<sequence, papers>>
              \/ /\ sequence' = [sequence EXCEPT ![type][Numbers!ScopeOf(type, y)] = number.sequence]
                 /\ \/ UNCHANGED papers
                    \/ papers' = papers \cup {Numbers!Paper(numbered + 1, type, y, 1, number)}
    BY <1>1, IssueMoves
  <2>2. number.sequence \in Nat
    BY <2>1, ScopeType
  <2>3. sequence' \in [Numbers!Types -> [Years \cup {0} -> Nat]]
    <3>1. sequence \in [Numbers!Types -> [Years \cup {0} -> Nat]]
      BY Zenon DEF Numbers!TypeOK
    <3>2. \A k : [sequence EXCEPT ![type][k] = number.sequence] \in [Numbers!Types -> [Years \cup {0} -> Nat]]
      BY <2>2, <3>1, Zenon
    <3> QED BY <2>1, <3>1, <3>2
  <2>4. \A x \in papers' : x.type \in Numbers!Types /\ x.device \in Tills /\ x.year \in Years
    BY <2>1 DEF Numbers!TypeOK, Numbers!Paper, Numbers!NumberingShape
  <2>5. numbered' \in 0..MaxNumbers
    BY <1>1 DEF Numbers!Issue, Numbers!Counted, Numbers!TypeOK, Numbers!NumberingShape
  <2> QED BY <1>1, <2>3, <2>4, <2>5, Zenon DEF Numbers!Issue, Numbers!TypeOK
<1>2. ASSUME NEW p \in Prefixes, Numbers!ChangePrefix(p) PROVE Numbers!TypeOK'
  <2>1. numbered' \in 0..MaxNumbers
    BY <1>2 DEF Numbers!ChangePrefix, Numbers!Counted, Numbers!TypeOK, Numbers!NumberingShape
  <2>2. prefix' \in Prefixes
        /\ UNCHANGED <<year, sequence, counters, series, unpushed, papers, refused>>
    BY <1>2 DEF Numbers!ChangePrefix
  <2> QED BY <2>1, <2>2, Zenon DEF Numbers!TypeOK
<1>3. ASSUME Numbers!NewYear PROVE Numbers!TypeOK'
  BY <1>3, Zenon DEF Numbers!NewYear, Numbers!TypeOK
<1>4. ASSUME NEW d \in Tills, Numbers!Register(d) PROVE Numbers!TypeOK'
  <2>1. Numbers!Current(d, year) \in Nat
    BY CurrentType, Zenon DEF Numbers!TypeOK
  <2>2. series' \in [Tills -> [year : Years \cup {0}, prefix : Prefixes, position : Nat]]
    BY <1>4, <2>1 DEF Numbers!Register, Numbers!Beyond, Numbers!TypeOK
  <2> QED BY <1>4, <2>2, Zenon DEF Numbers!Register, Numbers!TypeOK
<1>5. ASSUME NEW d \in Tills, Numbers!PrintNumber(d) PROVE Numbers!TypeOK'
  <2>1. series' \in [Tills -> [year : Years \cup {0}, prefix : Prefixes, position : Nat]]
    BY <1>5 DEF Numbers!PrintNumber, Numbers!TypeOK
  <2>2. numbered' \in 0..MaxNumbers
    BY <1>5 DEF Numbers!PrintNumber, Numbers!Counted, Numbers!TypeOK, Numbers!NumberingShape
  <2>3. \A x \in unpushed' : x.device \in Tills /\ x.year \in Years
    BY <1>5 DEF Numbers!PrintNumber, Numbers!Sale, Numbers!TypeOK
  <2> QED BY <1>5, <2>1, <2>2, <2>3, Zenon DEF Numbers!PrintNumber, Numbers!TypeOK
<1>6. ASSUME NEW sale \in unpushed, Numbers!Push(sale) PROVE Numbers!TypeOK'
  <2>1. SaleSound(sale) /\ sale.device \in Tills /\ sale.year \in Years
    BY DEF SalesSound, Numbers!TypeOK
  <2>2. CASE Numbers!Fits(sale)
    <3>1. sequence' \in [Numbers!Types -> [Years \cup {0} -> Nat]]
          /\ counters' \in [Tills -> [Years -> Nat]]
      <4>1. /\ sequence \in [Numbers!Types -> [Years \cup {0} -> Nat]]
            /\ counters \in [Tills -> [Years -> Nat]] /\ sale.number.sequence \in Nat
        BY <2>1, Zenon DEF Numbers!TypeOK, SaleSound, WellFormed
      <4>2. CASE sale.device = 1
        <5>1. sequence' = [sequence EXCEPT !["invoice"][sale.year] = sale.number.sequence]
              /\ UNCHANGED counters
          BY <1>6, <2>1, <2>2, <4>2, PushMoves, Zenon
        <5> QED BY <4>1, <5>1, Zenon
      <4>3. CASE sale.device # 1
        <5>1. counters' = [counters EXCEPT ![sale.device][sale.year] = sale.number.sequence]
              /\ UNCHANGED sequence
          BY <1>6, <2>1, <2>2, <4>3, PushMoves
        <5> QED BY <4>1, <5>1, Zenon
      <4> QED BY <4>2, <4>3, Zenon
    <3>2. PICK z : /\ z = Numbers!Paper(sale.id, "invoice", sale.year, sale.device, sale.number)
                   /\ papers' = papers \cup {z}
      BY <1>6, <2>2 DEF Numbers!Push
    <3>3. z.type \in Numbers!Types /\ z.device \in Tills /\ z.year \in Years
      BY <2>1, <3>2 DEF Numbers!Paper, Numbers!Types
    <3>4. \A x \in papers' : x.type \in Numbers!Types /\ x.device \in Tills /\ x.year \in Years
      BY <3>2, <3>3 DEF Numbers!TypeOK
    <3> QED BY <1>6, <2>2, <3>1, <3>4, Zenon DEF Numbers!Push, Numbers!TypeOK
  <2>3. CASE ~Numbers!Fits(sale)
    <3>1. PICK o : o = [sale |-> sale, prefix |-> prefix] /\ refused' = refused \cup {o}
      BY <1>6, <2>3, Zenon DEF Numbers!Push
    <3>2. o.sale = sale
      BY <3>1
    <3>3. \A x \in unpushed' \cup {r.sale : r \in refused'} : x.device \in Tills /\ x.year \in Years
      BY <1>6, <2>1, <3>1, <3>2 DEF Numbers!Push, Numbers!TypeOK
    <3> QED BY <1>6, <2>3, <3>3, Zenon DEF Numbers!Push, Numbers!TypeOK
  <2> QED BY <2>2, <2>3
<1> QED BY <1>1, <1>2, <1>3, <1>4, <1>5, <1>6 DEF Numbers!Next

-----------------------------------------------------------------------------
\* A paper joins those of its series after all of them, and no series goes back.
LEMMA PaperJoins ==
  ASSUME PapersSound, NEW z, papers' = papers \cup {z}, PaperSound(z)',
         \A x \in papers : x.number.sequence <= PaperPlace(x)',
         \A x \in papers : ~SamePlace(x, z) /\ ~SamePlace(z, x)
  PROVE  PapersSound'
<1>1. \A x \in papers : PaperSound(x)'
  BY DEF PapersSound, PaperSound
<1>2. \A x, y \in papers' : SamePlace(x, y)' => x = y
  BY DEF PapersSound, SamePlace
<1> QED BY <1>1, <1>2 DEF PapersSound

LEMMA PapersStay ==
  ASSUME PapersSound, UNCHANGED papers, \A x \in papers : x.number.sequence <= PaperPlace(x)'
  PROVE  PapersSound'
BY DEF PapersSound, PaperSound, SamePlace

LEMMA NumbersPapers ==
  ASSUME Numbers!NumberingShape, NumbersInv, Numbers!Next
  PROVE  PapersSound'
<1> USE DEF NumbersInv
<1>0. \A x \in papers : /\ PaperSound(x) /\ PaperPlace(x) \in Nat /\ x.number.sequence \in Nat
                        /\ x.number.sequence <= PaperPlace(x)
  BY PaperPlaceType DEF PapersSound, PaperSound, WellFormed
<1>1. ASSUME NEW type \in Numbers!Types, NEW y \in Years, Numbers!Issue(type, y) PROVE PapersSound'
  <2>1. PICK number :
           /\ number = Numbers!Form(type, Numbers!PrefixFor(type), y, 0, sequence[type][Numbers!ScopeOf(type, y)] + 1)
           /\ number.sequence = sequence[type][Numbers!ScopeOf(type, y)] + 1
           /\ number.prefix = Numbers!PrefixFor(type)
           /\ \/ UNCHANGED <<sequence, papers>> /\ Numbers!TooLong(number)
              \/ /\ sequence' = [sequence EXCEPT ![type][Numbers!ScopeOf(type, y)] = number.sequence]
                 /\ \/ Numbers!TooLong(number) /\ UNCHANGED papers
                    \/ /\ ~Numbers!TooLong(number)
                       /\ papers' = papers \cup {Numbers!Paper(numbered + 1, type, y, 1, number)}
    BY <1>1, IssueMoves
  <2> DEFINE s == Numbers!ScopeOf(type, y)
  <2>2. s \in Years \cup {0} /\ sequence[type][s] \in Nat /\ number.sequence \in Nat
        /\ UNCHANGED counters
    BY <1>1, <2>1, ScopeType DEF Numbers!Issue
  <2> PICK z : z = Numbers!Paper(numbered + 1, type, y, 1, number)
    OBVIOUS
  <2>3. CASE UNCHANGED <<sequence, papers>>
    BY <1>0, <2>2, <2>3, PapersStay DEF PaperPlace
  <2>4. CASE sequence' = [sequence EXCEPT ![type][s] = number.sequence]
    <3>1. sequence'[type][s] = number.sequence
          /\ \A t \in Numbers!Types, k \in Years \cup {0} :
               sequence'[t][k] = sequence[t][k] \/ (t = type /\ k = s)
      BY <2>2, <2>4 DEF Numbers!TypeOK
    <3>2. \A x \in papers : x.number.sequence <= PaperPlace(x)'
      <4> SUFFICES ASSUME NEW x \in papers PROVE x.number.sequence <= PaperPlace(x)'
        OBVIOUS
      <4>1. x.type \in Numbers!Types /\ Numbers!ScopeOf(x.type, x.year) \in Years \cup {0}
        BY <1>0, ScopeType DEF PaperSound
      <4>2. PaperPlace(x)' = PaperPlace(x)
            \/ (PaperPlace(x) = sequence[type][s] /\ PaperPlace(x)' = number.sequence)
        BY <2>2, <3>1, <4>1 DEF PaperPlace
      <4> QED BY <1>0, <2>1, <2>2, <4>2
    <3>3. CASE UNCHANGED papers
      BY <3>2, <3>3, PapersStay
    <3>4. CASE papers' = papers \cup {z} /\ ~Numbers!TooLong(number)
      <4>1. z.type = type /\ z.year = y /\ z.device = 1 /\ z.number = number
        BY DEF Numbers!Paper
      <4>2. WellFormed(number, type, y, 1)
        <5>1. number = Numbers!Form(type, Numbers!PrefixFor(type), y, Numbers!Segment(1), number.sequence) /\ 1 \in Tills
          BY <2>1 DEF Numbers!NumberingShape, Numbers!Segment
        <5>2. Numbers!PrefixFor(type) \in Prefixes \cup {"CN", "ORD"}
          BY ScopeType
        <5> QED BY <2>2, <3>4, <5>1, <5>2, FormSound
      <4>3. PaperSound(z)'
        BY <2>1, <2>2, <3>1, <4>1, <4>2, ScopeType
           DEF PaperSound, PaperPlace, Numbers!NumberingShape
      <4>4. ASSUME NEW x \in papers, SamePlace(x, z) \/ SamePlace(z, x) PROVE FALSE
        <5>1. x.type = type /\ x.device = 1 /\ Numbers!ScopeOf(x.type, x.year) = s
              /\ x.number.sequence = number.sequence
          BY <4>1, <4>4 DEF SamePlace
        <5>2. PaperPlace(x) = sequence[type][s]
          BY <5>1 DEF PaperPlace
        <5> QED BY <1>0, <2>1, <2>2, <5>1, <5>2
      <4> QED BY <3>2, <3>4, <4>3, <4>4, PaperJoins
    <3> QED BY <2>1, <2>4, <3>3, <3>4
  <2> QED BY <2>1, <2>3, <2>4
<1>2. ASSUME UNCHANGED <<sequence, counters, papers>> PROVE PapersSound'
  BY <1>0, <1>2, PapersStay DEF PaperPlace
<1>3. ASSUME NEW sale \in unpushed, Numbers!Push(sale), Numbers!Fits(sale) PROVE PapersSound'
  <2> DEFINE n == sale.number.sequence
             d == sale.device
             y == sale.year
             z == Numbers!Paper(sale.id, "invoice", y, d, sale.number)
  <2>1. SaleSound(sale) /\ d \in Tills /\ y \in Years
    BY DEF SalesSound, SaleSound
  <2>2. /\ n \in Nat /\ n > Numbers!Current(d, y) /\ papers' = papers \cup {z}
        /\ d = 1 => sequence' = [sequence EXCEPT !["invoice"][y] = n] /\ UNCHANGED counters
        /\ d # 1 => counters' = [counters EXCEPT ![d][y] = n] /\ UNCHANGED sequence
    BY <1>3, <2>1, PushMoves
  <2>3. z.type = "invoice" /\ z.year = y /\ z.device = d /\ z.number = sale.number
        /\ "invoice" \in Numbers!Types
    BY DEF Numbers!Paper, Numbers!Types
  <2>4. Numbers!Current(d, y) \in Nat /\ Numbers!ScopeOf("invoice", y) = y
    BY <2>1, CurrentType DEF Numbers!ScopeOf
  <2>5. PaperPlace(z)' = n
    BY <2>1, <2>2, <2>3, <2>4 DEF PaperPlace, Numbers!TypeOK
  <2>6. \A x \in papers : \/ PaperPlace(x)' = PaperPlace(x)
                          \/ PaperPlace(x) = Numbers!Current(d, y) /\ PaperPlace(x)' = n
    <3> SUFFICES ASSUME NEW x \in papers
                 PROVE  PaperPlace(x)' = PaperPlace(x)
                        \/ (PaperPlace(x) = Numbers!Current(d, y) /\ PaperPlace(x)' = n)
      OBVIOUS
    <3>1. x.type \in Numbers!Types /\ Numbers!ScopeOf(x.type, x.year) \in Years \cup {0}
          /\ x.device \in Tills
          /\ x.year \in Years
      BY <1>0, ScopeType DEF PaperSound
    <3>2. CASE d = 1
      <4>1. \A t \in Numbers!Types, k \in Years \cup {0} :
               sequence'[t][k] = sequence[t][k] \/ (t = "invoice" /\ k = y /\ sequence'[t][k] = n)
        BY <2>1, <2>2, <2>3, <3>2 DEF Numbers!TypeOK
      <4> QED BY <2>2, <3>1, <3>2, <4>1 DEF PaperPlace, Numbers!Current
    <3>3. CASE d # 1
      <4>1. \A e \in Tills, k \in Years :
               counters'[e][k] = counters[e][k] \/ (e = d /\ k = y /\ counters'[e][k] = n)
        BY <2>1, <2>2, <3>3 DEF Numbers!TypeOK
      <4> QED BY <2>2, <3>1, <3>3, <4>1 DEF PaperPlace, Numbers!Current
    <3> QED BY <3>2, <3>3
  <2>7. \A x \in papers : x.number.sequence <= PaperPlace(x)'
    BY <1>0, <2>2, <2>4, <2>6
  <2>8. PaperSound(z)'
    BY <2>1, <2>2, <2>3, <2>5 DEF PaperSound, SaleSound
  <2>9. ASSUME NEW x \in papers, SamePlace(x, z) \/ SamePlace(z, x) PROVE FALSE
    <3>1. x.type = "invoice" /\ x.device = d /\ x.number.sequence = n
          /\ Numbers!ScopeOf(x.type, x.year) = Numbers!ScopeOf("invoice", y)
      BY <2>3, <2>9 DEF SamePlace
    <3>2. x.year = y
      BY <3>1 DEF Numbers!ScopeOf
    <3>3. PaperPlace(x) = Numbers!Current(d, y)
      BY <2>4, <3>1, <3>2 DEF PaperPlace, Numbers!Current
    <3> QED BY <1>0, <2>2, <2>4, <3>1, <3>3
  <2> QED BY <2>2, <2>7, <2>8, <2>9, PaperJoins
<1>4. ASSUME NEW sale \in unpushed, Numbers!Push(sale), ~Numbers!Fits(sale) PROVE PapersSound'
  BY <1>2, <1>4 DEF Numbers!Push
<1>5. ASSUME NEW p \in Prefixes, Numbers!ChangePrefix(p) PROVE PapersSound'
  BY <1>2, <1>5 DEF Numbers!ChangePrefix
<1>6. ASSUME NEW d \in Tills, Numbers!Register(d) \/ Numbers!PrintNumber(d) PROVE PapersSound'
  BY <1>2, <1>6 DEF Numbers!Register, Numbers!PrintNumber
<1>7. CASE Numbers!NewYear
  BY <1>2, <1>7 DEF Numbers!NewYear
<1> QED BY <1>1, <1>3, <1>4, <1>5, <1>6, <1>7 DEF Numbers!Next

-----------------------------------------------------------------------------
\* What a device may print, or has printed, stays covered: a series moves on by one paper
\* at a time, or by the paper a device pushes.
LEMMA IssueCovers ==
  ASSUME Numbers!NumberingShape, Numbers!TypeOK, Short(prefix), NEW type \in Numbers!Types,
         NEW y \in Years, Numbers!Issue(type, y),
         NEW d \in Tills, NEW k \in Years, NEW n \in Nat, Covered(d, k, n)
  PROVE  Covered(d, k, n)'
<1>1. PICK number :
         /\ number = Numbers!Form(type, Numbers!PrefixFor(type), y, 0, sequence[type][Numbers!ScopeOf(type, y)] + 1)
         /\ number.sequence = sequence[type][Numbers!ScopeOf(type, y)] + 1
         /\ number.prefix = Numbers!PrefixFor(type)
         /\ \/ UNCHANGED <<sequence, papers>> /\ Numbers!TooLong(number)
            \/ /\ sequence' = [sequence EXCEPT ![type][Numbers!ScopeOf(type, y)] = number.sequence]
               /\ \/ Numbers!TooLong(number) /\ UNCHANGED papers
                  \/ /\ ~Numbers!TooLong(number)
                     /\ papers' = papers \cup {Numbers!Paper(numbered + 1, type, y, 1, number)}
  BY IssueMoves
<1>2. papers \subseteq papers' /\ UNCHANGED counters
  BY <1>1 DEF Numbers!Issue
<1>3. CASE Numbers!Current(d, k)' = Numbers!Current(d, k)
  BY <1>2, <1>3 DEF Covered
<1>4. CASE Numbers!Current(d, k)' # Numbers!Current(d, k)
  <2>1. d = 1 /\ sequence'["invoice"][k] # sequence["invoice"][k] /\ "invoice" \in Numbers!Types
    BY <1>2, <1>4 DEF Numbers!Current, Numbers!Types
  <2>2. sequence' = [sequence EXCEPT ![type][Numbers!ScopeOf(type, y)] = number.sequence]
    BY <1>1, <2>1
  <2>3. type = "invoice" /\ Numbers!ScopeOf(type, y) = k
    BY <2>1, <2>2 DEF Numbers!TypeOK
  <2>4. y = k
    BY <2>3 DEF Numbers!ScopeOf
  <2>5. Numbers!Current(d, k) \in Nat /\ Numbers!Current(d, k)' = Numbers!Current(d, k) + 1
        /\ number.sequence = Numbers!Current(d, k) + 1 /\ number.prefix = prefix
    BY <1>1, <2>1, <2>2, <2>3, CurrentType, ScopeType, Zenon DEF Numbers!Current, Numbers!TypeOK
  <2>6. CASE n = number.sequence /\ Numbers!TooLong(number)
    <3>1. Numbers!Digits(n) # 4
      BY <2>5, <2>6, ShortFits DEF Numbers!TypeOK
    <3> QED BY <3>1 DEF Covered
  <2>7. CASE n = number.sequence /\ ~Numbers!TooLong(number)
    <3>1. PICK z : z = Numbers!Paper(numbered + 1, type, y, 1, number) /\ papers' = papers \cup {z}
      BY <1>1, <2>7
    <3>2. z.type = "invoice" /\ z.device = d /\ z.year = k /\ z.number.sequence >= n
      BY <2>1, <2>3, <2>4, <2>7, <3>1 DEF Numbers!Paper
    <3> QED BY <3>1, <3>2 DEF Covered
  <2>8. CASE n # number.sequence
    BY <1>2, <2>5, <2>8 DEF Covered
  <2> QED BY <2>6, <2>7, <2>8
<1> QED BY <1>3, <1>4

LEMMA PushCovers ==
  ASSUME Numbers!NumberingShape, Numbers!TypeOK, NEW sale, Numbers!Push(sale),
         Numbers!Fits(sale), SaleSound(sale),
         NEW d \in Tills, NEW k \in Years, NEW n \in Nat, Covered(d, k, n)
  PROVE  Covered(d, k, n)'
<1> DEFINE m == sale.number.sequence
<1>1. /\ m \in Nat /\ m > Numbers!Current(sale.device, sale.year)
      /\ papers' = papers \cup {Numbers!Paper(sale.id, "invoice", sale.year, sale.device, sale.number)}
      /\ sale.device = 1 => sequence' = [sequence EXCEPT !["invoice"][sale.year] = m]
                            /\ UNCHANGED counters
      /\ sale.device # 1 => counters' = [counters EXCEPT ![sale.device][sale.year] = m]
                            /\ UNCHANGED sequence
  BY PushMoves
<1>2. sale.device \in Tills /\ sale.year \in Years /\ "invoice" \in Numbers!Types
  BY DEF SaleSound, Numbers!Types
<1>3. Numbers!Current(d, k)' = Numbers!Current(d, k) \/ (d = sale.device /\ k = sale.year /\ Numbers!Current(d, k)' = m)
  BY <1>1, <1>2 DEF Numbers!Current, Numbers!TypeOK
<1>4. CASE Numbers!Current(d, k)' = Numbers!Current(d, k)
  BY <1>1, <1>4 DEF Covered
<1>5. CASE d = sale.device /\ k = sale.year /\ Numbers!Current(d, k)' = m
  <2>1. CASE n > m
    BY <1>5, <2>1 DEF Covered
  <2>2. CASE ~(n > m)
    <3>1. PICK z : /\ z = Numbers!Paper(sale.id, "invoice", sale.year, sale.device, sale.number)
                   /\ papers' = papers \cup {z}
      BY <1>1
    <3>2. z.type = "invoice" /\ z.device = d /\ z.year = k /\ z.number.sequence >= n
      BY <1>1, <1>5, <2>2, <3>1 DEF Numbers!Paper
    <3> QED BY <3>1, <3>2 DEF Covered
  <2> QED BY <2>1, <2>2
<1> QED BY <1>3, <1>4, <1>5

\* A step that issues no paper and moves no series leaves the numbers as they were covered.
LEMMA CoverStays ==
  ASSUME UNCHANGED <<sequence, counters, papers>>, NEW d, NEW k, NEW n
  PROVE  Covered(d, k, n)' <=> Covered(d, k, n)
BY DEF Covered, Numbers!Current

LEMMA NumbersSales ==
  ASSUME Numbers!NumberingShape, NumbersInv, Numbers!Next
  PROVE  SalesSound' /\ OldPrefix'
<1> USE DEF NumbersInv
<1>0. /\ \A s \in unpushed : SaleSound(s) /\ s.number.sequence \in Nat
      /\ \A d \in Tills : series[d].year \in Years \cup {0} /\ series[d].position \in Nat
      /\ series \in [Tills -> [year : Years \cup {0}, prefix : Prefixes, position : Nat]]
      /\ year \in Years /\ prefix \in Prefixes /\ 0 \notin Years
  BY DEF SalesSound, SaleSound, WellFormed, Numbers!TypeOK, Numbers!NumberingShape
<1>1. ASSUME UNCHANGED <<unpushed, refused, series>>, UNCHANGED prefix \/ Short(prefix'),
             Short(prefix) => \A d \in Tills, k \in Years, n \in Nat :
                                Covered(d, k, n) => Covered(d, k, n)'
      PROVE  SalesSound' /\ OldPrefix'
  <2>1. OldPrefix'
    BY <1>1 DEF OldPrefix, Short
  <2>2. CASE Short(prefix)
    <3>1. \A s \in unpushed : SaleSound(s) /\ Covered(s.device, s.year, s.number.sequence)'
      BY <1>0, <1>1, <2>2 DEF SalesSound, SaleSound
    <3>2. \A d \in Tills : series[d].year # 0 /\ Short(series[d].prefix) =>
            \A n \in Nat : n > series[d].position => Covered(d, series[d].year, n)'
      BY <1>0, <1>1, <2>2 DEF SalesSound
    <3> QED BY <1>1, <2>1, <3>1, <3>2 DEF SalesSound, SaleSound, Short, Covered, Numbers!Current
  <2>3. CASE ~Short(prefix)
    BY <1>1, <2>1, <2>3 DEF OldPrefix, SalesSound, Short
  <2> QED BY <2>2, <2>3
<1>2. ASSUME NEW type \in Numbers!Types, NEW y \in Years, Numbers!Issue(type, y) PROVE SalesSound' /\ OldPrefix'
  BY <1>1, <1>2, IssueCovers DEF Numbers!Issue
<1>3. ASSUME NEW p \in Prefixes, Numbers!ChangePrefix(p) PROVE SalesSound' /\ OldPrefix'
  BY <1>1, <1>3, CoverStays DEF Numbers!ChangePrefix, Short
<1>4. CASE Numbers!NewYear
  BY <1>1, <1>4, CoverStays DEF Numbers!NewYear
<1>5. ASSUME NEW d \in Tills, Numbers!Register(d) PROVE SalesSound' /\ OldPrefix'
  <2>0. PICK p :
          /\ p = IF series[d].year = year THEN Numbers!Beyond(series[d].position, Numbers!Current(d, year))
                 ELSE Numbers!Current(d, year)
          /\ series' = [series EXCEPT ![d] = [year |-> year, prefix |-> prefix, position |-> p]]
    BY <1>5, Zenon DEF Numbers!Register
  <2>1. p \in Nat /\ p >= Numbers!Current(d, year)
        /\ series' = [series EXCEPT ![d] = [year |-> year, prefix |-> prefix, position |-> p]]
    BY <1>0, <2>0, CurrentType DEF Numbers!Beyond
  <2>2. UNCHANGED <<unpushed, refused, prefix, sequence, counters, papers>>
    BY <1>5 DEF Numbers!Register
  <2>3. \A e \in Tills : \/ e # d /\ series'[e] = series[e]
                         \/ /\ e = d /\ series'[e].year = year
                            /\ series'[e].prefix = prefix /\ series'[e].position = p
    BY <1>0, <2>1
  <2>4. ASSUME NEW e \in Tills, series'[e].year # 0, Short(series'[e].prefix),
               NEW n \in Nat, n > series'[e].position
        PROVE  Covered(e, series'[e].year, n)
    <3>1. CASE e = d
      <4>1. n > Numbers!Current(d, year)
        BY <2>1, <2>3, <2>4, <3>1, CurrentType, <1>0
      <4> QED BY <2>3, <3>1, <4>1 DEF Covered
    <3>2. CASE e # d
      BY <2>3, <2>4, <3>2 DEF SalesSound
    <3> QED BY <3>1, <3>2
  <2>5. OldPrefix'
    BY <2>2, <2>3 DEF OldPrefix, Short
  <2>6. \A e \in Tills : series'[e].year # 0 /\ Short(series'[e].prefix) =>
          \A n \in Nat : n > series'[e].position => Covered(e, series[e].year, n)'
    BY <2>2, <2>4 DEF Covered, Numbers!Current
  <2> QED BY <2>2, <2>5, <2>6 DEF SalesSound, SaleSound, Short, Covered, Numbers!Current
<1>6. ASSUME NEW d \in Tills, Numbers!PrintNumber(d) PROVE SalesSound' /\ OldPrefix'
  <2> DEFINE n == series[d].position + 1
  <2>1. PICK number :
          /\ number = Numbers!FormatFor(d, series[d].prefix, year, n) /\ ~Numbers!TooLong(number)
          /\ unpushed' = unpushed \cup {Numbers!Sale(d, number, year)}
          /\ series' = [series EXCEPT ![d].position = n]
    BY <1>6 DEF Numbers!PrintNumber
  <2>2. /\ series[d].year = year /\ series[d].prefix \in Prefixes
        /\ UNCHANGED <<refused, prefix, sequence, counters, papers>>
    BY <1>0, <1>6 DEF Numbers!PrintNumber
  <2>3. PICK z : z = Numbers!Sale(d, number, year) /\ unpushed' = unpushed \cup {z}
    BY <2>1
  <2>4. z.device = d /\ z.year = year /\ z.number = number
    BY <2>3 DEF Numbers!Sale
  <2>5. WellFormed(number, "invoice", year, d) /\ number.prefix = series[d].prefix
        /\ number.sequence = n
    <3>1. n \in Nat /\ "invoice" \in Numbers!Types
      BY <1>0 DEF Numbers!Types
    <3> QED BY <1>0, <2>1, <2>2, <3>1, FormSound DEF Numbers!FormatFor
  <2>6. number.form # "order"
    BY <2>1 DEF Numbers!FormatFor, Numbers!Form
  <2>7. Short(number.prefix)
    <3>1. LengthOf[number.prefix] \in Nat
      BY <2>2, <2>5 DEF Numbers!NumberingShape
    <3> QED BY <2>1, <2>6, <3>1
       DEF Numbers!TooLong, Numbers!LengthOfNumber, Numbers!Digits, Short,
                    Numbers!MAX_DOCUMENT_PREFIX_LENGTH, Numbers!GST_DOCUMENT_NUMBER_MAX_LENGTH
  <2>8. SaleSound(z)
    BY <1>0, <2>2, <2>4, <2>5, <2>7 DEF SaleSound
  <2>9. Covered(d, year, n)
    BY <1>0, <2>2, <2>5, <2>7 DEF SalesSound
  <2>10. \A s \in unpushed' : SaleSound(s) /\ Covered(s.device, s.year, s.number.sequence)'
    BY <1>0, <2>2, <2>3, <2>4, <2>5, <2>8, <2>9, CoverStays DEF SalesSound
  <2>11. \A e \in Tills : /\ series'[e].year = series[e].year /\ series'[e].prefix = series[e].prefix
                          /\ series'[e].position >= series[e].position
    BY <1>0, <2>1
  <2>12. ASSUME NEW e \in Tills, series'[e].year # 0, Short(series'[e].prefix),
                NEW k \in Nat, k > series'[e].position
         PROVE  Covered(e, series[e].year, k)
    <3>1. series'[e].position \in Nat /\ k > series[e].position
      BY <1>0, <2>1, <2>11, <2>12
    <3> QED BY <2>11, <2>12, <3>1 DEF SalesSound
  <2>13. \A e \in Tills : series'[e].year # 0 /\ Short(series'[e].prefix) =>
           \A k \in Nat : k > series'[e].position => Covered(e, series[e].year, k)'
    BY <2>2, <2>11, <2>12 DEF Covered, Numbers!Current
  <2>14. OldPrefix'
    BY <2>2, <2>3, <2>5, <2>7, <2>11 DEF OldPrefix, Short
  <2> QED BY <2>2, <2>10, <2>13, <2>14
     DEF SalesSound, SaleSound, Short, Covered, Numbers!Current
<1>7. ASSUME NEW sale \in unpushed, Numbers!Push(sale) PROVE SalesSound' /\ OldPrefix'
  <2>1. SaleSound(sale) /\ unpushed' \subseteq unpushed /\ UNCHANGED <<series, prefix>>
    BY <1>7 DEF SalesSound, Numbers!Push
  <2>2. ASSUME NEW d \in Tills, NEW k \in Years, NEW n \in Nat, Covered(d, k, n)
        PROVE  Covered(d, k, n)'
    <3>1. CASE Numbers!Fits(sale)
      BY <1>7, <2>1, <2>2, <3>1, PushCovers
    <3>2. CASE ~Numbers!Fits(sale)
      BY <1>7, <2>2, <3>2, CoverStays DEF Numbers!Push
    <3> QED BY <3>1, <3>2
  <2>3. \A s \in unpushed' : SaleSound(s) /\ Covered(s.device, s.year, s.number.sequence)'
    BY <1>0, <2>1, <2>2 DEF SalesSound, SaleSound
  <2>4. ASSUME NEW d \in Tills, NEW k, k = series[d].year, k # 0, Short(series[d].prefix),
               NEW n \in Nat, n > series[d].position
        PROVE  Covered(d, k, n)'
    BY <1>0, <2>2, <2>4 DEF SalesSound
  <2>5. \A d \in Tills : series'[d].year # 0 /\ Short(series'[d].prefix) =>
          \A n \in Nat : n > series'[d].position => Covered(d, series[d].year, n)'
    BY <2>1, <2>4 DEF Covered, Numbers!Current
  <2>6. \A r \in refused' : r.sale.device \in Tills /\ r.sale.year \in Years
    <3>1. PICK o : o = [sale |-> sale, prefix |-> prefix]
                   /\ refused' \subseteq refused \cup {o}
      BY <1>7, Zenon DEF Numbers!Push
    <3>2. o.sale = sale
      BY <3>1
    <3> QED BY <2>1, <3>1, <3>2 DEF SalesSound, SaleSound
  <2>7. OldPrefix'
    BY <2>1 DEF OldPrefix, Short
  <2> QED BY <2>3, <2>5, <2>6, <2>7 DEF SalesSound, SaleSound, Short, Covered, Numbers!Current
<1> QED BY <1>2, <1>3, <1>4, <1>5, <1>6, <1>7 DEF Numbers!Next

\* A sale that does not fit was covered: what it missed is a reason.
LEMMA NumbersRefused ==
  ASSUME Numbers!NumberingShape, NumbersInv, Numbers!Next
  PROVE  Numbers!RefusedOnlyForReason'
<1> USE DEF NumbersInv
<1>1. papers \subseteq papers'
  <2>1. ASSUME NEW type \in Numbers!Types, NEW y \in Years, Numbers!Issue(type, y) PROVE papers \subseteq papers'
    BY <2>1, IssueMoves
  <2>2. ASSUME NEW sale \in unpushed, Numbers!Push(sale) PROVE papers \subseteq papers'
    BY <2>2 DEF Numbers!Push
  <2> QED BY <2>1, <2>2 DEF Numbers!Next, Numbers!ChangePrefix, Numbers!NewYear,
         Numbers!Register, Numbers!PrintNumber
<1>2. CASE UNCHANGED refused
  BY <1>1, <1>2 DEF Numbers!RefusedOnlyForReason
<1>3. ASSUME NEW sale \in unpushed, Numbers!Push(sale), ~Numbers!Fits(sale) PROVE Numbers!RefusedOnlyForReason'
  <2>1. PICK o : o = [sale |-> sale, prefix |-> prefix] /\ refused' = refused \cup {o}
    BY <1>3, Zenon DEF Numbers!Push
  <2>2. o.sale = sale /\ o.prefix = prefix
    BY <2>1
  <2>3. SaleSound(sale) /\ Covered(sale.device, sale.year, sale.number.sequence)
    BY DEF SalesSound
  <2>4. \/ ~Numbers!Readable(sale.number)
        \/ sale.number # Numbers!FormatFor(sale.device, prefix, sale.year, sale.number.sequence)
        \/ ~(sale.number.sequence > Numbers!Current(sale.device, sale.year))
    BY <1>3 DEF Numbers!Fits
  <2>5. sale.number # Numbers!FormatFor(sale.device, prefix, sale.year, sale.number.sequence) =>
          sale.number.prefix # prefix
    BY <2>3 DEF SaleSound, WellFormed, Numbers!FormatFor
  <2>6. ~(sale.number.sequence > Numbers!Current(sale.device, sale.year)) =>
          \/ ~Numbers!Readable(sale.number)
          \/ \E x \in papers :
               /\ x.type = "invoice" /\ x.device = sale.device /\ x.year = sale.year
               /\ x.number.sequence >= sale.number.sequence
    BY <2>3 DEF Covered, Numbers!Readable
  <2> QED BY <1>1, <2>1, <2>2, <2>4, <2>5, <2>6 DEF Numbers!RefusedOnlyForReason
<1>4. CASE ~UNCHANGED refused
  <2>1. \E sale \in unpushed : Numbers!Push(sale) /\ ~Numbers!Fits(sale)
    BY <1>4 DEF Numbers!Next, Numbers!Issue, Numbers!ChangePrefix, Numbers!NewYear,
           Numbers!Register, Numbers!PrintNumber, Numbers!Push
  <2> QED BY <1>3, <2>1
<1> QED BY <1>2, <1>4

LEMMA NumbersStep ==
  ASSUME Numbers!NumberingShape, NumbersInv, [Numbers!Next]_(Numbers!vars)
  PROVE  NumbersInv'
<1>1. CASE UNCHANGED Numbers!vars
  BY <1>1, Zenon
     DEF Numbers!vars, NumbersInv, Numbers!TypeOK, PapersSound, PaperSound, PaperPlace,
         SamePlace, SalesSound,
              SaleSound, Covered, Numbers!Current, OldPrefix, Short, Numbers!RefusedOnlyForReason
<1>2. CASE Numbers!Next
  BY <1>2, NumbersType, NumbersPapers, NumbersSales, NumbersRefused DEF NumbersInv
<1> QED BY <1>1, <1>2

\* Papers of one number have one year and one segment, so one device and one place.
LEMMA NumbersGives ==
  ASSUME Numbers!NumberingShape, NumbersInv
  PROVE  Numbers!NumbersExact
<1> USE DEF NumbersInv
<1>1. ASSUME NEW x \in papers, NEW y \in papers, x.number = y.number, x # y
      PROVE  x.type # y.type /\ x.number.prefix = "CN"
  <2>1. PaperSound(x) /\ PaperSound(y) /\ (SamePlace(x, y) => x = y)
    BY DEF PapersSound
  <2>2. x.number.year = Numbers!ScopeOf(x.type, x.year)
        /\ y.number.year = Numbers!ScopeOf(y.type, y.year)
        /\ x.number.segment = Numbers!Segment(x.device) /\ y.number.segment = Numbers!Segment(y.device)
        /\ (x.number.form = "order" <=> x.type = "order")
        /\ (y.number.form = "order" <=> y.type = "order")
    BY <2>1 DEF PaperSound, WellFormed, Numbers!Form
  <2>3. x.device = y.device
    BY <1>1, <2>1, <2>2 DEF PaperSound, Numbers!Segment, Numbers!NumberingShape
  <2>4. x.type # y.type
    BY <1>1, <2>1, <2>2, <2>3 DEF SamePlace
  <2>5. x.type = "credit_note" \/ y.type = "credit_note"
    BY <1>1, <2>1, <2>2, <2>4 DEF PaperSound, Numbers!Types
  <2> QED BY <1>1, <2>1, <2>4, <2>5 DEF PaperSound
<1>2. ASSUME NEW x \in papers, x.type # "order"
      PROVE  Numbers!LengthOfNumber(x.number) <= Numbers!GST_DOCUMENT_NUMBER_MAX_LENGTH
  <2>1. PaperSound(x) /\ x.number.form # "order" /\ ~Numbers!TooLong(x.number)
    BY <1>2 DEF PapersSound, PaperSound, WellFormed, Numbers!Form
  <2>2. LengthOf[x.number.prefix] \in Nat
    BY <2>1 DEF PaperSound, WellFormed, Numbers!NumberingShape
  <2> QED BY <2>1, <2>2 DEF Numbers!TooLong, Numbers!LengthOfNumber, Numbers!Digits,
         Numbers!GST_DOCUMENT_NUMBER_MAX_LENGTH
<1>3. Numbers!NumbersUnique
  BY <1>1, <1>2 DEF Numbers!NumbersUnique, PapersSound, SamePlace
<1> QED BY <1>3 DEF Numbers!NumbersExact

\* That part runs by itself.
LEMMA SeriesRuns ==
  ASSUME [Next]_vars, part' = "series"
  PROVE  part = "series" /\ [Series!Next]_(Series!vars)
<1>1. CASE UNCHANGED vars
  <2>1. part' = part /\ seriesVars' = seriesVars
    BY <1>1 DEF vars
  <2> QED BY <2>1 DEF seriesVars, Series!vars
<1>2. CASE Next
  BY <1>2 DEF Next, Only
<1> QED BY <1>1, <1>2

\* That part runs by itself.
LEMMA NumbersRuns ==
  ASSUME [Next]_vars, part' = "numbers"
  PROVE  part = "numbers" /\ [Numbers!Next]_(Numbers!vars)
<1>1. CASE UNCHANGED vars
  <2>1. part' = part /\ numberVars' = numberVars
    BY <1>1 DEF vars
  <2> QED BY <2>1 DEF numberVars, Numbers!vars
<1>2. CASE Next
  BY <1>2 DEF Next, Only
<1> QED BY <1>1, <1>2

\* A registration is refused only when others landed, an invoice is refused its number only for
\* a reason, and no number is on two papers, for any number of tills, years and prefixes
\* (deviceService.js, numberingService.js).
THEOREM NumbersExactAlways == Spec => []NumbersExact
<1> DEFINE I == /\ part = "series" => SeriesInv
                /\ part = "numbers" => NumbersInv
<1>1. Init => I
  BY SeriesInit, NumbersInit, ProtocolShape DEF Init
<1>2. I /\ [Next]_vars => I'
  <2> SUFFICES ASSUME I, [Next]_vars PROVE I'
    OBVIOUS
  <2>1. part' = "series" => SeriesInv'
    <3> SUFFICES ASSUME part' = "series" PROVE SeriesInv'
      OBVIOUS
    <3>1. part = "series" /\ [Series!Next]_(Series!vars)
      BY SeriesRuns
    <3> QED BY <3>1, SeriesStep, ProtocolShape
  <2>2. part' = "numbers" => NumbersInv'
    <3> SUFFICES ASSUME part' = "numbers" PROVE NumbersInv'
      OBVIOUS
    <3>1. part = "numbers" /\ [Numbers!Next]_(Numbers!vars)
      BY NumbersRuns
    <3> QED BY <3>1, NumbersStep, ProtocolShape
  <2> QED BY <2>1, <2>2
<1>3. I => NumbersExact
  BY SeriesGives, NumbersGives, ProtocolShape DEF NumbersExact, SeriesInv, NumbersInv
<1> QED BY <1>1, <1>2, <1>3, PTL DEF Spec

-----------------------------------------------------------------------------
\* The rows of a sale, its requests past the claim, and whether its key may be claimed.
KeyRows == [status : {"none", "processing", "completed", "failed"}, lock : Nat, stale : BOOLEAN,
         result : Nat]
Batches == [pc : {"idle", "match", "guard", "key", "reclaim", "handle", "finish", "stamp", "burn", "reply"},
            batch : Seq(Sales), doc : Nat, lock : Nat,
            told : SUBSET (Sales \X {"ok", "refused", "again"})]
RowOf(o, n) == [sale |-> o, number |-> n]
DocsOf(o) == {d \in docs : d.sale = o}
Handling(o) == {s \in Requests : slot[s].pc = "handle" /\ Head(slot[s].batch) = o}
Spare(k) == IF \/ k.status \in {"none", "failed"}
               \/ k.status = "processing" /\ k.stale
            THEN 1 ELSE 0

\* What a request knows, of the documents, the stamps, the kinds and the keys as they are.
OnRecord(o, rows, marks, kinds) ==
  marks[o] # 0 \/ (kinds[o] = "web" /\ \E d \in rows : d.sale = o)
Claimable(q, k) ==
  /\ k.status # "none" /\ q.lock <= k.lock
  /\ k.lock = q.lock /\ k.status = "processing" => k.stale
Pushing(q, rows, marks, kinds, keys) ==
  /\ q.pc \in {"idle", "reply"} <=> q.batch = <<>>
  /\ \A i \in 1..Len(q.batch) : kinds[q.batch[i]] # "none"
  /\ q.pc \in {"finish", "stamp"} => RowOf(Head(q.batch), q.doc) \in rows
  /\ q.pc = "burn" => marks[Head(q.batch)] # 0
  /\ q.pc = "reclaim" => Claimable(q, keys[Head(q.batch)])
  /\ \A o \in Sales : <<o, "ok">> \in q.told => OnRecord(o, rows, marks, kinds)

PushTypes ==
  /\ counter \in Nat /\ local \in Nat /\ docs \subseteq [sale : Sales, number : Nat \ {0}]
  /\ stamped \in [Sales -> Nat] /\ key \in [Sales -> KeyRows]
  /\ kind \in [Sales -> {"none", "printed", "plain", "web"}] /\ printed \in [Sales -> Nat]
  /\ answer \in [Sales -> {"none", "ok", "refused"}] /\ slot \in [Requests -> Batches]
  /\ runs \in [Sales -> Nat]
DocsSound ==
  /\ \A d, e \in docs : d.number = e.number => d = e
  /\ \A d \in docs : kind[d.sale] # "none" /\ printed[d.sale] \in {0, d.number}
  /\ \A o \in Sales : kind[o] = "printed" <=> printed[o] # 0
SalesHeld ==
  \A o \in Sales :
    /\ stamped[o] # 0 => RowOf(o, stamped[o]) \in docs /\ (SalesPush!Covered(o) \/ SalesPush!Burning(o) \/ o \in cut)
    /\ key[o].result # 0 => RowOf(o, key[o].result) \in docs
    /\ key[o].status = "none" => ~key[o].stale
    /\ answer[o] = "ok" => OnRecord(o, docs, stamped, kind)
PushesSound == \A s \in Requests : Pushing(slot[s], docs, stamped, kind, key)
ClaimsCounted ==
  /\ IsFiniteSet(docs)
  /\ \A o \in Sales : Cardinality(DocsOf(o)) + Cardinality(Handling(o)) + Spare(key[o]) <= 1 + runs[o]
\* Safe, and its strengthening.
PushInv == PushTypes /\ DocsSound /\ SalesHeld /\ PushesSound /\ ClaimsCounted

\* Sets are counted in the module as they are here.
LEMMA PushCounted == \A S : SalesPush!Cardinality(S) = Cardinality(S)
BY DEF SalesPush!Cardinality, Cardinality

LEMMA PushFinite == ASSUME SalesPush!PushShape PROVE IsFiniteSet(Sales) /\ IsFiniteSet(Requests)
BY DEF SalesPush!PushShape, SalesPush!IsFiniteSet, IsFiniteSet

LEMMA PushInit == ASSUME SalesPush!PushShape, SalesPush!Init PROVE PushInv
<1>1. SalesPush!Idle \in Batches /\ SalesPush!Unclaimed \in KeyRows /\ <<>> \in Seq(Sales)
      /\ 0 \in Nat
  <2>1. <<>> \in Seq(Sales) /\ 0 \in Nat /\ {} \in SUBSET (Sales \X {"ok", "refused", "again"})
    OBVIOUS
  <2> QED BY <2>1 DEF SalesPush!Idle, SalesPush!Unclaimed, Batches, KeyRows
<1>2. PushTypes
  BY <1>1 DEF PushTypes, SalesPush!Init
<1>3. DocsSound
  BY DEF DocsSound, SalesPush!Init
<1>4. SalesHeld
  BY DEF SalesHeld, SalesPush!Init, SalesPush!Unclaimed
<1>5. PushesSound
  BY DEF PushesSound, Pushing, SalesPush!Init, SalesPush!Idle
<1>6. ClaimsCounted
  <2>1. IsFiniteSet(docs) /\ \A o \in Sales : DocsOf(o) = {} /\ Handling(o) = {}
    BY FS_EmptySet DEF SalesPush!Init, DocsOf, Handling, SalesPush!Idle
  <2>2. \A o \in Sales : Spare(key[o]) = 1 /\ runs[o] = 0
    BY DEF SalesPush!Init, Spare, SalesPush!Unclaimed
  <2>3. Cardinality({}) = 0
    BY FS_EmptySet
  <2> QED BY <2>1, <2>2, <2>3 DEF ClaimsCounted
<1> QED BY <1>2, <1>3, <1>4, <1>5, <1>6 DEF PushInv

LEMMA PushSets ==
  ASSUME SalesPush!PushShape, PushInv, NEW o \in Sales
  PROVE  /\ IsFiniteSet(DocsOf(o)) /\ IsFiniteSet(Handling(o)) /\ Spare(key[o]) \in {0, 1}
         /\ Cardinality(DocsOf(o)) \in Nat /\ Cardinality(Handling(o)) \in Nat
<1>1. DocsOf(o) \subseteq docs /\ Handling(o) \subseteq Requests /\ IsFiniteSet(docs)
      /\ IsFiniteSet(Requests)
  BY PushFinite DEF DocsOf, Handling, PushInv, ClaimsCounted
<1>2. IsFiniteSet(DocsOf(o)) /\ IsFiniteSet(Handling(o))
  BY <1>1, FS_Subset
<1> QED BY <1>2, FS_CardinalityType DEF Spare

LEMMA PushGives ==
  ASSUME SalesPush!PushShape, PushInv
  PROVE  SalesPush!TypeOK /\ SalesPush!OneDocumentPerClaim /\ SalesPush!AcknowledgedIsWritten /\ SalesPush!NumberBurned
<1>1. SalesPush!TypeOK
  <2>1. stamped \in [Sales -> SalesPush!Used \cup {0}]
    <3>1. \A o \in Sales : stamped[o] # 0 => stamped[o] \in SalesPush!Used
      <4> SUFFICES ASSUME NEW o \in Sales, stamped[o] # 0 PROVE stamped[o] \in SalesPush!Used
        OBVIOUS
      <4>1. PICK d \in docs : d = RowOf(o, stamped[o])
        BY DEF PushInv, SalesHeld
      <4>2. d.number = stamped[o]
        BY <4>1 DEF RowOf
      <4> QED BY <4>2 DEF SalesPush!Used
    <3> QED BY <3>1 DEF PushInv, PushTypes
  <2>2. key \in [Sales -> [status : {"none", "processing", "completed", "failed"},
                           lock : Nat, stale : BOOLEAN, result : Nat]]
    BY DEF PushInv, PushTypes, KeyRows
  <2>3. \A s \in Requests : /\ slot[s].pc \in {"idle", "match", "guard", "key", "reclaim", "handle",
                                              "finish", "stamp", "burn", "reply"}
                            /\ slot[s].pc \in {"idle", "reply"} <=> slot[s].batch = <<>>
    BY DEF PushInv, PushTypes, PushesSound, Pushing, Batches
  <2> QED BY <2>1, <2>2, <2>3 DEF PushInv, PushTypes, DocsSound, SalesPush!TypeOK
<1>2. SalesPush!OneDocumentPerClaim
  <2> SUFFICES ASSUME NEW o \in Sales PROVE Cardinality({d \in docs : d.sale = o}) <= 1 + runs[o]
    BY PushCounted DEF SalesPush!OneDocumentPerClaim
  <2>1. PICK a, b, c \in Nat : a = Cardinality(DocsOf(o)) /\ b = Cardinality(Handling(o)) /\ c = Spare(key[o])
    BY PushSets
  <2>2. a + b + c <= 1 + runs[o] /\ runs[o] \in Nat
    BY <2>1 DEF PushInv, PushTypes, ClaimsCounted
  <2> QED BY <2>1, <2>2 DEF DocsOf
<1>3. SalesPush!AcknowledgedIsWritten
  <2> SUFFICES ASSUME NEW o \in Sales, answer[o] = "ok"
               PROVE  \E d \in docs : /\ d.sale = o
                                      /\ kind[o] # "web" => stamped[o] = d.number
                                      /\ kind[o] = "printed" => d.number = printed[o]
    BY DEF SalesPush!AcknowledgedIsWritten
  <2>1. CASE stamped[o] # 0
    <3>1. PICK d \in docs : d = RowOf(o, stamped[o])
      BY <2>1 DEF PushInv, SalesHeld
    <3>2. d.sale = o /\ d.number = stamped[o]
      BY <3>1 DEF RowOf
    <3>3. kind[o] = "printed" => d.number = printed[o]
      BY <3>2 DEF PushInv, DocsSound
    <3> QED BY <3>2, <3>3
  <2>2. CASE kind[o] = "web" /\ \E d \in docs : d.sale = o
    BY <2>2
  <2> QED BY <2>1, <2>2 DEF PushInv, SalesHeld, OnRecord
<1>4. SalesPush!NumberBurned
  <2> SUFFICES ASSUME NEW o \in Sales, answer[o] = "ok"
               PROVE  SalesPush!Covered(o) \/ SalesPush!Burning(o) \/ o \in cut
    BY DEF SalesPush!NumberBurned
  <2>1. CASE stamped[o] # 0
    BY <2>1 DEF PushInv, SalesHeld
  <2>2. CASE kind[o] = "web"
    BY <2>2 DEF PushInv, DocsSound, SalesPush!Covered
  <2> QED BY <2>1, <2>2 DEF PushInv, SalesHeld, OnRecord
<1> QED BY <1>1, <1>2, <1>3, <1>4

\* A key's row moves: its lock grows, or it is claimable no sooner.
KeyMoves(k, l) ==
  \/ k.status = "none" /\ (l = k \/ l.status # "none")
  \/ /\ l.status # "none"
     /\ \/ l.lock > k.lock
        \/ /\ l.lock = k.lock /\ (k.stale => l.stale)
           /\ l.status = "processing" => k.status = "processing"

\* Documents are added, stamps and kinds are written for good, and keys move.
Grows(rows, marks, kinds, keys, rows1, marks1, kinds1, keys1) ==
  /\ rows \subseteq rows1
  /\ \A o \in Sales : marks[o] # 0 => marks1[o] # 0
  /\ \A o \in Sales : kinds[o] # "none" => kinds1[o] = kinds[o]
  /\ keys \in [Sales -> KeyRows] /\ keys1 \in [Sales -> KeyRows]
  /\ \A o \in Sales : KeyMoves(keys[o], keys1[o])

\* What a request knows stays true of what the other steps write.
LEMMA PushingKept ==
  ASSUME NEW q \in Batches, NEW rows, NEW marks, NEW kinds, NEW keys,
         NEW rows1, NEW marks1, NEW kinds1, NEW keys1,
         Grows(rows, marks, kinds, keys, rows1, marks1, kinds1, keys1),
         Pushing(q, rows, marks, kinds, keys)
  PROVE  Pushing(q, rows1, marks1, kinds1, keys1)
<1>1. q.batch \in Seq(Sales) /\ q.lock \in Nat /\ \A i \in 1..Len(q.batch) : q.batch[i] \in Sales
  BY DEF Batches
<1>2. q.batch # <<>> => Head(q.batch) \in Sales
  BY <1>1
<1>3. ASSUME NEW o \in Sales, OnRecord(o, rows, marks, kinds)
      PROVE  OnRecord(o, rows1, marks1, kinds1)
  BY <1>3 DEF OnRecord, Grows
<1>4. \A i \in 1..Len(q.batch) : kinds1[q.batch[i]] # "none"
  BY <1>1 DEF Pushing, Grows
<1>5. ASSUME q.pc = "reclaim" PROVE Claimable(q, keys1[Head(q.batch)])
  <2>1. PICK o \in Sales : o = Head(q.batch)
    BY <1>2, <1>5 DEF Pushing
  <2>2. PICK k \in KeyRows, l \in KeyRows : k = keys[o] /\ l = keys1[o] /\ KeyMoves(k, l) /\ Claimable(q, k)
    BY <1>5, <2>1 DEF Pushing, Grows
  <2>3. k.lock \in Nat /\ l.lock \in Nat
    BY DEF KeyRows
  <2>4. Claimable(q, l)
    BY <1>1, <2>2, <2>3 DEF KeyMoves, Claimable
  <2> QED BY <2>1, <2>2, <2>4
<1>6. q.pc = "burn" => marks1[Head(q.batch)] # 0
  BY <1>2 DEF Pushing, Grows
<1>7. q.pc \in {"finish", "stamp"} => RowOf(Head(q.batch), q.doc) \in rows1
  BY DEF Pushing, Grows
<1> QED BY <1>3, <1>4, <1>5, <1>6, <1>7 DEF Pushing

\* A request goes on to another step, beside what the step writes.
LEMMA PushGoesOn ==
  ASSUME SalesPush!PushShape, PushInv, NEW s \in Requests, NEW r \in Batches,
         slot' = [slot EXCEPT ![s] = r],
         Grows(docs, stamped, kind, key, docs', stamped', kind', key'),
         Pushing(r, docs', stamped', kind', key')
  PROVE  /\ slot' \in [Requests -> Batches] /\ PushesSound'
         /\ \A o \in Sales : SalesPush!Burning(o) /\ (slot[s].pc # "burn" \/ SalesPush!Sale(s) # o) => SalesPush!Burning(o)'
         /\ \A o \in Sales :
              /\ Handling(o)' \subseteq Handling(o) \cup {s}
              /\ (r.pc # "handle" \/ Head(r.batch) # o) => Handling(o)' = Handling(o) \ {s}
<1>1. slot \in [Requests -> Batches] /\ slot'[s] = r
      /\ \A z \in Requests \ {s} : slot'[z] = slot[z]
  BY DEF PushInv, PushTypes
<1>2. ASSUME NEW z \in Requests PROVE Pushing(slot'[z], docs', stamped', kind', key')
  <2>1. CASE z = s
    BY <1>1, <2>1
  <2>2. CASE z # s
    <3>1. PICK q \in Batches : q = slot[z] /\ q = slot'[z]
      BY <1>1, <2>2
    <3>2. Pushing(q, docs, stamped, kind, key)
      BY <3>1, Zenon DEF PushInv, PushesSound
    <3>3. Pushing(q, docs', stamped', kind', key')
      BY <3>2, PushingKept, Zenon
    <3> QED BY <3>1, <3>3
  <2> QED BY <2>1, <2>2
<1>3. PushesSound'
  BY <1>2 DEF PushesSound
<1>4. \A o \in Sales : SalesPush!Burning(o) /\ (slot[s].pc # "burn" \/ SalesPush!Sale(s) # o) => SalesPush!Burning(o)'
  BY <1>1 DEF SalesPush!Burning, SalesPush!At, SalesPush!Sale
<1>5. ASSUME NEW o \in Sales
      PROVE  /\ Handling(o)' \subseteq Handling(o) \cup {s}
             /\ (r.pc # "handle" \/ Head(r.batch) # o) => Handling(o)' = Handling(o) \ {s}
  BY <1>1 DEF Handling
<1> QED BY <1>1, <1>3, <1>4, <1>5

\* What one step may do to a sale's documents D, its requests past the claim H, the claim c
\* its key allows, and the claims n that are due to it.
ClaimsBalanced(D, H, c, n, d, s, D1, H1, c1, n1) ==
  \/ D1 = D /\ H1 \subseteq H /\ c1 <= c /\ n1 = n
  \/ D1 = D /\ H1 \subseteq H \cup {s} /\ c = 1 /\ c1 = 0 /\ n1 = n
  \/ D1 = D \cup {d} /\ s \in H /\ H1 = H \ {s} /\ c1 = c /\ n1 = n
  \/ D1 = D /\ s \in H /\ H1 = H \ {s} /\ n1 = n
  \/ D1 = D /\ H1 = H /\ n1 = n + 1

LEMMA OneMoreRow ==
  ASSUME NEW S, IsFiniteSet(S), NEW x, NEW a \in Nat, a = Cardinality(S)
  PROVE  \E b \in Nat : b = Cardinality(S \cup {x}) /\ b <= a + 1 /\ IsFiniteSet(S \cup {x})
<1>1. CASE x \in S
  <2>1. S \cup {x} = S
    BY <1>1
  <2> QED BY <2>1
<1>2. CASE x \notin S
  <2>1. Cardinality(S \cup {x}) = a + 1 /\ IsFiniteSet(S \cup {x})
    BY <1>2, FS_AddElement
  <2> QED BY <2>1
<1> QED BY <1>1, <1>2

LEMMA ClaimsBalance ==
  ASSUME NEW D, NEW H, IsFiniteSet(D), IsFiniteSet(H), NEW c \in {0, 1}, NEW n \in Nat,
         Cardinality(D) + Cardinality(H) + c <= n, NEW d, NEW s,
         NEW D1, NEW H1, NEW c1 \in {0, 1}, NEW n1, ClaimsBalanced(D, H, c, n, d, s, D1, H1, c1, n1)
  PROVE  Cardinality(D1) + Cardinality(H1) + c1 <= n1
<1>1. PICK a \in Nat, b \in Nat : a = Cardinality(D) /\ b = Cardinality(H)
  BY FS_CardinalityType
<1>2. a + b + c <= n
  BY <1>1
<1>3. CASE D1 = D /\ H1 \subseteq H /\ c1 <= c /\ n1 = n
  <2>1. PICK h \in Nat : h = Cardinality(H1) /\ h <= b
    BY <1>1, <1>3, FS_Subset, FS_CardinalityType, Zenon
  <2>2. a + h + c1 <= n
    BY <1>2, <1>3, <2>1
  <2> QED BY <1>1, <1>3, <2>1, <2>2
<1>4. CASE D1 = D /\ H1 \subseteq H \cup {s} /\ c = 1 /\ c1 = 0 /\ n1 = n
  <2>1. PICK m \in Nat : m = Cardinality(H \cup {s}) /\ m <= b + 1 /\ IsFiniteSet(H \cup {s})
    BY <1>1, OneMoreRow, Zenon
  <2>2. PICK h \in Nat : h = Cardinality(H1) /\ h <= m
    BY <1>4, <2>1, FS_Subset, FS_CardinalityType
  <2>3. a + h + c1 <= n
    BY <1>2, <1>4, <2>1, <2>2
  <2> QED BY <1>1, <1>4, <2>2, <2>3
<1>5. CASE s \in H /\ H1 = H \ {s} /\ n1 = n /\ (D1 = D \/ (D1 = D \cup {d} /\ c1 = c))
  <2>1. Cardinality(H1) = b - 1
    BY <1>1, <1>5, FS_RemoveElement, Zenon
  <2>2. CASE D1 = D
    <3>1. a + (b - 1) + c1 <= n
      BY <1>2
    <3> QED BY <1>1, <1>5, <2>1, <2>2, <3>1
  <2>3. CASE D1 = D \cup {d} /\ c1 = c
    <3>1. PICK m \in Nat : m = Cardinality(D \cup {d}) /\ m <= a + 1
      BY <1>1, OneMoreRow, Zenon
    <3>2. m + (b - 1) + c1 <= n
      BY <1>2, <2>3, <3>1
    <3> QED BY <1>5, <2>1, <2>3, <3>1, <3>2
  <2> QED BY <1>5, <2>2, <2>3
<1>6. CASE D1 = D /\ H1 = H /\ n1 = n + 1
  <2>1. a + b + c1 <= n1
    BY <1>2, <1>6
  <2> QED BY <1>1, <1>6, <2>1
<1>7. \/ D1 = D /\ H1 \subseteq H /\ c1 <= c /\ n1 = n
      \/ D1 = D /\ H1 \subseteq H \cup {s} /\ c = 1 /\ c1 = 0 /\ n1 = n
      \/ s \in H /\ H1 = H \ {s} /\ n1 = n /\ (D1 = D \/ (D1 = D \cup {d} /\ c1 = c))
      \/ D1 = D /\ H1 = H /\ n1 = n + 1
  BY Zenon DEF ClaimsBalanced
<1> QED BY <1>3, <1>4, <1>5, <1>6, <1>7, Zenon

LEMMA ClaimsNext ==
  ASSUME SalesPush!PushShape, PushInv, IsFiniteSet(docs'), runs' \in [Sales -> Nat], NEW d, NEW s,
         \A o \in Sales : ClaimsBalanced(DocsOf(o), Handling(o), Spare(key[o]), 1 + runs[o], d, s,
                                   DocsOf(o)', Handling(o)', Spare(key'[o]), 1 + runs'[o])
  PROVE  ClaimsCounted'
<1> SUFFICES ASSUME NEW o \in Sales
             PROVE  Cardinality(DocsOf(o)') + Cardinality(Handling(o)') + Spare(key'[o]) <= 1 + runs'[o]
  BY DEF ClaimsCounted
<1>1. PICK D, H : D = DocsOf(o) /\ H = Handling(o)
  OBVIOUS
<1>2. PICK D1, H1 : D1 = DocsOf(o)' /\ H1 = Handling(o)'
  OBVIOUS
<1>3. PICK c \in {0, 1}, c1 \in {0, 1} : c = Spare(key[o]) /\ c1 = Spare(key'[o])
  BY DEF Spare
<1>4. PICK n \in Nat, n1 \in Nat : n = 1 + runs[o] /\ n1 = 1 + runs'[o]
  BY DEF PushInv, PushTypes
<1>5. IsFiniteSet(D) /\ IsFiniteSet(H)
  BY <1>1, PushSets
<1>6. Cardinality(D) + Cardinality(H) + c <= n
  BY <1>1, <1>3, <1>4 DEF PushInv, ClaimsCounted
<1>7. ClaimsBalanced(D, H, c, n, d, s, D1, H1, c1, n1)
  BY <1>1, <1>2, <1>3, <1>4
<1>8. Cardinality(D1) + Cardinality(H1) + c1 <= n1
  BY <1>5, <1>6, <1>7, ClaimsBalance, Zenon
<1> QED BY <1>2, <1>3, <1>4, <1>8

\* What a request that goes from q to r owes a sale whose key goes from k to l.
Accounted(q, r, o, k, l) ==
  \/ (r.pc # "handle" \/ Head(r.batch) # o) /\ Spare(l) <= Spare(k)
  \/ Spare(k) = 1 /\ Spare(l) = 0
  \/ r.pc # "handle" /\ q.pc = "handle" /\ Head(q.batch) = o

\* Only a request and the keys moved, and it was not about to burn a number.
LEMMA OnlyMoved ==
  ASSUME SalesPush!PushShape, PushInv, NEW s \in Requests, NEW r \in Batches,
         slot' = [slot EXCEPT ![s] = r],
         slot[s].pc # "burn", Pushing(r, docs, stamped, kind, key),
         key' \in [Sales -> KeyRows], \A o \in Sales : KeyMoves(key[o], key'[o]),
         \A o \in Sales : key'[o].result # 0 => RowOf(o, key'[o].result) \in docs,
         \A o \in Sales : Accounted(slot[s], r, o, key[o], key'[o]),
         UNCHANGED <<counter, docs, stamped, local, kind, printed, answer, runs, cut>>
  PROVE  PushInv'
<1>1. Grows(docs, stamped, kind, key, docs', stamped', kind', key')
  BY DEF Grows, PushInv, PushTypes
<1>2. Pushing(r, docs', stamped', kind', key')
  BY <1>1, PushingKept, Zenon
<1>3. /\ slot' \in [Requests -> Batches] /\ PushesSound' /\ \A o \in Sales : SalesPush!Burning(o) => SalesPush!Burning(o)'
      /\ \A o \in Sales :
           /\ Handling(o)' \subseteq Handling(o) \cup {s}
           /\ (r.pc # "handle" \/ Head(r.batch) # o) => Handling(o)' = Handling(o) \ {s}
  BY <1>1, <1>2, PushGoesOn, Zenon
<1>4. ClaimsCounted'
  <2>1. ASSUME NEW o \in Sales
        PROVE  ClaimsBalanced(DocsOf(o), Handling(o), Spare(key[o]), 1 + runs[o], s, s,
                        DocsOf(o)', Handling(o)', Spare(key'[o]), 1 + runs'[o])
    <3>1. DocsOf(o)' = DocsOf(o) /\ runs'[o] = runs[o]
      BY DEF DocsOf
    <3>2. s \in Handling(o) <=> slot[s].pc = "handle" /\ Head(slot[s].batch) = o
      BY DEF Handling
    <3>3. Accounted(slot[s], r, o, key[o], key'[o])
      OBVIOUS
    <3> QED BY <1>3, <3>1, <3>2, <3>3 DEF Accounted, ClaimsBalanced
  <2>2. IsFiniteSet(docs') /\ runs' \in [Sales -> Nat]
    BY DEF PushInv, PushTypes, ClaimsCounted
  <2> QED BY <2>1, <2>2, ClaimsNext
<1>5. SalesHeld'
  BY <1>3 DEF PushInv, SalesHeld, SalesPush!Covered, KeyMoves
<1>6. DocsSound' /\ PushTypes'
  BY <1>3 DEF PushInv, DocsSound, PushTypes
<1> QED BY <1>3, <1>4, <1>5, <1>6 DEF PushInv

\* What a request is once its sale was answered.
AfterTelling(q, what) ==
  [SalesPush!Idle EXCEPT !.pc = IF Tail(q.batch) = <<>> THEN "reply" ELSE "match",
               !.batch = Tail(q.batch), !.told = q.told \cup {<<Head(q.batch), what>>}]
LEMMA TellSound ==
  ASSUME NEW q \in Batches, q.batch # <<>>, NEW what \in {"ok", "refused", "again"},
         NEW rows, NEW marks, NEW kinds, NEW keys, Pushing(q, rows, marks, kinds, keys),
         what = "ok" => OnRecord(Head(q.batch), rows, marks, kinds),
         NEW r, r = AfterTelling(q, what)
  PROVE  r \in Batches /\ r.pc \in {"reply", "match"} /\ Pushing(r, rows, marks, kinds, keys)
<1>1. q.batch \in Seq(Sales) /\ Tail(q.batch) \in Seq(Sales) /\ Head(q.batch) \in Sales
  BY DEF Batches
<1>2. \A i \in 1..Len(Tail(q.batch)) : i + 1 \in 1..Len(q.batch) /\ Tail(q.batch)[i] = q.batch[i + 1]
  BY <1>1
<1>3. q.told \cup {<<Head(q.batch), what>>} \in SUBSET (Sales \X {"ok", "refused", "again"})
  BY <1>1 DEF Batches
<1>4. PICK left, said : left = Tail(q.batch) /\ said = q.told \cup {<<Head(q.batch), what>>}
  BY Zenon
<1>5. r = [pc |-> IF left = <<>> THEN "reply" ELSE "match", batch |-> left, doc |-> 0, lock |-> 0,
           told |-> said]
  BY <1>4, Zenon DEF AfterTelling, SalesPush!Idle
<1>6. r \in Batches /\ r.pc \in {"reply", "match"} /\ (r.pc = "reply" <=> r.batch = <<>>)
      /\ r.batch = left /\ r.told = said
  BY <1>1, <1>3, <1>4, <1>5 DEF Batches
<1>7. \A i \in 1..Len(r.batch) : kinds[r.batch[i]] # "none"
  BY <1>2, <1>4, <1>6 DEF Pushing
<1>8. \A o \in Sales : <<o, "ok">> \in r.told => OnRecord(o, rows, marks, kinds)
  BY <1>4, <1>6 DEF Pushing
<1> QED BY <1>6, <1>7, <1>8 DEF Pushing

\* A request whose sale is answered, beside what the step does to its key.
LEMMA KeyTold ==
  ASSUME SalesPush!PushShape, PushInv, NEW s \in Requests,
         NEW what \in {"ok", "refused", "again"}, SalesPush!Tell(s, what),
         slot[s].pc \notin {"idle", "reply", "burn"},
         what = "ok" => OnRecord(SalesPush!Sale(s), docs, stamped, kind),
         key' \in [Sales -> KeyRows], \A o \in Sales : KeyMoves(key[o], key'[o]),
         \A o \in Sales : key'[o].result # 0 => RowOf(o, key'[o].result) \in docs,
         \A o \in Sales : \/ Spare(key'[o]) <= Spare(key[o])
                          \/ slot[s].pc = "handle" /\ SalesPush!Sale(s) = o,
         UNCHANGED <<counter, docs, stamped, local, kind, printed, answer, runs, cut>>
  PROVE  PushInv'
<1>1. PICK q \in Batches : q = slot[s] /\ Pushing(q, docs, stamped, kind, key) /\ q.batch # <<>>
  BY DEF PushInv, PushTypes, PushesSound, Pushing
<1>2. PICK r : r = AfterTelling(q, what)
  OBVIOUS
<1>3. slot' = [slot EXCEPT ![s] = r]
  BY <1>1, <1>2 DEF SalesPush!Tell, AfterTelling, SalesPush!Sale
<1>4. r \in Batches /\ r.pc \in {"reply", "match"} /\ Pushing(r, docs, stamped, kind, key)
  BY <1>1, <1>2, TellSound DEF SalesPush!Sale
<1>5. \A o \in Sales : Accounted(slot[s], r, o, key[o], key'[o])
  BY <1>4 DEF Accounted, SalesPush!Sale
<1> QED BY <1>3, <1>4, <1>5, OnlyMoved, Zenon

\* The keys stay as they are.
LEMMA KeysStay ==
  ASSUME PushInv, UNCHANGED key, UNCHANGED docs
  PROVE  /\ key' \in [Sales -> KeyRows] /\ \A o \in Sales : KeyMoves(key[o], key'[o])
         /\ \A o \in Sales : key'[o].result # 0 => RowOf(o, key'[o].result) \in docs
         /\ \A o \in Sales : Spare(key'[o]) <= Spare(key[o])
<1>1. key' \in [Sales -> KeyRows] /\ \A o \in Sales : KeyMoves(key[o], key'[o])
  BY DEF PushInv, PushTypes, KeyMoves, KeyRows
<1>2. \A o \in Sales : key'[o].result # 0 => RowOf(o, key'[o].result) \in docs
  BY DEF PushInv, SalesHeld
<1>3. \A o \in Sales : Spare(key'[o]) <= Spare(key[o])
  BY DEF Spare
<1> QED BY <1>1, <1>2, <1>3

LEMMA OnlyTold ==
  ASSUME SalesPush!PushShape, PushInv, NEW s \in Requests,
         NEW what \in {"ok", "refused", "again"}, SalesPush!Tell(s, what),
         slot[s].pc \notin {"idle", "reply", "burn"},
         what = "ok" => OnRecord(SalesPush!Sale(s), docs, stamped, kind),
         UNCHANGED <<counter, docs, stamped, key, local, kind, printed, answer, runs, cut>>
  PROVE  PushInv'
BY KeysStay, KeyTold

\* A request that goes on to another step with what it has.
LEMMA OnlyGone ==
  ASSUME SalesPush!PushShape, PushInv, NEW s \in Requests, NEW pc \in {"guard", "key", "stamp"},
         SalesPush!Goto(s, pc),
         slot[s].pc \notin {"idle", "reply", "burn"},
         pc = "stamp" => slot[s].pc = "finish",
         UNCHANGED <<counter, docs, stamped, key, local, kind, printed, answer, runs, cut>>
  PROVE  PushInv'
<1>1. PICK q \in Batches : q = slot[s] /\ Pushing(q, docs, stamped, kind, key) /\ q.batch # <<>>
  BY DEF PushInv, PushTypes, PushesSound, Pushing
<1>2. PICK r : r = [q EXCEPT !.pc = pc]
  BY Zenon
<1>3. slot' = [slot EXCEPT ![s] = r]
  BY <1>1, <1>2 DEF SalesPush!Goto
<1>4. r \in Batches /\ r.pc = pc /\ r.batch = q.batch /\ r.told = q.told /\ r.doc = q.doc
  BY <1>2 DEF Batches
<1>5. Pushing(r, docs, stamped, kind, key)
  BY <1>1, <1>4 DEF Pushing
<1>6. \A o \in Sales : Accounted(slot[s], r, o, key[o], key'[o])
  BY <1>4, KeysStay DEF Accounted
<1> QED BY <1>3, <1>4, <1>5, <1>6, KeysStay, OnlyMoved, Zenon

\* One key goes to l.
LEMMA KeyTurns ==
  ASSUME PushInv, NEW o \in Sales, NEW l \in KeyRows, key' = [key EXCEPT ![o] = l],
         KeyMoves(key[o], l), l.result # 0 => RowOf(o, l.result) \in docs
  PROVE  /\ key' \in [Sales -> KeyRows] /\ \A p \in Sales : KeyMoves(key[p], key'[p])
         /\ \A p \in Sales : key'[p].result # 0 => RowOf(p, key'[p].result) \in docs
         /\ key'[o] = l /\ \A p \in Sales \ {o} : Spare(key'[p]) <= Spare(key[p])
<1>1. key \in [Sales -> KeyRows] /\ key'[o] = l /\ \A p \in Sales \ {o} : key'[p] = key[p]
  BY DEF PushInv, PushTypes
<1>2. key' \in [Sales -> KeyRows]
  BY <1>1
<1>3. \A p \in Sales : KeyMoves(key[p], key'[p])
  BY <1>1 DEF KeyMoves, KeyRows
<1>4. \A p \in Sales : key'[p].result # 0 => RowOf(p, key'[p].result) \in docs
  BY <1>1 DEF PushInv, SalesHeld
<1>5. \A p \in Sales \ {o} : Spare(key'[p]) <= Spare(key[p])
  BY <1>1 DEF Spare
<1> QED BY <1>1, <1>2, <1>3, <1>4, <1>5

\* A request under way knows its sale.
LEMMA SaleKnown ==
  ASSUME PushInv, NEW s \in Requests, slot[s].pc \notin {"idle", "reply"}
  PROVE  /\ SalesPush!Sale(s) \in Sales /\ kind[SalesPush!Sale(s)] # "none"
         /\ \E q \in Batches : q = slot[s] /\ Pushing(q, docs, stamped, kind, key) /\ q.batch # <<>>
<1>1. PICK q \in Batches : q = slot[s] /\ Pushing(q, docs, stamped, kind, key) /\ q.batch # <<>>
  BY DEF PushInv, PushTypes, PushesSound, Pushing
<1>2. q.batch \in Seq(Sales) /\ Head(q.batch) = q.batch[1] /\ 1 \in 1..Len(q.batch)
      /\ q.batch[1] \in Sales
  BY <1>1 DEF Batches
<1>3. kind[q.batch[1]] # "none"
  BY <1>1, <1>2 DEF Pushing
<1> QED BY <1>1, <1>2, <1>3 DEF SalesPush!Sale

LEMMA RequestStarted ==
  ASSUME SalesPush!PushShape, PushInv, NEW s \in Requests, NEW batch \in Seq(Sales),
         NEW pc \in {"match", "key"},
         \A i \in 1..Len(batch) : kind[batch[i]] # "none", SalesPush!Start(s, batch, pc)
  PROVE  PushInv'
<1>1. PICK r : r = [SalesPush!Idle EXCEPT !.pc = pc, !.batch = batch]
  OBVIOUS
<1>2. slot' = [slot EXCEPT ![s] = r] /\ slot[s].pc = "idle" /\ batch # <<>>
  BY <1>1 DEF SalesPush!Start
<1>3. r = [pc |-> pc, batch |-> batch, doc |-> 0, lock |-> 0, told |-> {}]
  BY <1>1, Zenon DEF SalesPush!Idle
<1>4. r \in Batches /\ Pushing(r, docs, stamped, kind, key) /\ r.pc # "handle"
  BY <1>2, <1>3 DEF Batches, Pushing
<1>5. UNCHANGED <<counter, docs, stamped, key, local, kind, printed, answer, runs, cut>>
  BY DEF SalesPush!Start, SalesPush!device
<1>6. \A o \in Sales : Accounted(slot[s], r, o, key[o], key'[o])
  BY <1>4, <1>5, KeysStay DEF Accounted
<1> QED BY <1>2, <1>4, <1>5, <1>6, KeysStay, OnlyMoved, Zenon

LEMMA BatchPushed ==
  ASSUME SalesPush!PushShape, PushInv, NEW s \in Requests, SalesPush!Push(s)
  PROVE  PushInv'
<1>1. PICK S \in SUBSET Sales : /\ S = {o \in Sales : SalesPush!Waiting(o) /\ kind[o] # "web"}
                                /\ \E batch \in SalesPush!InOrder(S) : SalesPush!Start(s, batch, "match")
  BY DEF SalesPush!Push
<1>2. PICK batch \in SalesPush!InOrder(S) : SalesPush!Start(s, batch, "match")
  BY <1>1
<1>3. Cardinality(S) \in Nat
  BY PushFinite, FS_Subset, FS_CardinalityType
<1>4. batch \in [1..Cardinality(S) -> S]
  BY PushCounted DEF SalesPush!InOrder
<1>5. batch \in Seq(Sales) /\ \A i \in 1..Len(batch) : batch[i] \in S
  BY <1>3, <1>4
<1>6. \A i \in 1..Len(batch) : kind[batch[i]] # "none"
  BY <1>1, <1>5 DEF SalesPush!Waiting
<1> QED BY <1>2, <1>5, <1>6, RequestStarted

LEMMA SalePosted ==
  ASSUME SalesPush!PushShape, PushInv, NEW s \in Requests, NEW o \in Sales, SalesPush!Post(s, o)
  PROVE  PushInv'
<1>1. <<o>> \in Seq(Sales) /\ \A i \in 1..Len(<<o>>) : <<o>>[i] = o
  OBVIOUS
<1> QED BY <1>1, RequestStarted, Zenon DEF SalesPush!Post, SalesPush!Waiting

LEMMA EchoMatched ==
  ASSUME SalesPush!PushShape, PushInv, NEW s \in Requests, SalesPush!Match(s)
  PROVE  PushInv'
<1>1. UNCHANGED <<counter, docs, stamped, key, local, kind, printed, answer, runs, cut>>
      /\ slot[s].pc = "match"
  BY DEF SalesPush!Match, SalesPush!At, SalesPush!device
<1>2. CASE stamped[SalesPush!Sale(s)] # 0
  <2>1. SalesPush!Tell(s, "ok")
    BY <1>2 DEF SalesPush!Match
  <2>2. OnRecord(SalesPush!Sale(s), docs, stamped, kind)
    BY <1>2 DEF OnRecord
  <2> QED BY <1>1, <2>1, <2>2, OnlyTold
<1>3. CASE stamped[SalesPush!Sale(s)] = 0
  BY <1>1, <1>3, OnlyGone DEF SalesPush!Match
<1> QED BY <1>2, <1>3

LEMMA NumberGuarded ==
  ASSUME SalesPush!PushShape, PushInv, NEW s \in Requests, SalesPush!Guard(s)
  PROVE  PushInv'
<1>1. UNCHANGED <<counter, docs, stamped, key, local, kind, printed, answer, runs, cut>>
      /\ slot[s].pc = "guard"
  BY DEF SalesPush!Guard, SalesPush!At, SalesPush!device
<1>2. SalesPush!Tell(s, "refused") \/ SalesPush!Goto(s, "key")
  BY DEF SalesPush!Guard
<1>3. CASE SalesPush!Tell(s, "refused")
  BY <1>1, <1>3, OnlyTold
<1>4. CASE SalesPush!Goto(s, "key")
  BY <1>1, <1>4, OnlyGone
<1> QED BY <1>2, <1>3, <1>4

LEMMA KeyClaimed ==
  ASSUME SalesPush!PushShape, PushInv, NEW s \in Requests, SalesPush!Claim(s)
  PROVE  PushInv'
<1>1. UNCHANGED <<counter, docs, stamped, local, kind, printed, answer, runs, cut>>
      /\ slot[s].pc = "key"
  BY DEF SalesPush!Claim, SalesPush!At, SalesPush!device
<1>2. PICK o \in Sales : o = SalesPush!Sale(s) /\ kind[o] # "none"
  BY <1>1, SaleKnown
<1>3. PICK q \in Batches : q = slot[s] /\ Pushing(q, docs, stamped, kind, key) /\ q.batch # <<>>
  BY <1>1, SaleKnown
<1>4. Head(q.batch) = o
  BY <1>2, <1>3 DEF SalesPush!Sale
<1>5. PICK k \in KeyRows : k = key[o]
  BY DEF PushInv, PushTypes
<1>6. k.result # 0 => RowOf(o, k.result) \in docs
  BY <1>5 DEF PushInv, SalesHeld
<1>7. CASE k.status = "none" /\ key' = [key EXCEPT ![o].status = "processing"] /\ SalesPush!Goto(s, "handle")
  <2>1. PICK l : l = [k EXCEPT !.status = "processing"]
    BY Zenon
  <2>2. l \in KeyRows /\ l.status = "processing" /\ l.stale = k.stale /\ l.result = k.result
    BY <2>1 DEF KeyRows
  <2>3. key' = [key EXCEPT ![o] = l]
    BY <1>5, <1>7, <2>1
  <2>4. KeyMoves(k, l) /\ Spare(k) = 1 /\ Spare(l) = 0
    BY <1>5, <1>7, <2>2 DEF KeyMoves, Spare, PushInv, SalesHeld
  <2>5. /\ key' \in [Sales -> KeyRows] /\ \A p \in Sales : KeyMoves(key[p], key'[p])
        /\ \A p \in Sales : key'[p].result # 0 => RowOf(p, key'[p].result) \in docs
        /\ key'[o] = l /\ \A p \in Sales \ {o} : Spare(key'[p]) <= Spare(key[p])
    BY <1>5, <1>6, <2>2, <2>3, <2>4, KeyTurns, Zenon
  <2>6. PICK r : r = [q EXCEPT !.pc = "handle"]
    BY Zenon
  <2>7. slot' = [slot EXCEPT ![s] = r]
    BY <1>3, <1>7, <2>6 DEF SalesPush!Goto
  <2>8. r \in Batches /\ r.pc = "handle" /\ r.batch = q.batch /\ r.told = q.told
    BY <2>6 DEF Batches
  <2>9. Pushing(r, docs, stamped, kind, key)
    BY <1>1, <1>3, <2>8 DEF Pushing
  <2>10. \A p \in Sales : Accounted(slot[s], r, p, key[p], key'[p])
    BY <1>4, <1>5, <2>4, <2>5, <2>8 DEF Accounted
  <2> QED BY <1>1, <2>5, <2>7, <2>8, <2>9, <2>10, OnlyMoved, Zenon
<1>8. CASE UNCHANGED key /\ (SalesPush!Tell(s, "refused") \/ SalesPush!Tell(s, "again"))
  BY <1>1, <1>8, OnlyTold
<1>9. CASE UNCHANGED key /\ k.result # 0 /\ kind[o] = "web" /\ SalesPush!Tell(s, "ok")
  <2>1. RowOf(o, k.result).sale = o
    BY DEF RowOf
  <2>2. OnRecord(SalesPush!Sale(s), docs, stamped, kind)
    BY <1>2, <1>6, <1>9, <2>1 DEF OnRecord
  <2> QED BY <1>1, <1>9, <2>2, OnlyTold
<1>10. CASE /\ UNCHANGED key /\ k.result # 0
            /\ slot' = [slot EXCEPT ![s].pc = "stamp", ![s].doc = k.result]
  <2>1. PICK r : r = [q EXCEPT !.pc = "stamp", !.doc = k.result]
    OBVIOUS
  <2>2. slot' = [slot EXCEPT ![s] = r]
    BY <1>3, <1>10, <2>1, Zenon
  <2>3. k.result \in Nat
    BY DEF KeyRows
  <2>4. r \in Batches /\ r.pc = "stamp" /\ r.batch = q.batch /\ r.told = q.told
        /\ r.doc = k.result
    BY <2>1, <2>3, Zenon DEF Batches
  <2>5. Pushing(r, docs, stamped, kind, key)
    BY <1>1, <1>3, <1>4, <1>6, <1>10, <2>4 DEF Pushing
  <2>6. \A p \in Sales : Accounted(slot[s], r, p, key[p], key'[p])
    BY <1>1, <1>10, <2>4, KeysStay DEF Accounted
  <2> QED BY <1>1, <1>10, <2>2, <2>4, <2>5, <2>6, KeysStay, OnlyMoved, Zenon
<1>11. CASE /\ UNCHANGED key /\ k.status # "none" /\ ~SalesPush!Locked(k)
            /\ slot' = [slot EXCEPT ![s].pc = "reclaim", ![s].lock = k.lock]
  <2>1. PICK r : r = [q EXCEPT !.pc = "reclaim", !.lock = k.lock]
    OBVIOUS
  <2>2. slot' = [slot EXCEPT ![s] = r]
    BY <1>3, <1>11, <2>1, Zenon
  <2>3. k.lock \in Nat
    BY DEF KeyRows
  <2>4. r \in Batches /\ r.pc = "reclaim" /\ r.batch = q.batch /\ r.told = q.told
        /\ r.lock = k.lock
    BY <2>1, <2>3, Zenon DEF Batches
  <2>5. Claimable(r, k)
    BY <1>11, <2>3, <2>4 DEF Claimable, SalesPush!Locked
  <2>6. Pushing(r, docs, stamped, kind, key)
    BY <1>1, <1>3, <1>4, <1>5, <2>4, <2>5 DEF Pushing
  <2>7. \A p \in Sales : Accounted(slot[s], r, p, key[p], key'[p])
    BY <1>1, <1>11, <2>4, KeysStay DEF Accounted
  <2> QED BY <1>1, <1>11, <2>2, <2>4, <2>6, <2>7, KeysStay, OnlyMoved, Zenon
<1> QED BY <1>2, <1>5, <1>7, <1>8, <1>9, <1>10, <1>11 DEF SalesPush!Claim

LEMMA KeyReclaimed ==
  ASSUME SalesPush!PushShape, PushInv, NEW s \in Requests, SalesPush!Reclaim(s)
  PROVE  PushInv'
<1>1. UNCHANGED <<counter, docs, stamped, local, kind, printed, answer, runs, cut>>
      /\ slot[s].pc = "reclaim"
  BY DEF SalesPush!Reclaim, SalesPush!At, SalesPush!device
<1>2. PICK o \in Sales : o = SalesPush!Sale(s) /\ kind[o] # "none"
  BY <1>1, SaleKnown
<1>3. PICK q \in Batches : q = slot[s] /\ Pushing(q, docs, stamped, kind, key) /\ q.batch # <<>>
  BY <1>1, SaleKnown
<1>4. Head(q.batch) = o
  BY <1>2, <1>3 DEF SalesPush!Sale
<1>5. PICK k \in KeyRows : k = key[o]
  BY DEF PushInv, PushTypes
<1>6. CASE SalesPush!CanReclaim(k, q.lock)
  <2>1. key' = [key EXCEPT ![o] = [status |-> "processing", lock |-> @.lock + 1, stale |-> FALSE, result |-> 0]]
        /\ SalesPush!Goto(s, "handle")
    BY <1>2, <1>3, <1>5, <1>6 DEF SalesPush!Reclaim
  <2>2. PICK l : l = [status |-> "processing", lock |-> k.lock + 1, stale |-> FALSE, result |-> 0]
    BY Zenon
  <2>3. k.lock \in Nat /\ k.lock + 1 \in Nat /\ k.lock + 1 > k.lock
    BY DEF KeyRows
  <2>4. l \in KeyRows /\ l.status = "processing" /\ l.stale = FALSE /\ l.result = 0
        /\ l.lock > k.lock
    BY <2>2, <2>3 DEF KeyRows
  <2>5. key' = [key EXCEPT ![o] = l]
    BY <1>5, <2>1, <2>2
  <2>6. Claimable(q, k)
    BY <1>1, <1>3, <1>4, <1>5 DEF Pushing
  <2>7. KeyMoves(k, l) /\ Spare(k) = 1 /\ Spare(l) = 0
    BY <1>6, <2>4, <2>6 DEF KeyMoves, Spare, SalesPush!CanReclaim, Claimable
  <2>8. /\ key' \in [Sales -> KeyRows] /\ \A p \in Sales : KeyMoves(key[p], key'[p])
        /\ \A p \in Sales : key'[p].result # 0 => RowOf(p, key'[p].result) \in docs
        /\ key'[o] = l /\ \A p \in Sales \ {o} : Spare(key'[p]) <= Spare(key[p])
    BY <1>5, <2>4, <2>5, <2>7, KeyTurns, Zenon
  <2>9. PICK r : r = [q EXCEPT !.pc = "handle"]
    BY Zenon
  <2>10. slot' = [slot EXCEPT ![s] = r]
    BY <1>3, <2>1, <2>9 DEF SalesPush!Goto
  <2>11. r \in Batches /\ r.pc = "handle" /\ r.batch = q.batch /\ r.told = q.told
    BY <2>9 DEF Batches
  <2>12. Pushing(r, docs, stamped, kind, key)
    BY <1>1, <1>3, <2>11 DEF Pushing
  <2>13. \A p \in Sales : Accounted(slot[s], r, p, key[p], key'[p])
    BY <1>4, <1>5, <2>7, <2>8, <2>11 DEF Accounted
  <2> QED BY <1>1, <2>8, <2>10, <2>11, <2>12, <2>13, OnlyMoved, Zenon
<1>7. CASE ~SalesPush!CanReclaim(k, q.lock)
  <2>1. SalesPush!Tell(s, "again") /\ UNCHANGED key
    BY <1>2, <1>3, <1>5, <1>7 DEF SalesPush!Reclaim
  <2> QED BY <1>1, <2>1, OnlyTold
<1> QED BY <1>6, <1>7

LEMMA NumberTakenStep ==
  ASSUME SalesPush!PushShape, PushInv, NEW s \in Requests, SalesPush!NumberTaken(s)
  PROVE  PushInv'
<1>1. UNCHANGED <<counter, docs, stamped, local, kind, printed, answer, runs, cut>>
      /\ slot[s].pc = "handle" /\ SalesPush!Tell(s, "refused")
  BY DEF SalesPush!NumberTaken, SalesPush!At, SalesPush!device
<1>2. PICK o \in Sales : o = SalesPush!Sale(s)
  BY <1>1, SaleKnown
<1>3. CASE UNCHANGED key
  BY <1>1, <1>3, OnlyTold
<1>4. CASE key' = [key EXCEPT ![o].status = "completed", ![o].result = 0]
  <2>1. PICK k \in KeyRows : k = key[o]
    BY DEF PushInv, PushTypes
  <2>2. PICK l : l = [k EXCEPT !.status = "completed", !.result = 0]
    OBVIOUS
  <2>3. l \in KeyRows /\ l.status = "completed" /\ l.result = 0 /\ l.lock = k.lock
        /\ l.stale = k.stale
    BY <2>2, Zenon DEF KeyRows
  <2>4. key' = [key EXCEPT ![o] = l] /\ KeyMoves(k, l)
    BY <1>4, <2>1, <2>2, <2>3, Zenon DEF KeyMoves
  <2>5. /\ key' \in [Sales -> KeyRows] /\ \A p \in Sales : KeyMoves(key[p], key'[p])
        /\ \A p \in Sales : key'[p].result # 0 => RowOf(p, key'[p].result) \in docs
        /\ \A p \in Sales \ {o} : Spare(key'[p]) <= Spare(key[p])
    BY <2>1, <2>3, <2>4, KeyTurns, Zenon
  <2>6. \A p \in Sales : \/ Spare(key'[p]) <= Spare(key[p])
                         \/ slot[s].pc = "handle" /\ SalesPush!Sale(s) = p
    BY <1>1, <1>2, <2>5
  <2> QED BY <1>1, <2>5, <2>6, KeyTold
<1> QED BY <1>2, <1>3, <1>4 DEF SalesPush!NumberTaken

LEMMA CreateFailsStep ==
  ASSUME SalesPush!PushShape, PushInv, NEW s \in Requests, SalesPush!CreateFails(s)
  PROVE  PushInv'
<1>1. UNCHANGED <<counter, docs, stamped, local, kind, printed, answer, runs, cut>>
      /\ slot[s].pc = "handle" /\ SalesPush!Tell(s, "again")
  BY DEF SalesPush!CreateFails, SalesPush!At, SalesPush!device
<1>2. PICK o \in Sales : o = SalesPush!Sale(s)
  BY <1>1, SaleKnown
<1>3. CASE UNCHANGED key
  BY <1>1, <1>3, OnlyTold
<1>4. CASE key' = [key EXCEPT ![o].status = "failed"]
  <2>1. PICK k \in KeyRows : k = key[o]
    BY DEF PushInv, PushTypes
  <2>2. PICK l : l = [k EXCEPT !.status = "failed"]
    BY Zenon
  <2>3. l \in KeyRows /\ l.status = "failed" /\ l.result = k.result /\ l.lock = k.lock
        /\ l.stale = k.stale
    BY <2>2 DEF KeyRows
  <2>4. key' = [key EXCEPT ![o] = l] /\ KeyMoves(k, l) /\ (l.result # 0 => RowOf(o, l.result) \in docs)
    BY <1>4, <2>1, <2>2, <2>3 DEF KeyMoves, PushInv, SalesHeld
  <2>5. /\ key' \in [Sales -> KeyRows] /\ \A p \in Sales : KeyMoves(key[p], key'[p])
        /\ \A p \in Sales : key'[p].result # 0 => RowOf(p, key'[p].result) \in docs
        /\ \A p \in Sales \ {o} : Spare(key'[p]) <= Spare(key[p])
    BY <2>1, <2>3, <2>4, KeyTurns, Zenon
  <2>6. \A p \in Sales : \/ Spare(key'[p]) <= Spare(key[p])
                         \/ slot[s].pc = "handle" /\ SalesPush!Sale(s) = p
    BY <1>1, <1>2, <2>5
  <2> QED BY <1>1, <2>5, <2>6, KeyTold
<1> QED BY <1>2, <1>3, <1>4 DEF SalesPush!CreateFails

LEMMA OutcomeRecorded ==
  ASSUME SalesPush!PushShape, PushInv, NEW s \in Requests, NEW saved \in BOOLEAN,
         SalesPush!Finish(s, saved) PROVE PushInv'
<1>1. UNCHANGED <<counter, docs, stamped, local, kind, printed, answer, runs, cut>>
      /\ slot[s].pc = "finish"
  BY DEF SalesPush!Finish, SalesPush!At, SalesPush!device
<1>2. PICK o \in Sales : o = SalesPush!Sale(s)
  BY <1>1, SaleKnown
<1>3. PICK q \in Batches : q = slot[s] /\ Pushing(q, docs, stamped, kind, key) /\ q.batch # <<>>
  BY <1>1, SaleKnown
<1>4. Head(q.batch) = o /\ RowOf(o, q.doc) \in docs /\ q.doc \in Nat
  BY <1>1, <1>2, <1>3 DEF SalesPush!Sale, Pushing, Batches
<1>5. \/ kind[o] = "web" /\ SalesPush!Tell(s, "ok")
      \/ SalesPush!Goto(s, "stamp")
  BY <1>2 DEF SalesPush!Finish
<1>6. kind[o] = "web" => OnRecord(SalesPush!Sale(s), docs, stamped, kind)
  <2>1. RowOf(o, q.doc).sale = o
    BY DEF RowOf
  <2> QED BY <1>2, <1>4, <2>1 DEF OnRecord
<1>7. CASE UNCHANGED key
  BY <1>1, <1>5, <1>6, <1>7, OnlyTold, OnlyGone
<1>8. CASE key' = [key EXCEPT ![o].status = "completed", ![o].result = q.doc]
  <2>1. PICK k \in KeyRows : k = key[o]
    BY DEF PushInv, PushTypes
  <2>2. PICK l : l = [k EXCEPT !.status = "completed", !.result = q.doc]
    OBVIOUS
  <2>3. l \in KeyRows /\ l.status = "completed" /\ l.result = q.doc /\ l.lock = k.lock
        /\ l.stale = k.stale
    BY <1>4, <2>2, Zenon DEF KeyRows
  <2>4. key' = [key EXCEPT ![o] = l] /\ KeyMoves(k, l) /\ (l.result # 0 => RowOf(o, l.result) \in docs)
    BY <1>4, <1>8, <2>1, <2>2, <2>3, Zenon DEF KeyMoves
  <2>5. /\ key' \in [Sales -> KeyRows] /\ \A p \in Sales : KeyMoves(key[p], key'[p])
        /\ \A p \in Sales : key'[p].result # 0 => RowOf(p, key'[p].result) \in docs
        /\ key'[o] = l /\ \A p \in Sales \ {o} : Spare(key'[p]) <= Spare(key[p])
    BY <2>1, <2>3, <2>4, KeyTurns, Zenon
  <2>6. \A p \in Sales : Spare(key'[p]) <= Spare(key[p])
    <3>1. Spare(l) = 0
      BY <2>3 DEF Spare
    <3> QED BY <2>1, <2>5, <3>1 DEF Spare
  <2>7. CASE kind[o] = "web" /\ SalesPush!Tell(s, "ok")
    BY <1>1, <1>6, <2>5, <2>6, <2>7, KeyTold
  <2>8. CASE SalesPush!Goto(s, "stamp")
    <3>1. PICK r : r = [q EXCEPT !.pc = "stamp"]
      BY Zenon
    <3>2. slot' = [slot EXCEPT ![s] = r]
      BY <1>3, <2>8, <3>1 DEF SalesPush!Goto
    <3>3. r \in Batches /\ r.pc = "stamp" /\ r.batch = q.batch /\ r.told = q.told /\ r.doc = q.doc
      BY <3>1, Zenon DEF Batches
    <3>4. Pushing(r, docs, stamped, kind, key)
      BY <1>1, <1>3, <1>4, <3>3 DEF Pushing
    <3>5. \A p \in Sales : Accounted(slot[s], r, p, key[p], key'[p])
      BY <2>6, <3>3 DEF Accounted
    <3> QED BY <1>1, <2>5, <3>2, <3>3, <3>4, <3>5, OnlyMoved, Zenon
  <2> QED BY <1>5, <2>7, <2>8
<1>9. UNCHANGED key \/ key' = [key EXCEPT ![o].status = "completed", ![o].result = q.doc]
  BY <1>2, <1>3 DEF SalesPush!Finish
<1> QED BY <1>7, <1>8, <1>9

LEMMA SaleStamped ==
  ASSUME SalesPush!PushShape, PushInv, NEW s \in Requests, SalesPush!Stamp(s)
  PROVE  PushInv'
<1>1. UNCHANGED <<counter, docs, key, local, kind, printed, answer, runs, cut>>
      /\ slot[s].pc = "stamp"
  BY DEF SalesPush!Stamp, SalesPush!At, SalesPush!device
<1>2. PICK o \in Sales : o = SalesPush!Sale(s)
  BY <1>1, SaleKnown
<1>3. PICK q \in Batches : q = slot[s] /\ Pushing(q, docs, stamped, kind, key) /\ q.batch # <<>>
  BY <1>1, SaleKnown
<1>4. Head(q.batch) = o /\ RowOf(o, q.doc) \in docs /\ q.doc \in Nat
  BY <1>1, <1>2, <1>3 DEF SalesPush!Sale, Pushing, Batches
<1>5. q.doc # 0
  BY <1>4 DEF PushInv, PushTypes, RowOf
<1>6. CASE SalesPush!Tell(s, "refused") /\ UNCHANGED stamped
  BY <1>1, <1>6, OnlyTold
<1>7. CASE stamped' = [stamped EXCEPT ![o] = q.doc] /\ SalesPush!Goto(s, "burn")
  <2>1. PICK r : r = [q EXCEPT !.pc = "burn"]
    BY Zenon
  <2>2. slot' = [slot EXCEPT ![s] = r]
    BY <1>3, <1>7, <2>1 DEF SalesPush!Goto
  <2>3. r \in Batches /\ r.pc = "burn" /\ r.batch = q.batch /\ r.told = q.told
    BY <2>1 DEF Batches
  <2>4. stamped' \in [Sales -> Nat] /\ stamped'[o] = q.doc
        /\ \A p \in Sales \ {o} : stamped'[p] = stamped[p]
    BY <1>4, <1>7 DEF PushInv, PushTypes
  <2>5. Grows(docs, stamped, kind, key, docs', stamped', kind', key')
    BY <1>1, <1>5, <2>4, KeysStay DEF Grows, PushInv, PushTypes
  <2>6. Pushing(q, docs', stamped', kind', key')
    BY <1>3, <2>5, PushingKept, Zenon
  <2>7. Pushing(r, docs', stamped', kind', key')
    BY <1>3, <1>4, <1>5, <2>3, <2>4, <2>6 DEF Pushing
  <2>8. /\ slot' \in [Requests -> Batches] /\ PushesSound' /\ \A p \in Sales : SalesPush!Burning(p) => SalesPush!Burning(p)'
        /\ \A p \in Sales : Handling(p)' = Handling(p) \ {s}
    BY <1>1, <2>2, <2>3, <2>5, <2>7, PushGoesOn, Zenon
  <2>9. ClaimsCounted'
    <3>1. ASSUME NEW p \in Sales
          PROVE  ClaimsBalanced(DocsOf(p), Handling(p), Spare(key[p]), 1 + runs[p], s, s,
                          DocsOf(p)', Handling(p)', Spare(key'[p]), 1 + runs'[p])
      <4>1. DocsOf(p)' = DocsOf(p) /\ runs'[p] = runs[p] /\ Spare(key'[p]) <= Spare(key[p])
        BY <1>1, KeysStay DEF DocsOf
      <4> QED BY <2>8, <4>1 DEF ClaimsBalanced
    <3>2. IsFiniteSet(docs') /\ runs' \in [Sales -> Nat]
      BY <1>1 DEF PushInv, PushTypes, ClaimsCounted
    <3> QED BY <3>1, <3>2, ClaimsNext
  <2>10. SalesPush!Burning(o)'
    <3>1. slot'[s] = r
      BY <2>2 DEF PushInv, PushTypes
    <3> QED BY <1>4, <2>3, <3>1 DEF SalesPush!Burning, SalesPush!At, SalesPush!Sale
  <2>11. SalesHeld'
    BY <1>1, <1>4, <1>5, <2>4, <2>8, <2>10 DEF PushInv, SalesHeld, SalesPush!Covered, OnRecord
  <2>12. DocsSound' /\ PushTypes'
    BY <1>1, <2>4, <2>8 DEF PushInv, DocsSound, PushTypes
  <2> QED BY <2>8, <2>9, <2>11, <2>12 DEF PushInv
<1> QED BY <1>2, <1>3, <1>6, <1>7 DEF SalesPush!Stamp

LEMMA SaleWritten ==
  ASSUME SalesPush!PushShape, PushInv, NEW s \in Requests, SalesPush!Create(s)
  PROVE  PushInv'
<1>1. UNCHANGED <<stamped, key, local, kind, printed, answer, runs, cut>> /\ slot[s].pc = "handle"
  BY DEF SalesPush!Create, SalesPush!At, SalesPush!device
<1>2. PICK o \in Sales : o = SalesPush!Sale(s) /\ kind[o] # "none"
  BY <1>1, SaleKnown
<1>3. PICK q \in Batches : q = slot[s] /\ Pushing(q, docs, stamped, kind, key) /\ q.batch # <<>>
  BY <1>1, SaleKnown
<1>4. Head(q.batch) = o
  BY <1>2, <1>3 DEF SalesPush!Sale
<1>5. counter \in Nat /\ printed[o] \in Nat
  BY DEF PushInv, PushTypes
<1>6. PICK n : n = SalesPush!NumberFor(o)
  OBVIOUS
<1>7. n \in Nat \ {0} /\ (printed[o] = 0 => n > counter) /\ (printed[o] # 0 => n = printed[o])
  BY <1>5, <1>6 DEF SalesPush!NumberFor
<1>8. /\ n \notin SalesPush!Used /\ docs' = docs \cup {RowOf(o, n)}
      /\ counter' = IF printed[o] # 0 THEN counter ELSE n
      /\ slot' = [slot EXCEPT ![s].pc = "finish", ![s].doc = n]
  BY <1>2, <1>6 DEF SalesPush!Create, RowOf
<1>9. counter' \in Nat /\ counter' >= counter
  BY <1>5, <1>7, <1>8
<1>10. PICK d : d = RowOf(o, n)
  OBVIOUS
<1>11. d \in [sale : Sales, number : Nat \ {0}] /\ d.sale = o /\ d.number = n
  BY <1>7, <1>10 DEF RowOf
<1>12. PICK r : r = [q EXCEPT !.pc = "finish", !.doc = n]
  OBVIOUS
<1>13. slot' = [slot EXCEPT ![s] = r]
  BY <1>3, <1>8, <1>12, Zenon
<1>14. r \in Batches /\ r.pc = "finish" /\ r.batch = q.batch /\ r.told = q.told /\ r.doc = n
  BY <1>7, <1>12, Zenon DEF Batches
<1>15. Grows(docs, stamped, kind, key, docs', stamped', kind', key')
  <2>1. key' \in [Sales -> KeyRows] /\ \A p \in Sales : KeyMoves(key[p], key'[p])
    BY <1>1 DEF KeyMoves, KeyRows, PushInv, PushTypes
  <2> QED BY <1>1, <1>8, <2>1 DEF Grows, PushInv, PushTypes
<1>16. Pushing(q, docs', stamped', kind', key')
  BY <1>3, <1>15, PushingKept, Zenon
<1>17. Pushing(r, docs', stamped', kind', key')
  BY <1>3, <1>4, <1>8, <1>14, <1>16, Zenon DEF Pushing
<1>18. /\ slot' \in [Requests -> Batches] /\ PushesSound' /\ \A p \in Sales : SalesPush!Burning(p) => SalesPush!Burning(p)'
       /\ \A p \in Sales : Handling(p)' = Handling(p) \ {s}
  BY <1>1, <1>13, <1>14, <1>15, <1>17, PushGoesOn, Zenon
<1>19. ClaimsCounted'
  <2>1. ASSUME NEW p \in Sales
        PROVE  ClaimsBalanced(DocsOf(p), Handling(p), Spare(key[p]), 1 + runs[p], d, s,
                        DocsOf(p)', Handling(p)', Spare(key'[p]), 1 + runs'[p])
    <3>1. runs'[p] = runs[p] /\ Spare(key'[p]) = Spare(key[p]) /\ Spare(key[p]) \in {0, 1}
      BY <1>1 DEF Spare
    <3>2. CASE p = o
      <4>1. DocsOf(p)' = DocsOf(p) \cup {d}
        BY <1>8, <1>10, <1>11, <3>2 DEF DocsOf
      <4>2. s \in Handling(p)
        BY <1>1, <1>3, <1>4, <3>2 DEF Handling
      <4> QED BY <1>18, <3>1, <4>1, <4>2 DEF ClaimsBalanced
    <3>3. CASE p # o
      <4>1. DocsOf(p)' = DocsOf(p)
        BY <1>8, <1>10, <1>11, <3>3 DEF DocsOf
      <4> QED BY <1>18, <3>1, <4>1 DEF ClaimsBalanced
    <3> QED BY <3>2, <3>3
  <2>2. IsFiniteSet(docs') /\ runs' \in [Sales -> Nat]
    BY <1>1, <1>8, FS_AddElement DEF PushInv, PushTypes, ClaimsCounted
  <2> QED BY <2>1, <2>2, ClaimsNext
<1>20. DocsSound'
  <2>1. \A e \in docs : e.number # n
    BY <1>8 DEF SalesPush!Used
  <2>2. \A e, f \in docs' : e.number = f.number => e = f
    BY <1>8, <1>10, <1>11, <2>1 DEF PushInv, DocsSound
  <2>3. \A e \in docs' : kind[e.sale] # "none" /\ printed[e.sale] \in {0, e.number}
    BY <1>2, <1>7, <1>8, <1>10, <1>11 DEF PushInv, DocsSound
  <2> QED BY <1>1, <2>2, <2>3 DEF PushInv, DocsSound
<1>21. \A p \in Sales : SalesPush!Covered(p) => SalesPush!Covered(p)'
  <2>1. \A p \in Sales : printed[p] \in Nat
    BY DEF PushInv, PushTypes
  <2> QED BY <1>1, <1>5, <1>9, <2>1 DEF SalesPush!Covered
<1>22. SalesHeld'
  <2>1. \A p \in Sales : OnRecord(p, docs, stamped, kind) => OnRecord(p, docs', stamped', kind')
    BY <1>1, <1>8 DEF OnRecord
  <2> QED BY <1>1, <1>8, <1>18, <1>21, <2>1, Zenon DEF PushInv, SalesHeld
<1>23. PushTypes'
  BY <1>1, <1>8, <1>9, <1>10, <1>11, <1>18 DEF PushInv, PushTypes
<1> QED BY <1>18, <1>19, <1>20, <1>22, <1>23 DEF PushInv

\* A request ends its step, or its process: what the claims come to.
LEMMA ClaimsEnd ==
  ASSUME SalesPush!PushShape, PushInv, UNCHANGED <<docs, key, runs>>,
         \A o \in Sales : Handling(o)' \subseteq Handling(o)
  PROVE  ClaimsCounted'
<1>1. ASSUME NEW p \in Sales
      PROVE  ClaimsBalanced(DocsOf(p), Handling(p), Spare(key[p]), 1 + runs[p], 0, 0,
                      DocsOf(p)', Handling(p)', Spare(key'[p]), 1 + runs'[p])
  <2>1. DocsOf(p)' = DocsOf(p) /\ runs'[p] = runs[p] /\ Spare(key'[p]) <= Spare(key[p])
    BY KeysStay DEF DocsOf
  <2> QED BY <2>1 DEF ClaimsBalanced
<1>2. IsFiniteSet(docs') /\ runs' \in [Sales -> Nat]
  BY DEF PushInv, PushTypes, ClaimsCounted
<1> QED BY <1>1, <1>2, ClaimsNext

LEMMA NumberBurnedStep ==
  ASSUME SalesPush!PushShape, PushInv, NEW s \in Requests, SalesPush!Burn(s)
  PROVE  PushInv'
<1>1. UNCHANGED <<docs, stamped, key, local, kind, printed, answer, runs, cut>>
      /\ slot[s].pc = "burn" /\ SalesPush!Tell(s, "ok")
  BY DEF SalesPush!Burn, SalesPush!At, SalesPush!device
<1>2. PICK o \in Sales : o = SalesPush!Sale(s)
  BY <1>1, SaleKnown
<1>3. PICK q \in Batches : q = slot[s] /\ Pushing(q, docs, stamped, kind, key) /\ q.batch # <<>>
  BY <1>1, SaleKnown
<1>4. Head(q.batch) = o /\ stamped[o] # 0
  BY <1>1, <1>2, <1>3 DEF SalesPush!Sale, Pushing
<1>5. counter \in Nat /\ \A p \in Sales : printed[p] \in Nat
  BY DEF PushInv, PushTypes
<1>6. counter' \in Nat /\ counter' >= counter /\ counter' >= printed[o]
  BY <1>2, <1>5 DEF SalesPush!Burn, SalesPush!Burned, SalesPush!Larger
<1>7. PICK r : r = AfterTelling(q, "ok")
  OBVIOUS
<1>8. slot' = [slot EXCEPT ![s] = r]
  BY <1>1, <1>3, <1>7 DEF SalesPush!Tell, AfterTelling, SalesPush!Sale
<1>9. OnRecord(Head(q.batch), docs, stamped, kind)
  BY <1>4 DEF OnRecord
<1>10. r \in Batches /\ r.pc \in {"reply", "match"} /\ Pushing(r, docs, stamped, kind, key)
  BY <1>3, <1>7, <1>9, TellSound
<1>11. Grows(docs, stamped, kind, key, docs', stamped', kind', key')
  BY <1>1, KeysStay DEF Grows, PushInv, PushTypes
<1>12. Pushing(r, docs', stamped', kind', key')
  BY <1>10, <1>11, PushingKept, Zenon
<1>13. /\ slot' \in [Requests -> Batches] /\ PushesSound'
       /\ \A p \in Sales : SalesPush!Burning(p) /\ p # o => SalesPush!Burning(p)'
       /\ \A p \in Sales : Handling(p)' = Handling(p) \ {s}
  BY <1>2, <1>8, <1>10, <1>11, <1>12, PushGoesOn, Zenon
<1>14. ClaimsCounted'
  BY <1>1, <1>13, ClaimsEnd
<1>15. \A p \in Sales : SalesPush!Covered(p) => SalesPush!Covered(p)'
  BY <1>1, <1>5, <1>6 DEF SalesPush!Covered
<1>16. SalesPush!Covered(o)'
  BY <1>1, <1>5, <1>6 DEF SalesPush!Covered
<1>17. SalesHeld'
  BY <1>1, <1>13, <1>15, <1>16 DEF PushInv, SalesHeld, OnRecord
<1>18. DocsSound' /\ PushTypes'
  BY <1>1, <1>6, <1>13 DEF PushInv, DocsSound, PushTypes
<1> QED BY <1>13, <1>14, <1>17, <1>18 DEF PushInv

LEMMA PushReplied ==
  ASSUME SalesPush!PushShape, PushInv, NEW s \in Requests, NEW silent \in BOOLEAN,
         SalesPush!Reply(s, silent) PROVE PushInv'
<1>1. UNCHANGED <<counter, docs, stamped, key, local, kind, printed, runs, cut>>
      /\ slot[s].pc = "reply" /\ slot' = [slot EXCEPT ![s] = SalesPush!Idle]
  BY DEF SalesPush!Reply, SalesPush!At, SalesPush!device
<1>2. PICK q \in Batches : q = slot[s] /\ Pushing(q, docs, stamped, kind, key)
  BY DEF PushInv, PushTypes, PushesSound
<1>3. SalesPush!Idle \in Batches /\ SalesPush!Idle.pc = "idle"
      /\ Pushing(SalesPush!Idle, docs', stamped', kind', key')
  BY DEF SalesPush!Idle, Batches, Pushing
<1>4. Grows(docs, stamped, kind, key, docs', stamped', kind', key')
  BY <1>1, KeysStay DEF Grows, PushInv, PushTypes
<1>5. /\ slot' \in [Requests -> Batches] /\ PushesSound' /\ \A p \in Sales : SalesPush!Burning(p) => SalesPush!Burning(p)'
      /\ \A p \in Sales : Handling(p)' = Handling(p) \ {s}
  BY <1>1, <1>3, <1>4, PushGoesOn, Zenon
<1>6. ClaimsCounted'
  BY <1>1, <1>5, ClaimsEnd
<1>7. answer' \in [Sales -> {"none", "ok", "refused"}]
  BY DEF SalesPush!Reply, PushInv, PushTypes
<1>8. \A o \in Sales : answer'[o] = "ok" => answer[o] = "ok" \/ <<o, "ok">> \in q.told
  BY <1>2 DEF SalesPush!Reply, PushInv, PushTypes
<1>9. \A o \in Sales : answer'[o] = "ok" => OnRecord(o, docs, stamped, kind)
  BY <1>2, <1>8, Zenon DEF PushInv, SalesHeld, Pushing
<1>10. SalesHeld'
  BY <1>1, <1>5, <1>9 DEF PushInv, SalesHeld, SalesPush!Covered, OnRecord
<1>11. DocsSound' /\ PushTypes'
  BY <1>1, <1>5, <1>7 DEF PushInv, DocsSound, PushTypes
<1> QED BY <1>5, <1>6, <1>10, <1>11 DEF PushInv

LEMMA SaleCrashed ==
  ASSUME SalesPush!PushShape, PushInv, NEW s \in Requests, SalesPush!Crash(s)
  PROVE  PushInv'
<1>1. UNCHANGED <<counter, docs, stamped, key, local, kind, printed, answer, runs>>
      /\ slot[s].batch # <<>> /\ slot' = [slot EXCEPT ![s] = SalesPush!Idle]
  BY DEF SalesPush!Crash, SalesPush!device
<1>2. slot[s].pc \notin {"idle", "reply"}
  BY <1>1 DEF PushInv, PushesSound, Pushing
<1>3. PICK o \in Sales : o = SalesPush!Sale(s)
  BY <1>2, SaleKnown
<1>4. cut \subseteq cut' /\ (slot[s].pc = "burn" => o \in cut')
  BY <1>3 DEF SalesPush!Crash, SalesPush!At
<1>5. SalesPush!Idle \in Batches /\ SalesPush!Idle.pc = "idle"
      /\ Pushing(SalesPush!Idle, docs', stamped', kind', key')
  BY DEF SalesPush!Idle, Batches, Pushing
<1>6. Grows(docs, stamped, kind, key, docs', stamped', kind', key')
  BY <1>1, KeysStay, Zenon DEF Grows, PushInv, PushTypes
<1>7. /\ slot' \in [Requests -> Batches] /\ PushesSound'
      /\ \A p \in Sales : SalesPush!Burning(p) /\ (slot[s].pc # "burn" \/ p # o) => SalesPush!Burning(p)'
      /\ \A p \in Sales : Handling(p)' = Handling(p) \ {s}
  BY <1>1, <1>3, <1>5, <1>6, PushGoesOn, Zenon
<1>8. ClaimsCounted'
  BY <1>1, <1>7, ClaimsEnd
<1>9. SalesHeld'
  <2>1. \A p \in Sales : SalesPush!Covered(p) \/ SalesPush!Burning(p) \/ p \in cut => (SalesPush!Covered(p) \/ SalesPush!Burning(p) \/ p \in cut)'
    BY <1>1, <1>4, <1>7 DEF SalesPush!Covered
  <2> QED BY <1>1, <2>1 DEF PushInv, SalesHeld, OnRecord
<1>10. DocsSound' /\ PushTypes'
  BY <1>1, <1>7 DEF PushInv, DocsSound, PushTypes
<1> QED BY <1>7, <1>8, <1>9, <1>10 DEF PushInv

\* Requests are where they were, beside what the step writes.
LEMMA PushesWait ==
  ASSUME SalesPush!PushShape, PushInv, UNCHANGED slot,
         Grows(docs, stamped, kind, key, docs', stamped', kind', key')
  PROVE  slot' \in [Requests -> Batches] /\ PushesSound'
         /\ \A o \in Sales : Handling(o)' = Handling(o) /\ SalesPush!Burning(o)' = SalesPush!Burning(o)
<1>1. slot' \in [Requests -> Batches]
  BY DEF PushInv, PushTypes
<1>2. ASSUME NEW z \in Requests PROVE Pushing(slot'[z], docs', stamped', kind', key')
  <2>1. PICK q \in Batches : q = slot[z] /\ q = slot'[z]
    BY <1>1
  <2>2. Pushing(q, docs, stamped, kind, key)
    BY <2>1 DEF PushInv, PushesSound
  <2>3. Pushing(q, docs', stamped', kind', key')
    BY <2>2, PushingKept, Zenon
  <2> QED BY <2>1, <2>3
<1>3. \A o \in Sales : Handling(o)' = Handling(o) /\ SalesPush!Burning(o)' = SalesPush!Burning(o)
  BY DEF Handling, SalesPush!Burning, SalesPush!At, SalesPush!Sale
<1> QED BY <1>1, <1>2, <1>3 DEF PushesSound

LEMMA LockExpired ==
  ASSUME SalesPush!PushShape, PushInv, NEW o \in Sales, SalesPush!Expire(o)
  PROVE  PushInv'
<1>1. UNCHANGED <<counter, docs, stamped, local, kind, printed, answer, slot, cut>>
      /\ SalesPush!Locked(key[o])
  BY DEF SalesPush!Expire, SalesPush!device
<1>2. PICK k \in KeyRows : k = key[o]
  BY DEF PushInv, PushTypes
<1>3. PICK l : l = [k EXCEPT !.stale = TRUE]
  BY Zenon
<1>4. l \in KeyRows /\ l.status = k.status /\ l.lock = k.lock /\ l.stale = TRUE
      /\ l.result = k.result
  BY <1>3, Zenon DEF KeyRows
<1>5. k.status = "processing"
  BY <1>1, <1>2 DEF SalesPush!Locked
<1>6. key' = [key EXCEPT ![o] = l] /\ KeyMoves(k, l) /\ (l.result # 0 => RowOf(o, l.result) \in docs)
  BY <1>2, <1>3, <1>4, <1>5 DEF SalesPush!Expire, KeyMoves, PushInv, SalesHeld
<1>7. /\ key' \in [Sales -> KeyRows] /\ \A p \in Sales : KeyMoves(key[p], key'[p])
      /\ \A p \in Sales : key'[p].result # 0 => RowOf(p, key'[p].result) \in docs
      /\ key'[o] = l /\ \A p \in Sales \ {o} : Spare(key'[p]) <= Spare(key[p])
  BY <1>2, <1>4, <1>6, KeyTurns, Zenon
<1>8. Grows(docs, stamped, kind, key, docs', stamped', kind', key')
  BY <1>1, <1>7 DEF Grows, PushInv, PushTypes
<1>9. slot' \in [Requests -> Batches] /\ PushesSound'
      /\ \A p \in Sales : Handling(p)' = Handling(p) /\ SalesPush!Burning(p)' = SalesPush!Burning(p)
  BY <1>1, <1>8, PushesWait
<1>10. runs' \in [Sales -> Nat] /\ runs'[o] = runs[o] + 1
       /\ \A p \in Sales \ {o} : runs'[p] = runs[p]
  BY DEF SalesPush!Expire, PushInv, PushTypes
<1>11. ClaimsCounted'
  <2>1. ASSUME NEW p \in Sales
        PROVE  ClaimsBalanced(DocsOf(p), Handling(p), Spare(key[p]), 1 + runs[p], 0, 0,
                        DocsOf(p)', Handling(p)', Spare(key'[p]), 1 + runs'[p])
    <3>1. DocsOf(p)' = DocsOf(p) /\ Handling(p)' = Handling(p)
      BY <1>1, <1>9 DEF DocsOf
    <3>2. CASE p = o
      <4>1. runs[p] \in Nat /\ 1 + runs'[p] = 1 + runs[p] + 1
        BY <1>10, <3>2 DEF PushInv, PushTypes
      <4> QED BY <3>1, <4>1 DEF ClaimsBalanced
    <3>3. CASE p # o
      <4>1. 1 + runs'[p] = 1 + runs[p] /\ Spare(key'[p]) <= Spare(key[p])
        BY <1>7, <1>10, <3>3
      <4> QED BY <3>1, <4>1 DEF ClaimsBalanced
    <3> QED BY <3>2, <3>3
  <2>2. IsFiniteSet(docs')
    BY <1>1 DEF PushInv, ClaimsCounted
  <2> QED BY <1>10, <2>1, <2>2, ClaimsNext
<1>12. SalesHeld'
  BY <1>1, <1>4, <1>5, <1>7, <1>9 DEF PushInv, SalesHeld, SalesPush!Covered, OnRecord, KeyMoves
<1>13. DocsSound' /\ PushTypes'
  BY <1>1, <1>7, <1>9, <1>10 DEF PushInv, DocsSound, PushTypes
<1> QED BY <1>9, <1>11, <1>12, <1>13 DEF PushInv

LEMMA SaleMade ==
  ASSUME SalesPush!PushShape, PushInv, NEW o \in Sales, NEW k \in {"printed", "plain", "web"},
         SalesPush!Make(o, k)
  PROVE  PushInv'
<1>1. UNCHANGED <<counter, docs, stamped, key, answer, slot, runs, cut>> /\ kind[o] = "none"
      /\ kind' = [kind EXCEPT ![o] = k]
  BY DEF SalesPush!Make
<1>2. kind' \in [Sales -> {"none", "printed", "plain", "web"}] /\ kind'[o] = k
      /\ \A p \in Sales \ {o} : kind'[p] = kind[p]
  BY <1>1 DEF PushInv, PushTypes
<1>3. local' \in Nat /\ printed' \in [Sales -> Nat] /\ (k = "printed" <=> printed'[o] # 0)
      /\ \A p \in Sales \ {o} : printed'[p] = printed[p]
  <2>1. local \in Nat /\ counter \in Nat /\ printed \in [Sales -> Nat]
        /\ (kind[o] = "printed" <=> printed[o] # 0)
    BY DEF PushInv, PushTypes, DocsSound
  <2>2. CASE k # "printed"
    BY <1>1, <2>1, <2>2 DEF SalesPush!Make
  <2>3. CASE k = "printed"
    <3>1. PICK from \in {local, SalesPush!Larger(local, counter)} :
            local' = from + 1 /\ printed' = [printed EXCEPT ![o] = from + 1]
      BY <2>3 DEF SalesPush!Make
    <3>2. from \in Nat /\ from + 1 \in Nat /\ from + 1 # 0
      BY <2>1 DEF SalesPush!Larger
    <3> QED BY <2>1, <2>3, <3>1, <3>2
  <2> QED BY <2>2, <2>3
<1>4. \A d \in docs : d.sale # o /\ d.sale \in Sales
  BY <1>1 DEF PushInv, DocsSound, PushTypes
<1>5. stamped[o] = 0
  <2>1. RowOf(o, stamped[o]).sale = o
    BY DEF RowOf
  <2> QED BY <1>4, <2>1 DEF PushInv, SalesHeld
<1>6. Grows(docs, stamped, kind, key, docs', stamped', kind', key')
  BY <1>1, <1>2, KeysStay DEF Grows, PushInv, PushTypes
<1>7. slot' \in [Requests -> Batches] /\ PushesSound'
      /\ \A p \in Sales : Handling(p)' = Handling(p) /\ SalesPush!Burning(p)' = SalesPush!Burning(p)
  BY <1>1, <1>6, PushesWait
<1>8. ClaimsCounted'
  BY <1>1, <1>7, ClaimsEnd
<1>9. SalesHeld'
  <2>1. \A p \in Sales : answer[p] = "ok" => p # o
    BY <1>1, <1>4, <1>5 DEF PushInv, SalesHeld, OnRecord
  <2> QED BY <1>1, <1>2, <1>3, <1>5, <1>7, <2>1
     DEF PushInv, SalesHeld, SalesPush!Covered, OnRecord
<1>10. DocsSound'
  BY <1>1, <1>2, <1>3, <1>4 DEF PushInv, DocsSound
<1>11. PushTypes'
  BY <1>1, <1>2, <1>3, <1>7 DEF PushInv, PushTypes
<1> QED BY <1>7, <1>8, <1>9, <1>10, <1>11 DEF PushInv

LEMMA PushNext ==
  ASSUME SalesPush!PushShape, PushInv, SalesPush!Next
  PROVE  PushInv'
<1>1. ASSUME NEW o \in Sales, \/ SalesPush!Expire(o)
                              \/ \E k \in {"printed", "plain", "web"} : SalesPush!Make(o, k)
      PROVE  PushInv'
  BY <1>1, LockExpired, SaleMade
<1>2. ASSUME NEW s \in Requests, \/ SalesPush!Push(s) \/ \E o \in Sales : SalesPush!Post(s, o)
                                 \/ SalesPush!Match(s) \/ SalesPush!Guard(s) \/ SalesPush!Claim(s) \/ SalesPush!Reclaim(s)
      PROVE  PushInv'
  BY <1>2, BatchPushed, SalePosted, EchoMatched, NumberGuarded, KeyClaimed, KeyReclaimed
<1>3. ASSUME NEW s \in Requests, \/ SalesPush!Create(s) \/ SalesPush!NumberTaken(s) \/ SalesPush!CreateFails(s)
                                 \/ \E saved \in BOOLEAN : SalesPush!Finish(s, saved)
      PROVE  PushInv'
  BY <1>3, SaleWritten, NumberTakenStep, CreateFailsStep, OutcomeRecorded
<1>4. ASSUME NEW s \in Requests, \/ SalesPush!Stamp(s) \/ SalesPush!Burn(s)
                                 \/ \E silent \in BOOLEAN : SalesPush!Reply(s, silent)
                                 \/ SalesPush!Crash(s)
      PROVE  PushInv'
  BY <1>4, SaleStamped, NumberBurnedStep, PushReplied, SaleCrashed
<1> QED BY <1>1, <1>2, <1>3, <1>4 DEF SalesPush!Next

LEMMA PushStep ==
  ASSUME SalesPush!PushShape, PushInv, [SalesPush!Next]_(SalesPush!vars)
  PROVE  PushInv'
<1>1. CASE UNCHANGED SalesPush!vars
  <2>1. UNCHANGED <<counter, docs, stamped, key, local, kind, printed, answer, slot, runs, cut>>
    BY <1>1 DEF SalesPush!vars
  <2>2. Grows(docs, stamped, kind, key, docs', stamped', kind', key')
    BY <2>1, KeysStay DEF Grows, PushInv, PushTypes
  <2>3. PushesSound' /\ \A o \in Sales : Handling(o)' = Handling(o) /\ SalesPush!Burning(o)' = SalesPush!Burning(o)
    BY <2>1, <2>2, PushesWait
  <2>4. ClaimsCounted'
    BY <2>1, <2>3, ClaimsEnd
  <2>5. SalesHeld'
    BY <2>1, <2>3 DEF PushInv, SalesHeld, SalesPush!Covered, OnRecord
  <2>6. DocsSound' /\ PushTypes'
    BY <2>1 DEF PushInv, DocsSound, PushTypes
  <2> QED BY <2>3, <2>4, <2>5, <2>6 DEF PushInv
<1>2. CASE SalesPush!Next
  BY <1>2, PushNext
<1> QED BY <1>1, <1>2

\* That part runs by itself.
LEMMA PushRuns ==
  ASSUME [Next]_vars, part' = "push"
  PROVE  part = "push" /\ [SalesPush!Next]_(SalesPush!vars)
<1>1. CASE UNCHANGED vars
  <2>1. part' = part /\ pushVars' = pushVars
    BY <1>1 DEF vars
  <2> QED BY <2>1 DEF pushVars, SalesPush!vars
<1>2. CASE Next
  BY <1>2 DEF Next, Only
<1> QED BY <1>1, <1>2

LEMMA PushAlways == Spec => [](part = "push" => PushInv)
<1> DEFINE I == part = "push" => PushInv
<1>1. Init => I
  BY PushInit, ProtocolShape DEF Init
<1>2. I /\ [Next]_vars => I'
  <2> SUFFICES ASSUME I, [Next]_vars, part' = "push" PROVE PushInv'
    OBVIOUS
  <2>1. part = "push" /\ [SalesPush!Next]_(SalesPush!vars)
    BY PushRuns
  <2> QED BY <2>1, PushStep, ProtocolShape
<1> QED BY <1>1, <1>2, PTL DEF Spec

\* For any number of sales, requests, crashes and expired locks: a sale pushed or posted becomes
\* one document, and one more for each time its lock expired and its key was claimed again
\* (sync push, the idempotency middleware).
THEOREM OneDocumentPerClaimAlways == Spec => []OneDocumentPerClaim
<1>1. (part = "push" => PushInv) => OneDocumentPerClaim
  BY PushGives, ProtocolShape DEF OneDocumentPerClaim
<1> QED BY <1>1, PushAlways, PTL

\* For any number of sales, requests, crashes and expired locks: a sale the client was told is
\* written stands under the number on the customer's copy, and the series has moved past it
\* unless a request is about to move it or died at that point (sync push, deviceSeries).
THEOREM PrintedIsKeptAlways == Spec => []PrintedIsKept
<1>1. (part = "push" => PushInv) => PrintedIsKept
  BY PushGives, ProtocolShape DEF PrintedIsKept
<1> QED BY <1>1, PushAlways, PTL

-----------------------------------------------------------------------------
\* What a request carries, what a device knows of a customer, and whose phone is whose.
Bases == [version : Nat, edit : 0..RecordRequests]
Editings == [pc : {"idle", "create", "check", "look", "update", "insert", "overwrite"},
             edit : 0..RecordRequests, doc : {0} \cup Contacts, phone : Phones, base : Bases,
             file : Seq(Phones), update : BOOLEAN, creates : SUBSET Phones,
             updates : SUBSET (Contacts \X Phones), created : Nat, alone : BOOLEAN]
Customers == [state : {"none", "live", "deleted"}, phone : Phones, version : Nat,
              edit : 0..RecordRequests]
KnownOf(b, c, wrote) ==
  b # Book!Unknown => /\ c.state # "none" /\ c.version >= b.version
                      /\ c.version = b.version => c.edit = b.edit \/ c.edit \in wrote
LinesKept(r) ==
  /\ IsFiniteSet(r.creates) /\ IsFiniteSet(r.updates)
  /\ Cardinality(Book!Lines(r.file)) = Cardinality(r.creates) + Cardinality(r.updates)
  /\ \A x \in r.updates : x[2] \notin r.creates
EditCarries(r) ==
  /\ r.pc # "idle" => r.edit # 0
  /\ r.pc = "create" => r.doc = 0
  /\ r.pc \in {"check", "look", "update"} => r.doc \in Contacts
  /\ r.pc \in {"insert", "overwrite"} => LinesKept(r)
  /\ r.pc = "overwrite" /\ r.alone => r.created = Cardinality(r.creates)
\* The edit that stands on the customer a pushed edit was checked against.
Stands(r, book, wrote) ==
  r.pc \in {"look", "update"} /\ r.base # Book!Unknown =>
    /\ book[r.doc].state # "none"
    /\ book[r.doc].edit = r.base.edit \/ book[r.doc].edit \in wrote
\* Whom a request that has looked for its number may have missed.
Cleared(r, book, unheard) ==
  r.pc \in {"create", "update"} =>
    \A c \in Contacts :
      book[c].state = "live" /\ c # r.doc /\ Book!Same(book[c].phone, r.phone) =>
        book[c].phone \notin Compact \/ book[c].phone \in unheard
\* Nobody else has taken the phones of the customers an import updates.
Unmoved(r, book) ==
  \A x \in r.updates, c \in Contacts : book[c].state = "live" /\ book[c].phone = x[2] => c = x[1]

BookTypes ==
  /\ doc \in [Contacts -> Customers] /\ device \in [Contacts -> Bases]
  /\ editing \in [Requests -> Editings] /\ edited \in 0..RecordRequests
  /\ imported \subseteq 1..RecordRequests /\ meanwhile \subseteq 1..RecordRequests
  /\ typed \subseteq Phones /\ clobbered \subseteq 0..RecordRequests
\* What a device, or the request it pushed, knows of a customer: the edit that stands is the
\* one it knows, if the version is, or an import's.
DevicesSound == \A d \in Contacts : KnownOf(device[d], doc[d], imported)
EditingsSound ==
  \A s \in Requests :
    /\ EditCarries(editing[s])
    /\ editing[s].pc = "check" => KnownOf(editing[s].base, doc[editing[s].doc], imported)
    /\ Stands(editing[s], doc, imported \cup meanwhile)
    /\ Cleared(editing[s], doc, typed)
    /\ editing[s].pc = "insert" /\ editing[s].alone =>
         \A d \in Book!Live : doc[d].phone \notin editing[s].creates
    /\ editing[s].pc \in {"insert", "overwrite"} /\ editing[s].alone => Unmoved(editing[s], doc)
    /\ editing[s].pc # "idle" /\ editing[s].alone => \A z \in Requests \ {s} : editing[z].pc = "idle"
OnePhone == \A c, d \in Contacts :
  doc[c].state = "live" /\ doc[d].state = "live" /\ doc[c].phone = doc[d].phone => c = d
Excused(c, d, wrote, unheard) ==
  \/ c.edit \in wrote \/ d.edit \in wrote
  \/ c.phone \notin Compact \/ d.phone \notin Compact
  \/ c.phone \in unheard \/ d.phone \in unheard
OneNumber == \A c, d \in Contacts :
  /\ doc[c].state = "live" /\ doc[d].state = "live" /\ c # d
  /\ Book!Same(doc[c].phone, doc[d].phone)
  => Excused(doc[c], doc[d], imported, typed)
\* Safe, and its strengthening.
BookInv ==
  /\ BookTypes /\ DevicesSound /\ EditingsSound /\ OnePhone /\ OneNumber
  /\ clobbered \subseteq imported \cup meanwhile /\ misreported = FALSE

\* Sets are counted in the module as they are here.
LEMMA BookCounted == \A S : Book!Cardinality(S) = Cardinality(S)
BY DEF Book!Cardinality, Cardinality

LEMMA IdleEditing ==
  ASSUME Book!RecordsShape
  PROVE  /\ Book!Idle \in Editings /\ Book!Idle.pc = "idle" /\ Book!Idle.doc = 0
         /\ Book!Idle.base = Book!Unknown /\ Book!Unknown \in Bases
         /\ EditCarries(Book!Idle)
         /\ \A book, wrote : Stands(Book!Idle, book, wrote) /\ Cleared(Book!Idle, book, wrote)
<1>1. /\ 0 \in 0..RecordRequests /\ <<>> \in Seq(Phones) /\ {} \in SUBSET Phones
      /\ {} \in SUBSET (Contacts \X Phones) /\ 0 \in Nat
  BY DEF Book!RecordsShape
<1>2. Book!Unknown \in Bases
  BY <1>1 DEF Book!Unknown, Bases
<1>3. PICK x \in Phones : x = Book!AnyPhone
  BY DEF Book!AnyPhone, Book!RecordsShape
<1>4. Book!Idle \in Editings
  BY <1>1, <1>2, <1>3 DEF Book!Idle, Editings
<1> QED BY <1>2, <1>4 DEF Book!Idle, EditCarries, Stands, Cleared

LEMMA BookInit == ASSUME Book!RecordsShape, Book!Init PROVE BookInv
<1>1. PICK p \in Phones : doc \in {[d \in Contacts |-> Book!NoDoc],
                                  [d \in Contacts |-> IF d = 1 THEN Book!New(p, 0) ELSE Book!NoDoc]}
  BY DEF Book!Init
<1>2. Book!NoDoc \in Customers /\ Book!NoDoc.state = "none" /\ Book!New(p, 0) \in Customers
  <2>1. PICK x \in Phones : x = Book!AnyPhone
    BY <1>1 DEF Book!AnyPhone
  <2>2. 0 \in 0..RecordRequests /\ 0 \in Nat /\ 1 \in Nat
    BY DEF Book!RecordsShape
  <2> QED BY <2>1, <2>2 DEF Book!NoDoc, Book!New, Customers
<1>3. doc \in [Contacts -> Customers] /\ \A d \in Contacts : doc[d].state = "live" => d = 1
  BY <1>1, <1>2
<1>4. BookTypes
  BY <1>3, IdleEditing DEF BookTypes, Book!Init, Book!RecordsShape
<1>5. DevicesSound
  BY DEF DevicesSound, Book!Init, KnownOf
<1>6. EditingsSound
  BY IdleEditing DEF EditingsSound, Book!Init
<1>7. OnePhone /\ OneNumber
  BY <1>3 DEF OnePhone, OneNumber
<1> QED BY <1>4, <1>5, <1>6, <1>7 DEF BookInv, Book!Init

LEMMA BookGives == ASSUME Book!RecordsShape, BookInv PROVE Book!TypeOK /\ Book!RecordsSound
<1>1. Book!TypeOK
  <2>1. misreported \in BOOLEAN
    BY Zenon DEF BookInv
  <2> QED BY <2>1, Zenon DEF BookInv, BookTypes, Book!TypeOK, Customers, Bases, Editings
<1>2. ASSUME NEW p \in Phones PROVE Cardinality(Book!Holder(p)) <= 1
  <2>1. CASE Book!Holder(p) = {}
    BY <2>1, FS_EmptySet
  <2>2. ASSUME NEW c \in Book!Holder(p) PROVE Cardinality(Book!Holder(p)) <= 1
    <3>1. Book!Holder(p) = {c}
      BY <2>2 DEF BookInv, OnePhone, Book!Holder, Book!Live
    <3>2. Cardinality({c}) = 1
      BY FS_Singleton
    <3> QED BY <3>1, <3>2
  <2> QED BY <2>1, <2>2
<1>3. \A p \in Phones : Book!Cardinality(Book!Holder(p)) <= 1
  BY <1>2, BookCounted
<1>4. ASSUME NEW c \in Book!Live, NEW d \in Book!Live, c # d, Book!Same(doc[c].phone, doc[d].phone)
      PROVE  \/ {doc[c].edit, doc[d].edit} \cap imported # {}
             \/ ~({doc[c].phone, doc[d].phone} \subseteq Compact)
             \/ {doc[c].phone, doc[d].phone} \cap typed # {}
  <2>1. Excused(doc[c], doc[d], imported, typed)
    BY <1>4 DEF BookInv, OneNumber, Book!Live
  <2> QED BY <2>1 DEF Excused
<1> QED BY <1>1, <1>3, <1>4 DEF BookInv, Book!RecordsSound, Book!NoSilentClobber, Book!BookExact

\* What a step of one request leaves of the others, whatever it writes.
LEMMA EditingGoes ==
  ASSUME Book!RecordsShape, BookInv, NEW s \in Requests, NEW r \in Editings,
         editing[s].pc # "idle",
         editing' = [editing EXCEPT ![s] = r],
         EditCarries(r), r.pc # "check", r.pc # "insert",
         r.pc # "idle" => r.alone = editing[s].alone,
         r.pc = "overwrite" /\ r.alone => Unmoved(r, doc'),
         Stands(r, doc', imported' \cup meanwhile'), Cleared(r, doc', typed'),
         \A z \in Requests \ {s} : Stands(editing[z], doc', imported' \cup meanwhile'),
         \A z \in Requests \ {s} : Cleared(editing[z], doc', typed'),
         \A d \in Contacts, b \in Bases : KnownOf(b, doc[d], imported) => KnownOf(b, doc'[d], imported')
  PROVE  editing' \in [Requests -> Editings] /\ EditingsSound'
<1>1. editing \in [Requests -> Editings] /\ editing'[s] = r
      /\ \A z \in Requests \ {s} : editing'[z] = editing[z]
  BY DEF BookInv, BookTypes
<1>2. ASSUME NEW z \in Requests
      PROVE  /\ EditCarries(editing'[z]) /\ Stands(editing'[z], doc', imported' \cup meanwhile')
             /\ Cleared(editing'[z], doc', typed')
  BY <1>1 DEF BookInv, EditingsSound
<1>3. ASSUME NEW z \in Requests, editing'[z].pc = "check"
      PROVE  KnownOf(editing'[z].base, doc'[editing'[z].doc], imported')
  <2>1. z # s /\ editing'[z] = editing[z]
    BY <1>1, <1>3
  <2>2. editing[z].doc \in Contacts /\ editing[z].base \in Bases
        /\ KnownOf(editing[z].base, doc[editing[z].doc], imported)
    BY <1>1, <1>3, <2>1 DEF BookInv, EditingsSound, EditCarries, Editings
  <2> QED BY <2>1, <2>2
<1>4. ASSUME NEW z \in Requests, editing'[z].pc \in {"insert", "overwrite"}, editing'[z].alone
      PROVE  z = s
  <2>1. ASSUME z # s PROVE FALSE
    <3>1. editing'[z] = editing[z]
      BY <1>1, <2>1
    <3> QED BY <1>4, <2>1, <3>1 DEF BookInv, EditingsSound
  <2> QED BY <2>1
<1>5. ASSUME NEW z \in Requests, editing'[z].pc # "idle", editing'[z].alone, NEW u \in Requests \ {z}
      PROVE  editing'[u].pc = "idle"
  <2>1. CASE z = s
    <3>1. editing[s].alone
      BY <1>1, <1>5, <2>1
    <3> QED BY <1>1, <2>1, <3>1 DEF BookInv, EditingsSound
  <2>2. CASE z # s
    BY <1>1, <1>5, <2>2 DEF BookInv, EditingsSound
  <2> QED BY <2>1, <2>2
<1>6. \A z \in Requests : editing'[z].pc \in {"insert", "overwrite"} /\ editing'[z].alone =>
        editing'[z].pc = "overwrite" /\ Unmoved(editing'[z], doc')
  BY <1>1, <1>4
<1> QED BY <1>1, <1>2, <1>3, <1>5, <1>6 DEF EditingsSound

\* A request that has looked for its number hears of every phone of that number written since.
LEMMA ClearedKept ==
  ASSUME Book!RecordsShape, BookInv, NEW s \in Requests, NEW P, typed' = Book!Races(s, P),
         \A c \in Contacts : doc'[c].state = "live" =>
           (doc[c].state = "live" /\ doc'[c].phone = doc[c].phone) \/ doc'[c].phone \in P
  PROVE  \A z \in Requests \ {s} : Cleared(editing[z], doc', typed')
<1> SUFFICES ASSUME NEW z \in Requests \ {s}, editing[z].pc \in {"create", "update"},
                    NEW c \in Contacts, doc'[c].state = "live", c # editing[z].doc,
                    Book!Same(doc'[c].phone, editing[z].phone)
             PROVE  doc'[c].phone \notin Compact \/ doc'[c].phone \in typed'
  BY Zenon DEF Cleared
<1>1. Cleared(editing[z], doc, typed)
  BY DEF BookInv, EditingsSound
<1>2. CASE doc[c].state = "live" /\ doc'[c].phone = doc[c].phone
  BY <1>1, <1>2 DEF Cleared, Book!Races
<1>3. CASE doc'[c].phone \in P
  BY <1>3 DEF Book!Races, Book!Looked, Book!Same
<1> QED BY <1>2, <1>3

\* Nobody's phone is new: those who have looked have seen it.
LEMMA ClearedStill ==
  ASSUME BookInv, typed' = typed,
         \A c \in Contacts : doc'[c].state = "live" =>
           doc[c].state = "live" /\ doc'[c].phone = doc[c].phone
  PROVE  \A z \in Requests : Cleared(editing[z], doc', typed')
<1> SUFFICES ASSUME NEW z \in Requests, editing[z].pc \in {"create", "update"},
                    NEW c \in Contacts, doc'[c].state = "live", c # editing[z].doc,
                    Book!Same(doc'[c].phone, editing[z].phone)
             PROVE  doc'[c].phone \notin Compact \/ doc'[c].phone \in typed'
  BY Zenon DEF Cleared
<1>1. Cleared(editing[z], doc, typed)
  BY DEF BookInv, EditingsSound
<1> QED BY <1>1 DEF Cleared

\* What stands on a customer stands, or an import wrote it.
LEMMA StandsKept ==
  ASSUME BookInv, imported \subseteq imported', meanwhile' = meanwhile,
         \A d \in Contacts : doc[d].state # "none" =>
           /\ doc'[d].state # "none"
           /\ doc'[d].edit = doc[d].edit \/ doc'[d].edit \in imported'
  PROVE  \A z \in Requests : Stands(editing[z], doc', imported' \cup meanwhile')
<1> SUFFICES ASSUME NEW z \in Requests, editing[z].pc \in {"look", "update"}, editing[z].base # Book!Unknown
             PROVE  /\ doc'[editing[z].doc].state # "none"
                    /\ \/ doc'[editing[z].doc].edit = editing[z].base.edit
                       \/ doc'[editing[z].doc].edit \in imported' \cup meanwhile'
  BY Zenon DEF Stands
<1>1. editing[z].doc \in Contacts /\ Stands(editing[z], doc, imported \cup meanwhile)
  BY DEF BookInv, EditingsSound, EditCarries
<1> QED BY <1>1 DEF Stands

\* A customer nobody's write touched, but for its state, is excused as before.
LEMMA NumbersStill ==
  ASSUME BookInv, imported \subseteq imported', typed \subseteq typed',
         \A c \in Contacts : doc'[c].state = "live" =>
           \/ /\ doc[c].state = "live" /\ doc'[c].phone = doc[c].phone /\ doc'[c].edit = doc[c].edit
           \/ doc'[c].edit \in imported'
  PROVE  OneNumber'
<1> SUFFICES ASSUME NEW c \in Contacts, NEW d \in Contacts, doc'[c].state = "live",
                    doc'[d].state = "live", c # d, Book!Same(doc'[c].phone, doc'[d].phone)
             PROVE  Excused(doc'[c], doc'[d], imported', typed')
  BY DEF OneNumber, Book!Same
<1>1. CASE doc'[c].edit \in imported' \/ doc'[d].edit \in imported'
  BY <1>1 DEF Excused
<1>2. CASE ~(doc'[c].edit \in imported' \/ doc'[d].edit \in imported')
  <2>1. Excused(doc[c], doc[d], imported, typed)
    BY <1>2 DEF BookInv, OneNumber
  <2> QED BY <1>2, <2>1 DEF Excused
<1> QED BY <1>1, <1>2

\* A request that is served: it is alone if nothing else runs, and those that run no longer are.
LEMMA EditingServed ==
  ASSUME Book!RecordsShape, BookInv, NEW s \in Requests, NEW r \in Editings, Book!Serve(s, r),
         r.pc # "idle", r.pc # "overwrite", r.pc # "look",
         r.pc = "create" => r.doc = 0, r.pc \in {"check", "update"} => r.doc \in Contacts,
         r.pc = "update" => r.base = Book!Unknown,
         Cleared(r, doc, typed),
         r.pc = "insert" => /\ LinesKept(r) /\ Unmoved(r, doc)
                            /\ \A d \in Book!Live : doc[d].phone \notin r.creates,
         r.pc = "check" => KnownOf(r.base, doc[r.doc], imported),
         UNCHANGED <<doc, device, Book!ghosts>>
  PROVE  BookInv'
<1>1. PICK b \in BOOLEAN : b = (Book!Busy = {})
  BY Zenon
<1>2. PICK e \in 1..RecordRequests : e = edited + 1 /\ edited' = e
  <2>1. edited \in 0..RecordRequests /\ RecordRequests \in Nat
    BY DEF BookInv, BookTypes, Book!RecordsShape
  <2>2. edited < RecordRequests /\ edited' = edited + 1
    BY Zenon DEF Book!Serve
  <2>3. edited + 1 \in 1..RecordRequests
    BY <2>1, <2>2
  <2> QED BY <2>2, <2>3
<1>3. PICK q : q = [r EXCEPT !.edit = e, !.alone = b]
  OBVIOUS
<1>4. q \in Editings /\ q.pc = r.pc /\ q.alone = b /\ EditCarries(q)
      /\ q.creates = r.creates /\ q.updates = r.updates /\ q.phone = r.phone
      /\ q.base = r.base /\ q.doc = r.doc
  <2>1. e \in 0..RecordRequests /\ e # 0
    BY <1>2 DEF Book!RecordsShape
  <2>2. q \in Editings /\ q.edit = e
    BY <1>1, <1>3, <2>1, Zenon DEF Editings
  <2> QED BY <1>3, <2>1, <2>2 DEF EditCarries, LinesKept, Editings
<1>5. /\ editing' = [z \in Requests |-> IF z = s THEN q ELSE [editing[z] EXCEPT !.alone = FALSE]]
      /\ editing[s].pc = "idle"
  BY <1>1, <1>2, <1>3, Zenon DEF Book!Serve, Book!At
<1>6. \A z \in Requests \ {s} : /\ editing'[z] \in Editings /\ editing'[z].pc = editing[z].pc
                                /\ editing'[z].alone = FALSE /\ EditCarries(editing'[z])
                                /\ editing'[z].base = editing[z].base /\ editing'[z].doc = editing[z].doc
                                /\ editing'[z].phone = editing[z].phone
  <2> SUFFICES ASSUME NEW z \in Requests \ {s}
               PROVE  /\ editing'[z] \in Editings /\ editing'[z].pc = editing[z].pc
                      /\ editing'[z].alone = FALSE /\ EditCarries(editing'[z])
                      /\ editing'[z].base = editing[z].base /\ editing'[z].doc = editing[z].doc
                      /\ editing'[z].phone = editing[z].phone
    BY Zenon
  <2>1. PICK x \in Editings : x = editing[z] /\ EditCarries(x)
    BY DEF BookInv, BookTypes, EditingsSound
  <2>2. PICK y : y = [x EXCEPT !.alone = FALSE]
    BY Zenon
  <2>3. y \in Editings /\ y.pc = x.pc /\ y.alone = FALSE /\ y.base = x.base /\ y.doc = x.doc
        /\ y.phone = x.phone /\ EditCarries(y)
    BY <2>1, <2>2, Zenon DEF Editings, EditCarries, LinesKept
  <2> QED BY <1>5, <2>1, <2>2, <2>3, Zenon
<1>7. editing' \in [Requests -> Editings] /\ editing'[s] = q
  BY <1>4, <1>5, <1>6
<1>8. b => \A z \in Requests \ {s} : editing'[z].pc = "idle"
  BY <1>1, <1>6, Zenon DEF Book!Busy
<1>9. doc' = doc /\ device' = device /\ imported' = imported /\ meanwhile' = meanwhile
      /\ typed' = typed /\ clobbered' = clobbered
      /\ misreported' = misreported /\ edited' \in 0..RecordRequests
  BY <1>2 DEF Book!ghosts
<1>10. EditingsSound'
  <2>1. \A z \in Requests : EditCarries(editing'[z])
    BY <1>4, <1>6, <1>7
  <2>2. \A z \in Requests : editing'[z].pc = "check" => KnownOf(editing'[z].base, doc'[editing'[z].doc], imported')
    BY <1>4, <1>6, <1>7, <1>9 DEF BookInv, EditingsSound
  <2>3. \A z \in Requests : editing'[z].pc = "insert" /\ editing'[z].alone =>
          \A d \in Book!Live' : doc'[d].phone \notin editing'[z].creates
    BY <1>4, <1>6, <1>7, <1>9 DEF Book!Live
  <2>4. \A z \in Requests : editing'[z].pc # "idle" /\ editing'[z].alone =>
          \A u \in Requests \ {z} : editing'[u].pc = "idle"
    BY <1>4, <1>6, <1>7, <1>8
  <2>5. ASSUME NEW z \in Requests
        PROVE  Stands(editing'[z], doc', imported' \cup meanwhile') /\ Cleared(editing'[z], doc', typed')
    <3>1. CASE z = s
      BY <1>4, <1>7, <1>9, <3>1 DEF Stands, Cleared
    <3>2. CASE z # s
      <4>1. Stands(editing[z], doc, imported \cup meanwhile) /\ Cleared(editing[z], doc, typed)
        BY DEF BookInv, EditingsSound
      <4> QED BY <1>6, <1>9, <3>2, <4>1 DEF Stands, Cleared
    <3> QED BY <3>1, <3>2
  <2>6. \A z \in Requests : editing'[z].pc \in {"insert", "overwrite"} /\ editing'[z].alone =>
          Unmoved(editing'[z], doc')
    BY <1>4, <1>6, <1>7, <1>9 DEF Unmoved
  <2> QED BY <2>1, <2>2, <2>3, <2>4, <2>5, <2>6 DEF EditingsSound
<1> QED BY <1>7, <1>9, <1>10 DEF BookInv, BookTypes, DevicesSound, OnePhone, OneNumber

\* Whoever finds a phone free has seen everybody's, as far as the lookup sees it.
LEMMA FreeIsCleared ==
  ASSUME NEW r, ~Book!Taken(r.phone, r.doc) PROVE Cleared(r, doc, typed)
BY DEF Cleared, Book!Taken, Book!Live, Book!Same

LEMMA CustomerAsked ==
  ASSUME Book!RecordsShape, BookInv, NEW s \in Requests, NEW p \in Phones, Book!AskCreate(s, p)
  PROVE  BookInv'
<1>1. PICK r : r = [Book!Idle EXCEPT !.pc = "create", !.phone = p]
  OBVIOUS
<1>2. r \in Editings /\ r.pc = "create" /\ r.phone = p /\ r.doc = 0
  BY <1>1, IdleEditing, Zenon DEF Editings
<1>3. Book!Serve(s, r) /\ UNCHANGED <<doc, device, Book!ghosts>> /\ ~Book!Taken(p, 0)
  BY <1>1 DEF Book!AskCreate
<1>4. Cleared(r, doc, typed)
  BY <1>2, <1>3, FreeIsCleared, Zenon
<1> QED BY <1>2, <1>3, <1>4, EditingServed

LEMMA CustomerEdited ==
  ASSUME Book!RecordsShape, BookInv, NEW s \in Requests, NEW d \in Contacts, NEW p \in Phones,
         Book!Edit(s, d, p)
  PROVE  BookInv'
<1>1. PICK r : r = [Book!Idle EXCEPT !.pc = "update", !.doc = d, !.phone = p]
  OBVIOUS
<1>2. r \in Editings /\ r.pc = "update" /\ r.doc = d /\ r.base = Book!Unknown /\ r.phone = p
  BY <1>1, IdleEditing, Zenon DEF Editings
<1>3. Book!Serve(s, r) /\ UNCHANGED <<doc, device, Book!ghosts>> /\ ~Book!Taken(p, d)
  BY <1>1 DEF Book!Edit
<1>4. Cleared(r, doc, typed)
  BY <1>2, <1>3, FreeIsCleared, Zenon
<1> QED BY <1>2, <1>3, <1>4, EditingServed

LEMMA CustomerPushed ==
  ASSUME Book!RecordsShape, BookInv, NEW s \in Requests, NEW d \in Contacts, NEW p \in Phones,
         Book!Push(s, d, p)
  PROVE  BookInv'
<1>1. PICK b \in Bases : b = device[d] /\ KnownOf(b, doc[d], imported)
  BY DEF BookInv, BookTypes, DevicesSound
<1>2. PICK r : r = [Book!Idle EXCEPT !.pc = "check", !.doc = d, !.phone = p, !.base = b]
  OBVIOUS
<1>3. r \in Editings /\ r.pc = "check" /\ r.doc = d /\ r.base = b
  BY <1>2, IdleEditing, Zenon DEF Editings
<1>4. Book!Serve(s, r) /\ UNCHANGED <<doc, device, Book!ghosts>>
  BY <1>1, <1>2 DEF Book!Push
<1>5. Cleared(r, doc, typed)
  BY <1>3 DEF Cleared
<1> QED BY <1>1, <1>3, <1>4, <1>5, EditingServed

\* The lines of a file are those nobody has and the customers the others name.
Sorted(file, C, U) ==
  /\ C = {p \in Book!Lines(file) : Book!Holder(p) = {}}
  /\ U = UNION {Book!Holder(p) \X {p} : p \in Book!Lines(file)}
Counted(file, C, U) ==
  /\ C \in SUBSET Phones /\ U \in SUBSET (Contacts \X Phones)
  /\ IsFiniteSet(C) /\ IsFiniteSet(U)
  /\ Cardinality(Book!Lines(file)) = Cardinality(C) + Cardinality(U)
  /\ \A x \in U : x[2] \notin C /\ doc[x[1]].phone = x[2] /\ x[1] \in Book!Live

LEMMA LinesCounted ==
  ASSUME Book!RecordsShape, BookInv, NEW file \in Seq(Phones),
         NEW C, NEW U, Sorted(file, C, U)
  PROVE  Counted(file, C, U)
<1>0. C = {p \in Book!Lines(file) : Book!Holder(p) = {}}
      /\ U = UNION {Book!Holder(p) \X {p} : p \in Book!Lines(file)}
  BY DEF Sorted
<1>1. IsFiniteSet(Book!Lines(file)) /\ Book!Lines(file) \subseteq Phones
  <2>1. PICK n \in Nat : n = Len(file) /\ file \in [1..n -> Phones]
    OBVIOUS
  <2>2. file \in Surjection(1..n, Book!Lines(file))
    BY <2>1 DEF Book!Lines, Surjection
  <2>3. IsFiniteSet(1..n)
    BY <2>1, FS_Interval
  <2> QED BY <2>1, <2>2, <2>3, FS_Surjection DEF Book!Lines
<1>2. PICK H : H = Book!Lines(file) \ C
  BY Zenon
<1>3. /\ IsFiniteSet(C) /\ IsFiniteSet(H) /\ C \subseteq Book!Lines(file)
      /\ Cardinality(Book!Lines(file)) = Cardinality(C) + Cardinality(H)
  <2>1. C \subseteq Book!Lines(file) /\ H \subseteq Book!Lines(file)
        /\ Book!Lines(file) \cap C = C
    BY <1>0, <1>2
  <2>2. IsFiniteSet(C) /\ IsFiniteSet(H)
    BY <1>1, <2>1, FS_Subset
  <2>3. Cardinality(H) = Cardinality(Book!Lines(file)) - Cardinality(C)
    <3>1. Cardinality(Book!Lines(file) \ C) = Cardinality(Book!Lines(file)) - Cardinality(Book!Lines(file) \cap C)
      BY <1>1, FS_Difference, Zenon
    <3> QED BY <1>2, <2>1, <3>1, Zenon
  <2>4. Cardinality(C) \in Nat /\ Cardinality(Book!Lines(file)) \in Nat
    BY <1>1, <2>2, FS_CardinalityType
  <2> QED BY <2>1, <2>2, <2>3, <2>4
<1>4. PICK f : f = [p \in H |-> <<CHOOSE d : d \in Book!Holder(p), p>>]
  BY Zenon
<1>5. \A p \in H : f[p] = <<f[p][1], p>> /\ f[p][1] \in Book!Holder(p)
  BY <1>0, <1>2, <1>4
<1>6. ASSUME NEW x \in U
      PROVE  /\ x[2] \in H /\ f[x[2]] = x /\ x \in Contacts \X Phones
             /\ doc[x[1]].phone = x[2] /\ x[1] \in Book!Live
  <2>1. PICK p \in Book!Lines(file) : x \in Book!Holder(p) \X {p}
    BY <1>0
  <2>2. x = <<x[1], p>> /\ x[2] = p /\ x[1] \in Book!Holder(p)
    BY <2>1
  <2>3. p \in H /\ p \in Phones
    BY <1>0, <1>1, <1>2, <2>2
  <2>4. f[p][1] = x[1]
    BY <1>5, <2>2, <2>3 DEF BookInv, OnePhone, Book!Holder, Book!Live
  <2>5. f[p] = x
    BY <1>5, <2>2, <2>3, <2>4
  <2> QED BY <2>2, <2>3, <2>5 DEF Book!Holder, Book!Live
<1>7. f \in Surjection(H, U) /\ f \in Injection(H, U)
  <2>1. f \in [H -> U]
    <3>1. ASSUME NEW p \in H PROVE f[p] \in U
      <4>1. PICK d \in Book!Holder(p) : f[p] = <<d, p>>
        BY <1>5
      <4>2. f[p] \in Book!Holder(p) \X {p}
        BY <4>1
      <4> QED BY <1>0, <1>2, <4>2
    <3> QED BY <1>4, <3>1
  <2>2. \A p, q \in H : f[p] = f[q] => p = q
    BY <1>4
  <2>3. \A x \in U : \E p \in H : f[p] = x
    BY <1>6
  <2> QED BY <2>1, <2>2, <2>3 DEF Injection, Surjection, IsInjective
<1>8. IsFiniteSet(U) /\ Cardinality(U) = Cardinality(H)
  BY <1>3, <1>7, FS_Surjection
<1>9. U \in SUBSET (Contacts \X Phones) /\ C \in SUBSET Phones
  BY <1>0, <1>1, <1>6
<1> QED BY <1>2, <1>3, <1>6, <1>8, <1>9 DEF Counted

LEMMA FileImported ==
  ASSUME Book!RecordsShape, BookInv, NEW s \in Requests, NEW file \in Files,
         NEW update \in BOOLEAN,
         Book!Import(s, file, update)
  PROVE  BookInv'
<1>1. PICK C, U : Sorted(file, C, U)
  BY Zenon DEF Sorted
<1>2. file \in Seq(Phones)
  BY DEF Book!RecordsShape
<1>3. PICK r : r = [Book!Idle EXCEPT !.pc = "insert", !.file = file, !.update = update,
                                !.creates = C, !.updates = U]
  OBVIOUS
<1>4. Counted(file, C, U)
  BY <1>1, <1>2, LinesCounted, Zenon
<1>5. r \in Editings /\ r.pc = "insert" /\ r.creates = C /\ r.updates = U /\ LinesKept(r)
  <2>1. /\ r \in Editings /\ r.pc = "insert" /\ r.creates = C /\ r.updates = U
        /\ r.file = file
    BY <1>2, <1>3, <1>4, IdleEditing, Zenon DEF Editings, Counted
  <2> QED BY <1>4, <2>1, Zenon DEF LinesKept, Counted
<1>6. Book!Serve(s, r) /\ UNCHANGED <<doc, device, Book!ghosts>>
  BY <1>1, <1>3, Zenon DEF Book!Import, Sorted
<1>7. \A d \in Book!Live : doc[d].phone \notin C
  BY <1>1 DEF Book!Holder, Sorted
<1>8. Unmoved(r, doc)
  BY <1>4, <1>5 DEF Unmoved, Counted, BookInv, OnePhone, Book!Live
<1>9. Cleared(r, doc, typed)
  BY <1>5 DEF Cleared
<1> QED BY <1>5, <1>6, <1>7, <1>8, <1>9, EditingServed

LEMMA CustomerCreated ==
  ASSUME Book!RecordsShape, BookInv, NEW s \in Requests, Book!Create(s)
  PROVE  BookInv'
<1>1. PICK q \in Editings : q = editing[s] /\ q.pc = "create" /\ Cleared(q, doc, typed) /\ q.doc = 0
  BY DEF Book!Create, Book!At, BookInv, BookTypes, EditingsSound, EditCarries
<1>2. /\ editing' = [editing EXCEPT ![s] = Book!Idle]
      /\ UNCHANGED <<device, edited, imported, meanwhile, clobbered, misreported>>
  BY DEF Book!Create, Book!Go, Book!ghosts
<1>3. CASE UNCHANGED <<doc, typed>>
  <2>1. \A z \in Requests \ {s} : /\ Stands(editing[z], doc', imported' \cup meanwhile')
                                  /\ Cleared(editing[z], doc', typed')
    BY <1>2, <1>3 DEF BookInv, EditingsSound
  <2>2. editing' \in [Requests -> Editings] /\ EditingsSound'
    BY <1>1, <1>2, <1>3, <2>1, IdleEditing, EditingGoes
  <2> QED BY <1>2, <1>3, <2>2 DEF BookInv, BookTypes, DevicesSound, OnePhone, OneNumber
<1>4. CASE ~UNCHANGED <<doc, typed>>
  <2>1. PICK p \in Phones, d \in Contacts :
          /\ p = q.phone /\ Book!Holder(p) = {} /\ Book!Fresh(d)
          /\ doc' = [doc EXCEPT ![d] = Book!New(p, q.edit)] /\ typed' = Book!Races(s, {p})
    BY <1>1, <1>4 DEF Book!Create, Editings
  <2>2. PICK n \in Customers : n = Book!New(p, q.edit) /\ n.phone = p /\ n.edit = q.edit
    <3>1. p \in Phones /\ q.edit \in 0..RecordRequests /\ 1 \in Nat
      BY <1>1 DEF Editings
    <3>2. Book!New(p, q.edit) \in Customers /\ Book!New(p, q.edit).phone = p
          /\ Book!New(p, q.edit).edit = q.edit
      BY <3>1 DEF Book!New, Customers
    <3> QED BY <3>2
  <2>3. doc \in [Contacts -> Customers] /\ doc[d].state = "none"
    BY <2>1 DEF BookInv, BookTypes, Book!Fresh
  <2>4. doc'[d] = n /\ \A c \in Contacts \ {d} : doc'[c] = doc[c]
    BY <2>1, <2>2, <2>3
  <2>5. \A c \in Contacts : doc[c].state = "live" => doc[c].phone # p
    BY <2>1 DEF Book!Holder, Book!Live
  <2>6. OnePhone'
    BY <2>2, <2>4, <2>5 DEF BookInv, OnePhone
  <2>7. ASSUME NEW c \in Contacts, NEW b \in Bases, KnownOf(b, doc[c], imported)
        PROVE  KnownOf(b, doc'[c], imported')
    BY <1>2, <2>3, <2>4, <2>7 DEF KnownOf
  <2>8. \A z \in Requests : Stands(editing[z], doc', imported' \cup meanwhile')
    BY <1>2, <2>3, <2>4, StandsKept
  <2>9. \A z \in Requests \ {s} : Cleared(editing[z], doc', typed')
    <3>1. \A c \in Contacts : doc'[c].state = "live" =>
            (doc[c].state = "live" /\ doc'[c].phone = doc[c].phone) \/ doc'[c].phone \in {p}
      BY <2>2, <2>4
    <3> QED BY <2>1, <3>1, ClearedKept
  <2>10. typed \subseteq typed' /\ typed' \subseteq Phones
    BY <2>1 DEF Book!Races, BookInv, BookTypes
  <2>11. OneNumber'
    <3> SUFFICES ASSUME NEW a \in Contacts, NEW b \in Contacts, doc'[a].state = "live",
                        doc'[b].state = "live", a # b, Book!Same(doc'[a].phone, doc'[b].phone)
                 PROVE  Excused(doc'[a], doc'[b], imported', typed')
      BY DEF OneNumber, Book!Same
    <3>0. \A c \in Contacts \ {d} : doc[c].state = "live" /\ Book!Same(doc[c].phone, p) =>
            doc[c].phone \notin Compact \/ doc[c].phone \in typed
      <4>1. q.doc \notin Contacts
        BY <1>1 DEF Book!RecordsShape
      <4> QED BY <1>1, <2>1, <4>1 DEF Cleared
    <3>1. CASE a # d /\ b # d
      BY <1>2, <2>4, <2>10, <3>1 DEF BookInv, OneNumber, Excused
    <3>2. CASE a = d
      BY <2>2, <2>4, <2>10, <3>0, <3>2 DEF Excused, Book!Same
    <3>3. CASE b = d
      BY <2>2, <2>4, <2>10, <3>0, <3>3 DEF Excused, Book!Same
    <3> QED BY <3>1, <3>2, <3>3
  <2>12. editing' \in [Requests -> Editings] /\ EditingsSound'
    BY <1>1, <1>2, <2>7, <2>8, <2>9, IdleEditing, EditingGoes
  <2>13. DevicesSound'
    BY <1>2, <2>7 DEF BookInv, BookTypes, DevicesSound
  <2>14. doc' \in [Contacts -> Customers]
    BY <2>1, <2>2, <2>3
  <2> QED BY <1>2, <2>6, <2>10, <2>11, <2>12, <2>13, <2>14 DEF BookInv, BookTypes
<1> QED BY <1>3, <1>4

LEMMA CustomerDeleted ==
  ASSUME Book!RecordsShape, BookInv, NEW d \in Contacts, Book!Delete(d)
  PROVE  BookInv'
<1>1. PICK c \in Customers : c = doc[d] /\ c.state = "live"
  BY DEF Book!Delete, Book!Live, BookInv, BookTypes
<1>2. PICK n : n = [c EXCEPT !.state = "deleted", !.version = c.version + 1]
  OBVIOUS
<1>3. n \in Customers /\ n.state = "deleted" /\ n.version = c.version + 1 /\ n.edit = c.edit
  <2>1. c.version + 1 \in Nat
    BY <1>1 DEF Customers
  <2> QED BY <1>1, <1>2, <2>1, Zenon DEF Customers
<1>4. doc' = [doc EXCEPT ![d] = n]
      /\ UNCHANGED <<device, editing, edited, imported, meanwhile, typed, clobbered, misreported>>
  BY <1>1, <1>2, Zenon DEF Book!Delete, Book!ghosts
<1>5. doc' \in [Contacts -> Customers] /\ doc'[d] = n
      /\ \A e \in Contacts \ {d} : doc'[e] = doc[e]
  BY <1>3, <1>4 DEF BookInv, BookTypes
<1>6. \A e \in Contacts : doc'[e].state = "live" => doc[e].state = "live" /\ doc'[e] = doc[e]
  BY <1>3, <1>5
<1>7. ASSUME NEW e \in Contacts, NEW b \in Bases, KnownOf(b, doc[e], imported)
      PROVE  KnownOf(b, doc'[e], imported')
  <2>1. CASE e = d
    BY <1>1, <1>3, <1>5, <1>7, <2>1 DEF KnownOf, Bases, Customers
  <2>2. CASE e # d
    BY <1>4, <1>5, <1>7, <2>2
  <2> QED BY <2>1, <2>2
<1>8. OnePhone'
  BY <1>6 DEF BookInv, OnePhone
<1>9. DevicesSound'
  BY <1>4, <1>7 DEF BookInv, BookTypes, DevicesSound
<1>10. EditingsSound'
  <2>1. ASSUME NEW s \in Requests, editing[s].pc = "check"
        PROVE  KnownOf(editing[s].base, doc'[editing[s].doc], imported')
    <3>1. editing[s].doc \in Contacts /\ editing[s].base \in Bases
          /\ KnownOf(editing[s].base, doc[editing[s].doc], imported)
      BY <2>1 DEF BookInv, BookTypes, EditingsSound, EditCarries, Editings
    <3> QED BY <1>7, <3>1
  <2>2. Book!Live' \subseteq Book!Live /\ \A e \in Book!Live' : doc'[e].phone = doc[e].phone
    BY <1>6 DEF Book!Live
  <2>3. \A z \in Requests : Stands(editing[z], doc', imported' \cup meanwhile')
    BY <1>1, <1>3, <1>4, <1>5, StandsKept
  <2>4. \A z \in Requests : Cleared(editing[z], doc', typed')
    BY <1>4, <1>6, ClearedStill
  <2>5. \A z \in Requests : Unmoved(editing[z], doc) => Unmoved(editing[z], doc')
    BY <1>6 DEF Unmoved
  <2> QED BY <1>4, <2>1, <2>2, <2>3, <2>4, <2>5 DEF BookInv, EditingsSound
<1>11. OneNumber'
  BY <1>4, <1>6, NumbersStill
<1> QED BY <1>4, <1>5, <1>8, <1>9, <1>10, <1>11 DEF BookInv, BookTypes

LEMMA CustomerPulled ==
  ASSUME Book!RecordsShape, BookInv, NEW d \in Contacts, Book!Pull(d)
  PROVE  BookInv'
<1>1. PICK c \in Customers : c = doc[d] /\ c.state = "live"
  BY DEF Book!Pull, Book!Live, BookInv, BookTypes
<1>2. PICK b : b = [version |-> c.version, edit |-> c.edit]
  BY Zenon
<1>3. b \in Bases /\ KnownOf(b, c, imported)
  BY <1>1, <1>2 DEF Bases, Customers, KnownOf
<1>4. device' = [device EXCEPT ![d] = b]
      /\ UNCHANGED <<doc, editing, edited, imported, meanwhile, typed, clobbered, misreported>>
  BY <1>1, <1>2 DEF Book!Pull, Book!ghosts
<1>5. device' \in [Contacts -> Bases] /\ DevicesSound'
  BY <1>1, <1>3, <1>4 DEF BookInv, BookTypes, DevicesSound
<1> QED BY <1>4, <1>5 DEF BookInv, BookTypes, EditingsSound, OnePhone, OneNumber, Book!Live

\* A request that goes on, or ends, without writing.
LEMMA NothingWritten ==
  ASSUME Book!RecordsShape, BookInv, NEW s \in Requests, NEW r \in Editings,
         editing[s].pc # "idle", editing' = [editing EXCEPT ![s] = r],
         r.pc = "idle" \/ (r.pc \in {"look", "update"} /\ r.alone = editing[s].alone),
         EditCarries(r), Stands(r, doc, imported \cup meanwhile), Cleared(r, doc, typed),
         UNCHANGED <<doc, device, edited, Book!ghosts>>
  PROVE  BookInv'
<1>1. /\ doc' = doc /\ imported' = imported /\ meanwhile' = meanwhile /\ typed' = typed
      /\ UNCHANGED <<device, edited, clobbered, misreported>>
  BY DEF Book!ghosts
<1>2. \A z \in Requests \ {s} : /\ Stands(editing[z], doc', imported' \cup meanwhile')
                                /\ Cleared(editing[z], doc', typed')
  BY <1>1 DEF BookInv, EditingsSound
<1>3. editing' \in [Requests -> Editings] /\ EditingsSound'
  BY <1>1, <1>2, EditingGoes
<1> QED BY <1>1, <1>3 DEF BookInv, BookTypes, DevicesSound, OnePhone, OneNumber

LEMMA VersionChecked ==
  ASSUME Book!RecordsShape, BookInv, NEW s \in Requests, Book!CheckVersion(s)
  PROVE  BookInv'
<1>1. PICK q \in Editings : q = editing[s] /\ q.pc = "check" /\ q.doc \in Contacts /\ q.edit # 0
                            /\ KnownOf(q.base, doc[q.doc], imported)
  BY DEF Book!CheckVersion, Book!At, BookInv, BookTypes, EditingsSound, EditCarries
<1>2. PICK c \in Customers : c = doc[q.doc]
  BY <1>1 DEF BookInv, BookTypes
<1>3. PICK n : n = [q EXCEPT !.pc = "look"]
  OBVIOUS
<1>4. n \in Editings /\ n.pc = "look" /\ n.doc = q.doc /\ n.edit = q.edit /\ n.base = q.base
      /\ n.alone = q.alone
  BY <1>1, <1>3, Zenon DEF Editings
<1>5. /\ \/ editing' = [editing EXCEPT ![s] = Book!Idle]
         \/ editing' = [editing EXCEPT ![s] = n] /\ c.version = q.base.version
      /\ UNCHANGED <<doc, device, edited, Book!ghosts>>
  BY <1>1, <1>2, <1>3, Zenon DEF Book!CheckVersion, Book!Go, Book!Conflicts
<1>6. CASE editing' = [editing EXCEPT ![s] = Book!Idle]
  BY <1>1, <1>5, <1>6, IdleEditing, NothingWritten
<1>7. CASE editing' = [editing EXCEPT ![s] = n] /\ c.version = q.base.version
  <2>1. EditCarries(n) /\ Stands(n, doc, imported \cup meanwhile) /\ Cleared(n, doc, typed)
    BY <1>1, <1>2, <1>4, <1>7 DEF EditCarries, KnownOf, Stands, Cleared
  <2> QED BY <1>1, <1>4, <1>5, <1>7, <2>1, NothingWritten
<1> QED BY <1>5, <1>6, <1>7

LEMMA PhoneLooked ==
  ASSUME Book!RecordsShape, BookInv, NEW s \in Requests, Book!Look(s)
  PROVE  BookInv'
<1>1. PICK q \in Editings : q = editing[s] /\ q.pc = "look" /\ EditCarries(q)
                            /\ Stands(q, doc, imported \cup meanwhile)
  BY DEF Book!Look, Book!At, BookInv, BookTypes, EditingsSound
<1>2. PICK n : n = [q EXCEPT !.pc = "update"]
  OBVIOUS
<1>3. n \in Editings /\ n.pc = "update" /\ n.doc = q.doc /\ n.edit = q.edit /\ n.base = q.base
      /\ n.alone = q.alone /\ n.phone = q.phone
  BY <1>1, <1>2, Zenon DEF Editings
<1>4. /\ \/ editing' = [editing EXCEPT ![s] = Book!Idle]
         \/ editing' = [editing EXCEPT ![s] = n] /\ ~Book!Taken(q.phone, q.doc)
      /\ UNCHANGED <<doc, device, edited, Book!ghosts>>
  BY <1>1, <1>2, Zenon DEF Book!Look, Book!Go
<1>5. CASE editing' = [editing EXCEPT ![s] = Book!Idle]
  BY <1>1, <1>4, <1>5, IdleEditing, NothingWritten
<1>6. CASE editing' = [editing EXCEPT ![s] = n] /\ ~Book!Taken(q.phone, q.doc)
  <2>1. EditCarries(n) /\ Stands(n, doc, imported \cup meanwhile)
    BY <1>1, <1>3 DEF EditCarries, Stands
  <2>2. Cleared(n, doc, typed)
    BY <1>3, <1>6, FreeIsCleared
  <2> QED BY <1>1, <1>3, <1>4, <1>6, <2>1, <2>2, NothingWritten
<1> QED BY <1>4, <1>5, <1>6

LEMMA CustomerUpdated ==
  ASSUME Book!RecordsShape, BookInv, NEW s \in Requests, Book!Update(s)
  PROVE  BookInv'
<1>1. PICK q \in Editings :
        /\ q = editing[s] /\ q.pc = "update" /\ q.doc \in Contacts /\ q.edit # 0
        /\ Stands(q, doc, imported \cup meanwhile) /\ Cleared(q, doc, typed)
  BY DEF Book!Update, Book!At, BookInv, BookTypes, EditingsSound, EditCarries
<1>2. PICK c \in Customers : c = doc[q.doc]
  BY <1>1 DEF BookInv, BookTypes
<1>3. PICK n : n = [c EXCEPT !.phone = q.phone, !.version = c.version + 1, !.edit = q.edit]
  OBVIOUS
<1>4. n \in Customers /\ n.state = c.state /\ n.phone = q.phone /\ n.version = c.version + 1
      /\ n.edit = q.edit
  <2>1. c.version + 1 \in Nat /\ q.edit \in 0..RecordRequests /\ q.phone \in Phones
    BY <1>1, <1>2 DEF Customers, Editings
  <2> QED BY <1>2, <1>3, <2>1, Zenon DEF Customers
<1>5. PICK b : b = [version |-> n.version, edit |-> q.edit]
  BY Zenon
<1>6. b \in Bases /\ (n.state # "none" => KnownOf(b, n, imported))
  BY <1>1, <1>4, <1>5 DEF Bases, KnownOf, Customers, Editings
<1>7. editing' = [editing EXCEPT ![s] = Book!Idle] /\ UNCHANGED <<edited, imported, misreported>>
  BY DEF Book!Update, Book!Go
<1>8. CASE UNCHANGED <<doc, device, meanwhile, typed, clobbered>>
  <2>1. UNCHANGED <<doc, device, edited, Book!ghosts>>
    BY <1>7, <1>8 DEF Book!ghosts
  <2> QED BY <1>1, <1>7, <2>1, IdleEditing, NothingWritten
<1>9. CASE ~UNCHANGED <<doc, device, meanwhile, typed, clobbered>>
  <2>1. q.doc \in Book!Live /\ Book!Holder(q.phone) \ {q.doc} = {}
    BY <1>1, <1>9 DEF Book!Update
  <2>2. doc' = [doc EXCEPT ![q.doc] = n] /\ c.state = "live"
    BY <1>1, <1>2, <1>3, <2>1 DEF Book!Update, Book!Written, Book!Live
  <2>3. doc' \in [Contacts -> Customers] /\ doc'[q.doc] = n
        /\ \A d \in Contacts \ {q.doc} : doc'[d] = doc[d]
    BY <1>1, <1>4, <2>2 DEF BookInv, BookTypes
  <2>4. device' = device \/ device' = [device EXCEPT ![q.doc] = b]
    BY <1>1, <1>5, <2>1, <2>3 DEF Book!Update
  <2>5. meanwhile' = IF Book!Based(s, q.doc) THEN meanwhile \cup {q.edit} ELSE meanwhile
    BY <1>1, <2>1 DEF Book!Update
  <2>6. typed' = Book!Races(s, {q.phone} \ {c.phone})
    BY <1>1, <1>2, <2>1 DEF Book!Update
  <2>7. \/ clobbered' = clobbered
        \/ /\ q.base # Book!Unknown /\ c.edit # q.base.edit
           /\ clobbered' = clobbered \cup {c.edit}
    BY <1>1, <1>2, <2>1 DEF Book!Update
  <2>8. q.edit \in 1..RecordRequests /\ q.phone \in Phones
    BY <1>1 DEF Editings, Book!RecordsShape
  <2>9. meanwhile \subseteq meanwhile' /\ meanwhile' \subseteq 1..RecordRequests
        /\ typed \subseteq typed' /\ typed' \subseteq Phones
    BY <2>5, <2>6, <2>8 DEF BookInv, BookTypes, Book!Races
  <2>10. clobbered' \subseteq imported' \cup meanwhile' /\ clobbered' \subseteq 0..RecordRequests
    <3>1. q.base # Book!Unknown /\ c.edit # q.base.edit => c.edit \in imported \cup meanwhile
      BY <1>1, <1>2 DEF Stands
    <3> QED BY <1>2, <1>7, <2>7, <2>9, <3>1 DEF BookInv, BookTypes, Customers
  <2>11. OnePhone'
    BY <1>4, <2>1, <2>2, <2>3 DEF BookInv, OnePhone, Book!Holder, Book!Live
  <2>12. ASSUME NEW d \in Contacts, NEW x \in Bases, KnownOf(x, doc[d], imported)
         PROVE  KnownOf(x, doc'[d], imported')
    <3>1. CASE d = q.doc
      BY <1>2, <1>4, <2>3, <2>12, <3>1 DEF KnownOf, Bases, Customers
    <3>2. CASE d # q.doc
      BY <1>7, <2>3, <2>12, <3>2
    <3> QED BY <3>1, <3>2
  <2>13. device' \in [Contacts -> Bases] /\ DevicesSound'
    <3>1. /\ device' \in [Contacts -> Bases]
          /\ \A d \in Contacts : device'[d] = device[d] \/ (d = q.doc /\ device'[d] = b)
      BY <1>6, <2>4 DEF BookInv, BookTypes
    <3>2. KnownOf(b, doc'[q.doc], imported')
      BY <1>4, <1>6, <1>7, <2>2, <2>3
    <3>3. ASSUME NEW d \in Contacts PROVE KnownOf(device'[d], doc'[d], imported')
      <4>1. KnownOf(device[d], doc[d], imported) /\ device[d] \in Bases
        BY DEF BookInv, BookTypes, DevicesSound
      <4> QED BY <2>12, <3>1, <3>2, <4>1
    <3> QED BY <3>1, <3>3 DEF DevicesSound
  <2>14. ASSUME NEW z \in Requests \ {s}
         PROVE  Stands(editing[z], doc', imported' \cup meanwhile')
    <3> SUFFICES ASSUME editing[z].pc \in {"look", "update"}, editing[z].base # Book!Unknown
                 PROVE  /\ doc'[editing[z].doc].state # "none"
                        /\ \/ doc'[editing[z].doc].edit = editing[z].base.edit
                           \/ doc'[editing[z].doc].edit \in imported' \cup meanwhile'
      BY Zenon DEF Stands
    <3>1. editing[z].doc \in Contacts /\ Stands(editing[z], doc, imported \cup meanwhile)
      BY DEF BookInv, EditingsSound, EditCarries
    <3>2. CASE editing[z].doc = q.doc
      <4>1. q.edit \in meanwhile'
        BY <2>5, <3>2 DEF Book!Based
      <4> QED BY <1>4, <2>2, <2>3, <3>2, <4>1
    <3>3. CASE editing[z].doc # q.doc
      BY <1>7, <2>3, <2>9, <3>1, <3>3 DEF Stands
    <3> QED BY <3>2, <3>3
  <2>15. \A z \in Requests \ {s} : Cleared(editing[z], doc', typed')
    <3>1. \A d \in Contacts : doc'[d].state = "live" =>
            \/ doc[d].state = "live" /\ doc'[d].phone = doc[d].phone
            \/ doc'[d].phone \in {q.phone} \ {c.phone}
      BY <1>2, <1>4, <2>2, <2>3
    <3> QED BY <2>6, <3>1, ClearedKept
  <2>16. editing' \in [Requests -> Editings] /\ EditingsSound'
    BY <1>1, <1>7, <2>12, <2>14, <2>15, IdleEditing, EditingGoes
  <2>17. OneNumber'
    <3> SUFFICES ASSUME NEW a \in Contacts, NEW e \in Contacts, doc'[a].state = "live",
                        doc'[e].state = "live", a # e, Book!Same(doc'[a].phone, doc'[e].phone)
                 PROVE  Excused(doc'[a], doc'[e], imported', typed')
      BY DEF OneNumber, Book!Same
    <3>0. \A d \in Contacts \ {q.doc} :
            doc[d].state = "live" /\ Book!Same(doc[d].phone, q.phone) =>
              doc[d].phone \notin Compact \/ doc[d].phone \in typed
      BY <1>1 DEF Cleared
    <3>1. CASE a # q.doc /\ e # q.doc
      BY <1>7, <2>3, <2>9, <3>1 DEF BookInv, OneNumber, Excused
    <3>2. CASE a = q.doc
      BY <1>4, <2>3, <2>9, <3>0, <3>2 DEF Excused, Book!Same
    <3>3. CASE e = q.doc
      BY <1>4, <2>3, <2>9, <3>0, <3>3 DEF Excused, Book!Same
    <3> QED BY <3>1, <3>2, <3>3
  <2> QED BY <1>7, <2>3, <2>9, <2>10, <2>11, <2>13, <2>16, <2>17 DEF BookInv, BookTypes
<1> QED BY <1>8, <1>9

LEMMA LinesInserted ==
  ASSUME Book!RecordsShape, BookInv, NEW s \in Requests, Book!Insert(s)
  PROVE  BookInv'
<1>1. PICK q \in Editings :
        /\ q = editing[s] /\ q.pc = "insert" /\ q.edit # 0 /\ LinesKept(q)
        /\ q.alone => \A d \in Book!Live : doc[d].phone \notin q.creates
        /\ q.alone => Unmoved(q, doc)
  BY DEF Book!Insert, Book!At, BookInv, BookTypes, EditingsSound, EditCarries
<1>2. PICK F : F = {p \in q.creates : Book!Holder(p) = {}}
  BY Zenon
<1>3. F \subseteq q.creates /\ q.creates \subseteq Phones /\ IsFiniteSet(F)
  BY <1>1, <1>2, FS_Subset DEF LinesKept, Editings
<1>4. PICK k \in Nat : k = Cardinality(F)
  BY <1>3, FS_CardinalityType
<1>5. PICK place \in Book!Places(F) : doc' = Book!Filled(F, place, q.edit)
  BY <1>1, <1>2, Zenon DEF Book!Insert
<1>6. /\ editing' = [editing EXCEPT ![s] = [q EXCEPT !.pc = "overwrite", !.created = k]]
      /\ imported' = IF F = {} THEN imported ELSE imported \cup {q.edit}
      /\ typed' = Book!Races(s, F)
      /\ UNCHANGED <<device, edited, meanwhile, clobbered, misreported>>
  <2>1. k = Book!Cardinality(F)
    BY <1>4, BookCounted
  <2> QED BY <1>1, <1>2, <2>1 DEF Book!Insert, Book!Go, Book!ghosts
<1>7. /\ imported \subseteq imported' /\ imported' \subseteq 1..RecordRequests
      /\ q.edit \in 0..RecordRequests
  <2>1. q.edit \in 1..RecordRequests /\ q.edit \in 0..RecordRequests
    BY <1>1 DEF Editings, Book!RecordsShape
  <2> QED BY <1>6, <2>1 DEF BookInv, BookTypes
<1>8. \A d \in Contacts : \/ doc'[d] = doc[d]
                          \/ \E p \in F : /\ place[p] = d /\ doc[d].state = "none"
                                          /\ doc'[d] = Book!New(p, q.edit)
  <2> SUFFICES ASSUME NEW d \in Contacts, \E p \in F : place[p] = d
               PROVE  \E p \in F : /\ place[p] = d /\ doc[d].state = "none"
                                  /\ doc'[d] = Book!New(p, q.edit)
    BY <1>5 DEF Book!Filled
  <2>1. PICK p : p = CHOOSE x \in F : place[x] = d
    OBVIOUS
  <2>2. p \in F /\ place[p] = d
    BY <2>1
  <2>3. doc'[d] = Book!New(p, q.edit)
    BY <1>5, <2>1 DEF Book!Filled
  <2>4. doc[d].state = "none"
    BY <1>5, Zenon DEF Book!Places
  <2> QED BY <2>2, <2>3, <2>4
<1>9. \A p \in F : /\ Book!New(p, q.edit) \in Customers /\ Book!New(p, q.edit).phone = p
                   /\ Book!New(p, q.edit).edit = q.edit
                   /\ \A d \in Book!Live : doc[d].phone # p
  <2>1. 1 \in Nat
    OBVIOUS
  <2>2. \A p \in F : p \in Phones /\ \A d \in Book!Live : doc[d].phone # p
    BY <1>2, <1>3 DEF Book!Holder
  <2> QED BY <1>7, <2>1, <2>2 DEF Book!New, Customers
<1>10. doc' \in [Contacts -> Customers]
  <2>1. \A d \in Contacts : doc'[d] \in Customers
    BY <1>8, <1>9 DEF BookInv, BookTypes
  <2>2. doc' = [d \in Contacts |-> doc'[d]]
    BY <1>5 DEF Book!Filled
  <2> QED BY <2>1, <2>2
<1>11. OnePhone'
  <2> SUFFICES ASSUME NEW c \in Contacts, NEW d \in Contacts, doc'[c].state = "live", doc'[d].state = "live",
                      doc'[c].phone = doc'[d].phone
               PROVE  c = d
    BY DEF OnePhone
  <2>1. CASE doc'[c] = doc[c] /\ doc'[d] = doc[d]
    BY <2>1 DEF BookInv, OnePhone
  <2>2. CASE doc'[c] = doc[c] /\ \E p \in F : place[p] = d /\ doc'[d] = Book!New(p, q.edit)
    BY <1>9, <2>2 DEF Book!Live
  <2>3. CASE doc'[d] = doc[d] /\ \E p \in F : place[p] = c /\ doc'[c] = Book!New(p, q.edit)
    BY <1>9, <2>3 DEF Book!Live
  <2>4. CASE /\ \E p \in F : place[p] = c /\ doc'[c] = Book!New(p, q.edit)
             /\ \E p \in F : place[p] = d /\ doc'[d] = Book!New(p, q.edit)
    BY <1>9, <2>4
  <2> QED BY <1>8, <2>1, <2>2, <2>3, <2>4
<1>12. ASSUME NEW d \in Contacts, NEW b \in Bases, KnownOf(b, doc[d], imported)
       PROVE  KnownOf(b, doc'[d], imported')
  BY <1>7, <1>8, <1>12, Zenon DEF KnownOf
<1>13. DevicesSound'
  BY <1>6, <1>12, Zenon DEF BookInv, BookTypes, DevicesSound
<1>14. PICK n : n = [q EXCEPT !.pc = "overwrite", !.created = k]
  OBVIOUS
<1>15. /\ n \in Editings /\ n.pc = "overwrite" /\ n.alone = q.alone /\ n.edit = q.edit
       /\ n.created = k /\ n.creates = q.creates /\ n.updates = q.updates /\ n.file = q.file
  BY <1>1, <1>4, <1>14, Zenon DEF Editings
<1>16. EditCarries(n)
  <2>1. LinesKept(n)
    BY <1>1, <1>15, Zenon DEF LinesKept
  <2>2. ASSUME n.alone PROVE n.created = Cardinality(n.creates)
    <3>1. F = q.creates
      BY <1>1, <1>2, <1>15, <2>2 DEF Book!Holder
    <3> QED BY <1>4, <1>15, <3>1, Zenon
  <2> QED BY <1>1, <1>15, <2>1, <2>2 DEF EditCarries
<1>17. ASSUME n.alone PROVE Unmoved(n, doc')
  <2> SUFFICES ASSUME NEW x \in q.updates, NEW c \in Contacts, doc'[c].state = "live",
                      doc'[c].phone = x[2]
               PROVE  c = x[1]
    BY <1>15 DEF Unmoved
  <2>1. CASE doc'[c] = doc[c]
    BY <1>1, <1>15, <1>17, <2>1 DEF Unmoved
  <2>2. CASE doc'[c] # doc[c]
    BY <1>1, <1>3, <1>8, <1>9, <2>2 DEF LinesKept
  <2> QED BY <2>1, <2>2
<1>18. \A z \in Requests : Stands(editing[z], doc', imported' \cup meanwhile')
  BY <1>6, <1>7, <1>8, StandsKept
<1>19. \A c \in Contacts : doc'[c].state = "live" =>
         \/ doc[c].state = "live" /\ doc'[c] = doc[c]
         \/ doc'[c].phone \in F /\ doc'[c].edit \in imported'
  BY <1>6, <1>8, <1>9
<1>20. \A z \in Requests \ {s} : Cleared(editing[z], doc', typed')
  BY <1>6, <1>19, ClearedKept
<1>21. typed \subseteq typed' /\ typed' \subseteq Phones
  BY <1>3, <1>6 DEF Book!Races, BookInv, BookTypes
<1>22. OneNumber'
  BY <1>7, <1>19, <1>21, NumbersStill
<1>23. editing' \in [Requests -> Editings] /\ EditingsSound'
  <2>1. editing' = [editing EXCEPT ![s] = n]
    BY <1>6, <1>14
  <2>2. editing[s].pc # "idle" /\ n.pc # "check" /\ n.pc # "insert" /\ n.alone = editing[s].alone
        /\ Stands(n, doc', imported' \cup meanwhile') /\ Cleared(n, doc', typed')
    BY <1>1, <1>15 DEF Stands, Cleared
  <2> QED BY <1>12, <1>15, <1>16, <1>17, <1>18, <1>20, <2>1, <2>2, EditingGoes
<1>24. clobbered' \subseteq imported' \cup meanwhile'
  BY <1>6, <1>7 DEF BookInv
<1> QED BY <1>6, <1>7, <1>10, <1>11, <1>13, <1>21, <1>22, <1>23, <1>24 DEF BookInv, BookTypes

LEMMA LinesOverwritten ==
  ASSUME Book!RecordsShape, BookInv, NEW s \in Requests, Book!Overwrite(s)
  PROVE  BookInv'
<1>1. PICK q \in Editings :
        /\ q = editing[s] /\ q.pc = "overwrite" /\ q.edit # 0 /\ LinesKept(q)
        /\ q.alone => q.created = Cardinality(q.creates)
        /\ q.alone => Unmoved(q, doc)
  BY DEF Book!Overwrite, Book!At, BookInv, BookTypes, EditingsSound, EditCarries
<1>2. PICK T : T = IF q.update THEN q.updates ELSE {}
  BY Zenon
<1>3. q.edit \in 1..RecordRequests /\ q.edit \in 0..RecordRequests /\ T \subseteq Contacts \X Phones
      /\ T \subseteq q.updates
  BY <1>1, <1>2 DEF Editings, Book!RecordsShape
<1>4. PICK D \in Book!Accepted(T, q.edit) :
        /\ doc' = Book!Bulked(D, q.edit)
        /\ imported' = IF D = {} THEN imported ELSE imported \cup {q.edit}
        /\ typed' = Book!Races(s, {p \in Phones : \E d \in Book!Live : <<d, p>> \in D /\ doc[d].phone # p})
        /\ misreported' = (misreported \/
             (q.alone /\ Len(q.file) # q.created + Book!Cardinality(D) + Book!Skipped(q)))
  BY <1>1, <1>2, Zenon DEF Book!Overwrite
<1>5. editing' = [editing EXCEPT ![s] = Book!Idle] /\ UNCHANGED <<device, edited, meanwhile, clobbered>>
  BY DEF Book!Overwrite, Book!Go
<1>6. imported \subseteq imported' /\ imported' \subseteq 1..RecordRequests
  BY <1>3, <1>4, Zenon DEF BookInv, BookTypes
<1>7. /\ D \subseteq T
      /\ \A x \in T : Book!Holder(x[2]) \subseteq {x[1]} => x \in D
      /\ \A c, d \in Book!Live :
           Book!Bulked(D, q.edit)[c].phone = Book!Bulked(D, q.edit)[d].phone => c = d
  BY Zenon DEF Book!Accepted
<1>8. ASSUME NEW d \in Contacts
      PROVE  /\ doc'[d] \in Customers /\ doc'[d].state = doc[d].state
             /\ doc'[d].version = doc[d].version
             /\ \/ doc'[d] = doc[d]
                \/ /\ doc'[d].edit \in imported' /\ <<d, doc'[d].phone>> \in D
  <2>1. PICK c \in Customers : c = doc[d]
    BY DEF BookInv, BookTypes
  <2>2. CASE \E p \in Phones : <<d, p>> \in D
    <3>1. PICK p \in Phones : p = (CHOOSE x \in Phones : <<d, x>> \in D) /\ <<d, p>> \in D
      BY <2>2
    <3>2. doc'[d] = [c EXCEPT !.phone = p, !.edit = q.edit] /\ q.edit \in imported'
      BY <1>4, <2>1, <2>2, <3>1 DEF Book!Bulk, Book!Bulked
    <3> QED BY <1>3, <2>1, <3>1, <3>2 DEF Customers
  <2>3. CASE ~\E p \in Phones : <<d, p>> \in D
    BY <1>4, <2>1, <2>3 DEF Book!Bulked
  <2> QED BY <2>2, <2>3
<1>9. doc' \in [Contacts -> Customers]
  <2>1. doc' = [d \in Contacts |-> doc'[d]]
    BY <1>4 DEF Book!Bulked
  <2> QED BY <1>8, <2>1
<1>10. OnePhone'
  BY <1>4, <1>7, <1>8 DEF OnePhone, Book!Live
<1>11. ASSUME NEW d \in Contacts, NEW b \in Bases, KnownOf(b, doc[d], imported)
       PROVE  KnownOf(b, doc'[d], imported')
  BY <1>6, <1>8, <1>11, Zenon DEF KnownOf
<1>12. DevicesSound'
  BY <1>5, <1>11, Zenon DEF BookInv, BookTypes, DevicesSound
<1>13. \A z \in Requests : Stands(editing[z], doc', imported' \cup meanwhile')
  BY <1>5, <1>6, <1>8, StandsKept
<1>14. \A z \in Requests \ {s} : Cleared(editing[z], doc', typed')
  <2>1. PICK P : P = {p \in Phones : \E d \in Book!Live : <<d, p>> \in D /\ doc[d].phone # p}
    BY Zenon
  <2>2. ASSUME NEW c \in Contacts, doc'[c].state = "live"
        PROVE  (doc[c].state = "live" /\ doc'[c].phone = doc[c].phone) \/ doc'[c].phone \in P
    <3>1. doc[c].state = "live" /\ doc'[c].phone \in Phones
      BY <1>8, <2>2 DEF Customers
    <3>2. doc'[c].phone = doc[c].phone \/ <<c, doc'[c].phone>> \in D
      BY <1>8
    <3> QED BY <2>1, <3>1, <3>2 DEF Book!Live
  <2> QED BY <1>4, <2>1, <2>2, ClearedKept
<1>15. typed \subseteq typed' /\ typed' \subseteq Phones
  BY <1>4 DEF Book!Races, BookInv, BookTypes
<1>16. OneNumber'
  <2>1. \A c \in Contacts : doc'[c].state = "live" =>
          \/ /\ doc[c].state = "live" /\ doc'[c].phone = doc[c].phone /\ doc'[c].edit = doc[c].edit
          \/ doc'[c].edit \in imported'
    BY <1>8
  <2> QED BY <1>6, <1>15, <2>1, NumbersStill
<1>17. editing' \in [Requests -> Editings] /\ EditingsSound'
  <2>1. editing[s].pc # "idle" /\ Book!Idle.pc = "idle" /\ EditCarries(Book!Idle)
        /\ Book!Idle \in Editings
    BY <1>1, IdleEditing
  <2> QED BY <1>5, <1>11, <1>13, <1>14, <2>1, IdleEditing, EditingGoes
<1>18. misreported' = FALSE
  <2>1. ASSUME q.alone PROVE Len(q.file) = q.created + Book!Cardinality(D) + Book!Skipped(q)
    <3>0. D = T
      <4>1. ASSUME NEW x \in T PROVE Book!Holder(x[2]) \subseteq {x[1]}
        BY <1>1, <1>3, <2>1 DEF Unmoved, Book!Holder, Book!Live
      <4> QED BY <1>7, <4>1
    <3>1. PICK l \in Nat, m \in Int, x \in Nat, y \in Nat :
            /\ l = Len(q.file) /\ m = Cardinality(Book!Lines(q.file))
            /\ x = Cardinality(q.creates) /\ y = Cardinality(q.updates) /\ m = x + y
      <4>1. Len(q.file) \in Nat
        BY <1>1 DEF Editings
      <4>2. Cardinality(q.creates) \in Nat /\ Cardinality(q.updates) \in Nat
        BY <1>1, FS_CardinalityType DEF LinesKept
      <4>3. Cardinality(Book!Lines(q.file)) = Cardinality(q.creates) + Cardinality(q.updates)
        BY <1>1 DEF LinesKept
      <4>4. Cardinality(Book!Lines(q.file)) \in Int
        BY <4>2, <4>3
      <4> USE <4>1, <4>2, <4>4
      <4> WITNESS Len(q.file) \in Nat, Cardinality(Book!Lines(q.file)) \in Int,
                  Cardinality(q.creates) \in Nat, Cardinality(q.updates) \in Nat
      <4> QED BY <4>3
    <3>2. l \in Nat /\ m \in Int /\ x \in Nat /\ y \in Nat /\ m = x + y
      BY <3>1
    <3>3. q.created = x /\ Book!Cardinality(Book!Lines(q.file)) = m
          /\ Book!Cardinality(q.updates) = y
      BY <1>1, <2>1, <3>1, BookCounted, Zenon
    <3>4. CASE q.update
      <4>1. Book!Cardinality(D) = y /\ Book!Skipped(q) = (l - m) + 0
        BY <1>2, <3>0, <3>1, <3>3, <3>4 DEF Book!Skipped
      <4>2. l = x + y + ((l - m) + 0)
        BY <3>2
      <4> QED BY <3>1, <3>3, <4>1, <4>2
    <3>5. CASE ~q.update
      <4>1. Book!Cardinality(D) = 0 /\ Book!Skipped(q) = (l - m) + y
        <5>1. D = {} /\ Book!Cardinality({}) = 0
          BY <1>2, <3>0, <3>5, FS_EmptySet, BookCounted
        <5>2. Book!Skipped(q) = (l - m) + y
          BY <3>1, <3>3, <3>5 DEF Book!Skipped
        <5> QED BY <5>1, <5>2
      <4>2. l = x + 0 + ((l - m) + y)
        BY <3>2
      <4> QED BY <3>1, <3>3, <4>1, <4>2
    <3> QED BY <3>4, <3>5
  <2> QED BY <1>4, <2>1, Zenon DEF BookInv
<1>19. clobbered' \subseteq imported' \cup meanwhile'
  BY <1>5, <1>6 DEF BookInv
<1> QED BY <1>5, <1>6, <1>9, <1>10, <1>12, <1>15, <1>16, <1>17, <1>18, <1>19 DEF BookInv, BookTypes

LEMMA BookStep ==
  ASSUME Book!RecordsShape, BookInv, [Book!Next]_(Book!vars)
  PROVE  BookInv'
<1>1. CASE UNCHANGED Book!vars
  BY <1>1 DEF Book!vars, BookInv, BookTypes, DevicesSound, EditingsSound, OnePhone, OneNumber, Book!Live
<1>2. CASE Book!Next
  BY <1>2, CustomerAsked, CustomerCreated, VersionChecked, PhoneLooked, CustomerUpdated, LinesInserted,
     LinesOverwritten, CustomerEdited, CustomerPushed, FileImported, CustomerDeleted, CustomerPulled
  DEF Book!Next
<1> QED BY <1>1, <1>2

\* That part runs by itself.
LEMMA BookRuns ==
  ASSUME [Next]_vars, part' = "records"
  PROVE  part = "records" /\ [Book!Next]_(Book!vars)
<1>1. CASE UNCHANGED vars
  <2>1. part' = part /\ recordVars' = recordVars
    BY <1>1 DEF vars
  <2> QED BY <2>1 DEF recordVars, Book!vars
<1>2. CASE Next
  BY <1>2 DEF Next, Only
<1> QED BY <1>1, <1>2

\* For any number of customers, devices, files and overlapping requests: an edit a pushed one
\* had not seen is overwritten only if an import wrote it or it was made between the check and
\* the write, a phone has one live customer, a number too but for the exceptions BookExact
\* names, and an import that ran alone accounts for every line (sync, imports,
\* customerController).
THEOREM RecordsSoundAlways == Spec => []RecordsSound
<1> DEFINE I == /\ part = "records" => BookInv
<1>1. Init => I
  BY BookInit, ProtocolShape DEF Init
<1>2. I /\ [Next]_vars => I'
  <2> SUFFICES ASSUME I, [Next]_vars PROVE I'
    OBVIOUS
  <2>1. part' = "records" => BookInv'
    <3> SUFFICES ASSUME part' = "records" PROVE BookInv'
      OBVIOUS
    <3>1. part = "records" /\ [Book!Next]_(Book!vars)
      BY BookRuns
    <3> QED BY <3>1, BookStep, ProtocolShape
  <2> QED BY <2>1
<1>3. I => RecordsSound
  BY BookGives, ProtocolShape, Zenon DEF RecordsSound, BookInv
<1> QED BY <1>1, <1>2, <1>3, PTL DEF Spec

-----------------------------------------------------------------------------
\* Sets are counted, and amounts summed, in the module as they are here.
LEMMA GoodsSums ==
  /\ \A S : /\ Goods!Cardinality(S) = Cardinality(S)
            /\ Goods!IsFiniteSet(S) <=> IsFiniteSet(S)
  /\ \A f : Goods!Sum(f) = Sum(f)
<1>1. \A S : /\ Goods!Cardinality(S) = Cardinality(S)
             /\ Goods!IsFiniteSet(S) <=> IsFiniteSet(S)
  BY DEF Goods!Cardinality, Cardinality, Goods!IsFiniteSet, IsFiniteSet
<1>2. \A f, x : Goods!Coins(f, x) = Coins(f, x)
  BY DEF Goods!Coins, Coins
<1>3. \A f : Goods!Sum(f) = Sum(f)
  BY <1>1, <1>2, Zenon DEF Goods!Sum, Sum
<1> QED BY <1>1, <1>3

\* A paper in the books.
PaperRows == [kind : {"order", "quotation", "challan", "invoice", "note", "bill"},
              state : {"none", "draft", "confirmed", "issued", "void", "cancelled", "deleted"},
              src : Papers \cup {0}, moved : -1..1, paid : 0..BillTotal]
Living == {"draft", "confirmed", "issued", "void"}

\* What a paper of a kind moves, and the paper another was made from.
Goes(form) == CASE form = "bill" -> 1 [] form = "order" -> 0 [] OTHER -> Goods!Direction(form)
SourceOf(d) == IF paper[d].src = 0 THEN Goods!NoPaper ELSE paper[paper[d].src]
Delivered(r, q) == r.src # 0 /\ q.kind = "challan"

\* A paper in the books has moved what its kind moves, unless a challan had moved it or the
\* tracking was switched; one that is undone has moved nothing.
Fits(d, r, q, switches, tracking) ==
  /\ r.state = "none" => r = Goods!NoPaper
  /\ r.src # 0 => q.state # "none" /\ r.kind \in {"invoice", "note"}
  /\ r.src # 0 /\ r.kind = "note" => q.kind = "invoice"
  /\ Delivered(r, q) => q.state = "void"
  /\ r.kind = "order" => r.moved = 0
  /\ r.state \in Living => r.moved \in {0, Goes(r.kind)} /\ (Delivered(r, q) => r.moved = 0)
  /\ r.state \in Living /\ d \notin switches /\ ~Delivered(r, q) =>
       r.moved = IF tracking = "yes" THEN Goes(r.kind) ELSE 0
  /\ r.state \in {"cancelled", "deleted"} =>
       \/ r.moved + (IF Delivered(r, q) THEN q.moved ELSE 0) = 0
       \/ {d, r.src} \cap switches # {}
       \/ r.state = "deleted" /\ Delivered(r, q)
  /\ r.paid # 0 => r.kind = "bill" /\ r.state = "issued"

PapersFit == \A d \in Papers : Fits(d, paper[d], SourceOf(d), retracked, tracked)

\* The product is counted by its movements, and taken below zero only unguarded.
Stocked == (unrecorded \/ stock = recorded) /\ (stock < 0 => forced)

\* An order, a quotation or a challan has one invoice, which was not there when it was
\* cancelled; what is not void has none.
Sourced(d) ==
  paper[d].kind \in {"order", "quotation", "challan"} =>
    /\ \A e, f \in Goods!InvoicesOf(d) : e = f
    /\ paper[d].state = "cancelled" \/ d \in cancelling => Goods!InvoicesOf(d) = {} \/ outrun
    /\ paper[d].kind # "order" /\ paper[d].state = "issued" => Goods!InvoicesOf(d) = {}
Sources ==
  /\ \A d \in Papers : Sourced(d)
  /\ \A o \in cancelling : paper[o].kind = "order" /\ paper[o].state # "none"

VendorOwed == payable = Goods!Payable(paper, onAccount)

TradeInv == Goods!TypeOK /\ PapersFit /\ Stocked /\ Sources /\ VendorOwed

-----------------------------------------------------------------------------
LEMMA TradeTypes ==
  ASSUME Goods!TradeShape, TradeInv
  PROVE  /\ paper \in [Papers -> PaperRows] /\ stock \in Int /\ recorded \in Int
         /\ onAccount \in Nat /\ payable \in Nat /\ IsFiniteSet(Papers) /\ 0 \notin Papers
         /\ Goods!NoPaper \in PaperRows
BY GoodsSums DEF Goods!TradeShape, TradeInv, Goods!TypeOK, PaperRows, Goods!NoPaper

\* A paper written or rewritten leaves the others fitting, if a challan that is invoiced
\* stays as it is.
LEMMA OthersFit ==
  ASSUME Goods!TradeShape, TradeInv, NEW C \in SUBSET Papers, paper' \in [Papers -> PaperRows],
         \A d \in Papers \ C : paper'[d] = paper[d],
         \A c \in C : paper[c].state # "none" =>
           /\ paper'[c].kind = paper[c].kind /\ paper'[c].state # "none"
           /\ paper[c].state = "void" /\ paper[c].kind = "challan" => paper'[c] = paper[c],
         UNCHANGED <<tracked, retracked>>
  PROVE  \A d \in Papers \ C : Fits(d, paper[d], SourceOf(d), retracked, tracked)'
<1> SUFFICES ASSUME NEW d \in Papers, d \notin C
             PROVE  Fits(d, paper[d], SourceOf(d), retracked, tracked)'
  OBVIOUS
<1>1. PICK r \in PaperRows : r = paper[d] /\ r = paper'[d]
  BY TradeTypes
<1>2. PICK q : q = SourceOf(d)
  OBVIOUS
<1>3. PICK z : z = SourceOf(d)'
  OBVIOUS
<1>4. Fits(d, r, q, retracked, tracked)
  BY <1>1, <1>2 DEF TradeInv, PapersFit
<1>5. CASE r.src = 0
  BY <1>1, <1>2, <1>3, <1>4, <1>5 DEF SourceOf, Fits, Delivered
<1>6. CASE r.src # 0
  <2>1. PICK e \in Papers : e = r.src
    BY <1>1, <1>6 DEF PaperRows
  <2>2. q = paper[e] /\ z = paper'[e] /\ q.state # "none"
    BY <1>1, <1>2, <1>3, <1>4, <1>6, <2>1 DEF SourceOf, Fits
  <2>3. /\ z.kind = q.kind /\ z.state # "none"
        /\ q.state = "void" /\ q.kind = "challan" => z = q
    BY <2>2
  <2>4. Fits(d, r, z, retracked, tracked)
    BY <1>4, <1>6, <2>3 DEF Fits, Delivered
  <2> QED BY <1>1, <1>3, <2>4
<1> QED BY <1>5, <1>6

\* The invoices made from a paper, when none is added.
LEMMA SourcesKept ==
  ASSUME Goods!TradeShape, TradeInv,
         \A d \in Papers : Goods!InvoicesOf(d)' \subseteq Goods!InvoicesOf(d),
         outrun => outrun',
         \A d \in Papers :
           \/ Goods!InvoicesOf(d) = {}
           \/ paper[d].kind = "order" /\ paper'[d].kind = "order" /\ outrun'
           \/ paper'[d].kind \notin {"order", "quotation", "challan"}
           \/ /\ paper'[d].kind = paper[d].kind /\ paper'[d].state = paper[d].state
              /\ d \in cancelling' => d \in cancelling,
         \A o \in cancelling' : paper'[o].kind = "order" /\ paper'[o].state # "none"
  PROVE  Sources'
<1> SUFFICES ASSUME NEW d \in Papers PROVE Sourced(d)'
  BY DEF Sources
<1>1. Sourced(d) /\ Goods!InvoicesOf(d)' \subseteq Goods!InvoicesOf(d)
  BY DEF TradeInv, Sources
<1>2. CASE Goods!InvoicesOf(d) = {}
  BY <1>1, <1>2 DEF Sourced
<1>3. CASE paper[d].kind = "order" /\ paper'[d].kind = "order" /\ outrun'
  BY <1>1, <1>3 DEF Sourced
<1>4. CASE paper'[d].kind \notin {"order", "quotation", "challan"}
  BY <1>4 DEF Sourced
<1>5. CASE /\ paper'[d].kind = paper[d].kind /\ paper'[d].state = paper[d].state
           /\ d \in cancelling' => d \in cancelling
  BY <1>1, <1>5 DEF Sourced
<1> QED BY <1>2, <1>3, <1>4, <1>5

\* What is owed does not change with a paper that is neither billed nor paid.
LEMMA OwedKept ==
  ASSUME Goods!TradeShape, TradeInv, paper' \in [Papers -> PaperRows],
         \A d \in Papers : paper'[d].paid = paper[d].paid,
         Goods!BillsOf(paper') = Goods!BillsOf(paper), UNCHANGED Goods!vendor
  PROVE  VendorOwed'
<1>1. [d \in Papers |-> paper'[d].paid] = [d \in Papers |-> paper[d].paid]
  OBVIOUS
<1> QED BY <1>1, GoodsSums DEF VendorOwed, Goods!Payable, Goods!vendor, TradeInv

\* The payable is an amount.
LEMMA PayableNat ==
  ASSUME Goods!TradeShape, NEW p \in [Papers -> PaperRows], NEW extra \in Nat
  PROVE  Goods!Payable(p, extra) \in Nat
<1>1. Sum([d \in Papers |-> p[d].paid]) \in Nat
  <2>1. [d \in Papers |-> p[d].paid] \in [Papers -> Nat]
    BY DEF PaperRows
  <2> QED BY <2>1, SumNat, GoodsSums, Zenon DEF Goods!TradeShape
<1>2. Cardinality(Goods!BillsOf(p)) \in Nat
  BY FS_Subset, FS_CardinalityType, GoodsSums DEF Goods!TradeShape, Goods!BillsOf
<1>3. BillTotal * Cardinality(Goods!BillsOf(p)) \in Nat
  BY <1>2, GoodsSums DEF Goods!TradeShape
<1>4. BillTotal * Cardinality(Goods!BillsOf(p)) - (Sum([d \in Papers |-> p[d].paid]) + extra) \in Int
  BY <1>1, <1>3
<1> QED BY <1>4, GoodsSums DEF Goods!Payable

LEMMA AdjustHolds ==
  ASSUME Goods!TradeShape, TradeInv, NEW n \in -1..1, NEW guarded \in BOOLEAN,
         Goods!Adjust(n, guarded),
         UNCHANGED unrecorded
  PROVE  Stocked' /\ stock' \in Int /\ recorded' \in Int /\ forced' \in BOOLEAN
<1>1. stock \in Int /\ recorded \in Int /\ forced \in BOOLEAN /\ Stocked
  BY DEF TradeInv, Goods!TypeOK
<1>2. PICK m \in -1..1 : m = Goods!Moves(n)
  BY DEF Goods!Moves
<1>3. /\ guarded /\ m < 0 => stock >= 1
      /\ stock' = stock + m /\ recorded' = recorded + m
      /\ forced' = (forced \/ (~guarded /\ m < 0))
  BY <1>2 DEF Goods!Adjust
<1>4. stock' < 0 => forced'
  <2>1. forced \/ (~guarded /\ m < 0) => forced'
    BY <1>3, Zenon
  <2>2. stock' < 0 /\ ~forced => stock >= 0 /\ m < 0
    BY <1>1, <1>3 DEF Stocked
  <2>3. stock' < 0 /\ guarded /\ m < 0 => FALSE
    BY <1>1, <1>3
  <2> QED BY <2>1, <2>2, <2>3
<1>5. unrecorded' \/ stock' = recorded'
  BY <1>1, <1>3 DEF Stocked
<1>6. stock' \in Int /\ recorded' \in Int
  BY <1>1, <1>3
<1>7. forced' \in BOOLEAN
  BY <1>3, Zenon
<1> QED BY <1>4, <1>5, <1>6, <1>7 DEF Stocked

-----------------------------------------------------------------------------
\* One paper is written: a step that bills and pays nothing.
LEMMA WritePaper ==
  ASSUME Goods!TradeShape, TradeInv, NEW d \in Papers, NEW r \in PaperRows,
         paper' = [paper EXCEPT ![d] = r], UNCHANGED <<Goods!product, Goods!vendor>>,
         paper[d].state # "none" =>
           /\ r.kind = paper[d].kind /\ r.state # "none"
           /\ paper[d].state # "void" \/ r.kind # "challan",
         Fits(d, r, SourceOf(d)', retracked, tracked),
         r.paid = paper[d].paid,
         r.kind = "bill" /\ r.state = "issued" <=>
           paper[d].kind = "bill" /\ paper[d].state = "issued"
  PROVE  PapersFit' /\ VendorOwed' /\ paper' \in [Papers -> PaperRows]
<1>1. paper' \in [Papers -> PaperRows] /\ paper'[d] = r
      /\ \A e \in Papers \ {d} : paper'[e] = paper[e]
  BY TradeTypes
<1>2. UNCHANGED <<tracked, retracked>>
  BY DEF Goods!product
<1>3. \A e \in Papers \ {d} : Fits(e, paper[e], SourceOf(e), retracked, tracked)'
  BY <1>1, <1>2, OthersFit, Zenon
<1>4. Fits(d, paper[d], SourceOf(d), retracked, tracked)'
  BY <1>1, <1>2
<1>5. Goods!BillsOf(paper') = Goods!BillsOf(paper)
  BY <1>1 DEF Goods!BillsOf
<1>6. VendorOwed'
  BY <1>1, <1>5, OwedKept
<1> QED BY <1>1, <1>3, <1>4, <1>6 DEF PapersFit

\* A new paper that is made from none.
LEMMA UnusedPaper ==
  ASSUME Goods!TradeShape, TradeInv, NEW d \in Papers, Goods!Unused(d)
  PROVE  /\ paper[d] = Goods!NoPaper /\ Goods!InvoicesOf(d) = {}
         /\ \A e \in Papers : paper[e].src # d
<1>1. paper[d] = Goods!NoPaper
  BY DEF Goods!Unused, TradeInv, PapersFit, Fits
<1>2. ASSUME NEW e \in Papers, paper[e].src = d
      PROVE  FALSE
  <2>1. SourceOf(e) = paper[d] /\ paper[e].src # 0
    BY <1>2, TradeTypes DEF SourceOf
  <2>2. SourceOf(e).state # "none"
    BY <2>1 DEF TradeInv, PapersFit, Fits
  <2> QED BY <1>1, <2>1, <2>2 DEF Goods!NoPaper
<1> QED BY <1>1, <1>2 DEF Goods!InvoicesOf

\* A new paper that is no bill, and no invoice of another paper.
LEMMA NewPaper ==
  ASSUME Goods!TradeShape, TradeInv, NEW d \in Papers, NEW r \in PaperRows, NEW n \in -1..1,
         NEW guarded \in BOOLEAN, Goods!Unused(d), paper' = [paper EXCEPT ![d] = r],
         Goods!Adjust(n, guarded), UNCHANGED <<Goods!product, Goods!vendor, Goods!orders>>,
         r.paid = 0, r.kind # "bill", r.kind = "invoice" => r.src = 0,
         Fits(d, r, SourceOf(d)', retracked, tracked)
  PROVE  TradeInv'
<1>1. paper[d] = Goods!NoPaper /\ Goods!InvoicesOf(d) = {} /\ \A e \in Papers : paper[e].src # d
  BY UnusedPaper
<1>2. /\ UNCHANGED <<tracked, edits, unrecorded, retracked, onAccount, payable, cancelling, outrun>>
      /\ UNCHANGED <<Goods!product, Goods!vendor>>
  BY DEF Goods!product, Goods!vendor, Goods!orders
<1>3. paper[d].state = "none" /\ paper[d].paid = 0 /\ paper[d].kind = "order"
  BY <1>1 DEF Goods!NoPaper
<1>4. PapersFit' /\ VendorOwed' /\ paper' \in [Papers -> PaperRows]
  BY <1>2, <1>3, WritePaper, Zenon
<1>5. paper'[d] = r /\ \A e \in Papers \ {d} : paper'[e] = paper[e]
  BY TradeTypes
<1>6. Stocked' /\ stock' \in Int /\ recorded' \in Int /\ forced' \in BOOLEAN
  BY <1>2, AdjustHolds
<1>7. Sources'
  <2>1. \A e \in Papers : Goods!InvoicesOf(e)' \subseteq Goods!InvoicesOf(e)
    BY <1>5, TradeTypes DEF Goods!InvoicesOf
  <2>2. \A o \in cancelling :
          o \in Papers /\ o # d /\ paper[o].kind = "order" /\ paper[o].state # "none"
    BY <1>3 DEF TradeInv, Goods!TypeOK, Sources
  <2> QED BY <1>1, <1>2, <1>5, <2>1, <2>2, SourcesKept
<1>8. Goods!TypeOK'
  BY <1>2, <1>4, <1>6 DEF TradeInv, Goods!TypeOK, PaperRows
<1> QED BY <1>4, <1>6, <1>7, <1>8 DEF TradeInv

LEMMA CreateOrderStep ==
  ASSUME Goods!TradeShape, TradeInv, NEW d \in Papers, Goods!CreateOrder(d)
  PROVE  TradeInv'
<1>1. PICK r : r = Goods!New("order", "draft", 0, 0) /\ paper' = [paper EXCEPT ![d] = r]
  BY Zenon DEF Goods!CreateOrder
<1>2. /\ r \in PaperRows /\ r.kind = "order" /\ r.state = "draft" /\ r.src = 0 /\ r.moved = 0
      /\ r.paid = 0
  BY <1>1, GoodsSums DEF Goods!New, PaperRows, Goods!TradeShape
<1>3. Fits(d, r, SourceOf(d)', retracked, tracked)
  BY <1>2 DEF Fits, Delivered, Goes, Living
<1>4. Goods!Unused(d) /\ Goods!Adjust(0, TRUE)
      /\ UNCHANGED <<Goods!product, Goods!vendor, Goods!orders>>
  BY Zenon DEF Goods!CreateOrder
<1>5. 0 \in -1..1 /\ TRUE \in BOOLEAN /\ r.kind # "bill" /\ r.kind # "invoice"
  BY <1>2
<1> QED BY <1>1, <1>2, <1>3, <1>4, <1>5, NewPaper, Zenon

LEMMA IssueStep ==
  ASSUME Goods!TradeShape, TradeInv, NEW d \in Papers, NEW oversell \in BOOLEAN,
         NEW form \in {"quotation", "challan", "invoice", "note"}, NEW src \in Papers \cup {0},
         src # 0 => form = "note" /\ Goods!Is(src, "invoice", "issued"),
         Goods!Issue(d, form, src, oversell)
  PROVE  TradeInv'
<1>1. PICK m : m = Goods!Moves(Goods!Direction(form))
  OBVIOUS
<1>2. /\ m \in -1..1 /\ Goes(form) = Goods!Direction(form)
      /\ m = (IF tracked = "yes" THEN Goes(form) ELSE 0) /\ m \in {0, Goes(form)}
  BY <1>1 DEF Goods!Moves, Goods!Direction, Goes
<1>3. PICK r : r = Goods!New(form, "issued", src, m) /\ paper' = [paper EXCEPT ![d] = r]
  BY <1>1, Zenon DEF Goods!Issue
<1>4. /\ r \in PaperRows /\ r.kind = form /\ r.state = "issued" /\ r.src = src /\ r.moved = m
      /\ r.paid = 0
  BY <1>2, <1>3, GoodsSums DEF Goods!New, PaperRows, Goods!TradeShape
<1>5. PICK guarded \in BOOLEAN : guarded = ~oversell
  BY Zenon
<1>7. Goods!Unused(d) /\ Goods!Adjust(m, guarded)
      /\ UNCHANGED <<Goods!product, Goods!vendor, Goods!orders>>
  BY <1>1, <1>5, Zenon DEF Goods!Issue
<1>6. Fits(d, r, SourceOf(d)', retracked, tracked)
  <2>1. PICK q : q = SourceOf(d)'
    OBVIOUS
  <2>2. paper' \in [Papers -> PaperRows] /\ paper'[d] = r
        /\ \A e \in Papers \ {d} : paper'[e] = paper[e]
    BY <1>3, <1>4, TradeTypes
  <2>3. src # 0 => q.kind = "invoice" /\ q.state # "none"
    <3> SUFFICES ASSUME src # 0 PROVE q.kind = "invoice" /\ q.state # "none"
      OBVIOUS
    <3>1. src \in Papers /\ src # d /\ paper[src].kind = "invoice" /\ paper[src].state = "issued"
      BY <1>7 DEF Goods!Is, Goods!Unused
    <3>2. q = paper[src]
      BY <2>1, <2>2, <3>1, <1>4 DEF SourceOf
    <3> QED BY <3>1, <3>2
  <2>4. Fits(d, r, q, retracked, tracked)
    BY <1>2, <1>4, <2>3 DEF Fits, Delivered, Living
  <2> QED BY <2>1, <2>4
<1>8. r.kind # "bill" /\ (r.kind = "invoice" => r.src = 0)
  BY <1>4
<1> QED BY <1>2, <1>3, <1>4, <1>6, <1>7, <1>8, NewPaper, Zenon

\* An issued paper is rewritten: what it was made from is what it was.
LEMMA SameSource ==
  ASSUME Goods!TradeShape, TradeInv, NEW d \in Papers, NEW r \in PaperRows,
         paper' = [paper EXCEPT ![d] = r], paper[d].state = "issued",
         r.kind = paper[d].kind, r.src = paper[d].src, r.state # "none", r.src # 0
  PROVE  /\ paper'[r.src].kind = paper[r.src].kind /\ paper'[r.src].state # "none"
         /\ paper[r.src].kind = "challan" => paper'[r.src] = paper[r.src]
<1>1. /\ paper' \in [Papers -> PaperRows] /\ paper'[d] = r
      /\ \A e \in Papers \ {d} : paper'[e] = paper[e]
  BY TradeTypes
<1>2. PICK e \in Papers : e = r.src
  BY DEF PaperRows
<1>3. Fits(d, paper[d], paper[e], retracked, tracked)
  BY <1>2 DEF TradeInv, PapersFit, SourceOf
<1>4. paper[e].state # "none" /\ r.kind \in {"invoice", "note"}
  BY <1>2, <1>3 DEF Fits
<1> QED BY <1>1, <1>2, <1>4

LEMMA OldPaper ==
  ASSUME Goods!TradeShape, TradeInv, NEW d \in Papers, NEW r \in PaperRows, NEW n \in -1..1,
         NEW guarded \in BOOLEAN, paper' = [paper EXCEPT ![d] = r],
         Goods!Adjust(n, guarded), UNCHANGED <<Goods!product, Goods!vendor, Goods!orders>>,
         paper[d].state = "issued", paper[d].kind \notin {"bill", "order"},
         r.kind = paper[d].kind, r.src = paper[d].src, r.paid = paper[d].paid, r.state # "none",
         Fits(d, r, SourceOf(d)', retracked, tracked)
  PROVE  TradeInv'
<1>1. /\ UNCHANGED <<tracked, edits, unrecorded, retracked, onAccount, payable, cancelling, outrun>>
      /\ UNCHANGED <<Goods!product, Goods!vendor>>
  BY DEF Goods!product, Goods!vendor, Goods!orders
<1>2. PapersFit' /\ VendorOwed' /\ paper' \in [Papers -> PaperRows]
  BY <1>1, WritePaper, Zenon
<1>3. paper'[d] = r /\ \A e \in Papers \ {d} : paper'[e] = paper[e]
  BY TradeTypes
<1>4. Stocked' /\ stock' \in Int /\ recorded' \in Int /\ forced' \in BOOLEAN
  BY <1>1, AdjustHolds
<1>5. Sources'
  <2>1. \A e \in Papers : Goods!InvoicesOf(e)' \subseteq Goods!InvoicesOf(e)
    BY <1>3, TradeTypes DEF Goods!InvoicesOf
  <2>2. \A o \in cancelling :
          o \in Papers /\ o # d /\ paper[o].kind = "order" /\ paper[o].state # "none"
    BY DEF TradeInv, Goods!TypeOK, Sources
  <2>3. Goods!InvoicesOf(d) = {} \/ r.kind \notin {"order", "quotation", "challan"}
    BY DEF TradeInv, Sources, Sourced
  <2> QED BY <1>1, <1>3, <2>1, <2>2, <2>3, SourcesKept
<1>6. Goods!TypeOK'
  BY <1>1, <1>2, <1>4 DEF TradeInv, Goods!TypeOK, PaperRows
<1> QED BY <1>2, <1>4, <1>5, <1>6 DEF TradeInv

\* A challan a living paper was made from has moved what challans move.
LEMMA ChallanMoved ==
  ASSUME Goods!TradeShape, TradeInv, NEW d \in Papers, Delivered(paper[d], SourceOf(d))
  PROVE  /\ SourceOf(d).moved \in Int
         /\ paper[d].src \notin retracked =>
              SourceOf(d).moved = IF tracked = "yes" THEN -1 ELSE 0
<1>1. PICK e \in Papers : e = paper[d].src /\ SourceOf(d) = paper[e]
  BY TradeTypes DEF SourceOf, Delivered, PaperRows
<1>2. Fits(d, paper[d], paper[e], retracked, tracked) /\ Delivered(paper[d], paper[e])
  BY <1>1 DEF TradeInv, PapersFit
<1>3. paper[e] \in PaperRows /\ paper[e].kind = "challan" /\ paper[e].state = "void"
  BY <1>2, TradeTypes DEF Fits, Delivered
<1>4. Fits(e, paper[e], SourceOf(e), retracked, tracked)
  BY DEF TradeInv, PapersFit
<1>5. ~Delivered(paper[e], SourceOf(e))
  BY <1>3, <1>4 DEF Fits, Delivered
<1> QED BY <1>1, <1>3, <1>4, <1>5 DEF Fits, Living, Goes, Goods!Direction, PaperRows

LEMMA PutBackStep ==
  ASSUME Goods!TradeShape, TradeInv, NEW d \in Papers, Goods!PutBack(d),
         paper[d].state = "issued",
         paper[d].kind \notin {"bill", "order"}
  PROVE  TradeInv'
<1>1. PICK old \in PaperRows : old = paper[d]
  BY TradeTypes
<1>2. PICK m : m = Goods!Moves(-Goods!Direction(old.kind))
  OBVIOUS
<1>3. /\ Goes(old.kind) = Goods!Direction(old.kind) /\ Goes(old.kind) \in -1..1 /\ m \in -1..1
      /\ m = (IF tracked = "yes" THEN -Goes(old.kind) ELSE 0)
      /\ old.kind \in {"invoice", "challan"} => Goes(old.kind) = -1
  <2>1. PICK g : g = Goods!Direction(old.kind)
    OBVIOUS
  <2>2. old.kind \in {"quotation", "challan", "invoice", "note"}
    BY <1>1 DEF PaperRows
  <2>3. g \in -1..1 /\ Goes(old.kind) = g /\ (old.kind \in {"invoice", "challan"} => g = -1)
    BY <2>1, <2>2 DEF Goes, Goods!Direction
  <2>4. m = Goods!Moves(-g) /\ -g \in -1..1
    BY <1>2, <2>1, <2>3
  <2> QED BY <2>1, <2>3, <2>4 DEF Goods!Moves
<1>4. PICK r : /\ r = [old EXCEPT !.state = "cancelled", !.moved = old.moved + m]
               /\ paper' = [paper EXCEPT ![d] = r]
  BY <1>1, <1>2, TradeTypes, Zenon DEF Goods!PutBack
<1>5. PICK q : q = SourceOf(d)
  OBVIOUS
<1>6. Fits(d, old, q, retracked, tracked) /\ old.state = "issued"
  BY <1>1, <1>5 DEF TradeInv, PapersFit
<1>7. old.moved \in {0, Goes(old.kind)} /\ old.moved + m \in -1..1
  BY <1>3, <1>6 DEF Fits, Living
<1>8. /\ r \in PaperRows /\ r.kind = old.kind /\ r.src = old.src /\ r.paid = old.paid
      /\ r.state = "cancelled" /\ r.moved = old.moved + m
  BY <1>1, <1>4, <1>7, Zenon DEF PaperRows
<1>12. PICK z : z = SourceOf(d)'
  OBVIOUS
<1>9. z.kind = q.kind /\ (r.src # 0 => z.state # "none") /\ (Delivered(r, q) => z = q)
  <2>1. /\ r.kind = paper[d].kind /\ r.src = paper[d].src /\ r.state # "none"
        /\ paper[d].state = "issued"
    BY <1>1, <1>6, <1>8
  <2>2. paper'[d] = r
    BY <1>4, TradeTypes
  <2>3. /\ z = IF r.src = 0 THEN Goods!NoPaper ELSE paper'[r.src]
        /\ q = IF r.src = 0 THEN Goods!NoPaper ELSE paper[r.src]
    BY <2>1, <2>2, <1>5, <1>12 DEF SourceOf
  <2>4. r.src # 0 => /\ paper'[r.src].kind = paper[r.src].kind /\ paper'[r.src].state # "none"
                     /\ paper[r.src].kind = "challan" => paper'[r.src] = paper[r.src]
    BY <2>1, <1>4, <1>8, SameSource, Zenon
  <2> QED BY <2>3, <2>4 DEF Delivered
<1>10. Fits(d, r, z, retracked, tracked)
  <2>1. Delivered(r, z) <=> Delivered(old, q)
    BY <1>8, <1>9 DEF Delivered
  <2>2. CASE Delivered(old, q)
    <3>1. z = q /\ q.moved \in Int /\ r.kind = "invoice" /\ q.state = "void" /\ old.moved = 0
      BY <1>6, <1>8, <1>9, <2>1, <2>2, <1>1, <1>5, ChallanMoved DEF Fits, Delivered, Living
    <3>2. r.src \notin retracked => r.moved + q.moved = 0
      BY <1>1, <1>3, <1>5, <1>8, <2>2, <3>1, ChallanMoved
    <3> QED BY <1>6, <1>8, <1>9, <2>1, <2>2, <3>1, <3>2 DEF Fits, Living
  <2>3. CASE ~Delivered(old, q)
    <3>1. d \notin retracked => r.moved = 0
      BY <1>3, <1>6, <1>8, <2>3 DEF Fits, Living
    <3> QED BY <1>1, <1>6, <1>8, <1>9, <2>1, <2>3, <3>1 DEF Fits, Living, Delivered
  <2> QED BY <2>2, <2>3
<1>11. Goods!Adjust(m, TRUE) /\ UNCHANGED <<Goods!product, Goods!vendor, Goods!orders>>
  BY <1>1, <1>2, Zenon DEF Goods!PutBack
<1> QED BY <1>1, <1>3, <1>4, <1>6, <1>8, <1>10, <1>11, <1>12, OldPaper, Zenon

LEMMA DeleteInvoiceStep ==
  ASSUME Goods!TradeShape, TradeInv, NEW d \in Papers, Goods!DeleteInvoice(d)
  PROVE  TradeInv'
<1>1. PICK old \in PaperRows : old = paper[d]
  BY TradeTypes
<1>2. PICK r : /\ r = [old EXCEPT !.state = "deleted"] /\ paper' = [paper EXCEPT ![d] = r]
  BY <1>1, TradeTypes, Zenon DEF Goods!DeleteInvoice
<1>3. /\ r \in PaperRows /\ r.kind = old.kind /\ r.src = old.src /\ r.paid = old.paid
      /\ r.state = "deleted" /\ r.moved = old.moved
  BY <1>1, <1>2 DEF PaperRows
<1>4. old.kind = "invoice" /\ old.state = "issued" /\ old.moved = 0
  BY <1>1 DEF Goods!DeleteInvoice, Goods!Is, Goods!Deletable
<1>5. Goods!Adjust(0, TRUE) /\ UNCHANGED <<Goods!product, Goods!vendor, Goods!orders>>
  BY Zenon DEF Goods!DeleteInvoice
<1>6. PICK q : q = SourceOf(d)
  OBVIOUS
<1>7. PICK z : z = SourceOf(d)'
  OBVIOUS
<1>8. Fits(d, old, q, retracked, tracked)
  BY <1>1, <1>6 DEF TradeInv, PapersFit
<1>9. z.kind = q.kind /\ (r.src # 0 => z.state # "none") /\ (Delivered(r, q) => z = q)
  <2>1. /\ r.kind = paper[d].kind /\ r.src = paper[d].src /\ r.state # "none"
        /\ paper[d].state = "issued"
    BY <1>1, <1>3, <1>4
  <2>2. paper'[d] = r
    BY <1>2, TradeTypes
  <2>3. /\ z = IF r.src = 0 THEN Goods!NoPaper ELSE paper'[r.src]
        /\ q = IF r.src = 0 THEN Goods!NoPaper ELSE paper[r.src]
    BY <2>1, <2>2, <1>6, <1>7 DEF SourceOf
  <2>4. r.src # 0 => /\ paper'[r.src].kind = paper[r.src].kind /\ paper'[r.src].state # "none"
                     /\ paper[r.src].kind = "challan" => paper'[r.src] = paper[r.src]
    BY <2>1, <1>2, <1>3, SameSource, Zenon
  <2> QED BY <2>3, <2>4 DEF Delivered
<1>10. Fits(d, r, z, retracked, tracked)
  BY <1>3, <1>4, <1>8, <1>9 DEF Fits, Living, Delivered
<1>11. 0 \in -1..1 /\ TRUE \in BOOLEAN /\ paper[d].kind \notin {"bill", "order"}
  BY <1>1, <1>4
<1> QED BY <1>1, <1>2, <1>3, <1>4, <1>5, <1>7, <1>10, <1>11, OldPaper, Zenon

\* The paper an invoice is made from, and the invoice, are written together.
Invoicing(o, a, r) ==
  /\ paper[o].state \in {"draft", "confirmed", "issued"} /\ Goods!InvoicesOf(o) = {}
  /\ paper[o].kind \in {"order", "quotation", "challan"}
  /\ a \in PaperRows /\ a.kind = paper[o].kind /\ a.src = paper[o].src
  /\ a.moved = paper[o].moved /\ a.paid = paper[o].paid /\ a.state \in Living \ {"issued"}
  /\ a.kind # "order" => a.state = "void"
  /\ r \in PaperRows /\ r.kind = "invoice" /\ r.state = "issued" /\ r.src = o /\ r.paid = 0
  /\ r.moved = (IF a.kind = "challan" \/ tracked # "yes" THEN 0 ELSE -1)

LEMMA InvoiceMade ==
  ASSUME Goods!TradeShape, TradeInv, NEW o \in Papers, NEW d \in Papers, NEW a, NEW r,
         NEW n \in -1..1, NEW guarded \in BOOLEAN, Goods!Unused(d), Invoicing(o, a, r),
         paper' = [paper EXCEPT ![o] = a, ![d] = r], Goods!Adjust(n, guarded),
         UNCHANGED <<Goods!product, Goods!vendor, cancelling>>, outrun' = (outrun \/ o \in cancelling)
  PROVE  TradeInv'
<1> USE DEF Invoicing
<1>1. paper[d] = Goods!NoPaper /\ Goods!InvoicesOf(d) = {} /\ \A e \in Papers : paper[e].src # d
  BY UnusedPaper
<1>2. UNCHANGED <<tracked, edits, unrecorded, retracked, onAccount, payable, cancelling>>
  BY DEF Goods!product, Goods!vendor
<1>3. o # d /\ paper[d].state = "none" /\ paper[d].paid = 0 /\ paper[d].kind = "order"
  BY <1>1 DEF Goods!NoPaper
<1>4. /\ paper' \in [Papers -> PaperRows] /\ paper'[d] = r /\ paper'[o] = a
      /\ \A e \in Papers \ {o, d} : paper'[e] = paper[e]
  BY <1>3, TradeTypes
<1>5. \A e \in Papers \ {o, d} : Fits(e, paper[e], SourceOf(e), retracked, tracked)'
  <2>1. \A c \in {o, d} : paper[c].state # "none" =>
           /\ paper'[c].kind = paper[c].kind /\ paper'[c].state # "none"
           /\ paper[c].state = "void" /\ paper[c].kind = "challan" => paper'[c] = paper[c]
    BY <1>3, <1>4 DEF Living
  <2>2. {o, d} \in SUBSET Papers /\ UNCHANGED <<tracked, retracked>>
    BY <1>2
  <2> QED BY <2>1, <2>2, <1>4, OthersFit, Zenon
<1>6. Fits(o, paper[o], SourceOf(o), retracked, tracked)'
  <2>1. Fits(o, paper[o], SourceOf(o), retracked, tracked)
    BY DEF TradeInv, PapersFit
  <2>2. paper[o].src = 0
    BY <2>1 DEF Fits
  <2>3. SourceOf(o) = Goods!NoPaper /\ SourceOf(o)' = Goods!NoPaper
    BY <1>4, <2>2 DEF SourceOf
  <2>4. Fits(o, a, Goods!NoPaper, retracked, tracked)
    BY <2>1, <2>2, <2>3 DEF Fits, Delivered, Living, Goes
  <2> QED BY <1>2, <1>4, <2>3, <2>4
<1>7. Fits(d, paper[d], SourceOf(d), retracked, tracked)'
  <2>1. PICK z : z = SourceOf(d)'
    OBVIOUS
  <2>2. z = a /\ r.src # 0 /\ a.state # "none"
    BY <1>4, <2>1, TradeTypes DEF SourceOf, Living
  <2>3. Goes("invoice") = -1
    BY DEF Goes, Goods!Direction
  <2>4. Fits(d, r, a, retracked, tracked)
    BY <2>2, <2>3 DEF Fits, Delivered, Living
  <2> QED BY <1>2, <1>4, <2>1, <2>2, <2>4
<1>8. PapersFit'
  BY <1>5, <1>6, <1>7, Zenon DEF PapersFit
<1>9. VendorOwed'
  <2>1. Goods!BillsOf(paper') = Goods!BillsOf(paper)
    BY <1>3, <1>4 DEF Goods!BillsOf
  <2>2. \A e \in Papers : paper'[e].paid = paper[e].paid
    BY <1>3, <1>4
  <2> QED BY <1>4, <2>1, <2>2, OwedKept
<1>10. Stocked' /\ stock' \in Int /\ recorded' \in Int /\ forced' \in BOOLEAN
  BY <1>2, AdjustHolds
<1>11. Sources'
  <2>1. /\ Goods!InvoicesOf(o)' = {d}
        /\ \A e \in Papers \ {o} : Goods!InvoicesOf(e)' \subseteq Goods!InvoicesOf(e)
    <3>1. ASSUME NEW e \in Papers
          PROVE  e \in Goods!InvoicesOf(o)' <=> e = d
      BY <1>3, <1>4, <3>1 DEF Goods!InvoicesOf
    <3>2. Goods!InvoicesOf(o)' = {d}
      BY <3>1, Zenon DEF Goods!InvoicesOf
    <3>3. ASSUME NEW e \in Papers \ {o}, NEW c \in Goods!InvoicesOf(e)'
          PROVE  c \in Goods!InvoicesOf(e)
      BY <1>3, <1>4, <3>3 DEF Goods!InvoicesOf
    <3> QED BY <3>2, <3>3
  <2>2. outrun => outrun'
    BY Zenon
  <2>3. o \in cancelling => outrun'
    BY Zenon
  <2>4. ASSUME NEW e \in Papers PROVE Sourced(e)'
    <3>1. Sourced(e)
      BY DEF TradeInv, Sources
    <3>2. CASE e = o
      BY <2>1, <2>3, <3>2, <1>2, <1>4 DEF Sourced, Living
    <3>3. CASE e = d
      BY <1>3, <1>4, <3>3 DEF Sourced
    <3>4. CASE e \notin {o, d}
      BY <2>1, <2>2, <3>1, <3>4, <1>2, <1>4 DEF Sourced
    <3> QED BY <3>2, <3>3, <3>4
  <2>5. \A e \in cancelling : e \in Papers /\ paper[e].kind = "order" /\ paper[e].state # "none"
    BY DEF TradeInv, Goods!TypeOK, Sources
  <2>6. \A e \in cancelling' : paper'[e].kind = "order" /\ paper'[e].state # "none"
    BY <2>5, <1>2, <1>3, <1>4 DEF Living
  <2> QED BY <2>4, <2>6, Zenon DEF Sources
<1>12. Goods!TypeOK'
  BY <1>2, <1>4, <1>10 DEF TradeInv, Goods!TypeOK, PaperRows
<1> QED BY <1>8, <1>9, <1>10, <1>11, <1>12 DEF TradeInv

LEMMA GenerateInvoiceStep ==
  ASSUME Goods!TradeShape, TradeInv, NEW o \in Papers, NEW d \in Papers, NEW oversell \in BOOLEAN,
         Goods!GenerateInvoice(o, d, oversell)
  PROVE  TradeInv'
<1>1. PICK old \in PaperRows : old = paper[o]
  BY TradeTypes
<1>2. PICK a : a = [old EXCEPT !.state = "confirmed"]
  BY Zenon
<1>3. PICK r : r = Goods!New("invoice", "issued", o, Goods!Moves(-1))
  OBVIOUS
<1>4. PICK guarded \in BOOLEAN : guarded = ~oversell
  BY Zenon
<1>5. /\ Goods!Is(o, "order", "draft") \/ Goods!Is(o, "order", "confirmed")
      /\ Goods!InvoicesOf(o) = {} /\ Goods!Unused(d)
  BY DEF Goods!GenerateInvoice, Goods!Invoiceable, Goods!Invoiced
<1>6. old.kind = "order" /\ old.state \in {"draft", "confirmed"}
  BY <1>1, <1>5 DEF Goods!Is
<1>7. o # d
  BY <1>1, <1>5, <1>6 DEF Goods!Unused
<1>8. paper' = [paper EXCEPT ![o] = a, ![d] = r]
  BY <1>1, <1>2, <1>3, <1>7, TradeTypes DEF Goods!GenerateInvoice
<1>9. /\ a \in PaperRows /\ a.kind = "order" /\ a.src = old.src /\ a.moved = old.moved
      /\ a.paid = old.paid /\ a.state = "confirmed"
  BY <1>1, <1>2, <1>6 DEF PaperRows
<1>10. Goods!Moves(-1) = (IF tracked # "yes" THEN 0 ELSE -1) /\ -1 \in -1..1
       /\ Goods!Moves(-1) \in -1..1
  BY DEF Goods!Moves
<1>11. /\ r \in PaperRows /\ r.kind = "invoice" /\ r.state = "issued" /\ r.src = o /\ r.paid = 0
       /\ r.moved = (IF a.kind = "challan" \/ tracked # "yes" THEN 0 ELSE -1)
  BY <1>3, <1>9, <1>10, GoodsSums DEF Goods!New, PaperRows, Goods!TradeShape
<1>12. /\ Goods!Adjust(-1, guarded) /\ UNCHANGED <<Goods!product, Goods!vendor, cancelling>>
       /\ outrun' = (outrun \/ o \in cancelling)
  BY <1>4, Zenon DEF Goods!GenerateInvoice
<1>13. /\ paper[o].state \in {"draft", "confirmed", "issued"}
       /\ paper[o].kind \in {"order", "quotation", "challan"}
       /\ a.kind = paper[o].kind /\ a.src = paper[o].src /\ a.moved = paper[o].moved
       /\ a.paid = paper[o].paid /\ a.state \in Living \ {"issued"}
       /\ a.kind # "order" => a.state = "void"
  BY <1>1, <1>6, <1>9 DEF Living
<1>16. Invoicing(o, a, r)
  BY <1>5, <1>9, <1>11, <1>13 DEF Invoicing
<1> QED BY <1>5, <1>8, <1>10, <1>12, <1>16, InvoiceMade, Zenon

LEMMA ConvertStep ==
  ASSUME Goods!TradeShape, TradeInv, NEW o \in Papers, NEW d \in Papers, NEW oversell \in BOOLEAN,
         Goods!Convert(o, d, oversell)
  PROVE  TradeInv'
<1>1. PICK old \in PaperRows : old = paper[o]
  BY TradeTypes
<1>2. PICK a : a = [old EXCEPT !.state = "void"]
  BY Zenon
<1>14. PICK n : n = IF old.kind = "challan" THEN 0 ELSE Goods!Moves(-1)
  OBVIOUS
<1>3. PICK r : r = Goods!New("invoice", "issued", o, n)
  OBVIOUS
<1>4. PICK guarded \in BOOLEAN : guarded = ~oversell
  BY Zenon
<1>5. /\ Goods!Is(o, "quotation", "issued") \/ Goods!Is(o, "challan", "issued")
      /\ Goods!InvoicesOf(o) = {} /\ Goods!Unused(d)
  BY DEF Goods!Convert, Goods!Invoiced
<1>6. old.kind \in {"quotation", "challan"} /\ old.state = "issued"
  BY <1>1, <1>5 DEF Goods!Is
<1>7. o # d
  BY <1>1, <1>5, <1>6 DEF Goods!Unused
<1>8. paper' = [paper EXCEPT ![o] = a, ![d] = r]
  BY <1>1, <1>2, <1>3, <1>14, <1>7, TradeTypes DEF Goods!Convert
<1>9. /\ a \in PaperRows /\ a.kind = old.kind /\ a.src = old.src /\ a.moved = old.moved
      /\ a.paid = old.paid /\ a.state = "void"
  BY <1>1, <1>2, <1>6 DEF PaperRows
<1>10. n = (IF a.kind = "challan" \/ tracked # "yes" THEN 0 ELSE -1) /\ n \in -1..1
  BY <1>9, <1>14 DEF Goods!Moves
<1>11. /\ r \in PaperRows /\ r.kind = "invoice" /\ r.state = "issued" /\ r.src = o /\ r.paid = 0
       /\ r.moved = (IF a.kind = "challan" \/ tracked # "yes" THEN 0 ELSE -1)
  BY <1>3, <1>9, <1>10, GoodsSums DEF Goods!New, PaperRows, Goods!TradeShape
<1>12. /\ Goods!Adjust(n, guarded) /\ UNCHANGED <<Goods!product, Goods!vendor, cancelling>> /\ outrun' = outrun
  BY <1>1, <1>4, <1>14, Zenon DEF Goods!Convert, Goods!orders
<1>15. outrun' = (outrun \/ o \in cancelling)
  <2>1. o \notin cancelling
    BY <1>1, <1>6 DEF TradeInv, Sources
  <2>2. outrun \in BOOLEAN
    BY DEF TradeInv, Goods!TypeOK
  <2> QED BY <1>12, <2>1, <2>2
<1>13. /\ paper[o].state \in {"draft", "confirmed", "issued"}
       /\ paper[o].kind \in {"order", "quotation", "challan"}
       /\ a.kind = paper[o].kind /\ a.src = paper[o].src /\ a.moved = paper[o].moved
       /\ a.paid = paper[o].paid /\ a.state \in Living \ {"issued"}
       /\ a.kind # "order" => a.state = "void"
  BY <1>1, <1>6, <1>9 DEF Living
<1>16. Invoicing(o, a, r)
  BY <1>5, <1>9, <1>11, <1>13 DEF Invoicing
<1> QED BY <1>5, <1>8, <1>10, <1>12, <1>15, <1>16, InvoiceMade, Zenon

-----------------------------------------------------------------------------
LEMMA FindOrderStep ==
  ASSUME Goods!TradeShape, TradeInv, NEW o \in Papers, Goods!FindOrder(o)
  PROVE  TradeInv'
<1>1. /\ cancelling' = cancelling \cup {o} /\ Goods!InvoicesOf(o) = {}
      /\ paper[o].kind = "order" /\ paper[o].state # "none"
      /\ UNCHANGED <<stock, recorded, forced, paper, outrun, tracked, edits, unrecorded, retracked,
                     onAccount, payable>>
  BY DEF Goods!FindOrder, Goods!Invoiceable, Goods!Invoiced, Goods!Is, Goods!product,
         Goods!vendor
<1>2. Goods!TypeOK' /\ PapersFit' /\ Stocked' /\ VendorOwed'
  BY <1>1 DEF TradeInv, Goods!TypeOK, PapersFit, SourceOf, Stocked, VendorOwed
<1>3. \A d \in Papers : Goods!InvoicesOf(d)' = Goods!InvoicesOf(d)
  BY <1>1 DEF Goods!InvoicesOf
<1>4. Sources'
  <2>1. \A d \in Papers : Sourced(d)'
    BY <1>1, <1>3 DEF TradeInv, Sources, Sourced
  <2> QED BY <1>1, <2>1 DEF TradeInv, Sources
<1> QED BY <1>2, <1>4 DEF TradeInv

LEMMA SaveOrderStep ==
  ASSUME Goods!TradeShape, TradeInv, NEW o \in Papers, Goods!SaveOrder(o)
  PROVE  TradeInv'
<1>1. PICK old \in PaperRows : old = paper[o]
  BY TradeTypes
<1>2. PICK r : r = [old EXCEPT !.state = "cancelled"] /\ paper' = [paper EXCEPT ![o] = r]
  BY <1>1, TradeTypes, Zenon DEF Goods!SaveOrder
<1>3. /\ r \in PaperRows /\ r.kind = old.kind /\ r.src = old.src /\ r.paid = old.paid
      /\ r.state = "cancelled" /\ r.moved = old.moved
  BY <1>1, <1>2 DEF PaperRows
<1>4. /\ o \in cancelling /\ cancelling' = cancelling \ {o}
      /\ UNCHANGED <<stock, recorded, forced, Goods!product, Goods!vendor, outrun>>
      /\ UNCHANGED <<tracked, edits, unrecorded, retracked, onAccount, payable>>
  BY DEF Goods!SaveOrder, Goods!product, Goods!vendor
<1>5. old.kind = "order" /\ old.state # "none" /\ (Goods!InvoicesOf(o) = {} \/ outrun)
  BY <1>1, <1>4 DEF TradeInv, Sources, Sourced
<1>6. Fits(o, old, SourceOf(o), retracked, tracked)
  BY <1>1 DEF TradeInv, PapersFit
<1>7. old.src = 0 /\ old.moved = 0
  BY <1>5, <1>6 DEF Fits
<1>8. Fits(o, r, SourceOf(o)', retracked, tracked)
  BY <1>3, <1>5, <1>6, <1>7 DEF Fits, Delivered, Living
<1>9. PapersFit' /\ VendorOwed' /\ paper' \in [Papers -> PaperRows]
  BY <1>1, <1>2, <1>3, <1>4, <1>5, <1>7, <1>8, WritePaper, Zenon
<1>10. paper'[o] = r /\ \A e \in Papers \ {o} : paper'[e] = paper[e]
  BY <1>2, TradeTypes
<1>11. Sources'
  <2>1. \A e \in Papers : Goods!InvoicesOf(e)' \subseteq Goods!InvoicesOf(e)
    BY <1>3, <1>5, <1>10 DEF Goods!InvoicesOf
  <2>2. \A e \in cancelling' : paper'[e].kind = "order" /\ paper'[e].state # "none"
    BY <1>4, <1>10 DEF TradeInv, Goods!TypeOK, Sources
  <2> QED BY <1>1, <1>3, <1>4, <1>5, <1>10, <2>1, <2>2, SourcesKept
<1>12. Goods!TypeOK' /\ Stocked'
  BY <1>4, <1>9 DEF TradeInv, Goods!TypeOK, PaperRows, Stocked
<1> QED BY <1>9, <1>11, <1>12 DEF TradeInv

-----------------------------------------------------------------------------
\* A step on a purchase bill, which is made from no paper and from which none is made.
BillRow(d, r) ==
  /\ r \in PaperRows /\ r.kind = "bill" /\ r.src = 0 /\ r.state \in {"issued", "cancelled"}
  /\ r.state = "issued" =>
       /\ r.moved \in {0, 1}
       /\ d \notin retracked => r.moved = IF tracked = "yes" THEN 1 ELSE 0
  /\ r.state = "cancelled" => r.paid = 0 /\ (d \notin retracked => r.moved = 0)

LEMMA BillStep ==
  ASSUME Goods!TradeShape, TradeInv, NEW d \in Papers, NEW r, BillRow(d, r),
         paper[d] = Goods!NoPaper \/ paper[d].kind = "bill",
         Goods!Books([paper EXCEPT ![d] = r], onAccount),
         UNCHANGED <<Goods!product, Goods!orders>>,
         Stocked', stock' \in Int, recorded' \in Int, forced' \in BOOLEAN
  PROVE  TradeInv'
<1> USE DEF BillRow
<1>1. /\ UNCHANGED <<tracked, edits, unrecorded, retracked, cancelling, outrun>>
      /\ paper' = [paper EXCEPT ![d] = r] /\ onAccount' = onAccount
      /\ payable' = Goods!Payable(paper', onAccount')
  BY DEF Goods!product, Goods!orders, Goods!Books
<1>2. /\ paper' \in [Papers -> PaperRows] /\ paper'[d] = r
      /\ \A e \in Papers \ {d} : paper'[e] = paper[e]
  BY <1>1, TradeTypes
<1>3. paper[d].state # "none" => paper[d].kind = "bill"
  BY DEF Goods!NoPaper
<1>4. \A e \in Papers \ {d} : Fits(e, paper[e], SourceOf(e), retracked, tracked)'
  <2>1. /\ {d} \in SUBSET Papers /\ paper' \in [Papers -> PaperRows]
        /\ \A e \in Papers \ {d} : paper'[e] = paper[e]
        /\ tracked' = tracked /\ retracked' = retracked
    BY <1>1, <1>2
  <2>2. ASSUME NEW c \in {d}, paper[c].state # "none"
        PROVE  /\ paper'[c].kind = paper[c].kind /\ paper'[c].state # "none"
               /\ paper[c].state = "void" /\ paper[c].kind = "challan" => paper'[c] = paper[c]
    BY <1>2, <1>3, <2>2
  <2> QED BY <2>1, <2>2, OthersFit, Zenon
<1>5. Fits(d, paper[d], SourceOf(d), retracked, tracked)'
  <2>1. SourceOf(d)' = Goods!NoPaper
    BY <1>2 DEF SourceOf
  <2>2. Fits(d, r, Goods!NoPaper, retracked, tracked)
    BY DEF Fits, Delivered, Living, Goes
  <2> QED BY <1>1, <1>2, <2>1, <2>2
<1>6. Sources'
  <2>1. \A e \in Papers : Goods!InvoicesOf(e)' \subseteq Goods!InvoicesOf(e)
    BY <1>2 DEF Goods!InvoicesOf
  <2>2. \A o \in cancelling : o \in Papers /\ o # d /\ paper[o].kind = "order" /\ paper[o].state # "none"
    BY <1>3 DEF TradeInv, Goods!TypeOK, Sources, Goods!NoPaper
  <2> QED BY <1>1, <1>2, <2>1, <2>2, SourcesKept
<1>7. onAccount' \in Nat /\ payable' \in Nat
  BY <1>1, <1>2, TradeTypes, PayableNat, Zenon
<1>8. VendorOwed'
  BY <1>1, GoodsSums DEF VendorOwed, Goods!Payable
<1>9. Goods!TypeOK'
  BY <1>1, <1>2, <1>7 DEF TradeInv, Goods!TypeOK, PaperRows
<1> QED BY <1>4, <1>5, <1>6, <1>8, <1>9 DEF TradeInv, PapersFit

LEMMA ReceiveStep ==
  ASSUME Goods!TradeShape, TradeInv, NEW d \in Papers, Goods!Receive(d)
  PROVE  TradeInv'
<1>1. PICK m : m = Goods!Moves(1)
  OBVIOUS
<1>2. m = (IF tracked = "yes" THEN 1 ELSE 0)
  BY <1>1 DEF Goods!Moves
<1>3. PICK r : r = Goods!New("bill", "issued", 0, m) /\ Goods!Books([paper EXCEPT ![d] = r], onAccount)
  BY <1>1 DEF Goods!Receive
<1>4. BillRow(d, r)
  BY <1>2, <1>3, GoodsSums DEF BillRow, Goods!New, PaperRows, Goods!TradeShape
<1>5. Goods!Unused(d) /\ UNCHANGED <<Goods!product, Goods!orders>> /\ Goods!Adjust(1, FALSE)
  BY Zenon DEF Goods!Receive
<1>6. unrecorded' = unrecorded
  BY <1>5 DEF Goods!product
<1>7. 1 \in -1..1 /\ FALSE \in BOOLEAN
  OBVIOUS
<1>8. Stocked' /\ stock' \in Int /\ recorded' \in Int /\ forced' \in BOOLEAN
  BY <1>5, <1>6, <1>7, AdjustHolds, Zenon
<1>9. paper[d] = Goods!NoPaper
  BY <1>5, UnusedPaper
<1> QED BY <1>3, <1>4, <1>5, <1>8, <1>9, BillStep

\* An open bill has moved the goods it brought.
LEMMA OpenBill ==
  ASSUME Goods!TradeShape, TradeInv, NEW d \in Papers, Goods!Is(d, "bill", "issued")
  PROVE  BillRow(d, paper[d])
<1>1. paper[d] \in PaperRows /\ Fits(d, paper[d], SourceOf(d), retracked, tracked)
  BY TradeTypes DEF TradeInv, PapersFit
<1> QED BY <1>1 DEF BillRow, Goods!Is, Fits, Delivered, Living, Goes, PaperRows

LEMMA CancelBillStep ==
  ASSUME Goods!TradeShape, TradeInv, NEW d \in Papers, Goods!CancelBill(d)
  PROVE  TradeInv'
<1>1. PICK old \in PaperRows : old = paper[d]
  BY TradeTypes
<1>2. old.kind = "bill" /\ BillRow(d, old) /\ old.paid = 0 /\ old.state = "issued"
  BY <1>1, OpenBill DEF Goods!CancelBill, Goods!MayCancelBill, Goods!Is
<1>3. PICK m : m = Goods!Moves(-1)
  OBVIOUS
<1>4. m = (IF tracked = "yes" THEN -1 ELSE 0)
  BY <1>3 DEF Goods!Moves
<1>5. PICK r : /\ r = [old EXCEPT !.state = "cancelled", !.moved = old.moved + m]
               /\ Goods!Books([paper EXCEPT ![d] = r], onAccount)
  BY <1>1, <1>3, TradeTypes, Zenon DEF Goods!CancelBill
<1>6. /\ r.kind = old.kind /\ r.src = old.src /\ r.paid = old.paid
      /\ r.state = "cancelled" /\ r.moved = old.moved + m
  BY <1>1, <1>5 DEF PaperRows
<1>7. BillRow(d, r)
  <2>1. /\ old.moved \in {0, 1} /\ m \in {-1, 0} /\ old.src = 0
        /\ d \notin retracked => old.moved + m = 0
    BY <1>2, <1>4 DEF BillRow
  <2>2. old.moved + m \in -1..1
    BY <2>1
  <2>3. r \in PaperRows
    BY <1>5, <2>2, Zenon DEF PaperRows
  <2> QED BY <1>2, <1>6, <2>1, <2>3 DEF BillRow
<1>8. UNCHANGED <<Goods!product, Goods!orders>> /\ Goods!Adjust(-1, FALSE)
  BY Zenon DEF Goods!CancelBill
<1>9. unrecorded' = unrecorded
  BY <1>8 DEF Goods!product
<1>10. -1 \in -1..1 /\ FALSE \in BOOLEAN
  OBVIOUS
<1>11. Stocked' /\ stock' \in Int /\ recorded' \in Int /\ forced' \in BOOLEAN
  BY <1>8, <1>9, <1>10, AdjustHolds, Zenon
<1> QED BY <1>1, <1>2, <1>5, <1>7, <1>8, <1>11, BillStep

LEMMA PayBillStep ==
  ASSUME Goods!TradeShape, TradeInv, NEW d \in Papers, NEW n \in 1..BillTotal, Goods!PayBill(d, n)
  PROVE  TradeInv'
<1>1. PICK old \in PaperRows : old = paper[d]
  BY TradeTypes
<1>2. old.kind = "bill" /\ BillRow(d, old) /\ old.state = "issued" /\ n <= BillTotal - old.paid
  BY <1>1, OpenBill DEF Goods!PayBill, Goods!Is
<1>3. PICK r : /\ r = [old EXCEPT !.paid = old.paid + n]
               /\ Goods!Books([paper EXCEPT ![d] = r], onAccount)
  BY <1>1, TradeTypes, Zenon DEF Goods!PayBill
<1>4. old.paid + n \in 0..BillTotal
  BY <1>1, <1>2, GoodsSums DEF PaperRows, Goods!TradeShape
<1>5. BillRow(d, r)
  BY <1>1, <1>2, <1>3, <1>4 DEF BillRow, PaperRows
<1>6. UNCHANGED <<Goods!product, Goods!orders>>
      /\ UNCHANGED <<stock, recorded, forced, unrecorded>>
  BY DEF Goods!PayBill, Goods!product
<1>7. Stocked' /\ stock' \in Int /\ recorded' \in Int /\ forced' \in BOOLEAN
  BY <1>6 DEF TradeInv, Goods!TypeOK, Stocked
<1> QED BY <1>1, <1>2, <1>3, <1>5, <1>6, <1>7, BillStep

LEMMA PayOnAccountStep ==
  ASSUME Goods!TradeShape, TradeInv, NEW n \in 1..BillTotal, Goods!PayOnAccount(n)
  PROVE  TradeInv'
<1>1. /\ paper' = paper /\ onAccount' = onAccount + n /\ payable' = Goods!Payable(paper', onAccount')
      /\ UNCHANGED <<stock, recorded, forced, tracked, edits, unrecorded, retracked, cancelling, outrun>>
  BY DEF Goods!PayOnAccount, Goods!Books, Goods!product, Goods!orders
<1>2. onAccount' \in Nat /\ payable' \in Nat
  <2>1. onAccount' \in Nat /\ paper' \in [Papers -> PaperRows]
    BY <1>1, TradeTypes, GoodsSums DEF Goods!TradeShape
  <2> QED BY <1>1, <2>1, PayableNat
<1>3. VendorOwed'
  BY <1>1, GoodsSums DEF VendorOwed, Goods!Payable
<1>4. Goods!TypeOK' /\ Stocked' /\ PapersFit'
  BY <1>1, <1>2 DEF TradeInv, Goods!TypeOK, Stocked, PapersFit, SourceOf
<1>5. Sources'
  BY <1>1 DEF TradeInv, Sources, Sourced, Goods!InvoicesOf
<1> QED BY <1>3, <1>4, <1>5 DEF TradeInv

-----------------------------------------------------------------------------
\* The product is edited or deleted: papers in the books are marked when tracking changes.
LEMMA ProductStep ==
  ASSUME Goods!TradeShape, TradeInv, UNCHANGED <<paper, Goods!vendor, Goods!orders>>,
         \/ UNCHANGED <<tracked, retracked>>
         \/ retracked' = retracked \cup Goods!Alive,
         Stocked', Goods!TypeOK'
  PROVE  TradeInv'
<1>1. UNCHANGED <<onAccount, payable, cancelling, outrun>>
  BY DEF Goods!vendor, Goods!orders
<1>2. PapersFit'
  <2> SUFFICES ASSUME NEW d \in Papers PROVE Fits(d, paper[d], SourceOf(d), retracked, tracked)'
    BY DEF PapersFit
  <2>1. PICK r : r = paper[d] /\ r = paper'[d]
    OBVIOUS
  <2>2. PICK q : q = SourceOf(d) /\ q = SourceOf(d)'
    BY DEF SourceOf
  <2>3. Fits(d, r, q, retracked, tracked)
    BY <2>1, <2>2, Zenon DEF TradeInv, PapersFit
  <2>4. retracked \subseteq retracked'
    OBVIOUS
  <2>5. r.state \in Living /\ d \notin retracked' => tracked' = tracked
    BY <2>1 DEF Goods!Alive, Living
  <2>6. Fits(d, r, q, retracked', tracked')
    BY <2>3, <2>4, <2>5 DEF Fits, Delivered
  <2> QED BY <2>1, <2>2, <2>6
<1>3. Sources' /\ VendorOwed'
  BY <1>1, GoodsSums DEF TradeInv, Sources, Sourced, Goods!InvoicesOf, VendorOwed,
         Goods!Payable, Goods!BillsOf
<1> QED BY <1>2, <1>3 DEF TradeInv

LEMMA EditProductStep ==
  ASSUME Goods!TradeShape, TradeInv, NEW n \in Stocks, NEW t \in {"yes", "no"},
         Goods!EditProduct(n, t)
  PROVE  TradeInv'
<1>1. /\ n \in Nat /\ stock \in Int /\ recorded \in Int /\ unrecorded \in BOOLEAN
      /\ forced \in BOOLEAN /\ Stocked
  BY GoodsSums DEF TradeInv, Goods!TypeOK, Goods!TradeShape
<1>2. /\ edits < StockEdits /\ edits' = edits + 1 /\ stock' = n /\ tracked' = t
      /\ recorded' = (IF t = "yes" THEN recorded + n - stock ELSE recorded)
      /\ retracked' = (IF t = tracked THEN retracked ELSE retracked \cup Goods!Alive)
      /\ UNCHANGED <<paper, forced, Goods!vendor, Goods!orders>>
      /\ UNCHANGED <<paper, forced, onAccount, payable, cancelling, outrun>>
  BY DEF Goods!EditProduct, Goods!vendor, Goods!orders
<1>3. unrecorded' = (unrecorded \/ (t = "no" /\ n # stock))
  BY Zenon DEF Goods!EditProduct
<1>4. unrecorded' \in BOOLEAN
  BY <1>3, Zenon
<1>5. Stocked'
  <2>1. unrecorded \/ (t = "no" /\ n # stock) => unrecorded'
    BY <1>3, Zenon
  <2> QED BY <1>1, <1>2, <2>1 DEF Stocked
<1>6. Goods!TypeOK'
  <2>1. stock' \in Int /\ recorded' \in Int
    BY <1>1, <1>2
  <2>2. edits' \in 0..StockEdits /\ retracked' \subseteq Papers
    <3>1. edits \in 0..StockEdits /\ retracked \subseteq Papers /\ StockEdits \in Nat
      BY GoodsSums DEF TradeInv, Goods!TypeOK, Goods!TradeShape
    <3>2. edits' \in 0..StockEdits
      BY <1>2, <3>1
    <3>3. Goods!Alive \subseteq Papers
      BY DEF Goods!Alive
    <3> QED BY <1>2, <3>1, <3>2, <3>3
  <2> QED BY <1>2, <1>4, <2>1, <2>2 DEF TradeInv, Goods!TypeOK
<1> QED BY <1>2, <1>5, <1>6, ProductStep

LEMMA DeleteProductStep ==
  ASSUME Goods!TradeShape, TradeInv, Goods!DeleteProduct
  PROVE  TradeInv'
<1>1. /\ tracked' = "gone" /\ retracked' = retracked \cup Goods!Alive
      /\ UNCHANGED <<stock, recorded, forced, paper, edits, unrecorded, Goods!vendor, Goods!orders>>
      /\ UNCHANGED <<onAccount, payable, cancelling, outrun>>
  BY DEF Goods!DeleteProduct, Goods!vendor, Goods!orders
<1>2. Stocked' /\ Goods!TypeOK'
  BY <1>1 DEF TradeInv, Goods!TypeOK, Stocked, Goods!Alive
<1> QED BY <1>1, <1>2, ProductStep

-----------------------------------------------------------------------------
LEMMA TradeInit == ASSUME Goods!TradeShape, Goods!Init PROVE TradeInv
<1>1. /\ paper \in [Papers -> PaperRows] /\ \A d \in Papers : paper[d] = Goods!NoPaper
      /\ cancelling = {} /\ onAccount = 0 /\ payable = 0 /\ retracked = {}
  BY GoodsSums DEF Goods!Init, Goods!NoPaper, PaperRows, Goods!TradeShape
<1>7. /\ tracked \in {"yes", "no"} /\ stock \in Stocks /\ edits = 0
      /\ tracked = "yes" => recorded = stock
      /\ tracked # "yes" => recorded = 0
  BY Zenon DEF Goods!Init
<1>8. /\ unrecorded \in BOOLEAN /\ forced \in BOOLEAN /\ outrun \in BOOLEAN
      /\ tracked = "no" /\ stock # 0 => unrecorded
  BY Zenon DEF Goods!Init
<1>2. Goods!TypeOK
  <2>1. stock \in Int /\ recorded \in Int /\ edits \in 0..StockEdits
    BY <1>7, GoodsSums DEF Goods!TradeShape
  <2> QED BY <1>1, <1>7, <1>8, <2>1 DEF Goods!TypeOK, PaperRows
<1>3. PapersFit
  BY <1>1 DEF PapersFit, Fits, Goods!NoPaper, SourceOf, Delivered, Living
<1>4. Stocked
  BY <1>7, <1>8, GoodsSums DEF Stocked, Goods!TradeShape
<1>5. Sources
  BY <1>1 DEF Sources, Sourced, Goods!InvoicesOf, Goods!NoPaper
<1>6. VendorOwed
  <2>1. Goods!BillsOf(paper) = {}
    <3>1. \A d \in Papers : paper[d].kind # "bill"
      BY <1>1 DEF Goods!NoPaper
    <3>2. Goods!BillsOf(paper) = {d \in Papers : paper[d].kind = "bill" /\ paper[d].state = "issued"}
      BY Zenon DEF Goods!BillsOf
    <3> QED BY <3>1, <3>2
  <2>2. Sum([d \in Papers |-> paper[d].paid]) = 0
    <3>1. /\ [d \in Papers |-> paper[d].paid] \in [Papers -> Nat]
          /\ \A d \in Papers : [e \in Papers |-> paper[e].paid][d] = 0
      BY <1>1 DEF Goods!NoPaper
    <3> QED BY <3>1, SumZero
  <2>3. Cardinality(Goods!BillsOf(paper)) = 0
    BY <2>1, FS_EmptySet
  <2> QED BY <1>1, <2>2, <2>3, GoodsSums DEF VendorOwed, Goods!Payable, Goods!TradeShape
<1> QED BY <1>2, <1>3, <1>4, <1>5, <1>6 DEF TradeInv

LEMMA TradeStep == ASSUME Goods!TradeShape, TradeInv, [Goods!Next]_(Goods!vars) PROVE TradeInv'
<1>1. CASE UNCHANGED Goods!vars
  <2>1. /\ UNCHANGED <<stock, tracked, recorded, paper, cancelling, onAccount, payable, edits>>
        /\ UNCHANGED <<unrecorded, retracked, forced, outrun>>
    BY <1>1 DEF Goods!vars
  <2>2. Goods!TypeOK' /\ Stocked'
    BY <2>1 DEF TradeInv, Goods!TypeOK, Stocked
  <2> QED BY <2>1, <2>2, ProductStep DEF Goods!vendor, Goods!orders
<1>2. ASSUME NEW d \in Papers, NEW oversell \in BOOLEAN,
             \/ Goods!CreateInvoice(d, oversell)
             \/ \E form \in {"quotation", "challan"} : Goods!CreateDocument(d, form, oversell)
      PROVE TradeInv'
  BY <1>2, IssueStep, Zenon DEF Goods!CreateInvoice, Goods!CreateDocument
<1>3. ASSUME NEW d \in Papers, NEW o \in Papers, NEW oversell \in BOOLEAN,
             Goods!CreateNote(d, o, oversell)
      PROVE TradeInv'
  BY <1>3, IssueStep DEF Goods!CreateNote
<1>4. ASSUME NEW d \in Papers, Goods!CancelInvoice(d) \/ Goods!CancelDocument(d) PROVE TradeInv'
  BY <1>4, PutBackStep DEF Goods!CancelInvoice, Goods!CancelDocument, Goods!Is
<1> QED BY <1>1, <1>2, <1>3, <1>4, CreateOrderStep, DeleteInvoiceStep, FindOrderStep,
       SaveOrderStep, ReceiveStep, CancelBillStep, PayBillStep, GenerateInvoiceStep,
       ConvertStep, PayOnAccountStep, EditProductStep, DeleteProductStep DEF Goods!Next

-----------------------------------------------------------------------------
\* What the open bills still ask is their totals less what was paid, when every payment is
\* on one of them.
LEMMA StillAsked ==
  ASSUME Goods!TradeShape, NEW S \in SUBSET Papers, NEW g \in [Papers -> 0..BillTotal],
         \A d \in Papers \ S : g[d] = 0
  PROVE  /\ Sum(g) \in Nat /\ Sum([d \in S |-> BillTotal - g[d]]) \in Nat
         /\ Sum([d \in S |-> BillTotal - g[d]]) = BillTotal * Cardinality(S) - Sum(g)
<1>1. IsFiniteSet(Papers) /\ BillTotal \in Nat
  BY GoodsSums DEF Goods!TradeShape
<1>2. PICK n \in Nat : n = BillTotal
  BY <1>1
<1>3. PICK h : h = [d \in S |-> n - g[d]]
  BY Zenon
<1>4. g \in [Papers -> 0..n]
  BY <1>2
<1>5. Sum(g) \in Nat /\ Sum(h) \in Nat /\ Sum(h) = n * Cardinality(S) - Sum(g)
  BY ONLY S \in SUBSET Papers, \A d \in Papers \ S : g[d] = 0, n \in Nat, <1>1, <1>3, <1>4, SumLeft
<1>6. h = [d \in S |-> BillTotal - g[d]]
  BY <1>2, <1>3
<1> QED BY <1>2, <1>5, <1>6

LEMMA TradeGives ==
  ASSUME Goods!TradeShape, TradeInv
  PROVE  Goods!TypeOK /\ Goods!StockExact /\ Goods!InvoicedOnce /\ Goods!PayableExact
<1>1. Goods!StockExact
  <2>1. ASSUME NEW d \in Papers, paper[d].state \in {"cancelled", "deleted"}
        PROVE  \/ Goods!Net(d) = 0 \/ {d, paper[d].src} \cap retracked # {}
               \/ paper[d].state = "deleted" /\ Goods!FromChallan(d)
    <3>1. Fits(d, paper[d], SourceOf(d), retracked, tracked)
      BY DEF TradeInv, PapersFit
    <3>2. paper[d].moved \in Int
      BY TradeTypes DEF PaperRows
    <3>3. /\ Delivered(paper[d], SourceOf(d)) <=> Goods!FromChallan(d)
          /\ Goods!FromChallan(d) => SourceOf(d) = paper[paper[d].src]
      BY DEF Delivered, Goods!FromChallan, SourceOf
    <3> QED BY <2>1, <3>1, <3>2, <3>3 DEF Fits, Goods!Net
  <2> QED BY <2>1 DEF Goods!StockExact, TradeInv, Stocked
<1>2. Goods!InvoicedOnce
  <2> SUFFICES ASSUME NEW d \in Papers, paper[d].kind \in {"order", "quotation", "challan"}
               PROVE  /\ Cardinality(Goods!InvoicesOf(d)) <= 1
                      /\ paper[d].state = "cancelled" => Goods!InvoicesOf(d) = {} \/ outrun
    BY GoodsSums DEF Goods!InvoicedOnce
  <2>1. Sourced(d)
    BY DEF TradeInv, Sources
  <2>2. CASE Goods!InvoicesOf(d) = {}
    BY <2>2, FS_EmptySet
  <2>3. CASE Goods!InvoicesOf(d) # {}
    <3>1. PICK e : Goods!InvoicesOf(d) = {e}
      BY <2>1, <2>3 DEF Sourced
    <3>2. Cardinality(Goods!InvoicesOf(d)) = 1
      BY <3>1, FS_Singleton, Zenon
    <3> QED BY <2>1, <3>2 DEF Sourced
  <2> QED BY <2>2, <2>3
<1>3. Goods!PayableExact
  <2>1. PICK S : S = Goods!BillsOf(paper)
    OBVIOUS
  <2>2. S \in SUBSET Papers /\ IsFiniteSet(S) /\ Cardinality(S) \in Nat
    BY <2>1, FS_Subset, FS_CardinalityType, GoodsSums DEF Goods!BillsOf, Goods!TradeShape
  <2>3. PICK g \in [Papers -> 0..BillTotal] : g = [d \in Papers |-> paper[d].paid]
    BY TradeTypes, Zenon DEF PaperRows
  <2>4. \A d \in Papers \ S : g[d] = 0
    BY <2>1, <2>3 DEF TradeInv, PapersFit, Fits, Goods!BillsOf
  <2>5. PICK b \in Nat : b = Sum([d \in S |-> BillTotal - g[d]])
    BY <2>2, <2>4, StillAsked
  <2>6. Sum(g) \in Nat /\ b = BillTotal * Cardinality(S) - Sum(g)
    BY <2>2, <2>4, <2>5, StillAsked
  <2>7. [d \in S |-> BillTotal - paper[d].paid] = [d \in S |-> BillTotal - g[d]]
    BY <2>2, <2>3
  <2>8. payable = LET rest == BillTotal * Cardinality(S) - (Sum(g) + onAccount)
                  IN IF rest > 0 THEN rest ELSE 0
    BY <2>1, <2>3, GoodsSums DEF TradeInv, VendorOwed, Goods!Payable
  <2>10. PICK c \in Int : c = BillTotal * Cardinality(S)
    BY <2>2, GoodsSums DEF Goods!TradeShape
  <2>9. payable = IF b - onAccount > 0 THEN b - onAccount ELSE 0
    BY <2>6, <2>8, <2>10, TradeTypes
  <2> QED BY <2>1, <2>5, <2>7, <2>9, GoodsSums DEF Goods!PayableExact
<1> QED BY <1>1, <1>2, <1>3 DEF TradeInv

\* That part runs by itself.
LEMMA TradeRuns ==
  ASSUME [Next]_vars, part' = "trade"
  PROVE  part = "trade" /\ [Goods!Next]_(Goods!vars)
<1>1. CASE UNCHANGED vars
  <2>1. part' = part /\ tradeVars' = tradeVars
    BY <1>1 DEF vars
  <2> QED BY <2>1 DEF tradeVars, Goods!vars
<1>2. CASE Next
  BY <1>2 DEF Next, Only
<1> QED BY <1>1, <1>2

\* For any number of papers and any total of a bill: the stock is the sum of its movements, and
\* a paper that was undone has left none (stockAdjustmentsForInvoice, stockMovementsForPurchase).
THEOREM StockExactAlways == Spec => []StockExact
<1> DEFINE I == /\ part = "trade" => TradeInv
<1>1. Init => I
  BY TradeInit, ProtocolShape DEF Init
<1>2. I /\ [Next]_vars => I'
  <2> SUFFICES ASSUME I, [Next]_vars PROVE I'
    OBVIOUS
  <2>1. part' = "trade" => TradeInv'
    <3> SUFFICES ASSUME part' = "trade" PROVE TradeInv'
      OBVIOUS
    <3>1. part = "trade" /\ [Goods!Next]_(Goods!vars)
      BY TradeRuns
    <3> QED BY <3>1, TradeStep, ProtocolShape
  <2> QED BY <2>1
<1>3. I => StockExact
  BY TradeGives, ProtocolShape DEF StockExact, TradeInv
<1> QED BY <1>1, <1>2, <1>3, PTL DEF Spec

-----------------------------------------------------------------------------
\* The steps of a request, and what it has read.
FilingPcs == {"idle", "post", "save", "clear", "repost", "list", "reverse", "void"}
Filings == [pc : FilingPcs, total : {0} \cup Amounts, read : [Amounts -> Nat], alone : BOOLEAN]

\* What the ledger shows when nothing is under way.
Shown == posted = Spending!Only(expense.total) /\ reversed = Spending!Nothing

\* What a request that met no other has left so far.
Alone(r) ==
  /\ r.pc = "post" /\ ~torn =>
       posted = Spending!Nothing /\ reversed = Spending!Nothing /\ expense = [state |-> "live", total |-> r.total]
  /\ r.pc # "post" => expense.state = "live"
  /\ r.pc \in {"save", "list"} /\ ~torn => Shown
  /\ r.pc \in {"clear", "repost"} => expense.total = r.total /\ (~torn => reversed = Spending!Nothing)
  /\ r.pc = "repost" => posted = Spending!Nothing
  /\ r.pc \in {"reverse", "void"} => r.read = posted
  /\ r.pc = "reverse" /\ ~torn => reversed = Spending!Nothing
  /\ r.pc = "void" /\ ~torn => reversed = r.read

FilingsSound ==
  /\ supported => Spending!Busy = {}
  /\ \A s \in Spending!Busy : filing[s].alone => Spending!Busy = {s} /\ Alone(filing[s])
  /\ ~torn => \A s \in Spending!Busy : filing[s].alone

SpendingInv == Spending!TypeOK /\ FilingsSound /\ Spending!ExpensesPosted

\* The ledger agrees with the expense.
Settled ==
  CASE expense.state = "none" -> posted = Spending!Nothing /\ reversed = Spending!Nothing
    [] expense.state = "live" -> posted = Spending!Only(expense.total) /\ reversed = Spending!Nothing
    [] expense.state = "void" -> posted = reversed

-----------------------------------------------------------------------------
\* Amounts posted are amounts.
LEMMA LedgerSums ==
  /\ Spending!Nothing \in [Amounts -> Nat] /\ \A a : Spending!Only(a) \in [Amounts -> Nat]
  /\ \A f, g \in [Amounts -> Nat] : Spending!Plus(f, g) \in [Amounts -> Nat]
  /\ \A f \in [Amounts -> Nat] : Spending!Plus(Spending!Nothing, f) = f
<1>1. Spending!Nothing \in [Amounts -> Nat] /\ \A a : Spending!Only(a) \in [Amounts -> Nat]
  BY Zenon DEF Spending!Nothing, Spending!Only
<1>2. \A f, g \in [Amounts -> Nat] : Spending!Plus(f, g) \in [Amounts -> Nat]
  BY DEF Spending!Plus
<1>3. ASSUME NEW f \in [Amounts -> Nat] PROVE Spending!Plus(Spending!Nothing, f) = f
  <2>1. \A a \in Amounts : Spending!Nothing[a] + f[a] = f[a]
    BY DEF Spending!Nothing
  <2>2. Spending!Plus(Spending!Nothing, f) = [a \in Amounts |-> f[a]]
    BY <2>1 DEF Spending!Plus
  <2> QED BY <2>2
<1> QED BY <1>1, <1>2, <1>3

\* What the variables hold.
LEMMA FilingTypes ==
  ASSUME SpendingInv
  PROVE  /\ filing \in [Requests -> Filings] /\ filed \in 0..ExpenseRequests
         /\ supported \in BOOLEAN /\ torn \in BOOLEAN
         /\ expense \in [state : {"none", "live", "void"}, total : {0} \cup Amounts]
         /\ posted \in [Amounts -> Nat] /\ reversed \in [Amounts -> Nat]
BY DEF SpendingInv, Spending!TypeOK, Filings, FilingPcs

\* A request that begins: it is alone if none is under way, and the others no longer are.
LEMMA BeginStep ==
  ASSUME Spending!ExpensesShape, SpendingInv, NEW s \in Requests, NEW pc \in FilingPcs \ {"idle"},
         NEW total \in {0} \cup Amounts, Spending!Begin(s, pc, total), supported' = supported,
         UNCHANGED <<posted, reversed>>,
         expense' \in [state : {"none", "live", "void"}, total : {0} \cup Amounts],
         \A r \in Filings : Spending!Busy = {} /\ r.pc = pc /\ r.total = total => Alone(r)'
  PROVE  SpendingInv'
<1>1. /\ filing \in [Requests -> Filings] /\ filed \in 0..ExpenseRequests /\ torn \in BOOLEAN
      /\ posted \in [Amounts -> Nat] /\ reversed \in [Amounts -> Nat]
  BY FilingTypes
<1>2. filing[s].pc = "idle" /\ ~supported /\ filed < ExpenseRequests /\ filed' = filed + 1
  BY Zenon DEF Spending!Begin, Spending!Serve, Spending!At
<1>3. PICK quiet \in BOOLEAN : quiet <=> Spending!Busy = {}
  BY Zenon
<1>4. PICK r : r = [Spending!Idle EXCEPT !.pc = pc, !.total = total, !.alone = quiet]
  OBVIOUS
<1>5. /\ r \in Filings /\ r.pc = pc /\ r.total = total /\ r.alone = quiet
  BY <1>4, LedgerSums, Zenon DEF Spending!Idle, Filings, FilingPcs
<1>6. /\ filing' = [z \in Requests |-> IF z = s THEN r ELSE [filing[z] EXCEPT !.alone = FALSE]]
      /\ torn' = (torn \/ ~quiet)
  <2>1. (Spending!Busy = {}) = quiet /\ (Spending!Busy # {}) = ~quiet
    BY <1>3, Zenon
  <2> QED BY <1>4, <2>1, Zenon DEF Spending!Begin
<1>7. /\ filing'[s] = r
      /\ \A z \in Requests \ {s} : /\ filing'[z] \in Filings /\ filing'[z].pc = filing[z].pc
                                   /\ filing'[z].alone = FALSE
      /\ filing' \in [Requests -> Filings]
  <2>1. \A z \in Requests \ {s} : filing'[z] = [filing[z] EXCEPT !.alone = FALSE]
    BY <1>6
  <2>2. \A q \in Filings : /\ [q EXCEPT !.alone = FALSE] \in Filings
                           /\ [q EXCEPT !.alone = FALSE].pc = q.pc
                           /\ [q EXCEPT !.alone = FALSE].alone = FALSE
    BY Zenon DEF Filings
  <2>3. \A z \in Requests \ {s} : /\ filing'[z] \in Filings /\ filing'[z].pc = filing[z].pc
                                   /\ filing'[z].alone = FALSE
    <3> SUFFICES ASSUME NEW z \in Requests \ {s}
                 PROVE  /\ filing'[z] \in Filings /\ filing'[z].pc = filing[z].pc
                        /\ filing'[z].alone = FALSE
      BY Zenon
    <3>1. PICK q \in Filings : q = filing[z]
      BY <1>1
    <3> QED BY <2>1, <2>2, <3>1, Zenon
  <2>4. filing'[s] = r /\ DOMAIN filing' = Requests /\ filing' = [z \in Requests |-> filing'[z]]
    BY <1>6
  <2> QED BY <1>5, <2>3, <2>4
<1>8. Spending!Busy' = Spending!Busy \cup {s} /\ s \notin Spending!Busy
  BY <1>2, <1>5, <1>7 DEF Spending!Busy
<1>9. torn' \in BOOLEAN /\ (~torn' => ~torn /\ quiet)
  BY <1>1, <1>6, Zenon
<1>10. Spending!TypeOK'
  <2>1. filed' \in 0..ExpenseRequests
    BY <1>1, <1>2 DEF Spending!ExpensesShape
  <2> QED BY <1>1, <1>7, <1>9, <2>1, FilingTypes DEF Spending!TypeOK, Filings, FilingPcs
<1>11. FilingsSound'
  <2>1. \A z \in Spending!Busy' : filing'[z].alone => z = s /\ Spending!Busy' = {s} /\ Alone(r)'
    BY <1>3, <1>5, <1>7, <1>8 DEF Spending!Busy
  <2>2. \A z \in Spending!Busy' : filing'[z].alone => Alone(filing[z])'
    BY <1>7, <2>1 DEF Alone
  <2>3. ~torn' => \A z \in Spending!Busy' : filing'[z].alone
    BY <1>3, <1>5, <1>7, <1>8, <1>9, Zenon
  <2> QED BY <1>2, <2>1, <2>2, <2>3 DEF FilingsSound
<1>12. Spending!ExpensesPosted'
  BY <1>8 DEF Spending!ExpensesPosted
<1> QED BY <1>10, <1>11, <1>12 DEF SpendingInv

\* A request that takes a step.
LEMMA MoveStep ==
  ASSUME SpendingInv, NEW s \in Spending!Busy, NEW r \in Filings, Spending!Go(s, r),
         r.pc # "idle",
         r.alone = filing[s].alone, UNCHANGED <<supported, filed, torn>>,
         expense' \in [state : {"none", "live", "void"}, total : {0} \cup Amounts],
         posted' \in [Amounts -> Nat], reversed' \in [Amounts -> Nat],
         r.alone /\ Alone(filing[s]) => Alone(r)'
  PROVE  SpendingInv'
<1>1. filing \in [Requests -> Filings] /\ s \in Requests /\ FilingsSound
  BY FilingTypes DEF Spending!Busy, SpendingInv
<1>2. /\ filing' \in [Requests -> Filings] /\ filing'[s] = r
      /\ \A z \in Requests \ {s} : filing'[z] = filing[z]
  BY <1>1 DEF Spending!Go
<1>3. Spending!Busy' = Spending!Busy
  BY <1>1, <1>2 DEF Spending!Busy
<1>4. Spending!TypeOK'
  BY <1>2, FilingTypes DEF Spending!TypeOK, Filings, FilingPcs
<1>5. FilingsSound'
  <2>1. \A z \in Spending!Busy : filing'[z].alone <=> filing[z].alone
    BY <1>1, <1>2 DEF Spending!Busy
  <2>2. ASSUME NEW z \in Spending!Busy, filing'[z].alone PROVE Spending!Busy = {z} /\ Alone(filing[z])'
    <3>1. Spending!Busy = {z} /\ z = s /\ Alone(filing[s])
      BY <1>1, <2>1, <2>2 DEF FilingsSound
    <3>2. Alone(r)'
      BY <1>2, <2>2, <3>1
    <3> QED BY <1>2, <3>1, <3>2 DEF Alone
  <2> QED BY <1>1, <1>3, <2>1, <2>2 DEF FilingsSound
<1>6. Spending!ExpensesPosted'
  BY <1>3 DEF Spending!ExpensesPosted
<1> QED BY <1>4, <1>5, <1>6 DEF SpendingInv

\* A request that ends.
LEMMA EndStep ==
  ASSUME SpendingInv, NEW s \in Spending!Busy, Spending!Go(s, Spending!Idle),
         UNCHANGED <<supported, filed>>,
         torn' \in BOOLEAN, ~torn' => filing[s].alone,
         expense' \in [state : {"none", "live", "void"}, total : {0} \cup Amounts],
         posted' \in [Amounts -> Nat], reversed' \in [Amounts -> Nat],
         ~torn' /\ Alone(filing[s]) => Settled'
  PROVE  SpendingInv'
<1>1. filing \in [Requests -> Filings] /\ s \in Requests /\ FilingsSound
  BY FilingTypes DEF Spending!Busy, SpendingInv
<1>2. Spending!Idle \in Filings /\ Spending!Idle.pc = "idle"
  BY LedgerSums DEF Spending!Idle, Filings, FilingPcs
<1>3. /\ filing' \in [Requests -> Filings] /\ filing'[s] = Spending!Idle
      /\ \A z \in Requests \ {s} : filing'[z] = filing[z]
  BY <1>1, <1>2 DEF Spending!Go
<1>4. Spending!Busy' = Spending!Busy \ {s} /\ \A z \in Spending!Busy' : z # s /\ filing'[z] = filing[z]
  BY <1>1, <1>2, <1>3 DEF Spending!Busy
<1>5. Spending!TypeOK'
  BY <1>3, FilingTypes DEF Spending!TypeOK, Filings, FilingPcs
<1>6. \A z \in Spending!Busy' : ~filing'[z].alone
  BY <1>1, <1>4 DEF FilingsSound
<1>7. ~torn' => Spending!Busy = {s} /\ Alone(filing[s])
  BY <1>1 DEF FilingsSound
<1>8. FilingsSound'
  BY <1>1, <1>4, <1>6, <1>7 DEF FilingsSound
<1>9. Spending!ExpensesPosted'
  BY <1>7, Zenon DEF Spending!ExpensesPosted, Settled
<1> QED BY <1>5, <1>8, <1>9 DEF SpendingInv

\* A workflow in one transaction.
LEMMA CommitStep ==
  ASSUME Spending!ExpensesShape, SpendingInv, NEW s \in Requests, Spending!Commit(s),
         supported' = supported,
         expense' \in [state : {"none", "live", "void"}, total : {0} \cup Amounts],
         posted' \in [Amounts -> Nat], reversed' \in [Amounts -> Nat],
         Settled => Settled'
  PROVE  SpendingInv'
<1>1. /\ supported /\ filing' = filing /\ torn' = torn
      /\ filed < ExpenseRequests /\ filed' = filed + 1
  BY DEF Spending!Commit, Spending!Serve
<1>2. filed' \in 0..ExpenseRequests
  BY <1>1, FilingTypes DEF Spending!ExpensesShape
<1>3. Spending!TypeOK'
  BY <1>1, <1>2, FilingTypes DEF Spending!TypeOK, Filings, FilingPcs
<1>4. Spending!Busy = {} /\ Spending!Busy' = {}
  BY <1>1 DEF SpendingInv, FilingsSound, Spending!Busy
<1>5. FilingsSound'
  BY <1>4 DEF FilingsSound
<1>6. Spending!ExpensesPosted'
  BY <1>1, <1>4, Zenon DEF SpendingInv, Spending!ExpensesPosted, Settled
<1> QED BY <1>3, <1>5, <1>6 DEF SpendingInv

\* When nothing is under way and nothing is torn, the books are settled.
LEMMA Quiet == ASSUME SpendingInv, Spending!Busy = {}, ~torn PROVE Settled
BY Zenon DEF SpendingInv, Spending!ExpensesPosted, Settled

-----------------------------------------------------------------------------
LEMMA CreateStep ==
  ASSUME Spending!ExpensesShape, SpendingInv, NEW s \in Requests, NEW total \in Amounts,
         Spending!Create(s, total),
         supported' = supported
  PROVE  SpendingInv'
<1>1. /\ expense.state = "none" /\ expense' = [state |-> "live", total |-> total]
      /\ reversed' = reversed
  BY DEF Spending!Create
<1>2. expense' \in [state : {"none", "live", "void"}, total : {0} \cup Amounts]
  BY <1>1
<1>3. CASE Spending!Commit(s) /\ posted' = Spending!Only(total)
  <2>1. Settled => Settled'
    BY <1>1, <1>3 DEF Settled
  <2> QED BY <1>1, <1>2, <1>3, <2>1, FilingTypes, LedgerSums, CommitStep
<1>4. CASE Spending!Begin(s, "post", total) /\ posted' = posted
  <2>1. torn \in BOOLEAN /\ torn' = (torn \/ Spending!Busy # {})
    BY <1>4, FilingTypes, Zenon DEF Spending!Begin
  <2>2. ~torn' => ~torn /\ Spending!Busy = {}
    BY <2>1, Zenon
  <2>3. ~torn' => posted = Spending!Nothing /\ reversed = Spending!Nothing
    BY <1>1, <2>2, Quiet DEF Settled
  <2>4. \A r \in Filings : Spending!Busy = {} /\ r.pc = "post" /\ r.total = total => Alone(r)'
    BY <1>1, <1>4, <2>3 DEF Alone
  <2>5. "post" \in FilingPcs \ {"idle"} /\ total \in {0} \cup Amounts
        /\ UNCHANGED <<posted, reversed>>
    BY <1>1, <1>4 DEF FilingPcs
  <2> QED BY <1>2, <1>4, <2>4, <2>5, BeginStep
<1> QED BY <1>3, <1>4 DEF Spending!Create

\* An edit and a deletion begin on a live expense.
LEMMA OpenStep ==
  ASSUME Spending!ExpensesShape, SpendingInv, NEW s \in Requests, NEW pc \in {"save", "list"},
         NEW total \in {0} \cup Amounts, Spending!Begin(s, pc, total), expense.state = "live",
         UNCHANGED <<supported, expense, posted, reversed>>
  PROVE  SpendingInv'
<1>1. torn \in BOOLEAN /\ torn' = (torn \/ Spending!Busy # {})
  BY FilingTypes, Zenon DEF Spending!Begin
<1>2. ~torn' => ~torn /\ Spending!Busy = {}
  BY <1>1, Zenon
<1>3. ~torn' => Shown /\ Shown'
  BY <1>2, Quiet DEF Settled, Shown
<1>4. \A r \in Filings : Spending!Busy = {} /\ r.pc = pc /\ r.total = total => Alone(r)'
  BY <1>3 DEF Alone
<1> QED BY <1>4, FilingTypes, BeginStep DEF FilingPcs

LEMMA UpdateStep ==
  ASSUME Spending!ExpensesShape, SpendingInv, NEW s \in Requests, NEW total \in Amounts,
         Spending!Update(s, total),
         supported' = supported
  PROVE  SpendingInv'
<1>1. expense.state = "live" /\ reversed' = reversed
  BY DEF Spending!Update
<1>2. CASE /\ Spending!Commit(s) /\ expense' = [expense EXCEPT !.total = total] /\ posted' = Spending!Only(total)
  <2>1. /\ expense' \in [state : {"none", "live", "void"}, total : {0} \cup Amounts]
        /\ expense'.state = "live" /\ expense'.total = total
    BY <1>1, <1>2, FilingTypes
  <2>2. Settled => Settled'
    BY <1>1, <1>2, <2>1, Zenon DEF Settled
  <2> QED BY <1>1, <1>2, <2>1, <2>2, FilingTypes, LedgerSums, CommitStep
<1>3. CASE Spending!Begin(s, "save", total) /\ UNCHANGED <<expense, posted>>
  BY <1>1, <1>3, OpenStep, Zenon
<1> QED BY <1>2, <1>3 DEF Spending!Update

LEMMA VoidStep ==
  ASSUME Spending!ExpensesShape, SpendingInv, NEW s \in Requests, Spending!Void(s),
         supported' = supported
  PROVE  SpendingInv'
<1>1. expense.state = "live" /\ posted' = posted
  BY DEF Spending!Void
<1>2. CASE /\ Spending!Commit(s) /\ reversed' = Spending!Plus(reversed, posted)
           /\ expense' = [expense EXCEPT !.state = "void"]
  <2>1. /\ expense' \in [state : {"none", "live", "void"}, total : {0} \cup Amounts]
        /\ expense'.state = "void"
    BY <1>2, FilingTypes
  <2>2. Settled => Settled'
    BY <1>1, <1>2, <2>1, FilingTypes, LedgerSums DEF Settled
  <2> QED BY <1>1, <1>2, <2>1, <2>2, FilingTypes, LedgerSums, CommitStep
<1>3. CASE Spending!Begin(s, "list", 0) /\ UNCHANGED <<expense, reversed>>
  BY <1>1, <1>3, OpenStep
<1> QED BY <1>2, <1>3 DEF Spending!Void

-----------------------------------------------------------------------------
LEMMA SaveStep ==
  ASSUME SpendingInv, NEW s \in Requests, Spending!Save(s), supported' = supported
  PROVE  SpendingInv'
<1>1. PICK q \in Filings : q = filing[s]
  BY FilingTypes
<1>2. PICK r : r = [q EXCEPT !.pc = "clear"]
  BY Zenon
<1>3. /\ r \in Filings /\ r.pc = "clear" /\ r.total = q.total /\ r.alone = q.alone
  BY <1>2 DEF Filings, FilingPcs
<1>4. /\ q.pc = "save" /\ Spending!Go(s, r) /\ expense' = [expense EXCEPT !.total = q.total]
      /\ UNCHANGED <<posted, reversed, filed, torn>> /\ s \in Spending!Busy
  BY <1>1, <1>2 DEF Spending!Save, Spending!At, Spending!Goto, Spending!Busy
<1>5. /\ expense' \in [state : {"none", "live", "void"}, total : {0} \cup Amounts]
      /\ expense'.state = expense.state /\ expense'.total = q.total
  BY <1>1, <1>4, FilingTypes DEF Filings
<1>6. Alone(q) => Alone(r)'
  BY <1>3, <1>4, <1>5 DEF Alone, Shown
<1> QED BY <1>1, <1>3, <1>4, <1>5, <1>6, FilingTypes, MoveStep

LEMMA ClearStep ==
  ASSUME SpendingInv, NEW s \in Requests, Spending!Clear(s), supported' = supported
  PROVE  SpendingInv'
<1>1. PICK q \in Filings : q = filing[s]
  BY FilingTypes
<1>2. PICK r : r = [q EXCEPT !.pc = "repost"]
  BY Zenon
<1>3. /\ r \in Filings /\ r.pc = "repost" /\ r.total = q.total /\ r.alone = q.alone
  BY <1>2 DEF Filings, FilingPcs
<1>4. /\ q.pc = "clear" /\ Spending!Go(s, r) /\ posted' = Spending!Nothing
      /\ UNCHANGED <<expense, reversed, filed, torn>> /\ s \in Spending!Busy
  BY <1>1, <1>2 DEF Spending!Clear, Spending!Cleared, Spending!At, Spending!Goto, Spending!Busy
<1>6. Alone(q) => Alone(r)'
  BY <1>3, <1>4 DEF Alone
<1> QED BY <1>1, <1>3, <1>4, <1>6, FilingTypes, LedgerSums, MoveStep

LEMMA ListStep ==
  ASSUME SpendingInv, NEW s \in Requests, Spending!List(s), supported' = supported
  PROVE  SpendingInv'
<1>1. PICK q \in Filings : q = filing[s]
  BY FilingTypes
<1>2. PICK r : r = [q EXCEPT !.pc = "reverse", !.read = posted]
  OBVIOUS
<1>3. /\ r \in Filings /\ r.pc = "reverse" /\ r.read = posted /\ r.alone = q.alone
  BY <1>2, FilingTypes, Zenon DEF Filings, FilingPcs
<1>4. /\ q.pc = "list" /\ Spending!Go(s, r)
      /\ UNCHANGED <<expense, posted, reversed, filed, torn>> /\ s \in Spending!Busy
  BY <1>1, <1>2 DEF Spending!List, Spending!At, Spending!Busy
<1>6. Alone(q) => Alone(r)'
  BY <1>3, <1>4 DEF Alone, Shown
<1> QED BY <1>1, <1>3, <1>4, <1>6, FilingTypes, MoveStep

LEMMA ReverseStep ==
  ASSUME SpendingInv, NEW s \in Requests, Spending!Reverse(s), supported' = supported
  PROVE  SpendingInv'
<1>1. PICK q \in Filings : q = filing[s]
  BY FilingTypes
<1>2. PICK r : r = [q EXCEPT !.pc = "void"]
  BY Zenon
<1>3. /\ r \in Filings /\ r.pc = "void" /\ r.read = q.read /\ r.alone = q.alone
      /\ q.read \in [Amounts -> Nat]
  BY <1>2 DEF Filings, FilingPcs
<1>4. /\ q.pc = "reverse" /\ Spending!Go(s, r) /\ reversed' = Spending!Plus(reversed, q.read)
      /\ UNCHANGED <<expense, posted, filed, torn>> /\ s \in Spending!Busy
  BY <1>1, <1>2 DEF Spending!Reverse, Spending!At, Spending!Goto, Spending!Busy
<1>5. reversed' \in [Amounts -> Nat] /\ Spending!Plus(Spending!Nothing, q.read) = q.read
  BY <1>3, <1>4, FilingTypes, LedgerSums
<1>6. Alone(q) => Alone(r)'
  BY <1>3, <1>4, <1>5 DEF Alone
<1> QED BY <1>1, <1>3, <1>4, <1>5, <1>6, FilingTypes, MoveStep

LEMMA PostStep ==
  ASSUME SpendingInv, NEW s \in Requests, Spending!Post(s), supported' = supported
  PROVE  SpendingInv'
<1>1. PICK q \in Filings : q = filing[s]
  BY FilingTypes
<1>2. /\ q.pc \in {"post", "repost"} /\ posted' = Spending!Plus(posted, Spending!Only(q.total)) /\ Spending!Go(s, Spending!Idle)
      /\ UNCHANGED <<expense, reversed, filed>> /\ s \in Spending!Busy
  BY <1>1 DEF Spending!Post, Spending!At, Spending!Busy
<1>3. PICK mends \in BOOLEAN : mends <=> q.pc = "repost" /\ q.alone /\ reversed = Spending!Nothing
  BY Zenon
<1>4. torn' = (torn /\ ~mends)
  <2>1. (Spending!At(s, "repost") /\ filing[s].alone /\ reversed = Spending!Nothing) <=> mends
    BY <1>1, <1>3 DEF Spending!At
  <2> QED BY <2>1, FilingTypes DEF Spending!Post
<1>5. torn' \in BOOLEAN /\ (~torn' => ~torn \/ mends)
  BY <1>4, FilingTypes
<1>6. posted' \in [Amounts -> Nat]
      /\ Spending!Plus(Spending!Nothing, Spending!Only(q.total)) = Spending!Only(q.total)
  BY <1>2, FilingTypes, LedgerSums
<1>7. ~torn' => q.alone
  BY <1>1, <1>2, <1>3, <1>5 DEF SpendingInv, FilingsSound
<1>8. ~torn' /\ Alone(q) => Settled'
  <2> SUFFICES ASSUME ~torn', Alone(q) PROVE Settled'
    OBVIOUS
  <2>1. expense.state = "live" /\ expense.total = q.total /\ reversed = Spending!Nothing
        /\ posted = Spending!Nothing
    BY <1>2, <1>3, <1>5 DEF Alone
  <2> QED BY <1>2, <1>6, <2>1 DEF Settled
<1> QED BY <1>1, <1>2, <1>5, <1>6, <1>7, <1>8, FilingTypes, EndStep

LEMMA MarkVoidStep ==
  ASSUME SpendingInv, NEW s \in Requests, Spending!MarkVoid(s), supported' = supported
  PROVE  SpendingInv'
<1>1. PICK q \in Filings : q = filing[s]
  BY FilingTypes
<1>2. /\ q.pc = "void" /\ expense' = [expense EXCEPT !.state = "void"] /\ Spending!Go(s, Spending!Idle)
      /\ UNCHANGED <<posted, reversed, filed>> /\ s \in Spending!Busy
  BY <1>1 DEF Spending!MarkVoid, Spending!At, Spending!Busy
<1>3. PICK mends \in BOOLEAN : mends <=> q.alone /\ reversed = q.read
  BY Zenon
<1>4. torn' = (torn /\ ~mends)
  <2>1. (filing[s].alone /\ reversed = filing[s].read) <=> mends
    BY <1>1, <1>3
  <2> QED BY <2>1, FilingTypes DEF Spending!MarkVoid
<1>5. torn' \in BOOLEAN /\ (~torn' => ~torn \/ mends)
  BY <1>4, FilingTypes
<1>6. /\ expense' \in [state : {"none", "live", "void"}, total : {0} \cup Amounts]
      /\ expense'.state = "void"
  BY <1>2, FilingTypes
<1>7. ~torn' => q.alone
  BY <1>1, <1>2, <1>3, <1>5 DEF SpendingInv, FilingsSound
<1>8. ~torn' /\ Alone(q) => Settled'
  BY <1>2, <1>3, <1>5, <1>6 DEF Settled, Alone
<1> QED BY <1>1, <1>2, <1>5, <1>6, <1>7, <1>8, FilingTypes, EndStep

LEMMA FailStep ==
  ASSUME SpendingInv, NEW s \in Requests, Spending!Fail(s), supported' = supported
  PROVE  SpendingInv'
<1>1. /\ s \in Spending!Busy /\ torn' = TRUE /\ torn' \in BOOLEAN /\ Spending!Go(s, Spending!Idle)
      /\ UNCHANGED <<expense, posted, reversed, filed>>
  BY DEF Spending!Fail
<1> QED BY <1>1, FilingTypes, EndStep

-----------------------------------------------------------------------------
LEMMA SpendingInit == ASSUME Spending!ExpensesShape, Spending!Init PROVE SpendingInv
<1>1. Spending!Idle \in Filings /\ Spending!Idle.pc = "idle"
  BY LedgerSums DEF Spending!Idle, Filings, FilingPcs
<1>2. Spending!Busy = {}
  BY <1>1 DEF Spending!Init, Spending!Busy
<1>3. Spending!TypeOK
  <2>1. supported \in BOOLEAN /\ torn \in BOOLEAN
    BY Zenon DEF Spending!Init
  <2>2. filing \in [Requests -> Filings] /\ filed \in 0..ExpenseRequests
    BY <1>1 DEF Spending!Init, Spending!ExpensesShape
  <2>3. expense \in [state : {"none", "live", "void"}, total : {0} \cup Amounts]
    BY DEF Spending!Init
  <2>4. posted \in [Amounts -> Nat] /\ reversed \in [Amounts -> Nat]
    BY LedgerSums DEF Spending!Init
  <2> QED BY <2>1, <2>2, <2>3, <2>4 DEF Spending!TypeOK, Filings, FilingPcs
<1>4. FilingsSound /\ Spending!ExpensesPosted
  BY <1>2 DEF FilingsSound, Spending!ExpensesPosted, Spending!Init
<1> QED BY <1>3, <1>4 DEF SpendingInv

LEMMA SpendingStep ==
  ASSUME Spending!ExpensesShape, SpendingInv, [Spending!Next]_(Spending!vars)
  PROVE  SpendingInv'
<1>1. CASE UNCHANGED Spending!vars
  <2>1. UNCHANGED <<supported, expense, posted, reversed, filing, filed, torn>>
    BY <1>1 DEF Spending!vars
  <2>2. Spending!TypeOK' /\ FilingsSound'
    BY <2>1 DEF SpendingInv, Spending!TypeOK, FilingsSound, Spending!Busy, Alone, Shown
  <2>3. Spending!ExpensesPosted'
    BY <2>1, Zenon DEF SpendingInv, Spending!ExpensesPosted, Spending!Busy
  <2> QED BY <2>2, <2>3 DEF SpendingInv
<1>2. CASE Spending!Next
  BY <1>2, CreateStep, UpdateStep, VoidStep, SaveStep, ClearStep, PostStep, ListStep,
     ReverseStep, MarkVoidStep, FailStep DEF Spending!Next
<1> QED BY <1>1, <1>2

LEMMA SpendingGives == ASSUME SpendingInv PROVE Spending!TypeOK /\ Spending!ExpensesPosted
BY DEF SpendingInv

\* That part runs by itself.
LEMMA SpendingRuns ==
  ASSUME [Next]_vars, part' = "expenses"
  PROVE  part = "expenses" /\ [Spending!Next]_(Spending!vars)
<1>1. CASE UNCHANGED vars
  <2>1. part' = part /\ expenseVars' = expenseVars
    BY <1>1 DEF vars
  <2> QED BY <2>1 DEF expenseVars, Spending!vars
<1>2. CASE Next
  BY <1>2 DEF Next, Only
<1> QED BY <1>1, <1>2

\* For any number of papers, bills and overlapping requests: an order, a quotation or a challan
\* becomes one invoice, the vendor is owed what the open bills ask (vendorPayableTotals), and
\* the ledger shows an expense once (modules/expenses/service.js).
THEOREM BooksExactAlways == Spec => []BooksExact
<1> DEFINE I == /\ part = "trade" => TradeInv
                /\ part = "expenses" => SpendingInv
<1>1. Init => I
  BY TradeInit, SpendingInit, ProtocolShape DEF Init
<1>2. I /\ [Next]_vars => I'
  <2> SUFFICES ASSUME I, [Next]_vars PROVE I'
    OBVIOUS
  <2>1. part' = "trade" => TradeInv'
    <3> SUFFICES ASSUME part' = "trade" PROVE TradeInv'
      OBVIOUS
    <3>1. part = "trade" /\ [Goods!Next]_(Goods!vars)
      BY TradeRuns
    <3> QED BY <3>1, TradeStep, ProtocolShape
  <2>2. part' = "expenses" => SpendingInv'
    <3> SUFFICES ASSUME part' = "expenses" PROVE SpendingInv'
      OBVIOUS
    <3>1. part = "expenses" /\ [Spending!Next]_(Spending!vars)
      BY SpendingRuns
    <3> QED BY <3>1, SpendingStep, ProtocolShape
  <2> QED BY <2>1, <2>2
<1>3. I => BooksExact
  BY TradeGives, SpendingGives, ProtocolShape DEF BooksExact, TradeInv, SpendingInv
<1> QED BY <1>1, <1>2, <1>3, PTL DEF Spec

-----------------------------------------------------------------------------

\* A set of slots with one more, or one less, of them.
LEMMA OneMore ==
  ASSUME NEW S, IsFiniteSet(S), NEW A \in SUBSET S, NEW s \in S \ A
  PROVE  Cardinality(A) \in Nat /\ Cardinality(A \cup {s}) = Cardinality(A) + 1
<1>1. IsFiniteSet(A)
  BY FS_Subset
<1> QED BY <1>1, FS_CardinalityType, FS_AddElement

LEMMA OneLess ==
  ASSUME NEW S, IsFiniteSet(S), NEW A \in SUBSET S, NEW s \in A
  PROVE  Cardinality(A) \in Nat \ {0} /\ Cardinality(A \ {s}) = Cardinality(A) - 1
<1>1. IsFiniteSet(A)
  BY FS_Subset
<1>2. Cardinality(A) \in Nat /\ Cardinality(A) # 0
  BY <1>1, FS_CardinalityType, FS_EmptySet
<1> QED BY <1>1, <1>2, FS_RemoveElement, Zenon

\* Sets are counted in the module as they are here.
LEMMA QuotaCounts == \A S : Metered!Cardinality(S) = Cardinality(S)
BY DEF Metered!Cardinality, Cardinality

LEMMA QuotaSets == ASSUME Metered!QuotaShape PROVE IsFiniteSet(Requests)
BY DEF Metered!QuotaShape, Metered!IsFiniteSet, IsFiniteSet

-----------------------------------------------------------------------------
\* The interactive requests among those that hold a unit.
OpenOnline(b) == {s \in Metered!Open(b) : ~meter[s].offline}

\* Interactive work, done or under way, fits in the plan.
OnlineFits ==
  \A b \in Metered!Buckets :
    strayed \/ ~Metered!Enforced \/ Metered!Unlimited(Metered!Ceiling(b))
      \/ issued[b].online + Cardinality(OpenOnline(b)) <= Metered!Ceiling(b)

UnitsCounted ==
  \A b \in Metered!Buckets :
    \/ strayed
    \/ usage[b].count = issued[b].online + issued[b].offline + Cardinality(Metered!Open(b)) + wasted[b]

\* A ceiling of zero is never asked for, and a bucket counts from zero.
AskedFor ==
  /\ \A s \in Requests : meter[s].pc \in {"find", "insert"} => ~Metered!AtZeroCeiling(meter[s].bucket)
  /\ \A b \in Metered!Buckets : ~usage[b].exists => usage[b].count = 0

\* A request is refused below the ceiling only in a bucket another request created.
RefusalExplained ==
  /\ \A s \in Requests : meter[s].pc = "full" /\ meter[s].under => meter[s].bucket \in contested
  /\ denied \subseteq contested

QuotaInv == Metered!TypeOK /\ OnlineFits /\ UnitsCounted /\ AskedFor /\ RefusalExplained

\* A plan that is typed has typed ceilings.
LEMMA CeilingTyped ==
  ASSUME Metered!QuotaShape, Metered!TypeOK
  PROVE  /\ Metered!Enforced \in BOOLEAN
         /\ \A b \in Metered!Buckets : Metered!Ceiling(b) \in Int
<1>1. terms \in [limits : [Metered!Sources -> Int], enforced : BOOLEAN]
  BY DEF Metered!QuotaShape, Metered!TypeOK
<1>2. \A b \in Metered!Buckets : b[2] \in Metered!Sources
  BY DEF Metered!Buckets
<1> QED BY <1>1, <1>2 DEF Metered!Enforced, Metered!Ceiling

LEMMA OpenFinite ==
  ASSUME Metered!QuotaShape, NEW b
  PROVE  /\ Metered!Open(b) \in SUBSET Requests /\ Cardinality(Metered!Open(b)) \in Nat
         /\ OpenOnline(b) \in SUBSET Metered!Open(b)
         /\ Cardinality(OpenOnline(b)) \in Nat
         /\ Cardinality(OpenOnline(b)) <= Cardinality(Metered!Open(b))
<1>1. Metered!Open(b) \in SUBSET Requests /\ OpenOnline(b) \in SUBSET Metered!Open(b)
  BY DEF Metered!Open, OpenOnline
<1>2. IsFiniteSet(Metered!Open(b))
  BY <1>1, FS_Subset, QuotaSets
<1>3. IsFiniteSet(OpenOnline(b))
  BY <1>1, <1>2, FS_Subset
<1>4. Cardinality(Metered!Open(b)) \in Nat
  BY <1>2, FS_CardinalityType
<1>5. Cardinality(OpenOnline(b)) \in Nat
  BY <1>3, FS_CardinalityType
<1>6. Cardinality(OpenOnline(b)) <= Cardinality(Metered!Open(b))
  BY <1>1, <1>2, FS_Subset
<1> QED BY <1>1, <1>4, <1>5, <1>6

Holding == {"work", "release"}

\* A step that moves no unit leaves the units where they are.
LEMMA UnitsStay ==
  ASSUME Metered!TypeOK, NEW s \in Requests, NEW r,
         meter' = [meter EXCEPT ![s] = r],
         \/ meter[s].pc \notin Holding /\ r.pc \notin Holding
         \/ /\ meter[s].pc \in Holding /\ r.pc \in Holding
            /\ r.bucket = meter[s].bucket /\ r.offline = meter[s].offline
  PROVE  \A c \in Metered!Buckets : Metered!Open(c)' = Metered!Open(c) /\ OpenOnline(c)' = OpenOnline(c)
BY DEF Metered!TypeOK, Metered!Open, OpenOnline, Holding

\* A request takes a unit of its bucket.
LEMMA UnitTaken ==
  ASSUME Metered!QuotaShape, Metered!TypeOK, NEW s \in Requests, NEW r,
         meter' = [meter EXCEPT ![s] = r],
         meter[s].pc \notin Holding, r.pc \in Holding
  PROVE  \A c \in Metered!Buckets :
           /\ Cardinality(Metered!Open(c))' = Cardinality(Metered!Open(c)) + IF c = r.bucket THEN 1 ELSE 0
           /\ Cardinality(OpenOnline(c))' =
                Cardinality(OpenOnline(c)) + IF c = r.bucket /\ ~r.offline THEN 1 ELSE 0
<1> SUFFICES ASSUME NEW c \in Metered!Buckets
             PROVE /\ Cardinality(Metered!Open(c))' = Cardinality(Metered!Open(c)) + IF c = r.bucket THEN 1 ELSE 0
                   /\ Cardinality(OpenOnline(c))' =
                        Cardinality(OpenOnline(c)) + IF c = r.bucket /\ ~r.offline THEN 1 ELSE 0
  OBVIOUS
<1>0. IsFiniteSet(Requests) /\ Metered!Open(c) \in SUBSET Requests
      /\ OpenOnline(c) \in SUBSET Requests
      /\ Cardinality(Metered!Open(c)) \in Nat /\ Cardinality(OpenOnline(c)) \in Nat
  BY OpenFinite, QuotaSets
<1>1. s \notin Metered!Open(c) /\ s \notin OpenOnline(c)
  BY DEF Metered!Open, OpenOnline, Holding
<1>2. Metered!Open(c)' = IF c = r.bucket THEN Metered!Open(c) \cup {s} ELSE Metered!Open(c)
  BY <1>1 DEF Metered!TypeOK, Metered!Open, Holding
<1>3. OpenOnline(c)' = IF c = r.bucket
      /\ ~r.offline THEN OpenOnline(c) \cup {s} ELSE OpenOnline(c)
  BY <1>1, <1>2 DEF Metered!TypeOK, OpenOnline, Metered!Open, Holding
<1>4. Cardinality(Metered!Open(c) \cup {s}) = Cardinality(Metered!Open(c)) + 1
  BY <1>0, <1>1, OneMore
<1>5. Cardinality(OpenOnline(c) \cup {s}) = Cardinality(OpenOnline(c)) + 1
  BY <1>0, <1>1, OneMore
<1>6. Cardinality(Metered!Open(c))' = Cardinality(Metered!Open(c)) + IF c = r.bucket THEN 1 ELSE 0
  BY <1>0, <1>2, <1>4
<1>7. Cardinality(OpenOnline(c))' =
        Cardinality(OpenOnline(c)) + IF c = r.bucket /\ ~r.offline THEN 1 ELSE 0
  BY <1>0, <1>3, <1>5
<1> QED BY <1>6, <1>7

\* A request gives its unit up.
LEMMA UnitLeft ==
  ASSUME Metered!QuotaShape, Metered!TypeOK, NEW s \in Requests, NEW r,
         meter' = [meter EXCEPT ![s] = r],
         meter[s].pc \in Holding, r.pc \notin Holding
  PROVE  \A c \in Metered!Buckets :
           /\ Cardinality(Metered!Open(c))' =
                Cardinality(Metered!Open(c)) - IF c = meter[s].bucket THEN 1 ELSE 0
           /\ Cardinality(OpenOnline(c))' = Cardinality(OpenOnline(c))
                - IF c = meter[s].bucket /\ ~meter[s].offline THEN 1 ELSE 0
           /\ c = meter[s].bucket => Cardinality(Metered!Open(c)) \in Nat \ {0}
<1> SUFFICES ASSUME NEW c \in Metered!Buckets
             PROVE /\ Cardinality(Metered!Open(c))' =
                        Cardinality(Metered!Open(c)) - IF c = meter[s].bucket THEN 1 ELSE 0
                   /\ Cardinality(OpenOnline(c))' = Cardinality(OpenOnline(c))
                        - IF c = meter[s].bucket /\ ~meter[s].offline THEN 1 ELSE 0
                   /\ c = meter[s].bucket => Cardinality(Metered!Open(c)) \in Nat \ {0}
  OBVIOUS
<1>0. IsFiniteSet(Requests) /\ Metered!Open(c) \in SUBSET Requests
      /\ OpenOnline(c) \in SUBSET Requests
      /\ Cardinality(Metered!Open(c)) \in Nat /\ Cardinality(OpenOnline(c)) \in Nat
  BY OpenFinite, QuotaSets
<1>1. /\ s \in Metered!Open(c) <=> c = meter[s].bucket
      /\ s \in OpenOnline(c) <=> c = meter[s].bucket /\ ~meter[s].offline
  BY DEF Metered!Open, OpenOnline, Holding
<1>2. Metered!Open(c)' = Metered!Open(c) \ {s}
  BY DEF Metered!TypeOK, Metered!Open, Holding
<1>3. OpenOnline(c)' = OpenOnline(c) \ {s}
  BY <1>2 DEF Metered!TypeOK, OpenOnline, Metered!Open, Holding
<1>4. c = meter[s].bucket =>
        /\ Cardinality(Metered!Open(c)) \in Nat \ {0}
        /\ Cardinality(Metered!Open(c) \ {s}) = Cardinality(Metered!Open(c)) - 1
  BY <1>0, <1>1, OneLess
<1>5. c = meter[s].bucket /\ ~meter[s].offline =>
        Cardinality(OpenOnline(c) \ {s}) = Cardinality(OpenOnline(c)) - 1
  BY <1>0, <1>1, OneLess
<1>6. s \notin Metered!Open(c) => Metered!Open(c) \ {s} = Metered!Open(c)
  OBVIOUS
<1>7. s \notin OpenOnline(c) => OpenOnline(c) \ {s} = OpenOnline(c)
  OBVIOUS
<1>8. Cardinality(Metered!Open(c))' =
        Cardinality(Metered!Open(c)) - IF c = meter[s].bucket THEN 1 ELSE 0
  <2>1. CASE c = meter[s].bucket
    BY <2>1, <1>2, <1>4
  <2>2. CASE c # meter[s].bucket
    <3>1. Metered!Open(c)' = Metered!Open(c)
      BY <2>2, <1>1, <1>2, <1>6
    <3> QED BY <3>1, <2>2, <1>0
  <2> QED BY <2>1, <2>2
<1>9. Cardinality(OpenOnline(c))' = Cardinality(OpenOnline(c))
        - IF c = meter[s].bucket /\ ~meter[s].offline THEN 1 ELSE 0
  <2>1. CASE c = meter[s].bucket /\ ~meter[s].offline
    BY <2>1, <1>3, <1>5
  <2>2. CASE ~(c = meter[s].bucket /\ ~meter[s].offline)
    <3>1. OpenOnline(c)' = OpenOnline(c)
      BY <2>2, <1>1, <1>3, <1>7
    <3> QED BY <3>1, <2>2, <1>0
  <2> QED BY <2>1, <2>2
<1> QED BY <1>4, <1>8, <1>9

\* No unit is held, and nothing was issued, when the month begins.
LEMMA QuotaInit == ASSUME Metered!QuotaShape, Metered!Init PROVE QuotaInv
<1>0. \A b \in Metered!Buckets : Metered!Open(b) = {} /\ OpenOnline(b) = {}
  BY DEF Metered!Init, Metered!Idle, Metered!Open, OpenOnline
<1>1. \A b \in Metered!Buckets : Cardinality(Metered!Open(b)) = 0 /\ Cardinality(OpenOnline(b)) = 0
  BY <1>0, FS_EmptySet
<1>2. Metered!TypeOK
  <2>1. <<1, "snapshot">> \in Metered!Buckets /\ 0 \in 0..QuotaRequests
    BY DEF Metered!QuotaShape, Metered!Buckets, Metered!Sources
  <2> QED BY <2>1, Zenon
     DEF Metered!Init, Metered!TypeOK, Metered!Idle, Metered!NoRow, Metered!QuotaShape
<1>3. OnlineFits
  BY <1>1, <1>2, CeilingTyped DEF OnlineFits, Metered!Init, Metered!Unlimited
<1>4. UnitsCounted
  BY <1>1 DEF UnitsCounted, Metered!Init, Metered!NoRow
<1>5. AskedFor /\ RefusalExplained
  BY DEF AskedFor, RefusalExplained, Metered!Init, Metered!Idle, Metered!NoRow
<1> QED BY <1>2, <1>3, <1>4, <1>5 DEF QuotaInv

\* A step that leaves the counters and the units where they are.
LEMMA NothingCounted ==
  ASSUME Metered!QuotaShape, QuotaInv, Metered!TypeOK',
         \A c \in Metered!Buckets : Metered!Open(c)' = Metered!Open(c) /\ OpenOnline(c)' = OpenOnline(c),
         UNCHANGED <<terms, usage, Metered!books>>
  PROVE  OnlineFits' /\ UnitsCounted'
BY DEF QuotaInv, OnlineFits, UnitsCounted, Metered!books, Metered!Enforced, Metered!Ceiling

\* The month turns, or the subscription lapses: no request sees it before it asks.
LEMMA QuotaCalendar ==
  ASSUME Metered!QuotaShape, QuotaInv, Metered!MonthTurns \/ Metered!Lapses PROVE QuotaInv'
<1>1. Metered!TypeOK'
  BY Zenon DEF QuotaInv, Metered!MonthTurns, Metered!Lapses, Metered!TypeOK, Metered!books
<1>2. UNCHANGED <<terms, usage, meter, issued, wasted, strayed, contested, denied>>
  BY DEF Metered!MonthTurns, Metered!Lapses, Metered!books
<1>3. \A c \in Metered!Buckets : Metered!Open(c)' = Metered!Open(c) /\ OpenOnline(c)' = OpenOnline(c)
  BY <1>2 DEF Metered!Open, OpenOnline
<1>4. OnlineFits' /\ UnitsCounted'
  BY <1>1, <1>2, <1>3, NothingCounted DEF Metered!books
<1>5. AskedFor' /\ RefusalExplained'
  BY <1>2 DEF QuotaInv, AskedFor, RefusalExplained, Metered!AtZeroCeiling, Metered!Ceiling
<1> QED BY <1>1, <1>4, <1>5 DEF QuotaInv

LEMMA QuotaConsume ==
  ASSUME Metered!QuotaShape, QuotaInv, NEW s \in Requests, NEW offline \in BOOLEAN,
         Metered!Consume(s, offline)
  PROVE  QuotaInv'
<1>0. Metered!BucketNow \in Metered!Buckets
  BY DEF QuotaInv, Metered!TypeOK, Metered!BucketNow, Metered!Buckets, Metered!Sources
<1>1. PICK r : /\ r = [pc |-> IF Metered!AtZeroCeiling(Metered!BucketNow) THEN "full" ELSE "find",
                       bucket |-> Metered!BucketNow, offline |-> offline, under |-> FALSE]
              /\ meter' = [meter EXCEPT ![s] = r]
  BY Zenon DEF Metered!Consume
<1>2. Metered!TypeOK'
  BY <1>0 DEF Metered!QuotaShape, QuotaInv, Metered!Consume, Metered!TypeOK, Metered!world,
         Metered!books
<1>3. meter[s].pc \notin Holding /\ r.pc \notin Holding
  BY <1>1 DEF Metered!Consume, Metered!At, Holding
<1>4. \A c \in Metered!Buckets : Metered!Open(c)' = Metered!Open(c) /\ OpenOnline(c)' = OpenOnline(c)
  BY <1>1, <1>3, UnitsStay, Zenon DEF QuotaInv
<1>5. OnlineFits' /\ UnitsCounted'
  BY <1>2, <1>4, NothingCounted DEF Metered!Consume, Metered!books
<1>6. AskedFor' /\ RefusalExplained'
  BY <1>1 DEF QuotaInv, Metered!TypeOK, Metered!Consume, AskedFor, RefusalExplained,
         Metered!AtZeroCeiling, Metered!Ceiling
<1> QED BY <1>2, <1>5, <1>6 DEF QuotaInv

\* A unit is counted and taken in one step, by a request the plan has room for or that may
\* go over it.
LEMMA UnitCounted ==
  ASSUME Metered!QuotaShape, QuotaInv, NEW s \in Requests, NEW over \in {0, 1},
         Metered!At(s, "find") \/ Metered!At(s, "insert") \/ Metered!At(s, "full"),
         Metered!HasRoom(meter[s].bucket) \/ Metered!AllowOverage(s),
         meter' = [meter EXCEPT ![s].pc = "work"],
         usage' = [usage EXCEPT ![meter[s].bucket] = Metered!Add(@, 1, over)],
         UNCHANGED <<terms, month, lapsed, metered, issued, wasted, strayed, denied>>,
         contested' = contested
  PROVE  QuotaInv'
<1> DEFINE b == meter[s].bucket
<1>1. b \in Metered!Buckets /\ meter[s].offline \in BOOLEAN
  BY DEF QuotaInv, Metered!TypeOK
<1>2. Metered!TypeOK'
  BY <1>1 DEF QuotaInv, Metered!TypeOK, Metered!Add
<1>3. PICK r : r = [meter[s] EXCEPT !.pc = "work"] /\ meter' = [meter EXCEPT ![s] = r]
  BY Zenon DEF QuotaInv, Metered!TypeOK
<1>4. /\ meter[s].pc \notin Holding /\ r.pc \in Holding
      /\ r.bucket = b /\ r.offline = meter[s].offline
  BY <1>3 DEF Metered!At, Holding, QuotaInv, Metered!TypeOK
<1>5. \A c \in Metered!Buckets :
        /\ Cardinality(Metered!Open(c))' = Cardinality(Metered!Open(c)) + IF c = b THEN 1 ELSE 0
        /\ Cardinality(OpenOnline(c))' = Cardinality(OpenOnline(c))
             + IF c = b /\ ~meter[s].offline THEN 1 ELSE 0
  <2>1. \A c \in Metered!Buckets :
          /\ Cardinality(Metered!Open(c))' = Cardinality(Metered!Open(c)) + IF c = r.bucket THEN 1 ELSE 0
          /\ Cardinality(OpenOnline(c))' = Cardinality(OpenOnline(c))
               + IF c = r.bucket /\ ~r.offline THEN 1 ELSE 0
    <3>1. /\ Metered!TypeOK /\ meter' = [meter EXCEPT ![s] = r]
          /\ meter[s].pc \notin Holding /\ r.pc \in Holding
      BY <1>3, <1>4 DEF QuotaInv
    <3> HIDE DEF b
    <3> QED BY ONLY <3>1, UnitTaken, Metered!QuotaShape, s \in Requests, Zenon
  <2> QED BY <2>1, <1>4
<1>6. \A c \in Metered!Buckets :
        /\ usage[c].count \in Nat /\ issued[c].online \in Nat /\ issued[c].offline \in Nat
        /\ wasted[c] \in Nat /\ Metered!Ceiling(c) \in Int /\ Cardinality(Metered!Open(c)) \in Nat
        /\ Cardinality(OpenOnline(c)) \in Nat
        /\ Cardinality(OpenOnline(c)) <= Cardinality(Metered!Open(c))
  BY CeilingTyped, OpenFinite DEF QuotaInv, Metered!TypeOK
<1>7. \A c \in Metered!Buckets : usage'[c].count = usage[c].count + IF c = b THEN 1 ELSE 0
  BY <1>1, <1>6 DEF QuotaInv, Metered!TypeOK, Metered!Add
<1>8. UnitsCounted'
  BY <1>5, <1>6, <1>7 DEF QuotaInv, UnitsCounted
<1>9. OnlineFits'
  <2> SUFFICES ASSUME NEW c \in Metered!Buckets, ~strayed, Metered!Enforced, ~Metered!Unlimited(Metered!Ceiling(c))
               PROVE issued[c].online + Cardinality(OpenOnline(c))' <= Metered!Ceiling(c)
    BY DEF OnlineFits, Metered!Enforced, Metered!Ceiling
  <2>1. issued[c].online + Cardinality(OpenOnline(c)) <= Metered!Ceiling(c)
    BY DEF QuotaInv, OnlineFits
  <2>2. CASE c = b /\ ~meter[s].offline
    <3>1. Metered!HasRoom(b)
      BY <2>2 DEF Metered!AllowOverage
    <3>2. usage[c].count <= Metered!Ceiling(c) - 1
      BY <3>1, <2>2 DEF Metered!HasRoom
    <3>3. usage[c].count
            = issued[c].online + issued[c].offline + Cardinality(Metered!Open(c)) + wasted[c]
      BY DEF QuotaInv, UnitsCounted
    <3>4. Cardinality(OpenOnline(c))' = Cardinality(OpenOnline(c)) + 1
      BY <2>2, <1>5
    <3> QED BY <3>2, <3>3, <3>4, <1>6
  <2>3. CASE ~(c = b /\ ~meter[s].offline)
    <3>1. Cardinality(OpenOnline(c))' = Cardinality(OpenOnline(c)) + 0
      BY <2>3, <1>5
    <3> QED BY <3>1, <2>1, <1>6
  <2> QED BY <2>2, <2>3
<1>10. AskedFor'
  BY <1>1, <1>3, <1>7 DEF QuotaInv, Metered!TypeOK, AskedFor, Metered!AtZeroCeiling,
         Metered!Ceiling, Metered!Add
<1>11. RefusalExplained'
  BY <1>3 DEF QuotaInv, Metered!TypeOK, RefusalExplained
<1> HIDE DEF b
<1> QED BY <1>2, <1>8, <1>9, <1>10, <1>11 DEF QuotaInv

\* A request that goes from one step of asking to another holds no unit.
LEMMA StillAsking ==
  ASSUME Metered!QuotaShape, QuotaInv, NEW s \in Requests, NEW pc \in {"find", "insert", "full"},
         NEW under \in BOOLEAN,
         Metered!At(s, "find") \/ Metered!At(s, "insert"),
         meter' = [meter EXCEPT ![s] = [@ EXCEPT !.pc = pc, !.under = under]],
         UNCHANGED <<terms, month, lapsed, metered, usage, issued, wasted, strayed, denied>>,
         contested' \in SUBSET Metered!Buckets, contested \subseteq contested',
         pc = "full" /\ under => meter[s].bucket \in contested'
  PROVE  QuotaInv'
<1>2. Metered!TypeOK'
  BY Zenon DEF QuotaInv, Metered!TypeOK
<1>3. PICK r : /\ r = [meter[s] EXCEPT !.pc = pc, !.under = under]
              /\ meter' = [meter EXCEPT ![s] = r]
  BY Zenon DEF QuotaInv, Metered!TypeOK
<1>4. meter[s].pc \notin Holding /\ r.pc \notin Holding
  BY <1>3 DEF Metered!At, Holding, QuotaInv, Metered!TypeOK
<1>5. \A c \in Metered!Buckets : Metered!Open(c)' = Metered!Open(c) /\ OpenOnline(c)' = OpenOnline(c)
  BY <1>3, <1>4, UnitsStay, Zenon DEF QuotaInv
<1>6. OnlineFits' /\ UnitsCounted'
  BY <1>2, <1>5, NothingCounted DEF Metered!books
<1>7. AskedFor'
  BY <1>3 DEF QuotaInv, Metered!TypeOK, AskedFor, Metered!AtZeroCeiling, Metered!Ceiling,
         Metered!At
<1>8. RefusalExplained'
  BY <1>3 DEF QuotaInv, Metered!TypeOK, RefusalExplained
<1> QED BY <1>2, <1>6, <1>7, <1>8 DEF QuotaInv

LEMMA QuotaFind ==
  ASSUME Metered!QuotaShape, QuotaInv, NEW s \in Requests, Metered!Find(s) PROVE QuotaInv'
<1> DEFINE b == meter[s].bucket
<1>0. /\ b \in Metered!Buckets /\ meter[s].under \in BOOLEAN /\ usage[b].exists \in BOOLEAN
      /\ usage[b].count \in Nat /\ Metered!Ceiling(b) \in Int
      /\ Metered!At(s, "find")
      /\ UNCHANGED <<terms, month, lapsed, metered, issued, wasted, strayed, contested, denied>>
  BY CeilingTyped DEF QuotaInv, Metered!TypeOK, Metered!Find, Metered!world, Metered!books
<1>1. CASE ~usage[b].exists
  <2>1. meter' = [meter EXCEPT ![s].pc = "insert"] /\ UNCHANGED usage
    BY <1>1 DEF Metered!Find, Metered!Goto
  <2>2. meter' = [meter EXCEPT ![s] =
                      [@ EXCEPT !.pc = "insert", !.under = meter[s].under]]
    BY <2>1, Zenon DEF QuotaInv, Metered!TypeOK
  <2> QED BY <1>0, <2>1, <2>2, StillAsking, Zenon DEF QuotaInv, Metered!TypeOK
<1>2. CASE usage[b].exists /\ Metered!HasRoom(b)
  <2>1. /\ meter' = [meter EXCEPT ![s].pc = "work"]
        /\ usage' = [usage EXCEPT ![b] = Metered!Add(@, 1, 0)]
    BY <1>2 DEF Metered!Find, Metered!Goto
  <2> QED BY <1>0, <1>2, <2>1, UnitCounted, Zenon
<1>3. CASE usage[b].exists /\ ~Metered!HasRoom(b)
  <2>1. meter' = [meter EXCEPT ![s].pc = "full", ![s].under = Metered!Below(b)] /\ UNCHANGED usage
    BY <1>3 DEF Metered!Find, Metered!Refused
  <2>2. Metered!Below(b) = FALSE
    BY <1>0, <1>3 DEF Metered!HasRoom, Metered!Below
  <2>3. meter' = [meter EXCEPT ![s] = [@ EXCEPT !.pc = "full", !.under = FALSE]]
    BY <2>1, <2>2, Zenon DEF QuotaInv, Metered!TypeOK
  <2> QED BY <1>0, <2>1, <2>3, StillAsking, Zenon DEF QuotaInv, Metered!TypeOK
<1> QED BY <1>0, <1>1, <1>2, <1>3

LEMMA QuotaInsert ==
  ASSUME Metered!QuotaShape, QuotaInv, NEW s \in Requests, Metered!Insert(s) PROVE QuotaInv'
<1> DEFINE b == meter[s].bucket
<1>0. /\ b \in Metered!Buckets /\ meter[s].under \in BOOLEAN /\ usage[b].exists \in BOOLEAN
      /\ usage[b].count \in Nat /\ Metered!Ceiling(b) \in Int
      /\ Metered!At(s, "insert")
      /\ UNCHANGED <<terms, month, lapsed, metered, issued, wasted, strayed, denied>>
  BY CeilingTyped DEF QuotaInv, Metered!TypeOK, Metered!Insert, Metered!world, Metered!books
<1>1. CASE usage[b].exists
  <2>1. /\ IF Metered!Unlimited(Metered!Ceiling(b)) THEN Metered!Goto(s, "find") ELSE Metered!Refused(s, b)
        /\ contested' = contested \cup {b}
        /\ UNCHANGED usage
    BY <1>1 DEF Metered!Insert
  <2>2. contested' \in SUBSET Metered!Buckets /\ contested \subseteq contested'
        /\ b \in contested'
    BY <2>1, <1>0 DEF QuotaInv, Metered!TypeOK
  <2>3. PICK pc \in {"find", "full"}, under \in BOOLEAN :
          meter' = [meter EXCEPT ![s] = [@ EXCEPT !.pc = pc, !.under = under]]
    <3>1. CASE Metered!Unlimited(Metered!Ceiling(b))
      <4>1. meter' = [meter EXCEPT ![s] =
                          [@ EXCEPT !.pc = "find", !.under = meter[s].under]]
        BY <3>1, <2>1, Zenon DEF Metered!Goto, QuotaInv, Metered!TypeOK
      <4> QED BY <4>1, <1>0, Zenon
    <3>2. CASE ~Metered!Unlimited(Metered!Ceiling(b))
      <4>1. meter' = [meter EXCEPT ![s] = [@ EXCEPT !.pc = "full", !.under = Metered!Below(b)]]
        BY <3>2, <2>1, Zenon DEF Metered!Refused, QuotaInv, Metered!TypeOK
      <4>2. Metered!Below(b) \in BOOLEAN
        BY DEF Metered!Below
      <4> QED BY <4>1, <4>2, Zenon
    <3> QED BY <3>1, <3>2, Zenon
  <2>4. UNCHANGED usage
    BY <2>1
  <2> HIDE DEF b
  <2> QED BY <1>0, <2>2, <2>3, <2>4, StillAsking, Zenon DEF b
<1>2. CASE ~usage[b].exists
  <2>1. /\ meter' = [meter EXCEPT ![s].pc = "work"]
        /\ usage' = [usage EXCEPT ![b] = Metered!Add(@, 1, 0)] /\ UNCHANGED contested
    BY <1>2 DEF Metered!Insert, Metered!Goto
  <2>2. usage[b].count = 0 /\ Metered!Ceiling(b) # 0
    BY <1>0, <1>2 DEF QuotaInv, AskedFor, Metered!At, Metered!AtZeroCeiling
  <2>3. Metered!HasRoom(b)
    BY <2>2, <1>0 DEF Metered!HasRoom, Metered!Unlimited
  <2> QED BY <1>0, <2>1, <2>3, UnitCounted, Zenon
<1> QED BY <1>0, <1>1, <1>2

\* A request ends without a unit.
LEMMA QuotaFull ==
  ASSUME Metered!QuotaShape, QuotaInv, NEW s \in Requests, Metered!Full(s) PROVE QuotaInv'
<1> DEFINE b == meter[s].bucket
<1>0. /\ b \in Metered!Buckets /\ meter[s].under \in BOOLEAN /\ Metered!At(s, "full")
      /\ UNCHANGED <<terms, month, lapsed, metered, issued, wasted, strayed, contested>>
  BY DEF QuotaInv, Metered!TypeOK, Metered!Full, Metered!world, Metered!books
<1>1. CASE Metered!AllowOverage(s)
  <2>1. /\ meter' = [meter EXCEPT ![s].pc = "work"]
        /\ usage' = [usage EXCEPT ![b] = Metered!Add(@, 1, 1)] /\ UNCHANGED denied
    BY <1>1 DEF Metered!Full, Metered!Goto
  <2> QED BY <1>0, <1>1, <2>1, UnitCounted, Zenon
<1>2. CASE ~Metered!AllowOverage(s)
  <2>1. /\ meter' = [meter EXCEPT ![s] = Metered!Idle] /\ UNCHANGED usage
        /\ denied' = IF meter[s].under THEN denied \cup {b} ELSE denied
    BY <1>2 DEF Metered!Full, Metered!End
  <2>2. Metered!Idle \in [pc : {"idle"}, bucket : Metered!Buckets, offline : BOOLEAN, under : BOOLEAN]
    BY DEF Metered!Idle, Metered!QuotaShape, Metered!Buckets, Metered!Sources
  <2>3. Metered!TypeOK'
    BY <1>0, <2>1, <2>2 DEF QuotaInv, Metered!TypeOK
  <2>4. \A c \in Metered!Buckets : Metered!Open(c)' = Metered!Open(c) /\ OpenOnline(c)' = OpenOnline(c)
    <3>1. meter[s].pc \notin Holding /\ Metered!Idle.pc \notin Holding
      BY <1>0 DEF Metered!At, Holding, Metered!Idle
    <3> QED BY <3>1, <2>1, UnitsStay, Zenon DEF QuotaInv
  <2>5. OnlineFits' /\ UnitsCounted'
    BY <1>0, <2>1, <2>3, <2>4, NothingCounted DEF Metered!books
  <2>6. AskedFor'
    BY <1>0, <2>1, <2>2
       DEF QuotaInv, Metered!TypeOK, AskedFor, Metered!AtZeroCeiling, Metered!Ceiling
  <2>7. RefusalExplained'
    BY <1>0, <2>1, <2>2 DEF QuotaInv, Metered!TypeOK, RefusalExplained, Metered!At
  <2> QED BY <2>3, <2>5, <2>6, <2>7 DEF QuotaInv
<1> QED BY <1>1, <1>2

\* The work is done, and its unit is issued; or it failed, and the unit is still held.
LEMMA QuotaWork ==
  ASSUME Metered!QuotaShape, QuotaInv, NEW s \in Requests, NEW ok \in BOOLEAN, Metered!Work(s, ok)
  PROVE  QuotaInv'
<1> DEFINE b == meter[s].bucket
<1>0. /\ b \in Metered!Buckets /\ meter[s].offline \in BOOLEAN /\ Metered!At(s, "work")
      /\ UNCHANGED <<terms, month, lapsed, metered, usage, wasted, strayed, contested, denied>>
  BY DEF QuotaInv, Metered!TypeOK, Metered!Work, Metered!world
<1>1. CASE ok
  <2>1. /\ meter' = [meter EXCEPT ![s] = Metered!Idle]
        /\ issued' = IF meter[s].offline THEN [issued EXCEPT ![b].offline = @ + 1]
                     ELSE [issued EXCEPT ![b].online = @ + 1]
    BY <1>1 DEF Metered!Work, Metered!End
  <2>2. /\ Metered!Idle \in [pc : {"idle"}, bucket : Metered!Buckets, offline : BOOLEAN, under : BOOLEAN]
        /\ meter[s].pc \in Holding /\ Metered!Idle.pc \notin Holding
    BY <1>0 DEF Metered!Idle, Metered!QuotaShape, Metered!Buckets, Metered!Sources,
           Metered!At, Holding
  <2>3. Metered!TypeOK'
    BY <1>0, <2>1, <2>2 DEF QuotaInv, Metered!TypeOK
  <2>4. \A c \in Metered!Buckets :
          /\ Cardinality(Metered!Open(c))' = Cardinality(Metered!Open(c)) - IF c = b THEN 1 ELSE 0
          /\ Cardinality(OpenOnline(c))' = Cardinality(OpenOnline(c))
               - IF c = b /\ ~meter[s].offline THEN 1 ELSE 0
    <3> HIDE DEF Metered!Idle
    <3> QED BY <2>1, <2>2, UnitLeft, Zenon DEF QuotaInv
  <2>5. \A c \in Metered!Buckets :
          /\ issued'[c].online = issued[c].online
                + IF c = b /\ ~meter[s].offline THEN 1 ELSE 0
          /\ issued'[c].offline = issued[c].offline
                + IF c = b /\ meter[s].offline THEN 1 ELSE 0
    BY <1>0, <2>1 DEF QuotaInv, Metered!TypeOK
  <2>6. \A c \in Metered!Buckets :
          /\ usage[c].count \in Nat /\ issued[c].online \in Nat /\ issued[c].offline \in Nat
          /\ wasted[c] \in Nat /\ Metered!Ceiling(c) \in Int /\ Cardinality(Metered!Open(c)) \in Nat
          /\ Cardinality(OpenOnline(c)) \in Nat
    BY CeilingTyped, OpenFinite DEF QuotaInv, Metered!TypeOK
  <2>7. UnitsCounted'
    BY <1>0, <2>4, <2>5, <2>6 DEF QuotaInv, UnitsCounted
  <2>8. OnlineFits'
    <3> SUFFICES ASSUME NEW c \in Metered!Buckets, ~strayed, Metered!Enforced, ~Metered!Unlimited(Metered!Ceiling(c))
                 PROVE issued'[c].online + Cardinality(OpenOnline(c))' <= Metered!Ceiling(c)
      BY <1>0 DEF OnlineFits, Metered!Enforced, Metered!Ceiling
    <3>1. issued[c].online + Cardinality(OpenOnline(c)) <= Metered!Ceiling(c)
      BY DEF QuotaInv, OnlineFits
    <3> QED BY <3>1, <2>4, <2>5, <2>6
  <2>9. AskedFor' /\ RefusalExplained'
    BY <1>0, <2>1, <2>2
       DEF QuotaInv, Metered!TypeOK, AskedFor, RefusalExplained, Metered!AtZeroCeiling,
           Metered!Ceiling
  <2> QED BY <2>3, <2>7, <2>8, <2>9 DEF QuotaInv
<1>2. CASE ~ok
  <2>1. meter' = [meter EXCEPT ![s].pc = "release"] /\ UNCHANGED issued
    BY <1>2 DEF Metered!Work, Metered!Goto
  <2>2. Metered!TypeOK'
    BY <1>0, <2>1 DEF QuotaInv, Metered!TypeOK
  <2>3. \A c \in Metered!Buckets : Metered!Open(c)' = Metered!Open(c) /\ OpenOnline(c)' = OpenOnline(c)
    BY <1>0, <2>1 DEF QuotaInv, Metered!TypeOK, Metered!Open, OpenOnline, Metered!At
  <2>4. OnlineFits' /\ UnitsCounted'
    BY <1>0, <2>1, <2>2, <2>3, NothingCounted DEF Metered!books
  <2>5. AskedFor' /\ RefusalExplained'
    BY <1>0, <2>1 DEF QuotaInv, Metered!TypeOK, AskedFor, RefusalExplained,
           Metered!AtZeroCeiling, Metered!Ceiling
  <2> QED BY <2>2, <2>4, <2>5 DEF QuotaInv
<1> QED BY <1>1, <1>2

\* A unit is given back: to the bucket it came from, or to another month, or not at all.
LEMMA QuotaRelease ==
  ASSUME Metered!QuotaShape, QuotaInv, NEW s \in Requests, NEW ok \in BOOLEAN,
         Metered!Release(s, ok)
  PROVE  QuotaInv'
<1> DEFINE b == meter[s].bucket
           r == Metered!ReleasedInto(s)
<1>0. /\ b \in Metered!Buckets /\ meter[s].offline \in BOOLEAN /\ Metered!At(s, "release")
      /\ UNCHANGED <<terms, month, lapsed, metered, issued, contested, denied>>
  BY DEF QuotaInv, Metered!TypeOK, Metered!Release, Metered!world
<1>1. /\ meter' = [meter EXCEPT ![s] = Metered!Idle]
      /\ usage' = IF ok /\ usage[r].count >= 1 THEN [usage EXCEPT ![r].count = @ - 1] ELSE usage
      /\ wasted' = IF ok THEN wasted ELSE [wasted EXCEPT ![b] = @ + 1]
      /\ strayed' = (strayed \/ (ok /\ month # b[1]))
  BY DEF Metered!Release, Metered!End
<1>2. /\ Metered!Idle \in [pc : {"idle"}, bucket : Metered!Buckets, offline : BOOLEAN, under : BOOLEAN]
      /\ meter[s].pc \in Holding /\ Metered!Idle.pc \notin Holding
  BY <1>0 DEF Metered!Idle, Metered!QuotaShape, Metered!Buckets, Metered!Sources, Metered!At,
         Holding
<1>3. r \in Metered!Buckets /\ (month = b[1] => r = b)
  BY <1>0 DEF QuotaInv, Metered!TypeOK, Metered!ReleasedInto, Metered!Buckets
<1>4. Metered!TypeOK'
  <2>1. usage' \in [Metered!Buckets -> [exists : BOOLEAN, count : Nat, overage : Nat]]
    <3>1. CASE ok /\ usage[r].count >= 1
      <4>1. PICK row : row = [usage[r] EXCEPT !.count = @ - 1] /\ usage' = [usage EXCEPT ![r] = row]
        BY <3>1, <1>1, <1>3, Zenon DEF QuotaInv, Metered!TypeOK
      <4>2. usage[r] \in [exists : BOOLEAN, count : Nat, overage : Nat]
        BY <1>3 DEF QuotaInv, Metered!TypeOK
      <4>3. row \in [exists : BOOLEAN, count : Nat, overage : Nat]
        BY <4>1, <4>2, <3>1
      <4> QED BY <4>1, <4>3, <1>3 DEF QuotaInv, Metered!TypeOK
    <3>2. CASE ~(ok /\ usage[r].count >= 1)
      BY <3>2, <1>1 DEF QuotaInv, Metered!TypeOK
    <3> QED BY <3>1, <3>2
  <2>2. wasted' \in [Metered!Buckets -> Nat]
    BY <1>1 DEF QuotaInv, Metered!TypeOK
  <2>3. strayed' \in BOOLEAN
    BY <1>1 DEF QuotaInv, Metered!TypeOK
  <2>4. meter' \in [Requests -> [pc : {"idle", "find", "insert", "full", "work", "release"},
                                bucket : Metered!Buckets, offline : BOOLEAN, under : BOOLEAN]]
    BY <1>1, <1>2 DEF QuotaInv, Metered!TypeOK
  <2> QED BY <1>0, <2>1, <2>2, <2>3, <2>4 DEF QuotaInv, Metered!TypeOK
<1>5. \A c \in Metered!Buckets :
        /\ Cardinality(Metered!Open(c))' = Cardinality(Metered!Open(c)) - IF c = b THEN 1 ELSE 0
        /\ Cardinality(OpenOnline(c))' = Cardinality(OpenOnline(c))
             - IF c = b /\ ~meter[s].offline THEN 1 ELSE 0
        /\ c = b => Cardinality(Metered!Open(c)) \in Nat \ {0}
  <2> HIDE DEF Metered!Idle
  <2> QED BY <1>1, <1>2, UnitLeft, Zenon DEF QuotaInv
<1>6. \A c \in Metered!Buckets :
        /\ usage[c].count \in Nat /\ issued[c].online \in Nat /\ issued[c].offline \in Nat
        /\ wasted[c] \in Nat /\ Metered!Ceiling(c) \in Int /\ Cardinality(Metered!Open(c)) \in Nat
        /\ Cardinality(OpenOnline(c)) \in Nat
  BY CeilingTyped, OpenFinite DEF QuotaInv, Metered!TypeOK
<1>7. UnitsCounted'
  <2> SUFFICES ASSUME NEW c \in Metered!Buckets, ~strayed, ~(ok /\ month # b[1])
               PROVE usage'[c].count = issued[c].online + issued[c].offline
                                         + Cardinality(Metered!Open(c))' + wasted'[c]
    BY <1>0, <1>1, Zenon DEF UnitsCounted
  <2>1. usage[c].count = issued[c].online + issued[c].offline + Cardinality(Metered!Open(c)) + wasted[c]
    BY DEF QuotaInv, UnitsCounted
  <2>2. CASE ok
    <3>1. r = b /\ wasted'[c] = wasted[c]
      BY <2>2, <1>1, <1>3
    <3>2. CASE c = b
      <4>1. usage[b].count >= 1
        BY <3>2, <2>1, <1>5, <1>6
      <4>2. usage'[c].count = usage[c].count - 1
        BY <4>1, <3>1, <3>2, <2>2, <1>0, <1>1 DEF QuotaInv, Metered!TypeOK
      <4>3. Cardinality(Metered!Open(c))' = Cardinality(Metered!Open(c)) - 1
        BY <3>2, <1>5
      <4> QED BY <4>2, <4>3, <3>1, <2>1, <1>6
    <3>3. CASE c # b
      <4>1. usage'[c] = usage[c]
        BY <3>1, <3>3, <1>1 DEF QuotaInv, Metered!TypeOK
      <4>2. Cardinality(Metered!Open(c))' = Cardinality(Metered!Open(c)) - 0
        BY <3>3, <1>5
      <4> QED BY <4>1, <4>2, <3>1, <2>1, <1>6
    <3> QED BY <3>2, <3>3
  <2>3. CASE ~ok
    <3>1. usage' = usage /\ wasted'[c] = wasted[c] + IF c = b THEN 1 ELSE 0
      BY <2>3, <1>0, <1>1, <1>6 DEF QuotaInv, Metered!TypeOK
    <3> QED BY <3>1, <2>1, <1>5, <1>6
  <2> QED BY <2>2, <2>3
<1>8. OnlineFits'
  <2> SUFFICES ASSUME NEW c \in Metered!Buckets, ~strayed, Metered!Enforced, ~Metered!Unlimited(Metered!Ceiling(c))
               PROVE issued[c].online + Cardinality(OpenOnline(c))' <= Metered!Ceiling(c)
    BY <1>0, <1>1, Zenon DEF OnlineFits, Metered!Enforced, Metered!Ceiling
  <2>1. issued[c].online + Cardinality(OpenOnline(c)) <= Metered!Ceiling(c)
    BY DEF QuotaInv, OnlineFits
  <2> QED BY <2>1, <1>5, <1>6
<1>9. AskedFor' /\ RefusalExplained'
  <2>1. \A c \in Metered!Buckets : ~usage'[c].exists => usage'[c].count = 0
    BY <1>1, <1>3 DEF QuotaInv, Metered!TypeOK, AskedFor
  <2> QED BY <1>0, <1>1, <1>2, <2>1
          DEF QuotaInv, Metered!TypeOK, AskedFor, RefusalExplained, Metered!AtZeroCeiling,
              Metered!Ceiling
<1> QED BY <1>4, <1>7, <1>8, <1>9 DEF QuotaInv

\* Every step of a request, and of the calendar, preserves the invariant.
LEMMA QuotaStep == ASSUME Metered!QuotaShape, QuotaInv, [Metered!Next]_(Metered!vars) PROVE QuotaInv'
<1>1. CASE UNCHANGED Metered!vars
  <2>1. \A c \in Metered!Buckets : Metered!Open(c)' = Metered!Open(c) /\ OpenOnline(c)' = OpenOnline(c)
    BY <1>1 DEF Metered!vars, Metered!Open, OpenOnline
  <2>2. Metered!TypeOK'
    BY <1>1 DEF Metered!vars, QuotaInv, Metered!TypeOK
  <2>3. OnlineFits' /\ UnitsCounted'
    BY <1>1, <2>1, <2>2, NothingCounted DEF Metered!vars, Metered!books
  <2> QED BY <1>1, <2>2, <2>3
          DEF Metered!vars, QuotaInv, AskedFor, RefusalExplained, Metered!AtZeroCeiling,
              Metered!Ceiling
<1>2. CASE Metered!MonthTurns \/ Metered!Lapses
  BY <1>2, QuotaCalendar
<1>3. ASSUME NEW s \in Requests, NEW offline \in BOOLEAN, Metered!Consume(s, offline) PROVE QuotaInv'
  BY <1>3, QuotaConsume
<1>4. ASSUME NEW s \in Requests, Metered!Find(s) \/ Metered!Insert(s) \/ Metered!Full(s) PROVE QuotaInv'
  BY <1>4, QuotaFind, QuotaInsert, QuotaFull
<1>5. ASSUME NEW s \in Requests, NEW ok \in BOOLEAN, Metered!Work(s, ok) \/ Metered!Release(s, ok) PROVE QuotaInv'
  BY <1>5, QuotaWork, QuotaRelease
<1> QED BY <1>1, <1>2, <1>3, <1>4, <1>5 DEF Metered!Next

\* The invariant gives what the run checks.
LEMMA QuotaGives == ASSUME Metered!QuotaShape, QuotaInv PROVE Metered!QuotaExact
<1> SUFFICES ASSUME NEW b \in Metered!Buckets
             PROVE  strayed \/ ~Metered!Enforced \/ Metered!Unlimited(Metered!Ceiling(b)) \/ issued[b].online <= Metered!Ceiling(b)
  BY QuotaCounts DEF QuotaInv, Metered!QuotaExact, UnitsCounted, RefusalExplained
<1>1. /\ issued[b].online \in Nat /\ Metered!Ceiling(b) \in Int /\ Cardinality(OpenOnline(b)) \in Nat
  BY CeilingTyped, OpenFinite DEF QuotaInv, Metered!TypeOK
<1> QED BY <1>1 DEF QuotaInv, OnlineFits

\* That part runs by itself.
LEMMA QuotaRuns ==
  ASSUME [Next]_vars, part' = "quota"
  PROVE  part = "quota" /\ [Metered!Next]_(Metered!vars)
<1>1. CASE UNCHANGED vars
  <2>1. part' = part /\ quotaVars' = quotaVars
    BY <1>1 DEF vars
  <2> QED BY <2>1 DEF quotaVars, Metered!vars
<1>2. CASE Next
  BY <1>2 DEF Next, Only
<1> QED BY <1>1, <1>2

\* A unit of a quota is counted once and given back to where it came from, for any plan.
THEOREM QuotaExactAlways == Spec => []QuotaExact
<1> DEFINE I == part = "quota" => QuotaInv
<1>1. Init => I
  BY QuotaInit, ProtocolShape DEF Init
<1>2. I /\ [Next]_vars => I'
  <2> SUFFICES ASSUME I, [Next]_vars, part' = "quota" PROVE QuotaInv'
    OBVIOUS
  <2>1. part = "quota" /\ [Metered!Next]_(Metered!vars)
    BY QuotaRuns
  <2> QED BY <2>1, QuotaStep, ProtocolShape
<1>3. I => QuotaExact
  BY QuotaGives, ProtocolShape DEF QuotaExact, QuotaInv
<1> QED BY <1>1, <1>2, <1>3, PTL DEF Spec
=============================================================================
