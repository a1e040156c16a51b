------------------------------ MODULE SyncPull ------------------------------
(***************************************************************************)
(* Devices pulling one collection by cursor while it is being written.     *)
(* A write takes its updatedAt stamp when it is issued and becomes visible *)
(* when its transaction commits, up to MaxCommit later; a page holds rows  *)
(* after the cursor in (updatedAt, _id) order, none newer than the horizon *)
(* now - Lag.  A device starts with a bootstrap: the cursor of the newest  *)
(* row is taken first, then the live rows are read page by page.           *)
(*                                                                         *)
(* Left out: permissions, the bootstrap's filters (a row they exclude is   *)
(* by design not on the device), projections, malformed cursors.           *)
(***************************************************************************)
EXTENDS Integers, FiniteSets

CONSTANTS
  Rows,      \* _id of the records, numbers because their order breaks ties
  Devices,
  Lag,       \* SYNC_SAFETY_LAG_MS
  MaxCommit, \* the longest a write stays invisible after it was stamped
  Limit,     \* page size
  Retention, \* TOMBSTONE_RETENTION_DAYS: an older cursor is refused
  MaxTime,   \* bound: the clock
  MaxWrites  \* bound: committed writes of one record

\* What is assumed of the constants.
PullShape ==
  /\ Rows \subseteq Nat /\ Lag \in Nat /\ MaxCommit \in Nat /\ MaxCommit < Lag
  /\ Limit \in Nat \ {0} /\ Retention \in Nat /\ MaxTime \in Nat /\ MaxWrites \in Nat

VARIABLES
  now,
  stamp,   \* [Rows -> updatedAt, 0 while the record does not exist]
  version, \* [Rows -> version]
  deleted, \* [Rows -> BOOLEAN] tombstoned
  writing, \* [Rows -> stamp of the write under way, 0 when there is none]
  phase,   \* [Devices -> "new", "bootstrap" or "delta"]
  cursor,  \* [Devices -> where the next page starts, a pair <<updatedAt, _id>>]
  start,   \* [Devices -> the cursor the delta pull will start from]
  copy     \* [Devices -> [Rows -> version held, 0 for none]]

vars == <<now, stamp, version, deleted, writing, phase, cursor, start, copy>>

Origin == <<0, 0>>
At(r) == <<stamp[r], r>>
After(a, b) == a[1] > b[1] \/ (a[1] = b[1] /\ a[2] > b[2])
Exists(r) == stamp[r] # 0

TypeOK ==
  /\ now \in Nat
  /\ stamp \in [Rows -> Nat] /\ version \in [Rows -> Nat]
  /\ deleted \in [Rows -> BOOLEAN]
  /\ writing \in [Rows -> Nat]
  /\ phase \in [Devices -> {"new", "bootstrap", "delta"}]
  /\ cursor \in [Devices -> Nat \X Nat] /\ start \in [Devices -> Nat \X Nat]
  /\ copy \in [Devices -> [Rows -> Nat]]

Init ==
  /\ now = 1
  /\ stamp = [r \in Rows |-> 0] /\ version = [r \in Rows |-> 0]
  /\ deleted = [r \in Rows |-> FALSE]
  /\ writing = [r \in Rows |-> 0]
  /\ phase = [d \in Devices |-> "new"]
  /\ cursor = [d \in Devices |-> Origin] /\ start = [d \in Devices |-> Origin]
  /\ copy = [d \in Devices |-> [r \in Rows |-> 0]]

-----------------------------------------------------------------------------
\* Time passes; a transaction under way ends within MaxCommit of its stamp.
Tick ==
  /\ now < MaxTime
  /\ \A r \in Rows : writing[r] # 0 => now + 1 <= writing[r] + MaxCommit
  /\ now' = now + 1
  /\ UNCHANGED <<stamp, version, deleted, writing, phase, cursor, start, copy>>

\* Writes of one record exclude each other (a transaction conflicts).
IssueWrite(r) ==
  /\ writing[r] = 0 /\ ~deleted[r] /\ version[r] < MaxWrites
  /\ writing' = [writing EXCEPT ![r] = now]
  /\ UNCHANGED <<now, stamp, version, deleted, phase, cursor, start, copy>>

Commit(r, delete) ==
  /\ writing[r] # 0
  /\ delete => Exists(r)
  /\ stamp' = [stamp EXCEPT ![r] = writing[r]]
  /\ version' = [version EXCEPT ![r] = @ + 1]
  /\ deleted' = [deleted EXCEPT ![r] = delete]
  /\ writing' = [writing EXCEPT ![r] = 0]
  /\ UNCHANGED <<now, phase, cursor, start, copy>>

Abort(r) ==
  /\ writing[r] # 0
  /\ writing' = [writing EXCEPT ![r] = 0]
  /\ UNCHANGED <<now, stamp, version, deleted, phase, cursor, start, copy>>

-----------------------------------------------------------------------------
HorizonNow == now
Horizon == now - Lag
Settled == {r \in Rows : Exists(r) /\ stamp[r] <= Horizon}

NewestWritten(c) ==
  IF \A r \in Rows : ~Exists(r) THEN c = Origin
  ELSE \E r \in Rows : c = At(r) /\ \A s \in Rows : ~After(At(s), c)
\* latestCursors: the newest settled row.  A device starts here with nothing,
\* and starts again when it was refused or installed anew.
Newest(c) ==
  IF Settled = {} THEN c = Origin
  ELSE \E r \in Settled : c = At(r) /\ \A s \in Settled : ~After(At(s), c)
StartBootstrap(d) ==
  /\ \E c \in {At(r) : r \in Rows} \cup {Origin} :
       Newest(c) /\ start' = [start EXCEPT ![d] = c]
  /\ phase' = [phase EXCEPT ![d] = "bootstrap"]
  /\ cursor' = [cursor EXCEPT ![d] = Origin]
  /\ copy' = [copy EXCEPT ![d] = [r \in Rows |-> 0]]
  /\ UNCHANGED <<now, stamp, version, deleted, writing>>

\* readPage: the first Limit of the rows after the cursor, in cursor order.
IsPage(page, from) ==
  /\ page \subseteq from /\ Cardinality(page) <= Limit
  /\ page # from => Cardinality(page) = Limit
  /\ \A r \in page, s \in from \ page : After(At(s), At(r))

Receive(d, page) ==
  /\ copy' = [copy EXCEPT ![d] =
       [r \in Rows |-> IF r \in page THEN version[r] ELSE @[r]]]
  /\ UNCHANGED <<now, stamp, version, deleted, writing, start>>
Last(c, page) == \E r \in page : c = At(r) /\ \A s \in page : ~After(At(s), c)

\* decodeCursor refuses a cursor by the age of the row it names; the device is to
\* bootstrap again.
Expired(c) == c # Origin /\ now - c[1] > Retention
Refuse(d) ==
  /\ phase[d] # "new" /\ Expired(cursor[d])
  /\ phase' = [phase EXCEPT ![d] = "new"]
  /\ UNCHANGED <<now, stamp, version, deleted, writing, cursor, start, copy>>

\* A bootstrap page skips tombstones; the last page hands over to the delta.
Undelivered(d) == {r \in Settled : After(At(r), cursor[d])}
BootstrapPage(d) ==
  /\ phase[d] = "bootstrap" /\ ~Expired(cursor[d])
  /\ LET live == {r \in Undelivered(d) : ~deleted[r]} IN
     \E page \in SUBSET live :
       /\ IsPage(page, live) /\ Receive(d, page)
       /\ IF page = live
          THEN /\ phase' = [phase EXCEPT ![d] = "delta"]
               /\ cursor' = [cursor EXCEPT ![d] = start[d]]
          ELSE /\ \E c \in {At(r) : r \in page} :
                    Last(c, page) /\ cursor' = [cursor EXCEPT ![d] = c]
               /\ UNCHANGED phase

\* A delta page, tombstones included; an empty page leaves the cursor.
DeltaPage(d) ==
  /\ phase[d] = "delta" /\ ~Expired(cursor[d]) /\ Undelivered(d) # {}
  /\ \E page \in SUBSET Undelivered(d) :
       /\ page # {} /\ IsPage(page, Undelivered(d)) /\ Receive(d, page)
       /\ \E c \in {At(r) : r \in page} :
            Last(c, page) /\ cursor' = [cursor EXCEPT ![d] = c]
  /\ UNCHANGED phase

-----------------------------------------------------------------------------
Next ==
  \/ Tick
  \/ \E r \in Rows :
       IssueWrite(r) \/ Abort(r) \/ \E delete \in BOOLEAN : Commit(r, delete)
  \/ \E d \in Devices : StartBootstrap(d) \/ Refuse(d) \/ BootstrapPage(d) \/ DeltaPage(d)

Spec == Init /\ [][Next]_vars

-----------------------------------------------------------------------------
\* Nothing is ever behind a cursor and missing from the device: what lies at or
\* before it, the device holds in its current version.  (A tombstone it never
\* held may be missing: there is nothing to delete.)
UpToDate(d, r) == copy[d][r] = version[r] \/ (deleted[r] /\ copy[d][r] = 0)
NothingSkipped ==
  \A d \in Devices, r \in Rows :
    phase[d] = "delta" /\ Exists(r) /\ ~After(At(r), cursor[d]) => UpToDate(d, r)

\* A cursor handed out by a bootstrap is one the delta pull accepts.
BootstrapIsUsable ==
  [][\A d \in Devices : StartBootstrap(d) => ~Expired(start'[d])]_vars
=============================================================================
