---------------------------- MODULE DeviceSeries ----------------------------
(***************************************************************************)
(* Devices registering for a numbering series.  A new device reads which   *)
(* indexes are taken, takes the lowest free one and inserts its row; the   *)
(* unique index on (business, index) refuses an index another device took  *)
(* in between, and the loser tries again, MaxAttempts times in all.  A     *)
(* device may register twice at once (the unique deviceId refuses the      *)
(* second row); one that holds a row gets it back, unless it was revoked.  *)
(***************************************************************************)
EXTENDS Naturals, FiniteSets

CONSTANTS
  Devices,
  Calls,       \* registration requests under way, each of one device
  MaxIndex,    \* MAX_DEVICE_INDEX
  MaxAttempts,
  DeviceOf     \* [Calls -> Devices]

\* What is assumed of the constants.
SeriesShape ==
  DeviceOf \in [Calls -> Devices] /\ MaxIndex \in Nat /\ MaxAttempts \in Nat \ {0}

VARIABLES
  index,   \* [Devices -> index of its row, 0 for no row]
  revoked,
  call,    \* [Calls -> step, attempts made, the index read as free]
  landed   \* history: [Calls -> rows inserted by others since the call started]

vars == <<index, revoked, call, landed>>

Taken == {index[d] : d \in Devices} \ {0}
Idle == [pc |-> "idle", attempts |-> 0, free |-> 0]

TypeOK ==
  /\ index \in [Devices -> 0..MaxIndex]
  /\ \A d, e \in Devices : index[d] = index[e] /\ index[d] # 0 => d = e
  /\ revoked \subseteq {d \in Devices : index[d] # 0}
  /\ \A c \in Calls :
       /\ call[c].pc \in {"idle", "read", "insert", "done", "full", "refused", "revoked"}
       /\ call[c].attempts \in 0..MaxAttempts /\ call[c].free \in 0..MaxIndex

Init ==
  /\ index = [d \in Devices |-> 0] /\ revoked = {}
  /\ call = [c \in Calls |-> Idle]
  /\ landed = [c \in Calls |-> 0]

Goto(c, pc) == call' = [call EXCEPT ![c].pc = pc]

Register(c) ==
  /\ call[c].pc = "idle"
  /\ LET d == DeviceOf[c] IN
     Goto(c, IF d \in revoked THEN "revoked" ELSE IF index[d] # 0 THEN "done" ELSE "read")
  /\ UNCHANGED <<index, revoked, landed>>

\* nextFreeIndex: revoked rows keep their index.
Free == 1..MaxIndex \ Taken
FreeOfLive == 1..MaxIndex \ {index[d] : d \in Devices \ revoked}
NextFreeIndex(c) ==
  /\ call[c].pc = "read"
  /\ IF Free = {} THEN Goto(c, "full")
     ELSE \E i \in Free :
            /\ \A j \in Free : i <= j
            /\ call' = [call EXCEPT ![c].pc = "insert", ![c].free = i]
  /\ UNCHANGED <<index, revoked, landed>>

\* The insert: refused by either unique index, it counts an attempt.
GivesUpEarly(c) == call[c].attempts + 2 >= MaxAttempts
GivesUp(c) == call[c].attempts + 1 = MaxAttempts
Insert(c) ==
  /\ call[c].pc = "insert"
  /\ LET d == DeviceOf[c] IN
     IF index[d] = 0 /\ call[c].free \notin Taken
     THEN /\ index' = [index EXCEPT ![d] = call[c].free]
          /\ Goto(c, "done")
          /\ landed' = [o \in Calls |->
               IF call[o].pc \in {"read", "insert"} /\ o # c THEN landed[o] + 1 ELSE landed[o]]
     ELSE /\ call' = [call EXCEPT ![c] =
               [pc |-> IF GivesUp(c) THEN "refused" ELSE "read",
                attempts |-> @.attempts + 1, free |-> 0]]
          /\ UNCHANGED <<index, landed>>
  /\ UNCHANGED revoked

Revoke(d) ==
  /\ index[d] # 0 /\ d \notin revoked
  /\ revoked' = revoked \cup {d}
  /\ UNCHANGED <<index, call, landed>>

Next ==
  \/ \E c \in Calls : Register(c) \/ NextFreeIndex(c) \/ Insert(c)
  \/ \E d \in Devices : Revoke(d)

Spec == Init /\ [][Next]_vars

-----------------------------------------------------------------------------
\* A new device is refused for a duplicate key only after MaxAttempts other
\* registrations landed while it tried; or its own row did, by another call.
RefusedOnlyByTraffic ==
  \A c \in Calls :
    call[c].pc = "refused" => landed[c] >= MaxAttempts \/ index[DeviceOf[c]] # 0
=============================================================================
