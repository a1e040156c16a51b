-------------------------------- MODULE Team --------------------------------
(***************************************************************************)
(* The members of a business and their invitations, one round trip to the  *)
(* database per action.  Every guard is a read followed by a plain save,   *)
(* so the guards hold only as far as requests do not overlap.  Roles are   *)
(* reduced to owner and admin; custom roles never touch roleKey.           *)
(***************************************************************************)
EXTENDS Naturals, FiniteSets

CONSTANTS
  People,       \* those who are, or are invited to be, members
  Founders,     \* the owners the business starts with, one at least
  Invitations,  \* invitation documents, created in this order: 1..n
  Limit,        \* seats of the plan (canInvite), enough for the founders
  Slots,        \* requests that overlap
  MaxRequests   \* bound: requests served

\* What is assumed of the constants.
TeamShape ==
  /\ IsFiniteSet(People) /\ Founders # {} /\ Founders \subseteq People
  /\ IsFiniteSet(Invitations) /\ 1 \in Invitations /\ Invitations \subseteq Nat
  /\ Limit \in Nat /\ Cardinality(Founders) <= Limit /\ MaxRequests \in Nat

VARIABLES
  role, standing,     \* BusinessMember.roleKey and .status, "none" without a row
  invited,            \* BusinessInvitation documents
  request, served,
  raced, crowded      \* ghosts: requests overlapped where a guard does not cover it

vars == <<role, standing, invited, request, served, raced, crowded>>

Roles == {"owner", "admin"}
Person == CHOOSE p \in People : TRUE
NoInvitation == [who |-> Person, role |-> "admin", state |-> "none"]
Idle == [pc |-> "idle", op |-> "none", who |-> Person, role |-> "admin", standing |-> "none",
         inv |-> 1, counted |-> {}, seats |-> 0]

Init ==
  /\ role = [p \in People |-> IF p \in Founders THEN "owner" ELSE "admin"]
  /\ standing = [p \in People |-> IF p \in Founders THEN "active" ELSE "none"]
  /\ invited = [i \in Invitations |-> NoInvitation]
  /\ request = [s \in Slots |-> Idle] /\ served = 0
  /\ raced = FALSE /\ crowded = FALSE

Standings == {"none", "active", "archived", "removed"}
Invites == [who : People, role : Roles,
            state : {"none", "pending", "accepted", "cancelled", "expired"}]
Asks == [pc : {"idle", "count", "save", "seats", "issue", "cancel", "expire", "read", "join",
               "settle"},
         op : Roles \cup {"none", "archive", "restore", "remove"}, who : People, role : Roles,
         standing : Standings, inv : Invitations,
         counted : SUBSET {"members", "invitations"}, seats : Nat]

TypeOK ==
  /\ role \in [People -> Roles] /\ standing \in [People -> Standings]
  /\ invited \in [Invitations -> Invites] /\ request \in [Slots -> Asks]
  /\ served \in 0..MaxRequests /\ raced \in BOOLEAN /\ crowded \in BOOLEAN

IsActive(p) == standing[p] = "active"
Owners == {p \in People : role[p] = "owner" /\ IsActive(p)}
Promised == {invited[i].who : i \in {i \in Invitations : invited[i].state = "pending"}}
Seated == {p \in People : IsActive(p)} \cup Promised

At(s, pc) == request[s].pc = pc
Go(s, t) == request' = [request EXCEPT ![s] = t]
Start(s, t) == At(s, "idle") /\ served < MaxRequests /\ served' = served + 1 /\ Go(s, t)
Others(s, pc) == {z \in Slots \ {s} : At(z, pc)}
ghosts == <<raced, crowded>>

-----------------------------------------------------------------------------
\* updateMemberRole, updateMemberStatus and removeMember: the member is read, the owners
\* are counted if the change ends the ownership read, and the member is saved.
Ending == {"admin", "archive", "remove"}
EndsOwnership(t) == t.op \in Ending /\ t.role = "owner" /\ t.standing = "active"

\* assertCanUnmakeOwner and assertCanGrantRole: only an owner makes or unmakes an owner.
MayChange(actor, p, op) ==
  /\ op \in Ending /\ role[p] = "owner" => role[actor] = "owner"
  /\ op = "owner" => role[actor] = "owner"
FindMember(s, actor, p, op) ==
  /\ IsActive(actor) /\ standing[p] \notin {"none", "removed"} /\ MayChange(actor, p, op)
  /\ LET t == [Idle EXCEPT !.op = op, !.who = p, !.role = role[p], !.standing = standing[p]]
     IN Start(s, [t EXCEPT !.pc = IF EndsOwnership(t) THEN "count" ELSE "save"])
  /\ UNCHANGED <<role, standing, invited, ghosts>>

\* assertNotLastOwner.
IsNoOwner(n) == n < 1
IsLastOwner(n) == n <= 1
CountOwners(s) ==
  /\ At(s, "count")
  /\ Go(s, IF IsLastOwner(Cardinality(Owners)) THEN Idle ELSE [request[s] EXCEPT !.pc = "save"])
  /\ UNCHANGED <<role, standing, invited, served, ghosts>>

\* A save writes the one field the handler set, if it differs from the copy that was read.
RoleAfter(t, r) == IF t.op \in Roles /\ t.op # t.role THEN t.op ELSE r
StandingAfter(t, c) ==
  CASE t.op = "archive" /\ t.standing # "archived" -> "archived"
    [] t.op = "restore" /\ t.standing # "active" -> "active"
    [] t.op = "remove" -> "removed"
    [] OTHER -> c
Unmade(s, p) ==
  /\ p \in Owners /\ p \notin Owners'
  /\ ~EndsOwnership(request[s]) \/ \E z \in Others(s, "save") : EndsOwnership(request[z])
SaveMember(s) ==
  /\ At(s, "save")
  /\ LET t == request[s] IN
     /\ role' = [role EXCEPT ![t.who] = RoleAfter(t, @)]
     /\ standing' = [standing EXCEPT ![t.who] = StandingAfter(t, @)]
     /\ raced' = (raced \/ Unmade(s, t.who))
     /\ crowded' = (crowded \/ t.op = "restore")
  /\ Go(s, Idle)
  /\ UNCHANGED <<invited, served>>

-----------------------------------------------------------------------------
\* inviteMember: nobody active, no pending invitation, a free seat, then the invitation.
Ask(s, actor, p, r) ==
  /\ IsActive(actor) /\ (r = "owner" => role[actor] = "owner")
  /\ ~IsActive(p) /\ p \notin Promised
  /\ Start(s, [Idle EXCEPT !.pc = "seats", !.who = p, !.role = r])
  /\ UNCHANGED <<role, standing, invited, ghosts>>

\* getCurrentMemberCount runs its two counts side by side.
Room(n) == n < Limit
Count(s, what) ==
  /\ At(s, "seats") /\ what \notin request[s].counted
  /\ LET t == [request[s] EXCEPT !.counted = @ \cup {what},
                 !.seats = @ + IF what = "members" THEN Cardinality({p \in People : IsActive(p)})
                               ELSE Cardinality({i \in Invitations : invited[i].state = "pending"})]
     IN Go(s, CASE Cardinality(t.counted) = 1 -> t
                [] Cardinality(t.counted) = 2 /\ Room(t.seats) -> [t EXCEPT !.pc = "issue"]
                [] OTHER -> Idle)
  /\ UNCHANGED <<role, standing, invited, served, ghosts>>

\* Somebody takes a seat while another request has counted, or is counting, the seats.
Counting(s) == Others(s, "seats") \cup Others(s, "issue") # {}
Issue(s) ==
  /\ At(s, "issue")
  /\ \E i \in Invitations :
       /\ invited[i].state = "none" /\ \A k \in Invitations : invited[k].state = "none" => i <= k
       /\ invited' = [invited EXCEPT ![i] =
                        [who |-> request[s].who, role |-> request[s].role, state |-> "pending"]]
  /\ crowded' = (crowded \/ Counting(s))
  /\ Go(s, Idle)
  /\ UNCHANGED <<role, standing, served, raced>>

-----------------------------------------------------------------------------
\* cancelInvitation and acceptInvitation read a pending invitation and save it later,
\* whatever became of it.
FindInvitation(s, i, pc) ==
  /\ invited[i].state = "pending"
  /\ Start(s, [Idle EXCEPT !.pc = pc, !.inv = i, !.who = invited[i].who])
  /\ UNCHANGED <<role, standing, invited, ghosts>>
SaveInvitation(s, pc, state) ==
  /\ At(s, pc)
  /\ invited' = [invited EXCEPT ![request[s].inv].state = state]
  /\ Go(s, Idle)
  /\ UNCHANGED <<role, standing, served, ghosts>>
Cancel(s) == SaveInvitation(s, "cancel", "cancelled")
Expire(s) == SaveInvitation(s, "expire", "expired")
Settle(s) == SaveInvitation(s, "settle", "accepted")

ReadMember(s) ==
  /\ At(s, "read")
  /\ LET p == request[s].who IN
     Go(s, [request[s] EXCEPT !.pc = IF IsActive(p) THEN "settle" ELSE "join",
                              !.role = role[p], !.standing = standing[p]])
  /\ UNCHANGED <<role, standing, invited, served, ghosts>>

\* A new row is refused by the unique index if somebody joined the person in between.
Join(s) ==
  /\ At(s, "join")
  /\ LET t == request[s]  offered == invited[t.inv].role IN
     IF t.standing = "none" /\ standing[t.who] # "none"
     THEN Go(s, Idle) /\ UNCHANGED <<role, standing, ghosts>>
     ELSE /\ role' = [role EXCEPT ![t.who] =
                        IF t.standing = "none" \/ offered # t.role THEN offered ELSE @]
          /\ standing' = [standing EXCEPT ![t.who] = "active"]
          /\ raced' = (raced \/ Unmade(s, t.who))
          /\ crowded' = (crowded \/ Counting(s) \/ invited[t.inv].state # "pending")
          /\ Go(s, [t EXCEPT !.pc = "settle"])
  /\ UNCHANGED <<invited, served>>

Next ==
  \E s \in Slots :
    \/ \E a, p \in People, op \in Roles \cup {"archive", "restore", "remove"} : FindMember(s, a, p, op)
    \/ CountOwners(s) \/ SaveMember(s)
    \/ \E a, p \in People, r \in Roles : Ask(s, a, p, r)
    \/ \E what \in {"members", "invitations"} : Count(s, what)
    \/ Issue(s)
    \/ \E i \in Invitations, pc \in {"cancel", "expire", "read"} : FindInvitation(s, i, pc)
    \/ Cancel(s) \/ Expire(s) \/ ReadMember(s) \/ Join(s) \/ Settle(s)

Spec == Init /\ [][Next]_vars

-----------------------------------------------------------------------------
\* A business keeps an active owner (assertNotLastOwner), unless a change that ends an
\* ownership overlapped another, or was decided on a copy that had not the ownership yet;
\* and no more people hold or are promised seats than the plan has (canInvite), unless a
\* seat was taken while another request counted, by a restored member, or with an
\* invitation that was no longer pending.
TeamGoverned ==
  /\ Owners # {} \/ raced
  /\ Cardinality(Seated) <= Limit \/ crowded
=============================================================================
