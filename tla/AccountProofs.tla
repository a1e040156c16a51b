---------------------------- MODULE AccountProofs ----------------------------
(***************************************************************************)
(* What is proved of a business's account: its team, the second factor and *)
(* the sessions of its people, the mandate it is debited by, its plan,     *)
(* what it is rewarded with and what it is told, for any number of people, *)
(* devices and overlapping requests.                                       *)
(***************************************************************************)
EXTENDS Protocols, FiniteSetTheorems, TLAPS

Active == {p \in People : Members!IsActive(p)}
Pending == {i \in Invitations : invited[i].state = "pending"}

\* What a request may rely on by the time it saves.
Sound(t) ==
  /\ t.pc \notin {"count", "save"} => t.op = "none"
  /\ t.pc \in {"read", "join", "settle", "cancel", "expire"} => invited[t.inv].state # "none"
  /\ t.pc \in {"read", "join"} => invited[t.inv].who = t.who
  /\ t.pc = "issue" => t.counted = {"members", "invitations"} /\ t.seats < Seats
RequestsSound == \A s \in Requests : Sound(asked[s])

\* Where no two changes met, one owner is left when the change that ends an ownership is saved.
EndsOne(t) == t.pc = "save" /\ Members!EndsOwnership(t)
OwnerLeft ==
  \/ raced
  \/ Members!Owners # {} /\ \A s \in Requests : EndsOne(asked[s]) => Cardinality(Members!Owners) >= 2

\* Where no seat was taken under a count, the count covers the seats taken.
Known(t) == (IF "members" \in t.counted THEN Cardinality(Active) ELSE 0)
          + (IF "invitations" \in t.counted THEN Cardinality(Pending) ELSE 0)
Covered(t) == t.pc \in {"seats", "issue"} => Known(t) <= t.seats
SeatsLeft ==
  crowded \/ (Cardinality(Members!Seated) <= Seats /\ \A s \in Requests : Covered(asked[s]))

TeamInv == Members!TypeOK /\ RequestsSound /\ OwnerLeft /\ SeatsLeft

\* Sets are counted in the module as they are here.
LEMMA TeamCounted == \A S : Members!Cardinality(S) = Cardinality(S)
BY DEF Members!Cardinality, Cardinality

LEMMA TeamSets == ASSUME Members!TeamShape PROVE IsFiniteSet(People) /\ IsFiniteSet(Invitations)
BY Zenon DEF Members!TeamShape, Members!IsFiniteSet, IsFiniteSet

\* The people promised a seat are no more than the invitations that promise one.
LEMMA SeatsBound ==
  ASSUME NEW A, IsFiniteSet(A), NEW P, IsFiniteSet(P), NEW f
  PROVE  LET S == A \cup {f[i].who : i \in P} IN
         /\ IsFiniteSet(S) /\ Cardinality(S) \in Nat
         /\ Cardinality(S) <= Cardinality(A) + Cardinality(P)
<1> DEFINE Q == {f[i].who : i \in P}
           g == [i \in P |-> f[i].who]
<1>1. g \in Surjection(P, Q)
  BY DEF Surjection
<1>2. IsFiniteSet(Q) /\ Cardinality(Q) <= Cardinality(P)
  BY <1>1, FS_Surjection
<1> HIDE DEF Q
<1>3. /\ IsFiniteSet(A \cup Q)
      /\ Cardinality(A \cup Q) = Cardinality(A) + Cardinality(Q) - Cardinality(A \cap Q)
  BY <1>2, FS_Union
<1>4. IsFiniteSet(A \cap Q)
  <2>1. A \cap Q \in SUBSET A
    OBVIOUS
  <2> QED BY <2>1, FS_Subset
<1>5. /\ Cardinality(A) \in Nat /\ Cardinality(P) \in Nat /\ Cardinality(Q) \in Nat
      /\ Cardinality(A \cap Q) \in Nat /\ Cardinality(A \cup Q) \in Nat
  BY <1>2, <1>3, <1>4, FS_CardinalityType
<1>6. Cardinality(A \cup Q) <= Cardinality(A) + Cardinality(P)
  BY <1>2, <1>3, <1>5
<1> QED BY <1>3, <1>5, <1>6 DEF Q

\* The sets that are counted are finite.
LEMMA TeamCounts ==
  ASSUME Members!TeamShape
  PROVE  /\ IsFiniteSet(Active) /\ IsFiniteSet(Pending) /\ IsFiniteSet(Members!Seated)
         /\ IsFiniteSet(Members!Owners)
         /\ Cardinality(Active) \in Nat /\ Cardinality(Pending) \in Nat
         /\ Cardinality(Members!Owners) \in Nat /\ Cardinality(Members!Seated) \in Nat
         /\ Cardinality(Members!Seated) <= Cardinality(Active) + Cardinality(Pending)
<1>1. IsFiniteSet(Active) /\ IsFiniteSet(Pending) /\ IsFiniteSet(Members!Owners)
  <2>1. Active \in SUBSET People /\ Pending \in SUBSET Invitations
        /\ Members!Owners \in SUBSET People
    BY DEF Active, Pending, Members!Owners
  <2> QED BY <2>1, TeamSets, FS_Subset
<1>2. /\ Cardinality(Active) \in Nat /\ Cardinality(Pending) \in Nat
      /\ Cardinality(Members!Owners) \in Nat
  BY <1>1, FS_CardinalityType
<1>3. Members!Seated = Active \cup {invited[i].who : i \in Pending}
  BY DEF Members!Seated, Active, Members!Promised, Pending
<1> QED BY <1>1, <1>2, <1>3, SeatsBound

LEMMA IdleTyped ==
  ASSUME Members!TeamShape
  PROVE  Members!Idle \in Members!Asks
<1>1. Members!Person \in People /\ 1 \in Invitations
  BY DEF Members!TeamShape, Members!Person
<1>2. "admin" \in Members!Roles
  BY DEF Members!Roles
<1> QED BY <1>1, <1>2 DEF Members!Idle, Members!Asks, Members!Standings

LEMMA TeamInit == ASSUME Members!TeamShape, Members!Init PROVE TeamInv
<1>1. Members!Person \in People
  BY DEF Members!TeamShape, Members!Person
<1>2. Members!TypeOK
  <2>1. Members!NoInvitation \in Members!Invites
    BY <1>1 DEF Members!NoInvitation, Members!Invites, Members!Roles
  <2>2. role \in [People -> Members!Roles] /\ standing \in [People -> Members!Standings]
    BY DEF Members!Init, Members!Roles, Members!Standings
  <2>3. 0 \in 0..TeamRequests
    BY DEF Members!TeamShape
  <2> QED BY <2>1, <2>2, <2>3, IdleTyped, Zenon DEF Members!Init, Members!TypeOK
<1>3. Members!Owners = Founders /\ Members!Seated = Founders
  BY DEF Members!Init, Members!Owners, Members!Seated, Members!Promised, Members!IsActive,
         Members!NoInvitation, Members!TeamShape
<1>4. RequestsSound
  BY DEF Members!Init, RequestsSound, Sound, Members!Idle
<1>5. OwnerLeft
  BY <1>3, TeamCounted DEF Members!Init, OwnerLeft, EndsOne, Members!Idle, Members!TeamShape
<1>6. SeatsLeft
  BY <1>3, TeamCounted DEF Members!Init, SeatsLeft, Covered, Members!Idle, Members!TeamShape
<1> QED BY <1>2, <1>4, <1>5, <1>6 DEF TeamInv

\* A step of one request that saves nothing.
LEMMA NothingSaved ==
  ASSUME Members!TeamShape, TeamInv, Members!TypeOK', NEW s \in Requests, NEW r,
         asked' = [asked EXCEPT ![s] = r],
         UNCHANGED <<role, standing, invited, raced, crowded>>,
         Sound(r), Covered(r) \/ crowded,
         EndsOne(r) => Cardinality(Members!Owners) >= 2
  PROVE  TeamInv'
<1>1. /\ Members!Owners' = Members!Owners /\ Active' = Active /\ Pending' = Pending /\ Members!Seated' = Members!Seated
  BY DEF Members!Owners, Active, Pending, Members!Seated, Members!Promised, Members!IsActive
<1>2. RequestsSound'
  BY DEF TeamInv, Members!TypeOK, RequestsSound, Sound
<1>3. OwnerLeft'
  BY <1>1 DEF TeamInv, Members!TypeOK, OwnerLeft, EndsOne, Members!EndsOwnership
<1>4. SeatsLeft'
  BY <1>1 DEF TeamInv, Members!TypeOK, SeatsLeft, Covered, Known
<1> QED BY <1>2, <1>3, <1>4 DEF TeamInv

LEMMA IdleSound == Sound(Members!Idle) /\ Covered(Members!Idle) /\ ~EndsOne(Members!Idle)
BY DEF Sound, Covered, EndsOne, Members!Idle

LEMMA TeamFind ==
  ASSUME Members!TeamShape, TeamInv, NEW s \in Requests, NEW a \in People, NEW p \in People,
         NEW op \in Members!Roles \cup {"archive", "restore", "remove"}, Members!FindMember(s, a, p, op)
  PROVE  TeamInv'
<1> DEFINE t == [Members!Idle EXCEPT !.op = op, !.who = p, !.role = role[p], !.standing = standing[p]]
<1>1. PICK r : /\ r = [t EXCEPT !.pc = IF Members!EndsOwnership(t) THEN "count" ELSE "save"]
              /\ asked' = [asked EXCEPT ![s] = r]
  BY Zenon DEF Members!FindMember, Members!Start, Members!Go
<1>2. /\ UNCHANGED <<role, standing, invited, raced, crowded>>
      /\ heard < TeamRequests /\ heard' = heard + 1
  BY DEF Members!FindMember, Members!Start, Members!ghosts
<1>3. Members!TypeOK'
  <2>1. r \in Members!Asks
    BY <1>1, IdleTyped, Zenon DEF TeamInv, Members!TypeOK, Members!Asks
  <2>2. heard' \in 0..TeamRequests
    BY <1>2 DEF Members!TeamShape, TeamInv, Members!TypeOK
  <2> QED BY <1>1, <1>2, <2>1, <2>2 DEF TeamInv, Members!TypeOK
<1>4. Sound(r) /\ Covered(r) /\ ~EndsOne(r)
  BY <1>1, IdleTyped DEF Sound, Covered, EndsOne, Members!EndsOwnership
<1> QED BY <1>1, <1>2, <1>3, <1>4, NothingSaved, Zenon

LEMMA TeamCount ==
  ASSUME Members!TeamShape, TeamInv, NEW s \in Requests, Members!CountOwners(s) PROVE TeamInv'
<1>1. PICK r : /\ r = IF Members!IsLastOwner(Cardinality(Members!Owners)) THEN Members!Idle
                     ELSE [asked[s] EXCEPT !.pc = "save"]
              /\ asked' = [asked EXCEPT ![s] = r]
  BY TeamCounted, Zenon DEF Members!CountOwners, Members!Go
<1>2. /\ UNCHANGED <<role, standing, invited, raced, crowded, heard>> /\ asked[s].pc = "count"
  BY DEF Members!CountOwners, Members!ghosts, Members!At
<1>3. Members!TypeOK'
  <2>1. r \in Members!Asks
    BY <1>1, IdleTyped DEF TeamInv, Members!TypeOK, Members!Asks
  <2> QED BY <1>1, <1>2, <2>1 DEF TeamInv, Members!TypeOK
<1>4. Sound(r) /\ Covered(r)
  BY <1>1, <1>2, IdleSound DEF Sound, Covered, TeamInv, Members!TypeOK
<1>5. Cardinality(Members!Owners) \in Nat
  BY TeamCounts DEF TeamInv, Members!TypeOK
<1>6. EndsOne(r) => Cardinality(Members!Owners) >= 2
  BY <1>1, <1>5, IdleSound DEF Members!IsLastOwner
<1> QED BY <1>1, <1>2, <1>3, <1>4, <1>6, NothingSaved, Zenon

LEMMA TeamAsk ==
  ASSUME Members!TeamShape, TeamInv, NEW s \in Requests, NEW a \in People, NEW p \in People,
         NEW k \in Members!Roles, Members!Ask(s, a, p, k)
  PROVE  TeamInv'
<1>1. PICK r : /\ r = [Members!Idle EXCEPT !.pc = "seats", !.who = p, !.role = k]
              /\ asked' = [asked EXCEPT ![s] = r]
  BY Zenon DEF Members!Ask, Members!Start, Members!Go
<1>2. /\ UNCHANGED <<role, standing, invited, raced, crowded>>
      /\ heard < TeamRequests /\ heard' = heard + 1
  BY DEF Members!Ask, Members!Start, Members!ghosts
<1>3. Members!TypeOK'
  <2>1. r \in Members!Asks
    BY <1>1, IdleTyped, Zenon DEF Members!Asks
  <2>2. heard' \in 0..TeamRequests
    BY <1>2 DEF Members!TeamShape, TeamInv, Members!TypeOK
  <2> QED BY <1>1, <1>2, <2>1, <2>2 DEF TeamInv, Members!TypeOK
<1>4. Sound(r) /\ Covered(r) /\ ~EndsOne(r)
  BY <1>1 DEF Sound, Covered, Known, EndsOne, Members!Idle
<1> QED BY <1>1, <1>2, <1>3, <1>4, NothingSaved, Zenon

LEMMA TeamPending ==
  ASSUME Members!TeamShape, TeamInv, NEW s \in Requests, NEW i \in Invitations,
         NEW pc \in {"cancel", "expire", "read"}, Members!FindInvitation(s, i, pc)
  PROVE  TeamInv'
<1>1. PICK r : /\ r = [Members!Idle EXCEPT !.pc = pc, !.inv = i, !.who = invited[i].who]
              /\ asked' = [asked EXCEPT ![s] = r]
  BY Zenon DEF Members!FindInvitation, Members!Start, Members!Go
<1>2. /\ UNCHANGED <<role, standing, invited, raced, crowded>> /\ invited[i].state = "pending"
      /\ heard < TeamRequests /\ heard' = heard + 1
  BY DEF Members!FindInvitation, Members!Start, Members!ghosts
<1>3. Members!TypeOK'
  <2>1. r \in Members!Asks
    BY <1>1, IdleTyped, Zenon DEF Members!Asks, TeamInv, Members!TypeOK, Members!Invites
  <2>2. heard' \in 0..TeamRequests
    BY <1>2 DEF Members!TeamShape, TeamInv, Members!TypeOK
  <2> QED BY <1>1, <1>2, <2>1, <2>2 DEF TeamInv, Members!TypeOK
<1>4. Sound(r) /\ Covered(r) /\ ~EndsOne(r)
  BY <1>1, <1>2 DEF Sound, Covered, Known, EndsOne, Members!Idle
<1> QED BY <1>1, <1>2, <1>3, <1>4, NothingSaved, Zenon

LEMMA TeamRead ==
  ASSUME Members!TeamShape, TeamInv, NEW s \in Requests, Members!ReadMember(s) PROVE TeamInv'
<1>1. PICK r : /\ \E pc \in {"settle", "join"} :
                   r = [asked[s] EXCEPT !.pc = pc, !.role = role[asked[s].who],
                                          !.standing = standing[asked[s].who]]
              /\ asked' = [asked EXCEPT ![s] = r]
  BY Zenon DEF Members!ReadMember, Members!Go
<1>2. UNCHANGED <<role, standing, invited, raced, crowded, heard>> /\ asked[s].pc = "read"
  BY DEF Members!ReadMember, Members!ghosts, Members!At
<1>3. r \in Members!Asks
  BY <1>1, Zenon DEF Members!Asks, TeamInv, Members!TypeOK
<1>4. Members!TypeOK'
  BY <1>1, <1>2, <1>3 DEF TeamInv, Members!TypeOK
<1>5. Sound(asked[s]) /\ asked[s] \in Members!Asks
  BY DEF TeamInv, RequestsSound, Members!TypeOK
<1>6. Sound(r) /\ Covered(r) /\ ~EndsOne(r)
  BY <1>1, <1>2, <1>5 DEF Sound, Covered, EndsOne, Members!Asks
<1> QED BY <1>1, <1>2, <1>4, <1>6, NothingSaved, Zenon

\* The two counts of an invitation, in either order.
LEMMA TeamSeats ==
  ASSUME Members!TeamShape, TeamInv, NEW s \in Requests, NEW what \in {"members", "invitations"},
         Members!Count(s, what)
  PROVE  TeamInv'
<1>0. PICK n : n = IF what = "members" THEN Cardinality(Active) ELSE Cardinality(Pending)
  OBVIOUS
<1>1. PICK t : t = [asked[s] EXCEPT !.counted = @ \cup {what}, !.seats = @ + n]
  OBVIOUS
<1>2. /\ asked[s].pc = "seats" /\ what \notin asked[s].counted
      /\ UNCHANGED <<role, standing, invited, raced, crowded, heard>>
      /\ Members!Go(s, CASE Cardinality(t.counted) = 1 -> t
                 [] Cardinality(t.counted) = 2 /\ Members!Room(t.seats) -> [t EXCEPT !.pc = "issue"]
                 [] OTHER -> Members!Idle)
  BY <1>0, <1>1, TeamCounted, Zenon
     DEF Members!Count, Members!At, Members!ghosts, Active, Pending
<1>3. /\ asked[s] \in Members!Asks /\ Sound(asked[s])
      /\ Covered(asked[s]) \/ crowded
  BY DEF TeamInv, Members!TypeOK, RequestsSound, SeatsLeft
<1>4. /\ Cardinality(Active) \in Nat /\ Cardinality(Pending) \in Nat /\ n \in Nat
  BY <1>0, TeamCounts DEF TeamInv, Members!TypeOK
<1>5. /\ t \in Members!Asks /\ t.pc = "seats" /\ t.op = asked[s].op
      /\ t.counted = asked[s].counted \cup {what} /\ t.seats = asked[s].seats + n
  <2>1. asked[s].seats + n \in Nat
    BY <1>3, <1>4 DEF Members!Asks
  <2>2. asked[s].counted \cup {what} \in SUBSET {"members", "invitations"}
    BY <1>3 DEF Members!Asks
  <2>3. PICK z, d : /\ z = asked[s].seats + n /\ d = asked[s].counted \cup {what}
                   /\ t = [asked[s] EXCEPT !.counted = d, !.seats = z]
    BY <1>1, Zenon
  <2>4. z \in Nat /\ d \in SUBSET {"members", "invitations"}
    BY <2>1, <2>2, <2>3
  <2>5. /\ t \in Members!Asks /\ t.pc = "seats" /\ t.op = asked[s].op
        /\ t.counted = d /\ t.seats = z
    BY <2>3, <2>4, <1>2, <1>3, Zenon DEF Members!Asks
  <2> QED BY <2>3, <2>5
<1>6. Sound(t) /\ t.op = "none"
  BY <1>2, <1>3, <1>5 DEF Sound
<1>7. Covered(t) \/ crowded
  <2>1. Known(t) = Known(asked[s]) + n
    BY <1>0, <1>2, <1>4, <1>5 DEF Known
  <2>2. Known(asked[s]) \in Nat /\ asked[s].seats \in Nat
    BY <1>3, <1>4 DEF Known, Members!Asks
  <2> QED BY <2>1, <2>2, <1>2, <1>3, <1>4, <1>5 DEF Covered
<1>8. Cardinality(t.counted) = 2 => t.counted = {"members", "invitations"}
  <2>1. t.counted \in {{}, {"members"}, {"invitations"}, {"members", "invitations"}}
    BY <1>5 DEF Members!Asks
  <2>2. Cardinality({}) = 0 /\ Cardinality({"members"}) = 1 /\ Cardinality({"invitations"}) = 1
    BY FS_EmptySet, FS_Singleton, Zenon
  <2> QED BY <2>1, <2>2
<1>9. PICK r : /\ r \in {t, Members!Idle} \/ (r = [t EXCEPT !.pc = "issue"] /\ Members!Room(t.seats)
                                      /\ t.counted = {"members", "invitations"})
              /\ asked' = [asked EXCEPT ![s] = r]
  <2>1. PICK full \in BOOLEAN : full = (Cardinality(t.counted) = 2 /\ Members!Room(t.seats))
    BY Zenon
  <2>2. PICK half \in BOOLEAN : half = (Cardinality(t.counted) = 1)
    BY Zenon
  <2>3. PICK r : /\ r = CASE half -> t [] full -> [t EXCEPT !.pc = "issue"] [] OTHER -> Members!Idle
                /\ asked' = [asked EXCEPT ![s] = r]
    BY <2>1, <2>2, <1>2, Zenon DEF Members!Go
  <2>4. ~half \/ ~full
    <3>1. ~(Cardinality(t.counted) = 1 /\ Cardinality(t.counted) = 2)
      BY SMT
    <3> QED BY <3>1, <2>1, <2>2, Zenon
  <2>5. r = t \/ r = Members!Idle \/ (r = [t EXCEPT !.pc = "issue"] /\ full)
    BY <2>3, <2>4
  <2> QED BY <2>1, <2>3, <2>5, <1>8, Zenon
<1>10. r \in Members!Asks /\ Sound(r) /\ (Covered(r) \/ crowded) /\ ~EndsOne(r)
  <2>1. CASE r = t
    BY <2>1, <1>5, <1>6, <1>7 DEF EndsOne
  <2>2. CASE r = Members!Idle
    BY <2>2, IdleTyped, IdleSound
  <2>3. CASE r = [t EXCEPT !.pc = "issue"] /\ Members!Room(t.seats) /\ t.counted = {"members", "invitations"}
    BY <2>3, <1>5, <1>6, <1>7 DEF Members!Asks, Sound, Covered, Known, EndsOne, Members!Room
  <2> QED BY <2>1, <2>2, <2>3, <1>9
<1>11. Members!TypeOK'
  BY <1>2, <1>9, <1>10 DEF TeamInv, Members!TypeOK
<1> QED BY <1>2, <1>9, <1>10, <1>11, NothingSaved, Zenon

-----------------------------------------------------------------------------
\* Fewer members and fewer invitations take fewer seats.
LEMMA FewerSeats ==
  ASSUME Members!TeamShape, Members!TypeOK, Members!TypeOK', Active' \subseteq Active,
         Pending' \subseteq Pending,
         Members!Seated' \subseteq Members!Seated
  PROVE  /\ Cardinality(Active') <= Cardinality(Active)
         /\ Cardinality(Pending') <= Cardinality(Pending)
         /\ Cardinality(Members!Seated') <= Cardinality(Members!Seated)
         /\ \A t \in Members!Asks : Known(t)' \in Nat /\ Known(t) \in Nat /\ Known(t)' <= Known(t)
<1>1. /\ IsFiniteSet(Active) /\ IsFiniteSet(Pending) /\ IsFiniteSet(Members!Seated)
      /\ Cardinality(Active) \in Nat /\ Cardinality(Pending) \in Nat
  BY TeamCounts DEF Members!TypeOK
<1>2. /\ Cardinality(Active') <= Cardinality(Active)
      /\ Cardinality(Pending') <= Cardinality(Pending)
      /\ Cardinality(Members!Seated') <= Cardinality(Members!Seated)
      /\ IsFiniteSet(Active') /\ IsFiniteSet(Pending')
  BY <1>1, FS_Subset
<1>3. Cardinality(Active') \in Nat /\ Cardinality(Pending') \in Nat
  BY <1>2, FS_CardinalityType
<1>4. \A t \in Members!Asks : Known(t)' \in Nat /\ Known(t) \in Nat /\ Known(t)' <= Known(t)
  BY <1>1, <1>2, <1>3 DEF Known
<1> QED BY <1>2, <1>4

\* A save that adds no seat keeps the seats covered.
LEMMA SeatsKept ==
  ASSUME Members!TeamShape, TeamInv, Members!TypeOK', NEW s \in Requests, NEW r \in Members!Asks,
         asked' = [asked EXCEPT ![s] = r], r.pc \notin {"seats", "issue"},
         Active' \subseteq Active, Pending' \subseteq Pending,
         Members!Seated' \subseteq Members!Seated,
         crowded => crowded'
  PROVE  SeatsLeft'
<1> SUFFICES ASSUME ~crowded, ~crowded'
             PROVE Cardinality(Members!Seated') <= Seats /\ \A z \in Requests : Covered(asked[z])'
  BY DEF SeatsLeft
<1>1. Cardinality(Members!Seated) <= Seats /\ \A z \in Requests : Covered(asked[z])
  BY DEF TeamInv, SeatsLeft
<1>2. Cardinality(Members!Seated') \in Nat /\ Cardinality(Members!Seated) \in Nat /\ Seats \in Nat
  <2>1. IsFiniteSet(Members!Seated) /\ Cardinality(Members!Seated) \in Nat
    BY TeamCounts DEF TeamInv, Members!TypeOK
  <2>2. IsFiniteSet(Members!Seated')
    BY <2>1, FS_Subset
  <2> QED BY <2>1, <2>2, FS_CardinalityType DEF Members!TeamShape
<1>3. Cardinality(Members!Seated') <= Seats
  BY <1>1, <1>2, FewerSeats DEF TeamInv
<1>4. ASSUME NEW z \in Requests PROVE Covered(asked[z])'
  <2>1. CASE z = s
    BY <2>1 DEF Covered, TeamInv, Members!TypeOK
  <2>2. CASE z # s
    <3>1. PICK t \in Members!Asks : t = asked[z] /\ t = asked'[z]
      BY <2>2 DEF TeamInv, Members!TypeOK
    <3>2. Covered(t)
      BY <3>1, <1>1, Zenon
    <3>3. Known(t)' \in Nat /\ Known(t) \in Nat /\ Known(t)' <= Known(t) /\ t.seats \in Nat
      BY FewerSeats DEF TeamInv, Members!Asks
    <3>4. t.pc \in {"seats", "issue"} => Known(t)' <= t.seats
      BY <3>2, <3>3 DEF Covered
    <3>5. Covered(t)'
      BY <3>4 DEF Covered
    <3>6. asked[z]' = t
      BY <3>1
    <3> QED BY <3>4, <3>6 DEF Covered, Known
  <2> QED BY <2>1, <2>2
<1> QED BY <1>3, <1>4

\* A save unmakes the last owner only where two changes met.
LEMMA OwnerKept ==
  ASSUME Members!TeamShape, TeamInv, Members!TypeOK', NEW s \in Requests, NEW r \in Members!Asks,
         NEW p \in People,
         asked' = [asked EXCEPT ![s] = r], r.pc # "save",
         \A q \in People \ {p} : role'[q] = role[q] /\ standing'[q] = standing[q],
         raced' = (raced \/ Members!Unmade(s, p)),
         Members!EndsOwnership(asked[s]) => asked[s].pc = "save"
  PROVE  OwnerLeft'
<1> SUFFICES ASSUME ~raced, ~Members!Unmade(s, p), raced' = FALSE
             PROVE  Members!Owners' # {} /\ \A z \in Requests : EndsOne(asked[z])' => Cardinality(Members!Owners') >= 2
  BY Zenon DEF OwnerLeft, TeamInv, Members!TypeOK
<1>1. Members!Owners # {} /\ \A z \in Requests : EndsOne(asked[z]) => Cardinality(Members!Owners) >= 2
  BY DEF TeamInv, OwnerLeft
<1>2. /\ IsFiniteSet(Members!Owners) /\ Cardinality(Members!Owners) \in Nat
      /\ IsFiniteSet(Members!Owners') /\ Cardinality(Members!Owners') \in Nat
  <2>1. Members!Owners \in SUBSET People /\ Members!Owners' \in SUBSET People
    BY DEF Members!Owners
  <2>2. IsFiniteSet(Members!Owners) /\ IsFiniteSet(Members!Owners')
    BY <2>1, TeamSets, FS_Subset
  <2> QED BY <2>2, FS_CardinalityType
<1>3. Members!Owners \ {p} \subseteq Members!Owners'
  BY DEF Members!Owners, Members!IsActive
<1>4. \A z \in Requests : EndsOne(asked[z])' => z # s /\ EndsOne(asked[z])
  BY DEF EndsOne, TeamInv, Members!TypeOK, Members!EndsOwnership
<1>5. CASE p \notin Members!Owners \/ p \in Members!Owners'
  <2>1. Members!Owners \subseteq Members!Owners'
    BY <1>3, <1>5
  <2>2. Cardinality(Members!Owners) <= Cardinality(Members!Owners')
    BY <2>1, <1>2, FS_Subset
  <2> QED BY <2>1, <2>2, <1>1, <1>2, <1>4
<1>6. CASE p \in Members!Owners /\ p \notin Members!Owners'
  <2>1. Members!EndsOwnership(asked[s]) /\ \A z \in Requests \ {s} : ~EndsOne(asked[z])
    BY <1>6 DEF Members!Unmade, Members!Others, Members!At, EndsOne
  <2>2. EndsOne(asked[s])
    BY <2>1 DEF EndsOne
  <2>3. Cardinality(Members!Owners) >= 2
    BY <2>2, <1>1
  <2>4. Members!Owners' # {}
    <3>1. SUFFICES ASSUME Members!Owners' = {} PROVE FALSE
      OBVIOUS
    <3>2. Members!Owners = {p}
      BY <3>1, <1>3, <1>6
    <3>3. Cardinality(Members!Owners) = 1
      BY <3>2, FS_Singleton
    <3> QED BY <3>3, <2>3
  <2> QED BY <2>1, <2>4, <1>4
<1> QED BY <1>5, <1>6

LEMMA TeamSave ==
  ASSUME Members!TeamShape, TeamInv, NEW s \in Requests, Members!SaveMember(s) PROVE TeamInv'
<1>0. PICK t \in Members!Asks : t = asked[s]
  BY DEF TeamInv, Members!TypeOK
<1>1. /\ t.pc = "save" /\ asked' = [asked EXCEPT ![s] = Members!Idle]
      /\ role' = [role EXCEPT ![t.who] = Members!RoleAfter(t, @)]
      /\ standing' = [standing EXCEPT ![t.who] = Members!StandingAfter(t, @)]
      /\ raced' = (raced \/ Members!Unmade(s, t.who))
      /\ crowded' = (crowded \/ t.op = "restore")
      /\ UNCHANGED <<invited, heard>>
  BY <1>0 DEF Members!SaveMember, Members!At, Members!Go
<1>2. t.who \in People /\ t.role \in Members!Roles
      /\ t.op \in Members!Roles \cup {"none", "archive", "restore", "remove"}
  BY DEF Members!Asks
<1>3. /\ Members!RoleAfter(t, role[t.who]) \in Members!Roles
      /\ Members!StandingAfter(t, standing[t.who]) \in Members!Standings
      /\ Members!StandingAfter(t, standing[t.who]) = "active" =>
           t.op = "restore" \/ standing[t.who] = "active"
  BY <1>2 DEF Members!RoleAfter, Members!StandingAfter, Members!Standings, TeamInv,
         Members!TypeOK
<1>4. PICK k \in Members!Roles, c \in Members!Standings :
        /\ k = Members!RoleAfter(t, role[t.who]) /\ c = Members!StandingAfter(t, standing[t.who])
        /\ role' = [role EXCEPT ![t.who] = k] /\ standing' = [standing EXCEPT ![t.who] = c]
        /\ c = "active" => t.op = "restore" \/ standing[t.who] = "active"
  BY <1>1, <1>3, Zenon
<1>5. raced' \in BOOLEAN /\ crowded' \in BOOLEAN
  BY <1>1 DEF Members!Unmade, TeamInv, Members!TypeOK
<1>6. Members!TypeOK'
  <2>1. role' \in [People -> Members!Roles] /\ standing' \in [People -> Members!Standings]
    BY <1>2, <1>4 DEF TeamInv, Members!TypeOK
  <2> QED BY <1>1, <1>5, <2>1, IdleTyped DEF TeamInv, Members!TypeOK
<1>7. RequestsSound'
  BY <1>1, IdleSound DEF TeamInv, Members!TypeOK, RequestsSound, Sound
<1>8. OwnerLeft'
  <2>1. \A q \in People \ {t.who} : role'[q] = role[q] /\ standing'[q] = standing[q]
    BY <1>4 DEF TeamInv, Members!TypeOK
  <2>2. Members!Idle \in Members!Asks /\ Members!Idle.pc # "save"
    BY IdleTyped DEF Members!Idle
  <2>3. Members!EndsOwnership(asked[s]) => asked[s].pc = "save"
    BY <1>0, <1>1
  <2> QED BY <2>1, <2>2, <2>3, <1>1, <1>2, <1>6, OwnerKept, Zenon
<1>9. SeatsLeft'
  <2>1. CASE t.op = "restore"
    BY <2>1, <1>1, Zenon DEF SeatsLeft
  <2>2. CASE t.op # "restore"
    <3>1. Active' \subseteq Active /\ Pending' = Pending /\ Members!Promised' = Members!Promised
      BY <2>2, <1>1, <1>2, <1>4
         DEF Active, Members!IsActive, Pending, Members!Promised, TeamInv, Members!TypeOK
    <3>2. Members!Seated' \subseteq Members!Seated
      BY <3>1 DEF Members!Seated, Active
    <3>3. Members!Idle \in Members!Asks /\ Members!Idle.pc \notin {"seats", "issue"}
      BY IdleTyped DEF Members!Idle
    <3>4. crowded => crowded'
      BY <1>1, Zenon
    <3> QED BY <3>1, <3>2, <3>3, <3>4, <1>1, <1>6, SeatsKept, Zenon
  <2> QED BY <2>1, <2>2
<1> QED BY <1>6, <1>7, <1>8, <1>9 DEF TeamInv

LEMMA TeamJoin ==
  ASSUME Members!TeamShape, TeamInv, NEW s \in Requests, Members!Join(s) PROVE TeamInv'
<1>0. PICK t \in Members!Asks : t = asked[s]
  BY DEF TeamInv, Members!TypeOK
<1>1. /\ t.pc = "join" /\ Sound(t) /\ t.who \in People /\ t.inv \in Invitations
  BY <1>0 DEF Members!Join, Members!At, TeamInv, RequestsSound, Members!Asks
<1>2. /\ invited[t.inv].who = t.who /\ invited[t.inv].state # "none" /\ t.op = "none"
      /\ invited[t.inv].role \in Members!Roles
  BY <1>1 DEF Sound, TeamInv, Members!TypeOK, Members!Invites
<1>3. CASE t.standing = "none" /\ standing[t.who] # "none"
  <2>1. /\ asked' = [asked EXCEPT ![s] = Members!Idle]
        /\ UNCHANGED <<role, standing, invited, raced, crowded, heard>>
    BY <1>0, <1>3 DEF Members!Join, Members!Go, Members!ghosts
  <2>2. Members!TypeOK'
    BY <2>1, IdleTyped DEF TeamInv, Members!TypeOK
  <2> QED BY <2>1, <2>2, IdleSound, NothingSaved, Zenon
<1>4. CASE ~(t.standing = "none" /\ standing[t.who] # "none")
  <2>1. PICK k, r :
          /\ k \in Members!Roles
          /\ role' = [role EXCEPT ![t.who] = k]
          /\ standing' = [standing EXCEPT ![t.who] = "active"]
          /\ raced' = (raced \/ Members!Unmade(s, t.who))
          /\ crowded' = (crowded \/ Members!Counting(s) \/ invited[t.inv].state # "pending")
          /\ r = [t EXCEPT !.pc = "settle"]
          /\ asked' = [asked EXCEPT ![s] = r]
          /\ UNCHANGED <<invited, heard>>
    <3>1. /\ role' = [role EXCEPT ![t.who] =
                        IF t.standing = "none" \/ invited[t.inv].role # t.role
                        THEN invited[t.inv].role ELSE @]
          /\ standing' = [standing EXCEPT ![t.who] = "active"]
          /\ raced' = (raced \/ Members!Unmade(s, t.who))
          /\ crowded' = (crowded \/ Members!Counting(s) \/ invited[t.inv].state # "pending")
          /\ asked' = [asked EXCEPT ![s] = [t EXCEPT !.pc = "settle"]]
          /\ UNCHANGED <<invited, heard>>
      BY <1>0, <1>4 DEF Members!Join, Members!Go
    <3>2. role[t.who] \in Members!Roles
      BY <1>1 DEF TeamInv, Members!TypeOK
    <3> QED BY <3>1, <3>2, <1>2, Zenon
  <2>2. r \in Members!Asks /\ r.pc = "settle" /\ r.op = "none" /\ r.inv = t.inv
    BY <2>1, <1>2 DEF Members!Asks
  <2>3. Members!TypeOK'
    <3>1. raced' \in BOOLEAN /\ crowded' \in BOOLEAN
      BY <2>1 DEF Members!Unmade, Members!Counting, TeamInv, Members!TypeOK
    <3>2. role' \in [People -> Members!Roles] /\ standing' \in [People -> Members!Standings]
      BY <2>1, <1>1 DEF TeamInv, Members!TypeOK, Members!Standings
    <3> QED BY <2>1, <2>2, <3>1, <3>2 DEF TeamInv, Members!TypeOK
  <2>4. RequestsSound'
    <3>1. Sound(r)
      BY <2>2, <1>2 DEF Sound
    <3> QED BY <2>1, <3>1 DEF TeamInv, Members!TypeOK, RequestsSound, Sound
  <2>5. OwnerLeft'
    <3>1. \A q \in People \ {t.who} : role'[q] = role[q] /\ standing'[q] = standing[q]
      BY <2>1 DEF TeamInv, Members!TypeOK
    <3>2. Members!EndsOwnership(asked[s]) => asked[s].pc = "save"
      BY <1>0, <1>2 DEF Members!EndsOwnership, Members!Ending
    <3>3. r.pc # "save"
      BY <2>2
    <3> QED BY <3>1, <3>2, <3>3, <2>1, <2>2, <2>3, <1>1, OwnerKept, Zenon
  <2>6. SeatsLeft'
    <3> SUFFICES ASSUME ~crowded, ~Members!Counting(s), invited[t.inv].state = "pending", ~crowded'
                 PROVE Cardinality(Members!Seated') <= Seats /\ \A z \in Requests : Covered(asked[z])'
      BY <2>1, Zenon DEF SeatsLeft
    <3>1. Members!Promised' = Members!Promised /\ t.who \in Members!Promised
      BY <2>1, <1>1, <1>2 DEF Members!Promised
    <3>2. Members!Seated' = Members!Seated
      BY <2>1, <3>1, <1>1 DEF Members!Seated, Members!IsActive, TeamInv, Members!TypeOK
    <3>3. Cardinality(Members!Seated') <= Seats
      BY <3>2 DEF TeamInv, SeatsLeft
    <3>4. \A z \in Requests \ {s} : asked[z].pc \notin {"seats", "issue"}
      BY DEF Members!Counting, Members!Others, Members!At
    <3>5. \A z \in Requests : asked'[z].pc \notin {"seats", "issue"}
      BY <2>1, <2>2, <3>4 DEF TeamInv, Members!TypeOK
    <3> QED BY <3>3, <3>5 DEF Covered
  <2> QED BY <2>3, <2>4, <2>5, <2>6 DEF TeamInv
<1> QED BY <1>3, <1>4

\* One more invitation takes one more seat.
LEMMA TeamIssue ==
  ASSUME Members!TeamShape, TeamInv, NEW s \in Requests, Members!Issue(s) PROVE TeamInv'
<1>0. PICK t \in Members!Asks : t = asked[s]
  BY DEF TeamInv, Members!TypeOK
<1>1. PICK i \in Invitations :
        /\ invited[i].state = "none"
        /\ invited' = [invited EXCEPT ![i] = [who |-> t.who, role |-> t.role, state |-> "pending"]]
  BY <1>0, Zenon DEF Members!Issue
<1>2. /\ t.pc = "issue" /\ asked' = [asked EXCEPT ![s] = Members!Idle]
      /\ crowded' = (crowded \/ Members!Counting(s))
      /\ UNCHANGED <<role, standing, heard, raced>>
  BY <1>0 DEF Members!Issue, Members!At, Members!Go
<1>3. Sound(t) /\ t.who \in People /\ t.role \in Members!Roles /\ t.seats \in Nat
  BY <1>0 DEF TeamInv, RequestsSound, Members!Asks
<1>4. Members!TypeOK'
  <2>1. invited' \in [Invitations -> Members!Invites]
    BY <1>1, <1>3 DEF TeamInv, Members!TypeOK, Members!Invites
  <2>2. crowded' \in BOOLEAN
    BY <1>2 DEF Members!Counting, TeamInv, Members!TypeOK
  <2> QED BY <1>2, <2>1, <2>2, IdleTyped DEF TeamInv, Members!TypeOK
<1>5. RequestsSound'
  <2> SUFFICES ASSUME NEW z \in Requests PROVE Sound(asked[z])'
    BY DEF RequestsSound
  <2>1. CASE z = s
    BY <2>1, <1>2, IdleSound DEF Sound, Members!Idle, TeamInv, Members!TypeOK
  <2>2. CASE z # s
    <3>1. Sound(asked[z]) /\ asked'[z] = asked[z] /\ asked[z].inv \in Invitations
      BY <2>2, <1>2 DEF TeamInv, Members!TypeOK, RequestsSound, Members!Asks
    <3> QED BY <3>1, <1>1 DEF Sound, TeamInv, Members!TypeOK
  <2> QED BY <2>1, <2>2
<1>6. OwnerLeft'
  <2>1. Members!Owners' = Members!Owners
    BY <1>2 DEF Members!Owners, Members!IsActive
  <2> QED BY <1>2, <2>1
     DEF TeamInv, Members!TypeOK, OwnerLeft, EndsOne, Members!EndsOwnership, Members!Idle
<1>7. SeatsLeft'
  <2> SUFFICES ASSUME ~crowded, ~Members!Counting(s)
               PROVE Cardinality(Members!Seated') <= Seats /\ \A z \in Requests : Covered(asked[z])'
    BY <1>2, Zenon DEF SeatsLeft
  <2>1. \A z \in Requests : asked'[z].pc \notin {"seats", "issue"}
    <3>1. \A z \in Requests \ {s} : asked[z].pc \notin {"seats", "issue"}
      BY DEF Members!Counting, Members!Others, Members!At
    <3> QED BY <3>1, <1>2 DEF Members!Idle, TeamInv, Members!TypeOK
  <2>2. Active' = Active /\ Pending' = Pending \cup {i} /\ i \notin Pending
    BY <1>1, <1>2 DEF Active, Members!IsActive, Pending, TeamInv, Members!TypeOK
  <2>3. /\ IsFiniteSet(Pending) /\ Cardinality(Pending) \in Nat /\ Cardinality(Active) \in Nat
    BY TeamCounts DEF TeamInv, Members!TypeOK
  <2>4. Cardinality(Pending \cup {i}) = Cardinality(Pending) + 1
    BY <2>2, <2>3, FS_AddElement, Zenon
  <2>5. Cardinality(Pending') = Cardinality(Pending) + 1
    BY <2>2, <2>4
  <2>6. Cardinality(Members!Seated') <= Cardinality(Active') + Cardinality(Pending')
        /\ Cardinality(Members!Seated') \in Nat
    <3>1. IsFiniteSet(Active') /\ IsFiniteSet(Pending')
      BY <2>2, TeamCounts, FS_AddElement
    <3>2. Members!Seated' = Active' \cup {invited'[j].who : j \in Pending'}
      BY DEF Members!Seated, Active, Members!Promised, Pending
    <3>3. PICK A, P, f : A = Active' /\ P = Pending' /\ f = invited'
      OBVIOUS
    <3>4. IsFiniteSet(A) /\ IsFiniteSet(P)
      BY <3>1, <3>3
    <3>5. /\ Cardinality(A \cup {f[j].who : j \in P}) \in Nat
          /\ Cardinality(A \cup {f[j].who : j \in P}) <= Cardinality(A) + Cardinality(P)
      BY <3>4, SeatsBound
    <3> QED BY <3>2, <3>3, <3>5
  <2>7. Known(t) <= t.seats /\ t.seats < Seats /\ t.counted = {"members", "invitations"}
    BY <1>0, <1>2, <1>3 DEF TeamInv, SeatsLeft, Covered, Sound
  <2>8. Known(t) = Cardinality(Active) + Cardinality(Pending)
    BY <2>7 DEF Known
  <2>9. Cardinality(Members!Seated') <= Seats
    BY <2>2, <2>3, <2>5, <2>6, <2>7, <2>8, <1>3 DEF Members!TeamShape
  <2> QED BY <2>1, <2>9 DEF Covered
<1> QED BY <1>4, <1>5, <1>6, <1>7 DEF TeamInv

\* An invitation that is settled, cancelled or run out of promises no seat.
LEMMA TeamAnswer ==
  ASSUME Members!TeamShape, TeamInv, NEW s \in Requests,
         Members!Cancel(s) \/ Members!Expire(s) \/ Members!Settle(s)
  PROVE  TeamInv'
<1>0. PICK t \in Members!Asks : t = asked[s]
  BY DEF TeamInv, Members!TypeOK
<1>1. PICK k \in {"cancelled", "expired", "accepted"} :
        /\ t.pc \in {"cancel", "expire", "settle"} /\ asked' = [asked EXCEPT ![s] = Members!Idle]
        /\ invited' = [invited EXCEPT ![t.inv].state = k]
        /\ UNCHANGED <<role, standing, heard, raced, crowded>>
  BY <1>0 DEF Members!Cancel, Members!Expire, Members!Settle, Members!SaveInvitation,
         Members!At, Members!Go, Members!ghosts
<1>2. t.inv \in Invitations
  BY DEF Members!Asks
<1>3. Members!TypeOK'
  <2>1. invited' \in [Invitations -> Members!Invites]
    BY <1>1, <1>2 DEF TeamInv, Members!TypeOK, Members!Invites
  <2> QED BY <1>1, <2>1, IdleTyped DEF TeamInv, Members!TypeOK
<1>4. \A i \in Invitations :
        /\ invited'[i].who = invited[i].who
        /\ invited'[i].state = IF i = t.inv THEN k ELSE invited[i].state
  BY <1>1, <1>2 DEF TeamInv, Members!TypeOK, Members!Invites
<1>5. RequestsSound'
  <2> SUFFICES ASSUME NEW z \in Requests PROVE Sound(asked[z])'
    BY DEF RequestsSound
  <2>1. CASE z = s
    BY <2>1, <1>1, IdleSound DEF Sound, Members!Idle, TeamInv, Members!TypeOK
  <2>2. CASE z # s
    <3>1. Sound(asked[z]) /\ asked'[z] = asked[z] /\ asked[z].inv \in Invitations
      BY <2>2, <1>1 DEF TeamInv, Members!TypeOK, RequestsSound, Members!Asks
    <3> QED BY <3>1, <1>4 DEF Sound
  <2> QED BY <2>1, <2>2
<1>6. OwnerLeft'
  <2>1. Members!Owners' = Members!Owners
    BY <1>1 DEF Members!Owners, Members!IsActive
  <2> QED BY <1>1, <2>1
     DEF TeamInv, Members!TypeOK, OwnerLeft, EndsOne, Members!EndsOwnership, Members!Idle
<1>7. SeatsLeft'
  <2>1. Active' = Active
    BY <1>1 DEF Active, Members!IsActive
  <2>2. Pending' \subseteq Pending
    BY <1>4 DEF Pending
  <2>3. Members!Seated' \subseteq Members!Seated
    BY <1>4, <2>1, <2>2 DEF Members!Seated, Active, Members!Promised, Pending
  <2>4. Members!Idle \in Members!Asks /\ Members!Idle.pc \notin {"seats", "issue"}
    BY IdleTyped DEF Members!Idle
  <2>5. crowded => crowded'
    BY <1>1
  <2> QED BY <2>1, <2>2, <2>3, <2>4, <2>5, <1>1, <1>3, SeatsKept, Zenon
<1> QED BY <1>3, <1>5, <1>6, <1>7 DEF TeamInv

\* Every step of a request preserves the invariant.
LEMMA TeamStep == ASSUME Members!TeamShape, TeamInv, [Members!Next]_(Members!vars) PROVE TeamInv'
<1>1. CASE UNCHANGED Members!vars
  <2>1. /\ UNCHANGED <<role, standing, invited, asked, heard, raced, crowded>>
        /\ Members!Owners' = Members!Owners /\ Active' = Active /\ Pending' = Pending /\ Members!Seated' = Members!Seated
    BY <1>1 DEF Members!vars, Members!Owners, Members!IsActive, Active, Pending,
           Members!Seated, Members!Promised
  <2>2. Members!TypeOK' /\ RequestsSound'
    BY <2>1 DEF TeamInv, Members!TypeOK, RequestsSound, Sound
  <2>3. OwnerLeft'
    BY <2>1 DEF TeamInv, OwnerLeft, EndsOne, Members!EndsOwnership
  <2>4. SeatsLeft'
    BY <2>1 DEF TeamInv, SeatsLeft, Covered, Known
  <2> QED BY <2>2, <2>3, <2>4 DEF TeamInv
<1>2. ASSUME NEW s \in Requests, NEW a \in People, NEW p \in People,
             NEW op \in Members!Roles \cup {"archive", "restore", "remove"}, Members!FindMember(s, a, p, op)
      PROVE TeamInv'
  BY <1>2, TeamFind
<1>3. ASSUME NEW s \in Requests, Members!CountOwners(s) \/ Members!SaveMember(s) PROVE TeamInv'
  BY <1>3, TeamCount, TeamSave
<1>4. ASSUME NEW s \in Requests, NEW a \in People, NEW p \in People, NEW k \in Members!Roles,
             Members!Ask(s, a, p, k)
      PROVE TeamInv'
  BY <1>4, TeamAsk
<1>5. ASSUME NEW s \in Requests, NEW what \in {"members", "invitations"}, Members!Count(s, what)
      PROVE TeamInv'
  BY <1>5, TeamSeats
<1>6. ASSUME NEW s \in Requests, NEW i \in Invitations, NEW pc \in {"cancel", "expire", "read"},
             Members!FindInvitation(s, i, pc)
      PROVE TeamInv'
  BY <1>6, TeamPending
<1>7. ASSUME NEW s \in Requests, Members!Issue(s) \/ Members!ReadMember(s) \/ Members!Join(s) PROVE TeamInv'
  BY <1>7, TeamIssue, TeamRead, TeamJoin
<1>8. ASSUME NEW s \in Requests, Members!Cancel(s) \/ Members!Expire(s) \/ Members!Settle(s) PROVE TeamInv'
  BY <1>8, TeamAnswer
<1> QED BY <1>1, <1>2, <1>3, <1>4, <1>5, <1>6, <1>7, <1>8 DEF Members!Next

\* The invariant gives what the run checks.
LEMMA TeamGives == ASSUME Members!TeamShape, TeamInv PROVE Members!TeamGoverned
BY TeamCounted DEF TeamInv, OwnerLeft, SeatsLeft, Members!TeamGoverned

\* That part runs by itself.
LEMMA TeamRuns ==
  ASSUME [Next]_vars, part' = "team"
  PROVE  part = "team" /\ [Members!Next]_(Members!vars)
<1>1. CASE UNCHANGED vars
  <2>1. part' = part /\ teamVars' = teamVars
    BY <1>1 DEF vars
  <2> QED BY <2>1 DEF teamVars, Members!vars
<1>2. CASE Next
  BY <1>2 DEF Next, Only
<1> QED BY <1>1, <1>2

\* A business keeps an owner, and its seats, however its members are changed.
THEOREM TeamGovernedAlways == Spec => []TeamGoverned
<1> DEFINE I == part = "team" => TeamInv
<1>1. Init => I
  BY TeamInit, ProtocolShape DEF Init
<1>2. I /\ [Next]_vars => I'
  <2> SUFFICES ASSUME I, [Next]_vars, part' = "team" PROVE TeamInv'
    OBVIOUS
  <2>1. part = "team" /\ [Members!Next]_(Members!vars)
    BY TeamRuns
  <2> QED BY <2>1, TeamStep, ProtocolShape
<1>3. I => TeamGoverned
  BY TeamGives, ProtocolShape DEF TeamGoverned, TeamInv
<1> QED BY <1>1, <1>2, <1>3, PTL DEF Spec

-----------------------------------------------------------------------------

\* What a request may rely on: the copy of the user it works on is that of its version.
Proving == {"find", "consume", "backup", "save"}
FactorAsk(r) ==
  /\ r.pc # "idle" => /\ r.id # 0 /\ r.read.version <= user.version
                      /\ r.read.version = user.version => r.read.method = user.method
  /\ r.pc \in Proving => r.kind \in {"enable", "disable", "regenerate", "verify"}
  /\ r.pc = "save" => r.kind # "verify"
  /\ r.pc = "remember" => r.kind = "verify"
  /\ r.pc = "consume" => r.code \in FactorCodes
  /\ r.pc \in Proving /\ r.kind = "enable" =>
       /\ r.to \in Factor!Methods /\ (r.to = "totp" => r.read.staged # 0)
       /\ r.read.method # "none" => crossed
  /\ r.pc \in Proving /\ r.kind # "enable" => r.read.method # "none"
  /\ r.pc = "stage" => r.to \in Factor!Methods
FactorAsks == \A s \in Requests : FactorAsk(proving[s])

\* The user: a method staged over an enabled one is the only way to switch.
UserSound ==
  /\ (user.codes = 0) <=> (user.method = "none")
  /\ user.method = "totp" => user.secret # 0
  /\ user.method # "none" /\ user.pending # "none" => crossed
  /\ switched => crossed

\* Once the method is off, the sign-ins under way are known to the revocation.
DevicesSound ==
  user.method = "none" /\ (\A s \in Requests : ~Factor!At(s, "revoke")) =>
    trusted \subseteq missed /\ Factor!Remembering \subseteq missed

\* A code that only one request checks at a time is spent once.
Accepting(s, c) == proving[s].pc = "consume" /\ proving[s].code = c
CodesSound ==
  /\ \A c \in FactorCodes : c \notin repeated =>
       /\ accepted[c] <= 1
       /\ challenge[c].state # "used" \/ (\E s \in Requests : Accepting(s, c)) => accepted[c] = 0
       /\ \A s, z \in Requests : Accepting(s, c) /\ Accepting(z, c) => s = z
  /\ \A s \in Requests, c \in FactorCodes : Accepting(s, c) => challenge[c].state # "none"
  /\ \A c, d \in FactorCodes : challenge[c].state = "none" /\ c <= d => challenge[d].state = "none"
  /\ \A c, d \in FactorCodes :
       c < d /\ challenge[c].state = "live" /\ challenge[d].state = "live"
             /\ challenge[c].purpose = challenge[d].purpose => c \in repeated

\* A backup code that only one request checks at a time is spent once.
Backing(s) == proving[s].pc = "backup" /\ proving[s].read.version = user.version
BackupSound ==
  /\ ~user.used => answers = 0
  /\ ~shared => /\ answers <= 1
                /\ (\E s \in Requests : Backing(s)) => answers = 0
                /\ \A s, z \in Requests : Backing(s) /\ Backing(z) => s = z

FactorInv == Factor!TypeOK /\ FactorAsks /\ UserSound /\ DevicesSound /\ CodesSound /\ BackupSound

LEMMA BlankTyped ==
  ASSUME Factor!FactorShape PROVE Factor!Idle \in Factor!Asks /\ Factor!Plain \in Factor!Users /\ 0 \in Factor!Ids
<1>1. 0 \in Factor!Ids
  BY DEF Factor!FactorShape, Factor!Ids
<1>2. Factor!Plain \in Factor!Users
  BY <1>1 DEF Factor!Plain, Factor!Users
<1> QED BY <1>1, <1>2 DEF Factor!Idle, Factor!Asks

LEMMA FactorInit == ASSUME Factor!FactorShape, Factor!Init PROVE FactorInv
<1>1. Factor!TypeOK
  BY BlankTyped, Zenon DEF Factor!Init, Factor!TypeOK
<1>2. FactorAsks
  BY DEF Factor!Init, FactorAsks, FactorAsk, Factor!Idle, Proving
<1>3. UserSound
  BY DEF Factor!Init, UserSound, Factor!Plain
<1>4. DevicesSound
  BY DEF Factor!Init, DevicesSound, Factor!Remembering, Factor!Idle, Factor!Plain
<1>5. CodesSound
  BY DEF Factor!Init, CodesSound, Accepting, Factor!Idle
<1>6. BackupSound
  BY DEF Factor!Init, BackupSound, Backing, Factor!Idle, Factor!Plain
<1> QED BY <1>1, <1>2, <1>3, <1>4, <1>5, <1>6 DEF FactorInv

\* A step of one request that tells the other ones nothing new.
LEMMA AsksKept ==
  ASSUME FactorInv, NEW s \in Requests, NEW r, proving' = [proving EXCEPT ![s] = r],
         FactorAsk(r)', user'.version = user.version, user'.method = user.method,
         crossed => crossed'
  PROVE  FactorAsks'
<1> SUFFICES ASSUME NEW z \in Requests PROVE FactorAsk(proving[z])'
  BY DEF FactorAsks
<1>1. CASE z = s
  <2>1. proving'[z] = r
    BY <1>1 DEF FactorInv, Factor!TypeOK
  <2> QED BY <2>1 DEF FactorAsk
<1>2. CASE z # s
  <2>1. proving'[z] = proving[z] /\ FactorAsk(proving[z])
    BY <1>2 DEF FactorInv, Factor!TypeOK, FactorAsks
  <2> QED BY <2>1 DEF FactorAsk
<1> QED BY <1>1, <1>2

\* A step that neither turns the method off nor remembers a device.
LEMMA DevicesKept ==
  ASSUME FactorInv, NEW s \in Requests, NEW r, proving' = [proving EXCEPT ![s] = r],
         UNCHANGED <<trusted, missed>>, user'.method = user.method,
         proving[s].pc # "revoke",
         r.kind = "verify" =>
           user.method # "none" \/ (proving[s].kind = "verify" /\ r.id = proving[s].id)
  PROVE  DevicesSound'
<1> SUFFICES ASSUME user.method = "none", \A z \in Requests : proving'[z].pc # "revoke"
             PROVE trusted \subseteq missed /\ Factor!Remembering' \subseteq missed
  BY DEF DevicesSound, Factor!At
<1>1. \A z \in Requests : ~Factor!At(z, "revoke")
  BY DEF FactorInv, Factor!TypeOK, Factor!At
<1>2. trusted \subseteq missed /\ Factor!Remembering \subseteq missed
  BY <1>1 DEF FactorInv, DevicesSound
<1>3. Factor!Remembering' \subseteq Factor!Remembering
  BY DEF FactorInv, Factor!TypeOK, Factor!Remembering
<1> QED BY <1>2, <1>3

\* A step that sends and checks no code.
LEMMA CodesKept ==
  ASSUME FactorInv, NEW s \in Requests, NEW r, proving' = [proving EXCEPT ![s] = r],
         UNCHANGED <<challenge, accepted, repeated>>, r.pc # "consume"
  PROVE  CodesSound'
<1>1. \A z \in Requests, c \in FactorCodes : Accepting(z, c)' => Accepting(z, c)
  BY DEF FactorInv, Factor!TypeOK, Accepting
<1> QED BY <1>1 DEF FactorInv, CodesSound

\* A step that checks no backup code.
LEMMA BackupKept ==
  ASSUME FactorInv, NEW s \in Requests, NEW r, proving' = [proving EXCEPT ![s] = r],
         UNCHANGED <<answers, shared>>, user'.version = user.version, user'.used = user.used,
         r.pc # "backup"
  PROVE  BackupSound'
<1>1. \A z \in Requests : Backing(z)' => Backing(z)
  BY DEF FactorInv, Factor!TypeOK, Backing
<1> QED BY <1>1 DEF FactorInv, BackupSound

\* A request that changes nothing but itself.
LEMMA FactorQuiet ==
  ASSUME Factor!FactorShape, FactorInv, NEW s \in Requests, NEW r \in Factor!Asks,
         proving' = [proving EXCEPT ![s] = r], proved' \in Factor!Ids,
         UNCHANGED <<user, challenge, trusted, crossed, switched, missed, accepted, repeated, answers,
                     shared>>,
         FactorAsk(r), r.pc \notin {"consume", "backup"}, proving[s].pc # "revoke",
         r.kind = "verify" =>
           user.method # "none" \/ (proving[s].kind = "verify" /\ r.id = proving[s].id)
  PROVE  FactorInv'
<1>1. Factor!TypeOK'
  BY DEF FactorInv, Factor!TypeOK
<1>2. FactorAsk(r)'
  BY DEF FactorAsk
<1>3. FactorAsks'
  BY <1>2, AsksKept, Zenon
<1>4. DevicesSound'
  BY DevicesKept, Zenon
<1>5. CodesSound'
  BY CodesKept, Zenon
<1>6. BackupSound'
  BY BackupKept, Zenon
<1>7. UserSound'
  BY DEF FactorInv, UserSound
<1> QED BY <1>1, <1>3, <1>4, <1>5, <1>6, <1>7 DEF FactorInv

\* A request that begins loads the user of today.
LEMMA FactorServe ==
  ASSUME Factor!FactorShape, FactorInv, NEW s \in Requests, NEW k \in Factor!Asks,
         Factor!Serve(s, k)
  PROVE  \E r \in Factor!Asks :
           /\ r = [k EXCEPT !.id = proved + 1, !.read = user]
           /\ proving' = [proving EXCEPT ![s] = r]
           /\ proved' \in Factor!Ids /\ r.id \in Factor!Ids \ {0}
           /\ proving[s].pc = "idle"
<1>1. /\ proved < FactorRequests /\ proved' = proved + 1 /\ proving[s].pc = "idle"
      /\ Factor!Go(s, [k EXCEPT !.id = proved + 1, !.read = user])
  BY DEF Factor!Serve, Factor!At
<1>2. proved + 1 \in Factor!Ids \ {0}
  BY <1>1 DEF Factor!FactorShape, FactorInv, Factor!TypeOK, Factor!Ids
<1>3. PICK n, u : n = proved + 1 /\ u = user /\ n \in Factor!Ids \ {0} /\ u \in Factor!Users
  BY <1>2 DEF FactorInv, Factor!TypeOK
<1>4. [k EXCEPT !.id = n, !.read = u] \in Factor!Asks /\ [k EXCEPT !.id = n, !.read = u].id = n
  BY <1>3, Zenon DEF Factor!Asks
<1> QED BY <1>1, <1>3, <1>4, Zenon DEF Factor!Go

\* A request that begins, other than one that checks a backup code.
LEMMA FactorBegins ==
  ASSUME Factor!FactorShape, FactorInv, NEW s \in Requests, NEW k \in Factor!Asks,
         Factor!Serve(s, k),
         UNCHANGED <<user, challenge, trusted, crossed, switched, missed, accepted, repeated, answers,
                     shared>>,
         k.pc \in {"stage", "sweep", "find", "save", "remember"},
         k.pc \in Proving => k.kind \in {"enable", "disable", "regenerate", "verify"},
         k.pc = "save" => k.kind # "verify", k.pc = "remember" => k.kind = "verify",
         k.kind = "enable" => /\ k.to \in Factor!Methods /\ user.pending # "none"
                              /\ k.to = "totp" => user.staged # 0,
         k.pc \in Proving /\ k.kind # "enable" => user.method # "none",
         k.pc = "stage" => k.to \in Factor!Methods,
         k.kind = "verify" => user.method # "none"
  PROVE  FactorInv'
<1>1. PICK r \in Factor!Asks :
        /\ r = [k EXCEPT !.id = proved + 1, !.read = user]
        /\ proving' = [proving EXCEPT ![s] = r]
        /\ proved' \in Factor!Ids /\ r.id \in Factor!Ids \ {0}
        /\ proving[s].pc = "idle"
  BY FactorServe, Zenon
<1>2. /\ r.pc = k.pc /\ r.kind = k.kind /\ r.to = k.to /\ r.read = user /\ r.id # 0
  BY <1>1 DEF Factor!Asks
<1>3. user.version \in Nat /\ (user.method # "none" /\ user.pending # "none" => crossed)
  BY DEF FactorInv, Factor!TypeOK, Factor!Users, UserSound
<1>4. FactorAsk(r)
  BY <1>2, <1>3 DEF FactorAsk, Proving
<1> QED BY <1>1, <1>2, <1>4, FactorQuiet, Zenon

LEMMA FactorAsking ==
  ASSUME Factor!FactorShape, FactorInv, NEW s \in Requests,
         \/ \E method \in Factor!Methods : Factor!Setup(s, method)
         \/ \E purpose \in {"manage", "login"} : Factor!AskCode(s, purpose)
         \/ Factor!EnableTotp(s)
         \/ \E c \in FactorCodes : Factor!EnableEmail(s, c)
         \/ \E what \in {"disable", "regenerate", "verify"} :
              Factor!AskWithApp(s, what) \/ \E c \in FactorCodes : Factor!AskWithCode(s, what, c)
  PROVE  FactorInv'
<1> USE DEF Factor!factors, Factor!proofs
<1>0. /\ Factor!Idle \in Factor!Asks /\ Factor!Idle.kind = "none"
      /\ UNCHANGED <<user, challenge, trusted, crossed, switched, missed, accepted, repeated, answers,
                     shared>>
  BY BlankTyped, Zenon DEF Factor!Setup, Factor!AskCode, Factor!EnableTotp, Factor!EnableEmail,
         Factor!AskWithApp, Factor!AskWithCode, Factor!Ask, Factor!Idle
<1>1. ASSUME NEW method \in Factor!Methods, Factor!Setup(s, method) PROVE FactorInv'
  <2>1. PICK k : k = [Factor!Idle EXCEPT !.pc = "stage", !.kind = "stage", !.to = method,
                                  !.purpose = "enroll"] /\ Factor!Serve(s, k)
    BY <1>1, Zenon DEF Factor!Setup
  <2>2. k \in Factor!Asks /\ k.pc = "stage" /\ k.kind = "stage" /\ k.to \in Factor!Methods
    BY <2>1, <1>0, Zenon DEF Factor!Asks, Factor!Purposes
  <2> QED BY <2>1, <2>2, <1>0, FactorBegins, Zenon DEF Proving
<1>2. ASSUME NEW purpose \in {"manage", "login"}, Factor!AskCode(s, purpose) PROVE FactorInv'
  <2>1. PICK k : k = [Factor!Idle EXCEPT !.pc = "sweep", !.kind = "code", !.purpose = purpose]
                 /\ Factor!Serve(s, k)
    BY <1>2 DEF Factor!AskCode
  <2>2. k \in Factor!Asks /\ k.pc = "sweep" /\ k.kind = "code"
    BY <2>1, <1>0, Zenon DEF Factor!Asks, Factor!Purposes
  <2> QED BY <2>1, <2>2, <1>0, FactorBegins, Zenon DEF Proving
<1>3. CASE Factor!EnableTotp(s)
  <2>1. PICK k : k = [Factor!Idle EXCEPT !.pc = "save", !.kind = "enable", !.to = "totp"] /\ Factor!Serve(s, k)
    BY <1>3 DEF Factor!EnableTotp
  <2>2. k \in Factor!Asks /\ k.pc = "save" /\ k.kind = "enable" /\ k.to = "totp"
        /\ k.to \in Factor!Methods
    BY <2>1, <1>0, Zenon DEF Factor!Asks, Factor!Methods
  <2>3. user.pending # "none" /\ user.staged # 0
    BY <1>3 DEF Factor!EnableTotp
  <2> QED BY <2>1, <2>2, <2>3, <1>0, FactorBegins, Zenon DEF Proving
<1>4. ASSUME NEW c \in FactorCodes, Factor!EnableEmail(s, c) PROVE FactorInv'
  <2>1. PICK k : k = [Factor!Idle EXCEPT !.pc = "find", !.kind = "enable", !.to = "email", !.code = c,
                                  !.purpose = "enroll"] /\ Factor!Serve(s, k)
    BY <1>4, Zenon DEF Factor!EnableEmail
  <2>2. k \in Factor!Asks /\ k.pc = "find" /\ k.kind = "enable" /\ k.to = "email"
        /\ k.to \in Factor!Methods
    BY <2>1, <1>0, Zenon DEF Factor!Asks, Factor!Methods, Factor!Purposes
  <2>3. user.pending # "none"
    BY <1>4, Zenon DEF Factor!EnableEmail
  <2> QED BY <2>1, <2>2, <2>3, <1>0, FactorBegins, Zenon DEF Proving
<1>5. ASSUME NEW what \in {"disable", "regenerate", "verify"}, Factor!AskWithApp(s, what) PROVE FactorInv'
  <2>1. PICK k : k = [Factor!Idle EXCEPT !.pc = Factor!Proven(what), !.kind = what, !.code = 0,
                                  !.purpose = Factor!PurposeOf(what)] /\ Factor!Serve(s, k)
    BY <1>5 DEF Factor!AskWithApp, Factor!Ask
  <2>2. user.method # "none"
    BY <1>5 DEF Factor!AskWithApp, Factor!Ask
  <2>3. /\ k \in Factor!Asks /\ k.pc = Factor!Proven(what) /\ k.kind = what
    BY <2>1, <1>0, Zenon DEF Factor!Asks, Factor!Purposes, Factor!Proven, Factor!PurposeOf
  <2>4. k.pc \in {"save", "remember"} /\ (k.pc = "save" => k.kind # "verify")
        /\ (k.pc = "remember" => k.kind = "verify")
        /\ k.kind \in {"disable", "regenerate", "verify"}
    BY <2>3 DEF Factor!Proven
  <2> QED BY <2>1, <2>2, <2>3, <2>4, <1>0, FactorBegins, Zenon DEF Proving
<1>6. ASSUME NEW what \in {"disable", "regenerate", "verify"}, NEW c \in FactorCodes,
             Factor!AskWithCode(s, what, c)
      PROVE FactorInv'
  <2>1. PICK k : k = [Factor!Idle EXCEPT !.pc = "find", !.kind = what, !.code = c,
                                  !.purpose = Factor!PurposeOf(what)] /\ Factor!Serve(s, k)
    BY <1>6, Zenon DEF Factor!AskWithCode, Factor!Ask
  <2>2. user.method # "none"
    BY <1>6, Zenon DEF Factor!AskWithCode, Factor!Ask
  <2>3. k \in Factor!Asks /\ k.pc = "find" /\ k.kind = what
    BY <2>1, <1>0, Zenon DEF Factor!Asks, Factor!Purposes, Factor!PurposeOf
  <2> QED BY <2>1, <2>2, <2>3, <1>0, FactorBegins, Zenon DEF Proving
<1> QED BY <1>1, <1>2, <1>3, <1>4, <1>5, <1>6

\* A request that holds a backup code against the copy it loaded.
LEMMA FactorBacks ==
  ASSUME Factor!FactorShape, FactorInv, NEW s \in Requests,
         NEW what \in {"disable", "regenerate", "verify"}, Factor!AskWithBackup(s, what)
  PROVE  FactorInv'
<1>1. PICK k : k = [Factor!Idle EXCEPT !.pc = "backup", !.kind = what, !.code = 0,
                                !.purpose = Factor!PurposeOf(what)] /\ Factor!Serve(s, k)
  BY DEF Factor!AskWithBackup, Factor!Ask
<1>2. k \in Factor!Asks /\ k.pc = "backup" /\ k.kind = what
  BY <1>1, BlankTyped, Zenon DEF Factor!Asks, Factor!Purposes, Factor!PurposeOf
<1>3. PICK r \in Factor!Asks :
        /\ r = [k EXCEPT !.id = proved + 1, !.read = user]
        /\ proving' = [proving EXCEPT ![s] = r]
        /\ proved' \in Factor!Ids /\ r.id \in Factor!Ids \ {0}
        /\ proving[s].pc = "idle"
  BY <1>1, <1>2, FactorServe, Zenon
<1>4. /\ r.pc = "backup" /\ r.kind = what /\ r.read = user /\ r.id # 0
      /\ user.method # "none" /\ ~user.used /\ user.version \in Nat
  BY <1>2, <1>3 DEF Factor!Asks, Factor!AskWithBackup, Factor!Ask, FactorInv, Factor!TypeOK,
         Factor!Users
<1>5. /\ UNCHANGED <<user, challenge, trusted, crossed, switched, missed, accepted, repeated, answers>>
      /\ shared' = (shared \/ \E z \in Requests \ {s} : Factor!At(z, "backup"))
  BY DEF Factor!AskWithBackup, Factor!Ask, Factor!factors
<1>6. Factor!TypeOK'
  <2>1. shared' \in BOOLEAN
    BY <1>5 DEF FactorInv, Factor!TypeOK
  <2> QED BY <1>3, <1>5, <2>1 DEF FactorInv, Factor!TypeOK
<1>7. FactorAsks'
  <2>1. FactorAsk(r)'
    BY <1>4, <1>5 DEF FactorAsk, Proving
  <2> QED BY <2>1, <1>3, <1>5, AsksKept, Zenon
<1>8. DevicesSound'
  BY <1>3, <1>4, <1>5, DevicesKept, Zenon
<1>9. CodesSound'
  BY <1>3, <1>4, <1>5, CodesKept, Zenon
<1>10. BackupSound'
  <2>1. ~user.used /\ answers = 0
    BY <1>4 DEF FactorInv, BackupSound
  <2>2. ASSUME ~shared', NEW z \in Requests, Backing(z)' PROVE z = s
    BY <2>2, <1>3, <1>4, <1>5, Zenon DEF Backing, Factor!At, FactorInv, Factor!TypeOK
  <2> QED BY <2>1, <2>2, <1>5 DEF BackupSound
<1>11. UserSound'
  BY <1>5 DEF FactorInv, UserSound
<1> QED BY <1>6, <1>7, <1>8, <1>9, <1>10, <1>11 DEF FactorInv

-----------------------------------------------------------------------------
LEMMA FactorStage ==
  ASSUME Factor!FactorShape, FactorInv, NEW s \in Requests, Factor!Stage(s) PROVE FactorInv'
<1>0. PICK k \in Factor!Asks : k = proving[s] /\ FactorAsk(k) /\ k.pc = "stage"
  BY DEF FactorInv, Factor!TypeOK, FactorAsks, Factor!Stage, Factor!At
<1>1. PICK r : /\ r = IF k.to = "email" THEN [k EXCEPT !.pc = "sweep"] ELSE Factor!Idle
              /\ proving' = [proving EXCEPT ![s] = r]
  BY <1>0, Zenon DEF Factor!Stage, Factor!Go, Factor!Goto
<1>2. /\ user' = [user EXCEPT !.pending = IF k.read.pending = k.to THEN @ ELSE k.to,
                             !.staged = IF k.to = "totp" THEN k.id ELSE @]
      /\ crossed' = (crossed \/ user.method # "none")
      /\ UNCHANGED <<challenge, trusted, proved, switched, missed, accepted, repeated, answers, shared>>
  BY <1>0 DEF Factor!Stage, Factor!proofs
<1>3. /\ k.to \in Factor!Methods /\ k.id \in Factor!Ids /\ user \in Factor!Users
  BY <1>0 DEF FactorAsk, Factor!Asks, FactorInv, Factor!TypeOK
<1>4. /\ user' \in Factor!Users /\ user'.version = user.version /\ user'.method = user.method
      /\ user'.used = user.used /\ user'.codes = user.codes /\ user'.secret = user.secret
  BY <1>2, <1>3, Zenon DEF Factor!Users
<1>5. r \in Factor!Asks /\ r.pc \in {"sweep", "idle"} /\ ((r.kind = k.kind /\ r.id = k.id) \/ r.kind = "none")
  BY <1>0, <1>1, BlankTyped DEF Factor!Asks, Factor!Idle
<1>6. Factor!TypeOK'
  <2>1. crossed' \in BOOLEAN
    BY <1>2 DEF FactorInv, Factor!TypeOK
  <2> QED BY <1>1, <1>2, <1>4, <1>5, <2>1 DEF FactorInv, Factor!TypeOK
<1>7. FactorAsks'
  <2>1. r.pc = "sweep" => r.id = k.id /\ r.read = k.read
    BY <1>0, <1>1 DEF Factor!Asks, Factor!Idle
  <2>2. FactorAsk(r)'
    BY <1>0, <1>4, <1>5, <2>1 DEF FactorAsk, Proving
  <2> QED BY <1>1, <1>2, <1>4, <2>2, AsksKept, Zenon
<1>8. DevicesSound'
  <2>1. r.kind = "verify" => proving[s].kind = "verify" /\ r.id = proving[s].id
    BY <1>0, <1>5
  <2> QED BY <1>0, <1>1, <1>2, <1>4, <2>1, DevicesKept, Zenon
<1>9. CodesSound'
  BY <1>1, <1>2, <1>5, CodesKept, Zenon
<1>10. BackupSound'
  BY <1>1, <1>2, <1>4, <1>5, BackupKept, Zenon
<1>11. UserSound'
  BY <1>2, <1>4, Zenon DEF FactorInv, UserSound
<1> QED BY <1>6, <1>7, <1>8, <1>9, <1>10, <1>11 DEF FactorInv

LEMMA FactorSweep ==
  ASSUME Factor!FactorShape, FactorInv, NEW s \in Requests, Factor!Sweep(s) PROVE FactorInv'
<1>0. PICK k \in Factor!Asks : k = proving[s] /\ FactorAsk(k) /\ k.pc = "sweep"
  BY DEF FactorInv, Factor!TypeOK, FactorAsks, Factor!Sweep, Factor!At
<1>1. PICK r : /\ r = [k EXCEPT !.pc = "send"] /\ proving' = [proving EXCEPT ![s] = r]
  BY <1>0, Zenon DEF Factor!Sweep, Factor!Go, Factor!Goto
<1>2. /\ challenge' = [c \in FactorCodes |-> IF c \in Factor!Live(k.purpose)
                                      THEN [challenge[c] EXCEPT !.state = "used"] ELSE challenge[c]]
      /\ UNCHANGED <<user, trusted, proved, crossed, switched, missed, accepted, repeated, answers, shared>>
  BY <1>0 DEF Factor!Sweep, Factor!factors, Factor!proofs
<1>3. r \in Factor!Asks /\ r.pc = "send" /\ r.kind = k.kind /\ r.id = k.id /\ r.read = k.read
  BY <1>0, <1>1 DEF Factor!Asks
<1>4. \A c \in FactorCodes :
        /\ challenge'[c].purpose = challenge[c].purpose
        /\ challenge'[c].state \in {"none", "live", "used"}
        /\ challenge'[c].state # challenge[c].state =>
             challenge[c].state = "live" /\ challenge'[c].state = "used"
  BY <1>2 DEF Factor!Live, FactorInv, Factor!TypeOK
<1>5. Factor!TypeOK'
  <2>1. challenge' \in [FactorCodes -> [state : {"none", "live", "used"}, purpose : Factor!Purposes \cup {"none"}]]
    BY <1>2 DEF FactorInv, Factor!TypeOK
  <2> QED BY <1>1, <1>2, <1>3, <2>1 DEF FactorInv, Factor!TypeOK
<1>6. FactorAsks'
  <2>1. FactorAsk(r)'
    BY <1>0, <1>2, <1>3 DEF FactorAsk, Proving
  <2> QED BY <1>1, <1>2, <2>1, AsksKept, Zenon
<1>7. DevicesSound'
  BY <1>0, <1>1, <1>2, <1>3, DevicesKept, Zenon
<1>8. CodesSound'
  <2>1. \A z \in Requests, c \in FactorCodes : Accepting(z, c)' => Accepting(z, c)
    BY <1>1, <1>3 DEF FactorInv, Factor!TypeOK, Accepting
  <2> QED BY <2>1, <1>2, <1>4 DEF FactorInv, CodesSound
<1>9. BackupSound'
  BY <1>1, <1>2, <1>3, BackupKept, Zenon
<1>10. UserSound'
  BY <1>2 DEF FactorInv, UserSound
<1> QED BY <1>5, <1>6, <1>7, <1>8, <1>9, <1>10 DEF FactorInv

\* A fresh code is the newest, and the only one of its purpose but for those of requests that
\* sent at once.
LEMMA FactorSend ==
  ASSUME Factor!FactorShape, FactorInv, NEW s \in Requests, Factor!Send(s) PROVE FactorInv'
<1>0. PICK k \in Factor!Asks : k = proving[s] /\ FactorAsk(k) /\ k.pc = "send"
  BY DEF FactorInv, Factor!TypeOK, FactorAsks, Factor!Send, Factor!At
<1>1. /\ proving' = [proving EXCEPT ![s] = Factor!Idle] /\ repeated' = repeated \cup Factor!Live(k.purpose)
      /\ UNCHANGED <<user, trusted, proved, crossed, switched, missed, accepted, answers, shared>>
  BY <1>0 DEF Factor!Send, Factor!Go, Factor!factors
<1>2. PICK e \in FactorCodes :
        /\ challenge[e].state = "none"
        /\ \A d \in FactorCodes : challenge[d].state = "none" => e <= d
        /\ challenge' = [challenge EXCEPT ![e] = [state |-> "live", purpose |-> k.purpose]]
  BY <1>0, Zenon DEF Factor!Send
<1>3. Factor!TypeOK'
  <2>1. challenge' \in [FactorCodes -> [state : {"none", "live", "used"}, purpose : Factor!Purposes \cup {"none"}]]
    BY <1>2 DEF Factor!Asks, FactorInv, Factor!TypeOK
  <2>2. repeated' \subseteq FactorCodes
    BY <1>1 DEF Factor!Live, FactorInv, Factor!TypeOK
  <2> QED BY <1>1, <2>1, <2>2, BlankTyped DEF FactorInv, Factor!TypeOK
<1>4. FactorAsks'
  <2>1. FactorAsk(Factor!Idle)'
    BY DEF FactorAsk, Proving, Factor!Idle
  <2> QED BY <1>1, <2>1, AsksKept, Zenon
<1>5. DevicesSound'
  BY <1>0, <1>1, DevicesKept, Zenon DEF Factor!Idle
<1>6. CodesSound'
  <2>1. \A z \in Requests, c \in FactorCodes : Accepting(z, c)' => Accepting(z, c) /\ c # e
    BY <1>1, <1>2 DEF FactorInv, Factor!TypeOK, Accepting, Factor!Idle, CodesSound
  <2>2. \A c \in FactorCodes :
          /\ c # e => challenge'[c] = challenge[c]
          /\ challenge'[e].state = "live" /\ challenge'[e].purpose = k.purpose
    BY <1>2 DEF FactorInv, Factor!TypeOK
  <2>3. ASSUME NEW c \in FactorCodes, c \notin repeated'
        PROVE  /\ accepted[c] <= 1
               /\ challenge'[c].state # "used" \/ (\E z \in Requests : Accepting(z, c)') => accepted[c] = 0
               /\ \A y, z \in Requests : Accepting(y, c)' /\ Accepting(z, c)' => y = z
    <3>1. c \notin repeated
      BY <2>3, <1>1
    <3> QED BY <3>1, <2>1, <2>2, <1>2 DEF FactorInv, CodesSound
  <2>4. \A z \in Requests, c \in FactorCodes : Accepting(z, c)' => challenge'[c].state # "none"
    BY <2>1, <2>2 DEF FactorInv, CodesSound
  <2>5. \A c, d \in FactorCodes : challenge'[c].state = "none" /\ c <= d => challenge'[d].state = "none"
    <3> SUFFICES ASSUME NEW c \in FactorCodes, NEW d \in FactorCodes, challenge'[c].state = "none", c <= d
                 PROVE  challenge'[d].state = "none"
      OBVIOUS
    <3>1. c # e /\ challenge[c].state = "none" /\ challenge[d].state = "none"
      BY <2>2 DEF FactorInv, CodesSound
    <3>2. e <= c /\ e \in Nat /\ c \in Nat /\ d \in Nat
      BY <3>1, <1>2 DEF Factor!FactorShape
    <3>3. d # e
      BY <3>1, <3>2
    <3> QED BY <3>1, <3>3, <2>2
  <2>6. ASSUME NEW c \in FactorCodes, NEW d \in FactorCodes, c < d,
               challenge'[c].state = "live", challenge'[d].state = "live",
               challenge'[c].purpose = challenge'[d].purpose
        PROVE  c \in repeated'
    <3>1. c \in Nat /\ d \in Nat /\ e \in Nat
      BY DEF Factor!FactorShape
    <3>2. CASE d = e
      <4>1. c # e /\ challenge[c].state = "live" /\ challenge[c].purpose = k.purpose
        BY <2>6, <3>1, <3>2, <2>2
      <4>2. challenge[c] = [state |-> "live", purpose |-> k.purpose]
        BY <4>1 DEF FactorInv, Factor!TypeOK
      <4> QED BY <4>2, <1>1 DEF Factor!Live
    <3>3. CASE c = e
      <4>1. e <= d /\ challenge[d].state = "none"
        BY <2>6, <3>1, <3>3, <1>2 DEF FactorInv, CodesSound
      <4>2. d # e
        BY <2>6, <3>1, <3>3
      <4> QED BY <4>1, <4>2, <2>6, <2>2
    <3>4. CASE c # e /\ d # e
      <4>1. c \in repeated
        BY <2>6, <3>4, <2>2 DEF FactorInv, CodesSound
      <4> QED BY <4>1, <1>1
    <3> QED BY <3>2, <3>3, <3>4
  <2> QED BY <2>3, <2>4, <2>5, <2>6, <1>1 DEF CodesSound
<1>7. BackupSound'
  <2>1. Factor!Idle.pc # "backup"
    BY DEF Factor!Idle
  <2> QED BY <1>1, <2>1, BackupKept, Zenon
<1>8. UserSound'
  BY <1>1 DEF FactorInv, UserSound
<1> QED BY <1>3, <1>4, <1>5, <1>6, <1>7, <1>8 DEF FactorInv

LEMMA FactorFind ==
  ASSUME Factor!FactorShape, FactorInv, NEW s \in Requests, Factor!Find(s) PROVE FactorInv'
<1>0. PICK k \in Factor!Asks : k = proving[s] /\ FactorAsk(k) /\ k.pc = "find"
  BY DEF FactorInv, Factor!TypeOK, FactorAsks, Factor!Find, Factor!At
<1>1. UNCHANGED <<user, challenge, trusted, proved, crossed, switched, missed, accepted, answers, shared>>
  BY DEF Factor!Find, Factor!factors
<1>2. CASE k.code \notin Factor!Latest(k.purpose)
  <2>1. proving' = [proving EXCEPT ![s] = Factor!Idle] /\ repeated' = repeated
    BY <1>0, <1>2 DEF Factor!Find, Factor!Go
  <2>2. FactorAsk(Factor!Idle) /\ Factor!Idle.pc = "idle" /\ Factor!Idle.kind = "none"
    BY DEF FactorAsk, Proving, Factor!Idle
  <2>3. proved' \in Factor!Ids
    BY <1>1 DEF FactorInv, Factor!TypeOK
  <2> QED BY <2>1, <2>2, <2>3, <1>0, <1>1, BlankTyped, FactorQuiet, Zenon
<1>3. CASE k.code \in Factor!Latest(k.purpose)
  <2>1. PICK r : /\ r = [k EXCEPT !.pc = "consume"] /\ proving' = [proving EXCEPT ![s] = r]
    BY <1>0, <1>3, Zenon DEF Factor!Find, Factor!Go, Factor!Goto
  <2>2. repeated' = IF \E z \in Requests \ {s} : Factor!At(z, "consume") /\ proving[z].code = k.code
                   THEN repeated \cup {k.code} ELSE repeated
    BY <1>0, <1>3 DEF Factor!Find
  <2>3. /\ r \in Factor!Asks /\ r.pc = "consume" /\ r.kind = k.kind /\ r.id = k.id /\ r.read = k.read
        /\ r.code = k.code /\ r.to = k.to
    BY <1>0, <2>1 DEF Factor!Asks
  <2>4. k.code \in FactorCodes /\ challenge[k.code].state = "live"
    BY <1>3 DEF Factor!Latest, Factor!Live
  <2>5. Factor!TypeOK'
    <3>1. repeated' \subseteq FactorCodes
      BY <2>2, <2>4 DEF FactorInv, Factor!TypeOK
    <3> QED BY <1>1, <2>1, <2>3, <3>1 DEF FactorInv, Factor!TypeOK
  <2>6. FactorAsks'
    <3>1. FactorAsk(r)'
      BY <1>0, <1>1, <2>3, <2>4 DEF FactorAsk, Proving
    <3> QED BY <1>1, <2>1, <3>1, AsksKept, Zenon
  <2>7. DevicesSound'
    BY <1>0, <1>1, <2>1, <2>3, DevicesKept, Zenon
  <2>8. CodesSound'
    <3>1. \A z \in Requests, c \in FactorCodes :
            Accepting(z, c)' => Accepting(z, c) \/ (z = s /\ c = k.code)
      BY <2>1, <2>3 DEF FactorInv, Factor!TypeOK, Accepting
    <3>2. \A z \in Requests : Accepting(z, k.code) /\ z # s => k.code \in repeated'
      BY <2>2 DEF Accepting, Factor!At
    <3>3. repeated \subseteq repeated'
      BY <2>2
    <3>4. ASSUME NEW c \in FactorCodes, c \notin repeated'
          PROVE  /\ accepted[c] <= 1
                 /\ challenge[c].state # "used" \/ (\E z \in Requests : Accepting(z, c)') => accepted[c] = 0
                 /\ \A y, z \in Requests : Accepting(y, c)' /\ Accepting(z, c)' => y = z
      <4>1. c \notin repeated
        BY <3>3, <3>4
      <4>2. CASE c = k.code
        BY <4>1, <4>2, <3>1, <3>2, <3>4, <2>4 DEF FactorInv, CodesSound
      <4>3. CASE c # k.code
        BY <4>1, <4>3, <3>1 DEF FactorInv, CodesSound
      <4> QED BY <4>2, <4>3
    <3>5. \A z \in Requests, c \in FactorCodes : Accepting(z, c)' => challenge[c].state # "none"
      BY <3>1, <2>4 DEF FactorInv, CodesSound
    <3> QED BY <1>1, <3>3, <3>4, <3>5 DEF FactorInv, CodesSound
  <2>9. BackupSound'
    BY <1>1, <2>1, <2>3, BackupKept, Zenon
  <2>10. UserSound'
    BY <1>1 DEF FactorInv, UserSound
  <2> QED BY <2>5, <2>6, <2>7, <2>8, <2>9, <2>10 DEF FactorInv
<1> QED BY <1>2, <1>3

LEMMA FactorConsume ==
  ASSUME Factor!FactorShape, FactorInv, NEW s \in Requests, Factor!Consume(s) PROVE FactorInv'
<1>0. PICK k \in Factor!Asks : k = proving[s] /\ FactorAsk(k) /\ k.pc = "consume"
  BY DEF FactorInv, Factor!TypeOK, FactorAsks, Factor!Consume, Factor!At
<1>1. /\ UNCHANGED <<user, trusted, proved, crossed, switched, missed, repeated, answers, shared>>
      /\ challenge' = [challenge EXCEPT ![k.code].state = "used"]
      /\ accepted' = [accepted EXCEPT ![k.code] = @ + 1]
  BY <1>0 DEF Factor!Consume, Factor!factors
<1>2. PICK r : /\ r = [k EXCEPT !.pc = Factor!Proven(k.kind)] /\ proving' = [proving EXCEPT ![s] = r]
  BY <1>0, Zenon DEF Factor!Consume, Factor!Go, Factor!Goto
<1>3. /\ k.code \in FactorCodes /\ Accepting(s, k.code)
      /\ k.kind \in {"enable", "disable", "regenerate", "verify"}
  BY <1>0 DEF FactorAsk, Accepting, Proving
<1>4. /\ r \in Factor!Asks /\ r.pc \in {"save", "remember"} /\ (r.pc = "save" => r.kind # "verify")
      /\ r.pc = "remember" => r.kind = "verify"
      /\ r.kind = k.kind /\ r.id = k.id /\ r.read = k.read /\ r.to = k.to
  BY <1>0, <1>2, <1>3 DEF Factor!Asks, Factor!Proven
<1>5. Factor!TypeOK'
  <2>1. challenge' \in [FactorCodes -> [state : {"none", "live", "used"}, purpose : Factor!Purposes \cup {"none"}]]
    BY <1>1, <1>3 DEF FactorInv, Factor!TypeOK
  <2>2. accepted' \in [FactorCodes -> Nat]
    BY <1>1, <1>3 DEF FactorInv, Factor!TypeOK
  <2> QED BY <1>1, <1>2, <1>4, <2>1, <2>2 DEF FactorInv, Factor!TypeOK
<1>6. FactorAsks'
  <2>1. FactorAsk(r)'
    BY <1>0, <1>1, <1>3, <1>4 DEF FactorAsk, Proving
  <2> QED BY <1>1, <1>2, <2>1, AsksKept, Zenon
<1>7. DevicesSound'
  BY <1>0, <1>1, <1>2, <1>4, DevicesKept, Zenon
<1>8. CodesSound'
  <2>1. \A z \in Requests, c \in FactorCodes : Accepting(z, c)' => Accepting(z, c) /\ z # s
    BY <1>2, <1>4 DEF FactorInv, Factor!TypeOK, Accepting
  <2>2. \A c \in FactorCodes :
          /\ challenge'[c].purpose = challenge[c].purpose
          /\ c # k.code => challenge'[c].state = challenge[c].state /\ accepted'[c] = accepted[c]
          /\ c = k.code => challenge'[c].state = "used" /\ accepted'[c] = accepted[c] + 1
    BY <1>1, <1>3 DEF FactorInv, Factor!TypeOK
  <2>3. challenge[k.code].state # "none"
    BY <1>3 DEF FactorInv, CodesSound
  <2>4. ASSUME NEW c \in FactorCodes, c \notin repeated
        PROVE  /\ accepted'[c] <= 1
               /\ challenge'[c].state # "used" \/ (\E z \in Requests : Accepting(z, c)') => accepted'[c] = 0
               /\ \A y, z \in Requests : Accepting(y, c)' /\ Accepting(z, c)' => y = z
    <3>1. CASE c = k.code
      <4>1. accepted[c] = 0
        BY <2>4, <3>1, <1>3 DEF FactorInv, CodesSound
      <4>2. \A z \in Requests : ~Accepting(z, c)'
        BY <2>1, <2>4, <3>1, <1>3 DEF FactorInv, CodesSound
      <4> QED BY <4>1, <4>2, <3>1, <2>2
    <3>2. CASE c # k.code
      BY <2>1, <2>2, <2>4, <3>2 DEF FactorInv, CodesSound
    <3> QED BY <3>1, <3>2
  <2>5. \A z \in Requests, c \in FactorCodes : Accepting(z, c)' => challenge'[c].state # "none"
    BY <2>1, <2>2 DEF FactorInv, CodesSound
  <2>6. \A c, d \in FactorCodes : challenge'[c].state = "none" /\ c <= d => challenge'[d].state = "none"
    BY <2>2, <2>3 DEF FactorInv, CodesSound
  <2>7. \A c, d \in FactorCodes :
          c < d /\ challenge'[c].state = "live" /\ challenge'[d].state = "live"
                /\ challenge'[c].purpose = challenge'[d].purpose => c \in repeated
    BY <2>2 DEF FactorInv, CodesSound
  <2> QED BY <1>1, <2>4, <2>5, <2>6, <2>7 DEF CodesSound
<1>9. BackupSound'
  BY <1>1, <1>2, <1>4, BackupKept, Zenon
<1>10. UserSound'
  BY <1>1 DEF FactorInv, UserSound
<1> QED BY <1>5, <1>6, <1>7, <1>8, <1>9, <1>10 DEF FactorInv

LEMMA FactorBackup ==
  ASSUME Factor!FactorShape, FactorInv, NEW s \in Requests, Factor!Backup(s) PROVE FactorInv'
<1>0. PICK k \in Factor!Asks : k = proving[s] /\ FactorAsk(k) /\ k.pc = "backup"
  BY DEF FactorInv, Factor!TypeOK, FactorAsks, Factor!Backup, Factor!At
<1>1. UNCHANGED <<challenge, trusted, proved, crossed, switched, missed, accepted, repeated, shared>>
  BY DEF Factor!Backup, Factor!factors
<1>2. CASE ~Factor!Unreplaced(s)
  <2>1. proving' = [proving EXCEPT ![s] = Factor!Idle] /\ UNCHANGED <<user, answers>>
    BY <1>0, <1>2 DEF Factor!Backup, Factor!Go
  <2>2. FactorAsk(Factor!Idle) /\ Factor!Idle.pc = "idle" /\ Factor!Idle.kind = "none"
    BY DEF FactorAsk, Proving, Factor!Idle
  <2>3. proved' \in Factor!Ids
    BY <1>1 DEF FactorInv, Factor!TypeOK
  <2> QED BY <2>1, <2>2, <2>3, <1>0, <1>1, BlankTyped, FactorQuiet, Zenon
<1>3. CASE Factor!Unreplaced(s)
  <2>1. PICK r : /\ r = [k EXCEPT !.pc = Factor!Proven(k.kind)] /\ proving' = [proving EXCEPT ![s] = r]
    BY <1>0, <1>3, Zenon DEF Factor!Backup, Factor!Go, Factor!Goto
  <2>2. user' = [user EXCEPT !.used = TRUE] /\ answers' = answers + 1
    BY <1>3 DEF Factor!Backup
  <2>3. k.kind \in {"enable", "disable", "regenerate", "verify"}
    BY <1>0 DEF FactorAsk, Proving
  <2>4. /\ r \in Factor!Asks /\ r.pc \in {"save", "remember"} /\ (r.pc = "save" => r.kind # "verify")
        /\ r.pc = "remember" => r.kind = "verify"
        /\ r.kind = k.kind /\ r.id = k.id /\ r.read = k.read /\ r.to = k.to
    BY <1>0, <2>1, <2>3 DEF Factor!Asks, Factor!Proven
  <2>5. /\ user' \in Factor!Users /\ user'.version = user.version /\ user'.method = user.method
        /\ user'.codes = user.codes /\ user'.secret = user.secret /\ user'.pending = user.pending
        /\ user'.used = TRUE
    BY <2>2, Zenon DEF FactorInv, Factor!TypeOK, Factor!Users
  <2>6. Factor!TypeOK'
    <3>1. answers' \in Nat
      BY <2>2 DEF FactorInv, Factor!TypeOK
    <3> QED BY <1>1, <2>1, <2>4, <2>5, <3>1 DEF FactorInv, Factor!TypeOK
  <2>7. FactorAsks'
    <3>1. FactorAsk(r)'
      BY <1>0, <1>1, <2>3, <2>4, <2>5 DEF FactorAsk, Proving
    <3> QED BY <1>1, <2>1, <2>5, <3>1, AsksKept, Zenon
  <2>8. DevicesSound'
    BY <1>0, <1>1, <2>1, <2>4, <2>5, DevicesKept, Zenon
  <2>9. CodesSound'
    BY <1>1, <2>1, <2>4, CodesKept, Zenon
  <2>10. BackupSound'
    <3>1. Backing(s)
      BY <1>0, <1>3 DEF Factor!Unreplaced, Backing
    <3>2. \A z \in Requests : Backing(z)' => Backing(z) /\ z # s
      BY <2>1, <2>4, <2>5 DEF FactorInv, Factor!TypeOK, Backing
    <3>3. ~shared => answers = 0 /\ \A z \in Requests : ~Backing(z)'
      BY <3>1, <3>2 DEF FactorInv, BackupSound
    <3> QED BY <3>3, <1>1, <2>2, <2>5 DEF BackupSound
  <2>11. UserSound'
    BY <1>1, <2>5 DEF FactorInv, UserSound
  <2> QED BY <2>6, <2>7, <2>8, <2>9, <2>10, <2>11 DEF FactorInv
<1> QED BY <1>2, <1>3

\* What a save makes of the user.
LEMMA SavedUser ==
  ASSUME Factor!FactorShape, FactorInv, NEW s \in Requests, Factor!Save(s), Factor!Unreplaced(s)
  PROVE  /\ user' \in Factor!Users /\ user'.version = user.version + 1 /\ ~user'.used
         /\ (user'.codes = 0) <=> (user'.method = "none")
         /\ user'.method = "totp" => user'.secret # 0
         /\ user'.method # "none" /\ user'.pending # "none" => crossed
         /\ switched' => crossed
         /\ switched' \in BOOLEAN
         /\ user'.method = "none" => proving[s].kind = "disable"
<1>0. PICK k \in Factor!Asks : k = proving[s] /\ FactorAsk(k) /\ k.pc = "save"
  BY DEF FactorInv, Factor!TypeOK, FactorAsks, Factor!Save, Factor!At
<1>1. /\ user' = CASE k.kind = "enable" -> Factor!Enabled(k)
                   [] k.kind = "disable" -> Factor!Disabled(k)
                   [] k.kind = "regenerate" -> Factor!Replaced(k.id)
      /\ switched' = (switched \/ (k.kind = "enable" /\ user.method # "none"))
      /\ k.read.method = user.method
  BY <1>0, Zenon DEF Factor!Save, Factor!Unreplaced, FactorAsk
<1>2. /\ k.kind \in {"enable", "disable", "regenerate"} /\ k.id \in Factor!Ids \ {0} /\ k.read \in Factor!Users
      /\ user \in Factor!Users /\ 0 \in Factor!Ids
  BY <1>0, BlankTyped DEF FactorAsk, Proving, Factor!Asks, FactorInv, Factor!TypeOK
<1>3. UserSound /\ switched \in BOOLEAN
  BY DEF FactorInv, Factor!TypeOK
<1>4. switched' \in BOOLEAN /\ (switched' => crossed)
  BY <1>0, <1>1, <1>3 DEF FactorAsk, Proving, UserSound
<1>5. PICK v \in Nat : v = user.version + 1
  BY <1>2 DEF Factor!Users
<1>6. CASE k.kind = "enable"
  <2>1. k.to \in Factor!Methods /\ (k.to = "totp" => k.read.staged # 0)
    BY <1>0, <1>6 DEF FactorAsk, Proving
  <2>2. user' = Factor!Enabled(k)
    BY <1>1, <1>6
  <2>3. CASE k.to = "totp"
    <3>1. user' = [user EXCEPT !.codes = k.id, !.used = FALSE, !.version = v, !.method = "totp",
                               !.secret = k.read.staged, !.staged = 0, !.pending = "none"]
      BY <2>2, <2>3, <1>2, <1>5 DEF Factor!Enabled, Factor!Replaced, Factor!Users
    <3> QED BY <3>1, <2>1, <2>3, <1>0, <1>2, <1>4, <1>5, <1>6, Zenon
       DEF Factor!Users, Factor!Methods
  <2>4. CASE k.to # "totp"
    <3>1. user' = [user EXCEPT !.codes = k.id, !.used = FALSE, !.version = v, !.method = "email",
                               !.pending = "none"]
      BY <2>2, <2>4, <1>2, <1>5 DEF Factor!Enabled, Factor!Replaced, Factor!Users
    <3> QED BY <3>1, <2>4, <1>0, <1>2, <1>4, <1>5, <1>6, Zenon DEF Factor!Users, Factor!Methods
  <2> QED BY <2>3, <2>4
<1>7. CASE k.kind = "disable"
  <2>1. PICK x \in Factor!Ids, y \in Factor!Ids, w \in Factor!Methods \cup {"none"} :
          user' = [user EXCEPT !.codes = 0, !.used = FALSE, !.version = v, !.method = "none",
                               !.secret = x, !.staged = y, !.pending = w]
    BY <1>1, <1>2, <1>5, <1>7, Zenon DEF Factor!Disabled, Factor!Replaced, Factor!Users
  <2> QED BY <2>1, <1>0, <1>2, <1>4, <1>5, <1>7, Zenon DEF Factor!Users
<1>8. CASE k.kind = "regenerate"
  <2>1. user' = [user EXCEPT !.codes = k.id, !.used = FALSE, !.version = v]
    BY <1>1, <1>2, <1>5, <1>8 DEF Factor!Replaced
  <2>2. user.method # "none"
    BY <1>0, <1>1, <1>8 DEF FactorAsk, Proving
  <2> QED BY <2>1, <2>2, <1>0, <1>2, <1>3, <1>4, <1>5, <1>8, Zenon DEF Factor!Users, UserSound
<1> QED BY <1>2, <1>6, <1>7, <1>8

LEMMA FactorSave ==
  ASSUME Factor!FactorShape, FactorInv, NEW s \in Requests, Factor!Save(s) PROVE FactorInv'
<1>0. PICK k \in Factor!Asks : k = proving[s] /\ FactorAsk(k) /\ k.pc = "save"
  BY DEF FactorInv, Factor!TypeOK, FactorAsks, Factor!Save, Factor!At
<1>1. UNCHANGED <<challenge, trusted, proved, crossed, missed, accepted, repeated>>
  BY DEF Factor!Save
<1>2. CASE ~Factor!Unreplaced(s)
  <2>1. proving' = [proving EXCEPT ![s] = Factor!Idle]
        /\ UNCHANGED <<user, switched, answers, shared>>
    BY <1>0, <1>2 DEF Factor!Save, Factor!Go
  <2>2. FactorAsk(Factor!Idle) /\ Factor!Idle.pc = "idle" /\ Factor!Idle.kind = "none"
    BY DEF FactorAsk, Proving, Factor!Idle
  <2>3. proved' \in Factor!Ids
    BY <1>1 DEF FactorInv, Factor!TypeOK
  <2> QED BY <2>1, <2>2, <2>3, <1>0, <1>1, BlankTyped, FactorQuiet, Zenon
<1>3. CASE Factor!Unreplaced(s)
  <2>1. PICK r : /\ r = IF k.kind = "disable" THEN [k EXCEPT !.pc = "revoke"] ELSE Factor!Idle
                /\ proving' = [proving EXCEPT ![s] = r]
    BY <1>0, <1>3, Zenon DEF Factor!Save, Factor!Go, Factor!Goto
  <2>2. answers' = 0 /\ shared' = FALSE
    BY <1>3 DEF Factor!Save
  <2>3. /\ user' \in Factor!Users /\ user'.version = user.version + 1 /\ ~user'.used
        /\ (user'.codes = 0) <=> (user'.method = "none")
        /\ user'.method = "totp" => user'.secret # 0
        /\ user'.method # "none" /\ user'.pending # "none" => crossed
        /\ switched' => crossed
        /\ switched' \in BOOLEAN
        /\ user'.method = "none" => k.kind = "disable"
    BY <1>0, <1>3, SavedUser
  <2>4. /\ r \in Factor!Asks /\ r.pc \in {"revoke", "idle"} /\ (k.kind = "disable" => r.pc = "revoke")
        /\ r.pc = "revoke" => r.id = k.id /\ r.read = k.read
    BY <1>0, <2>1, BlankTyped DEF Factor!Asks, Factor!Idle
  <2>5. Factor!TypeOK'
    BY <1>1, <2>1, <2>2, <2>3, <2>4, Zenon DEF FactorInv, Factor!TypeOK
  <2>6. \A z \in Requests : proving'[z].pc # "idle" => /\ proving'[z].read.version <= user.version
                                                   /\ user.version \in Nat
                                                   /\ proving'[z].read.version \in Nat
    <3> SUFFICES ASSUME NEW z \in Requests, proving'[z].pc # "idle"
                 PROVE proving'[z].read.version <= user.version
      BY <2>5 DEF FactorInv, Factor!TypeOK, Factor!Users, Factor!Asks
    <3>1. CASE z = s
      BY <3>1, <1>0, <2>1, <2>4 DEF FactorInv, Factor!TypeOK, FactorAsk
    <3>2. CASE z # s
      BY <3>2, <2>1 DEF FactorInv, Factor!TypeOK, FactorAsks, FactorAsk
    <3> QED BY <3>1, <3>2
  <2>7. FactorAsks'
    <3> SUFFICES ASSUME NEW z \in Requests PROVE FactorAsk(proving[z])'
      BY DEF FactorAsks
    <3>1. proving'[z].pc # "idle" => /\ proving'[z].read.version <= user'.version
                                    /\ proving'[z].read.version # user'.version
      BY <2>3, <2>6
    <3>2. CASE z = s
      <4>1. proving'[z] = r
        BY <3>2, <2>1 DEF FactorInv, Factor!TypeOK
      <4> QED BY <4>1, <3>1, <2>4, <1>0 DEF FactorAsk, Proving
    <3>3. CASE z # s
      <4>1. proving'[z] = proving[z] /\ FactorAsk(proving[z])
        BY <3>3, <2>1 DEF FactorInv, Factor!TypeOK, FactorAsks
      <4> QED BY <4>1, <3>1, <1>1 DEF FactorAsk
    <3> QED BY <3>2, <3>3
  <2>8. DevicesSound'
    <3>1. CASE k.kind = "disable"
      <4>1. Factor!At(s, "revoke")'
        BY <3>1, <2>1, <2>4 DEF Factor!At, FactorInv, Factor!TypeOK
      <4> QED BY <4>1 DEF DevicesSound
    <3>2. CASE k.kind # "disable"
      BY <3>2, <2>3 DEF DevicesSound
    <3> QED BY <3>1, <3>2
  <2>9. CodesSound'
    BY <1>1, <2>1, <2>4, CodesKept, Zenon
  <2>10. BackupSound'
    <3>1. \A z \in Requests : ~Backing(z)'
      BY <2>3, <2>6 DEF Backing
    <3> QED BY <3>1, <2>2 DEF BackupSound
  <2>11. UserSound'
    BY <1>1, <2>3 DEF UserSound
  <2> QED BY <2>5, <2>7, <2>8, <2>9, <2>10, <2>11 DEF FactorInv
<1> QED BY <1>2, <1>3

-----------------------------------------------------------------------------
\* What is done with the devices: a sign-in adds its own, a revocation takes them all, or is
\* cut short and says so.
LEMMA FactorDevices ==
  ASSUME Factor!FactorShape, FactorInv, NEW s \in Requests,
         Factor!Revoke(s) \/ Factor!Remember(s) PROVE FactorInv'
<1>0. PICK k \in Factor!Asks : k = proving[s] /\ FactorAsk(k) /\ k.pc \in {"revoke", "remember"}
  BY DEF FactorInv, Factor!TypeOK, FactorAsks, Factor!Revoke, Factor!Remember, Factor!At
<1>1. /\ proving' = [proving EXCEPT ![s] = Factor!Idle]
      /\ UNCHANGED <<user, challenge, proved, crossed, switched, accepted, repeated, answers, shared>>
  BY DEF Factor!Revoke, Factor!Remember, Factor!Go, Factor!factors, Factor!proofs
<1>2. FactorAsk(Factor!Idle)' /\ Factor!Idle.pc = "idle" /\ Factor!Idle.kind = "none"
  BY DEF FactorAsk, Proving, Factor!Idle
<1>3. Factor!Remembering \subseteq Factor!Ids /\ k.id \in Factor!Ids
  BY DEF FactorInv, Factor!TypeOK, Factor!Remembering, Factor!Asks
<1>4. trusted' \subseteq Factor!Ids /\ missed' \subseteq Factor!Ids
  BY <1>0, <1>3
     DEF Factor!Revoke, Factor!Remember, Factor!RevokeTrusted, FactorInv, Factor!TypeOK
<1>5. Factor!TypeOK'
  BY <1>1, <1>4, BlankTyped DEF FactorInv, Factor!TypeOK
<1>6. FactorAsks'
  BY <1>1, <1>2, AsksKept, Zenon
<1>7. CodesSound'
  BY <1>1, <1>2, CodesKept, Zenon
<1>8. BackupSound'
  BY <1>1, <1>2, BackupKept, Zenon
<1>9. UserSound'
  BY <1>1 DEF FactorInv, UserSound
<1>10. Factor!Remembering' \subseteq Factor!Remembering
  BY <1>1, <1>2 DEF FactorInv, Factor!TypeOK, Factor!Remembering
<1>11. DevicesSound'
  <2>1. CASE Factor!Revoke(s)
    <3>1. trusted' \subseteq missed' /\ Factor!Remembering \subseteq missed'
      BY <2>1 DEF Factor!Revoke, Factor!RevokeTrusted
    <3> QED BY <3>1, <1>10 DEF DevicesSound
  <2>2. CASE Factor!Remember(s)
    <3> SUFFICES ASSUME user.method = "none", \A z \in Requests : ~Factor!At(z, "revoke")'
                 PROVE trusted' \subseteq missed' /\ Factor!Remembering' \subseteq missed'
      BY <1>1 DEF DevicesSound
    <3>1. k.pc = "remember" /\ missed' = missed /\ trusted' \subseteq trusted \cup {k.id}
      BY <2>2, <1>0 DEF Factor!Remember, Factor!At
    <3>2. \A z \in Requests : ~Factor!At(z, "revoke")
      BY <1>0, <1>1, <3>1 DEF Factor!At, FactorInv, Factor!TypeOK
    <3>3. trusted \subseteq missed /\ Factor!Remembering \subseteq missed
      BY <3>2 DEF FactorInv, DevicesSound
    <3>4. k.id \in Factor!Remembering
      BY <1>0, <3>1 DEF FactorAsk, Factor!Remembering
    <3> QED BY <3>1, <3>3, <3>4, <1>10
  <2> QED BY <2>1, <2>2
<1> QED BY <1>5, <1>6, <1>7, <1>8, <1>9, <1>11 DEF FactorInv

LEMMA FactorReset ==
  ASSUME Factor!FactorShape, FactorInv, Factor!ResetPassword PROVE FactorInv'
<1>1. /\ trusted' = {} /\ missed' = missed \cup Factor!Remembering
      /\ UNCHANGED <<user, challenge, proving, proved, crossed, switched, accepted, repeated, answers,
                     shared>>
  BY DEF Factor!ResetPassword, Factor!RevokeTrusted, Factor!factors, Factor!proofs
<1>2. Factor!TypeOK'
  <2>1. Factor!Remembering \subseteq Factor!Ids
    BY DEF FactorInv, Factor!TypeOK, Factor!Remembering, Factor!Asks
  <2> QED BY <1>1, <2>1 DEF FactorInv, Factor!TypeOK
<1>3. FactorAsks' /\ UserSound'
  BY <1>1 DEF FactorInv, FactorAsks, FactorAsk, UserSound
<1>4. DevicesSound'
  BY <1>1 DEF DevicesSound, Factor!Remembering
<1>5. CodesSound' /\ BackupSound'
  BY <1>1 DEF FactorInv, CodesSound, Accepting, BackupSound, Backing
<1> QED BY <1>2, <1>3, <1>4, <1>5 DEF FactorInv

\* Every step of a request, and a password reset, preserves the invariant.
LEMMA FactorStep == ASSUME Factor!FactorShape, FactorInv, [Factor!Next]_(Factor!vars) PROVE FactorInv'
<1>1. CASE UNCHANGED Factor!vars
  <2>1. UNCHANGED <<user, challenge, trusted, proving, proved, crossed, switched, missed, accepted,
                    repeated, answers, shared>>
    BY <1>1 DEF Factor!vars
  <2>2. Factor!TypeOK' /\ FactorAsks' /\ UserSound'
    BY <2>1 DEF FactorInv, Factor!TypeOK, FactorAsks, FactorAsk, UserSound
  <2>3. DevicesSound'
    BY <2>1 DEF FactorInv, DevicesSound, Factor!Remembering, Factor!At
  <2>4. CodesSound' /\ BackupSound'
    BY <2>1 DEF FactorInv, CodesSound, Accepting, BackupSound, Backing
  <2> QED BY <2>2, <2>3, <2>4 DEF FactorInv
<1>2. ASSUME NEW s \in Requests,
             \/ \E method \in Factor!Methods : Factor!Setup(s, method)
             \/ \E purpose \in {"manage", "login"} : Factor!AskCode(s, purpose)
             \/ Factor!EnableTotp(s)
             \/ \E c \in FactorCodes : Factor!EnableEmail(s, c)
             \/ \E what \in {"disable", "regenerate", "verify"} :
                  Factor!AskWithApp(s, what) \/ \E c \in FactorCodes : Factor!AskWithCode(s, what, c)
      PROVE FactorInv'
  BY <1>2, FactorAsking
<1>3. ASSUME NEW s \in Requests, NEW what \in {"disable", "regenerate", "verify"},
             Factor!AskWithBackup(s, what)
      PROVE FactorInv'
  BY <1>3, FactorBacks
<1>4. ASSUME NEW s \in Requests,
             Factor!Stage(s) \/ Factor!Sweep(s) \/ Factor!Send(s) \/ Factor!Find(s) \/ Factor!Consume(s) \/ Factor!Backup(s) \/ Factor!Save(s)
      PROVE FactorInv'
  BY <1>4, FactorStage, FactorSweep, FactorSend, FactorFind, FactorConsume, FactorBackup,
     FactorSave
<1>5. ASSUME NEW s \in Requests, Factor!Revoke(s) \/ Factor!Remember(s) PROVE FactorInv'
  BY <1>5, FactorDevices
<1>6. CASE Factor!ResetPassword
  BY <1>6, FactorReset
<1> QED BY <1>1, <1>2, <1>3, <1>4, <1>5, <1>6 DEF Factor!Next

\* The invariant gives what the run checks.
LEMMA FactorGives == ASSUME Factor!FactorShape, FactorInv PROVE Factor!FactorSound
BY DEF FactorInv, UserSound, DevicesSound, CodesSound, BackupSound, Factor!FactorSound

\* That part runs by itself.
LEMMA FactorRuns ==
  ASSUME [Next]_vars, part' = "factor"
  PROVE  part = "factor" /\ [Factor!Next]_(Factor!vars)
<1>1. CASE UNCHANGED vars
  <2>1. part' = part /\ factorVars' = factorVars
    BY <1>1 DEF vars
  <2> QED BY <2>1 DEF factorVars, Factor!vars
<1>2. CASE Next
  BY <1>2 DEF Next, Only
<1> QED BY <1>1, <1>2

\* A second factor is switched, spent and trusted once, whatever overlaps.
THEOREM FactorSoundAlways == Spec => []FactorSound
<1> DEFINE I == part = "factor" => FactorInv
<1>1. Init => I
  BY FactorInit, ProtocolShape DEF Init
<1>2. I /\ [Next]_vars => I'
  <2> SUFFICES ASSUME I, [Next]_vars, part' = "factor" PROVE FactorInv'
    OBVIOUS
  <2>1. part = "factor" /\ [Factor!Next]_(Factor!vars)
    BY FactorRuns
  <2> QED BY <2>1, FactorStep, ProtocolShape
<1>3. I => FactorSound
  BY FactorGives, ProtocolShape DEF FactorSound, FactorInv
<1> QED BY <1>1, <1>2, <1>3, PTL DEF Spec

-----------------------------------------------------------------------------

MandateLabels == {"idle", "mint", "enrolled", "confirm", "charge", "stop", "stopped", "quiet", "sync"}
MandateStatuses == {"none"} \cup Autopay!Live \cup Autopay!Ended
MandateSteps == [pc : MandateLabels, m : Mandates \cup {0}, status : MandateStatuses, cancels : BOOLEAN]

\* A mandate that will not be debited, unless it is minted yet.
Dead == {"none", "ending"} \cup Autopay!Ended

\* What a request may rely on about the mandate it works on.
StepSound(t) ==
  /\ t.pc \notin {"idle", "mint"} => t.m # 0 /\ remote[t.m] # "none"
  /\ t.pc = "enrolled" => remote[t.m] \in {"created"} \cup Dead
  /\ t.pc = "stopped" => remote[t.m] \in Dead
  /\ t.pc = "sync" => t.status = "active" \/ (t.status \in Autopay!Ended /\ remote[t.m] = t.status)
StepsSound == task \in [Requests -> MandateSteps] /\ \A s \in Requests : StepSound(task[s])

\* While no news misled the mirror: a mandate that may be debited is the one it names, or is
\* being enrolled, or was orphaned; and the one it names is over when the mirror says so, or
\* when the customer was told that it is cancelled.
Enrolling(m) == \E s \in Requests : Autopay!At(s, "enrolled") /\ task[s].m = m
MirrorSound ==
  /\ \A m \in Mandates :
       remote[m] \notin Dead => m = mirror.id \/ m \in orphans \/ Enrolling(m)
  /\ mirror.id # 0 /\ (quit \/ mirror.status \notin Autopay!Live) => remote[mirror.id] \in Dead

MandateInv == Autopay!TypeOK /\ StepsSound /\ (~misled => MirrorSound)

LEMMA MandateInit ==
  ASSUME Autopay!MandateShape, Autopay!Init
  PROVE  MandateInv
<1>1. Autopay!TypeOK
  BY Zenon DEF Autopay!MandateShape, Autopay!Init, Autopay!TypeOK, Autopay!NoMandate
<1>2. StepsSound
  BY DEF Autopay!Init, StepsSound, StepSound, Autopay!Idle, MandateSteps, MandateLabels,
         MandateStatuses
<1>3. MirrorSound
  BY DEF Autopay!Init, MirrorSound, Autopay!NoMandate, Dead
<1> QED BY <1>1, <1>2, <1>3 DEF MandateInv

\* A dead mandate stays dead, and one that exists goes on existing.
LEMMA MovesDown ==
  ASSUME Autopay!TypeOK, NEW from, NEW to, NEW news, Autopay!Moves(from, to, news),
         from \subseteq {"created", "ending"} \cup Autopay!Debiting,
         to \in Autopay!Debiting \cup Autopay!Ended,
         "ending" \in from => to \in Autopay!Ended, news \in Autopay!Events
  PROVE  /\ remote' \in [Mandates -> {"none", "created", "ending"} \cup Autopay!Debiting \cup Autopay!Ended]
         /\ sent' \in [Mandates -> SUBSET Autopay!Events]
         /\ \A n \in Mandates : /\ remote[n] \in Dead => remote'[n] \in Dead
                                /\ remote'[n] \notin Dead => remote[n] \notin Dead
                                /\ remote'[n] = "none" <=> remote[n] = "none"
                                /\ remote[n] = "none" => sent'[n] = sent[n]
                                /\ remote[n] \in Autopay!Ended => remote'[n] = remote[n]
                                /\ Enrolling(n) => remote'[n] = remote[n]
<1>1. PICK m \in Mandates :
        /\ remote[m] \in from /\ \A s \in Requests : task[s].m = m => ~Autopay!At(s, "enrolled")
        /\ remote' = [remote EXCEPT ![m] = to]
        /\ sent' = [sent EXCEPT ![m] = @ \cup {news}]
  BY Zenon DEF Autopay!Moves
<1>2. ~Enrolling(m)
  BY <1>1 DEF Enrolling
<1> QED BY <1>1, <1>2 DEF Autopay!TypeOK, Dead, Autopay!Debiting, Autopay!Ended

LEMMA MovesStep ==
  ASSUME Autopay!MandateShape, MandateInv, NEW from, NEW to, NEW news,
         Autopay!Moves(from, to, news),
         from \subseteq {"created", "ending"} \cup Autopay!Debiting,
         to \in Autopay!Debiting \cup Autopay!Ended,
         "ending" \in from => to \in Autopay!Ended, news \in Autopay!Events
  PROVE  MandateInv'
<1> USE DEF MandateInv
<1>0. UNCHANGED <<charged, mirror, task, quit, orphans, misled>>
  BY DEF Autopay!Moves, Autopay!ghosts
<1>1. /\ remote' \in [Mandates -> {"none", "created", "ending"} \cup Autopay!Debiting \cup Autopay!Ended]
      /\ sent' \in [Mandates -> SUBSET Autopay!Events]
      /\ \A n \in Mandates : /\ remote[n] \in Dead => remote'[n] \in Dead
                             /\ remote'[n] \notin Dead => remote[n] \notin Dead
                             /\ remote'[n] = "none" <=> remote[n] = "none"
                             /\ remote[n] = "none" => sent'[n] = sent[n]
                             /\ remote[n] \in Autopay!Ended => remote'[n] = remote[n]
                             /\ Enrolling(n) => remote'[n] = remote[n]
  BY MovesDown, Zenon
<1>2. Autopay!TypeOK'
  BY <1>0, <1>1 DEF Autopay!TypeOK
<1>3. StepsSound'
  <2>1. ASSUME NEW s \in Requests PROVE StepSound(task[s])'
    <3>1. StepSound(task[s]) /\ task[s] \in MandateSteps /\ task'[s] = task[s]
      BY <1>0 DEF StepsSound
    <3>2. task[s].pc \notin {"idle", "mint"} => task[s].m \in Mandates
      BY <3>1 DEF StepSound, MandateSteps
    <3>3. task[s].pc = "enrolled" => Enrolling(task[s].m)
      BY DEF Enrolling, Autopay!At
    <3> QED BY <1>1, <3>1, <3>2, <3>3 DEF StepSound
  <2> QED BY <1>0, <2>1 DEF StepsSound
<1>4. ASSUME ~misled' PROVE MirrorSound'
  <2>1. MirrorSound /\ \A n : Enrolling(n)' <=> Enrolling(n)
    BY <1>0, <1>4 DEF Enrolling, Autopay!At
  <2>2. mirror.id \in Mandates \cup {0}
    BY DEF Autopay!TypeOK
  <2> QED BY <1>0, <1>1, <2>1, <2>2 DEF MirrorSound
<1> QED BY <1>2, <1>3, <1>4

LEMMA ProviderStep ==
  ASSUME Autopay!MandateShape, MandateInv,
         Autopay!Approved \/ Autopay!Debited \/ Autopay!DebitFails \/ Autopay!GivesUp \/ Autopay!RunsOut \/ Autopay!Cancelled
  PROVE  MandateInv'
<1>1. CASE Autopay!Approved
  <2>1. Autopay!Moves({"created"}, "authenticated", "authenticated")
    BY <1>1 DEF Autopay!Approved
  <2> QED BY <2>1, MovesStep DEF Autopay!Debiting, Autopay!Events
<1>2. CASE Autopay!Debited
  <2>1. Autopay!Moves(Autopay!Debiting, "active", "charged")
    BY <1>2 DEF Autopay!Debited
  <2> QED BY <2>1, MovesStep DEF Autopay!Debiting, Autopay!Events
<1>3. CASE Autopay!DebitFails
  <2>1. Autopay!Moves({"active"}, "retrying", "pending")
    BY <1>3 DEF Autopay!DebitFails
  <2> QED BY <2>1, MovesStep DEF Autopay!Debiting, Autopay!Events
<1>4. CASE Autopay!GivesUp
  <2>1. Autopay!Moves({"retrying"}, "halted", "halted")
    BY <1>4 DEF Autopay!GivesUp
  <2> QED BY <2>1, MovesStep DEF Autopay!Debiting, Autopay!Ended, Autopay!Events
<1>5. CASE Autopay!RunsOut
  <2>1. Autopay!Moves({"active"}, "completed", "completed")
    BY <1>5 DEF Autopay!RunsOut
  <2> QED BY <2>1, MovesStep DEF Autopay!Debiting, Autopay!Ended, Autopay!Events
<1>6. CASE Autopay!Cancelled
  <2>1. Autopay!Moves(Autopay!Debiting \cup {"ending"}, "cancelled", "cancelled")
    BY <1>6 DEF Autopay!Cancelled
  <2> QED BY <2>1, MovesStep DEF Autopay!Debiting, Autopay!Ended, Autopay!Events
<1> QED BY <1>1, <1>2, <1>3, <1>4, <1>5, <1>6

-----------------------------------------------------------------------------
\* A step of a request that leaves the provider alone: what it does to its own work, and to
\* the mirror.
LEMMA MandateRequestStep ==
  ASSUME Autopay!MandateShape, MandateInv, NEW s \in Requests, NEW t \in MandateSteps,
         Autopay!Do(s, t),
         UNCHANGED <<remote, sent>>, StepSound(t),
         t.pc = "enrolled" \/ ~Autopay!At(s, "enrolled"),
         t.pc = "enrolled" => Autopay!At(s, "enrolled") /\ t.m = task[s].m,
         mirror' \in [id : Mandates \cup {0}, status : MandateStatuses, enabled : BOOLEAN],
         mirror'.id = mirror.id, charged \subseteq charged', charged' \subseteq Mandates,
         mirror'.enabled => charged' # {},
         UNCHANGED orphans, quit' \in BOOLEAN, misled' \in BOOLEAN, misled => misled',
         ~misled' /\ mirror'.id # 0 /\ (quit' \/ mirror'.status \notin Autopay!Live) =>
           quit \/ mirror.status \notin Autopay!Live \/ remote[mirror.id] \in Dead
  PROVE  MandateInv'
<1> USE DEF MandateInv
<1>1. task'[s] = t /\ task' \in [Requests -> MandateSteps]
      /\ \A z \in Requests : z # s => task'[z] = task[z]
  BY DEF Autopay!Do, StepsSound
<1>2. Autopay!TypeOK'
  BY DEF Autopay!TypeOK, MandateStatuses
<1>3. StepsSound'
  BY <1>1 DEF StepsSound, StepSound
<1>4. \A m : Enrolling(m) => Enrolling(m)'
  BY <1>1 DEF Enrolling, Autopay!At
<1>5. ASSUME ~misled' PROVE MirrorSound'
  <2>1. MirrorSound /\ ~misled
    BY <1>5
  <2> QED BY <1>4, <1>5, <2>1 DEF MirrorSound
<1> QED BY <1>2, <1>3, <1>5

\* A step that only moves a request on.
LEMMA OnlyMoves ==
  ASSUME Autopay!MandateShape, MandateInv, NEW s \in Requests, NEW t \in MandateSteps,
         Autopay!Do(s, t),
         UNCHANGED <<remote, sent, charged, mirror, Autopay!ghosts>>, StepSound(t),
         ~Autopay!At(s, "enrolled"), t.pc # "enrolled"
  PROVE  MandateInv'
<1>1. /\ mirror \in [id : Mandates \cup {0}, status : MandateStatuses, enabled : BOOLEAN]
      /\ quit \in BOOLEAN /\ misled \in BOOLEAN /\ charged \subseteq Mandates
      /\ mirror.enabled => charged # {}
  BY DEF MandateInv, Autopay!TypeOK, MandateStatuses
<1>2. UNCHANGED <<mirror, charged, quit, orphans, misled>>
  BY DEF Autopay!ghosts
<1>3. misled => misled'
  BY <1>2
<1>4. ~misled' /\ mirror'.id # 0 /\ (quit' \/ mirror'.status \notin Autopay!Live) =>
           quit \/ mirror.status \notin Autopay!Live \/ remote[mirror.id] \in Dead
  BY <1>2
<1> QED BY <1>1, <1>2, <1>3, <1>4, MandateRequestStep

LEMMA IdleSteps ==
  ASSUME Autopay!MandateShape
  PROVE  Autopay!Idle \in MandateSteps /\ Autopay!Idle.pc = "idle" /\ Autopay!Idle.m = 0 /\ StepSound(Autopay!Idle)
BY DEF Autopay!Idle, MandateSteps, MandateLabels, MandateStatuses, StepSound

LEMMA WebhookStep ==
  ASSUME Autopay!MandateShape, MandateInv, NEW m \in Mandates, NEW e \in Autopay!Events,
         Autopay!Webhook(m, e)
  PROVE  MandateInv'
<1> USE DEF MandateInv
<1>0. /\ mirror \in [id : Mandates \cup {0}, status : MandateStatuses, enabled : BOOLEAN]
      /\ mirror.enabled => charged # {}
  BY DEF Autopay!TypeOK, MandateStatuses
<1>1. UNCHANGED <<remote, sent, task, quit, orphans>>
      /\ misled' = (misled \/ m # mirror.id \/ ~Autopay!Latest(m, e))
  BY DEF Autopay!Webhook
<1>2. CASE e = "charged"
  <2>1. mirror' = Autopay!Charge(m) /\ charged' = charged \cup {m}
    BY <1>2 DEF Autopay!Webhook
  <2>2. /\ mirror' \in [id : Mandates \cup {0}, status : MandateStatuses, enabled : BOOLEAN]
        /\ mirror'.id = mirror.id /\ (mirror'.status = mirror.status \/ mirror'.status = "active")
    BY <1>0, <2>1, Zenon DEF Autopay!Charge, MandateStatuses, Autopay!Live
  <2>3. Autopay!TypeOK'
    BY <1>1, <2>1, <2>2 DEF Autopay!TypeOK, MandateStatuses
  <2>4. StepsSound'
    BY <1>1 DEF StepsSound, StepSound
  <2>5. ASSUME ~misled' PROVE MirrorSound'
    <3>1. MirrorSound
      BY <1>1, <2>5, Zenon
    <3> QED BY <1>1, <2>2, <3>1 DEF MirrorSound, Enrolling, Autopay!At, Autopay!Live
  <2> QED BY <2>3, <2>4, <2>5
<1>3. CASE e # "charged"
  <2>1. mirror' = Autopay!Mirrored(e) /\ charged' = charged
    BY <1>3 DEF Autopay!Webhook
  <2>2. /\ mirror' \in [id : Mandates \cup {0}, status : MandateStatuses, enabled : BOOLEAN]
        /\ mirror'.id = mirror.id /\ mirror'.status = e /\ (mirror'.enabled => mirror.enabled)
    BY <1>0, <1>3, <2>1, Zenon
       DEF Autopay!Mirrored, MandateStatuses, Autopay!Live, Autopay!Events, Autopay!Ended
  <2>3. Autopay!TypeOK'
    BY <1>0, <1>1, <2>1, <2>2 DEF Autopay!TypeOK, MandateStatuses
  <2>4. StepsSound'
    BY <1>1 DEF StepsSound, StepSound
  <2>5. ASSUME ~misled' PROVE MirrorSound'
    <3>1. MirrorSound /\ m = mirror.id /\ Autopay!Latest(m, e)
      BY <1>1, <2>5, Zenon
    <3>2. e \notin Autopay!Live => remote[mirror.id] \in Dead
      BY <1>3, <3>1 DEF Autopay!Latest, Autopay!Events, Autopay!Live, Dead, Autopay!Ended
    <3> QED BY <1>1, <2>2, <3>1, <3>2 DEF MirrorSound, Enrolling, Autopay!At
  <2> QED BY <2>3, <2>4, <2>5
<1> QED BY <1>2, <1>3

LEMMA EnrolStep ==
  ASSUME Autopay!MandateShape, MandateInv, NEW s \in Requests, Autopay!Enrol(s)
  PROVE  MandateInv'
<1>1. PICK t : t = [Autopay!Idle EXCEPT !.pc = "mint"] /\ Autopay!Do(s, t)
  BY DEF Autopay!Enrol
<1>2. t \in MandateSteps /\ t.pc = "mint" /\ StepSound(t)
  BY <1>1, Zenon DEF Autopay!Idle, MandateSteps, MandateLabels, MandateStatuses, StepSound
<1> QED BY <1>1, <1>2, OnlyMoves, Zenon DEF Autopay!Enrol, Autopay!Free, Autopay!At

LEMMA MintStep ==
  ASSUME Autopay!MandateShape, MandateInv, NEW s \in Requests, Autopay!Mint(s)
  PROVE  MandateInv'
<1> USE DEF MandateInv
<1>1. PICK m \in Mandates :
        /\ remote[m] = "none" /\ remote' = [remote EXCEPT ![m] = "created"]
        /\ Autopay!Do(s, [Autopay!Idle EXCEPT !.pc = "enrolled", !.m = m])
  BY Zenon DEF Autopay!Mint
<1>2. PICK t : t = [Autopay!Idle EXCEPT !.pc = "enrolled", !.m = m] /\ Autopay!Do(s, t)
  BY <1>1
<1>3. /\ UNCHANGED <<sent, charged, mirror, orphans, misled>> /\ quit' = FALSE
      /\ Autopay!At(s, "mint")
  BY DEF Autopay!Mint
<1>4. t \in MandateSteps /\ t.pc = "enrolled" /\ t.m = m
  BY <1>2, Zenon DEF Autopay!Idle, MandateSteps, MandateLabels, MandateStatuses
<1>5. task'[s] = t /\ task' \in [Requests -> MandateSteps] /\ \A z \in Requests : z # s => task'[z] = task[z]
  BY <1>2, <1>4 DEF Autopay!Do, StepsSound
<1>6. /\ remote'[m] = "created" /\ \A n \in Mandates : n # m => remote'[n] = remote[n]
      /\ remote' \in [Mandates -> {"none", "created", "ending"} \cup Autopay!Debiting \cup Autopay!Ended]
      /\ m # mirror.id
  BY <1>1 DEF Autopay!TypeOK
<1>7. Autopay!TypeOK'
  BY <1>3, <1>6, Zenon DEF Autopay!TypeOK
<1>8. StepsSound'
  <2>1. StepSound(t)'
    BY <1>4, <1>6, Autopay!MandateShape DEF StepSound, Autopay!MandateShape
  <2>2. ASSUME NEW z \in Requests, z # s PROVE StepSound(task[z])'
    <3>1. StepSound(task[z]) /\ task[z] \in MandateSteps
      BY DEF StepsSound
    <3>2. task[z].pc \notin {"idle", "mint"} => task[z].m \in Mandates /\ task[z].m # m
      BY <1>1, <3>1 DEF StepSound, MandateSteps
    <3> QED BY <1>5, <1>6, <2>2, <3>1, <3>2 DEF StepSound
  <2>3. StepSound(task[s])'
    BY <1>5, <2>1 DEF StepSound
  <2> QED BY <1>5, <2>2, <2>3 DEF StepsSound
<1>9. ASSUME ~misled' PROVE MirrorSound'
  <2>1. MirrorSound
    BY <1>3, <1>9
  <2>2. \A n : Enrolling(n) => Enrolling(n)'
    BY <1>3, <1>5 DEF Enrolling, Autopay!At
  <2>3. Enrolling(m)'
    BY <1>4, <1>5 DEF Enrolling, Autopay!At
  <2>4. mirror.id # 0 => mirror.id \in Mandates
    BY DEF Autopay!TypeOK
  <2> QED BY <1>3, <1>6, <2>1, <2>2, <2>3, <2>4 DEF MirrorSound
<1> QED BY <1>7, <1>8, <1>9

\* The mandate that is replaced is over, or counted an orphan.
LEMMA SaveEnrolmentStep ==
  ASSUME Autopay!MandateShape, MandateInv, NEW s \in Requests, Autopay!SaveEnrolment(s)
  PROVE  MandateInv'
<1> USE DEF MandateInv
<1> DEFINE m == task[s].m
<1>1. /\ Autopay!At(s, "enrolled") /\ task[s] \in MandateSteps /\ StepSound(task[s])
      /\ m \in Mandates /\ m # 0 /\ remote[m] # "none"
  BY DEF Autopay!SaveEnrolment, StepsSound, StepSound, MandateSteps, Autopay!At
<1>2. /\ mirror' = [mirror EXCEPT !.id = m, !.status = "pending"]
      /\ orphans' = IF Autopay!IsLive THEN orphans \cup {mirror.id} ELSE orphans
      /\ quit' = FALSE /\ Autopay!Do(s, Autopay!Idle) /\ UNCHANGED <<remote, sent, charged, misled>>
  BY DEF Autopay!SaveEnrolment
<1>3. task'[s] = Autopay!Idle /\ task' \in [Requests -> MandateSteps] /\ \A z \in Requests : z # s => task'[z] = task[z]
  BY <1>2, IdleSteps DEF Autopay!Do, StepsSound
<1>4. mirror'.id = m /\ mirror'.status = "pending" /\ mirror'.enabled = mirror.enabled
      /\ mirror' \in [id : Mandates \cup {0}, status : {"none"} \cup Autopay!Live \cup Autopay!Ended, enabled : BOOLEAN]
  BY <1>1, <1>2, Zenon DEF Autopay!TypeOK, Autopay!Live
<1>5. Autopay!TypeOK'
  <2>1. orphans' \subseteq Mandates
    BY <1>2 DEF Autopay!TypeOK, Autopay!IsLive
  <2> QED BY <1>1, <1>2, <1>4, <2>1, Zenon DEF Autopay!TypeOK
<1>6. StepsSound'
  BY <1>2, <1>3, IdleSteps DEF StepsSound, StepSound
<1>7. ASSUME ~misled' PROVE MirrorSound'
  <2>1. MirrorSound
    BY <1>2, <1>7
  <2>2. mirror.id # 0 /\ remote[mirror.id] \notin Dead => mirror.id \in orphans'
    BY <1>2, <2>1 DEF MirrorSound, Autopay!IsLive
  <2>3. ASSUME NEW n \in Mandates, Enrolling(n), n # m PROVE Enrolling(n)'
    BY <1>3, <2>3 DEF Enrolling, Autopay!At
  <2>4. \A n \in Mandates : n # 0
    BY DEF Autopay!MandateShape
  <2>5. orphans \subseteq orphans'
    BY <1>2
  <2> QED BY <1>2, <1>4, <2>1, <2>2, <2>3, <2>4, <2>5 DEF MirrorSound, Autopay!Live
<1> QED BY <1>5, <1>6, <1>7

LEMMA ConfirmStep ==
  ASSUME Autopay!MandateShape, MandateInv, NEW s \in Requests, Autopay!Confirm(s)
  PROVE  MandateInv'
<1>1. PICK t : t = [Autopay!Idle EXCEPT !.pc = "confirm", !.m = mirror.id, !.status = mirror.status]
               /\ Autopay!Do(s, t)
  BY DEF Autopay!Confirm
<1>2. mirror.id \in Mandates /\ mirror.status \in MandateStatuses /\ remote[mirror.id] # "none"
  BY DEF Autopay!Confirm, MandateInv, Autopay!TypeOK, MandateStatuses
<1>3. t \in MandateSteps /\ t.pc = "confirm" /\ t.m = mirror.id
  BY <1>1, <1>2, Zenon DEF Autopay!Idle, MandateSteps, MandateLabels
<1>4. StepSound(t)
  BY <1>2, <1>3 DEF StepSound, Autopay!MandateShape
<1> QED BY <1>1, <1>3, <1>4, OnlyMoves, Zenon DEF Autopay!Confirm, Autopay!Free, Autopay!At

LEMMA MirrorFacts ==
  ASSUME Autopay!MandateShape, MandateInv, NEW s \in Requests
  PROVE  /\ mirror \in [id : Mandates \cup {0}, status : MandateStatuses, enabled : BOOLEAN]
         /\ mirror.enabled => charged # {}
         /\ quit \in BOOLEAN /\ misled \in BOOLEAN /\ charged \subseteq Mandates
         /\ task[s] \in MandateSteps /\ StepSound(task[s])
         /\ ~Autopay!At(s, "idle") /\ ~Autopay!At(s, "mint") => task[s].m \in Mandates
BY DEF MandateInv, Autopay!TypeOK, MandateStatuses, StepsSound, StepSound, MandateSteps,
       Autopay!At

LEMMA SaveConfirmedStep ==
  ASSUME Autopay!MandateShape, MandateInv, NEW s \in Requests, Autopay!SaveConfirmed(s)
  PROVE  MandateInv'
<1>1. /\ mirror \in [id : Mandates \cup {0}, status : MandateStatuses, enabled : BOOLEAN]
      /\ mirror.enabled => charged # {}
      /\ quit \in BOOLEAN /\ misled \in BOOLEAN /\ charged \subseteq Mandates
      /\ task[s] \in MandateSteps /\ StepSound(task[s]) /\ Autopay!At(s, "confirm") /\ ~Autopay!At(s, "enrolled")
  BY MirrorFacts DEF Autopay!SaveConfirmed, Autopay!At
<1>2. PICK t \in {[task[s] EXCEPT !.pc = "charge"], Autopay!Idle} : Autopay!Do(s, t)
  BY DEF Autopay!SaveConfirmed
<1>3. t \in MandateSteps /\ StepSound(t) /\ t.pc # "enrolled"
  BY <1>1, <1>2, IdleSteps DEF MandateSteps, MandateLabels, StepSound, Autopay!At
<1>4. /\ mirror' \in [id : Mandates \cup {0}, status : MandateStatuses, enabled : BOOLEAN]
      /\ mirror'.id = mirror.id /\ mirror'.enabled = mirror.enabled
      /\ (mirror'.status = mirror.status \/ mirror'.status \in Autopay!Live)
  BY <1>1 DEF Autopay!SaveConfirmed, MandateStatuses, Autopay!Live
<1>5. UNCHANGED <<remote, sent, charged, quit, orphans>>
      /\ misled' = (misled \/ mirror.status # task[s].status \/ mirror.id # task[s].m)
  BY DEF Autopay!SaveConfirmed
<1>6. misled' \in BOOLEAN /\ (misled => misled')
  BY <1>1, <1>5
<1> QED BY <1>1, <1>2, <1>3, <1>4, <1>5, <1>6, MandateRequestStep

LEMMA ConfirmChargeStep ==
  ASSUME Autopay!MandateShape, MandateInv, NEW s \in Requests, Autopay!ConfirmCharge(s)
  PROVE  MandateInv'
<1>1. /\ mirror \in [id : Mandates \cup {0}, status : MandateStatuses, enabled : BOOLEAN]
      /\ mirror.enabled => charged # {}
      /\ quit \in BOOLEAN /\ misled \in BOOLEAN /\ charged \subseteq Mandates
      /\ task[s].m \in Mandates /\ ~Autopay!At(s, "enrolled")
  BY MirrorFacts DEF Autopay!ConfirmCharge, Autopay!At
<1>2. /\ Autopay!Do(s, Autopay!Idle) /\ mirror' = Autopay!Charge(task[s].m) /\ charged' = charged \cup {task[s].m}
      /\ UNCHANGED <<remote, sent, quit, orphans>>
      /\ misled' = (misled \/ mirror.id # task[s].m \/ remote[task[s].m] # "active")
  BY DEF Autopay!ConfirmCharge
<1>3. /\ mirror' \in [id : Mandates \cup {0}, status : MandateStatuses, enabled : BOOLEAN]
      /\ mirror'.id = mirror.id /\ charged' # {} /\ charged' \subseteq Mandates
      /\ (mirror'.status = mirror.status \/ mirror'.status \in Autopay!Live)
  BY <1>1, <1>2, Zenon DEF Autopay!Charge, MandateStatuses, Autopay!Live
<1>4. misled' \in BOOLEAN /\ (misled => misled')
  BY <1>1, <1>2
<1> QED BY <1>1, <1>2, <1>3, <1>4, IdleSteps, MandateRequestStep

LEMMA StopStep ==
  ASSUME Autopay!MandateShape, MandateInv, NEW s \in Requests, NEW cancels \in BOOLEAN,
         Autopay!Stop(s, cancels)
  PROVE  MandateInv'
<1>1. CASE Autopay!IsLive
  <2>1. PICK t : t = [Autopay!Idle EXCEPT !.pc = "stop", !.m = mirror.id, !.cancels = cancels] /\ Autopay!Do(s, t)
    BY <1>1 DEF Autopay!Stop
  <2>2. mirror.id \in Mandates /\ remote[mirror.id] # "none"
    BY <1>1 DEF Autopay!IsLive, MandateInv, Autopay!TypeOK
  <2>3. t \in MandateSteps /\ t.pc = "stop" /\ t.m = mirror.id
    BY <2>1, <2>2, Zenon DEF Autopay!Idle, MandateSteps, MandateLabels, MandateStatuses
  <2>4. StepSound(t)
    BY <2>2, <2>3 DEF StepSound, Autopay!MandateShape
  <2>5. UNCHANGED <<remote, sent, charged, mirror, Autopay!ghosts>> /\ ~Autopay!At(s, "enrolled")
    BY <1>1 DEF Autopay!Stop, Autopay!ghosts, Autopay!Free, Autopay!At
  <2> QED BY <2>1, <2>3, <2>4, <2>5, OnlyMoves, Zenon
<1>2. CASE ~Autopay!IsLive
  <2>1. quit' = TRUE /\ UNCHANGED <<remote, sent, charged, mirror, task, orphans, misled>>
    BY <1>2 DEF Autopay!Stop
  <2>2. Autopay!TypeOK' /\ StepsSound'
    BY <2>1 DEF MandateInv, Autopay!TypeOK, StepsSound, StepSound
  <2>3. ASSUME ~misled' PROVE MirrorSound'
    <3>1. MirrorSound
      BY <2>1, <2>3 DEF MandateInv
    <3> QED BY <1>2, <2>1, <3>1 DEF MirrorSound, Enrolling, Autopay!At, Autopay!IsLive
  <2> QED BY <2>2, <2>3 DEF MandateInv
<1> QED BY <1>1, <1>2

LEMMA StopAtProviderStep ==
  ASSUME Autopay!MandateShape, MandateInv, NEW s \in Requests, NEW ok \in BOOLEAN,
         Autopay!StopAtProvider(s, ok)
  PROVE  MandateInv'
<1> USE DEF MandateInv
<1>1. task[s] \in MandateSteps /\ StepSound(task[s]) /\ Autopay!At(s, "stop")
      /\ task[s].m \in Mandates
  BY MirrorFacts DEF Autopay!StopAtProvider, Autopay!At
<1>2. PICK m \in Mandates : m = task[s].m /\ remote[m] # "none" /\ m # 0
  BY <1>1 DEF StepSound, Autopay!At
<1>3. UNCHANGED <<sent, charged, mirror, quit, orphans, misled>>
  BY DEF Autopay!StopAtProvider, Autopay!ghosts
<1>4. PICK r \in {remote[m], "cancelled", "ending"} :
        remote' = [remote EXCEPT ![m] = r]
  <2>1. remote \in [Mandates -> {"none", "created", "ending"} \cup Autopay!Debiting \cup Autopay!Ended]
    BY DEF Autopay!TypeOK
  <2> QED BY <1>2, <2>1, Zenon DEF Autopay!StopAtProvider
<1>5. /\ remote' \in [Mandates -> {"none", "created", "ending"} \cup Autopay!Debiting \cup Autopay!Ended]
      /\ \A n \in Mandates : /\ remote[n] \in Dead => remote'[n] \in Dead
                             /\ remote'[n] \notin Dead => remote[n] \notin Dead
                             /\ remote'[n] = "none" <=> remote[n] = "none"
                             /\ remote'[n] # remote[n] => remote'[n] \in Dead
      /\ \A n \in Mandates : remote[n] \in Autopay!Ended => remote'[n] = remote[n]
  <2>1. r # remote[m] => remote[m] \notin Autopay!Ended
    BY <1>2, <1>4 DEF Autopay!StopAtProvider, Autopay!TypeOK
  <2> QED BY <1>2, <1>4, <2>1 DEF Autopay!TypeOK, Dead, Autopay!Ended
<1>6. PICK t : /\ Autopay!Do(s, t)
               /\ \/ t = Autopay!Idle
                  \/ t = [task[s] EXCEPT !.pc = "stopped"] /\ remote'[m] \in Dead
  <2>1. CASE ok /\ remote[m] \notin Autopay!Ended
    BY <1>2, <2>1 DEF Autopay!StopAtProvider, Autopay!TypeOK, Dead, Autopay!Ended
  <2>2. CASE ~(ok /\ remote[m] \notin Autopay!Ended)
    <3>1. remote' = remote \/ remote[m] \in Autopay!Ended
      BY <1>2, <2>2 DEF Autopay!StopAtProvider
    <3>2. Autopay!Over(m) => remote'[m] \in Dead
      BY <1>5, <3>1 DEF Autopay!Over, Dead, Autopay!Ended
    <3> QED BY <1>2, <2>2, <3>2 DEF Autopay!StopAtProvider
  <2> QED BY <2>1, <2>2
<1>7. /\ t \in MandateSteps /\ t.pc \in {"idle", "stopped"}
      /\ t.pc = "stopped" => t.m = m /\ remote'[m] \in Dead
  BY <1>1, <1>2, <1>6, IdleSteps DEF MandateSteps, MandateLabels
<1>8. task'[s] = t /\ task' \in [Requests -> MandateSteps] /\ \A z \in Requests : z # s => task'[z] = task[z]
  BY <1>6, <1>7 DEF Autopay!Do, StepsSound
<1>9. Autopay!TypeOK'
  BY <1>3, <1>5 DEF Autopay!TypeOK
<1>10. StepsSound'
  <2>1. ASSUME NEW z \in Requests, z # s PROVE StepSound(task[z])'
    <3>1. StepSound(task[z]) /\ task[z] \in MandateSteps
      BY DEF StepsSound
    <3>2. task[z].pc \notin {"idle", "mint"} => task[z].m \in Mandates
      BY <3>1 DEF StepSound, MandateSteps
    <3> QED BY <1>5, <1>8, <2>1, <3>1, <3>2 DEF StepSound
  <2>2. StepSound(task[s])'
    BY <1>2, <1>5, <1>7, <1>8 DEF StepSound
  <2> QED BY <1>8, <2>1, <2>2 DEF StepsSound
<1>11. ASSUME ~misled' PROVE MirrorSound'
  <2>1. MirrorSound
    BY <1>3, <1>11
  <2>2. \A n : Enrolling(n) => Enrolling(n)'
    BY <1>1, <1>8 DEF Enrolling, Autopay!At
  <2>3. mirror.id # 0 => mirror.id \in Mandates
    BY DEF Autopay!TypeOK
  <2> QED BY <1>3, <1>5, <2>1, <2>2, <2>3 DEF MirrorSound
<1> QED BY <1>9, <1>10, <1>11

LEMMA StopLocallyStep ==
  ASSUME Autopay!MandateShape, MandateInv, NEW s \in Requests, Autopay!StopLocally(s)
  PROVE  MandateInv'
<1>1. /\ mirror \in [id : Mandates \cup {0}, status : MandateStatuses, enabled : BOOLEAN]
      /\ quit \in BOOLEAN /\ misled \in BOOLEAN /\ charged \subseteq Mandates
      /\ task[s] \in MandateSteps /\ remote[task[s].m] \in Dead /\ ~Autopay!At(s, "enrolled")
  BY MirrorFacts DEF Autopay!StopLocally, Autopay!At, StepSound
<1>2. /\ mirror' = [mirror EXCEPT !.status = "cancelled", !.enabled = FALSE]
      /\ misled' = (misled \/ mirror.id # task[s].m) /\ quit' = (quit \/ task[s].cancels)
      /\ Autopay!Do(s, Autopay!Idle) /\ UNCHANGED <<remote, sent, charged, orphans>>
  BY DEF Autopay!StopLocally
<1>3. /\ mirror' \in [id : Mandates \cup {0}, status : MandateStatuses, enabled : BOOLEAN]
      /\ mirror'.id = mirror.id /\ mirror'.enabled = FALSE
  BY <1>1, <1>2, Zenon DEF MandateStatuses, Autopay!Ended
<1>4. task[s].cancels \in BOOLEAN
  BY <1>1 DEF MandateSteps
<1>5. misled' \in BOOLEAN /\ quit' \in BOOLEAN /\ (misled => misled')
  BY <1>1, <1>2, <1>4
<1>6. ~misled' => remote[mirror.id] \in Dead
  BY <1>1, <1>2, Zenon
<1> QED BY <1>1, <1>2, <1>3, <1>5, <1>6, IdleSteps, MandateRequestStep

LEMMA QuietStep ==
  ASSUME Autopay!MandateShape, MandateInv, NEW s \in Requests,
         Autopay!FindQuiet(s) \/ Autopay!ReadRemote(s)
  PROVE  MandateInv'
<1>1. CASE Autopay!FindQuiet(s)
  <2>1. PICK t : t = [Autopay!Idle EXCEPT !.pc = "quiet", !.m = mirror.id] /\ Autopay!Do(s, t)
    BY <1>1 DEF Autopay!FindQuiet
  <2>2. mirror.id \in Mandates /\ remote[mirror.id] # "none"
    BY <1>1 DEF Autopay!FindQuiet, MandateInv, Autopay!TypeOK
  <2>3. t \in MandateSteps /\ t.pc = "quiet" /\ t.m = mirror.id
    BY <2>1, <2>2, Zenon DEF Autopay!Idle, MandateSteps, MandateLabels, MandateStatuses
  <2>4. StepSound(t)
    BY <2>2, <2>3 DEF StepSound, Autopay!MandateShape
  <2> QED BY <1>1, <2>1, <2>3, <2>4, OnlyMoves, Zenon
     DEF Autopay!FindQuiet, Autopay!Free, Autopay!At
<1>2. CASE Autopay!ReadRemote(s)
  <2>1. PICK t : /\ t = [task[s] EXCEPT !.pc = "sync",
                          !.status = IF remote[task[s].m] \in Autopay!Ended THEN remote[task[s].m] ELSE "active"]
                 /\ Autopay!Do(s, t)
    BY <1>2 DEF Autopay!ReadRemote
  <2>2. task[s] \in MandateSteps /\ StepSound(task[s]) /\ Autopay!At(s, "quiet")
    BY <1>2, MirrorFacts DEF Autopay!ReadRemote
  <2>3. /\ t \in MandateSteps /\ t.pc = "sync" /\ t.m = task[s].m
        /\ t.status = "active" \/ (t.status \in Autopay!Ended /\ t.status = remote[t.m])
    BY <2>1, <2>2, Zenon
       DEF MandateSteps, MandateLabels, MandateStatuses, Autopay!Live, Autopay!Ended
  <2>4. StepSound(t)
    BY <2>2, <2>3 DEF StepSound, Autopay!At
  <2> QED BY <1>2, <2>1, <2>3, <2>4, OnlyMoves, Zenon DEF Autopay!ReadRemote, Autopay!At
<1> QED BY <1>1, <1>2

LEMMA SyncMirrorStep ==
  ASSUME Autopay!MandateShape, MandateInv, NEW s \in Requests, Autopay!SyncMirror(s)
  PROVE  MandateInv'
<1>1. /\ mirror \in [id : Mandates \cup {0}, status : MandateStatuses, enabled : BOOLEAN]
      /\ mirror.enabled => charged # {}
      /\ quit \in BOOLEAN /\ misled \in BOOLEAN /\ charged \subseteq Mandates
      /\ task[s] \in MandateSteps /\ ~Autopay!At(s, "enrolled")
      /\ task[s].status = "active" \/ (task[s].status \in Autopay!Ended /\ remote[task[s].m] = task[s].status)
  BY MirrorFacts DEF Autopay!SyncMirror, Autopay!At, StepSound
<1>2. /\ misled' = (misled \/ mirror.id # task[s].m)
      /\ Autopay!Do(s, Autopay!Idle) /\ UNCHANGED <<remote, sent, charged, quit, orphans>>
  BY DEF Autopay!SyncMirror
<1>3. misled' \in BOOLEAN /\ (misled => misled')
  BY <1>1, <1>2
<1>4. /\ mirror' \in [id : Mandates \cup {0}, status : MandateStatuses, enabled : BOOLEAN]
      /\ mirror'.id = mirror.id /\ mirror'.status = task[s].status
      /\ mirror'.enabled => mirror.enabled
  BY <1>1, Zenon DEF Autopay!SyncMirror, MandateSteps, MandateStatuses, Autopay!Live
<1>5. ~misled' /\ mirror'.status \notin Autopay!Live => remote[mirror.id] \in Dead
  BY <1>1, <1>2, <1>4, Zenon DEF Dead, Autopay!Live
<1> QED BY <1>1, <1>2, <1>3, <1>4, <1>5, IdleSteps, MandateRequestStep

LEMMA MandateStep ==
  ASSUME Autopay!MandateShape, MandateInv, [Autopay!Next]_(Autopay!vars)
  PROVE  MandateInv'
<1>1. CASE UNCHANGED Autopay!vars
  BY <1>1 DEF Autopay!vars, MandateInv, Autopay!TypeOK, StepsSound, StepSound, MirrorSound,
         Enrolling, Autopay!At
<1>2. CASE Autopay!Next
  BY <1>2, ProviderStep, WebhookStep, EnrolStep, MintStep, SaveEnrolmentStep, ConfirmStep,
     SaveConfirmedStep, ConfirmChargeStep, StopStep, StopAtProviderStep, StopLocallyStep,
     QuietStep, SyncMirrorStep DEF Autopay!Next
<1> QED BY <1>1, <1>2

LEMMA MandateGives ==
  ASSUME Autopay!MandateShape, MandateInv
  PROVE  Autopay!CancelledStopsDebits
<1> SUFFICES ASSUME quit, NEW m \in Mandates, remote[m] \in Autopay!Debiting, ~misled
             PROVE  m \in orphans
  BY DEF Autopay!CancelledStopsDebits
<1>1. MirrorSound /\ m # 0 /\ remote[m] \notin Dead
  BY DEF MandateInv, Autopay!MandateShape, Dead, Autopay!Debiting, Autopay!Ended
<1>2. ~Enrolling(m)
  BY DEF Enrolling, Autopay!At, MandateInv, StepsSound, StepSound, Dead, Autopay!Debiting,
         Autopay!Ended
<1> QED BY <1>1, <1>2 DEF MirrorSound

\* That part runs by itself.
LEMMA MandateRuns ==
  ASSUME [Next]_vars, part' = "mandate"
  PROVE  part = "mandate" /\ [Autopay!Next]_(Autopay!vars)
<1>1. CASE UNCHANGED vars
  <2>1. part' = part /\ mandateVars' = mandateVars
    BY <1>1 DEF vars
  <2> QED BY <2>1 DEF mandateVars, Autopay!vars
<1>2. CASE Next
  BY <1>2 DEF Next, Only
<1> QED BY <1>1, <1>2

\* A customer who cancelled is not debited again, however cancellations, webhooks and enrolments
\* overlap (billingService.js).
THEOREM CancelledStopsDebitsAlways == Spec => []CancelledStopsDebits
<1> DEFINE I == /\ part = "mandate" => MandateInv
<1>1. Init => I
  BY MandateInit, ProtocolShape DEF Init
<1>2. I /\ [Next]_vars => I'
  <2> SUFFICES ASSUME I, [Next]_vars PROVE I'
    OBVIOUS
  <2>1. part' = "mandate" => MandateInv'
    <3> SUFFICES ASSUME part' = "mandate" PROVE MandateInv'
      OBVIOUS
    <3>1. part = "mandate" /\ [Autopay!Next]_(Autopay!vars)
      BY MandateRuns
    <3> QED BY <3>1, MandateStep, ProtocolShape
  <2> QED BY <2>1
<1>3. I => CancelledStopsDebits
  BY MandateGives, ProtocolShape DEF CancelledStopsDebits, MandateInv
<1> QED BY <1>1, <1>2, <1>3, PTL DEF Spec

-----------------------------------------------------------------------------
\* Sets are counted in the module as they are here.
LEMMA PerkSets == \A S : /\ Rewards!Cardinality(S) = Cardinality(S)
                         /\ Rewards!IsFiniteSet(S) <=> IsFiniteSet(S)
BY DEF Rewards!Cardinality, Cardinality, Rewards!IsFiniteSet, IsFiniteSet

LEMMA PerkCounted ==
  ASSUME NEW S, Rewards!IsFiniteSet(S)
  PROVE  Rewards!Cardinality(S) \in Nat
BY PerkSets, FS_CardinalityType

LEMMA PerkEmpty ==
  /\ Rewards!IsFiniteSet({}) /\ Rewards!Cardinality({}) = 0
  /\ \A S : Rewards!IsFiniteSet(S) => (Rewards!Cardinality(S) = 0 <=> S = {})
BY PerkSets, FS_EmptySet

LEMMA PerkSubset ==
  ASSUME NEW S, Rewards!IsFiniteSet(S), NEW T \in SUBSET S
  PROVE  /\ Rewards!IsFiniteSet(T)
         /\ Rewards!Cardinality(T) <= Rewards!Cardinality(S)
BY PerkSets, FS_Subset

LEMMA PerkAdded ==
  ASSUME NEW S, NEW x, Rewards!IsFiniteSet(S)
  PROVE  /\ Rewards!IsFiniteSet(S \cup {x})
         /\ Rewards!Cardinality(S \cup {x}) =
              IF x \in S THEN Rewards!Cardinality(S) ELSE Rewards!Cardinality(S) + 1
BY PerkSets, FS_AddElement

LEMMA PerkRemoved ==
  ASSUME NEW S, NEW x, Rewards!IsFiniteSet(S)
  PROVE  /\ Rewards!IsFiniteSet(S \ {x})
         /\ Rewards!Cardinality(S \ {x}) =
              IF x \in S THEN Rewards!Cardinality(S) - 1 ELSE Rewards!Cardinality(S)
BY PerkSets, FS_RemoveElement

\* A set of slots with one more, or one less, of them.
LEMMA AddOne ==
  ASSUME NEW S, Rewards!IsFiniteSet(S), NEW A \in SUBSET S, NEW s \in S \ A
  PROVE  Rewards!Cardinality(A) \in Nat /\ Rewards!Cardinality(A \cup {s}) = Rewards!Cardinality(A) + 1
<1>1. Rewards!IsFiniteSet(A)
  BY PerkSubset
<1> QED BY <1>1, PerkCounted, PerkAdded

LEMMA TakeOne ==
  ASSUME NEW S, Rewards!IsFiniteSet(S), NEW A \in SUBSET S, NEW s \in A
  PROVE  Rewards!Cardinality(A) \in Nat \ {0} /\ Rewards!Cardinality(A \ {s}) = Rewards!Cardinality(A) - 1
<1>1. Rewards!IsFiniteSet(A)
  BY PerkSubset
<1>2. Rewards!Cardinality(A) \in Nat /\ Rewards!Cardinality(A) # 0
  BY <1>1, PerkCounted, PerkEmpty
<1> QED BY <1>1, <1>2, PerkRemoved, Zenon

\* The steps of a request: those after a referral is rewarded, and those of a confirmed
\* payment.
PerkPcs == {"idle", "refer", "reward", "read", "extend", "record", "plan", "write", "claim", "row",
            "convert", "mark", "release", "return"}
Granted == {"reward", "read", "extend", "record"}
Honouring == {"read", "extend", "record"}
Confirming == {"plan", "write", "claim", "row", "convert", "mark"}

\* What the step a request stands at says of what it works for.
Chores == [pc : PerkPcs, b : Referred \cup {Rewards!Referrer}, p : Payments \cup {0},
           rule : Rewards!Rules \cup {"none"}, copy : Nat]
Errand(t) ==
  /\ t \in Chores
  /\ t.pc \in Granted \cup Confirming \cup {"refer"} => t.b \in Referred
  /\ t.pc = "refer" => t.rule = "referral_signup"
  /\ t.pc \in Granted => t.rule \in Rewards!Rules
  /\ t.pc \in Confirming => t.rule = "referral_conversion"
  /\ t.rule = "referral_conversion" =>
       t.p \in Payments /\ OwnerOf[t.p] = t.b /\ paid[t.p] # "open"
  /\ t.pc \in Granted /\ t.rule = "referral_conversion" => ref[t.b] = "converted"
  /\ t.pc = "mark" => ref[t.b] # "none"
  /\ t.pc \in {"read", "extend"} => <<t.b, t.rule>> \in rewards \ added
  /\ t.pc = "record" => <<t.b, t.rule>> \in added \ honoured
  /\ t.pc \in {"release", "return"} => t.p \in Payments

Errands == perk \in [Requests -> Chores] /\ \A s \in Requests : Errand(perk[s])

\* A redemption is written once, and one that a refund passed by is known to be late.
Excused(p) == paid[p] = "refunded" => p \in late \/ Rewards!Active(p, {"release"})
HeldOut == {s \in Requests : perk[s].pc \in {"row", "return"}}
Writing(t) == t.pc \in {"plan", "write", "claim", "row"}
SlotsHeld ==
  /\ count <= CouponCap
  /\ leaked \in Nat /\ Rewards!IsFiniteSet(lost)
  /\ count = leaked + Rewards!Cardinality(redemptions) + Rewards!Cardinality(HeldOut)
  /\ \A p \in redemptions : paid[p] # "open" /\ Excused(p)
  /\ \A s \in Requests : Writing(perk[s]) => perk[s].p \notin redemptions /\ Excused(perk[s].p)
  /\ \A s, z \in Requests : Writing(perk[s]) /\ Writing(perk[z]) /\ perk[s].p = perk[z].p => s = z

\* A reward is granted by one request, and one request holds the period a business has,
\* short of those that read it together.
Gets(t) == Rewards!Beneficiary(<<t.b, t.rule>>)
HasRead(t, x) == (t.pc = "extend" /\ Gets(t) = x) \/ (t.pc = "write" /\ t.b = x)
OneHonours ==
  \A s, z \in Requests :
    perk[s].pc \in Honouring /\ perk[z].pc \in Honouring /\ Rewards!Grant(s) = Rewards!Grant(z) => s = z
CopiesFresh ==
  \A s \in Requests : \A x \in (Referred \cup {Rewards!Referrer}) \ blended :
    HasRead(perk[s], x) =>
      perk[s].copy = days[x] /\ \A z \in Requests : HasRead(perk[z], x) => s = z
GrantsHeld == Rewards!IsFiniteSet(added) /\ OneHonours /\ CopiesFresh

PerkInv == Rewards!TypeOK /\ Errands /\ SlotsHeld /\ GrantsHeld /\ Rewards!RewardsExact

\* A request that takes a step leaves the errands of the others alone: a conversion, a
\* payment and a reward are never taken back.
LEMMA ErrandsKept ==
  ASSUME Rewards!PerksShape, PerkInv, NEW s \in Requests, NEW r,
         perk' = [perk EXCEPT ![s] = r], Errand(r)',
         \A b \in Referred : /\ ref[b] = "converted" => ref'[b] = "converted"
                             /\ ref[b] # "none" => ref'[b] # "none",
         \A p \in Payments : paid[p] # "open" => paid'[p] # "open",
         rewards \subseteq rewards',
         \/ added' = added
         \/ perk[s].pc = "extend" /\ added' = added \cup {Rewards!Grant(s)},
         \/ honoured' = honoured
         \/ perk[s].pc = "record" /\ honoured' = honoured \cup {Rewards!Grant(s)}
  PROVE  Errands'
<1>0. perk \in [Requests -> Chores] /\ \A z \in Requests : Errand(perk[z])
  BY DEF PerkInv, Errands
<1>1. r \in Chores
  BY DEF Errand
<1>2. perk' \in [Requests -> Chores] /\ perk'[s] = r
      /\ \A z \in Requests \ {s} : perk'[z] = perk[z]
  BY <1>0, <1>1
<1> SUFFICES ASSUME NEW z \in Requests, z # s PROVE Errand(perk[z])'
  BY <1>2 DEF Errands
<1>3. PICK t \in Chores : t = perk[z] /\ t = perk'[z]
  BY <1>0, <1>2
<1>4. Errand(t)
  BY <1>0, <1>3
<1>5. t.pc \in Honouring => <<t.b, t.rule>> # Rewards!Grant(s) \/ perk[s].pc \notin {"extend", "record"}
  BY <1>3 DEF PerkInv, GrantsHeld, OneHonours, Honouring, Rewards!Grant
<1>6. /\ t.pc \in {"read", "extend"} => <<t.b, t.rule>> \in rewards' \ added'
      /\ t.pc = "record" => <<t.b, t.rule>> \in added' \ honoured'
  BY <1>4, <1>5 DEF Errand, Honouring
<1>7. Errand(t)'
  BY <1>4, <1>6 DEF Errand, Granted, Confirming, Rewards!PerksShape
<1> QED BY <1>3, <1>7

LEMMA ExcusedAt ==
  ASSUME NEW z \in Requests, NEW q, q = perk'[z].p, Excused(q)'
  PROVE  Excused(perk[z].p)'
BY DEF Excused, Rewards!Active

\* The requests that write redemptions, after a step.
LEMMA WritingKept ==
  ASSUME PerkInv, NEW s \in Requests, perk' \in [Requests -> Chores],
         \A z \in Requests \ {s} : perk'[z] = perk[z],
         Writing(perk'[s]) => Writing(perk[s]) /\ perk'[s].p = perk[s].p,
         \A q \in Payments : q \in redemptions' => q \in redemptions \/ q = perk[s].p,
         perk[s].p \in redemptions' \ redemptions => Writing(perk[s]) /\ ~Writing(perk'[s]),
         \A q \in Payments : Excused(q) => Excused(q)'
  PROVE  /\ \A z \in Requests : Writing(perk'[z]) =>
              perk'[z].p \notin redemptions' /\ Excused(perk[z].p)'
         /\ \A y, z \in Requests :
              Writing(perk'[y]) /\ Writing(perk'[z]) /\ perk'[y].p = perk'[z].p => y = z
<1>1. \A z \in Requests : Writing(perk'[z]) => Writing(perk[z]) /\ perk'[z].p = perk[z].p
  OBVIOUS
<1>2. ASSUME NEW z \in Requests, Writing(perk'[z])
      PROVE  perk'[z].p \notin redemptions' /\ Excused(perk[z].p)'
  <2>1. PICK q : q = perk'[z].p
    OBVIOUS
  <2>2. Writing(perk[z]) /\ q = perk[z].p
    BY <1>1, <1>2, <2>1
  <2>3. q \in Payments /\ q \notin redemptions /\ Excused(q)
    BY <2>2, Zenon DEF PerkInv, SlotsHeld, Errands, Errand, Writing, Confirming
  <2>4. q \notin redemptions'
    BY <1>2, <2>2, <2>3 DEF PerkInv, SlotsHeld
  <2> QED BY <2>1, <2>3, <2>4, ExcusedAt
<1>3. \A y, z \in Requests :
        Writing(perk'[y]) /\ Writing(perk'[z]) /\ perk'[y].p = perk'[z].p => y = z
  BY <1>1 DEF PerkInv, SlotsHeld
<1> QED BY <1>2, <1>3

\* A step that takes no slot and gives none back leaves the slots alone.
LEMMA SlotsLeft ==
  ASSUME Rewards!PerksShape, PerkInv, NEW s \in Requests, NEW r \in Chores,
         perk' = [perk EXCEPT ![s] = r],
         r.pc \notin {"row", "release", "return"}, perk[s].pc \notin {"row", "release", "return"},
         Writing(r) => Writing(perk[s]) /\ r.p = perk[s].p,
         UNCHANGED <<Rewards!coupon, Rewards!deaths>>
  PROVE  SlotsHeld'
<1>0. perk \in [Requests -> Chores]
  BY DEF PerkInv, Errands
<1>1. perk' \in [Requests -> Chores] /\ perk'[s] = r
      /\ \A z \in Requests \ {s} : perk'[z] = perk[z]
  BY <1>0
<1>2. UNCHANGED <<paid, count, redemptions, late, lost, leaked>>
  BY DEF Rewards!coupon, Rewards!deaths
<1>3. HeldOut' = HeldOut
  BY <1>1 DEF HeldOut
<1>4. \A p : Rewards!Active(p, {"release"}) => Rewards!Active(p, {"release"})'
  BY <1>1 DEF Rewards!Active
<1>5. \A p : Excused(p) => Excused(p)'
  BY <1>2, <1>4 DEF Excused
<1>6. /\ \A z \in Requests : Writing(perk'[z]) => perk'[z].p \notin redemptions' /\ Excused(perk[z].p)'
      /\ \A y, z \in Requests :
           Writing(perk'[y]) /\ Writing(perk'[z]) /\ perk'[y].p = perk'[z].p => y = z
  BY <1>1, <1>2, <1>5, WritingKept
<1> QED BY <1>1, <1>2, <1>3, <1>5, <1>6 DEF PerkInv, SlotsHeld

\* A step outside the coupon does.
Elsewhere == {"idle", "refer", "reward", "read", "extend", "record", "convert", "mark"}
LEMMA SlotsKept ==
  ASSUME Rewards!PerksShape, PerkInv, NEW s \in Requests, NEW r \in Chores,
         perk' = [perk EXCEPT ![s] = r], r.pc \in Elsewhere, perk[s].pc \in Elsewhere,
         UNCHANGED <<Rewards!coupon, Rewards!deaths>>
  PROVE  SlotsHeld'
<1>1. r.pc \notin {"row", "release", "return"} /\ perk[s].pc \notin {"row", "release", "return"}
      /\ ~Writing(r)
  BY DEF Elsewhere, Writing
<1> QED BY <1>1, SlotsLeft

\* The reward a request works on, and the period it has read, before and after.
LEMMA ReadPrimed == \A z, x : HasRead(perk[z], x)' = HasRead(perk'[z], x)
BY DEF HasRead, Gets, Rewards!Beneficiary

LEMMA HonoursKept ==
  ASSUME PerkInv, NEW s \in Requests, NEW r \in Chores, perk' = [perk EXCEPT ![s] = r],
         r.pc \in Honouring =>
           perk[s].pc \in Honouring /\ r.b = perk[s].b /\ r.rule = perk[s].rule
  PROVE  OneHonours'
<1>1. perk \in [Requests -> Chores]
  BY DEF PerkInv, Errands
<1>2. perk'[s] = r /\ \A z \in Requests \ {s} : perk'[z] = perk[z]
  BY <1>1
<1>3. \A z \in Requests : perk'[z].pc \in Honouring =>
        perk[z].pc \in Honouring /\ Rewards!Grant(z)' = Rewards!Grant(z)
  BY <1>2 DEF Rewards!Grant
<1> QED BY <1>3 DEF PerkInv, GrantsHeld, OneHonours

LEMMA CopiesKept ==
  ASSUME PerkInv, NEW s \in Requests, NEW r \in Chores, perk' = [perk EXCEPT ![s] = r],
         r.pc \notin {"extend", "write"}, blended \subseteq blended',
         \A x \in (Referred \cup {Rewards!Referrer}) \ blended :
           days'[x] = days[x] \/ HasRead(perk[s], x)
  PROVE  CopiesFresh'
<1>1. perk \in [Requests -> Chores]
  BY DEF PerkInv, Errands
<1>2. perk'[s] = r /\ \A z \in Requests \ {s} : perk'[z] = perk[z]
  BY <1>1
<1>3. \A z \in Requests : \A x : HasRead(perk'[z], x) => z # s /\ perk'[z] = perk[z] /\ HasRead(perk[z], x)
  BY <1>2 DEF HasRead
<1>4. ASSUME NEW z \in Requests, NEW x \in (Referred \cup {Rewards!Referrer}) \ blended',
             HasRead(perk'[z], x)
      PROVE  /\ perk'[z].copy = days'[x]
             /\ \A y \in Requests : HasRead(perk'[y], x) => z = y
  <2>1. z # s /\ perk'[z] = perk[z] /\ HasRead(perk[z], x) /\ x \notin blended
    BY <1>3, <1>4
  <2>2. perk[z].copy = days[x] /\ \A y \in Requests : HasRead(perk[y], x) => z = y
    BY <2>1 DEF PerkInv, GrantsHeld, CopiesFresh
  <2>3. days'[x] = days[x]
    BY <2>1, <2>2
  <2> QED BY <2>1, <2>2, <2>3, <1>3
<1> QED BY <1>4, ReadPrimed DEF CopiesFresh

LEMMA CopiesRead ==
  ASSUME PerkInv, NEW s \in Requests, NEW r \in Chores, perk' = [perk EXCEPT ![s] = r],
         NEW u, \A x : HasRead(r, x) => x = u, r.copy = days[u], days' = days,
         blended \subseteq blended',
         \A z \in Requests : HasRead(perk[z], u) => u \in blended'
  PROVE  CopiesFresh'
<1>1. perk \in [Requests -> Chores]
  BY DEF PerkInv, Errands
<1>2. perk'[s] = r /\ \A z \in Requests \ {s} : perk'[z] = perk[z]
  BY <1>1
<1>3. ASSUME NEW z \in Requests, NEW x \in (Referred \cup {Rewards!Referrer}) \ blended',
             HasRead(perk'[z], x)
      PROVE  /\ perk'[z].copy = days'[x]
             /\ \A y \in Requests : HasRead(perk'[y], x) => z = y
  <2>1. CASE x = u
    <3>1. \A y \in Requests : HasRead(perk'[y], x) => y = s
      BY <2>1, <1>2, <1>3
    <3> QED BY <3>1, <2>1, <1>2, <1>3
  <2>2. CASE x # u
    <3>1. \A y \in Requests : HasRead(perk'[y], x) => perk'[y] = perk[y] /\ HasRead(perk[y], x)
      BY <2>2, <1>2
    <3> QED BY <3>1, <1>3 DEF PerkInv, GrantsHeld, CopiesFresh
  <2> QED BY <2>1, <2>2
<1> QED BY <1>3, ReadPrimed DEF CopiesFresh

\* What a request reads is blended if another one holds it.
LEMMA Blended ==
  ASSUME NEW u, blended' = Rewards!Blend(u)
  PROVE  blended \subseteq blended' /\ \A z \in Requests : HasRead(perk[z], u) => u \in blended'
<1>1. \A z \in Requests : HasRead(perk[z], u) => Rewards!HoldsCopy(z, u)
  BY Zenon DEF HasRead, Gets, Rewards!HoldsCopy, Rewards!At, Rewards!Grant
<1> QED BY <1>1 DEF Rewards!Blend

\* A step of a request that owes no grant and holds no period leaves the grants alone.
LEMMA GrantsKept ==
  ASSUME Rewards!PerksShape, PerkInv, NEW s \in Requests, NEW r \in Chores,
         perk' = [perk EXCEPT ![s] = r], r.pc \notin Granted, perk[s].pc \notin Granted,
         r.pc # "write",
         UNCHANGED Rewards!referral, lost \subseteq lost',
         \A p \in Payments : paid[p] # "open" => paid'[p] # "open"
  PROVE  GrantsHeld' /\ Rewards!RewardsExact'
<1>0. perk \in [Requests -> Chores]
  BY DEF PerkInv, Errands
<1>1. perk' \in [Requests -> Chores] /\ perk'[s] = r
      /\ \A z \in Requests \ {s} : perk'[z] = perk[z]
  BY <1>0
<1>2. UNCHANGED <<ref, rewards, added, honoured, days, blended, forfeited>>
  BY DEF Rewards!referral
<1>3. r.pc \notin Honouring /\ r.pc \notin {"extend", "write"}
  BY DEF Granted, Honouring
<1>4. GrantsHeld'
  BY <1>2, <1>3, HonoursKept, CopiesKept DEF PerkInv, GrantsHeld
<1>5. \A g, pcs : pcs \subseteq Granted /\ Rewards!Granting(g, pcs) => Rewards!Granting(g, pcs)'
  BY <1>1 DEF Rewards!Granting, Rewards!Grant
<1>6. \A g : /\ Rewards!Granting(g, {"reward"}) => Rewards!Granting(g, {"reward"})'
             /\ Rewards!Granting(g, {"read", "extend"}) => Rewards!Granting(g, {"read", "extend"})'
             /\ Rewards!Granting(g, {"record"}) => Rewards!Granting(g, {"record"})'
  BY <1>5 DEF Granted
<1>7. Rewards!RewardsExact'
  BY <1>2, <1>6 DEF PerkInv, Rewards!RewardsExact, Rewards!GrantsOf, Rewards!Beneficiary
<1> QED BY <1>4, <1>7

LEMMA PerkInit == ASSUME Rewards!PerksShape, Rewards!Init PROVE PerkInv
<1>1. Rewards!Idle \in Chores /\ \A s \in Requests : perk[s] = Rewards!Idle
  BY DEF Rewards!Init, Rewards!Idle, Chores, PerkPcs
<1>2. Rewards!TypeOK
  BY <1>1, PerkEmpty DEF Rewards!Init, Rewards!TypeOK, Rewards!PerksShape
<1>3. Errands
  BY <1>1 DEF Errands, Errand, Rewards!Init, Rewards!Idle, Granted, Confirming
<1>4. SlotsHeld
  <2>1. HeldOut = {} /\ \A s \in Requests : ~Writing(perk[s])
    BY <1>1 DEF HeldOut, Writing, Rewards!Idle
  <2> QED BY <2>1, PerkEmpty DEF SlotsHeld, Rewards!Init, Rewards!PerksShape
<1>5. GrantsHeld
  BY <1>1, PerkEmpty DEF GrantsHeld, OneHonours, CopiesFresh, HasRead, Honouring, Rewards!Init, Rewards!Idle
<1>6. Rewards!RewardsExact
  <2>1. \A x : Rewards!GrantsOf(x) \ forfeited = {}
    BY DEF Rewards!Init, Rewards!GrantsOf
  <2> QED BY <2>1, PerkEmpty DEF Rewards!RewardsExact, Rewards!Init
<1> QED BY <1>2, <1>3, <1>4, <1>5, <1>6 DEF PerkInv

-----------------------------------------------------------------------------
\* What the slot of a request holds, and its errand.
LEMMA ChoreOf ==
  ASSUME PerkInv, NEW s \in Requests
  PROVE  /\ perk[s] \in Chores /\ Errand(perk[s])
         /\ \A c \in PerkPcs : [perk[s] EXCEPT !.pc = c] \in Chores /\ [perk[s] EXCEPT !.pc = c].pc = c
         /\ Rewards!Idle \in Chores /\ Errand(Rewards!Idle) /\ Errand(Rewards!Idle)'
<1>1. perk[s] \in Chores /\ Errand(perk[s])
  BY DEF PerkInv, Errands
<1>2. Rewards!Idle \in Chores /\ Errand(Rewards!Idle) /\ Errand(Rewards!Idle)'
  BY DEF Rewards!Idle, Chores, PerkPcs, Errand, Granted, Confirming
<1> QED BY <1>1, <1>2 DEF Chores

LEMMA ApplyStep ==
  ASSUME Rewards!PerksShape, PerkInv, NEW s \in Requests, NEW b \in Referred, Rewards!Apply(s, b)
  PROVE  PerkInv'
<1>1. PICK r : /\ r = [Rewards!Idle EXCEPT !.pc = "refer", !.b = b, !.rule = "referral_signup"]
               /\ perk' = [perk EXCEPT ![s] = r]
  BY Zenon DEF Rewards!Apply
<1>2. r \in Chores /\ r.pc = "refer" /\ Errand(r)'
  BY <1>1, Zenon DEF Rewards!Idle, Chores, PerkPcs, Rewards!Rules, Errand, Granted, Confirming
<1>3. perk[s].pc = "idle" /\ UNCHANGED <<Rewards!referral, Rewards!coupon, Rewards!deaths>>
  BY DEF Rewards!Apply, Rewards!Free, Rewards!At
<1>4. Rewards!TypeOK'
  BY <1>3 DEF PerkInv, Rewards!TypeOK, Rewards!referral, Rewards!coupon, Rewards!deaths
<1>5. Errands'
  BY <1>1, <1>2, <1>3, ErrandsKept, Zenon DEF Rewards!referral, Rewards!coupon
<1>6. SlotsHeld'
  BY <1>1, <1>2, <1>3, SlotsKept, Zenon DEF Elsewhere
<1>7. GrantsHeld' /\ Rewards!RewardsExact'
  BY <1>1, <1>2, <1>3, GrantsKept, Zenon DEF Granted, Rewards!coupon, Rewards!deaths
<1> QED BY <1>4, <1>5, <1>6, <1>7 DEF PerkInv

LEMMA FindPendingStep ==
  ASSUME Rewards!PerksShape, PerkInv, NEW s \in Requests, Rewards!FindPending(s)
  PROVE  PerkInv'
<1>1. PICK r : /\ r = IF ref[perk[s].b] = "pending" THEN [perk[s] EXCEPT !.pc = "mark"] ELSE Rewards!Idle
               /\ perk' = [perk EXCEPT ![s] = r]
  BY Zenon DEF Rewards!FindPending, Rewards!Go, Rewards!End
<1>2. PICK t : t = perk[s]
  OBVIOUS
<1>3. t \in Chores /\ Errand(t) /\ t.pc = "convert"
      /\ UNCHANGED <<Rewards!referral, Rewards!coupon, Rewards!deaths>>
  BY <1>2, ChoreOf DEF Rewards!FindPending, Rewards!At
<1>4. r \in Chores /\ r.pc \in {"mark", "idle"}
  <2>1. "mark" \in PerkPcs /\ Rewards!Idle.pc = "idle"
    BY DEF PerkPcs, Rewards!Idle
  <2> QED BY <1>1, <2>1, ChoreOf
<1>5. Errand(r)'
  <2>1. CASE ref[t.b] = "pending"
    BY <1>1, <1>2, <1>3, <1>4, <2>1
       DEF Errand, Chores, Granted, Confirming, Rewards!referral, Rewards!coupon
  <2> QED BY <1>1, <1>2, <2>1, ChoreOf
<1>6. Rewards!TypeOK'
  BY <1>3 DEF PerkInv, Rewards!TypeOK, Rewards!referral, Rewards!coupon, Rewards!deaths
<1>7. Errands'
  BY <1>1, <1>5, <1>3, ErrandsKept, Zenon DEF Rewards!referral, Rewards!coupon
<1>8. SlotsHeld'
  BY <1>1, <1>2, <1>4, <1>3, SlotsKept, Zenon DEF Elsewhere
<1>9. GrantsHeld' /\ Rewards!RewardsExact'
  BY <1>1, <1>2, <1>4, <1>3, GrantsKept, Zenon DEF Granted, Rewards!coupon, Rewards!deaths
<1> QED BY <1>6, <1>7, <1>8, <1>9 DEF PerkInv

\* What FindPending, and the steps below, leave of a request.
LEMMA ReferStep ==
  ASSUME Rewards!PerksShape, PerkInv, NEW s \in Requests, Rewards!Refer(s)
  PROVE  PerkInv'
<1>1. PICK t : t = perk[s]
  OBVIOUS
<1>2. /\ t \in Chores /\ Errand(t) /\ t.pc = "refer" /\ t.b \in Referred
      /\ t.rule = "referral_signup"
      /\ UNCHANGED <<rewards, added, honoured, days, blended, forfeited, Rewards!coupon, Rewards!deaths>>
  BY <1>1, ChoreOf DEF Rewards!Refer, Rewards!At, Errand
<1>3. PICK r : /\ perk' = [perk EXCEPT ![s] = r]
               /\ \/ /\ ref[t.b] = "none" /\ r = [t EXCEPT !.pc = "reward"]
                     /\ ref' = [ref EXCEPT ![t.b] = "pending"]
                  \/ r = Rewards!Idle /\ ref' = ref
  BY <1>1, Zenon DEF Rewards!Refer, Rewards!Go, Rewards!End
<1>4. r \in Chores /\ r.pc \in {"reward", "idle"}
  BY <1>2, <1>3 DEF Chores, PerkPcs, Rewards!Idle
<1>5. Errand(r)'
  <2>1. CASE r = [t EXCEPT !.pc = "reward"]
    BY <1>2, <1>4, <2>1 DEF Errand, Chores, Granted, Confirming, Rewards!Rules
  <2> QED BY <1>3, <2>1, ChoreOf
<1>6. ref \in [Referred -> {"none", "pending", "converted"}]
  BY DEF PerkInv, Rewards!TypeOK
<1>7. /\ ref' \in [Referred -> {"none", "pending", "converted"}]
      /\ \A b \in Referred : (b # t.b \/ ref' = ref) => ref'[b] = ref[b]
      /\ \A b \in Referred : /\ ref[b] = "converted" => ref'[b] = "converted"
                             /\ ref[b] # "none" => ref'[b] # "none"
                             /\ ref'[b] = "converted" => ref[b] = "converted"
  BY <1>2, <1>3, <1>6
<1>8. Rewards!TypeOK'
  BY <1>7, <1>2 DEF PerkInv, Rewards!TypeOK, Rewards!coupon, Rewards!deaths
<1>9. Errands'
  BY <1>2, <1>3, <1>5, <1>7, ErrandsKept, Zenon DEF Rewards!coupon
<1>10. SlotsHeld'
  BY <1>1, <1>2, <1>3, <1>4, SlotsKept, Zenon DEF Elsewhere
<1>11. perk \in [Requests -> Chores]
  BY DEF PerkInv, Errands
<1>12. perk'[s] = r /\ \A z \in Requests \ {s} : perk'[z] = perk[z]
  BY <1>3, <1>11
<1>13. GrantsHeld'
  <2>1. r.pc \notin Honouring /\ r.pc \notin {"extend", "write"}
    BY <1>4 DEF Honouring
  <2> QED BY <1>2, <1>3, <1>4, <2>1, HonoursKept, CopiesKept DEF PerkInv, GrantsHeld
<1>14. Rewards!RewardsExact'
  <2>1. \A g : /\ Rewards!Granting(g, {"reward"}) => Rewards!Granting(g, {"reward"})'
               /\ Rewards!Granting(g, {"read", "extend"}) => Rewards!Granting(g, {"read", "extend"})'
               /\ Rewards!Granting(g, {"record"}) => Rewards!Granting(g, {"record"})'
    BY <1>1, <1>2, <1>12 DEF Rewards!Granting, Rewards!Grant
  <2>2. r = [t EXCEPT !.pc = "reward"] => Rewards!Granting(<<t.b, "referral_signup">>, {"reward"})'
    <3> SUFFICES ASSUME r = [t EXCEPT !.pc = "reward"]
                 PROVE Rewards!Granting(<<t.b, "referral_signup">>, {"reward"})'
      OBVIOUS
    <3>1. r.b = t.b /\ r.rule = "referral_signup" /\ r.pc = "reward"
      BY <1>2 DEF Chores
    <3> QED BY <3>1, <1>12, Zenon DEF Rewards!Granting, Rewards!Grant
  <2>3. UNCHANGED <<paid, lost>>
    BY <1>2 DEF Rewards!coupon, Rewards!deaths
  <2> QED BY <1>2, <1>3, <1>7, <2>1, <2>2, <2>3
     DEF PerkInv, Rewards!RewardsExact, Rewards!GrantsOf, Rewards!Beneficiary
<1> QED BY <1>8, <1>9, <1>10, <1>13, <1>14 DEF PerkInv

LEMMA MarkConvertedStep ==
  ASSUME Rewards!PerksShape, PerkInv, NEW s \in Requests, Rewards!MarkConverted(s)
  PROVE  PerkInv'
<1>1. PICK t : t = perk[s]
  OBVIOUS
<1>2. /\ t \in Chores /\ Errand(t) /\ t.pc = "mark" /\ t.b \in Referred
      /\ t.rule = "referral_conversion" /\ ref[t.b] # "none"
      /\ UNCHANGED <<rewards, added, honoured, days, blended, forfeited, Rewards!coupon, Rewards!deaths>>
  BY <1>1, ChoreOf DEF Rewards!MarkConverted, Rewards!At, Errand, Confirming
<1>3. PICK r : /\ perk' = [perk EXCEPT ![s] = r] /\ r = [t EXCEPT !.pc = "reward"]
               /\ ref' = [ref EXCEPT ![t.b] = "converted"]
  BY <1>1, Zenon DEF Rewards!MarkConverted, Rewards!Go
<1>4. /\ r \in Chores /\ r.pc = "reward" /\ r.b = t.b /\ r.rule = "referral_conversion"
      /\ r.p = t.p
  BY <1>2, <1>3 DEF Chores, PerkPcs
<1>6. ref \in [Referred -> {"none", "pending", "converted"}]
  BY DEF PerkInv, Rewards!TypeOK
<1>7. /\ ref' \in [Referred -> {"none", "pending", "converted"}]
      /\ \A b \in Referred \ {t.b} : ref'[b] = ref[b]
      /\ ref'[t.b] = "converted"
  BY <1>2, <1>3, <1>6
<1>5. Errand(r)'
  BY <1>2, <1>4, <1>7 DEF Errand, Granted, Confirming, Rewards!Rules, Rewards!coupon
<1>8. Rewards!TypeOK'
  BY <1>7, <1>2 DEF PerkInv, Rewards!TypeOK, Rewards!coupon, Rewards!deaths
<1>9. Errands'
  BY <1>2, <1>3, <1>5, <1>7, ErrandsKept, Zenon DEF Rewards!coupon
<1>10. SlotsHeld'
  BY <1>1, <1>2, <1>3, <1>4, SlotsKept, Zenon DEF Elsewhere
<1>11. perk \in [Requests -> Chores]
  BY DEF PerkInv, Errands
<1>12. perk'[s] = r /\ \A z \in Requests \ {s} : perk'[z] = perk[z]
  BY <1>3, <1>11
<1>13. GrantsHeld'
  <2>1. r.pc \notin Honouring /\ r.pc \notin {"extend", "write"}
    BY <1>4 DEF Honouring
  <2> QED BY <1>2, <1>3, <1>4, <2>1, HonoursKept, CopiesKept DEF PerkInv, GrantsHeld
<1>14. Rewards!RewardsExact'
  <2>1. \A g : /\ Rewards!Granting(g, {"reward"}) => Rewards!Granting(g, {"reward"})'
               /\ Rewards!Granting(g, {"read", "extend"}) => Rewards!Granting(g, {"read", "extend"})'
               /\ Rewards!Granting(g, {"record"}) => Rewards!Granting(g, {"record"})'
    BY <1>1, <1>2, <1>12 DEF Rewards!Granting, Rewards!Grant
  <2>2. Rewards!Granting(<<t.b, "referral_conversion">>, {"reward"})'
    BY <1>4, <1>12 DEF Rewards!Granting, Rewards!Grant
  <2>3. UNCHANGED <<paid, lost>>
    BY <1>2 DEF Rewards!coupon, Rewards!deaths
  <2> QED BY <1>2, <1>7, <2>1, <2>2, <2>3
     DEF PerkInv, Rewards!RewardsExact, Rewards!GrantsOf, Rewards!Beneficiary
<1> QED BY <1>8, <1>9, <1>10, <1>13, <1>14 DEF PerkInv

LEMMA RewardStep ==
  ASSUME Rewards!PerksShape, PerkInv, NEW s \in Requests, Rewards!Reward(s)
  PROVE  PerkInv'
<1>1. PICK t : t = perk[s]
  OBVIOUS
<1>2. /\ t \in Chores /\ Errand(t) /\ t.pc = "reward" /\ t.b \in Referred /\ t.rule \in Rewards!Rules
      /\ UNCHANGED <<ref, added, honoured, days, blended, forfeited, Rewards!coupon, Rewards!deaths>>
  BY <1>1, ChoreOf DEF Rewards!Reward, Rewards!At, Errand, Granted
<1>3. PICK g : g = <<t.b, t.rule>>
  BY Zenon
<1>4. PICK r : /\ perk' = [perk EXCEPT ![s] = r]
               /\ \/ /\ g \notin rewards /\ r = [t EXCEPT !.pc = "read"]
                     /\ rewards' = rewards \cup {g}
                  \/ g \in rewards /\ r = Rewards!Idle /\ rewards' = rewards
  BY <1>1, <1>3, Zenon DEF Rewards!Reward, Rewards!Go, Rewards!End, Rewards!Grant, Rewards!Fresh
<1>5. /\ r \in Chores /\ r.pc \in {"read", "idle"}
      /\ r.pc = "read" => r.b = t.b /\ r.rule = t.rule /\ r.p = t.p /\ g \notin rewards
                          /\ rewards' = rewards \cup {g}
      /\ g \notin rewards => r.pc = "read"
  BY <1>2, <1>4 DEF Chores, PerkPcs, Rewards!Idle
<1>6. g \in Referred \X Rewards!Rules /\ added \subseteq rewards /\ g \in rewards'
  BY <1>2, <1>3, <1>4 DEF PerkInv, Rewards!TypeOK
<1>7. Errand(r)'
  <2>1. CASE r.pc = "read"
    <3>1. <<r.b, r.rule>> \in rewards' \ added'
      BY <1>2, <1>3, <1>5, <1>6, <2>1
    <3> QED BY <1>2, <1>5, <2>1, <3>1 DEF Errand, Granted, Confirming, Rewards!coupon
  <2> QED BY <1>4, <1>5, <2>1, ChoreOf
<1>8. Rewards!TypeOK'
  BY <1>2, <1>4, <1>6 DEF PerkInv, Rewards!TypeOK, Rewards!coupon, Rewards!deaths
<1>9. Errands'
  BY <1>2, <1>4, <1>7, ErrandsKept, Zenon DEF Rewards!coupon
<1>10. SlotsHeld'
  BY <1>1, <1>2, <1>4, <1>5, SlotsKept, Zenon DEF Elsewhere
<1>11. perk \in [Requests -> Chores]
  BY DEF PerkInv, Errands
<1>12. perk'[s] = r /\ \A z \in Requests \ {s} : perk'[z] = perk[z]
  BY <1>4, <1>11
<1>13. GrantsHeld'
  <2>2. \A z \in Requests : perk'[z].pc \in Honouring /\ z # s =>
          perk'[z] = perk[z] /\ <<perk[z].b, perk[z].rule>> \in rewards
    BY <1>12, <1>6 DEF PerkInv, Errands, Errand, Honouring
  <2>3. perk'[s].pc = "read" => <<perk'[s].b, perk'[s].rule>> = g /\ g \notin rewards
    BY <1>12, <1>3, <1>5
  <2>4. ASSUME NEW x \in Requests, NEW z \in Requests, perk'[x].pc \in Honouring,
               perk'[z].pc \in Honouring, Rewards!Grant(x)' = Rewards!Grant(z)'
        PROVE  x = z
    <3>1. CASE x # s /\ z # s
      BY <3>1, <2>2, <2>4, Zenon DEF PerkInv, GrantsHeld, OneHonours, Rewards!Grant
    <3>2. CASE x = s /\ z # s
      BY <3>2, <2>2, <2>3, <2>4, <1>5, <1>12 DEF Rewards!Grant, Honouring
    <3>3. CASE x # s /\ z = s
      BY <3>3, <2>2, <2>3, <2>4, <1>5, <1>12 DEF Rewards!Grant, Honouring
    <3> QED BY <3>1, <3>2, <3>3
  <2>5. OneHonours'
    BY <2>4 DEF OneHonours
  <2> QED BY <1>2, <1>4, <1>5, <2>5, CopiesKept DEF PerkInv, GrantsHeld
<1>14. Rewards!RewardsExact'
  <2>1. \A h : /\ Rewards!Granting(h, {"reward"}) => Rewards!Granting(h, {"reward"})' \/ h = g
               /\ Rewards!Granting(h, {"read", "extend"}) => Rewards!Granting(h, {"read", "extend"})'
               /\ Rewards!Granting(h, {"record"}) => Rewards!Granting(h, {"record"})'
    BY <1>1, <1>2, <1>3, <1>12 DEF Rewards!Granting, Rewards!Grant
  <2>2. g \notin rewards => Rewards!Granting(g, {"read", "extend"})'
    <3> SUFFICES ASSUME g \notin rewards PROVE Rewards!Granting(g, {"read", "extend"})'
      OBVIOUS
    <3>1. perk'[s].pc = "read" /\ <<perk'[s].b, perk'[s].rule>> = g
      BY <1>3, <1>5, <1>12
    <3> QED BY <3>1 DEF Rewards!Granting, Rewards!Grant
  <2>3. UNCHANGED <<paid, lost>>
    BY <1>2 DEF Rewards!coupon, Rewards!deaths
  <2>4. g[1] = t.b /\ g[2] = t.rule
    BY <1>3
  <2>5. t.rule = "referral_conversion" =>
          ref[t.b] = "converted" /\ \E p \in Payments : OwnerOf[p] = t.b /\ paid[p] # "open"
    BY <1>2 DEF Errand, Granted
  <2>6. ASSUME NEW b \in Referred
        PROVE  /\ <<b, "referral_conversion">> \in rewards' =>
                    ref'[b] = "converted" /\ \E p \in Payments : OwnerOf[p] = b /\ paid'[p] # "open"
               /\ ref'[b] # "none" => \/ <<b, "referral_signup">> \in rewards' \/ b \in lost'
                                      \/ Rewards!Granting(<<b, "referral_signup">>, {"reward"})'
               /\ ref'[b] = "converted" =>
                    \/ <<b, "referral_conversion">> \in rewards' \/ b \in lost'
                    \/ Rewards!Granting(<<b, "referral_conversion">>, {"reward"})'
    <3>1. /\ <<b, "referral_conversion">> \in rewards =>
               ref[b] = "converted" /\ \E p \in Payments : OwnerOf[p] = b /\ paid[p] # "open"
          /\ ref[b] # "none" => \/ <<b, "referral_signup">> \in rewards \/ b \in lost
                                \/ Rewards!Granting(<<b, "referral_signup">>, {"reward"})
          /\ ref[b] = "converted" =>
               \/ <<b, "referral_conversion">> \in rewards \/ b \in lost
               \/ Rewards!Granting(<<b, "referral_conversion">>, {"reward"})
      BY DEF PerkInv, Rewards!RewardsExact
    <3>2. <<b, "referral_conversion">> = g => t.rule = "referral_conversion" /\ t.b = b
      BY <1>3
    <3> QED BY <3>1, <3>2, <2>1, <2>3, <2>5, <1>2, <1>4, <1>6
  <2>7. \A h \in rewards' \ added' : h[1] \in lost' \/ Rewards!Granting(h, {"read", "extend"})'
    BY <2>1, <2>2, <2>3, <1>2, <1>4, <1>6 DEF PerkInv, Rewards!RewardsExact
  <2> QED BY <2>1, <2>3, <2>6, <2>7, <1>2
     DEF PerkInv, Rewards!RewardsExact, Rewards!GrantsOf, Rewards!Beneficiary
<1> QED BY <1>8, <1>9, <1>10, <1>13, <1>14 DEF PerkInv

LEMMA ReadPeriodStep ==
  ASSUME Rewards!PerksShape, PerkInv, NEW s \in Requests, Rewards!ReadPeriod(s)
  PROVE  PerkInv'
<1>1. PICK t : t = perk[s]
  OBVIOUS
<1>2. PICK x : x = Gets(t)
  OBVIOUS
<1>3. /\ t \in Chores /\ Errand(t) /\ t.pc = "read" /\ t.b \in Referred
      /\ UNCHANGED <<ref, rewards, added, honoured, days, forfeited, Rewards!coupon, Rewards!deaths>>
  BY <1>1, ChoreOf DEF Rewards!ReadPeriod, Rewards!At, Errand, Granted
<1>4. x \in Referred \cup {Rewards!Referrer} /\ days[x] \in Nat
  BY <1>2, <1>3 DEF Gets, Rewards!Beneficiary, PerkInv, Rewards!TypeOK
<1>5. PICK r : /\ perk' = [perk EXCEPT ![s] = r]
               /\ r = [t EXCEPT !.pc = "extend", !.copy = days[x]]
  BY <1>1, <1>2, Zenon DEF Rewards!ReadPeriod, Gets, Rewards!Grant
<1>6. /\ r \in Chores /\ r.pc = "extend" /\ r.copy = days[x] /\ r.b = t.b /\ r.rule = t.rule
      /\ r.p = t.p
  BY <1>3, <1>4, <1>5, Zenon DEF Chores, PerkPcs
<1>7. blended' = Rewards!Blend(x)
  BY <1>1, <1>2, Zenon DEF Rewards!ReadPeriod, Gets, Rewards!Grant
<1>8. \A u : HasRead(r, u) => u = x
  BY <1>2, <1>6 DEF HasRead, Gets
<1>9. Errand(r)'
  BY <1>3, <1>6 DEF Errand, Granted, Confirming, Rewards!coupon
<1>10. Rewards!TypeOK'
  BY <1>3 DEF PerkInv, Rewards!TypeOK, Rewards!coupon, Rewards!deaths
<1>11. Errands'
  BY <1>3, <1>5, <1>9, ErrandsKept, Zenon DEF Rewards!coupon
<1>12. SlotsHeld'
  BY <1>1, <1>3, <1>5, <1>6, SlotsKept, Zenon DEF Elsewhere
<1>13. perk \in [Requests -> Chores]
  BY DEF PerkInv, Errands
<1>14. perk'[s] = r /\ \A z \in Requests \ {s} : perk'[z] = perk[z]
  BY <1>5, <1>13
<1>15. GrantsHeld'
  <2>1. OneHonours'
    BY <1>1, <1>3, <1>5, <1>6, HonoursKept DEF Honouring
  <2>2. CopiesFresh'
    BY <1>3, <1>5, <1>6, <1>7, <1>8, Blended, CopiesRead, Zenon
  <2> QED BY <2>1, <2>2, <1>3 DEF PerkInv, GrantsHeld
<1>16. Rewards!RewardsExact'
  <2>1. \A h : /\ Rewards!Granting(h, {"reward"}) => Rewards!Granting(h, {"reward"})'
               /\ Rewards!Granting(h, {"read", "extend"}) => Rewards!Granting(h, {"read", "extend"})'
               /\ Rewards!Granting(h, {"record"}) => Rewards!Granting(h, {"record"})'
    BY <1>1, <1>3, <1>6, <1>14 DEF Rewards!Granting, Rewards!Grant
  <2>2. UNCHANGED <<paid, lost>> /\ blended \subseteq blended'
    BY <1>3, <1>7, Blended DEF Rewards!coupon, Rewards!deaths
  <2> QED BY <1>3, <2>1, <2>2
     DEF PerkInv, Rewards!RewardsExact, Rewards!GrantsOf, Rewards!Beneficiary
<1> QED BY <1>10, <1>11, <1>12, <1>15, <1>16 DEF PerkInv

LEMMA ExtendPeriodStep ==
  ASSUME Rewards!PerksShape, PerkInv, NEW s \in Requests, Rewards!ExtendPeriod(s)
  PROVE  PerkInv'
<1>1. PICK t : t = perk[s]
  OBVIOUS
<1>2. PICK g : g = <<t.b, t.rule>>
  BY Zenon
<1>3. PICK x : x = Gets(t)
  OBVIOUS
<1>4. /\ t \in Chores /\ Errand(t) /\ t.pc = "extend" /\ t.b \in Referred
      /\ UNCHANGED <<ref, rewards, honoured, blended, forfeited, Rewards!coupon, Rewards!deaths>>
  BY <1>1, ChoreOf DEF Rewards!ExtendPeriod, Rewards!At, Errand, Granted
<1>0. HasRead(perk[s], x)
  <2>1. Gets(t) = x
    BY <1>3, Zenon
  <2>2. HasRead(t, x)
    BY <1>4, <2>1 DEF HasRead
  <2> QED BY <1>1, <2>2, Zenon
<1>5. x \in Referred \cup {Rewards!Referrer} /\ t.copy \in Nat /\ g \in rewards \ added
      /\ x = Rewards!Beneficiary(g) /\ g[1] = t.b
  BY <1>2, <1>3, <1>4 DEF Gets, Rewards!Beneficiary, Errand, Chores
<1>6. PICK r : /\ r = [t EXCEPT !.pc = "record", !.copy = 0]
               /\ perk' = [perk EXCEPT ![s] = r]
               /\ added' = added \cup {g} /\ days' = [days EXCEPT ![x] = t.copy + 1]
               /\ g = Rewards!Grant(s)
  BY <1>1, <1>2, <1>3 DEF Rewards!ExtendPeriod, Rewards!Grant, Gets
<1>7. /\ days \in [Referred \cup {Rewards!Referrer} -> Nat]
      /\ days' \in [Referred \cup {Rewards!Referrer} -> Nat] /\ days'[x] = t.copy + 1
      /\ \A y \in (Referred \cup {Rewards!Referrer}) \ {x} : days'[y] = days[y]
  <2>1. days \in [Referred \cup {Rewards!Referrer} -> Nat]
    BY DEF PerkInv, Rewards!TypeOK
  <2> QED BY <2>1, <1>5, <1>6
<1>8. r \in Chores /\ r.pc = "record" /\ r.b = t.b /\ r.rule = t.rule /\ r.p = t.p
  BY <1>4, <1>6 DEF Chores, PerkPcs
<1>9. honoured \cup forfeited \subseteq added /\ g \notin honoured /\ g \notin forfeited
  BY <1>5 DEF PerkInv, Rewards!TypeOK
<1>10. Rewards!TypeOK'
  BY <1>4, <1>5, <1>6, <1>7 DEF PerkInv, Rewards!TypeOK, Rewards!coupon, Rewards!deaths
<1>11. Errands'
  <2>1. <<r.b, r.rule>> \in added' \ honoured'
    BY <1>2, <1>4, <1>6, <1>8, <1>9
  <2>2. Errand(r)'
    BY <2>1, <1>4, <1>8 DEF Errand, Granted, Confirming, Rewards!coupon
  <2> QED BY <2>2, <1>1, <1>4, <1>6, ErrandsKept, Zenon DEF Rewards!coupon
<1>12. SlotsHeld'
  BY <1>1, <1>4, <1>6, <1>8, SlotsKept, Zenon DEF Elsewhere
<1>13. perk \in [Requests -> Chores]
  BY DEF PerkInv, Errands
<1>14. perk'[s] = r /\ \A z \in Requests \ {s} : perk'[z] = perk[z]
  BY <1>6, <1>13
<1>15. GrantsHeld'
  <2>1. Rewards!IsFiniteSet(added')
    BY <1>6, PerkAdded DEF PerkInv, GrantsHeld
  <2>2. OneHonours'
    BY <1>1, <1>4, <1>6, <1>8, HonoursKept DEF Honouring
  <2>3. CopiesFresh'
    BY <1>0, <1>4, <1>6, <1>7, <1>8, CopiesKept
  <2> QED BY <2>1, <2>2, <2>3 DEF GrantsHeld
<1>16. Rewards!RewardsExact'
  <2>1. \A h : /\ Rewards!Granting(h, {"reward"}) => Rewards!Granting(h, {"reward"})'
               /\ Rewards!Granting(h, {"read", "extend"}) => Rewards!Granting(h, {"read", "extend"})' \/ h = g
               /\ Rewards!Granting(h, {"record"}) => Rewards!Granting(h, {"record"})'
    BY <1>1, <1>4, <1>6, <1>14 DEF Rewards!Granting, Rewards!Grant
  <2>2. Rewards!Granting(g, {"record"})'
    BY <1>2, <1>8, <1>14 DEF Rewards!Granting, Rewards!Grant
  <2>3. UNCHANGED <<paid, lost>>
    BY <1>4 DEF Rewards!coupon, Rewards!deaths
  <2>4. ASSUME NEW y \in Referred \cup {Rewards!Referrer}, y \notin blended
        PROVE  days'[y] = Rewards!Cardinality(Rewards!GrantsOf(y)' \ forfeited)
    <3>1. days[y] = Rewards!Cardinality(Rewards!GrantsOf(y) \ forfeited)
      BY <1>7, <2>4 DEF PerkInv, Rewards!RewardsExact
    <3>2. CASE y = x
      <4>1. Rewards!GrantsOf(y)' \ forfeited = (Rewards!GrantsOf(y) \ forfeited) \cup {g}
        BY <1>5, <1>6, <1>9, <3>2 DEF Rewards!GrantsOf, Rewards!Beneficiary
      <4>2. t.copy = days[x]
        BY <1>0, <1>1, <1>5, <2>4, <3>2 DEF PerkInv, GrantsHeld, CopiesFresh
      <4>3. Rewards!IsFiniteSet(added')
        BY <1>6, PerkAdded DEF PerkInv, GrantsHeld
      <4>4. Rewards!Cardinality((Rewards!GrantsOf(y) \ forfeited) \cup {g})
              = Rewards!Cardinality(Rewards!GrantsOf(y) \ forfeited) + 1
        <5>1. Rewards!GrantsOf(y) \ forfeited \in SUBSET added'
              /\ g \in added' \ (Rewards!GrantsOf(y) \ forfeited)
          BY <1>5, <1>6 DEF Rewards!GrantsOf
        <5> QED BY <4>3, <5>1, AddOne
      <4> QED BY <4>1, <4>2, <4>4, <3>1, <3>2, <1>7, Zenon
    <3>3. CASE y # x
      <4>1. Rewards!GrantsOf(y)' = Rewards!GrantsOf(y)
        BY <1>5, <1>6, <3>3 DEF Rewards!GrantsOf, Rewards!Beneficiary
      <4> QED BY <4>1, <3>1, <3>3, <1>7
    <3> QED BY <3>2, <3>3
  <2>5. DOMAIN days' = Referred \cup {Rewards!Referrer}
        /\ DOMAIN days = Referred \cup {Rewards!Referrer}
    BY <1>7
  <2>6. \A y \in (DOMAIN days \ blended)' :
          days'[y] = Rewards!Cardinality((Rewards!GrantsOf(y) \ forfeited)')
    BY <2>4, <2>5, <1>4
  <2>7. /\ \A h \in rewards' \ added' : h[1] \in lost' \/ Rewards!Granting(h, {"read", "extend"})'
        /\ \A h \in added' \ honoured' : h[1] \in lost' \/ Rewards!Granting(h, {"record"})'
    BY <2>1, <2>2, <2>3, <1>4, <1>6 DEF PerkInv, Rewards!RewardsExact
  <2> QED BY <1>4, <2>1, <2>3, <2>6, <2>7 DEF PerkInv, Rewards!RewardsExact, Rewards!GrantsOf
<1> QED BY <1>10, <1>11, <1>12, <1>15, <1>16 DEF PerkInv

LEMMA RecordGrantStep ==
  ASSUME Rewards!PerksShape, PerkInv, NEW s \in Requests, Rewards!RecordGrant(s)
  PROVE  PerkInv'
<1>1. PICK t : t = perk[s]
  OBVIOUS
<1>2. PICK g : g = <<t.b, t.rule>>
  BY Zenon
<1>3. /\ t \in Chores /\ Errand(t) /\ t.pc = "record"
      /\ UNCHANGED <<ref, rewards, added, days, blended, forfeited, Rewards!coupon, Rewards!deaths>>
      /\ perk' = [perk EXCEPT ![s] = Rewards!Idle]
      /\ honoured' = honoured \cup {g} /\ g = Rewards!Grant(s) /\ g \in added
  BY <1>1, <1>2, ChoreOf DEF Rewards!RecordGrant, Rewards!At, Rewards!End, Rewards!Grant, Errand
<1>4. Rewards!Idle \in Chores /\ Rewards!Idle.pc = "idle" /\ Errand(Rewards!Idle)'
  BY ChoreOf DEF Rewards!Idle
<1>5. Rewards!TypeOK'
  BY <1>3 DEF PerkInv, Rewards!TypeOK, Rewards!coupon, Rewards!deaths
<1>6. Errands'
  BY <1>1, <1>3, <1>4, ErrandsKept, Zenon DEF Rewards!coupon
<1>7. SlotsHeld'
  BY <1>1, <1>3, <1>4, SlotsKept, Zenon DEF Elsewhere
<1>8. perk \in [Requests -> Chores]
  BY DEF PerkInv, Errands
<1>9. perk'[s] = Rewards!Idle /\ \A z \in Requests \ {s} : perk'[z] = perk[z]
  BY <1>3, <1>8
<1>10. GrantsHeld'
  <2>1. OneHonours'
    BY <1>3, <1>4, HonoursKept DEF Honouring
  <2>2. CopiesFresh'
    BY <1>3, <1>4, CopiesKept
  <2> QED BY <2>1, <2>2, <1>3 DEF PerkInv, GrantsHeld
<1>11. Rewards!RewardsExact'
  <2>1. \A h : /\ Rewards!Granting(h, {"reward"}) => Rewards!Granting(h, {"reward"})'
               /\ Rewards!Granting(h, {"read", "extend"}) => Rewards!Granting(h, {"read", "extend"})'
               /\ Rewards!Granting(h, {"record"}) => Rewards!Granting(h, {"record"})' \/ h = g
    BY <1>1, <1>3, <1>9 DEF Rewards!Granting, Rewards!Grant
  <2>2. UNCHANGED <<paid, lost>>
    BY <1>3 DEF Rewards!coupon, Rewards!deaths
  <2> QED BY <1>3, <2>1, <2>2
     DEF PerkInv, Rewards!RewardsExact, Rewards!GrantsOf, Rewards!Beneficiary
<1> QED BY <1>5, <1>6, <1>7, <1>10, <1>11 DEF PerkInv

-----------------------------------------------------------------------------
\* A confirmed payment reads the period and writes it.
LEMMA ReadPlanStep ==
  ASSUME Rewards!PerksShape, PerkInv, NEW s \in Requests, Rewards!ReadPlan(s)
  PROVE  PerkInv'
<1>1. PICK t : t = perk[s]
  OBVIOUS
<1>2. /\ t \in Chores /\ Errand(t) /\ t.pc = "plan" /\ t.b \in Referred
      /\ UNCHANGED <<ref, rewards, added, honoured, days, forfeited, Rewards!coupon, Rewards!deaths>>
      /\ blended' = Rewards!Blend(t.b)
  BY <1>1, ChoreOf, Zenon DEF Rewards!ReadPlan, Rewards!At, Errand, Confirming
<1>3. PICK r : r = [t EXCEPT !.pc = "write", !.copy = days[t.b]] /\ perk' = [perk EXCEPT ![s] = r]
  BY <1>1, Zenon DEF Rewards!ReadPlan
<1>4. /\ r \in Chores /\ r.pc = "write" /\ r.copy = days[t.b] /\ r.b = t.b /\ r.rule = t.rule
      /\ r.p = t.p
  <2>1. days[t.b] \in Nat
    BY <1>2 DEF PerkInv, Rewards!TypeOK
  <2> QED BY <2>1, <1>2, <1>3 DEF Chores, PerkPcs
<1>5. \A u : HasRead(r, u) => u = t.b
  BY <1>4 DEF HasRead
<1>6. Errand(r)'
  BY <1>2, <1>4 DEF Errand, Granted, Confirming, Rewards!coupon
<1>7. Rewards!TypeOK'
  BY <1>2 DEF PerkInv, Rewards!TypeOK, Rewards!coupon, Rewards!deaths
<1>8. Errands'
  BY <1>2, <1>3, <1>6, ErrandsKept, Zenon DEF Rewards!coupon
<1>9. SlotsHeld'
  BY <1>1, <1>2, <1>3, <1>4, SlotsLeft DEF Writing
<1>10. perk \in [Requests -> Chores]
  BY DEF PerkInv, Errands
<1>11. perk'[s] = r /\ \A z \in Requests \ {s} : perk'[z] = perk[z]
  BY <1>3, <1>10
<1>12. GrantsHeld'
  <2>1. OneHonours'
    BY <1>3, <1>4, HonoursKept DEF Honouring
  <2>2. CopiesFresh'
    BY <1>2, <1>3, <1>4, <1>5, Blended, CopiesRead, Zenon
  <2> QED BY <2>1, <2>2, <1>2 DEF PerkInv, GrantsHeld
<1>13. Rewards!RewardsExact'
  <2>1. \A h : /\ Rewards!Granting(h, {"reward"}) => Rewards!Granting(h, {"reward"})'
               /\ Rewards!Granting(h, {"read", "extend"}) => Rewards!Granting(h, {"read", "extend"})'
               /\ Rewards!Granting(h, {"record"}) => Rewards!Granting(h, {"record"})'
    BY <1>1, <1>2, <1>11 DEF Rewards!Granting, Rewards!Grant
  <2>2. UNCHANGED <<paid, lost>> /\ blended \subseteq blended'
    BY <1>2, Blended DEF Rewards!coupon, Rewards!deaths
  <2> QED BY <1>2, <2>1, <2>2
     DEF PerkInv, Rewards!RewardsExact, Rewards!GrantsOf, Rewards!Beneficiary
<1> QED BY <1>7, <1>8, <1>9, <1>12, <1>13 DEF PerkInv

LEMMA WritePlanStep ==
  ASSUME Rewards!PerksShape, PerkInv, NEW s \in Requests, NEW renewed \in BOOLEAN,
         Rewards!WritePlan(s, renewed)
  PROVE  PerkInv'
<1>1. PICK t : t = perk[s]
  OBVIOUS
<1>2. PICK x : x = t.b
  OBVIOUS
<1>3. /\ t \in Chores /\ Errand(t) /\ t.pc = "write" /\ x \in Referred /\ t.copy \in Nat
      /\ UNCHANGED <<ref, rewards, added, honoured, blended, Rewards!coupon, Rewards!deaths>>
      /\ days' = [days EXCEPT ![x] = IF renewed THEN t.copy ELSE 0]
      /\ forfeited' = IF renewed THEN forfeited ELSE forfeited \cup Rewards!GrantsOf(x)
  BY <1>1, <1>2, ChoreOf DEF Rewards!WritePlan, Rewards!At, Errand, Confirming, Chores
<1>4. PICK r : r = [t EXCEPT !.pc = "claim", !.copy = 0] /\ perk' = [perk EXCEPT ![s] = r]
  BY <1>1, Zenon DEF Rewards!WritePlan
<1>5. r \in Chores /\ r.pc = "claim" /\ r.b = t.b /\ r.rule = t.rule /\ r.p = t.p
  BY <1>3, <1>4 DEF Chores, PerkPcs
<1>6. /\ days \in [Referred \cup {Rewards!Referrer} -> Nat]
      /\ days' \in [Referred \cup {Rewards!Referrer} -> Nat]
      /\ days'[x] = (IF renewed THEN t.copy ELSE 0)
      /\ \A y \in (Referred \cup {Rewards!Referrer}) \ {x} : days'[y] = days[y]
  <2>1. days \in [Referred \cup {Rewards!Referrer} -> Nat]
    BY DEF PerkInv, Rewards!TypeOK
  <2> QED BY <2>1, <1>3
<1>7. Errand(r)'
  BY <1>3, <1>5 DEF Errand, Granted, Confirming, Rewards!coupon
<1>8. forfeited \subseteq forfeited' /\ honoured \cup forfeited' \subseteq added
      /\ \A y : y # x => Rewards!GrantsOf(y) \ forfeited' = Rewards!GrantsOf(y) \ forfeited
  <2>1. honoured \cup forfeited \subseteq added
    BY DEF PerkInv, Rewards!TypeOK
  <2>2. Rewards!GrantsOf(x) \subseteq added
        /\ \A y : y # x => Rewards!GrantsOf(y) \cap Rewards!GrantsOf(x) = {}
    BY DEF Rewards!GrantsOf
  <2> QED BY <2>1, <2>2, <1>3
<1>9. Rewards!TypeOK'
  BY <1>3, <1>6, <1>8 DEF PerkInv, Rewards!TypeOK, Rewards!coupon, Rewards!deaths
<1>10. Errands'
  BY <1>3, <1>4, <1>7, ErrandsKept, Zenon DEF Rewards!coupon
<1>11. SlotsHeld'
  BY <1>1, <1>3, <1>4, <1>5, SlotsLeft DEF Writing
<1>12. perk \in [Requests -> Chores]
  BY DEF PerkInv, Errands
<1>13. perk'[s] = r /\ \A z \in Requests \ {s} : perk'[z] = perk[z]
  BY <1>4, <1>12
<1>14. HasRead(perk[s], x)
  BY <1>1, <1>2, <1>3 DEF HasRead
<1>15. GrantsHeld'
  <2>1. OneHonours'
    BY <1>4, <1>5, HonoursKept DEF Honouring
  <2>2. CopiesFresh'
    BY <1>3, <1>4, <1>5, <1>6, <1>14, CopiesKept
  <2> QED BY <2>1, <2>2, <1>3 DEF PerkInv, GrantsHeld
<1>16. Rewards!RewardsExact'
  <2>1. \A h : /\ Rewards!Granting(h, {"reward"}) => Rewards!Granting(h, {"reward"})'
               /\ Rewards!Granting(h, {"read", "extend"}) => Rewards!Granting(h, {"read", "extend"})'
               /\ Rewards!Granting(h, {"record"}) => Rewards!Granting(h, {"record"})'
    BY <1>1, <1>3, <1>13 DEF Rewards!Granting, Rewards!Grant
  <2>2. UNCHANGED <<paid, lost>>
    BY <1>3 DEF Rewards!coupon, Rewards!deaths
  <2>3. \A y : Rewards!GrantsOf(y)' = Rewards!GrantsOf(y)
    BY <1>3 DEF Rewards!GrantsOf, Rewards!Beneficiary
  <2>4. ASSUME NEW y \in Referred \cup {Rewards!Referrer}, y \notin blended
        PROVE  days'[y] = Rewards!Cardinality(Rewards!GrantsOf(y) \ forfeited')
    <3>1. days[y] = Rewards!Cardinality(Rewards!GrantsOf(y) \ forfeited)
      BY <1>6, <2>4 DEF PerkInv, Rewards!RewardsExact
    <3>2. CASE y = x /\ renewed
      <4>1. t.copy = days[x]
        BY <1>1, <1>3, <1>14, <2>4, <3>2 DEF PerkInv, GrantsHeld, CopiesFresh
      <4> QED BY <4>1, <3>1, <3>2, <1>3, <1>6
    <3>3. CASE y = x /\ ~renewed
      <4>1. Rewards!GrantsOf(y) \ forfeited' = {}
        BY <1>3, <3>3
      <4> QED BY <4>1, <3>3, <1>6, PerkEmpty
    <3>4. CASE y # x
      BY <3>1, <3>4, <1>6, <1>8
    <3> QED BY <3>2, <3>3, <3>4
  <2>5. DOMAIN days' = Referred \cup {Rewards!Referrer}
    BY <1>6
  <2>6. \A y \in (DOMAIN days \ blended)' :
          days'[y] = Rewards!Cardinality((Rewards!GrantsOf(y) \ forfeited)')
    BY <2>3, <2>4, <2>5, <1>3
  <2> QED BY <1>3, <2>1, <2>2, <2>6 DEF PerkInv, Rewards!RewardsExact, Rewards!GrantsOf
<1> QED BY <1>9, <1>10, <1>11, <1>15, <1>16 DEF PerkInv

-----------------------------------------------------------------------------
\* Outside the grants, a step of the coupon keeps the rest.
LEMMA CouponStep ==
  ASSUME Rewards!PerksShape, PerkInv, NEW s \in Requests, NEW r \in Chores,
         perk' = [perk EXCEPT ![s] = r], r.pc \notin Granted, perk[s].pc \notin Granted, r.pc # "write",
         Errand(r)', UNCHANGED Rewards!referral, UNCHANGED lost,
         \A p \in Payments : paid[p] # "open" => paid'[p] # "open",
         SlotsHeld', Rewards!TypeOK'
  PROVE  PerkInv'
<1>1. UNCHANGED <<ref, rewards, added, honoured>>
  BY DEF Rewards!referral
<1>2. Errands'
  BY <1>1, ErrandsKept, Zenon
<1>3. GrantsHeld' /\ Rewards!RewardsExact'
  BY GrantsKept, Zenon
<1> QED BY <1>2, <1>3 DEF PerkInv

LEMMA CaptureStep ==
  ASSUME Rewards!PerksShape, PerkInv, NEW s \in Requests, NEW p \in Payments,
         Rewards!Capture(s, p)
  PROVE  PerkInv'
<1>1. PICK r : /\ r = [Rewards!Idle EXCEPT !.pc = "plan", !.b = OwnerOf[p], !.p = p,
                                   !.rule = "referral_conversion"]
               /\ perk' = [perk EXCEPT ![s] = r]
  BY Zenon DEF Rewards!Capture
<1>2. /\ perk[s].pc = "idle" /\ paid[p] = "open" /\ paid' = [paid EXCEPT ![p] = "captured"]
      /\ UNCHANGED <<Rewards!referral, count, redemptions, late, lost, leaked>>
  BY DEF Rewards!Capture, Rewards!Free, Rewards!At, Rewards!deaths
<1>3. /\ r \in Chores /\ r.pc = "plan" /\ r.p = p /\ r.b = OwnerOf[p]
      /\ r.rule = "referral_conversion"
  BY <1>1, Zenon DEF Rewards!Idle, Chores, PerkPcs, Rewards!Rules, Rewards!PerksShape
<1>4. /\ paid \in [Payments -> {"open", "captured", "refunded"}]
      /\ paid' \in [Payments -> {"open", "captured", "refunded"}] /\ paid'[p] = "captured"
      /\ \A q \in Payments \ {p} : paid'[q] = paid[q]
  <2>1. paid \in [Payments -> {"open", "captured", "refunded"}]
    BY DEF PerkInv, Rewards!TypeOK
  <2> QED BY <2>1, <1>2
<1>5. Errand(r)'
  BY <1>3, <1>4 DEF Errand, Granted, Confirming, Rewards!PerksShape
<1>6. Rewards!TypeOK'
  BY <1>2, <1>4 DEF PerkInv, Rewards!TypeOK, Rewards!referral
<1>7. perk \in [Requests -> Chores]
  BY DEF PerkInv, Errands
<1>8. perk'[s] = r /\ \A z \in Requests \ {s} : perk'[z] = perk[z]
  BY <1>1, <1>7
<1>9. SlotsHeld'
  <2>1. HeldOut' = HeldOut
    BY <1>2, <1>3, <1>8 DEF HeldOut
  <2>2. \A q : Rewards!Active(q, {"release"}) => Rewards!Active(q, {"release"})'
    BY <1>2, <1>8 DEF Rewards!Active
  <2>3. \A q \in Payments : Excused(q) => Excused(q)'
    BY <1>2, <1>4, <2>2 DEF Excused
  <2>4. Excused(p)'
    BY <1>4 DEF Excused
  <2>5. \A z \in Requests : Writing(perk[z]) => perk[z].p \in Payments /\ paid[perk[z].p] # "open"
    BY Zenon DEF PerkInv, Errands, Errand, Writing, Confirming
  <2>6. redemptions \subseteq Payments /\ p \notin redemptions
    BY <1>2 DEF PerkInv, Rewards!TypeOK, SlotsHeld
  <2>7. ASSUME NEW z \in Requests, Writing(perk'[z])
        PROVE  perk'[z].p \notin redemptions /\ Excused(perk[z].p)'
    <3>0. PICK q : q = perk'[z].p
      OBVIOUS
    <3>1. CASE z = s
      BY <3>0, <3>1, <1>3, <1>8, <2>4, <2>6, ExcusedAt
    <3>2. CASE z # s
      <4>1. Writing(perk[z]) /\ q = perk[z].p
        BY <3>0, <3>2, <1>8, <2>7
      <4>2. q \in Payments /\ q \notin redemptions /\ Excused(q)
        BY <4>1, <2>5 DEF PerkInv, SlotsHeld
      <4> QED BY <3>0, <4>2, <2>3, ExcusedAt
    <3> QED BY <3>1, <3>2
  <2>8. ASSUME NEW y \in Requests, NEW z \in Requests, Writing(perk'[y]), Writing(perk'[z]),
               perk'[y].p = perk'[z].p
        PROVE  y = z
    <3>1. CASE y # s /\ z # s
      BY <3>1, <1>8, <2>8 DEF PerkInv, SlotsHeld
    <3>2. CASE y = s /\ z # s
      BY <3>2, <1>2, <1>3, <1>8, <2>5, <2>8
    <3>3. CASE y # s /\ z = s
      BY <3>3, <1>2, <1>3, <1>8, <2>5, <2>8
    <3> QED BY <3>1, <3>2, <3>3
  <2>9. \A q \in redemptions : paid'[q] # "open" /\ Excused(q)'
    BY <2>3, <2>6, <1>4 DEF PerkInv, SlotsHeld
  <2>10. /\ count' <= CouponCap /\ leaked' \in Nat /\ Rewards!IsFiniteSet(lost')
         /\ count' = leaked' + Rewards!Cardinality(redemptions') + Rewards!Cardinality(HeldOut')
    BY <2>1, <1>2 DEF PerkInv, SlotsHeld
  <2> QED BY <1>2, <2>7, <2>8, <2>9, <2>10 DEF SlotsHeld
<1> QED BY <1>1, <1>2, <1>3, <1>4, <1>5, <1>6, <1>9, CouponStep, Zenon DEF Granted

LEMMA ClaimSlotStep ==
  ASSUME Rewards!PerksShape, PerkInv, NEW s \in Requests, Rewards!ClaimSlot(s)
  PROVE  PerkInv'
<1>1. PICK t : t = perk[s]
  OBVIOUS
<1>2. /\ t \in Chores /\ Errand(t) /\ t.pc = "claim"
      /\ UNCHANGED <<Rewards!referral, paid, redemptions, late, lost, leaked>>
  BY <1>1, ChoreOf DEF Rewards!ClaimSlot, Rewards!At, Rewards!deaths
<1>3. PICK r : /\ perk' = [perk EXCEPT ![s] = r]
               /\ \/ count < CouponCap /\ count' = count + 1 /\ r = [t EXCEPT !.pc = "row"]
                  \/ count' = count /\ r = [t EXCEPT !.pc = "convert"]
  BY <1>1, Zenon DEF Rewards!ClaimSlot, Rewards!Go, Rewards!Room
<1>4. /\ r \in Chores /\ r.pc \in {"row", "convert"} /\ r.b = t.b /\ r.p = t.p
      /\ r.rule = t.rule
      /\ r.pc = "row" => count < CouponCap /\ count' = count + 1
      /\ r.pc = "convert" => count' = count
  BY <1>2, <1>3 DEF Chores, PerkPcs
<1>5. Errand(r)'
  BY <1>2, <1>4 DEF Errand, Granted, Confirming, Rewards!referral
<1>6. count \in Nat /\ count' \in Nat /\ count' <= CouponCap
  BY <1>4 DEF PerkInv, Rewards!TypeOK, SlotsHeld, Rewards!PerksShape
<1>7. Rewards!TypeOK'
  BY <1>2, <1>6 DEF PerkInv, Rewards!TypeOK, Rewards!referral
<1>8. perk \in [Requests -> Chores] /\ perk' \in [Requests -> Chores]
  BY <1>3, <1>4 DEF PerkInv, Errands
<1>9. perk'[s] = r /\ \A z \in Requests \ {s} : perk'[z] = perk[z]
  BY <1>3, <1>8
<1>10. SlotsHeld'
  <2>1. count' = leaked' + Rewards!Cardinality(redemptions') + Rewards!Cardinality(HeldOut')
    <3>1. s \notin HeldOut /\ Rewards!IsFiniteSet(Requests) /\ HeldOut \in SUBSET Requests
      BY <1>1, <1>2 DEF HeldOut, Rewards!PerksShape
    <3>2. Rewards!Cardinality(HeldOut) \in Nat
          /\ Rewards!Cardinality(HeldOut \cup {s}) = Rewards!Cardinality(HeldOut) + 1
      BY <3>1, AddOne
    <3>3. r.pc = "row" => HeldOut' = HeldOut \cup {s}
      BY <1>9 DEF HeldOut
    <3>4. r.pc = "convert" => HeldOut' = HeldOut
      BY <1>1, <1>2, <1>9 DEF HeldOut
    <3>5. Rewards!Cardinality(redemptions) \in Nat
      BY PerkCounted, PerkSubset DEF PerkInv, Rewards!TypeOK, Rewards!PerksShape
    <3>6. /\ leaked' = leaked /\ Rewards!Cardinality(redemptions') = Rewards!Cardinality(redemptions)
          /\ leaked \in Nat /\ count = leaked + Rewards!Cardinality(redemptions) + Rewards!Cardinality(HeldOut)
      BY <1>2 DEF PerkInv, SlotsHeld
    <3>7. CASE r.pc = "row"
      <4>1. Rewards!Cardinality(HeldOut') = Rewards!Cardinality(HeldOut) + 1 /\ count' = count + 1
        BY <3>2, <3>3, <3>7, <1>4
      <4> QED BY <4>1, <3>2, <3>5, <3>6
    <3>8. CASE r.pc = "convert"
      BY <3>4, <3>6, <3>8, <1>4
    <3> QED BY <3>7, <3>8, <1>4
  <2>2. \A q : Rewards!Active(q, {"release"}) => Rewards!Active(q, {"release"})'
    BY <1>1, <1>2, <1>9 DEF Rewards!Active
  <2>3. \A q \in Payments : Excused(q) => Excused(q)'
    BY <1>2, <2>2 DEF Excused
  <2>4. redemptions \subseteq Payments
    BY DEF PerkInv, Rewards!TypeOK
  <2>5. /\ \A z \in Requests : Writing(perk'[z]) =>
             perk'[z].p \notin redemptions' /\ Excused(perk[z].p)'
        /\ \A y, z \in Requests :
             Writing(perk'[y]) /\ Writing(perk'[z]) /\ perk'[y].p = perk'[z].p => y = z
    BY <1>1, <1>2, <1>4, <1>8, <1>9, <2>3, WritingKept DEF Writing
  <2> QED BY <1>2, <1>6, <2>1, <2>3, <2>4, <2>5 DEF PerkInv, SlotsHeld
<1> QED BY <1>1, <1>2, <1>3, <1>4, <1>5, <1>7, <1>10, CouponStep, Zenon DEF Granted

LEMMA CreateRedemptionStep ==
  ASSUME Rewards!PerksShape, PerkInv, NEW s \in Requests, Rewards!CreateRedemption(s)
  PROVE  PerkInv'
<1>1. PICK t : t = perk[s]
  OBVIOUS
<1>2. /\ t \in Chores /\ Errand(t) /\ t.pc = "row" /\ t.p \in Payments
      /\ UNCHANGED <<Rewards!referral, paid, count, late, lost, leaked>>
      /\ redemptions' = redemptions \cup {t.p}
  BY <1>1, ChoreOf DEF Rewards!CreateRedemption, Rewards!At, Rewards!deaths, Errand, Confirming
<1>3. PICK r : perk' = [perk EXCEPT ![s] = r] /\ r = [t EXCEPT !.pc = "convert"]
  BY <1>1, Zenon DEF Rewards!CreateRedemption, Rewards!Go
<1>4. r \in Chores /\ r.pc = "convert" /\ r.b = t.b /\ r.p = t.p /\ r.rule = t.rule
  BY <1>2, <1>3 DEF Chores, PerkPcs
<1>5. Errand(r)'
  BY <1>2, <1>4 DEF Errand, Granted, Confirming, Rewards!referral
<1>6. redemptions \subseteq Payments /\ count \in Nat
  BY DEF PerkInv, Rewards!TypeOK
<1>7. Rewards!TypeOK'
  BY <1>2, <1>6 DEF PerkInv, Rewards!TypeOK, Rewards!referral
<1>8. perk \in [Requests -> Chores] /\ perk' \in [Requests -> Chores]
  BY <1>3, <1>4 DEF PerkInv, Errands
<1>9. perk'[s] = r /\ \A z \in Requests \ {s} : perk'[z] = perk[z]
  BY <1>3, <1>8
<1>10. SlotsHeld'
  <2>0. Writing(t) /\ t.p \notin redemptions /\ Excused(t.p) /\ paid[t.p] # "open"
    BY <1>1, <1>2 DEF PerkInv, SlotsHeld, Writing, Errand, Confirming
  <2>1. count' = leaked' + Rewards!Cardinality(redemptions') + Rewards!Cardinality(HeldOut')
    <3>1. s \in HeldOut /\ HeldOut' = HeldOut \ {s} /\ HeldOut \in SUBSET Requests
      BY <1>1, <1>2, <1>4, <1>9 DEF HeldOut
    <3>2. /\ Rewards!Cardinality(HeldOut) \in Nat \ {0}
          /\ Rewards!Cardinality(HeldOut \ {s}) = Rewards!Cardinality(HeldOut) - 1
      BY <3>1, TakeOne DEF Rewards!PerksShape
    <3>3. /\ Rewards!Cardinality(redemptions) \in Nat
          /\ Rewards!Cardinality(redemptions \cup {t.p}) = Rewards!Cardinality(redemptions) + 1
      BY <1>2, <1>6, <2>0, AddOne, Zenon DEF Rewards!PerksShape
    <3> QED BY <3>1, <3>2, <3>3, <1>2, <1>6 DEF PerkInv, SlotsHeld
  <2>2. \A q : Rewards!Active(q, {"release"}) => Rewards!Active(q, {"release"})'
    BY <1>1, <1>2, <1>9 DEF Rewards!Active
  <2>3. \A q \in Payments : Excused(q) => Excused(q)'
    BY <1>2, <2>2 DEF Excused
  <2>4. \A q \in redemptions' : paid'[q] # "open" /\ Excused(q)'
    BY <1>2, <1>6, <2>0, <2>3 DEF PerkInv, SlotsHeld
  <2>5. /\ \A z \in Requests : Writing(perk'[z]) =>
             perk'[z].p \notin redemptions' /\ Excused(perk[z].p)'
        /\ \A y, z \in Requests :
             Writing(perk'[y]) /\ Writing(perk'[z]) /\ perk'[y].p = perk'[z].p => y = z
    BY <1>1, <1>2, <1>4, <1>8, <1>9, <2>0, <2>3, WritingKept DEF Writing
  <2> QED BY <1>2, <2>1, <2>4, <2>5 DEF PerkInv, SlotsHeld
<1> QED BY <1>1, <1>2, <1>3, <1>4, <1>5, <1>7, <1>10, CouponStep, Zenon DEF Granted

LEMMA RefundStep ==
  ASSUME Rewards!PerksShape, PerkInv, NEW s \in Requests, NEW p \in Payments, Rewards!Refund(s, p)
  PROVE  PerkInv'
<1>1. PICK r : /\ r = [Rewards!Idle EXCEPT !.pc = "release", !.p = p]
               /\ perk' = [perk EXCEPT ![s] = r]
  BY Zenon DEF Rewards!Refund
<1>2. /\ perk[s].pc = "idle" /\ paid[p] = "captured" /\ paid' = [paid EXCEPT ![p] = "refunded"]
      /\ UNCHANGED <<Rewards!referral, count, redemptions, late, lost, leaked>>
  BY DEF Rewards!Refund, Rewards!Free, Rewards!At, Rewards!deaths
<1>3. r \in Chores /\ r.pc = "release" /\ r.p = p /\ r.rule = "none"
  BY <1>1, Zenon DEF Rewards!Idle, Chores, PerkPcs
<1>4. /\ paid' \in [Payments -> {"open", "captured", "refunded"}] /\ paid'[p] = "refunded"
      /\ \A q \in Payments \ {p} : paid'[q] = paid[q]
  <2>1. paid \in [Payments -> {"open", "captured", "refunded"}]
    BY DEF PerkInv, Rewards!TypeOK
  <2> QED BY <2>1, <1>2
<1>5. Errand(r)'
  BY <1>3 DEF Errand, Granted, Confirming
<1>6. Rewards!TypeOK'
  BY <1>2, <1>4 DEF PerkInv, Rewards!TypeOK, Rewards!referral
<1>7. perk \in [Requests -> Chores] /\ perk' \in [Requests -> Chores]
  BY <1>1, <1>3 DEF PerkInv, Errands
<1>8. perk'[s] = r /\ \A z \in Requests \ {s} : perk'[z] = perk[z]
  BY <1>1, <1>7
<1>9. SlotsHeld'
  <2>1. HeldOut' = HeldOut
    BY <1>2, <1>3, <1>8 DEF HeldOut
  <2>2. /\ \A q : Rewards!Active(q, {"release"}) => Rewards!Active(q, {"release"})'
        /\ Rewards!Active(p, {"release"})'
    BY <1>2, <1>3, <1>8 DEF Rewards!Active
  <2>3. \A q \in Payments : Excused(q) => Excused(q)'
    BY <1>2, <1>4, <2>2 DEF Excused
  <2>4. redemptions \subseteq Payments
    BY DEF PerkInv, Rewards!TypeOK
  <2>5. /\ \A z \in Requests : Writing(perk'[z]) =>
             perk'[z].p \notin redemptions' /\ Excused(perk[z].p)'
        /\ \A y, z \in Requests :
             Writing(perk'[y]) /\ Writing(perk'[z]) /\ perk'[y].p = perk'[z].p => y = z
    BY <1>2, <1>3, <1>7, <1>8, <2>3, WritingKept DEF Writing
  <2>6. \A q \in redemptions' : paid'[q] # "open" /\ Excused(q)'
    BY <1>2, <1>4, <2>3, <2>4 DEF PerkInv, SlotsHeld
  <2> QED BY <1>2, <2>1, <2>5, <2>6 DEF PerkInv, SlotsHeld
<1> QED BY <1>1, <1>2, <1>3, <1>4, <1>5, <1>6, <1>9, CouponStep, Zenon DEF Granted

LEMMA DeleteRedemptionStep ==
  ASSUME Rewards!PerksShape, PerkInv, NEW s \in Requests, Rewards!DeleteRedemption(s)
  PROVE  PerkInv'
<1>1. PICK t : t = perk[s]
  OBVIOUS
<1>2. /\ t \in Chores /\ Errand(t) /\ t.pc = "release" /\ t.p \in Payments
      /\ UNCHANGED <<Rewards!referral, paid, count, lost, leaked>>
      /\ redemptions' = redemptions \ {t.p} /\ late \subseteq late'
      /\ Rewards!Active(t.p, {"plan", "write", "claim", "row"}) => t.p \in late'
  BY <1>1, ChoreOf DEF Rewards!DeleteRedemption, Rewards!At, Rewards!deaths, Errand
<1>3. PICK r : /\ perk' = [perk EXCEPT ![s] = r]
               /\ \/ t.p \in redemptions /\ r = [t EXCEPT !.pc = "return"]
                  \/ t.p \notin redemptions /\ r = Rewards!Idle
  BY <1>1, Zenon DEF Rewards!DeleteRedemption, Rewards!Go, Rewards!End
<1>4. /\ r \in Chores /\ r.pc \in {"return", "idle"}
      /\ t.p \in redemptions => r.pc = "return" /\ r.b = t.b /\ r.p = t.p /\ r.rule = t.rule
      /\ t.p \notin redemptions => r = Rewards!Idle /\ r.pc = "idle"
  BY <1>2, <1>3 DEF Chores, PerkPcs, Rewards!Idle
<1>5. Errand(r)'
  <2>1. CASE t.p \in redemptions
    BY <1>2, <1>4, <2>1 DEF Errand, Granted, Confirming, Rewards!referral
  <2> QED BY <1>4, <2>1, ChoreOf
<1>6. redemptions \subseteq Payments /\ count \in Nat
  BY DEF PerkInv, Rewards!TypeOK
<1>7. Rewards!TypeOK'
  BY <1>2, <1>6 DEF PerkInv, Rewards!TypeOK, Rewards!referral
<1>8. perk \in [Requests -> Chores] /\ perk' \in [Requests -> Chores]
  BY <1>3, <1>4 DEF PerkInv, Errands
<1>9. perk'[s] = r /\ \A z \in Requests \ {s} : perk'[z] = perk[z]
  BY <1>3, <1>8
<1>10. SlotsHeld'
  <2>1. count' = leaked' + Rewards!Cardinality(redemptions') + Rewards!Cardinality(HeldOut')
    <3>1. s \notin HeldOut /\ HeldOut \in SUBSET Requests
      BY <1>1, <1>2 DEF HeldOut
    <3>2. Rewards!Cardinality(HeldOut) \in Nat
          /\ Rewards!Cardinality(HeldOut \cup {s}) = Rewards!Cardinality(HeldOut) + 1
      BY <3>1, AddOne DEF Rewards!PerksShape
    <3>3. /\ leaked' = leaked /\ leaked \in Nat /\ count' = count
          /\ count = leaked + Rewards!Cardinality(redemptions) + Rewards!Cardinality(HeldOut)
      BY <1>2 DEF PerkInv, SlotsHeld
    <3>4. CASE t.p \in redemptions
      <4>1. HeldOut' = HeldOut \cup {s}
        BY <1>4, <1>9, <3>4 DEF HeldOut
      <4>2. /\ Rewards!Cardinality(redemptions) \in Nat \ {0}
            /\ Rewards!Cardinality(redemptions \ {t.p}) = Rewards!Cardinality(redemptions) - 1
        BY <1>6, <3>4, TakeOne, Zenon DEF Rewards!PerksShape
      <4> QED BY <4>1, <4>2, <3>2, <3>3, <1>2
    <3>5. CASE t.p \notin redemptions
      <4>1. HeldOut' = HeldOut
        BY <1>1, <1>2, <1>4, <1>9, <3>5 DEF HeldOut
      <4>2. redemptions' = redemptions
        BY <1>2, <3>5
      <4> QED BY <4>1, <4>2, <3>3
    <3> QED BY <3>4, <3>5
  <2>2. \A q : Rewards!Active(q, {"release"}) => Rewards!Active(q, {"release"})' \/ q = t.p
    BY <1>1, <1>2, <1>9 DEF Rewards!Active
  <2>3. \A q \in Payments : Excused(q) => Excused(q)' \/ q = t.p
    BY <1>2, <2>2 DEF Excused
  <2>4. \A q \in redemptions' : paid'[q] # "open" /\ Excused(q)'
    BY <1>2, <1>6, <2>3 DEF PerkInv, SlotsHeld
  <2>5. \A z \in Requests : Writing(perk'[z]) =>
          z # s /\ perk'[z] = perk[z] /\ perk[z].p \in Payments
    BY <1>4, <1>9, Zenon DEF Writing, PerkInv, Errands, Errand, Confirming
  <2>6. ASSUME NEW z \in Requests, Writing(perk'[z])
        PROVE  perk'[z].p \notin redemptions' /\ Excused(perk[z].p)'
    <3>1. PICK q : q = perk'[z].p
      OBVIOUS
    <3>2. q = perk[z].p /\ q \in Payments /\ Writing(perk[z])
      BY <2>5, <2>6, <3>1
    <3>3. q \notin redemptions' /\ Excused(q)
      BY <3>2, <1>2 DEF PerkInv, SlotsHeld
    <3>4. q = t.p => q \in late'
      BY <3>2, <1>2, Zenon DEF Rewards!Active, Writing
    <3>5. Excused(q)'
      BY <3>2, <3>3, <3>4, <2>3 DEF Excused
    <3> QED BY <3>1, <3>3, <3>5, ExcusedAt
  <2>7. \A y, z \in Requests :
          Writing(perk'[y]) /\ Writing(perk'[z]) /\ perk'[y].p = perk'[z].p => y = z
    BY <2>5 DEF PerkInv, SlotsHeld
  <2> QED BY <1>2, <2>1, <2>4, <2>6, <2>7 DEF PerkInv, SlotsHeld
<1> QED BY <1>1, <1>2, <1>3, <1>4, <1>5, <1>7, <1>10, CouponStep, Zenon DEF Granted

LEMMA ReturnSlotStep ==
  ASSUME Rewards!PerksShape, PerkInv, NEW s \in Requests, Rewards!ReturnSlot(s)
  PROVE  PerkInv'
<1>1. PICK t : t = perk[s]
  OBVIOUS
<1>2. /\ t \in Chores /\ Errand(t) /\ t.pc = "return" /\ t.p \in Payments
      /\ UNCHANGED <<Rewards!referral, paid, redemptions, late, lost, leaked>>
      /\ count' = (IF count > 0 THEN count - 1 ELSE count)
      /\ perk' = [perk EXCEPT ![s] = Rewards!Idle]
  BY <1>1, ChoreOf DEF Rewards!ReturnSlot, Rewards!At, Rewards!deaths, Errand, Rewards!End
<1>3. Rewards!Idle \in Chores /\ Rewards!Idle.pc = "idle" /\ Errand(Rewards!Idle)'
  BY ChoreOf DEF Rewards!Idle
<1>4. perk \in [Requests -> Chores] /\ perk' \in [Requests -> Chores]
  BY <1>2, <1>3 DEF PerkInv, Errands
<1>5. perk'[s] = Rewards!Idle /\ \A z \in Requests \ {s} : perk'[z] = perk[z]
  BY <1>2, <1>4
<1>6. /\ Rewards!Cardinality(HeldOut) \in Nat \ {0}
      /\ Rewards!Cardinality(HeldOut') = Rewards!Cardinality(HeldOut) - 1
  <2>1. s \in HeldOut /\ HeldOut' = HeldOut \ {s} /\ HeldOut \in SUBSET Requests
    BY <1>1, <1>2, <1>3, <1>5 DEF HeldOut
  <2> QED BY <2>1, TakeOne DEF Rewards!PerksShape
<1>7. /\ Rewards!Cardinality(redemptions) \in Nat /\ leaked \in Nat /\ redemptions' = redemptions
      /\ leaked' = leaked /\ count <= CouponCap /\ count \in Nat
      /\ count = leaked + Rewards!Cardinality(redemptions) + Rewards!Cardinality(HeldOut)
  BY <1>2, PerkCounted, PerkSubset DEF PerkInv, Rewards!TypeOK, Rewards!PerksShape, SlotsHeld
<1>8. count' = count - 1 /\ count' \in Nat /\ count' <= CouponCap
  BY <1>2, <1>6, <1>7 DEF Rewards!PerksShape
<1>9. Rewards!TypeOK'
  BY <1>2, <1>8 DEF PerkInv, Rewards!TypeOK, Rewards!referral
<1>10. SlotsHeld'
  <2>1. count' = leaked' + Rewards!Cardinality(redemptions') + Rewards!Cardinality(HeldOut')
    BY <1>6, <1>7, <1>8
  <2>2. \A q : Rewards!Active(q, {"release"}) => Rewards!Active(q, {"release"})'
    BY <1>1, <1>2, <1>5 DEF Rewards!Active
  <2>3. \A q \in Payments : Excused(q) => Excused(q)'
    BY <1>2, <2>2 DEF Excused
  <2>4. redemptions \subseteq Payments
    BY DEF PerkInv, Rewards!TypeOK
  <2>5. /\ \A z \in Requests : Writing(perk'[z]) =>
             perk'[z].p \notin redemptions' /\ Excused(perk[z].p)'
        /\ \A y, z \in Requests :
             Writing(perk'[y]) /\ Writing(perk'[z]) /\ perk'[y].p = perk'[z].p => y = z
    BY <1>2, <1>3, <1>4, <1>5, <2>3, WritingKept DEF Writing
  <2> QED BY <1>2, <1>8, <2>1, <2>3, <2>4, <2>5 DEF PerkInv, SlotsHeld
<1> QED BY <1>1, <1>2, <1>3, <1>9, <1>10, CouponStep, Zenon DEF Granted

LEMMA CrashStep ==
  ASSUME Rewards!PerksShape, PerkInv, NEW s \in Requests, Rewards!Crash(s)
  PROVE  PerkInv'
<1>1. PICK t : t = perk[s]
  OBVIOUS
<1>2. /\ t \in Chores /\ Errand(t)
      /\ UNCHANGED <<Rewards!referral, paid, count, redemptions>>
      /\ Rewards!Cardinality(lost) + leaked < PerkCrashes
      /\ lost' = (IF t.b # Rewards!Referrer THEN lost \cup {t.b} ELSE lost)
      /\ leaked' = leaked + (IF t.pc \in {"row", "return"} THEN 1 ELSE 0)
      /\ late' = (IF t.pc = "release" THEN late \cup {t.p} ELSE late)
      /\ perk' = [perk EXCEPT ![s] = Rewards!Idle]
  BY <1>1, ChoreOf DEF Rewards!Crash, Rewards!At, Rewards!End
<1>3. Rewards!Idle \in Chores /\ Rewards!Idle.pc = "idle" /\ Errand(Rewards!Idle)'
  BY ChoreOf DEF Rewards!Idle
<1>4. perk \in [Requests -> Chores] /\ perk' \in [Requests -> Chores]
  BY <1>2, <1>3 DEF PerkInv, Errands
<1>5. perk'[s] = Rewards!Idle /\ \A z \in Requests \ {s} : perk'[z] = perk[z]
  BY <1>2, <1>4
<1>6. /\ Rewards!IsFiniteSet(lost) /\ leaked \in Nat /\ leaked' \in Nat /\ leaked' <= leaked + 1
      /\ Rewards!IsFiniteSet(lost') /\ lost \subseteq lost'
      /\ Rewards!Cardinality(lost) \in Nat /\ Rewards!Cardinality(lost') \in Nat
      /\ Rewards!Cardinality(lost') <= Rewards!Cardinality(lost) + 1
  <2>1. Rewards!IsFiniteSet(lost) /\ leaked \in Nat /\ Rewards!Cardinality(lost) \in Nat
    BY PerkCounted DEF PerkInv, SlotsHeld
  <2>2. /\ Rewards!IsFiniteSet(lost \cup {t.b})
        /\ Rewards!Cardinality(lost \cup {t.b}) = Rewards!Cardinality(lost)
             \/ Rewards!Cardinality(lost \cup {t.b}) = Rewards!Cardinality(lost) + 1
    BY <2>1, PerkAdded
  <2>3. leaked' = leaked \/ leaked' = leaked + 1
    BY <1>2, <2>1
  <2>4. lost' = lost \/ lost' = lost \cup {t.b}
    BY <1>2
  <2>5. leaked' \in Nat /\ leaked' <= leaked + 1
    BY <2>1, <2>3
  <2>6. /\ Rewards!IsFiniteSet(lost') /\ lost \subseteq lost' /\ Rewards!Cardinality(lost') \in Nat
        /\ Rewards!Cardinality(lost') <= Rewards!Cardinality(lost) + 1
    <3>1. CASE lost' = lost
      BY <2>1, <3>1
    <3>2. CASE lost' = lost \cup {t.b}
      BY <2>1, <2>2, <3>2
    <3> QED BY <2>4, <3>1, <3>2
  <2> QED BY <2>1, <2>5, <2>6
<1>7. Rewards!TypeOK'
  <2>1. Rewards!Cardinality(lost') + leaked' \in 0 .. 2 * PerkCrashes
    <3>1. PerkCrashes \in Nat /\ Rewards!Cardinality(lost) + leaked + 1 <= PerkCrashes
      BY <1>2, <1>6 DEF Rewards!PerksShape
    <3>2. 2 * PerkCrashes = PerkCrashes + PerkCrashes
      BY <3>1
    <3>3. leaked' <= leaked + 1
      BY <1>6
    <3> QED BY <1>6, <3>1, <3>2, <3>3
  <2> QED BY <1>2, <2>1 DEF PerkInv, Rewards!TypeOK, Rewards!referral
<1>8. Errands'
  BY <1>2, <1>3, ErrandsKept, Zenon DEF Rewards!referral
<1>9. SlotsHeld'
  <2>1. count' = leaked' + Rewards!Cardinality(redemptions') + Rewards!Cardinality(HeldOut')
    <3>0. /\ count' = count /\ Rewards!Cardinality(redemptions') = Rewards!Cardinality(redemptions)
          /\ count = leaked + Rewards!Cardinality(redemptions) + Rewards!Cardinality(HeldOut)
          /\ Rewards!Cardinality(redemptions) \in Nat
      BY <1>2, PerkCounted, PerkSubset
         DEF PerkInv, SlotsHeld, Rewards!TypeOK, Rewards!PerksShape
    <3>1. CASE t.pc \in {"row", "return"}
      <4>1. s \in HeldOut /\ HeldOut' = HeldOut \ {s} /\ HeldOut \in SUBSET Requests
        BY <3>1, <1>1, <1>3, <1>5 DEF HeldOut
      <4>2. /\ Rewards!Cardinality(HeldOut) \in Nat \ {0}
            /\ Rewards!Cardinality(HeldOut') = Rewards!Cardinality(HeldOut) - 1
        BY <4>1, TakeOne DEF Rewards!PerksShape
      <4>3. leaked' = leaked + 1
        BY <1>2, <3>1
      <4> QED BY <3>0, <4>2, <4>3, <1>6
    <3>2. CASE t.pc \notin {"row", "return"}
      <4>1. HeldOut' = HeldOut
        BY <3>2, <1>1, <1>3, <1>5 DEF HeldOut
      <4>2. leaked' = leaked
        BY <1>2, <1>6, <3>2
      <4> QED BY <3>0, <4>1, <4>2
    <3> QED BY <3>1, <3>2
  <2>2. \A q : Rewards!Active(q, {"release"}) => Rewards!Active(q, {"release"})' \/ q \in late'
    BY <1>1, <1>2, <1>5 DEF Rewards!Active
  <2>3. \A q \in Payments : Excused(q) => Excused(q)'
    BY <1>2, <2>2 DEF Excused
  <2>4. redemptions \subseteq Payments
    BY DEF PerkInv, Rewards!TypeOK
  <2>5. /\ \A z \in Requests : Writing(perk'[z]) =>
             perk'[z].p \notin redemptions' /\ Excused(perk[z].p)'
        /\ \A y, z \in Requests :
             Writing(perk'[y]) /\ Writing(perk'[z]) /\ perk'[y].p = perk'[z].p => y = z
    BY <1>2, <1>3, <1>4, <1>5, <2>3, WritingKept DEF Writing
  <2> QED BY <1>2, <1>6, <2>1, <2>3, <2>4, <2>5 DEF PerkInv, SlotsHeld
<1>10. UNCHANGED <<ref, rewards, added, honoured, days, blended, forfeited>>
  BY <1>2 DEF Rewards!referral
<1>11. GrantsHeld'
  BY <1>2, <1>3, <1>10, HonoursKept, CopiesKept DEF PerkInv, GrantsHeld, Honouring
<1>12. Rewards!RewardsExact'
  <2>1. ASSUME NEW g, NEW pcs, pcs \subseteq Granted, Rewards!Granting(g, pcs)
        PROVE  Rewards!Granting(g, pcs)' \/ g[1] \in lost'
    <3>1. PICK z \in Requests : Rewards!Grant(z) = g /\ perk[z].pc \in pcs
      BY <2>1 DEF Rewards!Granting
    <3>2. CASE z = s
      <4>1. g = <<t.b, t.rule>> /\ t.b \in Referred
        BY <3>1, <3>2, <2>1, <1>1, <1>2 DEF Rewards!Grant, Errand
      <4> QED BY <4>1, <1>2 DEF Rewards!PerksShape
    <3>3. CASE z # s
      BY <3>1, <3>3, <1>5 DEF Rewards!Granting, Rewards!Grant
    <3> QED BY <3>2, <3>3
  <2>2. \A g : /\ Rewards!Granting(g, {"reward"}) => Rewards!Granting(g, {"reward"})' \/ g[1] \in lost'
               /\ Rewards!Granting(g, {"read", "extend"}) =>
                    Rewards!Granting(g, {"read", "extend"})' \/ g[1] \in lost'
               /\ Rewards!Granting(g, {"record"}) => Rewards!Granting(g, {"record"})' \/ g[1] \in lost'
    BY <2>1 DEF Granted
  <2>3. \A b \in Referred, rule \in Rewards!Rules : <<b, rule>>[1] = b
    OBVIOUS
  <2> QED BY <1>2, <1>6, <1>10, <2>2, <2>3
     DEF PerkInv, Rewards!RewardsExact, Rewards!GrantsOf, Rewards!Beneficiary, Rewards!Rules
<1> QED BY <1>7, <1>8, <1>9, <1>11, <1>12 DEF PerkInv

-----------------------------------------------------------------------------
LEMMA PerkStep ==
  ASSUME Rewards!PerksShape, PerkInv, [Rewards!Next]_(Rewards!vars)
  PROVE  PerkInv'
<1>1. CASE UNCHANGED Rewards!vars
  BY <1>1 DEF Rewards!vars, PerkInv, Rewards!TypeOK, Errands, Errand, SlotsHeld, Excused,
         Rewards!Active, HeldOut, GrantsHeld, OneHonours, CopiesFresh, HasRead, Gets, Rewards!Grant,
         Rewards!Beneficiary, Rewards!RewardsExact, Rewards!GrantsOf, Rewards!Granting
<1>2. CASE Rewards!Next
  <2> PICK s \in Requests :
        \/ \E b \in Referred : Rewards!Apply(s, b)
        \/ \E p \in Payments : Rewards!Capture(s, p) \/ Rewards!Refund(s, p)
        \/ Rewards!ReadPlan(s)
        \/ \E renewed \in BOOLEAN : Rewards!WritePlan(s, renewed)
        \/ Rewards!Refer(s) \/ Rewards!Reward(s) \/ Rewards!ReadPeriod(s) \/ Rewards!ExtendPeriod(s)
        \/ Rewards!RecordGrant(s)
        \/ Rewards!ClaimSlot(s) \/ Rewards!CreateRedemption(s) \/ Rewards!FindPending(s) \/ Rewards!MarkConverted(s)
        \/ Rewards!DeleteRedemption(s) \/ Rewards!ReturnSlot(s) \/ Rewards!Crash(s)
    BY <1>2 DEF Rewards!Next
  <2> QED BY ApplyStep, CaptureStep, RefundStep, ReferStep, RewardStep, ReadPeriodStep,
             ExtendPeriodStep, RecordGrantStep, ReadPlanStep, WritePlanStep, ClaimSlotStep, CreateRedemptionStep, FindPendingStep,
             MarkConvertedStep, DeleteRedemptionStep, ReturnSlotStep, CrashStep
<1> QED BY <1>1, <1>2

LEMMA PerkGives ==
  ASSUME PerkInv PROVE Rewards!TypeOK /\ Rewards!CouponExact /\ Rewards!RewardsExact
BY DEF PerkInv, Rewards!CouponExact, SlotsHeld, HeldOut, Excused

\* That part runs by itself.
LEMMA PerkRuns ==
  ASSUME [Next]_vars, part' = "perks"
  PROVE  part = "perks" /\ [Rewards!Next]_(Rewards!vars)
<1>1. CASE UNCHANGED vars
  <2>1. part' = part /\ perkVars' = perkVars
    BY <1>1 DEF vars
  <2> QED BY <2>1 DEF perkVars, Rewards!vars
<1>2. CASE Next
  BY <1>2 DEF Next, Only
<1> QED BY <1>1, <1>2

\* For any number of businesses, payments and overlapping requests, some of which die:
\* the slots of a coupon are neither lost nor handed out twice, and a referral is rewarded
\* once per rule, in full (redeemCoupon, releaseCoupon, applyReferral, convertReferral).
THEOREM PerksExactAlways == Spec => []PerksExact
<1> DEFINE I == /\ part = "perks" => PerkInv
<1>1. Init => I
  BY PerkInit, ProtocolShape DEF Init
<1>2. I /\ [Next]_vars => I'
  <2> SUFFICES ASSUME I, [Next]_vars PROVE I'
    OBVIOUS
  <2>1. part' = "perks" => PerkInv'
    <3> SUFFICES ASSUME part' = "perks" PROVE PerkInv'
      OBVIOUS
    <3>1. part = "perks" /\ [Rewards!Next]_(Rewards!vars)
      BY PerkRuns
    <3> QED BY <3>1, PerkStep, ProtocolShape
  <2> QED BY <2>1
<1>3. I => PerksExact
  BY PerkGives, ProtocolShape DEF PerksExact, PerkInv
<1> QED BY <1>1, <1>2, <1>3, PTL DEF Spec

-----------------------------------------------------------------------------
\* A subscription, and a request with the copy it has read.
Transitions == {"apply", "trial", "cancel", "reactivate"}
Subs == [plan : {"free", "pro"}, status : {"active", "trialing"}, has : 0..PlanEdits,
         periodEnd : Nat, graceEnd : Nat, trialEnd : Nat, trialUsed : BOOLEAN,
         cancelAt : Nat, autopay : BOOLEAN]
Uses == [pc : {"idle", "save", "mirror", "decide"}, kind : Transitions \cup {"none"},
         b : {1} \cup Businesses, copy : Subs, status : Plans!Statuses \cup {"none"},
         source : {"none", "snapshot", "fallback"}, has : -1..PlanEdits, at : Nat]
AccessTypes ==
  /\ today \in 1..AccessTime /\ sweptAt \in 0..AccessTime
  /\ offered \in [{"free", "pro"} -> 0..PlanEdits]
  /\ cache \in [value : -1..PlanEdits, at : Nat]
  /\ sub \in [Businesses -> Subs]
  /\ badge \in [Businesses -> [key : {"free", "pro"}, status : Plans!Statuses]]
  /\ using \in [Requests -> Uses] /\ used \in 0..AccessRequests /\ DOMAIN bought = Businesses
  /\ \A b \in Businesses : sub[b].graceEnd >= sub[b].periodEnd
  /\ doubly \subseteq Businesses /\ hurried \subseteq Businesses

\* A transition under way is one of those, of a business.
Transiting(r) == r.pc \in {"save", "mirror"} => r.kind \in Transitions /\ r.b \in Businesses
            /\ (r.pc = "mirror" => r.status \in Plans!Statuses)

\* Offered at a time or after it.
Stood(v, t, free, ends) == v = free \/ \E e \in ends : e[1] = v /\ t <= e[2]

\* What a request decides by: what was bought, or a default plan that was offered lately.
Decides(r, free, ends) ==
  r.pc = "decide" =>
    /\ r.at <= today
    /\ IF r.source = "snapshot" THEN r.has = r.copy.has
       ELSE r.has = free \/ \E e \in ends : e[1] = r.has /\ r.at < e[2] + Ttl

Offers ==
  /\ \A b \in Businesses : sub[b].has = bought[b]
  /\ cache.value # -1 => cache.at <= today /\ Stood(cache.value, cache.at, offered.free, replaced)
  /\ \A e \in replaced : e[2] \in Nat
  /\ \A s \in Requests : Transiting(using[s]) /\ Decides(using[s], offered.free, replaced)

\* The transition under way, if there is one alone, knows the plan of the subscription.
Mirrors ==
  \A b \in Businesses : b \notin doubly =>
    /\ Plans!Moving(b) = {} => badge[b].key = sub[b].plan
    /\ \A s, z \in Plans!Moving(b) : s = z
    /\ \A s \in Plans!Moving(b) : using[s].copy.plan = sub[b].plan

\* A paid period that is not announced ends later than the last sweep could see.
PaidFor(x) == x.status = "active" /\ x.periodEnd # Plans!Null /\ x.cancelAt = Plans!Null
ToldOf(b, x, said) == \E d \in Stages : <<b, x.periodEnd, d>> \in said
Beyond(x, t) == \A d \in Stages : x.periodEnd > t + d
Announced ==
  /\ sweptAt <= today /\ today <= sweptAt + 1
  /\ \A b \in Businesses : PaidFor(sub[b]) /\ b \notin hurried =>
       ToldOf(b, sub[b], told) \/ Beyond(sub[b], sweptAt)

AccessInv == AccessTypes /\ Offers /\ Mirrors /\ Announced

-----------------------------------------------------------------------------
\* The status is one of those.
LEMMA StatusKnown ==
  ASSUME NEW x \in Subs
  PROVE  Plans!Status(x) \in Plans!Statuses /\ (Plans!Status(x) # "none")
BY DEF Plans!Status, Plans!Statuses, Subs

LEMMA IdleUse == ASSUME Plans!AccessShape PROVE Plans!Idle \in Uses /\ Plans!Idle.pc = "idle" /\ Plans!Free(0) \in Subs
BY DEF Plans!AccessShape, Plans!Free, Plans!Null, Subs, Plans!Idle, Uses, Plans!Statuses

LEMMA AccessInit == ASSUME Plans!AccessShape, Plans!Init PROVE AccessInv
<1>1. Plans!Free(0) \in Subs /\ Plans!Idle \in Uses /\ Plans!Idle.pc = "idle"
  BY IdleUse
<1>2. /\ sub \in [Businesses -> Subs] /\ using \in [Requests -> Uses]
      /\ \A b \in Businesses : /\ sub[b].has = 0 /\ sub[b].periodEnd = 0 /\ sub[b].graceEnd = 0
                               /\ sub[b].plan = "free"
      /\ \A s \in Requests : using[s].pc = "idle"
  BY <1>1 DEF Plans!Init, Plans!Free, Plans!Null
<1>3. AccessTypes
  BY <1>2 DEF Plans!AccessShape, Plans!Init, AccessTypes, Plans!Statuses
<1>4. Offers
  BY <1>2 DEF Plans!Init, Offers, Transiting, Decides
<1>5. Mirrors
  <2>1. \A b \in Businesses : Plans!Moving(b) = {} /\ badge[b].key = "free"
    BY <1>2 DEF Plans!Init, Plans!Moving
  <2> QED BY <1>2, <2>1 DEF Mirrors
<1>6. Announced
  BY <1>2 DEF Plans!Init, Announced, PaidFor, Plans!Null
<1> QED BY <1>3, <1>4, <1>5, <1>6 DEF AccessInv

\* What holds of a business follows.
LEMMA AccessGives ==
  ASSUME Plans!AccessShape, AccessInv
  PROVE  Plans!TypeOK /\ Plans!AccessExact
<1>1. Plans!TypeOK
  <2>1. cache.value \in -1..PlanEdits
    BY DEF AccessInv, AccessTypes
  <2>2. ASSUME NEW b \in Businesses
        PROVE  /\ sub[b].plan \in {"free", "pro"} /\ sub[b].status \in {"active", "trialing"}
               /\ badge[b].key \in {"free", "pro"} /\ badge[b].status \in Plans!Statuses
               /\ sub[b].graceEnd >= sub[b].periodEnd
    BY DEF AccessInv, AccessTypes, Subs
  <2>3. \A s \in Requests : using[s].pc \in {"idle", "save", "mirror", "decide"}
    BY DEF AccessInv, AccessTypes, Uses
  <2> QED BY <2>1, <2>2, <2>3 DEF AccessInv, AccessTypes, Plans!TypeOK
<1>2. Plans!AccessAsBought
  BY DEF AccessInv, Offers, Decides, Plans!AccessAsBought, Plans!At
<1>3. Plans!MirrorFollows
  BY DEF AccessInv, Mirrors, Plans!MirrorFollows
<1>4. Plans!EndAnnounced
  <2> SUFFICES ASSUME NEW b \in Businesses, sub[b].status = "active", sub[b].periodEnd # Plans!Null,
                      sub[b].periodEnd <= today, sub[b].cancelAt = Plans!Null, b \notin hurried
               PROVE  \E d \in Stages : <<b, sub[b].periodEnd, d>> \in told
    BY DEF Plans!EndAnnounced
  <2>1. ToldOf(b, sub[b], told) \/ Beyond(sub[b], sweptAt)
    BY DEF AccessInv, Announced, PaidFor
  <2>2. PICK d \in Stages : d \in Nat /\ d >= 1
    BY DEF Plans!AccessShape
  <2>3. /\ sub[b].periodEnd \in Nat /\ today \in Nat /\ sweptAt \in Nat /\ today <= sweptAt + 1
    BY DEF AccessInv, Announced, AccessTypes, Subs
  <2> QED BY <2>1, <2>2, <2>3 DEF ToldOf, Beyond
<1> QED BY <1>1, <1>2, <1>3, <1>4 DEF Plans!AccessExact

-----------------------------------------------------------------------------
\* What a step of one request does to the requests, and to those moving a business.
LEMMA AccessGoes ==
  ASSUME AccessInv, NEW s \in Requests, NEW r \in Uses, Plans!Go(s, r)
  PROVE  /\ using' \in [Requests -> Uses] /\ using'[s] = r
         /\ \A z \in Requests \ {s} : using'[z] = using[z]
         /\ \A c : \A z \in Requests \ {s} : z \in Plans!Moving(c)' <=> z \in Plans!Moving(c)
         /\ \A c : s \in Plans!Moving(c)' <=> r.b = c /\ r.pc \in {"save", "mirror"}
         /\ \A c : Plans!Moving(c) \subseteq Requests /\ Plans!Moving(c)' \subseteq Requests
<1>1. using \in [Requests -> Uses] /\ using' = [using EXCEPT ![s] = r]
  BY DEF AccessInv, AccessTypes, Plans!Go
<1>2. using'[s] = r /\ \A z \in Requests \ {s} : using'[z] = using[z]
  BY <1>1
<1> QED BY <1>1, <1>2 DEF Plans!Moving

\* The offers hold on if they and the cache stay, and the request that moved may decide.
LEMMA OffersKept ==
  ASSUME AccessInv, NEW s \in Requests, NEW r \in Uses, Plans!Go(s, r),
         UNCHANGED <<today, offered, cache, replaced>>,
         \A b \in Businesses : sub'[b].has = bought'[b],
         Transiting(r), Decides(r, offered.free, replaced)
  PROVE  Offers'
<1>1. using'[s] = r /\ \A z \in Requests \ {s} : using'[z] = using[z]
  BY AccessGoes
<1>2. \A z \in Requests : Transiting(using'[z]) /\ Decides(using'[z], offered.free, replaced)
  BY <1>1 DEF AccessInv, Offers
<1>3. \A z \in Requests : (Transiting(using[z]) /\ Decides(using[z], offered.free, replaced))'
  BY <1>2 DEF Transiting, Decides
<1> QED BY <1>3 DEF AccessInv, Offers, Stood

LEMMA TransitionStep ==
  ASSUME Plans!AccessShape, AccessInv, NEW s \in Requests, NEW way \in Transitions,
         NEW b \in Businesses,
         Plans!Begin(s, way, b)
  PROVE  AccessInv'
<1>1. PICK r : r = [Plans!Idle EXCEPT !.pc = "save", !.kind = way, !.b = b, !.copy = sub[b]]
  OBVIOUS
<1>2. /\ using[s].pc = "idle" /\ used \in Nat /\ used < AccessRequests /\ used' = used + 1
      /\ Plans!Go(s, r)
      /\ UNCHANGED <<today, offered, cache, sub, badge, told, sweptAt, bought, replaced, hurried>>
  BY <1>1 DEF Plans!Begin, Plans!Read, Plans!Serve, Plans!At, AccessInv, AccessTypes
<1>3. sub[b] \in Subs
  BY DEF AccessInv, AccessTypes
<1>4. r \in Uses /\ r.pc = "save" /\ r.kind = way /\ r.b = b /\ r.copy = sub[b]
  <2>1. PICK q \in Uses : q = Plans!Idle
    BY IdleUse
  <2>2. r = [q EXCEPT !.pc = "save", !.kind = way, !.b = b, !.copy = sub[b]]
    BY <1>1, <2>1
  <2> QED BY <1>3, <2>2, Zenon DEF Uses
<1>5. /\ Plans!Moving(b) = {} => doubly' = doubly \ {b}
      /\ Plans!Moving(b) # {} => doubly' = doubly \cup {b}
  BY DEF Plans!Begin, Plans!Read
<1>6. AccessTypes'
  <2>1. using' \in [Requests -> Uses] /\ used' \in 0..AccessRequests
    BY <1>2, <1>4, AccessGoes DEF Plans!AccessShape
  <2>2. doubly' \subseteq Businesses
    BY <1>5 DEF AccessInv, AccessTypes
  <2> QED BY <1>2, <2>1, <2>2 DEF AccessInv, AccessTypes
<1>7. Offers'
  <2>1. Transiting(r) /\ Decides(r, offered.free, replaced)
    BY <1>4 DEF Transiting, Decides
  <2>2. \A c \in Businesses : sub'[c].has = bought'[c]
    BY <1>2 DEF AccessInv, Offers
  <2> QED BY <1>2, <1>4, <2>1, <2>2, OffersKept
<1>8. Mirrors'
  <2> SUFFICES ASSUME NEW c \in Businesses, c \notin doubly'
               PROVE  /\ Plans!Moving(c)' = {} => badge'[c].key = sub'[c].plan
                      /\ \A w, z \in Plans!Moving(c)' : w = z
                      /\ \A z \in Plans!Moving(c)' : using'[z].copy.plan = sub'[c].plan
    BY DEF Mirrors
  <2>1. s \notin Plans!Moving(c)
    BY <1>2 DEF Plans!Moving
  <2>2. CASE c = b
    <3>1. Plans!Moving(b) = {}
      BY <1>5, <2>2
    <3>2. Plans!Moving(c)' = {s}
      BY <1>2, <1>4, <2>2, <3>1, AccessGoes
    <3>3. using'[s] = r
      BY <1>2, <1>4, AccessGoes
    <3> QED BY <1>2, <1>4, <2>2, <3>2, <3>3
  <2>3. CASE c # b
    <3>1. c \notin doubly
      BY <1>5, <2>3
    <3>2. Plans!Moving(c)' = Plans!Moving(c) /\ \A z \in Plans!Moving(c) : using'[z] = using[z]
      <4>1. Plans!Go(s, r) /\ r \in Uses /\ r.b # c
        BY <1>2, <1>4, <2>3
      <4> QED BY <2>1, <4>1, AccessGoes
    <3> QED BY <1>2, <3>1, <3>2 DEF AccessInv, Mirrors
  <2> QED BY <2>2, <2>3
<1>9. Announced'
  BY <1>2 DEF AccessInv, Announced, Beyond
<1> QED BY <1>6, <1>7, <1>8, <1>9 DEF AccessInv

\* The mirrors hold on while the plans and the transitions stay.
LEMMA MirrorsKept ==
  ASSUME AccessInv, NEW s \in Requests, NEW r \in Uses, Plans!Go(s, r),
         using[s].pc \in {"idle", "decide"}, r.pc \in {"idle", "decide"},
         UNCHANGED <<sub, badge, doubly>>
  PROVE  Mirrors'
<1> SUFFICES ASSUME NEW c \in Businesses, c \notin doubly'
             PROVE  /\ Plans!Moving(c)' = {} => badge'[c].key = sub'[c].plan
                    /\ \A w, z \in Plans!Moving(c)' : w = z
                    /\ \A z \in Plans!Moving(c)' : using'[z].copy.plan = sub'[c].plan
  BY DEF Mirrors
<1>1. s \notin Plans!Moving(c)
  BY DEF Plans!Moving
<1>2. Plans!Moving(c)' = Plans!Moving(c) /\ \A z \in Plans!Moving(c) : using'[z] = using[z]
  BY <1>1, AccessGoes
<1> QED BY <1>2 DEF AccessInv, Mirrors

LEMMA DecideStep ==
  ASSUME Plans!AccessShape, AccessInv, NEW s \in Requests, Plans!Decide(s)
  PROVE  AccessInv'
<1>1. Plans!Idle \in Uses /\ Plans!Idle.pc = "idle"
  BY IdleUse
<1>2. /\ using[s].pc = "decide" /\ Plans!Go(s, Plans!Idle)
      /\ UNCHANGED <<today, offered, cache, sub, badge, used, told, sweptAt, bought, replaced, doubly, hurried>>
  BY DEF Plans!Decide, Plans!At
<1>3. AccessTypes'
  BY <1>1, <1>2, AccessGoes DEF AccessInv, AccessTypes
<1>4. Offers'
  <2>1. Transiting(Plans!Idle) /\ Decides(Plans!Idle, offered.free, replaced)
    BY <1>1 DEF Transiting, Decides
  <2>2. \A c \in Businesses : sub'[c].has = bought'[c]
    BY <1>2 DEF AccessInv, Offers
  <2> QED BY <1>1, <1>2, <2>1, <2>2, OffersKept
<1>5. Mirrors'
  BY <1>1, <1>2, MirrorsKept
<1>6. Announced'
  BY <1>2 DEF AccessInv, Announced, Beyond
<1> QED BY <1>3, <1>4, <1>5, <1>6 DEF AccessInv

\* What a resolution finds, from a cache of its own time.
LEMMA ResolveStep ==
  ASSUME Plans!AccessShape, AccessInv, NEW s \in Requests, NEW b \in Businesses,
         Plans!Resolve(s, b)
  PROVE  AccessInv'
<1>1. PICK c : c = Plans!Cached
  OBVIOUS
<1>2. PICK x \in Subs : x = [sub[b] EXCEPT !.has = bought[b]] /\ x.has = bought[b]
  <2>1. PICK y \in Subs : y = sub[b] /\ y.has = bought[b]
    BY DEF AccessInv, AccessTypes, Offers
  <2> QED BY <2>1 DEF Subs
<1>3. /\ c \in [value : 0..PlanEdits, at : Nat] /\ c.at <= today /\ today - c.at < Ttl
      /\ Stood(c.value, c.at, offered.free, replaced)
  <2>1. /\ cache \in [value : -1..PlanEdits, at : Nat] /\ today \in Nat
        /\ offered \in [{"free", "pro"} -> 0..PlanEdits] /\ offered.free \in 0..PlanEdits
    BY DEF AccessInv, AccessTypes
  <2>2. CASE cache.value # -1 /\ today - cache.at < Ttl
    <3>1. c = cache
      BY <1>1, <2>2 DEF Plans!Cached
    <3> QED BY <2>1, <2>2, <3>1 DEF AccessInv, Offers
  <2>3. CASE ~(cache.value # -1 /\ today - cache.at < Ttl)
    <3>1. c = [value |-> offered.free, at |-> today]
      BY <1>1, <2>3 DEF Plans!Cached
    <3> QED BY <2>1, <3>1 DEF Stood, Plans!AccessShape
  <2> QED BY <2>2, <2>3
<1>4. PICK entitled \in BOOLEAN : entitled <=> Plans!Entitled(sub[b])
  BY Zenon
<1>5. PICK r : r = [Plans!Idle EXCEPT !.pc = "decide", !.b = b,
                      !.source = IF entitled THEN "snapshot" ELSE "fallback",
                      !.has = IF entitled THEN bought[b] ELSE c.value, !.at = today, !.copy = x]
  OBVIOUS
<1>6. /\ r \in Uses /\ r.pc = "decide" /\ r.at = today /\ r.copy = x
      /\ entitled => r.source = "snapshot" /\ r.has = x.has
      /\ ~entitled => r.source = "fallback" /\ r.has = c.value
  <2>1. bought[b] \in 0..PlanEdits /\ today \in Nat
    BY <1>2 DEF Subs, AccessInv, AccessTypes
  <2>2. PICK q \in Uses : q = Plans!Idle
    BY IdleUse
  <2>3. r = [q EXCEPT !.pc = "decide", !.b = b, !.source = IF entitled THEN "snapshot" ELSE "fallback",
                      !.has = IF entitled THEN bought[b] ELSE c.value, !.at = today, !.copy = x]
    BY <1>5, <2>2
  <2>4. (IF entitled THEN bought[b] ELSE c.value) \in -1..PlanEdits
    BY <1>3, <2>1 DEF Plans!AccessShape
  <2> QED BY <1>2, <1>3, <2>1, <2>3, <2>4, Zenon DEF Uses
<1>7. /\ using[s].pc = "idle" /\ used \in Nat /\ used < AccessRequests /\ used' = used + 1
      /\ UNCHANGED <<today, offered, sub, badge, told, sweptAt, bought, replaced, doubly, hurried>>
  BY DEF Plans!Resolve, Plans!Serve, Plans!At, AccessInv, AccessTypes
<1>8. Plans!Go(s, r) /\ cache' = IF entitled THEN cache ELSE c
  <2>1. /\ Plans!Resolved(b).source = IF entitled THEN "snapshot" ELSE "fallback"
        /\ Plans!Resolved(b).has = IF entitled THEN bought[b] ELSE c.value
    BY <1>1, <1>4 DEF Plans!Resolved, AccessInv, Offers
  <2>2. Plans!Go(s, [Plans!Idle EXCEPT !.pc = "decide", !.b = b, !.source = Plans!Resolved(b).source,
                        !.has = Plans!Resolved(b).has, !.at = today, !.copy = x])
    BY <1>2 DEF Plans!Resolve
  <2>3. cache' = IF Plans!Entitled(sub[b]) THEN cache ELSE c
    BY <1>1 DEF Plans!Resolve
  <2> QED BY <1>4, <1>5, <2>1, <2>2, <2>3
<1>9. AccessTypes'
  <2>1. using' \in [Requests -> Uses] /\ used' \in 0..AccessRequests
    BY <1>6, <1>7, <1>8, AccessGoes DEF Plans!AccessShape
  <2>2. cache' \in [value : -1..PlanEdits, at : Nat]
    BY <1>3, <1>8 DEF AccessInv, AccessTypes, Plans!AccessShape
  <2> QED BY <1>7, <2>1, <2>2 DEF AccessInv, AccessTypes
<1>10. Offers'
  <2>1. Transiting(r) /\ Decides(r, offered.free, replaced)
    <3>1. today \in Nat /\ c.at \in Nat /\ c.at <= today /\ today - c.at < Ttl /\ Ttl \in Nat
      BY <1>3 DEF AccessInv, AccessTypes, Plans!AccessShape
    <3>2. \A e \in replaced : e[2] \in Nat
      BY DEF AccessInv, Offers
    <3>3. Stood(c.value, c.at, offered.free, replaced)
      BY <1>3
    <3> QED BY <1>6, <3>1, <3>2, <3>3 DEF Transiting, Decides, Stood
  <2>2. cache'.value # -1 => cache'.at <= today /\ Stood(cache'.value, cache'.at, offered.free, replaced)
    BY <1>3, <1>8 DEF AccessInv, Offers
  <2>3. \A z \in Requests : Transiting(using'[z]) /\ Decides(using'[z], offered.free, replaced)
    BY <1>6, <1>8, <2>1, AccessGoes DEF AccessInv, Offers
  <2>4. \A z \in Requests : (Transiting(using[z]) /\ Decides(using[z], offered.free, replaced))'
    BY <1>7, <2>3 DEF Transiting, Decides
  <2> QED BY <1>7, <2>2, <2>4 DEF AccessInv, Offers, Stood
<1>11. Mirrors'
  BY <1>6, <1>7, <1>8, MirrorsKept
<1>12. Announced'
  BY <1>7 DEF AccessInv, Announced, Beyond
<1> QED BY <1>9, <1>10, <1>11, <1>12 DEF AccessInv

-----------------------------------------------------------------------------
\* What a transition saves: what the plan offers now, and a period beyond the reminders, or
\* the same plan as before.
LEMMA SavedRow ==
  ASSUME Plans!AccessShape, AccessInv, NEW y \in Subs, y.graceEnd >= y.periodEnd,
         NEW r \in Uses, r.kind \in Transitions, NEW x \in Plans!Saved(r, y)
  PROVE  /\ x \in Subs /\ x.graceEnd >= x.periodEnd
         /\ r.kind \in {"apply", "trial"} =>
              x.has = offered.pro /\ (PaidFor(x) => Beyond(x, today))
         /\ r.kind \in {"cancel", "reactivate"} => x.has = y.has /\ x.plan = y.plan
<1>1. /\ today \in Nat /\ offered.pro \in 0..PlanEdits /\ Term \in Nat /\ GraceTerm \in Nat
      /\ TrialTerm \in Nat /\ Stages \subseteq 1..(Term - 1)
  BY DEF AccessInv, AccessTypes, Plans!AccessShape
<1>2. r.copy \in Subs /\ r.copy.periodEnd \in Nat
  BY DEF Uses, Subs
<1>3. CASE r.kind = "apply"
  <2>1. PICK f \in (IF r.copy.periodEnd > today THEN {today, r.copy.periodEnd} ELSE {today}) :
             x = [y EXCEPT !.plan = "pro", !.status = "active", !.has = offered.pro,
                           !.periodEnd = f + Term, !.graceEnd = f + Term + GraceTerm,
                           !.cancelAt = Plans!Null]
    BY <1>3, Zenon DEF Plans!Saved, Plans!Applied
  <2>2. f \in Nat /\ f >= today
    BY <1>1, <1>2
  <2>3. x \in Subs /\ x.periodEnd = f + Term /\ x.graceEnd = f + Term + GraceTerm
        /\ x.has = offered.pro
    <3>1. PICK k \in 0..PlanEdits : k = offered.pro
      BY <1>1
    <3>2. PICK p \in Nat : p = f + Term
      BY <1>1, <2>2
    <3>3. PICK g \in Nat : g = f + Term + GraceTerm
      BY <1>1, <2>2
    <3>4. x = [y EXCEPT !.plan = "pro", !.status = "active", !.has = k, !.periodEnd = p,
                        !.graceEnd = g, !.cancelAt = 0]
      BY <2>1, <3>1, <3>2, <3>3 DEF Plans!Null
    <3> QED BY <3>1, <3>2, <3>3, <3>4, Zenon DEF Subs
  <2>4. \A d \in Stages : d \in Nat /\ d < Term
    BY <1>1
  <2> QED BY <1>1, <1>3, <2>2, <2>3, <2>4 DEF Beyond
<1>4. CASE r.kind = "trial"
  <2>1. x = Plans!Tried(y)
    BY <1>4 DEF Plans!Saved
  <2>2. x \in Subs /\ x.periodEnd = 0 /\ x.graceEnd = 0 /\ x.has = offered.pro
        /\ x.status = "trialing"
    <3>1. PICK k \in 0..PlanEdits : k = offered.pro
      BY <1>1
    <3>2. PICK t \in Nat : t = today + TrialTerm
      BY <1>1
    <3>3. PICK tried \in BOOLEAN : tried = TRUE
      BY Zenon
    <3>4. x = [y EXCEPT !.plan = "pro", !.status = "trialing", !.has = k, !.periodEnd = 0,
                        !.graceEnd = 0, !.trialEnd = t, !.trialUsed = tried, !.cancelAt = 0]
      BY <2>1, <3>1, <3>2, <3>3, Zenon DEF Plans!Tried, Plans!Null
    <3> QED BY <3>1, <3>4, Zenon DEF Subs
  <2> QED BY <1>4, <2>2 DEF PaidFor
<1>5. CASE r.kind \in {"cancel", "reactivate"}
  <2>1. PICK t \in Nat : x = [y EXCEPT !.cancelAt = t]
    BY <1>1, <1>2, <1>5 DEF Plans!Saved, Plans!CancelTime, Plans!Null
  <2> QED BY <1>5, <2>1 DEF Subs
<1> QED BY <1>3, <1>4, <1>5 DEF Transitions

LEMMA MirrorSaved ==
  ASSUME Plans!AccessShape, AccessInv, NEW s \in Requests, Plans!Save(s)
  PROVE  AccessInv'
<1>1. PICK r \in Uses : r = using[s]
  BY DEF AccessInv, AccessTypes
<1>2. PICK b : b = r.b
  OBVIOUS
<1>3. /\ r.pc = "save" /\ r.kind \in Transitions /\ b \in Businesses /\ r.copy \in Subs
  BY <1>1, <1>2 DEF Plans!Save, Plans!At, AccessInv, Offers, Transiting, Uses
<1>4. PICK y \in Subs : y = sub[b] /\ y.graceEnd >= y.periodEnd
  BY <1>3 DEF AccessInv, AccessTypes
<1>5. PICK whole \in BOOLEAN : whole <=> r.kind \in {"apply", "trial"}
  BY Zenon
<1>6. PICK x \in Plans!Saved(r, y) :
        /\ sub' = [sub EXCEPT ![b] = x]
        /\ LET mine == IF whole THEN x ELSE [r.copy EXCEPT !.cancelAt = x.cancelAt]
           IN Plans!Go(s, [r EXCEPT !.pc = "mirror", !.copy = mine, !.status = Plans!Status(mine)])
  BY <1>1, <1>2, <1>4, <1>5, Zenon DEF Plans!Save
<1>7. /\ x \in Subs /\ x.graceEnd >= x.periodEnd
      /\ whole => x.has = offered.pro /\ (PaidFor(x) => Beyond(x, today))
      /\ ~whole => x.has = y.has /\ x.plan = y.plan
  BY <1>3, <1>4, <1>5, <1>6, SavedRow DEF Transitions
<1>8. PICK mine \in Subs : mine = (IF whole THEN x ELSE [r.copy EXCEPT !.cancelAt = x.cancelAt])
  BY <1>3, <1>7, Zenon DEF Subs
<1>9. PICK q \in Uses : /\ Plans!Go(s, q) /\ q.pc = "mirror" /\ q.kind = r.kind /\ q.b = b
                        /\ q.copy = mine /\ q.status \in Plans!Statuses
  <2>1. Plans!Status(mine) \in Plans!Statuses
    BY <1>8, StatusKnown
  <2>2. Plans!Go(s, [r EXCEPT !.pc = "mirror", !.copy = mine, !.status = Plans!Status(mine)])
    BY <1>6, <1>8
  <2>3. PICK t \in Plans!Statuses : t = Plans!Status(mine)
    BY <2>1
  <2>4. PICK q : q = [r EXCEPT !.pc = "mirror", !.copy = mine, !.status = t]
    OBVIOUS
  <2>5. q \in Uses /\ q.pc = "mirror" /\ q.kind = r.kind /\ q.b = b /\ q.copy = mine
        /\ q.status = t
    BY <1>2, <2>4, Zenon DEF Uses
  <2>6. Plans!Go(s, q)
    BY <2>2, <2>3, <2>4
  <2> QED BY <2>5, <2>6
<1>10. /\ UNCHANGED <<today, offered, cache, badge, used, told, sweptAt, replaced, doubly>>
       /\ whole => bought' = [bought EXCEPT ![b] = offered.pro] /\ hurried' = hurried \ {b}
       /\ ~whole => bought' = bought /\ hurried' = hurried \cup {b}
  BY <1>1, <1>2, <1>5 DEF Plans!Save
<1>11. /\ sub' \in [Businesses -> Subs] /\ sub'[b] = x
       /\ \A c \in Businesses \ {b} : sub'[c] = sub[c]
  BY <1>3, <1>6, <1>7 DEF AccessInv, AccessTypes
<1>12. AccessTypes'
  <2>1. using' \in [Requests -> Uses]
    BY <1>9, AccessGoes
  <2>2. hurried' \subseteq Businesses
    BY <1>3, <1>10 DEF AccessInv, AccessTypes
  <2>3. \A c \in Businesses : sub'[c].graceEnd >= sub'[c].periodEnd
    BY <1>7, <1>11 DEF AccessInv, AccessTypes
  <2> QED BY <1>10, <1>11, <2>1, <2>2, <2>3 DEF AccessInv, AccessTypes
<1>13. Offers'
  <2>1. Transiting(q) /\ Decides(q, offered.free, replaced)
    BY <1>3, <1>9 DEF Transiting, Decides
  <2>2. \A c \in Businesses : sub'[c].has = bought'[c]
    <3> SUFFICES ASSUME NEW c \in Businesses PROVE sub'[c].has = bought'[c]
      OBVIOUS
    <3>1. sub[c].has = bought[c] /\ y.has = bought[b]
      BY <1>3, <1>4 DEF AccessInv, Offers
    <3>2. CASE whole
      <4>1. bought'[c] = IF c = b THEN offered.pro ELSE bought[c]
        BY <1>10, <3>2 DEF AccessInv, AccessTypes
      <4> QED BY <1>7, <1>11, <3>1, <3>2, <4>1
    <3>3. CASE ~whole
      BY <1>4, <1>7, <1>10, <1>11, <3>1, <3>3
    <3> QED BY <3>2, <3>3
  <2> QED BY <1>9, <1>10, <2>1, <2>2, OffersKept
<1>14. Mirrors'
  <2> SUFFICES ASSUME NEW c \in Businesses, c \notin doubly'
               PROVE  /\ Plans!Moving(c)' = {} => badge'[c].key = sub'[c].plan
                      /\ \A w, z \in Plans!Moving(c)' : w = z
                      /\ \A z \in Plans!Moving(c)' : using'[z].copy.plan = sub'[c].plan
    BY DEF Mirrors
  <2>1. s \in Plans!Moving(c) <=> c = b
    BY <1>1, <1>2, <1>3 DEF Plans!Moving
  <2>2. /\ Plans!Moving(c)' = Plans!Moving(c) /\ using'[s] = q
        /\ \A z \in Plans!Moving(c) \ {s} : using'[z] = using[z]
    <3>1. /\ using'[s] = q /\ \A z \in Requests \ {s} : using'[z] = using[z]
          /\ \A z \in Requests \ {s} : z \in Plans!Moving(c)' <=> z \in Plans!Moving(c)
          /\ s \in Plans!Moving(c)' <=> q.b = c /\ q.pc \in {"save", "mirror"}
          /\ Plans!Moving(c) \subseteq Requests /\ Plans!Moving(c)' \subseteq Requests
      BY <1>9, AccessGoes
    <3>2. s \in Plans!Moving(c)' <=> s \in Plans!Moving(c)
      BY <1>9, <2>1, <3>1
    <3>3. \A z : z \in Plans!Moving(c)' <=> z \in Plans!Moving(c)
      BY <3>1, <3>2
    <3> QED BY <3>1, <3>3
  <2>3. CASE c = b
    <3>1. r.copy.plan = y.plan
      BY <1>1, <1>4, <1>10, <2>1, <2>3 DEF AccessInv, Mirrors
    <3>2. mine.plan = x.plan
      BY <1>3, <1>7, <1>8, <3>1 DEF Subs
    <3>3. \A z \in Plans!Moving(c) : z = s
      BY <1>10, <2>1, <2>3 DEF AccessInv, Mirrors
    <3> QED BY <1>9, <1>11, <2>1, <2>2, <2>3, <3>2, <3>3
  <2>4. CASE c # b
    <3>1. s \notin Plans!Moving(c) /\ sub'[c] = sub[c]
      BY <1>11, <2>1, <2>4
    <3> QED BY <1>10, <2>2, <3>1 DEF AccessInv, Mirrors
  <2> QED BY <2>3, <2>4
<1>15. Announced'
  <2> SUFFICES ASSUME NEW c \in Businesses, PaidFor(sub'[c]), c \notin hurried'
               PROVE  ToldOf(c, sub'[c], told) \/ Beyond(sub'[c], sweptAt)
    BY <1>10 DEF AccessInv, Announced, PaidFor, ToldOf, Beyond
  <2>1. CASE c = b
    <3>1. whole /\ Beyond(x, today)
      BY <1>7, <1>10, <1>11, <2>1
    <3>2. /\ today \in Nat /\ sweptAt \in Nat /\ sweptAt <= today /\ x.periodEnd \in Nat
          /\ \A d \in Stages : d \in Nat
      BY <1>7 DEF AccessInv, AccessTypes, Announced, Subs, Plans!AccessShape
    <3> QED BY <1>11, <2>1, <3>1, <3>2 DEF Beyond
  <2>2. CASE c # b
    BY <1>10, <1>11, <2>2 DEF AccessInv, Announced
  <2> QED BY <2>1, <2>2
<1> QED BY <1>12, <1>13, <1>14, <1>15 DEF AccessInv

LEMMA WriteMirrorStep ==
  ASSUME Plans!AccessShape, AccessInv, NEW s \in Requests, Plans!WriteMirror(s)
  PROVE  AccessInv'
<1>1. PICK r \in Uses : r = using[s]
  BY DEF AccessInv, AccessTypes
<1>2. /\ r.pc = "mirror" /\ r.b \in Businesses /\ r.status \in Plans!Statuses /\ r.copy \in Subs
      /\ r.copy.plan \in {"free", "pro"}
  BY <1>1 DEF Plans!WriteMirror, Plans!At, AccessInv, Offers, Transiting, Uses, Subs
<1>3. /\ badge' = [badge EXCEPT ![r.b] = [key |-> r.copy.plan, status |-> r.status]]
      /\ Plans!Go(s, Plans!Idle) /\ Plans!Idle \in Uses /\ Plans!Idle.pc = "idle"
      /\ UNCHANGED <<today, offered, cache, sub, used, told, sweptAt, bought, replaced, doubly, hurried>>
  BY <1>1, IdleUse DEF Plans!WriteMirror
<1>4. AccessTypes'
  <2>1. badge' \in [Businesses -> [key : {"free", "pro"}, status : Plans!Statuses]]
    BY <1>2, <1>3 DEF AccessInv, AccessTypes
  <2>2. using' \in [Requests -> Uses]
    BY <1>3, AccessGoes
  <2> QED BY <1>3, <2>1, <2>2 DEF AccessInv, AccessTypes
<1>5. Offers'
  <2>1. Transiting(Plans!Idle) /\ Decides(Plans!Idle, offered.free, replaced)
    BY <1>3 DEF Transiting, Decides
  <2>2. \A c \in Businesses : sub'[c].has = bought'[c]
    BY <1>3 DEF AccessInv, Offers
  <2> QED BY <1>3, <2>1, <2>2, OffersKept
<1>6. Mirrors'
  <2> SUFFICES ASSUME NEW c \in Businesses, c \notin doubly'
               PROVE  /\ Plans!Moving(c)' = {} => badge'[c].key = sub'[c].plan
                      /\ \A w, z \in Plans!Moving(c)' : w = z
                      /\ \A z \in Plans!Moving(c)' : using'[z].copy.plan = sub'[c].plan
    BY DEF Mirrors
  <2>1. s \in Plans!Moving(c) <=> c = r.b
    BY <1>1, <1>2 DEF Plans!Moving
  <2>2. /\ Plans!Moving(c)' = Plans!Moving(c) \ {s}
        /\ \A z \in Plans!Moving(c) \ {s} : using'[z] = using[z]
    BY <1>3, AccessGoes
  <2>3. CASE c = r.b
    <3>1. Plans!Moving(c)' = {}
      BY <1>3, <2>1, <2>2, <2>3 DEF AccessInv, Mirrors
    <3>2. r.copy.plan = sub[c].plan
      BY <1>1, <1>3, <2>1, <2>3 DEF AccessInv, Mirrors
    <3>3. badge'[c].key = r.copy.plan
      BY <1>2, <1>3, <2>3 DEF AccessInv, AccessTypes
    <3> QED BY <1>3, <3>1, <3>2, <3>3
  <2>4. CASE c # r.b
    <3>1. s \notin Plans!Moving(c) /\ badge'[c] = badge[c]
      BY <1>3, <2>1, <2>4 DEF AccessInv, AccessTypes
    <3> QED BY <1>3, <2>2, <3>1 DEF AccessInv, Mirrors
  <2> QED BY <2>3, <2>4
<1>7. Announced'
  BY <1>3 DEF AccessInv, Announced, Beyond
<1> QED BY <1>4, <1>5, <1>6, <1>7 DEF AccessInv

\* What goes on when no request moves.
LEMMA StillMirrors ==
  ASSUME AccessInv, UNCHANGED <<using, badge, doubly>>,
         \A b \in Businesses : sub'[b].plan = sub[b].plan
  PROVE  Mirrors'
<1>1. \A c : Plans!Moving(c)' = Plans!Moving(c)
  BY DEF Plans!Moving
<1> QED BY <1>1 DEF AccessInv, Mirrors

LEMMA AutopayStep ==
  ASSUME Plans!AccessShape, AccessInv, NEW b \in Businesses, Plans!Autopay(b)
  PROVE  AccessInv'
<1>1. PICK y \in Subs : y = sub[b]
  BY DEF AccessInv, AccessTypes
<1>2. PICK flip \in BOOLEAN : flip = ~y.autopay
  BY Zenon
<1>3. PICK x : x = [y EXCEPT !.autopay = flip]
  BY Zenon
<1>4. /\ x \in Subs /\ x.plan = y.plan /\ x.has = y.has /\ x.graceEnd = y.graceEnd
      /\ x.periodEnd = y.periodEnd
  BY <1>3 DEF Subs
<1>5. /\ sub' = [sub EXCEPT ![b] = x] /\ hurried' = hurried \cup {b}
      /\ UNCHANGED <<today, offered, cache, badge, using, used, told, sweptAt, bought, replaced, doubly>>
  <2>1. sub' = [sub EXCEPT ![b].autopay = ~@]
    BY DEF Plans!Autopay
  <2>2. [sub EXCEPT ![b].autopay = ~@] = [sub EXCEPT ![b] = [y EXCEPT !.autopay = ~y.autopay]]
    BY <1>1, Zenon
  <2>3. sub' = [sub EXCEPT ![b] = x]
    BY <1>2, <1>3, <2>1, <2>2, Zenon
  <2> QED BY <2>3, Zenon DEF Plans!Autopay
<1>6. /\ sub' \in [Businesses -> Subs] /\ sub'[b] = x
      /\ \A c \in Businesses \ {b} : sub'[c] = sub[c]
  BY <1>4, <1>5 DEF AccessInv, AccessTypes
<1>7. \A c \in Businesses : /\ sub'[c].plan = sub[c].plan /\ sub'[c].has = sub[c].has
                            /\ sub'[c].graceEnd = sub[c].graceEnd /\ sub'[c].periodEnd = sub[c].periodEnd
  BY <1>1, <1>4, <1>6
<1>8. AccessTypes'
  <2>1. hurried' \subseteq Businesses
    BY <1>5 DEF AccessInv, AccessTypes
  <2>2. \A c \in Businesses : sub'[c].graceEnd >= sub'[c].periodEnd
    BY <1>7 DEF AccessInv, AccessTypes
  <2> QED BY <1>5, <1>6, <2>1, <2>2 DEF AccessInv, AccessTypes
<1>9. Offers'
  <2>1. \A z \in Requests : (Transiting(using[z]) /\ Decides(using[z], offered.free, replaced))'
    BY <1>5 DEF AccessInv, Offers, Transiting, Decides
  <2> QED BY <1>5, <1>7, <2>1 DEF AccessInv, Offers, Stood
<1>10. Mirrors'
  BY <1>5, <1>7, StillMirrors
<1>11. Announced'
  BY <1>5, <1>6, Zenon DEF AccessInv, Announced, PaidFor, ToldOf, Beyond
<1> QED BY <1>8, <1>9, <1>10, <1>11 DEF AccessInv

LEMMA EditStep ==
  ASSUME Plans!AccessShape, AccessInv, NEW plan \in {"free", "pro"}, Plans!Edit(plan)
  PROVE  AccessInv'
<1>1. /\ offered' = [offered EXCEPT ![plan] = @ + 1] /\ offered[plan] < PlanEdits
      /\ replaced' = IF plan = "free" THEN replaced \cup {<<offered.free, today>>} ELSE replaced
      /\ UNCHANGED <<today, cache, sub, badge, using, used, told, sweptAt, bought, doubly, hurried>>
  BY DEF Plans!Edit
<1>2. /\ offered \in [{"free", "pro"} -> 0..PlanEdits] /\ today \in Nat /\ PlanEdits \in Nat
      /\ Ttl \in Nat \ {0}
  BY DEF AccessInv, AccessTypes, Plans!AccessShape
<1>3. AccessTypes'
  <2>1. offered' \in [{"free", "pro"} -> 0..PlanEdits]
    BY <1>1, <1>2
  <2> QED BY <1>1, <2>1 DEF AccessInv, AccessTypes
<1>4. /\ replaced \subseteq replaced'
      /\ \A e \in replaced' : e[2] \in Nat
      /\ offered'.free # offered.free => <<offered.free, today>> \in replaced'
  BY <1>1, <1>2 DEF AccessInv, Offers
<1>5. cache.value # -1 => cache.at <= today /\ Stood(cache.value, cache.at, offered'.free, replaced')
  <2> SUFFICES ASSUME cache.value # -1
               PROVE  cache.at <= today /\ Stood(cache.value, cache.at, offered'.free, replaced')
    OBVIOUS
  <2>1. cache.at <= today /\ Stood(cache.value, cache.at, offered.free, replaced)
    BY DEF AccessInv, Offers
  <2> QED BY <1>4, <2>1 DEF Stood
<1>6. \A z \in Requests : Transiting(using[z]) /\ Decides(using[z], offered'.free, replaced')
  <2> SUFFICES ASSUME NEW z \in Requests
               PROVE  Transiting(using[z]) /\ Decides(using[z], offered'.free, replaced')
    OBVIOUS
  <2>1. PICK r \in Uses : r = using[z] /\ Transiting(r) /\ Decides(r, offered.free, replaced)
    BY DEF AccessInv, AccessTypes, Offers
  <2>2. r.at \in Nat
    BY DEF Uses
  <2>3. r.at <= today => r.at < today + Ttl
    BY <1>2, <2>2
  <2> QED BY <1>4, <2>1, <2>3 DEF Decides
<1>7. Offers'
  <2>1. \A z \in Requests : (Transiting(using[z]) /\ Decides(using[z], offered.free, replaced))'
    BY <1>1, <1>6 DEF Transiting, Decides
  <2> QED BY <1>1, <1>4, <1>5, <2>1, Zenon DEF AccessInv, Offers, Stood
<1>8. Mirrors'
  BY <1>1, StillMirrors
<1>9. Announced'
  BY <1>1 DEF AccessInv, Announced, PaidFor, ToldOf, Beyond
<1> QED BY <1>3, <1>7, <1>8, <1>9 DEF AccessInv

LEMMA TickStep ==
  ASSUME Plans!AccessShape, AccessInv, Plans!Tick
  PROVE  AccessInv'
<1>1. /\ today < AccessTime /\ sweptAt = today /\ today' = today + 1
      /\ UNCHANGED <<offered, cache, sub, badge, using, used, told, sweptAt, bought, replaced, doubly, hurried>>
  BY DEF Plans!Tick
<1>2. today \in Nat /\ today >= 1 /\ AccessTime \in Nat
  BY DEF AccessInv, AccessTypes, Plans!AccessShape
<1>3. AccessTypes'
  BY <1>1, <1>2 DEF AccessInv, AccessTypes
<1>4. Offers'
  <2>1. ASSUME NEW z \in Requests
        PROVE  (Transiting(using[z]) /\ Decides(using[z], offered.free, replaced))'
    <3>1. PICK r \in Uses : r = using[z] /\ Transiting(r) /\ Decides(r, offered.free, replaced)
      BY DEF AccessInv, AccessTypes, Offers
    <3>2. r.at \in Nat
      BY DEF Uses
    <3>3. r.at <= today => r.at <= today'
      BY <1>1, <1>2, <3>2
    <3> QED BY <1>1, <3>1, <3>3 DEF Transiting, Decides
  <2>2. cache.at <= today => cache.at <= today'
    BY <1>1, <1>2 DEF AccessInv, AccessTypes
  <2> QED BY <1>1, <2>1, <2>2 DEF AccessInv, Offers, Stood
<1>5. Mirrors'
  BY <1>1, StillMirrors
<1>6. Announced'
  BY <1>1, <1>2 DEF AccessInv, Announced, PaidFor, ToldOf, Beyond
<1> QED BY <1>3, <1>4, <1>5, <1>6 DEF AccessInv

\* The reminder of a period that is due has a stage.
LEMMA StageKnown ==
  ASSUME Plans!AccessShape, AccessInv, NEW b \in Plans!DueSoon
  PROVE  Plans!StageOf(b) \in Stages
<1>1. PICK w \in Stages : \A e \in Stages : e <= w
  BY DEF Plans!AccessShape
<1>2. Plans!Widest \in Stages /\ \A e \in Stages : e <= Plans!Widest
  BY <1>1, Zenon DEF Plans!Widest
<1>3. PICK S \in SUBSET Stages : S = {d \in Stages : sub[b].periodEnd <= today + d}
  BY Zenon
<1>4. Plans!Widest \in S
  BY <1>2, <1>3 DEF Plans!DueSoon
<1>5. PICK d \in S : \A e \in S : d <= e
  BY <1>4 DEF Plans!AccessShape
<1>6. \E f \in Stages : /\ sub[b].periodEnd <= today + f
                        /\ \A e \in Stages : sub[b].periodEnd <= today + e => f <= e
  BY <1>3, <1>5
<1> QED BY <1>6, Zenon DEF Plans!StageOf

LEMMA SweepStep ==
  ASSUME Plans!AccessShape, AccessInv, Plans!Sweep
  PROVE  AccessInv'
<1>1. PICK these \in SUBSET Plans!DueSoon :
        /\ told' = told \cup {<<b, sub[b].periodEnd, Plans!StageOf(b)>> : b \in {c \in these : ~Plans!Silent(c)}}
        /\ hurried' = (hurried \cup Plans!DueSoon) \ {b \in these : ~Plans!Silent(b)}
  BY DEF Plans!Sweep
<1>2. /\ sweptAt < today /\ sweptAt' = today
      /\ UNCHANGED <<today, offered, cache, sub, badge, using, used, bought, replaced, doubly>>
  BY DEF Plans!Sweep
<1>3. /\ today \in Nat /\ sweptAt \in Nat /\ today = sweptAt + 1
      /\ \A b \in Businesses : sub[b].periodEnd \in Nat
  <2>1. today \in Nat /\ sweptAt \in Nat /\ today <= sweptAt + 1
    BY DEF AccessInv, AccessTypes, Announced
  <2>2. \A b \in Businesses : sub[b].periodEnd \in Nat
    BY DEF AccessInv, AccessTypes, Subs
  <2> QED BY <1>2, <2>1, <2>2
<1>4. Plans!DueSoon \subseteq Businesses
  BY DEF Plans!DueSoon
<1>5. AccessTypes'
  BY <1>1, <1>2, <1>4 DEF AccessInv, AccessTypes
<1>6. Offers'
  <2>1. \A z \in Requests : (Transiting(using[z]) /\ Decides(using[z], offered.free, replaced))'
    BY <1>2 DEF AccessInv, Offers, Transiting, Decides
  <2> QED BY <1>2, <2>1 DEF AccessInv, Offers, Stood
<1>7. Mirrors'
  BY <1>2, StillMirrors
<1>8. Announced'
  <2> SUFFICES ASSUME NEW b \in Businesses, PaidFor(sub[b]), b \notin hurried'
               PROVE  ToldOf(b, sub[b], told') \/ Beyond(sub[b], today)
    BY <1>2, <1>3 DEF Announced, PaidFor, ToldOf, Beyond
  <2>1. CASE b \in Plans!DueSoon
    <3>1. b \in these /\ ~Plans!Silent(b)
      BY <1>1, <2>1
    <3>2. <<b, sub[b].periodEnd, Plans!StageOf(b)>> \in told' /\ Plans!StageOf(b) \in Stages
      BY <1>1, <2>1, <3>1, StageKnown
    <3> QED BY <3>2 DEF ToldOf
  <2>2. CASE b \notin Plans!DueSoon
    <3>1. ToldOf(b, sub[b], told) \/ Beyond(sub[b], sweptAt)
      BY <1>1, <2>2 DEF AccessInv, Announced
    <3>2. CASE ToldOf(b, sub[b], told)
      BY <1>1, <3>2 DEF ToldOf
    <3>3. CASE Beyond(sub[b], sweptAt)
      <4>1. PICK w \in Stages : \A e \in Stages : e <= w
        BY DEF Plans!AccessShape
      <4>2. Plans!Widest \in Stages /\ \A e \in Stages : e <= Plans!Widest
        BY <4>1, Zenon DEF Plans!Widest
      <4>3. \A d \in Stages : d \in Nat /\ d >= 1
        BY DEF Plans!AccessShape
      <4>4. sub[b].periodEnd > today
        BY <1>3, <3>3, <4>2, <4>3 DEF Beyond
      <4>5. sub[b].periodEnd > today + Plans!Widest
        BY <1>3, <2>2, <4>2, <4>3, <4>4 DEF Plans!DueSoon, PaidFor
      <4> QED BY <1>3, <4>2, <4>3, <4>5 DEF Beyond
    <3> QED BY <3>1, <3>2, <3>3
  <2> QED BY <2>1, <2>2
<1> QED BY <1>5, <1>6, <1>7, <1>8 DEF AccessInv

LEMMA AccessStep ==
  ASSUME Plans!AccessShape, AccessInv, [Plans!Next]_(Plans!vars)
  PROVE  AccessInv'
<1>1. CASE UNCHANGED Plans!vars
  <2>1. Mirrors'
    BY <1>1, StillMirrors DEF Plans!vars
  <2>2. \A z \in Requests : (Transiting(using[z]) /\ Decides(using[z], offered.free, replaced))'
    BY <1>1 DEF Plans!vars, AccessInv, Offers, Transiting, Decides
  <2>3. Offers'
    BY <1>1, <2>2 DEF Plans!vars, AccessInv, Offers, Stood
  <2>4. AccessTypes'
    BY <1>1 DEF Plans!vars, AccessInv, AccessTypes
  <2>5. Announced'
    BY <1>1 DEF Plans!vars, AccessInv, Announced, PaidFor, ToldOf, Beyond
  <2> QED BY <2>1, <2>3, <2>4, <2>5 DEF AccessInv
<1>2. ASSUME NEW s \in Requests, NEW b \in Businesses, NEW way \in Transitions, Plans!Begin(s, way, b)
      PROVE  AccessInv'
  BY <1>2, TransitionStep
<1>3. CASE Plans!Next
  BY <1>2, <1>3, ResolveStep, MirrorSaved, WriteMirrorStep, DecideStep, AutopayStep, EditStep,
     SweepStep, TickStep DEF Plans!Next, Transitions
<1> QED BY <1>1, <1>3

\* That part runs by itself.
LEMMA AccessRuns ==
  ASSUME [Next]_vars, part' = "access"
  PROVE  part = "access" /\ [Plans!Next]_(Plans!vars)
<1>1. CASE UNCHANGED vars
  <2>1. part' = part /\ accessVars' = accessVars
    BY <1>1 DEF vars
  <2> QED BY <2>1 DEF accessVars, Plans!vars
<1>2. CASE Next
  BY <1>2 DEF Next, Only
<1> QED BY <1>1, <1>2

\* For any number of businesses, plans edited and overlapping requests: a business may do what
\* it bought, the mirror names its plan, and the end of a paid plan is announced
\* (resolveEntitlements, syncBusinessMirror, sendRenewalReminders).
THEOREM AccessExactAlways == Spec => []AccessExact
<1> DEFINE I == /\ part = "access" => AccessInv
<1>1. Init => I
  BY AccessInit, ProtocolShape DEF Init
<1>2. I /\ [Next]_vars => I'
  <2> SUFFICES ASSUME I, [Next]_vars PROVE I'
    OBVIOUS
  <2>1. part' = "access" => AccessInv'
    <3> SUFFICES ASSUME part' = "access" PROVE AccessInv'
      OBVIOUS
    <3>1. part = "access" /\ [Plans!Next]_(Plans!vars)
      BY AccessRuns
    <3> QED BY <3>1, AccessStep, ProtocolShape
  <2> QED BY <2>1
<1>3. I => AccessExact
  BY AccessGives, ProtocolShape DEF AccessExact, AccessInv
<1> QED BY <1>1, <1>2, <1>3, PTL DEF Spec

-----------------------------------------------------------------------------
\* What a dispatcher or a sweep is about.
Shelf == {"ok", "low", "below"}
Tellers == [pc : {"idle", "project", "tell", "stock", "sweep"}, event : {0} \cup Happenings,
            read : SUBSET (Told!Notice \cup {"ok"})]
Happened == [kind : {"none", "paid", "stock"}, done : BOOLEAN]
Telling(r) ==
  /\ r.pc \in {"idle", "sweep"} <=> r.event = 0
  /\ r.pc = "stock" => \E l \in Shelf : r.read = {l}
  /\ r.pc = "sweep" => r.read \subseteq Told!Reminders \cup Told!Shortages
EventOf(r, h) ==
  /\ h.kind # "none" /\ ~h.done
  /\ r.pc = "tell" => h.kind = "paid"
  /\ r.pc = "stock" => h.kind = "stock"
TellersSound ==
  /\ \A e \in Happenings : event[e].kind = "none" => ~event[e].done
  /\ \A t \in Tasks : Telling(teller[t])
  /\ \A t \in Tasks : teller[t].event # 0 => EventOf(teller[t], event[teller[t].event])
  /\ \A t, u \in Tasks : teller[t].event # 0 /\ teller[t].event = teller[u].event => t = u

\* Nobody is reminded of a settled invoice, or an event is to come that sees to it.
InvoiceTold ==
  owing \/ unnamed \/ "invoice" \in stale \/ Told!ToCome("paid") \/ open \cap Told!Reminders = {}

\* The product's notice is that of its level, or an event is to come, or one that has read
\* the level is about to write it.
Matched ==
  IF level = "ok" THEN open \cap Told!Shortages = {}
  ELSE level \in open /\ open \cap Told!Shortages \subseteq {level} \cup outgrown
PushingLevel == \E t \in Tasks : teller[t].pc = "stock" /\ teller[t].read = {level}
ProductTold ==
  "product" \in stale \/ untold \/ Told!ToCome("stock") \/ Matched \/ PushingLevel

\* A push is under way, or lost, or was made once.
PushedOnce ==
  /\ sending \cap unsent = {}
  /\ \A n \in Told!Notice : pushed[n] = IF n \in made \ (sending \cup unsent) THEN 1 ELSE 0

NoticesInv == Told!TypeOK /\ TellersSound /\ InvoiceTold /\ ProductTold /\ PushedOnce

-----------------------------------------------------------------------------
LEMMA TellerResting == Told!Idle \in Tellers /\ Told!Idle.pc = "idle" /\ Told!Idle.event = 0
BY DEF Told!Idle, Tellers

LEMMA NoticesInit == ASSUME Told!NoticesShape, Told!Init PROVE NoticesInv
<1>1. /\ teller \in [Tasks -> Tellers] /\ \A t \in Tasks : teller[t] = Told!Idle
      /\ event \in [Happenings -> Happened] /\ pushed \in [Told!Notice -> Nat]
      /\ \A n \in Told!Notice : pushed[n] = 0
  <2>1. [n \in Told!Notice |-> 0] \in [Told!Notice -> Nat]
    OBVIOUS
  <2>2. Told!NoEvent \in Happened
    BY DEF Happened, Told!NoEvent
  <2>3. /\ teller = [t \in Tasks |-> Told!Idle] /\ event = [e \in Happenings |-> Told!NoEvent]
        /\ pushed = [n \in Told!Notice |-> 0]
    BY Zenon DEF Told!Init
  <2> QED BY <2>1, <2>2, <2>3, TellerResting
<1>2. /\ owing = TRUE /\ due = "early" /\ level = "ok" /\ made = {} /\ open = {}
      /\ sweeps = 0 /\ glitches = 0 /\ changes = 0 /\ unnamed = FALSE /\ stale = {}
      /\ sending = {} /\ unsent = {} /\ outgrown = {} /\ untold = FALSE
  BY Zenon DEF Told!Init
<1>3. owing \in BOOLEAN /\ unnamed \in BOOLEAN /\ owing /\ untold \in BOOLEAN
  BY <1>2, Zenon
<1>4. Told!TypeOK
  BY <1>1, <1>2, <1>3 DEF Told!TypeOK, Tellers, Happened, Told!NoticesShape
<1>5. TellersSound
  <2>1. \A e \in Happenings : ~event[e].done
    <3>1. event = [e \in Happenings |-> Told!NoEvent] /\ ~Told!NoEvent.done
      BY Zenon DEF Told!Init, Told!NoEvent
    <3> QED BY <3>1, Zenon
  <2> QED BY <1>1, <2>1 DEF TellersSound, Telling, Told!Idle
<1> QED BY <1>1, <1>2, <1>3, <1>4, <1>5
   DEF NoticesInv, InvoiceTold, ProductTold, Matched, PushedOnce

\* What the variables hold.
LEMMA TellerTypes ==
  ASSUME NoticesInv
  PROVE  /\ teller \in [Tasks -> Tellers] /\ event \in [Happenings -> Happened]
         /\ pushed \in [Told!Notice -> Nat] /\ open \subseteq made /\ made \subseteq Told!Notice
         /\ sending \subseteq made /\ unsent \subseteq made /\ outgrown \subseteq Told!Shortages
         /\ owing \in BOOLEAN /\ unnamed \in BOOLEAN /\ untold \in BOOLEAN /\ level \in Shelf
         /\ stale \subseteq {"invoice", "product"}
         /\ sweeps \in 0..MaxSweeps /\ glitches \in 0..NoticeFaults /\ changes \in 0..MaxChanges
BY DEF NoticesInv, Told!TypeOK, Tellers, Happened, Shelf

LEMMA NoticesGives ==
  ASSUME Told!NoticesShape, NoticesInv
  PROVE  Told!TypeOK /\ Told!NoticesExact
<1>1. Told!Quiet => ~Told!ToCome("paid") /\ ~Told!ToCome("stock") /\ ~PushingLevel
  BY Zenon DEF Told!Quiet, Told!ToCome, PushingLevel
<1> QED BY <1>1 DEF NoticesInv, Told!NoticesExact, InvoiceTold, ProductTold, Matched, PushedOnce

\* An event to come is still to come, when a task goes on that is not about it.
LEMMA StillToCome ==
  ASSUME NEW k, Told!ToCome(k), NEW t \in Tasks, NEW r, teller \in [Tasks -> Tellers],
         teller' = [teller EXCEPT ![t] = r],
         \A e \in Happenings : /\ event[e].kind = k /\ ~event[e].done
                               /\ teller[t].event = e => teller[t].pc = "project"
           => event'[e] = event[e] /\ (r.event = e => r.pc = "project")
  PROVE  Told!ToCome(k)'
<1>1. PICK e \in Happenings : /\ event[e].kind = k /\ ~event[e].done
                              /\ \A u \in Tasks : teller[u].event = e => teller[u].pc = "project"
  BY DEF Told!ToCome
<1>2. event'[e] = event[e] /\ (r.event = e => r.pc = "project")
  BY <1>1
<1>3. teller'[t] = r /\ \A u \in Tasks \ {t} : teller'[u] = teller[u]
  OBVIOUS
<1>4. \A u \in Tasks : teller'[u].event = e => teller'[u].pc = "project"
  BY <1>1, <1>2, <1>3
<1>5. event'[e].kind = k /\ ~event'[e].done
  BY <1>1, <1>2
<1> QED BY <1>4, <1>5 DEF Told!ToCome

\* What one task's step leaves to come of the other kind of event.
LEMMA OtherToCome ==
  ASSUME NEW k, Told!ToCome(k), NEW t \in Tasks, NEW r, teller \in [Tasks -> Tellers],
         teller' = [teller EXCEPT ![t] = r], event' = event, event[r.event].kind # k
  PROVE  Told!ToCome(k)'
<1>1. PICK e \in Happenings : /\ event[e].kind = k /\ ~event[e].done
                              /\ \A u \in Tasks : teller[u].event = e => teller[u].pc = "project"
  BY DEF Told!ToCome
<1>2. r.event # e
  BY <1>1
<1>3. teller'[t] = r /\ \A u \in Tasks \ {t} : teller'[u] = teller[u]
  OBVIOUS
<1>4. \A u \in Tasks : teller'[u].event = e => teller'[u].pc = "project"
  BY <1>1, <1>2, <1>3
<1> QED BY <1>1, <1>4 DEF Told!ToCome

\* An event that is published is to come, and those before it still are.
LEMMA NewsStep ==
  ASSUME Told!NoticesShape, NoticesInv, NEW k \in {"paid", "stock"}, Told!Publish(k),
         teller' = teller
  PROVE  /\ event' \in [Happenings -> Happened] /\ Told!ToCome(k)' /\ TellersSound'
         /\ Told!ToCome("paid") => Told!ToCome("paid")'
         /\ Told!ToCome("stock") => Told!ToCome("stock")'
<1>1. PICK e \in Happenings : event[e].kind = "none" /\ event' = [event EXCEPT ![e].kind = k]
  BY Zenon DEF Told!Publish
<1>2. PICK h \in Happened : h = event[e] /\ h.kind = "none"
  BY <1>1, TellerTypes
<1>3. PICK g \in Happened : g = [h EXCEPT !.kind = k] /\ g.kind = k /\ (g.done <=> h.done)
  <2>1. [h EXCEPT !.kind = k] \in Happened /\ [h EXCEPT !.kind = k].kind = k
    BY <1>2 DEF Happened
  <2>2. [h EXCEPT !.kind = k].done <=> h.done
    BY <1>2 DEF Happened
  <2> QED BY <2>1, <2>2, Zenon
<1>4. /\ event' \in [Happenings -> Happened] /\ event'[e] = g
      /\ \A d \in Happenings \ {e} : event'[d] = event[d]
  BY <1>1, <1>2, <1>3, TellerTypes
<1>5. ASSUME NEW t \in Tasks, teller[t].event # 0 PROVE teller[t].event \in Happenings /\ teller[t].event # e
  <2>1. teller[t].event \in Happenings
    BY <1>5, TellerTypes DEF Tellers
  <2>2. event[teller[t].event].kind # "none"
    BY <1>5 DEF NoticesInv, TellersSound, EventOf
  <2> QED BY <1>1, <2>1, <2>2
<1>6. TellersSound'
  <2>1. \A t \in Tasks : Telling(teller[t])'
    BY DEF NoticesInv, TellersSound, Telling
  <2>4. \A d \in Happenings : event'[d].kind = "none" => ~event'[d].done
    BY <1>3, <1>4, Zenon DEF NoticesInv, TellersSound
  <2>2. ASSUME NEW t \in Tasks, teller'[t].event # 0 PROVE EventOf(teller'[t], event'[teller'[t].event])
    BY <1>4, <1>5, <2>2 DEF NoticesInv, TellersSound
  <2>3. \A t \in Tasks : teller'[t].event # 0 => EventOf(teller[t], event[teller[t].event])'
    BY <2>2 DEF EventOf
  <2> QED BY <2>1, <2>3, <2>4 DEF NoticesInv, TellersSound
<1>7. ~h.done
  BY <1>1, <1>2 DEF NoticesInv, TellersSound
<1>8. Told!ToCome(k)'
  <2>1. \A t \in Tasks : teller'[t].event # e
    BY <1>5 DEF Told!NoticesShape
  <2>2. event'[e].kind = k /\ ~event'[e].done
    BY <1>3, <1>4, <1>7
  <2> QED BY <2>1, <2>2 DEF Told!ToCome
<1>9. \A j \in {"paid", "stock"} : Told!ToCome(j) => Told!ToCome(j)'
  <2> SUFFICES ASSUME NEW j \in {"paid", "stock"}, Told!ToCome(j) PROVE Told!ToCome(j)'
    OBVIOUS
  <2>1. PICK d \in Happenings : /\ event[d].kind = j /\ ~event[d].done
                                /\ \A u \in Tasks : teller[u].event = d => teller[u].pc = "project"
    BY DEF Told!ToCome
  <2>2. event'[d] = event[d]
    BY <1>1, <1>4, <2>1
  <2> QED BY <2>1, <2>2 DEF Told!ToCome
<1> QED BY <1>4, <1>6, <1>8, <1>9

-----------------------------------------------------------------------------
\* The invoice and the product change.
LEMMA TellingStep ==
  ASSUME Told!NoticesShape, NoticesInv,
         Told!Pay \/ Told!PayUnnamed \/ Told!OweAgain \/ Told!Age \/ \E to \in Shelf : Told!MoveStock(to) \/ Told!Receive(to)
  PROVE  NoticesInv'
<1>1. teller' = teller /\ UNCHANGED Told!rows
  BY DEF Told!Pay, Told!PayUnnamed, Told!OweAgain, Told!Age, Told!MoveStock, Told!Receive
<1>2. /\ made' = made /\ open' = open /\ pushed' = pushed /\ stale' = stale
      /\ sending' = sending /\ unsent' = unsent /\ outgrown' = outgrown
  BY <1>1 DEF Told!rows, Told!phones
<1>3. PushedOnce'
  BY <1>2 DEF NoticesInv, PushedOnce
<1>4. event' = event => TellersSound' /\ \A k : Told!ToCome(k)' = Told!ToCome(k)
  BY <1>1 DEF NoticesInv, TellersSound, Telling, EventOf, Told!ToCome
<1>5. CASE Told!Pay
  <2>1. /\ owing' = FALSE /\ Told!Publish("paid")
        /\ UNCHANGED <<due, level, unnamed, untold, sweeps, glitches, changes>>
    BY <1>5 DEF Told!Pay, Told!bounds
  <2>2. owing' \in BOOLEAN
    BY <2>1, Zenon
  <2>3. /\ event' \in [Happenings -> Happened] /\ Told!ToCome("paid")' /\ TellersSound'
        /\ Told!ToCome("stock") => Told!ToCome("stock")'
    BY <1>1, <2>1, NewsStep
  <2>4. Told!TypeOK'
    BY <1>1, <1>2, <2>1, <2>2, <2>3 DEF NoticesInv, Told!TypeOK, Happened
  <2>5. ProductTold'
    BY <1>1, <1>2, <2>1, <2>3 DEF NoticesInv, ProductTold, Matched, PushingLevel
  <2> QED BY <1>3, <2>3, <2>4, <2>5 DEF NoticesInv, InvoiceTold
<1>6. CASE Told!PayUnnamed
  <2>1. /\ owing' = FALSE /\ unnamed' = TRUE /\ Told!Change
        /\ UNCHANGED <<due, level, event, untold>>
    BY <1>6 DEF Told!PayUnnamed
  <2>2. owing' \in BOOLEAN /\ unnamed' \in BOOLEAN /\ unnamed'
    BY <2>1, Zenon
  <2>3. /\ sweeps' = sweeps /\ glitches' = glitches /\ changes' \in 0..MaxChanges
    BY <2>1, TellerTypes DEF Told!Change, Told!NoticesShape
  <2>4. Told!TypeOK'
    BY <1>1, <1>2, <2>1, <2>2, <2>3 DEF NoticesInv, Told!TypeOK
  <2>5. ProductTold'
    BY <1>1, <1>2, <1>4, <2>1, Zenon DEF NoticesInv, ProductTold, Matched, PushingLevel
  <2> QED BY <1>3, <1>4, <2>1, <2>2, <2>4, <2>5 DEF NoticesInv, InvoiceTold
<1>7. CASE Told!OweAgain
  <2>1. /\ owing' = TRUE /\ unnamed' = FALSE /\ Told!Change
        /\ UNCHANGED <<due, level, event, untold>>
    BY <1>7 DEF Told!OweAgain
  <2>2. owing' \in BOOLEAN /\ unnamed' \in BOOLEAN /\ owing'
    BY <2>1, Zenon
  <2>3. /\ sweeps' = sweeps /\ glitches' = glitches /\ changes' \in 0..MaxChanges
    BY <2>1, TellerTypes DEF Told!Change, Told!NoticesShape
  <2>4. Told!TypeOK'
    BY <1>1, <1>2, <2>1, <2>2, <2>3 DEF NoticesInv, Told!TypeOK
  <2>5. ProductTold'
    BY <1>1, <1>2, <1>4, <2>1, Zenon DEF NoticesInv, ProductTold, Matched, PushingLevel
  <2> QED BY <1>3, <1>4, <2>1, <2>2, <2>4, <2>5 DEF NoticesInv, InvoiceTold
<1>8. CASE Told!Age
  <2>1. /\ due' = (IF due = "early" THEN "soon" ELSE "late")
        /\ UNCHANGED <<owing, level, event, unnamed, untold, sweeps, glitches, changes>>
    BY <1>8 DEF Told!Age, Told!bounds
  <2>2. Told!TypeOK'
    BY <1>1, <1>2, <2>1 DEF NoticesInv, Told!TypeOK
  <2>3. ProductTold' /\ InvoiceTold'
    BY <1>1, <1>2, <1>4, <2>1, Zenon
       DEF NoticesInv, ProductTold, InvoiceTold, Matched, PushingLevel
  <2> QED BY <1>3, <1>4, <2>1, <2>2, <2>3 DEF NoticesInv
<1>9. CASE \E to \in Shelf : Told!MoveStock(to)
  <2>1. /\ level' \in Shelf /\ Told!Publish("stock") /\ untold' = FALSE
        /\ UNCHANGED <<owing, due, unnamed, sweeps, glitches, changes>>
    BY <1>9 DEF Told!MoveStock, Told!bounds
  <2>2. /\ event' \in [Happenings -> Happened] /\ Told!ToCome("stock")' /\ TellersSound'
        /\ Told!ToCome("paid") => Told!ToCome("paid")'
    BY <1>1, <2>1, NewsStep
  <2>5. untold' \in BOOLEAN
    BY <2>1, Zenon
  <2>3. Told!TypeOK'
    BY <1>1, <1>2, <2>1, <2>2, <2>5 DEF NoticesInv, Told!TypeOK, Happened, Shelf
  <2>4. InvoiceTold'
    BY <1>1, <1>2, <2>1, <2>2, Zenon DEF NoticesInv, InvoiceTold
  <2> QED BY <1>3, <2>2, <2>3, <2>4 DEF NoticesInv, ProductTold
<1>10. CASE \E to \in Shelf : Told!Receive(to)
  <2>1. /\ level' \in Shelf /\ untold' = ~Told!ToCome("stock") /\ Told!Change
        /\ UNCHANGED <<owing, due, event, unnamed>>
    BY <1>10 DEF Told!Receive
  <2>2. untold' \in BOOLEAN
    BY <2>1, Zenon
  <2>3. /\ sweeps' = sweeps /\ glitches' = glitches /\ changes' \in 0..MaxChanges
    BY <2>1, TellerTypes DEF Told!Change, Told!NoticesShape
  <2>4. Told!TypeOK'
    BY <1>1, <1>2, <2>1, <2>2, <2>3 DEF NoticesInv, Told!TypeOK, Shelf
  <2>5. ProductTold'
    BY <1>4, <2>1, Zenon DEF ProductTold
  <2>6. InvoiceTold'
    BY <1>2, <1>4, <2>1, Zenon DEF NoticesInv, InvoiceTold
  <2> QED BY <1>3, <1>4, <2>1, <2>4, <2>5, <2>6 DEF NoticesInv
<1> QED BY <1>5, <1>6, <1>7, <1>8, <1>9, <1>10

\* What a task's step leaves of the others, when the events stay.
LEMMA TellerMoves ==
  ASSUME Told!NoticesShape, NoticesInv, NEW t \in Tasks, NEW r \in Tellers, Telling(r),
         teller' = [teller EXCEPT ![t] = r], event' = event,
         r.event # 0 => /\ EventOf(r, event[r.event])
                        /\ \A u \in Tasks \ {t} : teller[u].event # r.event
  PROVE  /\ teller' \in [Tasks -> Tellers] /\ TellersSound' /\ teller'[t] = r
         /\ \A u \in Tasks \ {t} : teller'[u] = teller[u]
<1>1. /\ teller' \in [Tasks -> Tellers] /\ teller'[t] = r
      /\ \A u \in Tasks \ {t} : teller'[u] = teller[u]
  BY TellerTypes
<1>2. \A u \in Tasks : Telling(teller'[u])
  BY <1>1 DEF NoticesInv, TellersSound
<1>3. \A u \in Tasks : teller'[u].event # 0 => EventOf(teller'[u], event[teller'[u].event])
  BY <1>1 DEF NoticesInv, TellersSound
<1>4. \A u, w \in Tasks : teller'[u].event # 0 /\ teller'[u].event = teller'[w].event => u = w
  BY <1>1 DEF NoticesInv, TellersSound
<1>5. TellersSound'
  BY <1>2, <1>3, <1>4 DEF NoticesInv, TellersSound, Telling, EventOf
<1> QED BY <1>1, <1>5

LEMMA NewsTaken ==
  ASSUME Told!NoticesShape, NoticesInv, NEW t \in Tasks, NEW e \in Happenings, Told!Dispatch(t, e)
  PROVE  NoticesInv'
<1>1. PICK r : r = [Told!Idle EXCEPT !.pc = "project", !.event = e]
  OBVIOUS
<1>2. r \in Tellers /\ r.pc = "project" /\ r.event = e /\ Telling(r)
  BY <1>1, Zenon DEF Told!Idle, Tellers, Telling, Told!NoticesShape
<1>3. /\ teller[t].pc = "idle" /\ event[e].kind # "none" /\ ~event[e].done
      /\ \A u \in Tasks : teller[u].event # e
      /\ teller' = [teller EXCEPT ![t] = r]
  BY <1>1 DEF Told!Dispatch
<1>4. UNCHANGED <<owing, due, level, event, unnamed, untold, made, open, sending, pushed, unsent,
               outgrown, stale, sweeps, glitches, changes>>
  BY DEF Told!Dispatch, Told!world, Told!rows, Told!phones, Told!bounds
<1>5. EventOf(r, event[e])
  BY <1>2, <1>3 DEF EventOf
<1>6. teller' \in [Tasks -> Tellers] /\ TellersSound'
      /\ \A u \in Tasks \ {t} : teller'[u] = teller[u]
  BY <1>2, <1>3, <1>4, <1>5, TellerMoves, Zenon
<1>7. \A k : Told!ToCome(k) => Told!ToCome(k)'
  BY <1>2, <1>3, <1>4, TellerTypes, StillToCome, Zenon
<1>8. Told!TypeOK'
  BY <1>4, <1>6 DEF NoticesInv, Told!TypeOK, Tellers
<1>9. PushingLevel => PushingLevel'
  BY <1>3, <1>4, <1>6 DEF PushingLevel
<1> QED BY <1>4, <1>6, <1>7, <1>8, <1>9, Zenon
   DEF NoticesInv, InvoiceTold, ProductTold, Matched, PushedOnce

LEMMA ProjectPaymentStep ==
  ASSUME Told!NoticesShape, NoticesInv, NEW t \in Tasks, Told!ProjectPayment(t)
  PROVE  NoticesInv'
<1>1. PICK q \in Tellers : q = teller[t] /\ Telling(q) /\ (q.event # 0 => EventOf(q, event[q.event]))
  BY TellerTypes DEF NoticesInv, TellersSound
<1>2. q.pc = "project" /\ event[q.event].kind = "paid" /\ q.event \in Happenings /\ q.event # 0
  BY <1>1 DEF Told!ProjectPayment, Telling, Tellers
<1>3. PICK r : r = [q EXCEPT !.pc = "tell"]
  BY Zenon
<1>4. r \in Tellers /\ r.pc = "tell" /\ r.event = q.event /\ r.read = q.read /\ Telling(r)
  BY <1>1, <1>2, <1>3 DEF Tellers, Telling
<1>5. /\ teller' = [teller EXCEPT ![t] = r] /\ open' = open \ Told!Reminders /\ stale' = stale \ {"invoice"}
      /\ outgrown' = outgrown \ Told!Reminders
      /\ UNCHANGED <<owing, due, level, event, unnamed, untold, made, sending, pushed, unsent,
                     sweeps, glitches, changes>>
  BY <1>1, <1>3
     DEF Told!ProjectPayment, Told!world, Told!phones, Told!bounds, Told!Resolve, Told!Resolved
<1>6. EventOf(r, event[r.event])
  BY <1>1, <1>2, <1>4 DEF EventOf
<1>7. teller' \in [Tasks -> Tellers] /\ TellersSound'
      /\ \A u \in Tasks \ {t} : teller'[u] = teller[u]
  <2>1. \A u \in Tasks \ {t} : teller[u].event # r.event
    BY <1>1, <1>2, <1>4 DEF NoticesInv, TellersSound
  <2> QED BY <1>4, <1>5, <1>6, <2>1, TellerMoves, Zenon
<1>8. Told!ToCome("stock") => Told!ToCome("stock")'
  <2>1. teller \in [Tasks -> Tellers] /\ event' = event /\ event[r.event].kind # "stock"
    BY <1>2, <1>4, <1>5, TellerTypes
  <2>2. SUFFICES ASSUME NEW k, k = "stock", Told!ToCome(k)
                 PROVE  Told!ToCome(k)'
    BY Zenon
  <2> QED BY <1>5, <2>1, <2>2, OtherToCome, Zenon
<1>9. Told!TypeOK'
  BY <1>5, <1>7 DEF NoticesInv, Told!TypeOK, Tellers
<1>10. PushingLevel => PushingLevel'
  BY <1>1, <1>2, <1>5, <1>7 DEF PushingLevel
<1>11. InvoiceTold'
  BY <1>5 DEF InvoiceTold
<1>12. Matched => Matched'
  BY <1>5, TellerTypes DEF Matched, Told!Reminders, Told!Shortages, Shelf
<1>13. ProductTold'
  BY <1>5, <1>8, <1>10, <1>12 DEF NoticesInv, ProductTold
<1>14. PushedOnce'
  BY <1>5 DEF NoticesInv, PushedOnce
<1> QED BY <1>7, <1>9, <1>11, <1>13, <1>14 DEF NoticesInv

LEMMA ReadStockStep ==
  ASSUME Told!NoticesShape, NoticesInv, NEW t \in Tasks, Told!ReadStock(t)
  PROVE  NoticesInv'
<1>1. PICK q \in Tellers : q = teller[t] /\ Telling(q) /\ (q.event # 0 => EventOf(q, event[q.event]))
  BY TellerTypes DEF NoticesInv, TellersSound
<1>2. q.pc = "project" /\ event[q.event].kind = "stock" /\ q.event \in Happenings /\ q.event # 0
  BY <1>1 DEF Told!ReadStock, Telling, Tellers
<1>3. PICK r : r = [q EXCEPT !.pc = "stock", !.read = {level}]
  OBVIOUS
<1>4. r \in Tellers /\ r.pc = "stock" /\ r.event = q.event /\ r.read = {level} /\ Telling(r)
  <2>1. level \in Shelf /\ {level} \in SUBSET (Told!Notice \cup {"ok"})
    BY TellerTypes DEF Shelf, Told!Notice, Told!Shortages
  <2> QED BY <1>1, <1>2, <1>3, <2>1, Zenon DEF Tellers, Telling
<1>5. /\ teller' = [teller EXCEPT ![t] = r]
      /\ untold' = FALSE
      /\ UNCHANGED <<owing, due, level, event, unnamed, made, open, sending, pushed, unsent,
                     outgrown, stale, sweeps, glitches, changes>>
  BY <1>1, <1>3, Zenon DEF Told!ReadStock, Told!rows, Told!phones, Told!bounds
<1>6. EventOf(r, event[r.event])
  BY <1>1, <1>2, <1>4 DEF EventOf
<1>7. /\ teller' \in [Tasks -> Tellers] /\ TellersSound' /\ teller'[t] = r
      /\ \A u \in Tasks \ {t} : teller'[u] = teller[u]
  <2>1. \A u \in Tasks \ {t} : teller[u].event # r.event
    BY <1>1, <1>2, <1>4 DEF NoticesInv, TellersSound
  <2> QED BY <1>4, <1>5, <1>6, <2>1, TellerMoves, Zenon
<1>8. Told!ToCome("paid") => Told!ToCome("paid")'
  <2>1. teller \in [Tasks -> Tellers] /\ event' = event /\ event[r.event].kind # "paid"
    BY <1>2, <1>4, <1>5, TellerTypes
  <2>2. SUFFICES ASSUME NEW k, k = "paid", Told!ToCome(k)
                 PROVE  Told!ToCome(k)'
    BY Zenon
  <2> QED BY <1>5, <2>1, <2>2, OtherToCome, Zenon
<1>13. untold' \in BOOLEAN
  BY <1>5, Zenon
<1>9. Told!TypeOK'
  BY <1>5, <1>7, <1>13 DEF NoticesInv, Told!TypeOK, Tellers
<1>10. ProductTold'
  BY <1>4, <1>5, <1>7 DEF ProductTold, PushingLevel
<1>11. InvoiceTold'
  BY <1>5, <1>8 DEF NoticesInv, InvoiceTold
<1>12. PushedOnce'
  BY <1>5 DEF NoticesInv, PushedOnce
<1> QED BY <1>7, <1>9, <1>10, <1>11, <1>12 DEF NoticesInv

\* What a task that is done with its event leaves.
LEMMA TellerGoes ==
  ASSUME Told!NoticesShape, NoticesInv, NEW t \in Tasks, teller[t].event # 0, Told!Done(t)
  PROVE  /\ teller' \in [Tasks -> Tellers] /\ event' \in [Happenings -> Happened] /\ TellersSound'
         /\ teller' = [teller EXCEPT ![t] = Told!Idle]
         /\ \A u \in Tasks \ {t} : teller'[u] = teller[u]
         /\ \A k : (teller[t].pc # "project" \/ event[teller[t].event].kind # k) /\ Told!ToCome(k)
                => Told!ToCome(k)'
<1>1. PICK e : e = teller[t].event
  OBVIOUS
<1>2. e \in Happenings /\ e # 0 /\ teller' = [teller EXCEPT ![t] = Told!Idle]
  BY <1>1, TellerTypes DEF NoticesInv, TellersSound, Telling, Tellers, Told!Done
<1>3. PICK h \in Happened : h = event[e] /\ h.kind # "none"
  BY <1>1, <1>2, TellerTypes DEF NoticesInv, TellersSound, EventOf
<1>4. PICK yes \in BOOLEAN : yes = TRUE
  BY Zenon
<1>5. PICK g \in Happened : g = [h EXCEPT !.done = yes] /\ g.kind = h.kind
  <2>1. [h EXCEPT !.done = yes] \in Happened /\ [h EXCEPT !.done = yes].kind = h.kind
    BY <1>3 DEF Happened
  <2> QED BY <2>1, Zenon
<1>6. event' = [event EXCEPT ![e] = g]
  <2>1. event' = [event EXCEPT ![e].done = TRUE]
    BY <1>1 DEF Told!Done
  <2>2. [event EXCEPT ![e].done = TRUE] = [event EXCEPT ![e] = [h EXCEPT !.done = TRUE]]
    BY <1>3, Zenon
  <2> QED BY <1>4, <1>5, <2>1, <2>2, Zenon
<1>7. /\ event' \in [Happenings -> Happened] /\ event'[e] = g
      /\ \A d \in Happenings \ {e} : event'[d] = event[d]
  BY <1>2, <1>5, <1>6, TellerTypes
<1>8. /\ teller' \in [Tasks -> Tellers] /\ teller'[t] = Told!Idle
      /\ \A u \in Tasks \ {t} : teller'[u] = teller[u] /\ teller[u].event # e
  BY <1>1, <1>2, TellerTypes, TellerResting DEF NoticesInv, TellersSound
<1>9. TellersSound'
  <2>1. \A u \in Tasks : Telling(teller'[u])
    BY <1>8, TellerResting DEF NoticesInv, TellersSound, Telling
  <2>2. ASSUME NEW u \in Tasks, teller'[u].event # 0 PROVE EventOf(teller'[u], event'[teller'[u].event])
    <3>1. u # t /\ teller'[u] = teller[u] /\ teller[u].event # e /\ teller[u].event \in Happenings
      BY <1>8, <2>2, TellerResting, TellerTypes DEF Tellers
    <3> QED BY <1>7, <2>2, <3>1 DEF NoticesInv, TellersSound
  <2>3. \A u, w \in Tasks : teller'[u].event # 0 /\ teller'[u].event = teller'[w].event => u = w
    BY <1>8, TellerResting DEF NoticesInv, TellersSound
  <2>4. \A d \in Happenings : event'[d].kind = "none" => ~event'[d].done
    BY <1>3, <1>5, <1>7, Zenon DEF NoticesInv, TellersSound
  <2> QED BY <2>1, <2>2, <2>3, <2>4 DEF TellersSound, Telling, EventOf
<1>10. ASSUME NEW k, Told!ToCome(k), teller[t].pc # "project" \/ event[teller[t].event].kind # k
       PROVE  Told!ToCome(k)'
  <2>1. \A d \in Happenings : /\ event[d].kind = k /\ ~event[d].done
                              /\ teller[t].event = d => teller[t].pc = "project"
          => event'[d] = event[d] /\ (Told!Idle.event = d => Told!Idle.pc = "project")
    BY <1>1, <1>7, <1>10, TellerResting DEF Told!NoticesShape
  <2>2. teller \in [Tasks -> Tellers] /\ teller' = [teller EXCEPT ![t] = Told!Idle]
    BY <1>2, TellerTypes
  <2>3. Told!ToCome(k)
    BY <1>10
  <2> QED BY <2>1, <2>2, <2>3, StillToCome, Zenon
<1> QED BY <1>2, <1>7, <1>8, <1>9, <1>10

\* What an upsert leaves: the push of a notice begins when it is new.
LEMMA UpsertStep ==
  ASSUME NoticesInv, NEW n \in Told!Notice, Told!Upsert(n)
  PROVE  /\ open' = open \cup {n} /\ open' \subseteq made' /\ made' \subseteq Told!Notice
         /\ sending' \subseteq made' /\ unsent' \subseteq made' /\ outgrown' \subseteq Told!Shortages
         /\ n \notin Told!Shortages => outgrown' = outgrown
         /\ n \in Told!Shortages => outgrown' = (open \cap Told!Shortages) \ {n}
         /\ pushed' \in [Told!Notice -> Nat] /\ PushedOnce'
<1>1. /\ made' = made \cup {n} /\ open' = open \cup {n} /\ outgrown' = Told!Others(n)
      /\ sending' = (IF n \in made THEN sending ELSE sending \cup {n})
      /\ pushed' = pushed /\ unsent' = unsent
  BY DEF Told!Upsert, Told!phones
<1>2. outgrown' \subseteq Told!Shortages /\ (n \notin Told!Shortages => outgrown' = outgrown)
      /\ (n \in Told!Shortages => outgrown' = (open \cap Told!Shortages) \ {n})
  BY <1>1, TellerTypes DEF Told!Others
<1>3. PushedOnce'
  <2>1. sending' \cap unsent' = {}
    BY <1>1, TellerTypes DEF NoticesInv, PushedOnce
  <2>2. \A m \in Told!Notice : m \in made' \ (sending' \cup unsent') <=> m \in made \ (sending \cup unsent)
    BY <1>1, TellerTypes
  <2> QED BY <1>1, <2>1, <2>2, Zenon DEF NoticesInv, PushedOnce
<1> QED BY <1>1, <1>2, <1>3, TellerTypes

\* A push that is made or lost is no longer under way.
LEMMA PushStep ==
  ASSUME Told!NoticesShape, NoticesInv, NEW n \in Told!Notice, Told!Push(n) \/ Told!LosePush(n)
  PROVE  NoticesInv'
<1>1. /\ n \in sending /\ sending' = sending \ {n} /\ teller' = teller
      /\ UNCHANGED <<owing, due, level, event, unnamed, untold, made, open, outgrown, stale,
                     sweeps, changes>>
  BY DEF Told!Push, Told!LosePush, Told!world, Told!bounds
<1>2. n \in made /\ n \notin unsent /\ pushed[n] = 0
  BY <1>1, TellerTypes DEF NoticesInv, PushedOnce
<1>3. /\ PushedOnce' /\ pushed' \in [Told!Notice -> Nat] /\ unsent' \subseteq made
      /\ glitches' \in 0..NoticeFaults
  <2>1. CASE Told!Push(n)
    <3>1. pushed' = [pushed EXCEPT ![n] = pushed[n] + 1] /\ unsent' = unsent /\ glitches' = glitches
      BY <2>1 DEF Told!Push, Told!bounds
    <3>2. pushed' \in [Told!Notice -> Nat]
          /\ \A m \in Told!Notice : pushed'[m] = IF m = n THEN 1 ELSE pushed[m]
      BY <1>2, <3>1, TellerTypes
    <3>3. PushedOnce'
      BY <1>1, <1>2, <3>1, <3>2 DEF NoticesInv, PushedOnce
    <3> QED BY <3>1, <3>2, <3>3, TellerTypes
  <2>2. CASE Told!LosePush(n)
    <3>1. /\ pushed' = pushed /\ unsent' = unsent \cup {n}
          /\ glitches < NoticeFaults /\ glitches' = glitches + 1
      BY <2>2 DEF Told!LosePush
    <3>2. glitches' \in 0..NoticeFaults
      BY <3>1, TellerTypes DEF Told!NoticesShape
    <3>3. PushedOnce'
      BY <1>1, <1>2, <3>1 DEF NoticesInv, PushedOnce
    <3> QED BY <1>2, <3>1, <3>2, <3>3, TellerTypes
  <2> QED BY <2>1, <2>2
<1>4. Told!TypeOK'
  BY <1>1, <1>3 DEF NoticesInv, Told!TypeOK
<1>5. TellersSound' /\ \A k : Told!ToCome(k)' = Told!ToCome(k)
  BY <1>1 DEF NoticesInv, TellersSound, Telling, EventOf, Told!ToCome
<1>6. ProductTold' /\ InvoiceTold'
  BY <1>1, <1>5, Zenon DEF NoticesInv, ProductTold, InvoiceTold, Matched, PushingLevel
<1> QED BY <1>3, <1>4, <1>5, <1>6 DEF NoticesInv

LEMMA TellPaymentStep ==
  ASSUME Told!NoticesShape, NoticesInv, NEW t \in Tasks, Told!TellPayment(t)
  PROVE  NoticesInv'
<1>1. /\ teller[t].pc = "tell" /\ Told!Upsert("paid") /\ Told!Done(t) /\ "paid" \in Told!Notice
      /\ UNCHANGED <<owing, due, level, unnamed, untold, stale, sweeps, glitches, changes>>
  BY DEF Told!TellPayment, Told!bounds, Told!Notice
<1>2. /\ open' = open \cup {"paid"} /\ open' \subseteq made' /\ made' \subseteq Told!Notice
      /\ sending' \subseteq made' /\ unsent' \subseteq made' /\ outgrown' = outgrown
      /\ pushed' \in [Told!Notice -> Nat] /\ PushedOnce'
  BY <1>1, UpsertStep DEF Told!Shortages
<1>9. teller[t].event # 0 /\ teller[t].pc # "project"
  BY <1>1 DEF NoticesInv, TellersSound, Telling
<1>3. /\ teller' \in [Tasks -> Tellers] /\ event' \in [Happenings -> Happened] /\ TellersSound'
      /\ \A u \in Tasks \ {t} : teller'[u] = teller[u]
      /\ Told!ToCome("paid") => Told!ToCome("paid")'
      /\ Told!ToCome("stock") => Told!ToCome("stock")'
  BY <1>1, <1>9, TellerGoes
<1>4. Told!TypeOK'
  BY <1>1, <1>2, <1>3 DEF NoticesInv, Told!TypeOK, Tellers, Happened
<1>5. open' \cap Told!Reminders = open \cap Told!Reminders
  BY <1>2 DEF Told!Reminders
<1>6. (Matched => Matched') /\ (PushingLevel => PushingLevel')
  BY <1>1, <1>2, <1>3, TellerTypes DEF Matched, PushingLevel, Told!Shortages
<1>7. InvoiceTold'
  BY <1>1, <1>3, <1>5 DEF NoticesInv, InvoiceTold
<1>8. ProductTold'
  BY <1>1, <1>3, <1>6 DEF NoticesInv, ProductTold
<1> QED BY <1>2, <1>3, <1>4, <1>7, <1>8 DEF NoticesInv

\* A shortage that is written is that of the level, or known to be old, or seen to later.
LEMMA ShortageWritten ==
  ASSUME Told!NoticesShape, NoticesInv, NEW n \in Shelf, Told!TellsProduct(n),
         level' = level,
         Told!ToCome("stock") => Told!ToCome("stock")',
         n = "ok" => open' = open \ Told!Shortages,
         n # "ok" => open' = open \cup {n} /\ outgrown' = (open \cap Told!Shortages) \ {n}
  PROVE  ProductTold' /\ stale' \subseteq {"invoice", "product"} /\ untold' \in BOOLEAN
         /\ ("invoice" \in stale' <=> "invoice" \in stale)
<1>1. /\ stale \subseteq {"invoice", "product"} /\ level \in Shelf
      /\ stale' = Told!StaleProduct(n) /\ untold' = (untold /\ n # level)
  BY TellerTypes DEF Told!TellsProduct
<1>5. untold' \in BOOLEAN
  BY <1>1, Zenon
<1>2. CASE n = level
  <2>1. Matched'
    BY <1>1, <1>2 DEF Matched, Shelf, Told!Shortages
  <2> QED BY <1>1, <1>2, <1>5, <2>1 DEF ProductTold, Told!StaleProduct
<1>3. CASE n # level /\ Told!ToCome("stock")
  BY <1>1, <1>3, <1>5 DEF ProductTold, Told!StaleProduct
<1>4. CASE n # level /\ ~Told!ToCome("stock")
  BY <1>1, <1>4, <1>5 DEF ProductTold, Told!StaleProduct
<1> QED BY <1>2, <1>3, <1>4

LEMMA WriteStockStep ==
  ASSUME Told!NoticesShape, NoticesInv, NEW t \in Tasks, Told!WriteStock(t)
  PROVE  NoticesInv'
<1>1. PICK n \in Shelf : teller[t].read = {n}
  BY DEF Told!WriteStock, NoticesInv, TellersSound, Telling
<1>2. /\ teller[t].pc = "stock" /\ Told!Done(t) /\ Told!TellsProduct(n)
      /\ n = "ok" => Told!Resolve(Told!Shortages)
      /\ n # "ok" => Told!Upsert(n)
      /\ UNCHANGED <<owing, due, level, unnamed, sweeps, glitches, changes>>
  BY <1>1 DEF Told!WriteStock, Told!bounds
<1>3. /\ teller' \in [Tasks -> Tellers] /\ event' \in [Happenings -> Happened] /\ TellersSound'
      /\ Told!ToCome("paid") => Told!ToCome("paid")'
      /\ Told!ToCome("stock") => Told!ToCome("stock")'
  <2>1. teller[t].event # 0 /\ teller[t].pc # "project"
    BY <1>2 DEF NoticesInv, TellersSound, Telling
  <2> QED BY <1>2, <2>1, TellerGoes
<1>4. /\ open' \subseteq made' /\ made' \subseteq Told!Notice /\ pushed' \in [Told!Notice -> Nat] /\ PushedOnce'
      /\ sending' \subseteq made' /\ unsent' \subseteq made' /\ outgrown' \subseteq Told!Shortages
      /\ n = "ok" => open' = open \ Told!Shortages
      /\ n # "ok" => open' = open \cup {n} /\ outgrown' = (open \cap Told!Shortages) \ {n}
      /\ open' \cap Told!Reminders = open \cap Told!Reminders
  <2>1. CASE n = "ok"
    BY <1>2, <2>1, TellerTypes
       DEF Told!Resolve, Told!phones, NoticesInv, PushedOnce, Told!Shortages, Told!Reminders
  <2>2. CASE n # "ok"
    <3>1. n \in Told!Notice /\ n \notin Told!Reminders /\ n \in Told!Shortages
      BY <2>2 DEF Shelf, Told!Notice, Told!Shortages, Told!Reminders
    <3>2. /\ open' = open \cup {n} /\ open' \subseteq made' /\ made' \subseteq Told!Notice
          /\ sending' \subseteq made' /\ unsent' \subseteq made' /\ outgrown' \subseteq Told!Shortages
          /\ outgrown' = (open \cap Told!Shortages) \ {n}
          /\ pushed' \in [Told!Notice -> Nat] /\ PushedOnce'
      BY <1>2, <2>2, <3>1, UpsertStep
    <3> QED BY <2>2, <3>1, <3>2
  <2> QED BY <2>1, <2>2
<1>5. /\ ProductTold' /\ stale' \subseteq {"invoice", "product"} /\ untold' \in BOOLEAN
      /\ "invoice" \in stale' <=> "invoice" \in stale
  BY <1>2, <1>3, <1>4, ShortageWritten
<1>6. Told!TypeOK'
  BY <1>2, <1>3, <1>4, <1>5 DEF NoticesInv, Told!TypeOK, Tellers, Happened
<1>7. InvoiceTold'
  BY <1>2, <1>3, <1>4, <1>5 DEF NoticesInv, InvoiceTold
<1> QED BY <1>3, <1>4, <1>5, <1>6, <1>7 DEF NoticesInv

\* A task that fails, begins a sweep or ends one is about no event.
LEMMA TellerIdle ==
  ASSUME Told!NoticesShape, NoticesInv, NEW t \in Tasks,
         Told!Fail(t) \/ Told!Sweep(t) \/ Told!EndSweep(t)
  PROVE  NoticesInv'
<1>1. PICK r \in Tellers : /\ teller' = [teller EXCEPT ![t] = r] /\ r.event = 0 /\ Telling(r)
                           /\ r.pc # "stock"
  <2>1. CASE Told!Fail(t) \/ Told!EndSweep(t)
    BY <2>1, TellerResting DEF Told!Fail, Told!EndSweep, Telling
  <2>2. CASE Told!Sweep(t)
    <3>1. PICK these \in SUBSET (Told!Reminders \cup Told!Shortages) :
            teller' = [teller EXCEPT ![t] = [Told!Idle EXCEPT !.pc = "sweep", !.read = these]]
      <4>1. (IF owing /\ due # "early" THEN {due} ELSE {}) \cup
                             (IF level # "ok" THEN {level} ELSE {}) \in SUBSET (Told!Reminders \cup Told!Shortages)
        BY DEF NoticesInv, Told!TypeOK, Told!Reminders, Told!Shortages
      <4> QED BY <2>2, <4>1, Zenon DEF Told!Sweep
    <3>2. PICK r : r = [Told!Idle EXCEPT !.pc = "sweep", !.read = these]
      OBVIOUS
    <3>3. r \in Tellers /\ r.pc = "sweep" /\ r.event = 0 /\ r.read = these
      BY <3>2, Zenon DEF Told!Idle, Tellers, Told!Notice
    <3> QED BY <3>1, <3>2, <3>3, Zenon DEF Telling
  <2> QED BY <2>1, <2>2
<1>2. /\ UNCHANGED <<owing, due, level, event, unnamed, untold, made, open, sending, pushed,
                     unsent, outgrown, stale, changes>>
      /\ sweeps' \in 0..MaxSweeps /\ glitches' \in 0..NoticeFaults
  BY TellerTypes DEF Told!Fail, Told!Sweep, Told!EndSweep, Told!world, Told!rows, Told!phones,
         Told!bounds, Told!NoticesShape
<1>3. teller' \in [Tasks -> Tellers] /\ TellersSound'
      /\ \A u \in Tasks \ {t} : teller'[u] = teller[u]
  BY <1>1, <1>2, TellerMoves, Zenon
<1>4. ASSUME NEW k, Told!ToCome(k) PROVE Told!ToCome(k)'
  <2>1. \A e \in Happenings : /\ event[e].kind = k /\ ~event[e].done
                              /\ teller[t].event = e => teller[t].pc = "project"
           => event'[e] = event[e] /\ (r.event = e => r.pc = "project")
    BY <1>1, <1>2 DEF Told!NoticesShape
  <2>2. teller \in [Tasks -> Tellers] /\ teller' = [teller EXCEPT ![t] = r]
    BY <1>1, TellerTypes
  <2> QED BY <1>4, <2>1, <2>2, StillToCome, Zenon
<1>5. Told!TypeOK'
  BY <1>2, <1>3, TellerTypes DEF NoticesInv, Told!TypeOK, Tellers
<1>6. PushingLevel => PushingLevel' \/ Told!ToCome("stock")'
  <2> SUFFICES ASSUME NEW u \in Tasks, teller[u].pc = "stock", teller[u].read = {level}
               PROVE  PushingLevel' \/ Told!ToCome("stock")'
    BY DEF PushingLevel
  <2>1. CASE u # t
    BY <1>2, <1>3, <2>1 DEF PushingLevel
  <2>2. CASE u = t
    <3>1. PICK e : e = teller[t].event
      OBVIOUS
    <3>2. e \in Happenings /\ e # 0 /\ event[e].kind = "stock" /\ ~event[e].done
      BY <2>2, <3>1, TellerTypes DEF NoticesInv, TellersSound, Telling, EventOf, Tellers
    <3>3. \A w \in Tasks : teller'[w].event # e
      BY <1>1, <1>3, <2>2, <3>1, <3>2, TellerTypes DEF NoticesInv, TellersSound
    <3> QED BY <1>2, <3>2, <3>3 DEF Told!ToCome
  <2> QED BY <2>1, <2>2
<1>7. InvoiceTold'
  BY <1>2, <1>4 DEF NoticesInv, InvoiceTold
<1>8. ProductTold'
  BY <1>2, <1>4, <1>6 DEF NoticesInv, ProductTold, Matched
<1>9. PushedOnce'
  BY <1>2 DEF NoticesInv, PushedOnce
<1> QED BY <1>3, <1>5, <1>7, <1>8, <1>9 DEF NoticesInv

LEMMA WriteNoticeStep ==
  ASSUME Told!NoticesShape, NoticesInv, NEW t \in Tasks, NEW n \in Told!Notice,
         Told!WriteNotice(t, n)
  PROVE  NoticesInv'
<1>1. PICK q \in Tellers : q = teller[t] /\ q.pc = "sweep" /\ q.event = 0 /\ n \in q.read
                           /\ q.read \subseteq Told!Reminders \cup Told!Shortages
  BY TellerTypes DEF Told!WriteNotice, NoticesInv, TellersSound, Telling
<1>2. PICK r : r = [q EXCEPT !.read = q.read \ {n}]
  BY Zenon
<1>3. r \in Tellers /\ r.pc = "sweep" /\ r.event = 0 /\ Telling(r)
  BY <1>1, <1>2 DEF Tellers, Telling
<1>4. /\ teller' = [teller EXCEPT ![t] = r] /\ Told!Upsert(n)
      /\ UNCHANGED <<owing, due, level, event, unnamed, sweeps, glitches, changes>>
  BY <1>1, <1>2 DEF Told!WriteNotice, Told!bounds
<1>5. /\ open' = open \cup {n} /\ open' \subseteq made' /\ made' \subseteq Told!Notice
      /\ sending' \subseteq made' /\ unsent' \subseteq made' /\ outgrown' \subseteq Told!Shortages
      /\ n \notin Told!Shortages => outgrown' = outgrown
      /\ n \in Told!Shortages => outgrown' = (open \cap Told!Shortages) \ {n}
      /\ pushed' \in [Told!Notice -> Nat] /\ PushedOnce'
  BY <1>4, UpsertStep
<1>6. teller' \in [Tasks -> Tellers] /\ TellersSound'
      /\ \A u \in Tasks \ {t} : teller'[u] = teller[u]
  BY <1>3, <1>4, TellerMoves, Zenon
<1>7. ASSUME NEW k, Told!ToCome(k) PROVE Told!ToCome(k)'
  <2>1. \A e \in Happenings : /\ event[e].kind = k /\ ~event[e].done
                              /\ teller[t].event = e => teller[t].pc = "project"
           => event'[e] = event[e] /\ (r.event = e => r.pc = "project")
    BY <1>3, <1>4 DEF Told!NoticesShape
  <2>2. teller \in [Tasks -> Tellers] /\ teller' = [teller EXCEPT ![t] = r]
    BY <1>4, TellerTypes
  <2> QED BY <1>7, <2>1, <2>2, StillToCome, Zenon
<1>8. InvoiceTold' /\ ProductTold' /\ stale' \subseteq {"invoice", "product"} /\ untold' \in BOOLEAN
  <2>1. CASE n \in Told!Shortages
    <3>1. Told!TellsProduct(n) /\ n \in Shelf /\ n # "ok" /\ n \notin Told!Reminders
      BY <2>1 DEF Told!WriteNotice, Told!Shortages, Shelf, Told!Reminders
    <3>2. /\ ProductTold' /\ stale' \subseteq {"invoice", "product"} /\ untold' \in BOOLEAN
          /\ "invoice" \in stale' <=> "invoice" \in stale
      BY <1>4, <1>5, <1>7, <2>1, <3>1, ShortageWritten
    <3>3. open' \cap Told!Reminders = open \cap Told!Reminders
      BY <1>5, <3>1
    <3> QED BY <1>4, <1>7, <3>2, <3>3 DEF NoticesInv, InvoiceTold
  <2>2. CASE n \notin Told!Shortages
    <3>1. /\ stale' = IF owing \/ Told!ToCome("paid") THEN stale ELSE stale \cup {"invoice"}
          /\ untold' = untold
      BY <2>2 DEF Told!WriteNotice
    <3>2. n \in Told!Reminders /\ n \notin Shelf
      BY <1>1, <2>2 DEF Told!Reminders, Shelf
    <3>3. InvoiceTold'
      BY <1>4, <1>7, <3>1 DEF InvoiceTold
    <3>4. (Matched => Matched') /\ (PushingLevel => PushingLevel')
      BY <1>1, <1>4, <1>5, <1>6, <2>2, <3>2, TellerTypes
         DEF Matched, PushingLevel, Told!Shortages, Shelf
    <3>5. ProductTold'
      BY <1>7, <3>1, <3>4 DEF NoticesInv, ProductTold
    <3> QED BY <3>1, <3>3, <3>5, TellerTypes
  <2> QED BY <2>1, <2>2
<1>9. Told!TypeOK'
  BY <1>4, <1>5, <1>6, <1>8 DEF NoticesInv, Told!TypeOK, Tellers
<1> QED BY <1>5, <1>6, <1>8, <1>9 DEF NoticesInv

\* A task that dies takes its event with it.
LEMMA TellerCrash ==
  ASSUME Told!NoticesShape, NoticesInv, NEW t \in Tasks, Told!Crash(t)
  PROVE  NoticesInv'
<1>1. /\ teller' = [teller EXCEPT ![t] = Told!Idle]
      /\ unnamed' = (unnamed \/ (Told!Abandons(t, "paid") /\ ~owing /\ ~Told!ToCome("paid")'))
      /\ untold' = (untold \/ (Told!Abandons(t, "stock") /\ ~Told!ToCome("stock")'))
      /\ UNCHANGED <<owing, due, level, made, open, sending, pushed, unsent, outgrown, stale,
                     sweeps, changes>>
      /\ glitches < NoticeFaults /\ glitches' = glitches + 1
  BY DEF Told!Crash, Told!rows, Told!phones
<1>2. unnamed' \in BOOLEAN /\ untold' \in BOOLEAN
  BY <1>1, Zenon
<1>3. glitches' \in 0..NoticeFaults
  BY <1>1, TellerTypes DEF Told!NoticesShape
<1>4. event' = [e \in Happenings |-> IF e = teller[t].event THEN [event[e] EXCEPT !.done = TRUE]
                                    ELSE event[e]]
  BY DEF Told!Crash
<1>5. teller[t].event = 0 \/ teller[t].event \in Happenings
  BY TellerTypes DEF Tellers
<1>6. CASE teller[t].event = 0
  <2>1. event' = event
    <3>1. \A e \in Happenings : event'[e] = event[e]
      BY <1>4, <1>6 DEF Told!NoticesShape
    <3> QED BY <1>4, <3>1, TellerTypes
  <2>2. /\ teller' \in [Tasks -> Tellers] /\ TellersSound'
        /\ \A u \in Tasks \ {t} : teller'[u] = teller[u]
    <3>1. Telling(Told!Idle)
      BY TellerResting DEF Telling
    <3> QED BY <1>1, <2>1, <3>1, TellerResting, TellerMoves, Zenon
  <2>3. ASSUME NEW k, Told!ToCome(k) PROVE Told!ToCome(k)'
    <3>1. \A e \in Happenings : /\ event[e].kind = k /\ ~event[e].done
                                /\ teller[t].event = e => teller[t].pc = "project"
             => event'[e] = event[e] /\ (Told!Idle.event = e => Told!Idle.pc = "project")
      BY <2>1, TellerResting DEF Told!NoticesShape
    <3>2. teller \in [Tasks -> Tellers] /\ teller' = [teller EXCEPT ![t] = Told!Idle]
      BY <1>1, TellerTypes
    <3> QED BY <2>3, <3>1, <3>2, StillToCome, Zenon
  <2>4. ~Told!Abandons(t, "paid") /\ ~Told!Abandons(t, "stock")
    BY <1>6 DEF Told!Abandons
  <2>5. teller[t].pc # "stock"
    BY <1>6 DEF NoticesInv, TellersSound, Telling
  <2>6. PushingLevel => PushingLevel'
    BY <1>1, <2>2, <2>5 DEF PushingLevel
  <2>7. Told!TypeOK'
    BY <1>1, <1>2, <1>3, <2>1, <2>2 DEF NoticesInv, Told!TypeOK, Tellers
  <2>8. InvoiceTold'
    BY <1>1, <2>3, Zenon DEF NoticesInv, InvoiceTold
  <2>9. ProductTold'
    BY <1>1, <2>3, <2>6, Zenon DEF NoticesInv, ProductTold, Matched
  <2>10. PushedOnce'
    BY <1>1 DEF NoticesInv, PushedOnce
  <2> QED BY <2>2, <2>7, <2>8, <2>9, <2>10 DEF NoticesInv
<1>7. CASE teller[t].event # 0 /\ teller[t].event \in Happenings
  <2>1. event' = [event EXCEPT ![teller[t].event].done = TRUE]
    BY <1>4, <1>7, TellerTypes
  <2>2. Told!Done(t)
    BY <1>1, <2>1 DEF Told!Done
  <2>3. /\ teller' \in [Tasks -> Tellers] /\ event' \in [Happenings -> Happened] /\ TellersSound'
        /\ \A u \in Tasks \ {t} : teller'[u] = teller[u]
        /\ \A k : (teller[t].pc # "project" \/ event[teller[t].event].kind # k) /\ Told!ToCome(k)
               => Told!ToCome(k)'
    BY <1>7, <2>2, TellerGoes
  <2>4. EventOf(teller[t], event[teller[t].event])
    BY <1>7 DEF NoticesInv, TellersSound
  <2>5. Told!TypeOK'
    BY <1>1, <1>2, <1>3, <2>3 DEF NoticesInv, Told!TypeOK, Tellers, Happened
  <2>6. InvoiceTold'
    <3>1. CASE Told!Abandons(t, "paid")
      <4>1. owing' = owing /\ (owing \/ unnamed' \/ Told!ToCome("paid")')
        BY <1>1, <3>1, Zenon
      <4> QED BY <4>1, Zenon DEF InvoiceTold
    <3>2. CASE ~Told!Abandons(t, "paid")
      <4>1. Told!ToCome("paid") => Told!ToCome("paid")'
        BY <1>7, <2>3, <3>2 DEF Told!Abandons
      <4> QED BY <1>1, <4>1, Zenon DEF NoticesInv, InvoiceTold
    <3> QED BY <3>1, <3>2
  <2>7. ProductTold'
    <3>1. CASE Told!Abandons(t, "stock")
      <4>1. untold' \/ Told!ToCome("stock")'
        BY <1>1, <3>1, Zenon
      <4> QED BY <4>1, Zenon DEF ProductTold
    <3>2. CASE ~Told!Abandons(t, "stock")
      <4>1. event[teller[t].event].kind # "stock"
        BY <1>7, <2>4, <3>2 DEF Told!Abandons, EventOf
      <4>2. Told!ToCome("stock") => Told!ToCome("stock")'
        BY <2>3, <4>1
      <4>3. PushingLevel => PushingLevel'
        BY <1>1, <2>3, <2>4, <4>1 DEF PushingLevel, EventOf
      <4> QED BY <1>1, <4>2, <4>3, Zenon DEF NoticesInv, ProductTold, Matched
    <3> QED BY <3>1, <3>2
  <2>8. PushedOnce'
    BY <1>1 DEF NoticesInv, PushedOnce
  <2> QED BY <2>3, <2>5, <2>6, <2>7, <2>8 DEF NoticesInv
<1> QED BY <1>5, <1>6, <1>7

LEMMA NoticesStep ==
  ASSUME Told!NoticesShape, NoticesInv, [Told!Next]_(Told!vars)
  PROVE  NoticesInv'
<1>1. CASE UNCHANGED Told!vars
  <2>1. UNCHANGED <<teller, event, made, open, sending, pushed, unsent, outgrown, stale, owing,
                    unnamed, untold, level, due, sweeps, glitches, changes>>
    BY <1>1 DEF Told!vars
  <2>2. Told!TypeOK'
    BY <2>1 DEF NoticesInv, Told!TypeOK
  <2>3. TellersSound'
    BY <2>1 DEF NoticesInv, TellersSound, Telling, EventOf
  <2>4. \A k : Told!ToCome(k)' = Told!ToCome(k)
    BY <2>1 DEF Told!ToCome
  <2>5. InvoiceTold' /\ ProductTold' /\ PushedOnce'
    BY <2>1, <2>4, Zenon
       DEF NoticesInv, InvoiceTold, ProductTold, PushedOnce, Matched, PushingLevel
  <2> QED BY <2>2, <2>3, <2>5 DEF NoticesInv
<1>2. CASE Told!Pay \/ Told!PayUnnamed \/ Told!OweAgain \/ Told!Age \/ \E to \in Told!Shortages \cup {"ok"} : Told!MoveStock(to) \/ Told!Receive(to)
  <2>1. Told!Shortages \cup {"ok"} = Shelf
    BY DEF Told!Shortages, Shelf
  <2> QED BY <1>2, <2>1, TellingStep
<1>3. CASE Told!Next
  BY <1>2, <1>3, NewsTaken, ProjectPaymentStep, TellPaymentStep, ReadStockStep, WriteStockStep,
     TellerIdle, WriteNoticeStep, PushStep, TellerCrash DEF Told!Next
<1> QED BY <1>1, <1>3

\* That part runs by itself.
LEMMA NoticesRuns ==
  ASSUME [Next]_vars, part' = "notices"
  PROVE  part = "notices" /\ [Told!Next]_(Told!vars)
<1>1. CASE UNCHANGED vars
  <2>1. part' = part /\ noticeVars' = noticeVars
    BY <1>1 DEF vars
  <2> QED BY <2>1 DEF noticeVars, Told!vars
<1>2. CASE Next
  BY <1>2 DEF Next, Only
<1> QED BY <1>1, <1>2

\* For any number of events, dispatchers and sweeps: once nothing is pending, nobody is reminded
\* of an invoice that was paid and the shelf's notice is that of its level, but for what the
\* named races leave, and no notice is pushed twice (notificationProjector,
\* notificationService).
THEOREM NoticesExactAlways == Spec => []NoticesExact
<1> DEFINE I == /\ part = "notices" => NoticesInv
<1>1. Init => I
  BY NoticesInit, ProtocolShape DEF Init
<1>2. I /\ [Next]_vars => I'
  <2> SUFFICES ASSUME I, [Next]_vars PROVE I'
    OBVIOUS
  <2>1. part' = "notices" => NoticesInv'
    <3> SUFFICES ASSUME part' = "notices" PROVE NoticesInv'
      OBVIOUS
    <3>1. part = "notices" /\ [Told!Next]_(Told!vars)
      BY NoticesRuns
    <3> QED BY <3>1, NoticesStep, ProtocolShape
  <2> QED BY <2>1
<1>3. I => NoticesExact
  BY NoticesGives, ProtocolShape DEF NoticesExact, NoticesInv
<1> QED BY <1>1, <1>2, <1>3, PTL DEF Spec

-----------------------------------------------------------------------------
\* The order sessions were used in, over those opened.
UseOrdered(R, O) ==
  /\ R \subseteq O \X O
  /\ \A i, j \in O : <<i, j>> \in R <=> i # j /\ <<j, i>> \notin R
  /\ \A i, j, k \in O : <<i, j>> \in R /\ <<j, k>> \in R => <<i, k>> \in R

SignSteps == {"idle", "create", "sign", "cap", "trim", "rotate", "answer", "send", "change", "use", "revoke"}
SignErrands == [pc : SignSteps, id : Logins \cup ResetCodes \cup {0}, read : Nat, stale : SUBSET Logins]
SessionRows == [state : {"none", "active", "revoked"}, token : Nat, password : Nat]

\* Requests that hand session i its next token, and those that spend code c.
SignsIn(q, i) == q.pc \in {"sign", "cap", "trim", "rotate", "answer"} /\ q.id = i
SpendsCode(q, c) == q.pc \in {"change", "use"} /\ q.id = c

SessionTypes ==
  /\ session \in [Logins -> SessionRows] /\ held \in [Logins -> Nat] /\ password \in Nat
  /\ code \in [ResetCodes -> {"none", "live", "used"}] /\ signing \in [Requests -> SignErrands]
  /\ signed \in 0..SessionRequests /\ overlapped \subseteq Logins /\ astray \subseteq Logins
  /\ spent \in [ResetCodes -> Nat] /\ doubled \subseteq ResetCodes
  /\ UseOrdered(recent, Signed!Opened)

\* What a request knows of its session: it is open, and its device has nothing before the
\* answer of the sign-in.
SignInsSound ==
  /\ \A s \in Requests :
       /\ signing[s].pc \in {"sign", "cap", "trim", "rotate", "answer"} => signing[s].id \in Signed!Opened
       /\ signing[s].pc \in {"sign", "cap", "trim"} => held[signing[s].id] = 0
       /\ signing[s].pc = "trim" => signing[s].stale \subseteq Signed!Opened
       /\ signing[s].pc \in {"change", "use"} => signing[s].id \in ResetCodes
  /\ \A s, z \in Requests :
       /\ signing[s].pc \in {"sign", "cap", "trim"} /\ SignsIn(signing[z], signing[s].id)
       => s = z
  /\ \A i \in Logins \ Signed!Opened : held[i] = 0 /\ session[i].token = 0

\* The device of a session has its token, or one request is about to hand it over.
TokenInHand(q, i) ==
  IF q.pc \in {"sign", "rotate"} THEN held[i] = session[i].token ELSE q.read = session[i].token
TokenSound(i) ==
  /\ \A s, z \in Requests : SignsIn(signing[s], i) /\ SignsIn(signing[z], i) => s = z
  /\ \A s \in Requests : SignsIn(signing[s], i) => TokenInHand(signing[s], i)
  /\ held[i] = session[i].token \/ \E s \in Requests : SignsIn(signing[s], i)
TokensSound == \A i \in Logins : i \in astray \/ TokenSound(i)

\* A session opened with a password since changed is about to be signed out.
PasswordsSound ==
  \A i \in Signed!Active : \/ session[i].password = password \/ i \in overlapped
                           \/ \E s \in Requests : signing[s].pc \in {"use", "revoke"}

\* A code that changed the password is used, or about to be by the request it served.
ResetSound(c) ==
  /\ \A s, z \in Requests : SpendsCode(signing[s], c) /\ SpendsCode(signing[z], c) => s = z
  /\ spent[c] <= 1
  /\ \A s \in Requests : signing[s].pc = "change" /\ signing[s].id = c => spent[c] = 0
  /\ \/ spent[c] = 0 \/ code[c] = "used"
     \/ \E s \in Requests : signing[s].pc = "use" /\ signing[s].id = c
ResetsSound == \A c \in ResetCodes : c \in doubled \/ ResetSound(c)

\* Sessions that no request is about to revoke fit the cap, but for the sign-ins that have
\* not looked at it yet.
DoomedSessions == {i \in Logins : \E s \in Requests : signing[s].pc = "trim" /\ i \in signing[s].stale}
Arriving == {s \in Requests : signing[s].pc \in {"sign", "cap"}}
CapSound == Cardinality(Signed!Active \ DoomedSessions) <= SessionCap + Cardinality(Arriving)

SessionsInv ==
  SessionTypes /\ SignInsSound /\ TokensSound /\ PasswordsSound /\ ResetsSound /\ CapSound

\* Sets are counted in the module as they are here.
LEMMA SessionsCounted == \A S : Signed!Cardinality(S) = Cardinality(S)
BY DEF Signed!Cardinality, Cardinality

LEMMA SessionsFinite ==
  ASSUME Signed!SessionsShape
  PROVE  IsFiniteSet(Logins) /\ IsFiniteSet(Requests) /\ SessionCap \in Nat
BY Zenon DEF Signed!SessionsShape, Signed!IsFiniteSet, IsFiniteSet

LEMMA SessionsInit == ASSUME Signed!SessionsShape, Signed!Init PROVE SessionsInv
<1>1. Signed!Opened = {} /\ Signed!Active = {} /\ Arriving = {} /\ Cardinality({}) = 0
  BY FS_EmptySet
     DEF Signed!Init, Signed!Opened, Signed!Active, Arriving, Signed!Idle, Signed!NoSession
<1>2. Signed!Idle \in SignErrands /\ Signed!NoSession \in SessionRows
  BY DEF Signed!Idle, Signed!NoSession, SignErrands, SessionRows, SignSteps
<1>3. UseOrdered(recent, Signed!Opened)
  BY <1>1 DEF UseOrdered, Signed!Init
<1>4. SessionTypes
  BY <1>2, <1>3 DEF SessionTypes, Signed!Init, Signed!SessionsShape
<1>5. SignInsSound
  BY DEF SignInsSound, Signed!Init, Signed!Idle, Signed!NoSession
<1>6. TokensSound
  BY DEF TokensSound, TokenSound, TokenInHand, SignsIn, Signed!Init, Signed!Idle,
         Signed!NoSession
<1>7. PasswordsSound
  BY <1>1 DEF PasswordsSound
<1>8. ResetsSound
  BY DEF ResetsSound, ResetSound, SpendsCode, Signed!Init, Signed!Idle
<1>9. CapSound
  <2>1. Signed!Active \ DoomedSessions = {}
    BY <1>1
  <2> QED BY <1>1, <2>1 DEF CapSound, Signed!SessionsShape
<1> QED BY <1>4, <1>5, <1>6, <1>7, <1>8, <1>9 DEF SessionsInv

LEMMA SessionSets ==
  ASSUME Signed!SessionsShape
  PROVE  /\ IsFiniteSet(Signed!Active) /\ IsFiniteSet(Signed!Active \ DoomedSessions) /\ IsFiniteSet(Arriving)
         /\ Cardinality(Signed!Active) \in Nat /\ Cardinality(Signed!Active \ DoomedSessions) \in Nat
         /\ Cardinality(Arriving) \in Nat
<1>1. Signed!Active \subseteq Logins /\ Signed!Active \ DoomedSessions \subseteq Logins /\ Arriving \subseteq Requests
  BY DEF Signed!Active, Arriving
<1> QED BY <1>1, SessionsFinite, FS_Subset, FS_CardinalityType

LEMMA SessionsGive == ASSUME Signed!SessionsShape, SessionsInv PROVE Signed!TypeOK /\ Signed!SessionsSound
<1>1. Signed!TypeOK
  BY DEF SessionsInv, SessionTypes, UseOrdered, Signed!TypeOK, SessionRows, SignErrands,
         SignSteps
<1>2. ASSUME Signed!Quiet PROVE Cardinality(Signed!Active) <= SessionCap
  <2>1. DoomedSessions = {} /\ Arriving = {}
    BY <1>2 DEF Signed!Quiet, Signed!At, DoomedSessions, Arriving
  <2>2. Cardinality(Signed!Active) <= SessionCap + Cardinality({}) /\ Cardinality({}) = 0
    BY <2>1, FS_EmptySet DEF SessionsInv, CapSound
  <2> QED BY <2>2, SessionSets DEF Signed!SessionsShape
<1>3. ASSUME Signed!Quiet, NEW i \in Signed!Active PROVE session[i].password = password \/ i \in overlapped
  BY <1>3 DEF Signed!Quiet, Signed!At, SessionsInv, PasswordsSound
<1>4. ASSUME Signed!Quiet, NEW i \in Signed!Active PROVE held[i] = session[i].token \/ i \in astray
  BY <1>4 DEF Signed!Quiet, Signed!At, SessionsInv, TokensSound, TokenSound, SignsIn,
         Signed!Active
<1>5. \A c \in ResetCodes : spent[c] <= 1 \/ c \in doubled
  BY DEF SessionsInv, ResetsSound, ResetSound
<1>6. Signed!Cardinality(Signed!Active) = Cardinality(Signed!Active)
  BY SessionsCounted
<1> QED BY <1>1, <1>2, <1>3, <1>4, <1>5, <1>6 DEF Signed!SessionsSound

\* A session used now comes after all others.
UsedLast(R, O, i) == {e \in R : e[1] # i} \cup ((O \ {i}) \X {i})
LEMMA OrderKept ==
  ASSUME NEW R, NEW O, NEW i, UseOrdered(R, O)
  PROVE  UseOrdered(UsedLast(R, O, i), O \cup {i})
<1>1. PICK T : T = UsedLast(R, O, i)
  OBVIOUS
<1>2. \A j, k : <<j, k>> \in T <=> \/ <<j, k>> \in R /\ j # i
                                   \/ j \in O /\ j # i /\ k = i
  BY <1>1 DEF UsedLast
<1>3. \A j, k : <<j, k>> \in R => j \in O /\ k \in O
  BY DEF UseOrdered
<1>4. T \subseteq (O \cup {i}) \X (O \cup {i})
  BY <1>1 DEF UsedLast, UseOrdered
<1>5. \A j, k \in O \cup {i} : <<j, k>> \in T <=> j # k /\ <<k, j>> \notin T
  BY <1>2, <1>3, Zenon DEF UseOrdered
<1>6. \A j, k, l \in O \cup {i} : <<j, k>> \in T /\ <<k, l>> \in T => <<j, l>> \in T
  BY <1>2, <1>3 DEF UseOrdered
<1> QED BY <1>1, <1>4, <1>5, <1>6 DEF UseOrdered

\* Of ordered sessions, those with fewer than n fresher ones are n at most.
LEMMA FreshestFit ==
  ASSUME NEW R, NEW O, UseOrdered(R, O), NEW A \in SUBSET O, IsFiniteSet(A), NEW n \in Nat
  PROVE  Cardinality({i \in A : Cardinality({j \in A : <<i, j>> \in R}) < n}) <= n
<1> DEFINE Newer(i) == {j \in A : <<i, j>> \in R}
           K == {i \in A : Cardinality(Newer(i)) < n}
<1>1. \A i : IsFiniteSet(Newer(i)) /\ Cardinality(Newer(i)) \in Nat
  BY FS_Subset, FS_CardinalityType, Zenon
<1>2. PICK f : f = [i \in K |-> Cardinality(Newer(i))]
  BY Zenon
<1>3. ASSUME NEW i \in K, NEW j \in K, <<i, j>> \in R PROVE f[j] < f[i]
  <2>1. Newer(j) \subseteq Newer(i) /\ j \in Newer(i) /\ j \notin Newer(j)
    BY <1>3 DEF UseOrdered
  <2>2. PICK S, T : S = Newer(i) /\ T = Newer(j)
    OBVIOUS
  <2>3. IsFiniteSet(S) /\ T \subseteq S /\ T # S
    BY <1>1, <2>1, <2>2, Zenon
  <2>4. Cardinality(T) <= Cardinality(S) /\ Cardinality(T) # Cardinality(S)
    BY <2>3, FS_Subset
  <2>5. f[i] = Cardinality(S) /\ f[j] = Cardinality(T)
    BY <1>2, <2>2
  <2>6. Cardinality(S) \in Nat /\ Cardinality(T) \in Nat
    BY <1>1, <2>2, Zenon
  <2> QED BY <2>4, <2>5, <2>6
<1>4. \A i \in K : f[i] \in Nat /\ f[i] < n /\ f[i] \in 0..(n - 1)
  <2> SUFFICES ASSUME NEW i \in K PROVE f[i] \in Nat /\ f[i] < n /\ f[i] \in 0..(n - 1)
    OBVIOUS
  <2>1. PICK c \in Nat : c = Cardinality(Newer(i)) /\ c < n
    BY <1>1, Zenon
  <2>2. f[i] = c
    BY <1>2, <2>1
  <2> QED BY <2>1, <2>2
<1>5. f \in [K -> 0..(n - 1)]
  BY <1>2, <1>4
<1>6. \A i, j \in K : f[i] = f[j] => i = j
  <2> SUFFICES ASSUME NEW i \in K, NEW j \in K, f[i] = f[j], i # j PROVE FALSE
    OBVIOUS
  <2>1. <<i, j>> \in R \/ <<j, i>> \in R
    BY DEF UseOrdered
  <2>2. f[i] \in Nat /\ f[j] \in Nat
    BY <1>4
  <2> QED BY <1>3, <2>1, <2>2
<1>7. f \in Injection(K, 0..(n - 1))
  BY <1>5, <1>6 DEF Injection, IsInjective
<1>8. IsFiniteSet(0..(n - 1)) /\ Cardinality(0..(n - 1)) = n
  BY FS_Interval
<1>9. Cardinality(K) <= Cardinality(0..(n - 1))
  BY <1>7, <1>8, FS_Injection
<1> QED BY <1>8, <1>9


\* Actions that leave each part of the invariant as it was.
LEMMA ArrivalsKept ==
  ASSUME SessionsInv, NEW s \in Requests, NEW r \in SignErrands, Signed!Go(s, r),
         signing[s].pc \notin {"sign", "cap", "trim"}, r.pc \notin {"sign", "cap", "trim"}
  PROVE  DoomedSessions' = DoomedSessions /\ Arriving' = Arriving
BY DEF Signed!Go, DoomedSessions, Arriving, SessionsInv, SessionTypes

LEMMA CapKept ==
  ASSUME Signed!SessionsShape, SessionsInv, Signed!Active' \ DoomedSessions' \subseteq Signed!Active \ DoomedSessions,
         Arriving \subseteq Arriving'
  PROVE  CapSound'
<1>1. PICK A, A2, B, B2 : /\ A = Signed!Active \ DoomedSessions /\ A2 = Signed!Active' \ DoomedSessions'
                          /\ B = Arriving /\ B2 = Arriving'
  BY Zenon
<1>2. A2 \subseteq A /\ B \subseteq B2 /\ B2 \subseteq Requests /\ IsFiniteSet(Requests)
  BY <1>1, SessionsFinite DEF Arriving
<1>3. IsFiniteSet(A) /\ Cardinality(A) \in Nat /\ Cardinality(B) \in Nat
  BY <1>1, SessionSets
<1>4. Cardinality(A2) <= Cardinality(A) /\ Cardinality(A2) \in Nat
  BY <1>2, <1>3, FS_Subset, FS_CardinalityType
<1>5. Cardinality(B) <= Cardinality(B2) /\ Cardinality(B2) \in Nat
  BY <1>2, FS_Subset, FS_CardinalityType
<1>6. Cardinality(A) <= SessionCap + Cardinality(B)
  BY <1>1 DEF SessionsInv, CapSound
<1>7. Cardinality(A2) <= SessionCap + Cardinality(B2)
  BY <1>3, <1>4, <1>5, <1>6 DEF Signed!SessionsShape
<1>8. CapSound' <=> Cardinality(Signed!Active' \ DoomedSessions') <= SessionCap + Cardinality(Arriving')
  BY DEF CapSound
<1> QED BY <1>1, <1>7, <1>8

LEMMA TokenKept ==
  ASSUME SessionTypes, NEW s \in Requests, NEW r \in SignErrands, Signed!Go(s, r), NEW i \in Logins,
         ~SignsIn(signing[s], i), ~SignsIn(r, i), TokenSound(i),
         session'[i].token = session[i].token, held'[i] = held[i]
  PROVE  TokenSound(i)'
<1>1. \A z \in Requests : z # s => signing'[z] = signing[z]
  BY DEF Signed!Go, SessionTypes
<1>2. signing'[s] = r
  BY DEF Signed!Go, SessionTypes
<1>3. \A z \in Requests : SignsIn(signing'[z], i) <=> SignsIn(signing[z], i)
  BY <1>1, <1>2 DEF SignsIn
<1>4. \A z \in Requests : SignsIn(signing[z], i) => signing'[z] = signing[z]
  BY <1>1 DEF SignsIn
<1> QED BY <1>3, <1>4 DEF TokenSound, TokenInHand

LEMMA ResetKept ==
  ASSUME SessionTypes, NEW s \in Requests, NEW r \in SignErrands, Signed!Go(s, r), NEW c \in ResetCodes,
         ~SpendsCode(signing[s], c), ~SpendsCode(r, c), ResetSound(c),
         spent'[c] = spent[c], code[c] = "used" => code'[c] = "used"
  PROVE  ResetSound(c)'
<1>1. \A z \in Requests : z # s => signing'[z] = signing[z]
  BY DEF Signed!Go, SessionTypes
<1>2. signing'[s] = r
  BY DEF Signed!Go, SessionTypes
<1>3. \A z \in Requests : SpendsCode(signing'[z], c) <=> SpendsCode(signing[z], c)
  BY <1>1, <1>2 DEF SpendsCode
<1>4. \A z \in Requests : SpendsCode(signing[z], c) => signing'[z] = signing[z]
  BY <1>1 DEF SpendsCode
<1>5. \A z \in Requests : /\ signing'[z].pc = "change" /\ signing'[z].id = c
                          => signing[z].pc = "change" /\ signing[z].id = c
  BY <1>1, <1>2 DEF SpendsCode
<1>6. \A z \in Requests : /\ signing[z].pc = "use" /\ signing[z].id = c
                          => signing'[z].pc = "use" /\ signing'[z].id = c
  BY <1>1, <1>2 DEF SpendsCode
<1> QED BY <1>3, <1>5, <1>6 DEF ResetSound

LEMMA PasswordsKept ==
  ASSUME SessionsInv, NEW s \in Requests, NEW r \in SignErrands, Signed!Go(s, r),
         signing[s].pc \notin {"use", "revoke"} \/ r.pc \in {"use", "revoke"},
         Signed!Active' \subseteq Signed!Active, \A i \in Signed!Active' : session'[i].password = session[i].password,
         password' = password, overlapped' = overlapped
  PROVE  PasswordsSound'
<1>1. \A z \in Requests : signing[z].pc \in {"use", "revoke"}
                       => signing'[z].pc \in {"use", "revoke"}
  BY DEF Signed!Go, SessionsInv, SessionTypes
<1> QED BY <1>1 DEF SessionsInv, PasswordsSound

LEMMA SignInsKept ==
  ASSUME SessionsInv, NEW s \in Requests, NEW r \in SignErrands, Signed!Go(s, r),
         r.pc \notin {"sign", "cap", "trim"}, r.pc \in {"rotate", "answer"} => r.id \in Signed!Opened,
         r.pc \in {"change", "use"} => r.id \in ResetCodes,
         \A i \in Logins : SignsIn(r, i)
                           => \/ SignsIn(signing[s], i)
                              \/ \A z \in Requests : signing[z].pc \in {"sign", "cap", "trim"}
                                                  => signing[z].id # i,
         Signed!Opened' = Signed!Opened, held' = held,
         \A i \in Logins \ Signed!Opened : session'[i].token = session[i].token
  PROVE  SignInsSound'
<1>1. \A z \in Requests : z # s => signing'[z] = signing[z]
  BY DEF Signed!Go, SessionsInv, SessionTypes
<1>2. signing'[s] = r
  BY DEF Signed!Go, SessionsInv, SessionTypes
<1>3. Signed!Opened \subseteq Logins
  BY DEF Signed!Opened
<1>4. SignInsSound
  BY DEF SessionsInv
<1>5. ASSUME NEW x \in Requests
      PROVE  /\ signing'[x].pc \in {"sign", "cap", "trim", "rotate", "answer"}
                => signing'[x].id \in Signed!Opened'
             /\ signing'[x].pc \in {"sign", "cap", "trim"} => held'[signing'[x].id] = 0
             /\ signing'[x].pc = "trim" => signing'[x].stale \subseteq Signed!Opened'
             /\ signing'[x].pc \in {"change", "use"} => signing'[x].id \in ResetCodes
  <2>1. CASE x = s
    BY <1>2, <2>1
  <2>2. CASE x # s
    BY <1>1, <1>4, <2>2 DEF SignInsSound
  <2> QED BY <2>1, <2>2
<1>6. ASSUME NEW x \in Requests, NEW z \in Requests, signing'[x].pc \in {"sign", "cap", "trim"},
             SignsIn(signing'[z], signing'[x].id)
      PROVE  x = z
  <2>1. x # s /\ signing'[x] = signing[x] /\ signing[x].id \in Logins
    BY <1>1, <1>2, <1>3, <1>4, <1>6 DEF SignInsSound
  <2>2. CASE z = s
    <3>1. SignsIn(signing[s], signing[x].id)
      BY <1>2, <1>6, <2>1, <2>2
    <3> QED BY <1>4, <1>6, <2>1, <2>2, <3>1 DEF SignInsSound
  <2>3. CASE z # s
    BY <1>1, <1>4, <1>6, <2>1, <2>3 DEF SignInsSound
  <2> QED BY <2>2, <2>3
<1>7. \A i \in Logins \ Signed!Opened' : held'[i] = 0 /\ session'[i].token = 0
  BY <1>4 DEF SignInsSound
<1> QED BY <1>5, <1>6, <1>7 DEF SignInsSound

LEMMA StartGives ==
  ASSUME Signed!SessionsShape, SessionsInv, NEW s \in Requests, NEW r \in SignErrands, Signed!Start(s, r)
  PROVE  signing[s].pc = "idle" /\ Signed!Go(s, r) /\ signed' \in 0..SessionRequests
<1>1. signing[s].pc = "idle" /\ Signed!Go(s, r) /\ signed < SessionRequests /\ signed' = signed + 1
  BY DEF Signed!Start, Signed!At
<1>2. signed \in 0..SessionRequests
  BY DEF SessionsInv, SessionTypes
<1> QED BY <1>1, <1>2 DEF Signed!SessionsShape

\* Every step keeps the invariant.
LEMMA LoginKeeps == ASSUME Signed!SessionsShape, SessionsInv, NEW s \in Requests, Signed!Login(s) PROVE SessionsInv'
<1>1. PICK r : r = [Signed!Idle EXCEPT !.pc = "create", !.read = password]
  OBVIOUS
<1>2. /\ r \in SignErrands /\ r.pc = "create" /\ signing[s].pc = "idle"
      /\ Signed!Go(s, r) /\ signed' \in 0..SessionRequests
  <2>1. r \in SignErrands /\ r.pc = "create"
    BY <1>1, Zenon DEF SessionsInv, SessionTypes, Signed!Idle, SignErrands, SignSteps
  <2>2. Signed!Start(s, r)
    BY <1>1 DEF Signed!Login
  <2> QED BY <2>1, <2>2, StartGives
<1>3. UNCHANGED <<session, recent, held, Signed!users, Signed!ghosts>>
  BY DEF Signed!Login
<1>4. UNCHANGED <<session, recent, held, password, code, overlapped, astray, spent, doubled>>
      /\ Signed!Opened' = Signed!Opened /\ Signed!Active' = Signed!Active
  BY <1>3 DEF Signed!users, Signed!ghosts, Signed!Opened, Signed!Active
<1>5. SessionTypes'
  BY <1>2, <1>4 DEF SessionsInv, SessionTypes, Signed!Go
<1>6. SignInsSound'
  BY <1>2, <1>4, SignInsKept DEF SignsIn
<1>7. TokensSound'
  <2> SUFFICES ASSUME NEW i \in Logins, i \notin astray PROVE TokenSound(i)'
    BY <1>4 DEF TokensSound
  <2>1. TokenSound(i) /\ SessionTypes
    BY DEF SessionsInv, TokensSound
  <2> QED BY <1>2, <1>4, <2>1, TokenKept DEF SignsIn
<1>8. PasswordsSound'
  BY <1>2, <1>4, PasswordsKept
<1>9. ResetsSound'
  <2> SUFFICES ASSUME NEW c \in ResetCodes, c \notin doubled PROVE ResetSound(c)'
    BY <1>4 DEF ResetsSound
  <2>1. ResetSound(c) /\ SessionTypes
    BY DEF SessionsInv, ResetsSound
  <2> QED BY <1>2, <1>4, <2>1, ResetKept DEF SpendsCode
<1>10. CapSound'
  <2>1. DoomedSessions' = DoomedSessions /\ Arriving' = Arriving
    BY <1>2, ArrivalsKept
  <2> QED BY <1>4, <2>1, CapKept
<1> QED BY <1>5, <1>6, <1>7, <1>8, <1>9, <1>10 DEF SessionsInv

LEMMA CreateKeeps == ASSUME Signed!SessionsShape, SessionsInv, NEW s \in Requests, Signed!Create(s) PROVE SessionsInv'
<1>1. PICK i \in Logins :
        /\ session[i].state = "none"
        /\ session' = [session EXCEPT ![i] =
                         [state |-> "active", token |-> 0, password |-> signing[s].read]]
        /\ recent' = Signed!Touched(i)
        /\ Signed!Go(s, [signing[s] EXCEPT !.pc = "sign", !.id = i])
        /\ overlapped' = IF signing[s].read # password THEN overlapped \cup {i} ELSE overlapped
  BY Zenon DEF Signed!Create
<1>2. PICK q \in SignErrands : q = signing[s] /\ q.pc = "create"
  BY DEF Signed!Create, Signed!At, SessionsInv, SessionTypes
<1>3. PICK r : r = [q EXCEPT !.pc = "sign", !.id = i]
  OBVIOUS
<1>4. r \in SignErrands /\ r.pc = "sign" /\ r.id = i /\ Signed!Go(s, r)
  BY <1>1, <1>2, <1>3, Zenon DEF SignErrands, SignSteps
<1>5. UNCHANGED <<held, password, code, signed, astray, spent, doubled>>
  BY DEF Signed!Create, Signed!users
<1>6. PICK row \in SessionRows : /\ row = [state |-> "active", token |-> 0, password |-> q.read]
                                 /\ session' = [session EXCEPT ![i] = row]
  BY <1>1, <1>2, Zenon DEF SessionRows, SignErrands
<1>7. /\ session'[i] = row /\ row.state = "active" /\ row.token = 0 /\ row.password = q.read
      /\ \A j \in Logins : j # i => session'[j] = session[j]
  BY <1>6 DEF SessionsInv, SessionTypes
<1>8. Signed!Opened' = Signed!Opened \cup {i} /\ Signed!Active' = Signed!Active \cup {i} /\ i \notin Signed!Opened
  BY <1>1, <1>7 DEF Signed!Opened, Signed!Active
<1>9. \A z \in Requests : signing'[z] = IF z = s THEN r ELSE signing[z]
  BY <1>4 DEF Signed!Go, SessionsInv, SessionTypes
<1>10. SessionTypes'
  <2>1. UseOrdered(recent', Signed!Opened')
    <3>1. recent' = UsedLast(recent, Signed!Opened, i)
      BY <1>1 DEF Signed!Touched, UsedLast
    <3>2. UseOrdered(UsedLast(recent, Signed!Opened, i), Signed!Opened \cup {i})
      BY OrderKept DEF SessionsInv, SessionTypes
    <3> QED BY <1>8, <3>1, <3>2
  <2>2. session' \in [Logins -> SessionRows] /\ overlapped' \subseteq Logins
    BY <1>1, <1>6 DEF SessionsInv, SessionTypes
  <2> QED BY <1>4, <1>5, <2>1, <2>2 DEF SessionsInv, SessionTypes, Signed!Go
<1>11. \A z \in Requests : ~SignsIn(signing[z], i)
  BY <1>8 DEF SessionsInv, SignInsSound, SignsIn
<1>12. SignInsSound'
  <2>1. SignInsSound /\ held[i] = 0
    BY <1>8 DEF SessionsInv, SignInsSound
  <2>2. ASSUME NEW x \in Requests
        PROVE  /\ signing'[x].pc \in {"sign", "cap", "trim", "rotate", "answer"}
                  => signing'[x].id \in Signed!Opened'
               /\ signing'[x].pc \in {"sign", "cap", "trim"} => held'[signing'[x].id] = 0
               /\ signing'[x].pc = "trim" => signing'[x].stale \subseteq Signed!Opened'
               /\ signing'[x].pc \in {"change", "use"} => signing'[x].id \in ResetCodes
    BY <1>4, <1>5, <1>8, <1>9, <2>1 DEF SignInsSound
  <2>3. ASSUME NEW x \in Requests, NEW z \in Requests, signing'[x].pc \in {"sign", "cap", "trim"},
               SignsIn(signing'[z], signing'[x].id)
        PROVE  x = z
    BY <1>4, <1>9, <1>11, <2>1, <2>3 DEF SignInsSound, SignsIn
  <2>4. \A j \in Logins \ Signed!Opened' : held'[j] = 0 /\ session'[j].token = 0
    BY <1>5, <1>7, <1>8, <2>1 DEF SignInsSound
  <2> QED BY <2>2, <2>3, <2>4 DEF SignInsSound
<1>13. TokensSound'
  <2> SUFFICES ASSUME NEW j \in Logins, j \notin astray PROVE TokenSound(j)'
    BY <1>5 DEF TokensSound
  <2>1. TokenSound(j) /\ SessionTypes
    BY DEF SessionsInv, TokensSound
  <2>2. CASE j = i
    <3>1. \A z \in Requests : SignsIn(signing'[z], i) <=> z = s
      BY <1>4, <1>9, <1>11 DEF SignsIn
    <3>2. held'[i] = 0 /\ session'[i].token = 0
      BY <1>5, <1>7, <1>8 DEF SessionsInv, SignInsSound
    <3> QED BY <1>4, <1>9, <2>2, <3>1, <3>2 DEF TokenSound, TokenInHand
  <2>3. CASE j # i
    BY <1>2, <1>4, <1>5, <1>7, <2>1, <2>3, TokenKept DEF SignsIn
  <2> QED BY <2>2, <2>3
<1>14. PasswordsSound'
  <2>1. \A z \in Requests : signing[z].pc \in {"use", "revoke"}
                         => signing'[z].pc \in {"use", "revoke"}
    BY <1>2, <1>9
  <2>2. session'[i].password = password' \/ i \in overlapped'
    BY <1>1, <1>2, <1>5, <1>7
  <2>3. overlapped \subseteq overlapped' /\ \A j \in Signed!Active : j # i
    BY <1>1, <1>8 DEF Signed!Active, Signed!Opened
  <2> QED BY <1>5, <1>7, <1>8, <2>1, <2>2, <2>3 DEF SessionsInv, PasswordsSound, Signed!Active
<1>15. ResetsSound'
  <2> SUFFICES ASSUME NEW c \in ResetCodes, c \notin doubled PROVE ResetSound(c)'
    BY <1>5 DEF ResetsSound
  <2>1. ResetSound(c) /\ SessionTypes
    BY DEF SessionsInv, ResetsSound
  <2> QED BY <1>2, <1>4, <1>5, <2>1, ResetKept DEF SpendsCode
<1>16. CapSound'
  <2>1. DoomedSessions' = DoomedSessions /\ Arriving' = Arriving \cup {s} /\ s \notin Arriving
    BY <1>2, <1>4, <1>9 DEF DoomedSessions, Arriving
  <2>2. PICK A, B : A = Signed!Active \ DoomedSessions /\ B = Arriving
    BY Zenon
  <2>3. /\ IsFiniteSet(A) /\ IsFiniteSet(B) /\ Cardinality(A) \in Nat /\ Cardinality(B) \in Nat
        /\ Cardinality(A) <= SessionCap + Cardinality(B)
    BY <2>2, SessionSets DEF SessionsInv, CapSound
  <2>4. Signed!Active' \ DoomedSessions' \subseteq A \cup {i}
    BY <1>8, <2>1, <2>2
  <2>5. IsFiniteSet(A \cup {i}) /\ Cardinality(A \cup {i}) <= Cardinality(A) + 1
    <3>1. /\ IsFiniteSet(A \cup {i})
          /\ Cardinality(A \cup {i}) = IF i \in A THEN Cardinality(A) ELSE Cardinality(A) + 1
      BY <2>3, FS_AddElement, Zenon
    <3> QED BY <2>3, <3>1
  <2>6. Cardinality(Signed!Active' \ DoomedSessions') <= Cardinality(A \cup {i})
        /\ Cardinality(Signed!Active' \ DoomedSessions') \in Nat /\ Cardinality(A \cup {i}) \in Nat
    BY <2>4, <2>5, FS_Subset, FS_CardinalityType
  <2>7. Cardinality(B \cup {s}) = Cardinality(B) + 1
    BY <2>1, <2>2, <2>3, FS_AddElement, Zenon
  <2>8. Cardinality(Signed!Active' \ DoomedSessions') <= SessionCap + Cardinality(B \cup {s})
    BY <2>3, <2>5, <2>6, <2>7 DEF Signed!SessionsShape
  <2> QED BY <2>1, <2>2, <2>8 DEF CapSound
<1> QED BY <1>10, <1>12, <1>13, <1>14, <1>15, <1>16 DEF SessionsInv

LEMMA SignKeeps == ASSUME Signed!SessionsShape, SessionsInv, NEW s \in Requests, Signed!Sign(s) PROVE SessionsInv'
<1>1. PICK q \in SignErrands : q = signing[s] /\ q.pc = "sign"
  BY DEF Signed!Sign, Signed!At, SessionsInv, SessionTypes
<1>2. PICK i \in Logins : i = q.id /\ i \in Signed!Opened
  BY <1>1 DEF SessionsInv, SignInsSound, Signed!Opened
<1>3. PICK r : r = [q EXCEPT !.pc = "cap", !.read = 1]
  OBVIOUS
<1>4. r \in SignErrands /\ r.pc = "cap" /\ r.id = i /\ r.read = 1 /\ Signed!Go(s, r)
  BY <1>1, <1>2, <1>3, Zenon DEF SignErrands, SignSteps, Signed!Sign
<1>5. UNCHANGED <<recent, held, password, code, signed, overlapped, astray, spent, doubled>>
  BY DEF Signed!Sign, Signed!users, Signed!ghosts
<1>6. session' = [session EXCEPT ![i].token = 1]
  BY <1>1, <1>2 DEF Signed!Sign
<1>7. /\ session'[i].token = 1 /\ session' \in [Logins -> SessionRows]
      /\ \A j \in Logins : j # i => session'[j] = session[j]
      /\ \A j \in Logins : /\ session'[j].state = session[j].state
                           /\ session'[j].password = session[j].password
  BY <1>6 DEF SessionsInv, SessionTypes, SessionRows
<1>8. Signed!Opened' = Signed!Opened /\ Signed!Active' = Signed!Active
  BY <1>7 DEF Signed!Opened, Signed!Active
<1>9. \A z \in Requests : signing'[z] = IF z = s THEN r ELSE signing[z]
  BY <1>4 DEF Signed!Go, SessionsInv, SessionTypes
<1>10. SessionTypes'
  BY <1>4, <1>5, <1>7, <1>8 DEF SessionsInv, SessionTypes, Signed!Go
<1>11. \A z \in Requests : SignsIn(signing[z], i) <=> z = s
  <2>1. SignsIn(signing[s], i)
    BY <1>1, <1>2 DEF SignsIn
  <2> QED BY <1>1, <1>2, <2>1 DEF SessionsInv, SignInsSound
<1>12. SignInsSound'
  <2>1. SignInsSound /\ held[i] = 0
    BY <1>1, <1>2 DEF SessionsInv, SignInsSound
  <2>2. ASSUME NEW x \in Requests
        PROVE  /\ signing'[x].pc \in {"sign", "cap", "trim", "rotate", "answer"}
                  => signing'[x].id \in Signed!Opened'
               /\ signing'[x].pc \in {"sign", "cap", "trim"} => held'[signing'[x].id] = 0
               /\ signing'[x].pc = "trim" => signing'[x].stale \subseteq Signed!Opened'
               /\ signing'[x].pc \in {"change", "use"} => signing'[x].id \in ResetCodes
    BY <1>2, <1>4, <1>5, <1>8, <1>9, <2>1 DEF SignInsSound
  <2>3. ASSUME NEW x \in Requests, NEW z \in Requests, signing'[x].pc \in {"sign", "cap", "trim"},
               SignsIn(signing'[z], signing'[x].id)
        PROVE  x = z
    BY <1>4, <1>9, <1>11, <2>1, <2>3 DEF SignInsSound, SignsIn
  <2>4. \A j \in Logins \ Signed!Opened' : held'[j] = 0 /\ session'[j].token = 0
    BY <1>2, <1>5, <1>7, <1>8, <2>1 DEF SignInsSound
  <2> QED BY <2>2, <2>3, <2>4 DEF SignInsSound
<1>13. TokensSound'
  <2> SUFFICES ASSUME NEW j \in Logins, j \notin astray PROVE TokenSound(j)'
    BY <1>5 DEF TokensSound
  <2>1. TokenSound(j) /\ SessionTypes
    BY DEF SessionsInv, TokensSound
  <2>2. CASE j = i
    <3>1. \A z \in Requests : SignsIn(signing'[z], i) <=> z = s
      BY <1>4, <1>9, <1>11 DEF SignsIn
    <3> QED BY <1>4, <1>7, <1>9, <2>2, <3>1 DEF TokenSound, TokenInHand
  <2>3. CASE j # i
    BY <1>1, <1>2, <1>4, <1>5, <1>7, <2>1, <2>3, TokenKept DEF SignsIn
  <2> QED BY <2>2, <2>3
<1>14. PasswordsSound'
  BY <1>1, <1>4, <1>5, <1>7, <1>8, PasswordsKept DEF Signed!Active
<1>15. ResetsSound'
  <2> SUFFICES ASSUME NEW c \in ResetCodes, c \notin doubled PROVE ResetSound(c)'
    BY <1>5 DEF ResetsSound
  <2>1. ResetSound(c) /\ SessionTypes
    BY DEF SessionsInv, ResetsSound
  <2> QED BY <1>1, <1>4, <1>5, <2>1, ResetKept DEF SpendsCode
<1>16. CapSound'
  <2>1. DoomedSessions' = DoomedSessions /\ Arriving' = Arriving
    BY <1>1, <1>4, <1>9 DEF DoomedSessions, Arriving
  <2> QED BY <1>8, <2>1, CapKept
<1> QED BY <1>10, <1>12, <1>13, <1>14, <1>15, <1>16 DEF SessionsInv

\* The sessions the cap leaves are within it.
LEMMA CapLeaves ==
  ASSUME Signed!SessionsShape, SessionsInv
  PROVE  IsFiniteSet(Signed!Active \ Signed!OverCap) /\ Cardinality(Signed!Active \ Signed!OverCap) <= SessionCap
<1>1. PICK A, R : A = Signed!Active /\ R = recent
  OBVIOUS
<1>2. UseOrdered(R, Signed!Opened) /\ A \subseteq Signed!Opened /\ IsFiniteSet(A)
  BY <1>1, SessionSets DEF SessionsInv, SessionTypes, Signed!Active, Signed!Opened
<1>3. Cardinality({i \in A : Cardinality({j \in A : <<i, j>> \in R}) < SessionCap}) <= SessionCap
  BY <1>2, FreshestFit DEF Signed!SessionsShape
<1>4. \A i \in A : IsFiniteSet({j \in A : <<i, j>> \in R})
                   /\ Cardinality({j \in A : <<i, j>> \in R}) \in Nat
  BY <1>2, FS_Subset, FS_CardinalityType, Zenon
<1>5. \A i \in A : Cardinality({j \in A : <<i, j>> \in R}) < SessionCap
                   <=> ~(Cardinality({j \in A : <<i, j>> \in R}) >= SessionCap)
  BY <1>4 DEF Signed!SessionsShape
<1>6. Signed!OverCap = {i \in A : Cardinality({j \in A : <<i, j>> \in R}) >= SessionCap}
  <2>1. Signed!OverCap = {i \in A : Signed!Cardinality({j \in A : <<i, j>> \in R}) >= SessionCap}
    BY <1>1 DEF Signed!OverCap, Signed!Stale, Signed!Fresher
  <2> QED BY <2>1, SessionsCounted
<1>7. A \ Signed!OverCap = {i \in A : Cardinality({j \in A : <<i, j>> \in R}) < SessionCap}
  BY <1>5, <1>6
<1>8. IsFiniteSet(A \ Signed!OverCap)
  BY <1>2, FS_Subset
<1> QED BY <1>1, <1>3, <1>7, <1>8, Zenon

LEMMA FindStaleKeeps ==
  ASSUME Signed!SessionsShape, SessionsInv, NEW s \in Requests, Signed!FindStale(s) PROVE SessionsInv'
<1>1. PICK q \in SignErrands : q = signing[s] /\ q.pc = "cap"
  BY DEF Signed!FindStale, Signed!At, SessionsInv, SessionTypes
<1>2. PICK i \in Logins : i = q.id /\ i \in Signed!Opened
  BY <1>1 DEF SessionsInv, SignInsSound, Signed!Opened
<1>3. Signed!OverCap \in SUBSET Logins /\ Signed!OverCap \subseteq Signed!Opened
  BY DEF Signed!OverCap, Signed!Stale, Signed!Active, Signed!Opened
<1>4. PICK r : /\ r = IF Signed!OverCap = {} THEN [q EXCEPT !.pc = "answer"]
                      ELSE [q EXCEPT !.pc = "trim", !.stale = Signed!OverCap]
               /\ Signed!Go(s, r)
  BY <1>1 DEF Signed!FindStale, Signed!Goto
<1>5. /\ r \in SignErrands /\ r.id = i /\ r.read = q.read
      /\ \/ r.pc = "answer" /\ Signed!OverCap = {}
         \/ r.pc = "trim" /\ r.stale = Signed!OverCap
  BY <1>2, <1>3, <1>4, Zenon DEF SignErrands, SignSteps
<1>6. UNCHANGED <<session, recent, held, password, code, signed,
                  overlapped, astray, spent, doubled>>
      /\ Signed!Opened' = Signed!Opened /\ Signed!Active' = Signed!Active
  BY DEF Signed!FindStale, Signed!users, Signed!ghosts, Signed!Opened, Signed!Active
<1>7. \A z \in Requests : signing'[z] = IF z = s THEN r ELSE signing[z]
  BY <1>4, <1>5 DEF Signed!Go, SessionsInv, SessionTypes
<1>8. SessionTypes'
  BY <1>4, <1>5, <1>6 DEF SessionsInv, SessionTypes, Signed!Go
<1>9. \A z \in Requests : SignsIn(signing[z], i) <=> z = s
  <2>1. SignsIn(signing[s], i)
    BY <1>1, <1>2 DEF SignsIn
  <2> QED BY <1>1, <1>2, <2>1 DEF SessionsInv, SignInsSound
<1>10. SignInsSound'
  <2>1. SignInsSound /\ held[i] = 0
    BY <1>1, <1>2 DEF SessionsInv, SignInsSound
  <2>2. ASSUME NEW x \in Requests
        PROVE  /\ signing'[x].pc \in {"sign", "cap", "trim", "rotate", "answer"}
                  => signing'[x].id \in Signed!Opened'
               /\ signing'[x].pc \in {"sign", "cap", "trim"} => held'[signing'[x].id] = 0
               /\ signing'[x].pc = "trim" => signing'[x].stale \subseteq Signed!Opened'
               /\ signing'[x].pc \in {"change", "use"} => signing'[x].id \in ResetCodes
    BY <1>2, <1>3, <1>5, <1>6, <1>7, <2>1 DEF SignInsSound
  <2>3. ASSUME NEW x \in Requests, NEW z \in Requests, signing'[x].pc \in {"sign", "cap", "trim"},
               SignsIn(signing'[z], signing'[x].id)
        PROVE  x = z
    BY <1>5, <1>7, <1>9, <2>1, <2>3 DEF SignInsSound, SignsIn
  <2>4. \A j \in Logins \ Signed!Opened' : held'[j] = 0 /\ session'[j].token = 0
    BY <1>6, <2>1 DEF SignInsSound
  <2> QED BY <2>2, <2>3, <2>4 DEF SignInsSound
<1>11. TokensSound'
  <2> SUFFICES ASSUME NEW j \in Logins, j \notin astray PROVE TokenSound(j)'
    BY <1>6 DEF TokensSound
  <2>1. TokenSound(j) /\ SessionTypes
    BY DEF SessionsInv, TokensSound
  <2>2. CASE j = i
    <3>1. \A z \in Requests : SignsIn(signing'[z], i) <=> z = s
      BY <1>5, <1>7, <1>9 DEF SignsIn
    <3>2. q.read = session[i].token
      BY <1>1, <1>9, <2>1, <2>2 DEF TokenSound, TokenInHand
    <3> QED BY <1>5, <1>6, <1>7, <2>2, <3>1, <3>2 DEF TokenSound, TokenInHand
  <2>3. CASE j # i
    BY <1>1, <1>2, <1>4, <1>5, <1>6, <2>1, <2>3, TokenKept, Zenon DEF SignsIn
  <2> QED BY <2>2, <2>3
<1>12. PasswordsSound'
  BY <1>1, <1>4, <1>5, <1>6, PasswordsKept
<1>13. ResetsSound'
  <2> SUFFICES ASSUME NEW c \in ResetCodes, c \notin doubled PROVE ResetSound(c)'
    BY <1>6 DEF ResetsSound
  <2>1. ResetSound(c) /\ SessionTypes
    BY DEF SessionsInv, ResetsSound
  <2> QED BY <1>1, <1>4, <1>5, <1>6, <2>1, ResetKept, Zenon DEF SpendsCode
<1>14. CapSound'
  <2>1. Signed!Active' \ DoomedSessions' \subseteq Signed!Active \ Signed!OverCap
    <3>1. Signed!OverCap \subseteq DoomedSessions'
      <4>1. ASSUME NEW j \in Signed!OverCap PROVE signing'[s].pc = "trim" /\ j \in signing'[s].stale
        BY <1>5, <1>7, <4>1
      <4> QED BY <1>3, <4>1 DEF DoomedSessions
    <3> QED BY <1>6, <3>1
  <2>2. IsFiniteSet(Arriving') /\ Cardinality(Arriving') \in Nat
    <3>1. Arriving' \subseteq Requests
      BY DEF Arriving
    <3> QED BY <3>1, SessionsFinite, FS_Subset, FS_CardinalityType
  <2>3. IsFiniteSet(Signed!Active \ Signed!OverCap) /\ Cardinality(Signed!Active \ Signed!OverCap) <= SessionCap
    BY CapLeaves
  <2>4. PICK A, B, C : A = Signed!Active \ Signed!OverCap /\ B = Signed!Active' \ DoomedSessions' /\ C = Arriving'
    BY Zenon
  <2>5. Cardinality(B) <= Cardinality(A) /\ Cardinality(B) \in Nat /\ Cardinality(A) \in Nat
    BY <2>1, <2>3, <2>4, FS_Subset, FS_CardinalityType
  <2>6. Cardinality(A) <= SessionCap /\ Cardinality(C) \in Nat
    BY <2>2, <2>3, <2>4
  <2>7. Cardinality(B) <= SessionCap + Cardinality(C)
    BY <2>5, <2>6 DEF Signed!SessionsShape
  <2> QED BY <2>4, <2>7 DEF CapSound
<1> QED BY <1>8, <1>10, <1>11, <1>12, <1>13, <1>14 DEF SessionsInv

LEMMA RevokeThoseGives ==
  ASSUME SessionTypes, NEW ids, ids \subseteq Signed!Opened, session' = Signed!RevokeThose(ids)
  PROVE  /\ session' \in [Logins -> SessionRows] /\ Signed!Opened' = Signed!Opened /\ Signed!Active' = Signed!Active \ ids
         /\ \A i \in Logins : /\ session'[i].token = session[i].token
                              /\ session'[i].password = session[i].password
<1>1. \A i \in Logins : session'[i] = IF i \in ids THEN [session[i] EXCEPT !.state = "revoked"]
                                      ELSE session[i]
  BY DEF Signed!RevokeThose
<1>2. \A i \in Logins : session[i] \in SessionRows
  BY DEF SessionTypes
<1>3. \A i \in Logins : /\ session'[i] \in SessionRows
                        /\ session'[i].token = session[i].token
                        /\ session'[i].password = session[i].password
                        /\ session'[i].state = IF i \in ids THEN "revoked" ELSE session[i].state
  BY <1>1, <1>2, Zenon DEF SessionRows
<1>4. session' \in [Logins -> SessionRows]
  BY <1>3 DEF Signed!RevokeThose
<1>5. Signed!Opened' = Signed!Opened /\ Signed!Active' = Signed!Active \ ids
  BY <1>3 DEF Signed!Opened, Signed!Active
<1> QED BY <1>3, <1>4, <1>5

LEMMA TrimKeeps == ASSUME Signed!SessionsShape, SessionsInv, NEW s \in Requests, Signed!Trim(s) PROVE SessionsInv'
<1>1. PICK q \in SignErrands : q = signing[s] /\ q.pc = "trim"
  BY DEF Signed!Trim, Signed!At, SessionsInv, SessionTypes
<1>2. PICK i \in Logins : i = q.id /\ i \in Signed!Opened
  BY <1>1 DEF SessionsInv, SignInsSound, Signed!Opened
<1>3. q.stale \subseteq Signed!Opened /\ SessionTypes
  BY <1>1 DEF SessionsInv, SignInsSound
<1>4. PICK r : r = [q EXCEPT !.pc = "answer"]
  BY Zenon
<1>5. r \in SignErrands /\ r.pc = "answer" /\ r.id = i /\ r.read = q.read /\ Signed!Go(s, r)
  BY <1>1, <1>2, <1>4 DEF SignErrands, SignSteps, Signed!Trim, Signed!Goto
<1>6. UNCHANGED <<recent, held, password, code, signed, overlapped, astray, spent, doubled>>
  BY DEF Signed!Trim, Signed!users, Signed!ghosts
<1>7. /\ session' \in [Logins -> SessionRows] /\ Signed!Opened' = Signed!Opened /\ Signed!Active' = Signed!Active \ q.stale
      /\ \A j \in Logins : /\ session'[j].token = session[j].token
                           /\ session'[j].password = session[j].password
  <2>1. session' = Signed!RevokeThose(q.stale)
    BY <1>1 DEF Signed!Trim
  <2> QED BY <1>3, <2>1, RevokeThoseGives
<1>8. \A z \in Requests : signing'[z] = IF z = s THEN r ELSE signing[z]
  BY <1>5 DEF Signed!Go, SessionsInv, SessionTypes
<1>9. SessionTypes'
  BY <1>3, <1>5, <1>6, <1>7 DEF SessionTypes, Signed!Go
<1>10. SignInsSound'
  <2>1. \A j \in Logins : SignsIn(r, j) => SignsIn(signing[s], j)
    BY <1>1, <1>2, <1>5 DEF SignsIn
  <2> QED BY <1>2, <1>5, <1>6, <1>7, <2>1, SignInsKept
<1>11. TokensSound'
  <2> SUFFICES ASSUME NEW j \in Logins, j \notin astray PROVE TokenSound(j)'
    BY <1>6 DEF TokensSound
  <2>1. TokenSound(j)
    BY DEF SessionsInv, TokensSound
  <2>2. CASE j = i
    <3>1. \A z \in Requests : SignsIn(signing[z], i) <=> z = s
      BY <1>1, <1>2, <2>1, <2>2 DEF SignsIn, TokenSound
    <3>2. \A z \in Requests : SignsIn(signing'[z], i) <=> z = s
      BY <1>5, <1>8, <3>1 DEF SignsIn
    <3>3. q.read = session[i].token
      BY <1>1, <2>1, <2>2, <3>1 DEF TokenSound, TokenInHand
    <3> QED BY <1>5, <1>7, <1>8, <2>2, <3>2, <3>3 DEF TokenSound, TokenInHand
  <2>3. CASE j # i
    BY <1>1, <1>2, <1>3, <1>5, <1>6, <1>7, <2>1, <2>3, TokenKept DEF SignsIn
  <2> QED BY <2>2, <2>3
<1>12. PasswordsSound'
  BY <1>1, <1>5, <1>6, <1>7, PasswordsKept DEF Signed!Active
<1>13. ResetsSound'
  <2> SUFFICES ASSUME NEW c \in ResetCodes, c \notin doubled PROVE ResetSound(c)'
    BY <1>6 DEF ResetsSound
  <2>1. ResetSound(c)
    BY DEF SessionsInv, ResetsSound
  <2> QED BY <1>1, <1>3, <1>5, <1>6, <2>1, ResetKept DEF SpendsCode
<1>14. CapSound'
  <2>1. Arriving' = Arriving
    BY <1>1, <1>5, <1>8 DEF Arriving
  <2>2. DoomedSessions \subseteq DoomedSessions' \cup q.stale
    <3> SUFFICES ASSUME NEW j \in Logins, NEW z \in Requests, signing[z].pc = "trim",
                        j \in signing[z].stale, j \notin q.stale
                 PROVE  j \in DoomedSessions'
      BY DEF DoomedSessions
    <3>1. signing'[z] = signing[z]
      BY <1>1, <1>8
    <3> QED BY <3>1 DEF DoomedSessions
  <2> QED BY <1>7, <2>1, <2>2, CapKept
<1> QED BY <1>9, <1>10, <1>11, <1>12, <1>13, <1>14 DEF SessionsInv

LEMMA AnswerKeeps ==
  ASSUME Signed!SessionsShape, SessionsInv, NEW s \in Requests, NEW arrives \in BOOLEAN, Signed!Answer(s, arrives)
  PROVE  SessionsInv'
<1>1. PICK q \in SignErrands : q = signing[s] /\ q.pc = "answer"
  BY DEF Signed!Answer, Signed!At, SessionsInv, SessionTypes
<1>2. PICK i \in Logins : i = q.id /\ i \in Signed!Opened
  BY <1>1 DEF SessionsInv, SignInsSound, Signed!Opened
<1>3. PICK r \in SignErrands : r = Signed!Idle
  BY Zenon DEF Signed!Idle, SignErrands, SignSteps
<1>4. r.pc = "idle" /\ Signed!Go(s, r)
  BY <1>3 DEF Signed!Answer, Signed!Idle
<1>5. UNCHANGED <<session, recent, password, code, signed, overlapped, spent, doubled>>
      /\ Signed!Opened' = Signed!Opened /\ Signed!Active' = Signed!Active
  BY DEF Signed!Answer, Signed!users, Signed!Opened, Signed!Active
<1>6. /\ held' = IF arrives THEN [held EXCEPT ![i] = q.read] ELSE held
      /\ astray' = IF arrives THEN astray ELSE astray \cup {i}
  BY <1>1, <1>2 DEF Signed!Answer
<1>7. /\ held' \in [Logins -> Nat] /\ astray' \subseteq Logins /\ astray \subseteq astray'
      /\ \A j \in Logins : j # i => held'[j] = held[j]
      /\ i \notin astray' => held'[i] = q.read
  BY <1>6 DEF SessionsInv, SessionTypes, SignErrands
<1>8. \A z \in Requests : signing'[z] = IF z = s THEN r ELSE signing[z]
  BY <1>4 DEF Signed!Go, SessionsInv, SessionTypes
<1>9. SessionTypes'
  BY <1>4, <1>5, <1>7 DEF SessionsInv, SessionTypes, Signed!Go
<1>10. SignInsSound'
  <2>1. SignInsSound /\ SignsIn(q, i)
    BY <1>1, <1>2 DEF SessionsInv, SignsIn
  <2>2. \A z \in Requests : signing[z].pc \in {"sign", "cap", "trim"} => signing[z].id # i
    BY <1>1, <2>1 DEF SignInsSound
  <2>3. ASSUME NEW x \in Requests
        PROVE  /\ signing'[x].pc \in {"sign", "cap", "trim", "rotate", "answer"}
                  => signing'[x].id \in Signed!Opened'
               /\ signing'[x].pc \in {"sign", "cap", "trim"} => held'[signing'[x].id] = 0
               /\ signing'[x].pc = "trim" => signing'[x].stale \subseteq Signed!Opened'
               /\ signing'[x].pc \in {"change", "use"} => signing'[x].id \in ResetCodes
    <3>1. Signed!Opened \subseteq Logins
      BY DEF Signed!Opened
    <3> QED BY <1>4, <1>5, <1>7, <1>8, <2>1, <2>2, <3>1 DEF SignInsSound
  <2>4. ASSUME NEW x \in Requests, NEW z \in Requests, signing'[x].pc \in {"sign", "cap", "trim"},
               SignsIn(signing'[z], signing'[x].id)
        PROVE  x = z
    BY <1>4, <1>8, <2>1, <2>4 DEF SignInsSound, SignsIn
  <2>5. \A j \in Logins \ Signed!Opened' : held'[j] = 0 /\ session'[j].token = 0
    BY <1>2, <1>5, <1>7, <2>1 DEF SignInsSound
  <2> QED BY <2>3, <2>4, <2>5 DEF SignInsSound
<1>11. TokensSound'
  <2> SUFFICES ASSUME NEW j \in Logins, j \notin astray' PROVE TokenSound(j)'
    BY DEF TokensSound
  <2>1. TokenSound(j) /\ SessionTypes
    BY <1>7 DEF SessionsInv, TokensSound
  <2>2. CASE j = i
    <3>1. \A z \in Requests : SignsIn(signing[z], i) <=> z = s
      BY <1>1, <1>2, <2>1, <2>2 DEF SignsIn, TokenSound
    <3>2. \A z \in Requests : ~SignsIn(signing'[z], i)
      BY <1>4, <1>8, <3>1 DEF SignsIn
    <3>3. q.read = session[i].token
      BY <1>1, <2>1, <2>2, <3>1 DEF TokenSound, TokenInHand
    <3>4. held'[i] = session'[i].token
      BY <1>5, <1>7, <2>2, <3>3
    <3> QED BY <2>2, <3>2, <3>4 DEF TokenSound
  <2>3. CASE j # i
    BY <1>1, <1>2, <1>4, <1>5, <1>7, <2>1, <2>3, TokenKept DEF SignsIn
  <2> QED BY <2>2, <2>3
<1>12. PasswordsSound'
  BY <1>1, <1>4, <1>5, PasswordsKept
<1>13. ResetsSound'
  <2> SUFFICES ASSUME NEW c \in ResetCodes, c \notin doubled PROVE ResetSound(c)'
    BY <1>5 DEF ResetsSound
  <2>1. ResetSound(c) /\ SessionTypes
    BY DEF SessionsInv, ResetsSound
  <2> QED BY <1>1, <1>4, <1>5, <2>1, ResetKept DEF SpendsCode
<1>14. CapSound'
  <2>1. DoomedSessions' = DoomedSessions /\ Arriving' = Arriving
    BY <1>1, <1>4, ArrivalsKept
  <2> QED BY <1>5, <2>1, CapKept
<1> QED BY <1>9, <1>10, <1>11, <1>12, <1>13, <1>14 DEF SessionsInv

LEMMA RefreshKeeps ==
  ASSUME Signed!SessionsShape, SessionsInv, NEW s \in Requests, NEW i \in Logins, Signed!Refresh(s, i)
  PROVE  SessionsInv'
<1>1. PICK r \in SignErrands : r = [Signed!Idle EXCEPT !.pc = "rotate", !.id = i]
  BY Zenon DEF Signed!Idle, SignErrands, SignSteps
<1>2. r.pc = "rotate" /\ r.id = i
  BY <1>1 DEF Signed!Idle
<1>3. signing[s].pc = "idle" /\ Signed!Go(s, r) /\ signed' \in 0..SessionRequests
  BY <1>1, StartGives DEF Signed!Refresh
<1>4. UNCHANGED <<session, recent, held, password, code, overlapped, spent, doubled>>
      /\ Signed!Opened' = Signed!Opened /\ Signed!Active' = Signed!Active
  BY DEF Signed!Refresh, Signed!users, Signed!Opened, Signed!Active
<1>5. i \in Signed!Opened /\ held[i] # 0 /\ held[i] = session[i].token
  BY DEF Signed!Refresh, Signed!Active, Signed!Opened
<1>6. \A z \in Requests : signing'[z] = IF z = s THEN r ELSE signing[z]
  BY <1>3 DEF Signed!Go, SessionsInv, SessionTypes
<1>7. astray' \subseteq Logins /\ astray \subseteq astray'
      /\ (i \notin astray' => Signed!Others(s, {"rotate", "answer"}, i) = {})
  BY DEF Signed!Refresh, SessionsInv, SessionTypes
<1>8. SessionTypes'
  BY <1>3, <1>4, <1>7 DEF SessionsInv, SessionTypes, Signed!Go
<1>9. \A z \in Requests : signing[z].pc \in {"sign", "cap", "trim"} => signing[z].id # i
  BY <1>5 DEF SessionsInv, SignInsSound
<1>10. SignInsSound'
  BY <1>2, <1>3, <1>4, <1>5, <1>9, SignInsKept DEF SignsIn
<1>11. TokensSound'
  <2> SUFFICES ASSUME NEW j \in Logins, j \notin astray' PROVE TokenSound(j)'
    BY DEF TokensSound
  <2>1. TokenSound(j) /\ SessionTypes
    BY <1>7 DEF SessionsInv, TokensSound
  <2>2. CASE j = i
    <3>1. \A z \in Requests : ~SignsIn(signing[z], i)
      BY <1>3, <1>7, <1>9, <2>2 DEF SignsIn, Signed!Others
    <3>2. \A z \in Requests : SignsIn(signing'[z], i) <=> z = s
      BY <1>2, <1>6, <3>1 DEF SignsIn
    <3> QED BY <1>2, <1>4, <1>5, <1>6, <2>2, <3>2 DEF TokenSound, TokenInHand
  <2>3. CASE j # i
    BY <1>2, <1>3, <1>4, <2>1, <2>3, TokenKept DEF SignsIn
  <2> QED BY <2>2, <2>3
<1>12. PasswordsSound'
  BY <1>3, <1>4, PasswordsKept
<1>13. ResetsSound'
  <2> SUFFICES ASSUME NEW c \in ResetCodes, c \notin doubled PROVE ResetSound(c)'
    BY <1>4 DEF ResetsSound
  <2>1. ResetSound(c) /\ SessionTypes
    BY DEF SessionsInv, ResetsSound
  <2> QED BY <1>2, <1>3, <1>4, <2>1, ResetKept DEF SpendsCode
<1>14. CapSound'
  <2>1. DoomedSessions' = DoomedSessions /\ Arriving' = Arriving
    BY <1>2, <1>3, ArrivalsKept
  <2> QED BY <1>4, <2>1, CapKept
<1> QED BY <1>8, <1>10, <1>11, <1>12, <1>13, <1>14 DEF SessionsInv

LEMMA RotateKeeps == ASSUME Signed!SessionsShape, SessionsInv, NEW s \in Requests, Signed!Rotate(s) PROVE SessionsInv'
<1>1. PICK q \in SignErrands : q = signing[s] /\ q.pc = "rotate"
  BY DEF Signed!Rotate, Signed!At, SessionsInv, SessionTypes
<1>2. PICK i \in Logins : i = q.id /\ i \in Signed!Opened
  BY <1>1 DEF SessionsInv, SignInsSound, Signed!Opened
<1>3. PICK token \in Nat : token = session[i].token + 1
  BY DEF SessionsInv, SessionTypes, SessionRows
<1>4. PICK r : r = [q EXCEPT !.pc = "answer", !.read = token]
  OBVIOUS
<1>5. r \in SignErrands /\ r.pc = "answer" /\ r.id = i /\ r.read = token /\ Signed!Go(s, r)
  BY <1>1, <1>2, <1>3, <1>4, Zenon DEF SignErrands, SignSteps, Signed!Rotate
<1>6. UNCHANGED <<held, password, code, signed, overlapped, astray, spent, doubled>>
  BY DEF Signed!Rotate, Signed!users, Signed!ghosts
<1>7. session' = [session EXCEPT ![i].token = token] /\ recent' = Signed!Touched(i)
  BY <1>1, <1>2, <1>3 DEF Signed!Rotate
<1>8. /\ session'[i].token = token /\ session' \in [Logins -> SessionRows]
      /\ \A j \in Logins : j # i => session'[j] = session[j]
      /\ \A j \in Logins : /\ session'[j].state = session[j].state
                           /\ session'[j].password = session[j].password
  BY <1>7 DEF SessionsInv, SessionTypes, SessionRows
<1>9. Signed!Opened' = Signed!Opened /\ Signed!Active' = Signed!Active /\ Signed!Opened \cup {i} = Signed!Opened
  BY <1>2, <1>8 DEF Signed!Opened, Signed!Active
<1>10. \A z \in Requests : signing'[z] = IF z = s THEN r ELSE signing[z]
  BY <1>5 DEF Signed!Go, SessionsInv, SessionTypes
<1>11. SessionTypes'
  <2>1. UseOrdered(recent', Signed!Opened')
    <3>1. recent' = UsedLast(recent, Signed!Opened, i)
      BY <1>7 DEF Signed!Touched, UsedLast
    <3>2. UseOrdered(UsedLast(recent, Signed!Opened, i), Signed!Opened \cup {i})
      BY OrderKept DEF SessionsInv, SessionTypes
    <3> QED BY <1>9, <3>1, <3>2
  <2> QED BY <1>5, <1>6, <1>8, <2>1 DEF SessionsInv, SessionTypes, Signed!Go
<1>12. SignInsSound'
  <2>1. \A j \in Logins : SignsIn(r, j) => SignsIn(signing[s], j)
    BY <1>1, <1>2, <1>5 DEF SignsIn
  <2> QED BY <1>2, <1>5, <1>6, <1>8, <1>9, <2>1, SignInsKept
<1>13. TokensSound'
  <2> SUFFICES ASSUME NEW j \in Logins, j \notin astray PROVE TokenSound(j)'
    BY <1>6 DEF TokensSound
  <2>1. TokenSound(j) /\ SessionTypes
    BY DEF SessionsInv, TokensSound
  <2>2. CASE j = i
    <3>1. \A z \in Requests : SignsIn(signing[z], i) <=> z = s
      BY <1>1, <1>2, <2>1, <2>2 DEF SignsIn, TokenSound
    <3>2. \A z \in Requests : SignsIn(signing'[z], i) <=> z = s
      BY <1>5, <1>10, <3>1 DEF SignsIn
    <3> QED BY <1>5, <1>8, <1>10, <2>2, <3>2 DEF TokenSound, TokenInHand
  <2>3. CASE j # i
    BY <1>1, <1>2, <1>5, <1>6, <1>8, <2>1, <2>3, TokenKept DEF SignsIn
  <2> QED BY <2>2, <2>3
<1>14. PasswordsSound'
  BY <1>1, <1>5, <1>6, <1>8, <1>9, PasswordsKept DEF Signed!Active
<1>15. ResetsSound'
  <2> SUFFICES ASSUME NEW c \in ResetCodes, c \notin doubled PROVE ResetSound(c)'
    BY <1>6 DEF ResetsSound
  <2>1. ResetSound(c) /\ SessionTypes
    BY DEF SessionsInv, ResetsSound
  <2> QED BY <1>1, <1>5, <1>6, <2>1, ResetKept DEF SpendsCode
<1>16. CapSound'
  <2>1. DoomedSessions' = DoomedSessions /\ Arriving' = Arriving
    BY <1>1, <1>5, ArrivalsKept
  <2> QED BY <1>9, <2>1, CapKept
<1> QED BY <1>11, <1>12, <1>13, <1>14, <1>15, <1>16 DEF SessionsInv

LEMMA UseKeeps == ASSUME Signed!SessionsShape, SessionsInv, NEW i \in Logins, Signed!Use(i) PROVE SessionsInv'
<1>1. UNCHANGED <<session, held, password, code, signing, signed, overlapped, astray, spent, doubled>>
      /\ Signed!Opened' = Signed!Opened /\ Signed!Active' = Signed!Active /\ Signed!Opened \cup {i} = Signed!Opened
  BY DEF Signed!Use, Signed!users, Signed!ghosts, Signed!Opened, Signed!Active
<1>2. UseOrdered(recent', Signed!Opened')
  <2>1. recent' = UsedLast(recent, Signed!Opened, i)
    BY DEF Signed!Use, Signed!Touched, UsedLast
  <2>2. UseOrdered(UsedLast(recent, Signed!Opened, i), Signed!Opened \cup {i})
    BY OrderKept DEF SessionsInv, SessionTypes
  <2> QED BY <1>1, <2>1, <2>2
<1>3. SessionTypes'
  BY <1>1, <1>2 DEF SessionsInv, SessionTypes
<1>4. SignInsSound' /\ TokensSound' /\ PasswordsSound' /\ ResetsSound'
  BY <1>1 DEF SessionsInv, SignInsSound, TokensSound, TokenSound, TokenInHand, PasswordsSound,
              ResetsSound, ResetSound
<1>5. CapSound'
  <2>1. DoomedSessions' = DoomedSessions /\ Arriving' = Arriving
    BY <1>1 DEF DoomedSessions, Arriving
  <2> QED BY <1>1, <2>1, CapKept
<1> QED BY <1>3, <1>4, <1>5 DEF SessionsInv

LEMMA RevokeKeeps == ASSUME Signed!SessionsShape, SessionsInv, NEW i \in Logins, Signed!Revoke(i) PROVE SessionsInv'
<1>1. UNCHANGED <<recent, held, password, code, signing, signed, overlapped, astray, spent, doubled>>
  BY DEF Signed!Revoke, Signed!users, Signed!ghosts
<1>2. /\ session' \in [Logins -> SessionRows] /\ Signed!Opened' = Signed!Opened /\ Signed!Active' \subseteq Signed!Active
      /\ \A j \in Logins : /\ session'[j].token = session[j].token
                           /\ session'[j].password = session[j].password
  <2>1. PICK ids : ids = {i}
    BY Zenon
  <2>2. ids \subseteq Signed!Opened /\ session' = Signed!RevokeThose(ids) /\ SessionTypes
    BY <2>1 DEF Signed!Revoke, Signed!Active, Signed!Opened, SessionsInv
  <2>3. Signed!Active' = Signed!Active \ ids
    BY <2>2, RevokeThoseGives
  <2> QED BY <2>2, <2>3, RevokeThoseGives
<1>3. SessionTypes'
  BY <1>1, <1>2 DEF SessionsInv, SessionTypes
<1>4. SignInsSound' /\ TokensSound' /\ ResetsSound'
  BY <1>1, <1>2 DEF SessionsInv, SignInsSound, TokensSound, TokenSound, TokenInHand,
         ResetsSound, ResetSound
<1>5. PasswordsSound'
  BY <1>1, <1>2 DEF SessionsInv, PasswordsSound, Signed!Active
<1>6. CapSound'
  <2>1. DoomedSessions' = DoomedSessions /\ Arriving' = Arriving
    BY <1>1 DEF DoomedSessions, Arriving
  <2> QED BY <1>2, <2>1, CapKept
<1> QED BY <1>3, <1>4, <1>5, <1>6 DEF SessionsInv

LEMMA AskResetKeeps ==
  ASSUME Signed!SessionsShape, SessionsInv, NEW s \in Requests, Signed!AskReset(s) PROVE SessionsInv'
<1>1. PICK r \in SignErrands : r = [Signed!Idle EXCEPT !.pc = "send"]
  BY Zenon DEF Signed!Idle, SignErrands, SignSteps
<1>2. r.pc = "send"
  BY <1>1 DEF Signed!Idle
<1>3. signing[s].pc = "idle" /\ Signed!Go(s, r) /\ signed' \in 0..SessionRequests
  BY <1>1, StartGives DEF Signed!AskReset
<1>4. UNCHANGED <<session, recent, held, password, overlapped, astray, spent, doubled>>
      /\ Signed!Opened' = Signed!Opened /\ Signed!Active' = Signed!Active
  BY DEF Signed!AskReset, Signed!ghosts, Signed!Opened, Signed!Active
<1>5. /\ code' \in [ResetCodes -> {"none", "live", "used"}]
      /\ \A c \in ResetCodes : code[c] = "used" => code'[c] = "used"
  BY DEF Signed!AskReset, SessionsInv, SessionTypes
<1>6. SessionTypes'
  BY <1>3, <1>4, <1>5 DEF SessionsInv, SessionTypes, Signed!Go
<1>7. SignInsSound'
  BY <1>2, <1>3, <1>4, SignInsKept DEF SignsIn
<1>8. TokensSound'
  <2> SUFFICES ASSUME NEW i \in Logins, i \notin astray PROVE TokenSound(i)'
    BY <1>4 DEF TokensSound
  <2>1. TokenSound(i) /\ SessionTypes
    BY DEF SessionsInv, TokensSound
  <2> QED BY <1>2, <1>3, <1>4, <2>1, TokenKept DEF SignsIn
<1>9. PasswordsSound'
  BY <1>3, <1>4, PasswordsKept
<1>10. ResetsSound'
  <2> SUFFICES ASSUME NEW c \in ResetCodes, c \notin doubled PROVE ResetSound(c)'
    BY <1>4 DEF ResetsSound
  <2>1. ResetSound(c) /\ SessionTypes
    BY DEF SessionsInv, ResetsSound
  <2> QED BY <1>2, <1>3, <1>4, <1>5, <2>1, ResetKept DEF SpendsCode
<1>11. CapSound'
  <2>1. DoomedSessions' = DoomedSessions /\ Arriving' = Arriving
    BY <1>2, <1>3, ArrivalsKept
  <2> QED BY <1>4, <2>1, CapKept
<1> QED BY <1>6, <1>7, <1>8, <1>9, <1>10, <1>11 DEF SessionsInv

LEMMA SendCodeKeeps ==
  ASSUME Signed!SessionsShape, SessionsInv, NEW s \in Requests, Signed!SendCode(s) PROVE SessionsInv'
<1>1. PICK r \in SignErrands : r = Signed!Idle
  BY Zenon DEF Signed!Idle, SignErrands, SignSteps
<1>2. r.pc = "idle" /\ signing[s].pc = "send" /\ Signed!Go(s, r)
  BY <1>1 DEF Signed!SendCode, Signed!At, Signed!Idle
<1>3. UNCHANGED <<session, recent, held, password, signed, overlapped, astray, spent>>
      /\ Signed!Opened' = Signed!Opened /\ Signed!Active' = Signed!Active
  BY DEF Signed!SendCode, Signed!Opened, Signed!Active
<1>4. /\ code' \in [ResetCodes -> {"none", "live", "used"}]
      /\ \A c \in ResetCodes : code[c] = "used" => code'[c] = "used"
      /\ doubled' \subseteq ResetCodes /\ doubled \subseteq doubled'
  BY DEF Signed!SendCode, SessionsInv, SessionTypes
<1>5. SessionTypes'
  BY <1>2, <1>3, <1>4 DEF SessionsInv, SessionTypes, Signed!Go
<1>6. SignInsSound'
  BY <1>2, <1>3, SignInsKept DEF SignsIn
<1>7. TokensSound'
  <2> SUFFICES ASSUME NEW i \in Logins, i \notin astray PROVE TokenSound(i)'
    BY <1>3 DEF TokensSound
  <2>1. TokenSound(i) /\ SessionTypes
    BY DEF SessionsInv, TokensSound
  <2> QED BY <1>2, <1>3, <2>1, TokenKept DEF SignsIn
<1>8. PasswordsSound'
  BY <1>2, <1>3, PasswordsKept
<1>9. ResetsSound'
  <2> SUFFICES ASSUME NEW c \in ResetCodes, c \notin doubled' PROVE ResetSound(c)'
    BY DEF ResetsSound
  <2>1. ResetSound(c) /\ SessionTypes
    BY <1>4 DEF SessionsInv, ResetsSound
  <2> QED BY <1>2, <1>3, <1>4, <2>1, ResetKept DEF SpendsCode
<1>10. CapSound'
  <2>1. DoomedSessions' = DoomedSessions /\ Arriving' = Arriving
    BY <1>2, ArrivalsKept
  <2> QED BY <1>3, <2>1, CapKept
<1> QED BY <1>5, <1>6, <1>7, <1>8, <1>9, <1>10 DEF SessionsInv

LEMMA ConfirmKeeps ==
  ASSUME Signed!SessionsShape, SessionsInv, NEW s \in Requests, NEW c \in ResetCodes, Signed!Confirm(s, c)
  PROVE  SessionsInv'
<1>1. PICK r \in SignErrands : r = [Signed!Idle EXCEPT !.pc = "change", !.id = c]
  BY Zenon DEF Signed!Idle, SignErrands, SignSteps
<1>2. r.pc = "change" /\ r.id = c
  BY <1>1 DEF Signed!Idle
<1>3. signing[s].pc = "idle" /\ Signed!Go(s, r) /\ signed' \in 0..SessionRequests
  BY <1>1, StartGives DEF Signed!Confirm
<1>4. UNCHANGED <<session, recent, held, password, code, overlapped, astray, spent>>
      /\ Signed!Opened' = Signed!Opened /\ Signed!Active' = Signed!Active
  BY DEF Signed!Confirm, Signed!users, Signed!Opened, Signed!Active
<1>5. /\ doubled' \subseteq ResetCodes /\ doubled \subseteq doubled' /\ code[c] = "live"
      /\ (c \notin doubled' => Signed!Others(s, {"change", "use"}, c) = {})
  BY DEF Signed!Confirm, Signed!Latest, SessionsInv, SessionTypes
<1>6. \A z \in Requests : signing'[z] = IF z = s THEN r ELSE signing[z]
  BY <1>3 DEF Signed!Go, SessionsInv, SessionTypes
<1>7. SessionTypes'
  BY <1>3, <1>4, <1>5 DEF SessionsInv, SessionTypes, Signed!Go
<1>8. SignInsSound'
  BY <1>2, <1>3, <1>4, SignInsKept DEF SignsIn
<1>9. TokensSound'
  <2> SUFFICES ASSUME NEW i \in Logins, i \notin astray PROVE TokenSound(i)'
    BY <1>4 DEF TokensSound
  <2>1. TokenSound(i) /\ SessionTypes
    BY DEF SessionsInv, TokensSound
  <2> QED BY <1>2, <1>3, <1>4, <2>1, TokenKept DEF SignsIn
<1>10. PasswordsSound'
  BY <1>3, <1>4, PasswordsKept
<1>11. ResetsSound'
  <2> SUFFICES ASSUME NEW d \in ResetCodes, d \notin doubled' PROVE ResetSound(d)'
    BY DEF ResetsSound
  <2>1. ResetSound(d) /\ SessionTypes
    BY <1>5 DEF SessionsInv, ResetsSound
  <2>2. CASE d = c
    <3>1. \A z \in Requests : ~SpendsCode(signing[z], c)
      BY <1>3, <1>5, <2>2 DEF SpendsCode, Signed!Others
    <3>2. spent[c] = 0
      BY <1>5, <2>1, <2>2, <3>1 DEF ResetSound, SpendsCode
    <3>3. \A z \in Requests : SpendsCode(signing'[z], c) <=> z = s
      BY <1>2, <1>6, <3>1 DEF SpendsCode
    <3> QED BY <1>4, <2>2, <3>2, <3>3 DEF ResetSound
  <2>3. CASE d # c
    BY <1>2, <1>3, <1>4, <2>1, <2>3, ResetKept DEF SpendsCode
  <2> QED BY <2>2, <2>3
<1>12. CapSound'
  <2>1. DoomedSessions' = DoomedSessions /\ Arriving' = Arriving
    BY <1>2, <1>3, ArrivalsKept
  <2> QED BY <1>4, <2>1, CapKept
<1> QED BY <1>7, <1>8, <1>9, <1>10, <1>11, <1>12 DEF SessionsInv

LEMMA ChangePasswordKeeps ==
  ASSUME Signed!SessionsShape, SessionsInv, NEW s \in Requests, Signed!ChangePassword(s) PROVE SessionsInv'
<1>1. PICK q \in SignErrands : q = signing[s] /\ q.pc = "change"
  BY DEF Signed!ChangePassword, Signed!At, SessionsInv, SessionTypes
<1>2. PICK c \in ResetCodes : c = q.id
  BY <1>1 DEF SessionsInv, SignInsSound
<1>3. PICK r : r = [q EXCEPT !.pc = "use"]
  BY Zenon
<1>4. r \in SignErrands /\ r.pc = "use" /\ r.id = c /\ Signed!Go(s, r)
  BY <1>1, <1>2, <1>3 DEF SignErrands, SignSteps, Signed!ChangePassword, Signed!Goto
<1>5. UNCHANGED <<session, recent, held, code, signed, overlapped, astray, doubled>>
      /\ Signed!Opened' = Signed!Opened /\ Signed!Active' = Signed!Active
  BY DEF Signed!ChangePassword, Signed!Opened, Signed!Active
<1>6. password' \in Nat /\ spent' \in [ResetCodes -> Nat] /\ spent'[c] = spent[c] + 1
      /\ \A d \in ResetCodes : d # c => spent'[d] = spent[d]
  BY <1>1, <1>2 DEF Signed!ChangePassword, SessionsInv, SessionTypes
<1>7. \A z \in Requests : signing'[z] = IF z = s THEN r ELSE signing[z]
  BY <1>4 DEF Signed!Go, SessionsInv, SessionTypes
<1>8. SessionTypes'
  BY <1>4, <1>5, <1>6 DEF SessionsInv, SessionTypes, Signed!Go
<1>9. SignInsSound'
  BY <1>4, <1>5, SignInsKept DEF SignsIn
<1>10. TokensSound'
  <2> SUFFICES ASSUME NEW i \in Logins, i \notin astray PROVE TokenSound(i)'
    BY <1>5 DEF TokensSound
  <2>1. TokenSound(i) /\ SessionTypes
    BY DEF SessionsInv, TokensSound
  <2> QED BY <1>1, <1>4, <1>5, <2>1, TokenKept DEF SignsIn
<1>11. PasswordsSound'
  BY <1>4, <1>7 DEF PasswordsSound
<1>12. ResetsSound'
  <2> SUFFICES ASSUME NEW d \in ResetCodes, d \notin doubled PROVE ResetSound(d)'
    BY <1>5 DEF ResetsSound
  <2>1. ResetSound(d) /\ SessionTypes
    BY DEF SessionsInv, ResetsSound
  <2>2. CASE d = c
    <3>1. spent[c] = 0 /\ \A z \in Requests : SpendsCode(signing[z], c) <=> z = s
      BY <1>1, <1>2, <2>1, <2>2 DEF ResetSound, SpendsCode
    <3>2. \A z \in Requests : SpendsCode(signing'[z], c) <=> z = s
      BY <1>4, <1>7, <3>1 DEF SpendsCode
    <3>3. spent'[c] = 1 /\ signing'[s].pc = "use" /\ signing'[s].id = c
      BY <1>4, <1>6, <1>7, <3>1
    <3>4. \A z \in Requests : signing'[z].pc = "change" => signing'[z].id # c
      BY <3>2, <3>3 DEF SpendsCode
    <3> QED BY <2>2, <3>2, <3>3, <3>4 DEF ResetSound
  <2>3. CASE d # c
    BY <1>1, <1>2, <1>4, <1>5, <1>6, <2>1, <2>3, ResetKept DEF SpendsCode
  <2> QED BY <2>2, <2>3
<1>13. CapSound'
  <2>1. DoomedSessions' = DoomedSessions /\ Arriving' = Arriving
    BY <1>1, <1>4, ArrivalsKept
  <2> QED BY <1>5, <2>1, CapKept
<1> QED BY <1>8, <1>9, <1>10, <1>11, <1>12, <1>13 DEF SessionsInv

LEMMA UseCodeKeeps ==
  ASSUME Signed!SessionsShape, SessionsInv, NEW s \in Requests, Signed!UseCode(s) PROVE SessionsInv'
<1>1. PICK q \in SignErrands : q = signing[s] /\ q.pc = "use"
  BY DEF Signed!UseCode, Signed!At, SessionsInv, SessionTypes
<1>2. PICK c \in ResetCodes : c = q.id
  BY <1>1 DEF SessionsInv, SignInsSound
<1>3. PICK r : r = [q EXCEPT !.pc = "revoke"]
  BY Zenon
<1>4. r \in SignErrands /\ r.pc = "revoke" /\ Signed!Go(s, r)
  BY <1>1, <1>3 DEF SignErrands, SignSteps, Signed!UseCode, Signed!Goto
<1>5. UNCHANGED <<session, recent, held, password, signed, overlapped, astray, spent, doubled>>
      /\ Signed!Opened' = Signed!Opened /\ Signed!Active' = Signed!Active
  BY DEF Signed!UseCode, Signed!ghosts, Signed!Opened, Signed!Active
<1>6. /\ code' \in [ResetCodes -> {"none", "live", "used"}] /\ code'[c] = "used"
      /\ \A d \in ResetCodes : d # c => code'[d] = code[d]
  BY <1>1, <1>2 DEF Signed!UseCode, SessionsInv, SessionTypes
<1>7. \A z \in Requests : signing'[z] = IF z = s THEN r ELSE signing[z]
  BY <1>4 DEF Signed!Go, SessionsInv, SessionTypes
<1>8. SessionTypes'
  BY <1>4, <1>5, <1>6 DEF SessionsInv, SessionTypes, Signed!Go
<1>9. SignInsSound'
  BY <1>4, <1>5, SignInsKept DEF SignsIn
<1>10. TokensSound'
  <2> SUFFICES ASSUME NEW i \in Logins, i \notin astray PROVE TokenSound(i)'
    BY <1>5 DEF TokensSound
  <2>1. TokenSound(i) /\ SessionTypes
    BY DEF SessionsInv, TokensSound
  <2> QED BY <1>1, <1>4, <1>5, <2>1, TokenKept DEF SignsIn
<1>11. PasswordsSound'
  BY <1>1, <1>4, <1>5, PasswordsKept
<1>12. ResetsSound'
  <2> SUFFICES ASSUME NEW d \in ResetCodes, d \notin doubled PROVE ResetSound(d)'
    BY <1>5 DEF ResetsSound
  <2>1. ResetSound(d) /\ SessionTypes
    BY DEF SessionsInv, ResetsSound
  <2>2. CASE d = c
    <3>1. \A z \in Requests : SpendsCode(signing[z], c) <=> z = s
      BY <1>1, <1>2, <2>1, <2>2 DEF ResetSound, SpendsCode
    <3>2. \A z \in Requests : ~SpendsCode(signing'[z], c)
      BY <1>4, <1>7, <3>1 DEF SpendsCode
    <3>3. spent'[c] <= 1
      BY <1>5, <2>1, <2>2 DEF ResetSound
    <3> QED BY <1>6, <2>2, <3>2, <3>3 DEF ResetSound, SpendsCode
  <2>3. CASE d # c
    BY <1>1, <1>2, <1>4, <1>5, <1>6, <2>1, <2>3, ResetKept DEF SpendsCode
  <2> QED BY <2>2, <2>3
<1>13. CapSound'
  <2>1. DoomedSessions' = DoomedSessions /\ Arriving' = Arriving
    BY <1>1, <1>4, ArrivalsKept
  <2> QED BY <1>5, <2>1, CapKept
<1> QED BY <1>8, <1>9, <1>10, <1>11, <1>12, <1>13 DEF SessionsInv

LEMMA RevokeAllKeeps ==
  ASSUME Signed!SessionsShape, SessionsInv, NEW s \in Requests, Signed!RevokeAll(s) PROVE SessionsInv'
<1>1. PICK r \in SignErrands : r = Signed!Idle
  BY Zenon DEF Signed!Idle, SignErrands, SignSteps
<1>2. r.pc = "idle" /\ signing[s].pc = "revoke" /\ Signed!Go(s, r)
  BY <1>1 DEF Signed!RevokeAll, Signed!At, Signed!Idle
<1>3. UNCHANGED <<recent, held, password, code, signed, overlapped, astray, spent, doubled>>
  BY DEF Signed!RevokeAll, Signed!users, Signed!ghosts
<1>4. /\ session' \in [Logins -> SessionRows] /\ Signed!Opened' = Signed!Opened /\ Signed!Active' = {}
      /\ \A j \in Logins : /\ session'[j].token = session[j].token
                           /\ session'[j].password = session[j].password
  <2>1. Signed!Active \subseteq Signed!Opened /\ session' = Signed!RevokeThose(Signed!Active) /\ SessionTypes
    BY DEF Signed!RevokeAll, Signed!SignedOut, Signed!Active, Signed!Opened, SessionsInv
  <2>2. PICK ids : ids = Signed!Active
    OBVIOUS
  <2>3. /\ session' \in [Logins -> SessionRows] /\ Signed!Opened' = Signed!Opened /\ Signed!Active' = Signed!Active \ ids
        /\ \A j \in Logins : /\ session'[j].token = session[j].token
                             /\ session'[j].password = session[j].password
    BY <2>1, <2>2, RevokeThoseGives
  <2> QED BY <2>2, <2>3
<1>5. SessionTypes'
  BY <1>2, <1>3, <1>4 DEF SessionsInv, SessionTypes, Signed!Go
<1>6. SignInsSound'
  BY <1>2, <1>3, <1>4, SignInsKept DEF SignsIn
<1>7. TokensSound'
  <2> SUFFICES ASSUME NEW i \in Logins, i \notin astray PROVE TokenSound(i)'
    BY <1>3 DEF TokensSound
  <2>1. TokenSound(i) /\ SessionTypes
    BY DEF SessionsInv, TokensSound
  <2> QED BY <1>2, <1>3, <1>4, <2>1, TokenKept DEF SignsIn
<1>8. PasswordsSound'
  BY <1>4 DEF PasswordsSound
<1>9. ResetsSound'
  <2> SUFFICES ASSUME NEW c \in ResetCodes, c \notin doubled PROVE ResetSound(c)'
    BY <1>3 DEF ResetsSound
  <2>1. ResetSound(c) /\ SessionTypes
    BY DEF SessionsInv, ResetsSound
  <2> QED BY <1>2, <1>3, <2>1, ResetKept DEF SpendsCode
<1>10. CapSound'
  <2>1. DoomedSessions' = DoomedSessions /\ Arriving' = Arriving
    BY <1>2, ArrivalsKept
  <2> QED BY <1>4, <2>1, CapKept
<1> QED BY <1>5, <1>6, <1>7, <1>8, <1>9, <1>10 DEF SessionsInv

LEMMA SessionsStep == ASSUME Signed!SessionsShape, SessionsInv, [Signed!Next]_(Signed!vars) PROVE SessionsInv'
<1>1. CASE UNCHANGED Signed!vars
  <2>1. UNCHANGED <<session, recent, held, password, code, signing, signed,
                    overlapped, astray, spent, doubled>>
    BY <1>1 DEF Signed!vars
  <2> QED BY <2>1
     DEF SessionsInv, SessionTypes, SignInsSound, TokensSound, TokenSound, TokenInHand,
                      PasswordsSound, ResetsSound, ResetSound, CapSound, Signed!Active, DoomedSessions, Arriving,
                      Signed!Opened
<1>2. ASSUME NEW s \in Requests, NEW arrives \in BOOLEAN, Signed!Answer(s, arrives) PROVE SessionsInv'
  BY <1>2, AnswerKeeps
<1>3. ASSUME NEW s \in Requests, NEW i \in Logins, Signed!Refresh(s, i) PROVE SessionsInv'
  BY <1>3, RefreshKeeps
<1>4. ASSUME NEW s \in Requests, NEW c \in ResetCodes, Signed!Confirm(s, c) PROVE SessionsInv'
  BY <1>4, ConfirmKeeps
<1> QED BY <1>1, <1>2, <1>3, <1>4, LoginKeeps, CreateKeeps, SignKeeps, FindStaleKeeps, TrimKeeps,
           RotateKeeps, AskResetKeeps, SendCodeKeeps, ChangePasswordKeeps, UseCodeKeeps,
           RevokeAllKeeps, UseKeeps, RevokeKeeps DEF Signed!Next

\* That part runs by itself.
LEMMA SessionsRuns ==
  ASSUME [Next]_vars, part' = "sessions"
  PROVE  part = "sessions" /\ [Signed!Next]_(Signed!vars)
<1>1. CASE UNCHANGED vars
  <2>1. part' = part /\ sessionVars' = sessionVars
    BY <1>1 DEF vars
  <2> QED BY <2>1 DEF sessionVars, Signed!vars
<1>2. CASE Next
  BY <1>2 DEF Next, Only
<1> QED BY <1>1, <1>2

\* For any number of sessions, codes and overlapping requests: once the requests are over the
\* sessions left are within the cap, were opened with the password of today unless their
\* sign-in overlapped the reset, and can be refreshed by the device that holds them unless
\* an answer was lost or two refreshes overlapped; and a reset code changes the password
\* once, unless two requests at once asked for it or used it (sessionResponse,
\* refreshSession, confirmPasswordReset).
THEOREM SessionsSoundAlways == Spec => []SessionsSound
<1> DEFINE I == /\ part = "sessions" => SessionsInv
<1>1. Init => I
  BY SessionsInit, ProtocolShape DEF Init
<1>2. I /\ [Next]_vars => I'
  <2> SUFFICES ASSUME I, [Next]_vars PROVE I'
    OBVIOUS
  <2>1. part' = "sessions" => SessionsInv'
    <3> SUFFICES ASSUME part' = "sessions" PROVE SessionsInv'
      OBVIOUS
    <3>1. part = "sessions" /\ [Signed!Next]_(Signed!vars)
      BY SessionsRuns
    <3> QED BY <3>1, SessionsStep, ProtocolShape
  <2> QED BY <2>1
<1>3. I => SessionsSound
  BY SessionsGive, ProtocolShape DEF SessionsSound, SessionsInv
<1> QED BY <1>1, <1>2, <1>3, PTL DEF Spec

=============================================================================
