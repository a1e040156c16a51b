------------------------------ MODULE Sessions ------------------------------
(***************************************************************************)
(* The sessions of one user: sign-in with the cap on sessions, refresh     *)
(* with rotation of the token, sign-out, and the password reset that signs *)
(* everybody out.  Each action is a round trip to the database.  Two-      *)
(* factor, wrong passwords and wrong codes are left out.                   *)
(***************************************************************************)
EXTENDS Naturals, FiniteSets

CONSTANTS
  Logins,       \* sessions, created in this order: 1..n
  Codes,        \* reset codes, sent in this order: 1..n
  Cap,          \* MAX_ACTIVE_SESSIONS
  Slots,        \* requests that overlap
  MaxRequests   \* bound: requests served

SessionsShape ==
  IsFiniteSet(Logins) /\ IsFiniteSet(Slots) /\ Cap \in Nat /\ MaxRequests \in Nat

VARIABLES
  session,    \* Session documents: state, refresh token (0 before it is signed), and the
              \* password they were opened with
  recent,     \* the order of lastUsedAt: <<i, j>> when i was used before j
  held,       \* the refresh token each device holds, 0 for none
  password,   \* the number of times it was changed
  code,       \* PasswordResetToken documents
  request, served,
  overlapped, \* ghost: sessions whose sign-in overlapped a reset
  astray,     \* ghost: sessions with a refresh answer lost, or two refreshes at once
  spent,      \* ghost: [Codes -> times the code changed the password]
  doubled     \* ghost: codes asked for, or used, by two requests at once

vars == <<session, recent, held, password, code, request, served,
          overlapped, astray, spent, doubled>>

NoSession == [state |-> "none", token |-> 0, password |-> 0]
Idle == [pc |-> "idle", id |-> 0, read |-> 0, stale |-> {}]
Active == {i \in Logins : session[i].state = "active"}
Opened == {i \in Logins : session[i].state # "none"}

Init ==
  /\ session = [i \in Logins |-> NoSession] /\ recent = {}
  /\ held = [i \in Logins |-> 0] /\ password = 0
  /\ code = [c \in Codes |-> "none"]
  /\ request = [s \in Slots |-> Idle] /\ served = 0
  /\ overlapped = {} /\ astray = {}
  /\ spent = [c \in Codes |-> 0] /\ doubled = {}

TypeOK ==
  /\ session \in [Logins -> [state : {"none", "active", "revoked"},
                             token : Nat, password : Nat]]
  /\ recent \subseteq Opened \X Opened
  /\ \A i, j \in Opened : <<i, j>> \in recent <=> i # j /\ <<j, i>> \notin recent
  /\ \A i, j, k \in Opened : <<i, j>> \in recent /\ <<j, k>> \in recent => <<i, k>> \in recent
  /\ held \in [Logins -> Nat] /\ password \in Nat
  /\ code \in [Codes -> {"none", "live", "used"}]
  /\ request \in [Slots -> [pc : {"idle", "create", "sign", "cap", "trim", "rotate", "answer",
                                  "send", "change", "use", "revoke"},
                            id : Logins \cup Codes \cup {0}, read : Nat,
                            stale : SUBSET Logins]]
  /\ served \in 0..MaxRequests
  /\ overlapped \subseteq Logins /\ astray \subseteq Logins
  /\ spent \in [Codes -> Nat] /\ doubled \subseteq Codes

At(s, pc) == request[s].pc = pc
Go(s, r) == request' = [request EXCEPT ![s] = r]
Goto(s, pc) == Go(s, [request[s] EXCEPT !.pc = pc])
Start(s, r) == At(s, "idle") /\ served < MaxRequests /\ served' = served + 1 /\ Go(s, r)
Others(s, pcs, id) == {z \in Slots \ {s} : request[z].pc \in pcs /\ request[z].id = id}
Touched(i) == {e \in recent : e[1] # i} \cup ((Opened \ {i}) \X {i})
ghosts == <<overlapped, astray, spent, doubled>>
users == <<password, code>>

-----------------------------------------------------------------------------
\* login: the password is compared, then sessionResponse opens the session.
Login(s) ==
  /\ Start(s, [Idle EXCEPT !.pc = "create", !.read = password])
  /\ UNCHANGED <<session, recent, held, users, ghosts>>
Create(s) ==
  /\ At(s, "create")
  /\ \E i \in Logins :
       /\ session[i].state = "none" /\ \A j \in Logins : session[j].state = "none" => i <= j
       /\ session' = [session EXCEPT ![i] =
                        [state |-> "active", token |-> 0, password |-> request[s].read]]
       /\ recent' = Touched(i)
       /\ Go(s, [request[s] EXCEPT !.pc = "sign", !.id = i])
       /\ overlapped' = IF request[s].read # password THEN overlapped \cup {i} ELSE overlapped
  /\ UNCHANGED <<held, users, served, astray, spent, doubled>>

\* The refresh token carries the id of the session, so its hash is saved in a second step.
Sign(s) ==
  /\ At(s, "sign")
  /\ session' = [session EXCEPT ![request[s].id].token = 1]
  /\ Go(s, [request[s] EXCEPT !.pc = "cap", !.read = 1])
  /\ UNCHANGED <<recent, held, users, served, ghosts>>

\* The cap: those past the freshest Cap are found, and revoked a round trip later.
Fresher(i) == {j \in Active : <<i, j>> \in recent}
Stale(cap) == {i \in Active : Cardinality(Fresher(i)) >= cap}
OverCapByOne == Stale(Cap + 1)
OverCap == Stale(Cap)
FindStale(s) ==
  /\ At(s, "cap")
  /\ IF OverCap = {} THEN Goto(s, "answer")
     ELSE Go(s, [request[s] EXCEPT !.pc = "trim", !.stale = OverCap])
  /\ UNCHANGED <<session, recent, held, users, served, ghosts>>
RevokeThose(ids) == [i \in Logins |-> IF i \in ids THEN [session[i] EXCEPT !.state = "revoked"]
                                      ELSE session[i]]
Trim(s) ==
  /\ At(s, "trim")
  /\ session' = RevokeThose(request[s].stale)
  /\ Goto(s, "answer")
  /\ UNCHANGED <<recent, held, users, served, ghosts>>

\* The device stores the token of the answer, if the answer reaches it.
Answer(s, arrives) ==
  /\ At(s, "answer")
  /\ LET i == request[s].id IN
     /\ held' = IF arrives THEN [held EXCEPT ![i] = request[s].read] ELSE held
     /\ astray' = IF arrives THEN astray ELSE astray \cup {i}
  /\ Go(s, Idle)
  /\ UNCHANGED <<session, recent, users, served, overlapped, spent, doubled>>

-----------------------------------------------------------------------------
\* refreshSession: the session is found by the token and saved with the next one; a
\* revocation in between is not undone, since only what was set is written.
Refresh(s, i) ==
  /\ i \in Active /\ held[i] # 0 /\ held[i] = session[i].token
  /\ Start(s, [Idle EXCEPT !.pc = "rotate", !.id = i])
  /\ astray' = IF Others(s, {"rotate", "answer"}, i) = {} THEN astray ELSE astray \cup {i}
  /\ UNCHANGED <<session, recent, held, users, overlapped, spent, doubled>>
Rotate(s) ==
  /\ At(s, "rotate")
  /\ LET i == request[s].id
         token == session[i].token + 1
     IN /\ session' = [session EXCEPT ![i].token = token]
        /\ recent' = Touched(i)
        /\ Go(s, [request[s] EXCEPT !.pc = "answer", !.read = token])
  /\ UNCHANGED <<held, users, served, ghosts>>

\* protect: every request bumps lastUsedAt of its session.
Use(i) ==
  /\ i \in Active /\ held[i] # 0 /\ recent' = Touched(i) /\ recent' # recent
  /\ UNCHANGED <<session, held, users, request, served, ghosts>>

\* logout and revokeSession.
Revoke(i) ==
  /\ i \in Active
  /\ session' = RevokeThose({i})
  /\ UNCHANGED <<recent, held, users, request, served, ghosts>>

-----------------------------------------------------------------------------
\* requestPasswordReset: earlier codes are used up, then a fresh one is made and sent.
AskReset(s) ==
  /\ Start(s, [Idle EXCEPT !.pc = "send"])
  /\ code' = [c \in Codes |-> IF code[c] = "live" THEN "used" ELSE code[c]]
  /\ UNCHANGED <<session, recent, held, password, ghosts>>
SendCode(s) ==
  /\ At(s, "send")
  /\ \E c \in Codes :
       /\ code[c] = "none" /\ \A d \in Codes : code[d] = "none" => c <= d
       /\ code' = [code EXCEPT ![c] = "live"]
       /\ doubled' = IF \E d \in Codes : code[d] = "live"
                     THEN doubled \cup {d \in Codes : code[d] = "live"} ELSE doubled
  /\ Go(s, Idle)
  /\ UNCHANGED <<session, recent, held, password, served, overlapped, astray, spent>>

\* confirmPasswordReset: only the latest live code is looked at.
Latest(c) == code[c] = "live" /\ \A d \in Codes : code[d] = "live" => d <= c
Confirm(s, c) ==
  /\ Latest(c)
  /\ Start(s, [Idle EXCEPT !.pc = "change", !.id = c])
  /\ doubled' = IF Others(s, {"change", "use"}, c) = {} THEN doubled ELSE doubled \cup {c}
  /\ UNCHANGED <<session, recent, held, users, overlapped, astray, spent>>
ChangePassword(s) ==
  /\ At(s, "change")
  /\ password' = password + 1
  /\ spent' = [spent EXCEPT ![request[s].id] = @ + 1]
  /\ Goto(s, "use")
  /\ UNCHANGED <<session, recent, held, code, served, overlapped, astray, doubled>>
UseCode(s) ==
  /\ At(s, "use")
  /\ code' = [code EXCEPT ![request[s].id] = "used"]
  /\ Goto(s, "revoke")
  /\ UNCHANGED <<session, recent, held, password, served, ghosts>>
SignedOut == Active
RevokeAll(s) ==
  /\ At(s, "revoke")
  /\ session' = RevokeThose(SignedOut)
  /\ Go(s, Idle)
  /\ UNCHANGED <<recent, held, users, served, ghosts>>

Next ==
  \/ \E s \in Slots :
       \/ Login(s) \/ Create(s) \/ Sign(s) \/ FindStale(s) \/ Trim(s)
       \/ \E arrives \in BOOLEAN : Answer(s, arrives)
       \/ \E i \in Logins : Refresh(s, i)
       \/ Rotate(s)
       \/ AskReset(s) \/ SendCode(s)
       \/ \E c \in Codes : Confirm(s, c)
       \/ ChangePassword(s) \/ UseCode(s) \/ RevokeAll(s)
  \/ \E i \in Logins : Use(i) \/ Revoke(i)

Spec == Init /\ [][Next]_vars

-----------------------------------------------------------------------------
Quiet == \A s \in Slots : At(s, "idle")

\* Once the requests are over no more than Cap sessions are left (sessionResponse) and all
\* were opened with the password of today, unless their sign-in overlapped the reset
\* (confirmPasswordReset); the device of a session can go on with it, unless an answer was
\* lost or two refreshes overlapped (refreshSession); and a code changes the password once,
\* unless it was used, or was the older one asked for, in two requests at once.
SessionsSound ==
  /\ Quiet => /\ Cardinality(Active) <= Cap
              /\ \A i \in Active : session[i].password = password \/ i \in overlapped
              /\ \A i \in Active : held[i] = session[i].token \/ i \in astray
  /\ \A c \in Codes : spent[c] <= 1 \/ c \in doubled
=============================================================================
