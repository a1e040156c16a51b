------------------------------ MODULE TwoFactor ------------------------------
(***************************************************************************)
(* Two-factor sign-in of one user: staging a method and enabling it, the   *)
(* codes sent by e-mail, backup codes, the devices that are remembered,    *)
(* and turning it off again.  Each action is a round trip to the database; *)
(* a request works on the copy of the user it loaded and saves only what   *)
(* it changed.  Wrong codes, their limit and expiry are left out.          *)
(***************************************************************************)
EXTENDS Naturals, FiniteSets

CONSTANTS
  Codes,        \* e-mailed codes, sent in this order: 1..n
  Slots,        \* requests that overlap
  MaxRequests   \* bound: requests served

\* What is assumed of the constants.
FactorShape == Codes \subseteq Nat \ {0} /\ MaxRequests \in Nat

VARIABLES
  user,      \* User.twoFactor and the version of the document
  challenge, \* TwoFactorChallenge documents
  trusted,   \* TrustedDevice documents, named by the request that issued them
  request, served,
  crossed,   \* ghost: a method was staged while one was enabled
  switched,  \* ghost: a method was enabled over another
  late,      \* ghost: devices a revocation missed
  spent,     \* ghost: [Codes -> times the code was accepted]
  doubled,   \* ghost: codes sent, or checked, by two requests at once
  answers,   \* ghost: times the backup code of today was accepted
  shared     \* ghost: it was spent by two requests at once

vars == <<user, challenge, trusted, request, served,
          crossed, switched, late, spent, doubled, answers, shared>>

Methods == {"totp", "email"}
Purposes == {"enroll", "manage", "login"}

\* Secrets and sets of backup codes are named by the request that made them, 0 for none; of
\* a set one code is looked at.
Plain == [method |-> "none", pending |-> "none", staged |-> 0, secret |-> 0,
          codes |-> 0, used |-> FALSE, version |-> 0]
Idle == [pc |-> "idle", kind |-> "none", id |-> 0, to |-> "none", code |-> 0,
         purpose |-> "none", read |-> Plain]

Init ==
  /\ user = Plain
  /\ challenge = [c \in Codes |-> [state |-> "none", purpose |-> "none"]]
  /\ trusted = {}
  /\ request = [s \in Slots |-> Idle] /\ served = 0
  /\ crossed = FALSE /\ switched = FALSE /\ late = {}
  /\ spent = [c \in Codes |-> 0] /\ doubled = {} /\ answers = 0 /\ shared = FALSE

Ids == 0..MaxRequests
Users == [method : Methods \cup {"none"}, pending : Methods \cup {"none"}, staged : Ids,
          secret : Ids, codes : Ids, used : BOOLEAN, version : Nat]

Asks == [pc : {"idle", "stage", "sweep", "send", "find", "consume", "backup", "save", "revoke",
               "remember"},
         kind : {"none", "stage", "code", "enable", "disable", "regenerate", "verify"},
         id : Ids, to : Methods \cup {"none"}, code : Codes \cup {0},
         purpose : Purposes \cup {"none"}, read : Users]

TypeOK ==
  /\ user \in Users
  /\ challenge \in [Codes -> [state : {"none", "live", "used"}, purpose : Purposes \cup {"none"}]]
  /\ trusted \subseteq Ids /\ late \subseteq Ids
  /\ request \in [Slots -> Asks] /\ served \in Ids
  /\ crossed \in BOOLEAN /\ switched \in BOOLEAN /\ shared \in BOOLEAN
  /\ spent \in [Codes -> Nat] /\ doubled \subseteq Codes /\ answers \in Nat

At(s, pc) == request[s].pc = pc
Go(s, r) == request' = [request EXCEPT ![s] = r]
Goto(s, pc) == Go(s, [request[s] EXCEPT !.pc = pc])
Serve(s, r) ==
  /\ At(s, "idle") /\ served < MaxRequests /\ served' = served + 1
  /\ Go(s, [r EXCEPT !.id = served + 1, !.read = user])
factors == <<crossed, switched>>
proofs == <<spent, doubled, answers, shared>>

-----------------------------------------------------------------------------
\* totpSetup and emailSetup: one method at a time; only the fields that change are written.
Setup(s, method) ==
  /\ user.method = "none"
  /\ Serve(s, [Idle EXCEPT !.pc = "stage", !.kind = "stage", !.to = method, !.purpose = "enroll"])
  /\ UNCHANGED <<user, challenge, trusted, factors, late, proofs>>
Stage(s) ==
  /\ At(s, "stage")
  /\ LET r == request[s] IN
     /\ user' = [user EXCEPT !.pending = IF r.read.pending = r.to THEN @ ELSE r.to,
                             !.staged = IF r.to = "totp" THEN r.id ELSE @]
     /\ crossed' = (crossed \/ user.method # "none")
     /\ IF r.to = "email" THEN Goto(s, "sweep") ELSE Go(s, Idle)
  /\ UNCHANGED <<challenge, trusted, served, switched, late, proofs>>

\* sendManageCode, resendLoginCode and the sign-in of a device that is not remembered.
AskCode(s, purpose) ==
  /\ user.method = "email"
  /\ Serve(s, [Idle EXCEPT !.pc = "sweep", !.kind = "code", !.purpose = purpose])
  /\ UNCHANGED <<user, challenge, trusted, factors, late, proofs>>

\* createAndSendEmailChallenge: earlier codes of the purpose are used up, a fresh one is sent.
Live(purpose) == {c \in Codes : challenge[c] = [state |-> "live", purpose |-> purpose]}
Sweep(s) ==
  /\ At(s, "sweep")
  /\ challenge' = [c \in Codes |-> IF c \in Live(request[s].purpose)
                                   THEN [challenge[c] EXCEPT !.state = "used"] ELSE challenge[c]]
  /\ Goto(s, "send")
  /\ UNCHANGED <<user, trusted, served, factors, late, proofs>>
Send(s) ==
  /\ At(s, "send")
  /\ \E c \in Codes :
       /\ challenge[c].state = "none"
       /\ \A d \in Codes : challenge[d].state = "none" => c <= d
       /\ challenge' = [challenge EXCEPT ![c] =
                          [state |-> "live", purpose |-> request[s].purpose]]
  /\ doubled' = doubled \cup Live(request[s].purpose)
  /\ Go(s, Idle)
  /\ UNCHANGED <<user, trusted, served, factors, late, spent, answers, shared>>

-----------------------------------------------------------------------------
\* totpEnable takes a code of the staged secret, emailEnable one that was sent.
EnableTotp(s) ==
  /\ user.pending = "totp" /\ user.staged # 0
  /\ Serve(s, [Idle EXCEPT !.pc = "save", !.kind = "enable", !.to = "totp"])
  /\ UNCHANGED <<user, challenge, trusted, factors, late, proofs>>
EnableEmail(s, c) ==
  /\ user.pending = "email" /\ challenge[c].state # "none"
  /\ Serve(s, [Idle EXCEPT !.pc = "find", !.kind = "enable", !.to = "email", !.code = c,
                           !.purpose = "enroll"])
  /\ UNCHANGED <<user, challenge, trusted, factors, late, proofs>>

\* disable, regenerateBackupCodes and verify ask for a proof: a code of the app, one that was
\* sent, or a backup code.
PurposeOf(kind) == IF kind = "verify" THEN "login" ELSE "manage"
Proven(kind) == IF kind = "verify" THEN "remember" ELSE "save"
Ask(s, kind, pc, c) ==
  /\ user.method # "none"
  /\ Serve(s, [Idle EXCEPT !.pc = pc, !.kind = kind, !.code = c, !.purpose = PurposeOf(kind)])
  /\ UNCHANGED <<user, challenge, trusted, factors, late>>
AskWithApp(s, kind) ==
  user.method = "totp" /\ Ask(s, kind, Proven(kind), 0) /\ UNCHANGED proofs
AskWithCode(s, kind, c) ==
  /\ user.method = "email" /\ challenge[c].state # "none"
  /\ Ask(s, kind, "find", c) /\ UNCHANGED proofs
AskWithBackup(s, kind) ==
  /\ ~user.used /\ Ask(s, kind, "backup", 0)
  /\ shared' = (shared \/ \E z \in Slots \ {s} : At(z, "backup"))
  /\ UNCHANGED <<spent, doubled, answers>>

\* verifyEmailChallenge: the latest live code is looked at, and used up a round trip later.
Latest(purpose) == {c \in Live(purpose) : \A d \in Live(purpose) : d <= c}
Find(s) ==
  /\ At(s, "find")
  /\ LET r == request[s]
         found == r.code \in Latest(r.purpose)
     IN /\ IF found THEN Goto(s, "consume") ELSE Go(s, Idle)
        /\ doubled' = IF found /\ \E z \in Slots \ {s} : At(z, "consume") /\ request[z].code = r.code
                      THEN doubled \cup {r.code} ELSE doubled
  /\ UNCHANGED <<user, challenge, trusted, served, factors, late, spent, answers, shared>>
Consume(s) ==
  /\ At(s, "consume")
  /\ LET c == request[s].code IN
     /\ challenge' = [challenge EXCEPT ![c].state = "used"]
     /\ spent' = [spent EXCEPT ![c] = @ + 1]
  /\ Goto(s, Proven(request[s].kind))
  /\ UNCHANGED <<user, trusted, served, factors, late, doubled, answers, shared>>

\* A save that touches the array of backup codes is refused when the array was replaced since
\* the user was loaded; one that replaces it counts the version up.
SavesAnyway(s) == TRUE
Unreplaced(s) == user.version = request[s].read.version
Backup(s) ==
  /\ At(s, "backup")
  /\ IF Unreplaced(s)
     THEN /\ user' = [user EXCEPT !.used = TRUE]
          /\ answers' = answers + 1
          /\ Goto(s, Proven(request[s].kind))
     ELSE Go(s, Idle) /\ UNCHANGED <<user, answers>>
  /\ UNCHANGED <<challenge, trusted, served, factors, late, spent, doubled, shared>>

-----------------------------------------------------------------------------
Replaced(codes) == [user EXCEPT !.codes = codes, !.used = FALSE, !.version = @ + 1]

Enabled(r) ==
  IF r.to = "totp"
  THEN [Replaced(r.id) EXCEPT !.method = "totp", !.secret = r.read.staged,
                              !.staged = 0, !.pending = "none"]
  ELSE [Replaced(r.id) EXCEPT !.method = "email", !.pending = "none"]

\* Only what the copy still had is cleared.
Disabled(r) ==
  [Replaced(0) EXCEPT !.method = "none",
                      !.secret = IF r.read.secret = 0 THEN @ ELSE 0,
                      !.staged = IF r.read.staged = 0 THEN @ ELSE 0,
                      !.pending = IF r.read.pending = "none" THEN @ ELSE "none"]

Save(s) ==
  /\ At(s, "save")
  /\ LET r == request[s] IN
     IF ~Unreplaced(s) THEN Go(s, Idle) /\ UNCHANGED <<user, switched, answers, shared>>
     ELSE /\ user' = CASE r.kind = "enable" -> Enabled(r)
                       [] r.kind = "disable" -> Disabled(r)
                       [] r.kind = "regenerate" -> Replaced(r.id)
          /\ switched' = (switched \/ (r.kind = "enable" /\ user.method # "none"))
          /\ answers' = 0 /\ shared' = FALSE
          /\ IF r.kind = "disable" THEN Goto(s, "revoke") ELSE Go(s, Idle)
  /\ UNCHANGED <<challenge, trusted, served, crossed, late, spent, doubled>>

\* revokeTrustedDevices, after disable or confirmPasswordReset; the process may die before.
Remembering == {request[s].id : s \in {s \in Slots : request[s].kind = "verify"}}
RevokeTrusted ==
  /\ trusted' = {} /\ late' = late \cup Remembering
Revoke(s) ==
  /\ At(s, "revoke")
  /\ \/ RevokeTrusted
     \/ trusted' = trusted /\ late' = late \cup trusted \cup Remembering
  /\ Go(s, Idle)
  /\ UNCHANGED <<user, challenge, served, factors, proofs>>
ResetPassword ==
  /\ trusted # {} /\ RevokeTrusted
  /\ UNCHANGED <<user, challenge, request, served, factors, proofs>>

\* verify: the session is opened and, if asked for, the device remembered.
Remember(s) ==
  /\ At(s, "remember")
  /\ \/ trusted' = trusted
     \/ trusted' = trusted \cup {request[s].id}
  /\ Go(s, Idle)
  /\ UNCHANGED <<user, challenge, served, factors, late, proofs>>

Next ==
  \/ \E s \in Slots :
       \/ \E method \in Methods : Setup(s, method)
       \/ Stage(s)
       \/ \E purpose \in {"manage", "login"} : AskCode(s, purpose)
       \/ Sweep(s) \/ Send(s) \/ EnableTotp(s)
       \/ \E c \in Codes : EnableEmail(s, c)
       \/ \E kind \in {"disable", "regenerate", "verify"} :
            \/ AskWithApp(s, kind) \/ AskWithBackup(s, kind)
            \/ \E c \in Codes : AskWithCode(s, kind, c)
       \/ Find(s) \/ Consume(s) \/ Backup(s) \/ Save(s) \/ Revoke(s) \/ Remember(s)
  \/ ResetPassword

Spec == Init /\ [][Next]_vars

-----------------------------------------------------------------------------
\* Whatever overlaps (controllers/twoFactorController.js): a user has backup codes exactly
\* while a method is enabled, and a secret while it is the app; a method replaces another
\* only if it was staged in a request that overlapped the enabling of that one; once it is
\* off no device is remembered, unless its sign-in overlapped the turning off or that was cut
\* short; a code is accepted once, and is the only one of its purpose, unless two requests
\* sent or checked codes at once; and a backup code is accepted once, on the same terms.
FactorSound ==
  /\ (user.codes = 0) <=> (user.method = "none")
  /\ user.method = "totp" => user.secret # 0
  /\ switched => crossed
  /\ user.method = "none" /\ (\A s \in Slots : ~At(s, "revoke")) => trusted \subseteq late
  /\ \A c \in Codes : spent[c] <= 1 \/ c \in doubled
  /\ \A c, d \in Codes :
       c < d /\ challenge[c].state = "live" /\ challenge[d].state = "live"
             /\ challenge[c].purpose = challenge[d].purpose => c \in doubled
  /\ answers <= 1 \/ shared
=============================================================================
