------------------------------ MODULE Accounts ------------------------------
(***************************************************************************)
(* One account: its user row, its sessions and its one-time codes, under the  *)
(* requests of AuthService. Nothing here is in a transaction: every statement  *)
(* that reads or writes a row is an action.                                  *)
(*                                                                         *)
(* UsersService.update is what makes it hard: four of its callers hand it the   *)
(* whole row they read some statements ago.                                   *)
(***************************************************************************)
EXTENDS Integers, FiniteSets

CONSTANTS
  Procs,        \* requests under way at a time
  Passwords,    \* that the user chooses
  MaxOps,       \* bound: requests
  MaxSessions,  \* bound: sessions
  MaxCodes,     \* bound: one-time codes
  MaxFaults,    \* bound: requests that die on their way
  MaxAttempts   \* OTP_MAX_ATTEMPTS

ASSUME AccountsAssumption ==
  /\ {MaxOps, MaxSessions, MaxCodes, MaxFaults, MaxAttempts} \subseteq Nat
  /\ IsFiniteSet(Procs) /\ Procs # {}
  /\ {"none", "rehashed", "keep", "code", "social"} \cap Passwords = {}

Sessions == 1..MaxSessions
Codes == 1..MaxCodes
Tokens == Sessions \X (0..MaxOps)  \* a session and one of its hashes, in order

\* A password column: "rehashed" is the hash of a hash, which no password matches.
Stored == Passwords \cup {"none", "rehashed"}

VARIABLES
  user,      \* the row
  session,   \* rows: how often the hash was replaced, and whether it is there, gone or unused
  otp,       \* rows: age, attempts
  proc,      \* requests: where they are and what they have in hand
  held,      \* tokens in clients' hands
  ops, faults,
  meant,     \* history: the row as the requests that wrote it meant it
  raced,     \* history: a row was saved that had been changed since it was read
  opener,    \* history: what opened a session: a password, a code or "social"
  excused,   \* history: sessions opened beside a change of password, or kept by it
  redeemed,  \* history: how often a token was exchanged
  lost,      \* history: sessions whose newest token got lost
  wrong,     \* history: comparisons of a code that failed
  crossed,   \* history: codes that two requests had in hand
  opened,    \* history: sessions a code opened
  vanished   \* history: codes deleted by a request that had not read them

rowVars == <<user, meant, raced>>
sessionVars == <<session, held, opener, excused, redeemed, lost>>
otpVars == <<otp, wrong, crossed, opened, vanished>>
vars == <<rowVars, sessionVars, otpVars, proc, ops, faults>>

NoRow == [status |-> "none", password |-> "none", provider |-> "email",
          email |-> "first", phone |-> "first"]

Idle == [at |-> "idle", op |-> "none", row |-> NoRow, password |-> "keep",
         s |-> 0, c |-> 0, by |-> "none", stale |-> FALSE]

\* No account yet, one that was registered, and one that came from a social network.
Init ==
  /\ user \in {NoRow} \cup {[NoRow EXCEPT !.status = "inactive", !.password = w] : w \in Passwords}
              \cup {[NoRow EXCEPT !.status = "active", !.provider = "social"]}
  /\ meant = user /\ raced = FALSE
  /\ session = [s \in Sessions |-> [state |-> "none", hash |-> 0]]
  /\ otp = [c \in Codes |-> [state |-> "none", age |-> "recent", attempts |-> 0]]
  /\ proc = [p \in Procs |-> Idle]
  /\ held = {} /\ ops = 0 /\ faults = 0
  /\ opener = [s \in Sessions |-> "none"] /\ excused = {} /\ lost = {}
  /\ redeemed = [t \in Tokens |-> 0]
  /\ wrong = [c \in Codes |-> 0] /\ opened = [c \in Codes |-> 0]
  /\ crossed = {} /\ vanished = {}
-----------------------------------------------------------------------------
Live == {s \in Sessions : session[s].state = "live"}
LiveCodes == {c \in Codes : otp[c].state = "live"}

\* findActiveByUserId: the row that was created last, or 0.
Latest == IF LiveCodes = {} THEN 0 ELSE CHOOSE c \in LiveCodes : \A d \in LiveCodes : d <= c

At(p, l) == proc[p].at = l
Goto(p, l) == proc' = [proc EXCEPT ![p].at = l]
End(p) == proc' = [proc EXCEPT ![p] = Idle]

\* A request finds the user's row, or refuses at once.
Begin(p, r) ==
  /\ At(p, "idle") /\ ops < MaxOps
  /\ ops' = ops + 1
  /\ proc' = [proc EXCEPT ![p] = r]
  /\ UNCHANGED faults

Request(p, op, at) == [Idle EXCEPT !.op = op, !.at = at, !.row = user]

\* A refused request that wrote nothing leaves no trace; one that dies may leave its first steps.
Die(p) ==
  /\ ~At(p, "idle") /\ faults < MaxFaults
  /\ faults' = faults + 1
  /\ lost' = IF At(p, "load") THEN lost \cup {proc[p].s} ELSE lost
  /\ End(p)
  /\ UNCHANGED <<rowVars, otpVars, session, held, opener, excused, redeemed, ops>>
-----------------------------------------------------------------------------
(* The user's row.                                                          *)

\* register, or the first login through a social network: email is UNIQUE, so a second
\* insert fails.
Register(p, row) ==
  /\ user.status = "none"
  /\ Begin(p, [Idle EXCEPT !.op = "register", !.by = "social",
                           !.at = IF row.provider = "social" THEN "open" ELSE "idle"])
  /\ user' = row /\ meant' = row
  /\ UNCHANGED <<raced, sessionVars, otpVars>>

NewRows ==
  {[NoRow EXCEPT !.status = "inactive", !.password = w] : w \in Passwords}
    \cup {[NoRow EXCEPT !.status = "active", !.provider = "social"]}

\* confirmEmail: the row as read, made active.
ConfirmEmail(p) ==
  /\ user.status = "inactive"
  /\ Begin(p, [Request(p, "confirm", "compare") EXCEPT !.row.status = "active"])
  /\ UNCHANGED <<rowVars, sessionVars, otpVars>>

\* confirmNewEmail: the row as read, made active, with the new address.
ConfirmNewEmail(p) ==
  /\ user.status # "none"
  /\ Begin(p, [Request(p, "address", "compare") EXCEPT !.row.status = "active",
                                                      !.row.email = "second"])
  /\ UNCHANGED <<rowVars, sessionVars, otpVars>>

\* updateProfile: only the fields that were sent.
UpdateProfile(p) ==
  /\ user.status # "none"
  /\ Begin(p, [Request(p, "profile", "find") EXCEPT !.row.phone = "second"])
  /\ UNCHANGED <<rowVars, sessionVars, otpVars>>

\* resetPassword: the row as read, with the new password in plain text.
ResetPassword(p, w) ==
  /\ user.status # "none"
  /\ Begin(p, [Request(p, "reset", "end") EXCEPT !.password = w])
  /\ UNCHANGED <<rowVars, sessionVars, otpVars>>

\* update: only the new password; the caller knows the old one. An access token outlives
\* its session.
ChangePassword(p, s, w) ==
  /\ user.status # "none" /\ user.password \in Passwords
  /\ session[s].state # "none"
  /\ Begin(p, [Request(p, "change", "end") EXCEPT !.password = w, !.s = s])
  /\ UNCHANGED <<rowVars, sessionVars, otpVars>>

\* Mutant: a changed password ends no session.
EndSessionsNone(p) ==
  /\ At(p, "end")
  /\ Goto(p, "compare")
  /\ UNCHANGED <<rowVars, otpVars, sessionVars, ops, faults>>

\* deleteByUserId, and deleteByUserIdWithExclude for a change of password.
EndSessions(p) ==
  /\ At(p, "end")
  /\ session' = [s \in Sessions |-> IF s \in Live \ {proc[p].s}
                                    THEN [session[s] EXCEPT !.state = "gone"] ELSE session[s]]
  /\ excused' = excused \cup ({proc[p].s} \cap Sessions)
  /\ Goto(p, "compare")
  /\ UNCHANGED <<rowVars, otpVars, held, opener, redeemed, lost, ops, faults>>

\* Mutant: a password that comes with the row is hashed in any case.
CompareAlways(p) ==
  /\ At(p, "compare")
  /\ proc' = [proc EXCEPT ![p].at = "find",
       ![p].password = IF @ \in Passwords THEN @
                       ELSE IF proc[p].row.password = "none" THEN "keep" ELSE "rehashed"]
  /\ UNCHANGED <<rowVars, sessionVars, otpVars, ops, faults>>

\* UsersService.update compares a password it is given with the row: what differs is
\* taken for plain text and hashed, be it the hash of an older password.
Compare(p) ==
  /\ At(p, "compare")
  /\ proc' = [proc EXCEPT ![p].at = "find",
       ![p].password = IF @ \in Passwords THEN @
                       ELSE IF proc[p].row.password \in {"none", user.password} THEN "keep"
                       ELSE "rehashed"]
  /\ UNCHANGED <<rowVars, sessionVars, otpVars, ops, faults>>

Whole == {"confirm", "address", "reset", "social"}

\* UsersRepository.update reads the row again; all it takes from it is the phone number.
Find(p) ==
  /\ At(p, "find")
  /\ proc' = [proc EXCEPT ![p].at = "save",
       ![p].row.phone = IF proc[p].op \in Whole \cup {"profile"} THEN @ ELSE user.phone]
  /\ UNCHANGED <<rowVars, sessionVars, otpVars, ops, faults>>

\* What a request is about; whatever else it writes, it means to leave as it is.
Meant(r) ==
  [meant EXCEPT !.status = IF r.op \in {"confirm", "address"} THEN "active" ELSE @,
                !.email = IF r.op = "address" THEN "second" ELSE @,
                !.password = IF r.op \in {"reset", "change"} THEN r.password ELSE @,
                !.phone = IF r.op = "profile" THEN "second" ELSE @]

\* Every defined field is written.
Save(p) ==
  LET r == proc[p] IN
  /\ At(p, "save")
  /\ user' = [user EXCEPT !.status = IF r.op \in Whole THEN r.row.status ELSE @,
                          !.email = IF r.op \in Whole THEN r.row.email ELSE @,
                          !.password = IF r.password = "keep" THEN @ ELSE r.password,
                          !.phone = r.row.phone]
  /\ meant' = Meant(r)
  /\ raced' = (raced \/ r.stale)
  /\ proc' = [q \in Procs |->
                IF q # p THEN [proc[q] EXCEPT !.stale = (proc[q].at # "idle")]
                ELSE IF r.op = "social" THEN [r EXCEPT !.at = "open", !.by = "social"] ELSE Idle]
  /\ UNCHANGED <<sessionVars, otpVars, ops, faults>>
-----------------------------------------------------------------------------
(* Sessions.                                                                *)

\* validateLogin: the password matches the row that was read.
Login(p) ==
  /\ user.status # "none" /\ user.provider = "email" /\ user.password \in Passwords
  /\ Begin(p, [Request(p, "login", "open") EXCEPT !.by = user.password])
  /\ UNCHANGED <<rowVars, sessionVars, otpVars>>

\* validateSocialLogin: a user of that network is saved as read, one found by address is not.
SocialLogin(p) ==
  /\ user.status # "none"
  /\ Begin(p, IF user.provider = "social" THEN Request(p, "social", "compare")
              ELSE [Request(p, "social", "open") EXCEPT !.by = "social"])
  /\ UNCHANGED <<rowVars, sessionVars, otpVars>>

Changing(q) == proc[q].op \in {"reset", "change"}

Open(p) ==
  /\ At(p, "open")
  /\ \E s \in Sessions :
       /\ session[s].state = "none" /\ \A r \in Sessions : r < s => session[r].state # "none"
       /\ session' = [session EXCEPT ![s].state = "live"]
       /\ held' = held \cup {<<s, 0>>}
       /\ opener' = [opener EXCEPT ![s] = proc[p].by]
       /\ excused' = IF proc[p].stale \/ \E q \in Procs : Changing(q)
                     THEN excused \cup {s} ELSE excused
  /\ opened' = IF proc[p].c = 0 THEN opened ELSE [opened EXCEPT ![proc[p].c] = @ + 1]
  /\ End(p)
  /\ UNCHANGED <<rowVars, otp, wrong, crossed, vanished, redeemed, lost, ops, faults>>

\* Mutant: the hash is checked by a statement of its own.
RefreshUnchecked(p, t) ==
  /\ t \in held
  /\ session[t[1]].hash < MaxOps
  /\ session' = [session EXCEPT ![t[1]].hash = @ + 1]
  /\ redeemed' = [redeemed EXCEPT ![t] = @ + 1]
  /\ Begin(p, [Idle EXCEPT !.at = "load", !.s = t[1], !.c = session[t[1]].hash + 1])
  /\ UNCHANGED <<rowVars, otpVars, held, opener, excused, lost>>

\* refreshToken: UPDATE WHERE id and hash, whether the session was removed or not.
Refresh(p, t) ==
  /\ t \in held
  /\ session[t[1]].hash = t[2]
  /\ session' = [session EXCEPT ![t[1]].hash = @ + 1]
  /\ redeemed' = [redeemed EXCEPT ![t] = @ + 1]
  /\ Begin(p, [Idle EXCEPT !.at = "load", !.s = t[1], !.c = t[2] + 1])
  /\ UNCHANGED <<rowVars, otpVars, held, opener, excused, lost>>

\* The session is read again: a removed one is not found.
Load(p) ==
  /\ At(p, "load")
  /\ held' = IF proc[p].s \in Live THEN held \cup {<<proc[p].s, proc[p].c>>} ELSE held
  /\ End(p)
  /\ UNCHANGED <<rowVars, otpVars, session, opener, excused, redeemed, lost, ops, faults>>

Logout(p, s) ==
  /\ session[s].state = "live"
  /\ Begin(p, Idle)
  /\ session' = [session EXCEPT ![s].state = "gone"]
  /\ UNCHANGED <<rowVars, otpVars, held, opener, excused, redeemed, lost>>
-----------------------------------------------------------------------------
(* One-time codes.                                                          *)

\* Codes another request has read are in two hands.
Shared(p, c) ==
  IF c # 0 /\ \E q \in Procs \ {p} : proc[q].at \in {"clear", "create", "drop", "count"}
  THEN crossed \cup {c} ELSE crossed

\* sendOtp: an account without row gets one. A code that was sent within a minute is
\* not replaced.
SendOtp(p) ==
  /\ \A c \in LiveCodes : c = Latest => otp[c].age # "recent"
  /\ Begin(p, [Idle EXCEPT !.op = "send", !.at = "clear", !.c = Latest])
  /\ user' = IF user.status = "none" THEN [NoRow EXCEPT !.status = "active"] ELSE user
  /\ meant' = IF user.status = "none" THEN user' ELSE meant
  /\ crossed' = Shared(p, Latest)
  /\ UNCHANGED <<raced, sessionVars, otp, wrong, opened, vanished>>

Cleared == [c \in Codes |-> IF c \in LiveCodes THEN [otp[c] EXCEPT !.state = "gone"] ELSE otp[c]]

\* deleteByUserId.
Clear(p) ==
  /\ At(p, "clear")
  /\ otp' = Cleared
  /\ vanished' = vanished \cup (LiveCodes \ {proc[p].c})
  /\ Goto(p, "create")
  /\ UNCHANGED <<rowVars, sessionVars, wrong, crossed, opened, ops, faults>>

CreateOtp(p) ==
  /\ At(p, "create")
  /\ \E c \in Codes :
       /\ otp[c].state = "none" /\ \A d \in Codes : d < c => otp[d].state # "none"
       /\ otp' = [otp EXCEPT ![c].state = "live"]
       /\ crossed' = Shared(p, c)
  /\ End(p)
  /\ UNCHANGED <<rowVars, sessionVars, wrong, opened, vanished, ops, faults>>

\* Mutant: one attempt too many.
VerifyOtpOnceMore(p, right) ==
  /\ Latest # 0
  /\ LET over == otp[Latest].age = "expired" \/ otp[Latest].attempts > MaxAttempts
     IN Begin(p, [Idle EXCEPT !.op = IF over \/ ~right THEN "refuse" ELSE "verify", !.c = Latest,
                              !.at = IF over \/ right THEN "drop" ELSE "count"])
  /\ wrong' = IF proc'[p].at = "count" THEN [wrong EXCEPT ![Latest] = @ + 1] ELSE wrong
  /\ crossed' = Shared(p, Latest)
  /\ UNCHANGED <<rowVars, sessionVars, otp, opened, vanished>>

\* verifyOtp: a code that expired or was tried too often is deleted and refused.
VerifyOtp(p, right) ==
  /\ Latest # 0
  /\ LET over == otp[Latest].age = "expired" \/ otp[Latest].attempts >= MaxAttempts
     IN Begin(p, [Idle EXCEPT !.op = IF over \/ ~right THEN "refuse" ELSE "verify", !.c = Latest,
                              !.at = IF over \/ right THEN "drop" ELSE "count"])
  /\ wrong' = IF proc'[p].at = "count" THEN [wrong EXCEPT ![Latest] = @ + 1] ELSE wrong
  /\ crossed' = Shared(p, Latest)
  /\ UNCHANGED <<rowVars, sessionVars, otp, opened, vanished>>

\* The increment is one UPDATE; a deleted row is left alone.
CountAttempt(p) ==
  /\ At(p, "count")
  /\ otp' = IF proc[p].c \in LiveCodes THEN [otp EXCEPT ![proc[p].c].attempts = @ + 1] ELSE otp
  /\ End(p)
  /\ UNCHANGED <<rowVars, sessionVars, wrong, crossed, opened, vanished, ops, faults>>

\* Mutant: a code that was used is kept.
DropRefused(p) ==
  /\ At(p, "drop")
  /\ otp' = IF proc[p].op = "verify" THEN otp ELSE Cleared
  /\ vanished' = vanished \cup (LiveCodes \ {proc[p].c})
  /\ proc' = [proc EXCEPT ![p] = IF @.op = "verify" THEN [@ EXCEPT !.at = "open", !.by = "code"]
                                 ELSE Idle]
  /\ UNCHANGED <<rowVars, sessionVars, wrong, crossed, opened, ops, faults>>

\* All codes of the user are deleted; the right one opens a session.
Drop(p) ==
  /\ At(p, "drop")
  /\ otp' = Cleared
  /\ vanished' = vanished \cup (LiveCodes \ {proc[p].c})
  /\ proc' = [proc EXCEPT ![p] = IF @.op = "verify" THEN [@ EXCEPT !.at = "open", !.by = "code"]
                                 ELSE Idle]
  /\ UNCHANGED <<rowVars, sessionVars, wrong, crossed, opened, ops, faults>>

\* A minute, and five minutes, pass.
Age(c) ==
  /\ c \in LiveCodes /\ otp[c].age # "expired"
  /\ otp' = [otp EXCEPT ![c].age = IF @ = "recent" THEN "old" ELSE "expired"]
  /\ UNCHANGED <<rowVars, sessionVars, wrong, crossed, opened, vanished, proc, ops, faults>>
-----------------------------------------------------------------------------
Row(p) ==
  \/ \E row \in NewRows : Register(p, row)
  \/ ConfirmEmail(p) \/ ConfirmNewEmail(p) \/ UpdateProfile(p)
  \/ \E w \in Passwords : ResetPassword(p, w) \/ \E s \in Sessions : ChangePassword(p, s, w)
  \/ EndSessions(p) \/ Compare(p) \/ Find(p) \/ Save(p)

Session(p) ==
  \/ Login(p) \/ SocialLogin(p) \/ Open(p) \/ Load(p)
  \/ \E t \in Tokens : Refresh(p, t)
  \/ \E s \in Sessions : Logout(p, s)

Code(p) ==
  \/ SendOtp(p) \/ Clear(p) \/ CreateOtp(p)
  \/ \E right \in BOOLEAN : VerifyOtp(p, right)
  \/ CountAttempt(p) \/ Drop(p)

Next ==
  \/ \E p \in Procs : Row(p) \/ Session(p) \/ Code(p) \/ Die(p)
  \/ \E c \in Codes : Age(c)

Spec == Init /\ [][Next]_vars
-----------------------------------------------------------------------------
\* Every variable has its type.
TypeOK ==
  /\ user.status \in {"none", "inactive", "active"} /\ user.password \in Stored
  /\ user.provider \in {"email", "social"} /\ {user.email, user.phone} \subseteq {"first", "second"}
  /\ session \in [Sessions -> [state : {"none", "live", "gone"}, hash : 0..MaxOps]]
  /\ otp \in [Codes -> [state : {"none", "live", "gone"}, age : {"recent", "old", "expired"},
                        attempts : 0..MaxAttempts + Cardinality(Procs) - 1]]
  /\ \A p \in Procs :
       proc[p].at \in {"idle", "open", "load", "end", "compare", "find", "save",
                       "clear", "create", "drop", "count"}
  /\ held \subseteq Tokens

\* Unless a row was saved that had changed since it was read, the row is what the
\* requests on it meant: no confirmation, password, address or phone number is undone by a
\* request about something else, and the password is one the user chose.
UpdatesSurvive == ~raced => user = meant

\* A session that was opened with a password ends before the next password is saved,
\* unless it was opened beside the change or is the one that asked for it.
PasswordOwnsSessions ==
  raced \/ \A s \in Live \ excused : opener[s] \in Passwords => opener[s] = user.password

\* A refresh token is exchanged once, however many requests bring it at the same time; and
\* a live session always has its newest token with its client or in the answer on its way,
\* unless the answer was lost: then nobody can refresh it any more.
TokensRotate ==
  /\ \A t \in Tokens : redeemed[t] <= 1
  /\ \A s \in Live \ lost :
       \/ <<s, session[s].hash>> \in held
       \/ \E p \in Procs : At(p, "load") /\ proc[p].s = s /\ proc[p].c = session[s].hash

\* A code is guessed at most as often as it may, and once more by every other request that
\* read it before the last guess was counted, and by every one that died uncounted. It
\* opens one session, and is deleted by a request that read it, unless two requests had it
\* in hand.
CodesServeOnce ==
  /\ \A c \in Codes : wrong[c] <= MaxAttempts + Cardinality(Procs) - 1 + faults
  /\ \A c \in Codes \ crossed : opened[c] <= 1
  /\ vanished \subseteq crossed
=============================================================================
