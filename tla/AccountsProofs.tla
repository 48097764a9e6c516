--------------------------- MODULE AccountsProofs ---------------------------
(* What the requests on an account may rely on, for any number of them, any      *)
(* passwords, sessions and codes.                                             *)
EXTENDS Accounts, TLAPS, FiniteSetTheorems, WellFoundedInduction

Places == {"idle", "open", "load", "end", "compare", "find", "save",
           "clear", "create", "drop", "count"}

Ops == {"none", "register", "confirm", "address", "profile", "reset", "change", "login",
        "social", "send", "verify", "refuse"}

Rows == [status : {"none", "inactive", "active"}, password : Stored,
         provider : {"email", "social"}, email : {"first", "second"},
         phone : {"first", "second"}]

Requested == [at : Places, op : Ops, row : Rows, password : Passwords \cup {"keep", "rehashed"},
              s : 0..MaxSessions, c : Nat, by : Stored \cup {"social", "code"}, stale : BOOLEAN]

States == {"none", "live", "gone"}

\* The types, without the bound on the attempts.
Types ==
  /\ user \in Rows /\ meant \in Rows /\ raced \in BOOLEAN
  /\ session \in [Sessions -> [state : States, hash : 0..MaxOps]]
  /\ otp \in [Codes -> [state : States, age : {"recent", "old", "expired"}, attempts : Nat]]
  /\ proc \in [Procs -> Requested]
  /\ held \subseteq Tokens /\ redeemed \in [Tokens -> Nat]
  /\ opener \in [Sessions -> Stored \cup {"social", "code"}]
  /\ excused \subseteq Sessions /\ lost \subseteq Sessions
  /\ wrong \in [Codes -> Nat] /\ opened \in [Codes -> Nat]
  /\ crossed \subseteq Codes /\ vanished \subseteq Codes
  /\ ops \in 0..MaxOps /\ faults \in Nat

Writing == {"end", "compare", "find", "save"}

\* What a request that saves the row has in hand, and what of it is still right.
Same(r) ==
  /\ r.op \in {"confirm", "address", "reset", "social"} =>
       /\ r.row.password = user.password
       /\ r.row.status = IF r.op \in {"confirm", "address"} THEN "active" ELSE user.status
       /\ r.row.email = IF r.op = "address" THEN "second" ELSE user.email
       /\ r.row.phone = user.phone
  /\ r.op = "change" /\ r.at = "save" => r.row.phone = user.phone

Writes(r) ==
  r.at \in Writing =>
    /\ r.op \in Whole \cup {"profile", "change"}
    /\ user.status # "none" /\ r.row.status # "none"
    /\ r.c = 0 /\ (r.op = "profile" => r.row.phone = "second")
    /\ r.op \in {"reset", "change"} => r.password \in Passwords
    /\ r.at = "end" => r.op \in {"reset", "change"}
    /\ r.at = "compare" => r.op # "profile"
    /\ ~r.stale /\ ~raced =>
         Same(r) /\ (r.op \notin {"reset", "change"} => r.password = "keep")

\* The row is what was meant, and a password that was compared is the row's.
RowInv ==
  /\ user.status = "none" => user.password = "none"
  /\ ~raced => user = meant
  /\ \A p \in Procs : Writes(proc[p])

\* A request that opens a session has compared the row's password, unless it is stale, and
\* one that changes the password has ended the sessions before it saves.
Opens(r) ==
  /\ r.at = "open" /\ ~r.stale /\ ~raced /\ r.by \in Passwords => r.by = user.password
  /\ r.op \in {"reset", "change"} =>
       r.at \in Writing /\ (r.at # "end" => Live \subseteq excused)

OwnerInv == PasswordOwnsSessions /\ \A p \in Procs : Opens(proc[p])

\* Tokens that were not handed out are not exchanged, and the newest is with its client.
TokenInv ==
  /\ TokensRotate
  /\ \A t \in Tokens : session[t[1]].hash <= t[2] => redeemed[t] = 0
  /\ \A s \in Sessions : session[s].hash <= ops /\ (session[s].state = "none" => session[s].hash = 0)
  /\ \A t \in held : session[t[1]].state # "none"
  /\ \A p \in Procs : At(p, "load") =>
       proc[p].s \in Sessions /\ proc[p].c \in 0..MaxOps /\ session[proc[p].s].state # "none"

Guessing(c) == {p \in Procs : At(p, "count") /\ proc[p].c = c}

Most == MaxAttempts + Cardinality(Procs) - 1

\* Every guess at a code is counted, on its way, or was lost with its request.
GuessInv ==
  \A c \in Codes :
    /\ otp[c].attempts + Cardinality(Guessing(c)) <= Most
    /\ otp[c].state = "none" => wrong[c] = 0
    /\ otp[c].state = "live" => wrong[c] <= otp[c].attempts + Cardinality(Guessing(c)) + faults
    /\ wrong[c] <= Most + faults

Serves(p, c) == proc[p].op = "verify" /\ proc[p].at \in {"drop", "open"} /\ proc[p].c = c

\* One request serves a code that is not in two hands, and it is gone when it does.
ServeInv ==
  /\ \A c \in Codes \ crossed :
       /\ opened[c] <= 1 /\ (opened[c] # 0 => otp[c].state = "gone")
       /\ \A p \in Procs : Serves(p, c) =>
            /\ opened[c] = 0 /\ otp[c].state # "none"
            /\ At(p, "open") => otp[c].state = "gone"
            /\ \A q \in Procs : Serves(q, c) => p = q
  /\ \A p \in Procs :
       /\ At(p, "open") /\ proc[p].c # 0 => proc[p].op = "verify" /\ proc[p].c \in Codes
       /\ At(p, "drop") /\ proc[p].op = "verify" => proc[p].c \in Codes
       /\ At(p, "count") => proc[p].c \in Codes

\* A request that deletes codes has the only one in hand that is in no other's.
ClearInv ==
  /\ vanished \subseteq crossed
  /\ \A c, d \in Codes : c < d /\ otp[c].state = "none" => otp[d].state = "none"
  /\ \A c, d \in LiveCodes : c < d => c \in crossed
  /\ \A p \in Procs :
       /\ proc[p].at \in {"clear", "drop"} => LiveCodes \ {proc[p].c} \subseteq crossed
       /\ At(p, "create") => LiveCodes \subseteq crossed

IInv == Types /\ RowInv /\ OwnerInv /\ TokenInv /\ GuessInv /\ ServeInv /\ ClearInv

LEMMA IdleTyped == Idle \in Requested /\ NoRow \in Rows
BY AccountsAssumption DEF Idle, NoRow, Requested, Rows, Ops, Places, Stored

LEMMA NewRowsTyped == NewRows \subseteq Rows
BY AccountsAssumption DEF NewRows, NoRow, Rows, Stored

LEMMA ConstantsAreNats ==
  /\ MaxOps \in Nat /\ MaxSessions \in Nat /\ MaxCodes \in Nat
  /\ MaxFaults \in Nat /\ MaxAttempts \in Nat
  /\ Cardinality(Procs) \in Nat /\ Cardinality(Procs) >= 1
  /\ 0 \in 0..MaxOps
<1>1. Cardinality(Procs) \in Nat /\ Cardinality(Procs) # 0
  BY AccountsAssumption, FS_CardinalityType, FS_EmptySet
<1> QED BY <1>1, AccountsAssumption

LEMMA InitTypes == Init => Types
<1> SUFFICES ASSUME Init PROVE Types OBVIOUS
<1> USE DEF Init
<1>1. user \in Rows /\ meant \in Rows
  <2>1. user \in {NoRow} \cup NewRows
    BY DEF NewRows
  <2> QED BY <2>1, IdleTyped, NewRowsTyped
<1>2. proc \in [Procs -> Requested]
  BY IdleTyped
<1>3. session \in [Sessions -> [state : States, hash : 0..MaxOps]] /\ ops \in 0..MaxOps
  <2>1. [state |-> "none", hash |-> 0] \in [state : States, hash : 0..MaxOps]
    BY ConstantsAreNats DEF States
  <2> QED BY <2>1, ConstantsAreNats
<1>4. otp \in [Codes -> [state : States, age : {"recent", "old", "expired"}, attempts : Nat]]
  <2>1. [state |-> "none", age |-> "recent", attempts |-> 0] \in
          [state : States, age : {"recent", "old", "expired"}, attempts : Nat]
    BY DEF States
  <2> QED BY <2>1
<1>5. redeemed \in [Tokens -> Nat] /\ opener \in [Sessions -> Stored \cup {"social", "code"}]
      /\ wrong \in [Codes -> Nat] /\ opened \in [Codes -> Nat] /\ raced = FALSE
      /\ held = {} /\ excused = {} /\ lost = {} /\ crossed = {} /\ vanished = {} /\ faults = 0
  BY DEF Stored
<1> HIDE DEF Init
<1> QED BY <1>1, <1>2, <1>3, <1>4, <1>5 DEF Types
-----------------------------------------------------------------------------
LEMMA BeginTyped ==
  ASSUME Types, NEW p \in Procs, NEW r \in Requested, Begin(p, r)
  PROVE  proc' \in [Procs -> Requested] /\ ops' \in 0..MaxOps /\ faults' \in Nat
BY AccountsAssumption DEF Begin, Types

LEMMA EndTyped ==
  ASSUME Types, NEW p \in Procs, End(p)
  PROVE  proc' \in [Procs -> Requested]
BY IdleTyped DEF End, Types

LEMMA GotoTyped ==
  ASSUME Types, NEW p \in Procs, NEW l \in Places, Goto(p, l)
  PROVE  proc' \in [Procs -> Requested]
<1>1. [proc[p] EXCEPT !.at = l] \in Requested
  BY DEF Types, Requested
<1> QED BY <1>1 DEF Goto, Types

LEMMA LeastNat ==
  ASSUME NEW N, N \subseteq Nat, N # {}
  PROVE  \E n \in N : \A m \in N : n <= m
<1>1. PICK R : R = OpToRel(<, Nat)
  OBVIOUS
<1>2. \A m, n \in Nat : m < n => <<m, n>> \in R
  BY <1>1 DEF OpToRel
<1>3. PICK n \in N : \A m \in N : <<m, n>> \notin R
  BY <1>1, NatLessThanWellFounded, WFMin
<1>4. ASSUME NEW m \in N
      PROVE  n <= m
  <2>1. m \in Nat /\ n \in Nat /\ ~(m < n)
    BY <1>2, <1>3
  <2> QED BY <2>1
<1> QED BY <1>4

\* Codes are counted, so there is a newest one.
LEMMA LatestIsNewest ==
  ASSUME LiveCodes # {}
  PROVE  Latest \in LiveCodes /\ \A d \in LiveCodes : d <= Latest
<1> DEFINE N == {MaxCodes - c : c \in LiveCodes}
<1>1. \A c \in LiveCodes : c \in Nat /\ MaxCodes - c \in Nat
  BY ConstantsAreNats DEF LiveCodes, Codes
<1>2. PICK n \in N : \A m \in N : n <= m
  <2>1. N \subseteq Nat /\ N # {}
    BY <1>1
  <2> QED BY <2>1, LeastNat
<1>3. PICK c \in LiveCodes : n = MaxCodes - c
  OBVIOUS
<1>4. ASSUME NEW d \in LiveCodes PROVE d <= c
  <2>1. MaxCodes - c <= MaxCodes - d
    BY <1>2, <1>3
  <2> QED BY <2>1, <1>1, ConstantsAreNats
<1> QED BY <1>4 DEF Latest

LEMMA LatestIsCode ==
  \/ LiveCodes = {} /\ Latest = 0
  \/ Latest \in LiveCodes /\ Latest \in Codes /\ \A d \in LiveCodes : d <= Latest
BY LatestIsNewest DEF Latest, LiveCodes

LEMMA RowRequestTypes ==
  ASSUME Types, NEW p \in Procs,
         \/ \E row \in NewRows : Register(p, row)
         \/ ConfirmEmail(p) \/ ConfirmNewEmail(p) \/ UpdateProfile(p)
         \/ \E w \in Passwords : ResetPassword(p, w) \/ \E s \in Sessions : ChangePassword(p, s, w)
  PROVE  Types'
<1>0. ASSUME NEW op \in Ops, NEW at \in Places
      PROVE  Request(p, op, at) \in Requested
  BY <1>0, IdleTyped DEF Request, Types, Requested
<1>1. ASSUME NEW row \in NewRows, Register(p, row) PROVE Types'
  <2>1. row \in Rows
    BY NewRowsTyped
  <2>2. [Idle EXCEPT !.op = "register", !.by = "social",
                     !.at = IF row.provider = "social" THEN "open" ELSE "idle"] \in Requested
    BY IdleTyped DEF Requested, Ops, Places
  <2> QED BY <1>1, <2>1, <2>2, BeginTyped DEF Register, Types, sessionVars, otpVars
<1>2. CASE ConfirmEmail(p)
  <2>0. Request(p, "confirm", "compare") \in Requested
    BY <1>0 DEF Ops, Places
  <2>1. [Request(p, "confirm", "compare") EXCEPT !.row.status = "active"] \in Requested
    BY <2>0 DEF Requested, Rows
  <2> QED BY <1>2, <2>1, BeginTyped DEF ConfirmEmail, Types, rowVars, sessionVars, otpVars
<1>3. CASE ConfirmNewEmail(p)
  <2>0. Request(p, "address", "compare") \in Requested
    BY <1>0 DEF Ops, Places
  <2>1. [Request(p, "address", "compare") EXCEPT !.row.status = "active",
                                                 !.row.email = "second"] \in Requested
    BY <2>0 DEF Requested, Rows
  <2> QED BY <1>3, <2>1, BeginTyped DEF ConfirmNewEmail, Types, rowVars, sessionVars, otpVars
<1>4. CASE UpdateProfile(p)
  <2>0. Request(p, "profile", "find") \in Requested
    BY <1>0 DEF Ops, Places
  <2>1. [Request(p, "profile", "find") EXCEPT !.row.phone = "second"] \in Requested
    BY <2>0 DEF Requested, Rows
  <2> QED BY <1>4, <2>1, BeginTyped DEF UpdateProfile, Types, rowVars, sessionVars, otpVars
<1>5. ASSUME NEW w \in Passwords, ResetPassword(p, w) PROVE Types'
  <2>0. Request(p, "reset", "end") \in Requested
    BY <1>0 DEF Ops, Places
  <2>1. [Request(p, "reset", "end") EXCEPT !.password = w] \in Requested
    BY <2>0 DEF Requested
  <2> QED BY <1>5, <2>1, BeginTyped DEF ResetPassword, Types, rowVars, sessionVars, otpVars
<1>6. ASSUME NEW w \in Passwords, NEW s \in Sessions, ChangePassword(p, s, w) PROVE Types'
  <2>0. Request(p, "change", "end") \in Requested
    BY <1>0 DEF Ops, Places
  <2>1. s \in 0..MaxSessions
    BY ConstantsAreNats DEF Sessions
  <2>2. [Request(p, "change", "end") EXCEPT !.password = w, !.s = s] \in Requested
    BY <2>0, <2>1 DEF Requested
  <2> QED BY <1>6, <2>2, BeginTyped DEF ChangePassword, Types, rowVars, sessionVars, otpVars
<1> QED BY <1>1, <1>2, <1>3, <1>4, <1>5, <1>6
LEMMA RequestTyped ==
  ASSUME NEW r \in Requested
  PROVE  /\ \A l \in Places : [r EXCEPT !.at = l] \in Requested
         /\ \A b \in BOOLEAN : [r EXCEPT !.stale = b] \in Requested
         /\ \A w \in Passwords \cup {"keep", "rehashed"} :
              [r EXCEPT !.at = "find", !.password = w] \in Requested
         /\ \A f \in {"first", "second"} : [r EXCEPT !.at = "save", !.row.phone = f] \in Requested
         /\ [r EXCEPT !.at = "open", !.by = "social"] \in Requested
         /\ [r EXCEPT !.at = "open", !.by = "code"] \in Requested
         /\ r.password \in Passwords \cup {"keep", "rehashed"}
         /\ r.row.phone \in {"first", "second"}
<1>1. ASSUME NEW f \in {"first", "second"}
      PROVE  [r EXCEPT !.at = "save", !.row.phone = f] \in Requested
  <2>1. r.row \in Rows
    BY DEF Requested
  <2>2. [r.row EXCEPT !.phone = f] \in Rows
    BY <2>1 DEF Rows
  <2>3. [r EXCEPT !.at = "save", !.row.phone = f]
          = [r EXCEPT !.at = "save", !.row = [r.row EXCEPT !.phone = f]]
    BY DEF Requested
  <2> QED BY <2>2, <2>3 DEF Requested, Places
<1>2. r.row.phone \in {"first", "second"}
  BY DEF Requested, Rows
<1>3. ASSUME NEW w \in Passwords \cup {"keep", "rehashed"}
      PROVE  [r EXCEPT !.at = "find", !.password = w] \in Requested
  BY DEF Requested, Places
<1>4. ASSUME NEW l \in Places PROVE [r EXCEPT !.at = l] \in Requested
  BY DEF Requested
<1>5. ASSUME NEW b \in BOOLEAN PROVE [r EXCEPT !.stale = b] \in Requested
  BY DEF Requested
<1>6. /\ [r EXCEPT !.at = "open", !.by = "social"] \in Requested
      /\ [r EXCEPT !.at = "open", !.by = "code"] \in Requested
  BY DEF Requested, Places
<1>7. r.password \in Passwords \cup {"keep", "rehashed"}
  BY DEF Requested
<1> QED BY <1>1, <1>2, <1>3, <1>4, <1>5, <1>6, <1>7

LEMMA RowStepTypes ==
  ASSUME Types, RowInv, NEW p \in Procs, EndSessions(p) \/ Compare(p) \/ Find(p) \/ Save(p)
  PROVE  Types'
<1>1. CASE EndSessions(p)
  <2> USE <1>1 DEF EndSessions
  <2>1. session' \in [Sessions -> [state : States, hash : 0..MaxOps]]
    <3>1. \A s \in Sessions :
            [session[s] EXCEPT !.state = "gone"] \in [state : States, hash : 0..MaxOps]
      BY DEF Types, States
    <3> QED BY <3>1 DEF Types
  <2>2. proc' \in [Procs -> Requested]
    BY GotoTyped DEF Places
  <2> QED BY <2>1, <2>2 DEF Types, rowVars, otpVars
<1>2. CASE Compare(p)
  <2> USE <1>2 DEF Compare
  <2>1. proc[p] \in Requested
    BY DEF Types
  <2>2. proc[p].password \in Passwords \cup {"keep", "rehashed"}
    BY <2>1, RequestTyped
  <2>3. PICK w \in Passwords \cup {"keep", "rehashed"} :
          proc' = [proc EXCEPT ![p] = [proc[p] EXCEPT !.at = "find", !.password = w]]
    BY <2>2 DEF Types
  <2>4. proc' \in [Procs -> Requested]
    <3>1. [proc[p] EXCEPT !.at = "find", !.password = w] \in Requested
      BY <2>1, RequestTyped
    <3> QED BY <2>3, <3>1 DEF Types
  <2> QED BY <2>4 DEF Types, rowVars, sessionVars, otpVars
<1>3. CASE Find(p)
  <2> USE <1>3 DEF Find
  <2>1. proc[p] \in Requested
    BY DEF Types
  <2>2. proc[p].row.phone \in {"first", "second"} /\ user.phone \in {"first", "second"}
    BY <2>1, RequestTyped DEF Types, Rows
  <2>3. PICK f \in {"first", "second"} :
          f = IF proc[p].op \in Whole \cup {"profile"} THEN proc[p].row.phone ELSE user.phone
    BY <2>2
  <2>4. /\ proc'[p] = [proc[p] EXCEPT !.at = "save", !.row.phone = f]
        /\ \A q \in Procs \ {p} : proc'[q] = proc[q]
        /\ proc' = [q \in Procs |-> proc'[q]]
    <3>0. proc = [q \in Procs |-> proc[q]]
      BY DEF Types
    <3>1. proc'[p] = [proc[p] EXCEPT !.at = "save", !.row.phone = f]
      BY <2>1, <2>3, <3>0 DEF Requested
    <3>2. \A q \in Procs \ {p} : proc'[q] = proc[q]
      BY <3>0
    <3>3. proc' = [q \in Procs |-> proc'[q]]
      BY <3>0
    <3> QED BY <3>1, <3>2, <3>3
  <2>5. proc' \in [Procs -> Requested]
    <3>1. [proc[p] EXCEPT !.at = "save", !.row.phone = f] \in Requested
      BY <2>1, RequestTyped
    <3>2. \A q \in Procs : proc'[q] \in Requested
      BY <2>4, <3>1 DEF Types
    <3> QED BY <2>4, <3>2
  <2> QED BY <2>5 DEF Types, rowVars, sessionVars, otpVars
<1>4. CASE Save(p)
  <2> USE <1>4 DEF Save
  <2>1. proc[p] \in Requested /\ user \in Rows /\ meant \in Rows
    BY DEF Types
  <2>2. user' \in Rows
    BY <2>1 DEF Requested, Rows, Stored
  <2>3. meant' \in Rows
    <3>1. proc[p].op \in {"reset", "change"} => proc[p].password \in Stored
      BY DEF At, RowInv, Writes, Writing, Stored
    <3> QED BY <2>1, <3>1 DEF Meant, Rows
  <2>4. raced' \in BOOLEAN
    BY <2>1 DEF Types, Requested
  <2>5. proc' \in [Procs -> Requested]
    <3>1. [proc[p] EXCEPT !.at = "open", !.by = "social"] \in Requested
      BY <2>1, RequestTyped
    <3>2. \A q \in Procs, b \in BOOLEAN : [proc[q] EXCEPT !.stale = b] \in Requested
      BY RequestTyped DEF Types
    <3> QED BY <3>1, <3>2, IdleTyped
  <2> QED BY <2>2, <2>3, <2>4, <2>5 DEF Types, sessionVars, otpVars
<1> QED BY <1>1, <1>2, <1>3, <1>4

LEMMA SessionTypes ==
  ASSUME Types, TokenInv, NEW p \in Procs,
         Session(p) \/ Die(p)
  PROVE  Types'
<1> USE DEF rowVars, otpVars, sessionVars
<1>0. MaxOps \in Nat /\ MaxSessions \in Nat
  BY ConstantsAreNats
<1>1. CASE Login(p)
  <2>1. Request(p, "login", "open") \in Requested
    BY IdleTyped DEF Request, Types, Requested, Ops, Places
  <2>2. user.password \in Stored
    BY DEF Types, Rows
  <2>3. [Request(p, "login", "open") EXCEPT !.by = user.password] \in Requested
    BY <2>1, <2>2 DEF Requested
  <2> QED BY <1>1, <2>3, BeginTyped DEF Login, Types
<1>2. CASE SocialLogin(p)
  <2>1. /\ Request(p, "social", "open") \in Requested
        /\ Request(p, "social", "compare") \in Requested
    BY IdleTyped DEF Request, Types, Requested, Ops, Places
  <2>2. [Request(p, "social", "open") EXCEPT !.by = "social"] \in Requested
    BY <2>1 DEF Requested
  <2> QED BY <1>2, <2>1, <2>2, BeginTyped DEF SocialLogin, Types
<1>3. CASE Open(p)
  <2>1. PICK s \in Sessions :
          /\ session' = [session EXCEPT ![s].state = "live"]
          /\ held' = held \cup {<<s, 0>>}
          /\ opener' = [opener EXCEPT ![s] = proc[p].by]
          /\ excused' = IF proc[p].stale \/ \E q \in Procs : Changing(q)
                        THEN excused \cup {s} ELSE excused
    BY <1>3 DEF Open
  <2>2. session' \in [Sessions -> [state : States, hash : 0..MaxOps]]
    <3>1. [session[s] EXCEPT !.state = "live"] \in [state : States, hash : 0..MaxOps]
      BY DEF Types, States
    <3> QED BY <2>1, <3>1 DEF Types
  <2>3. held' \subseteq Tokens
    BY <1>0, <2>1 DEF Types, Tokens
  <2>4. opener' \in [Sessions -> Stored \cup {"social", "code"}]
    BY <2>1 DEF Types, Requested
  <2>5. opened' \in [Codes -> Nat]
    <3>1. opened' = opened \/ opened' = [opened EXCEPT ![proc[p].c] = opened[proc[p].c] + 1]
      BY <1>3 DEF Open
    <3> QED BY <3>1 DEF Types
  <2>6. proc' \in [Procs -> Requested]
    BY <1>3, EndTyped DEF Open
  <2> QED BY <1>3, <2>1, <2>2, <2>3, <2>4, <2>5, <2>6 DEF Open, Types
<1>4. CASE Load(p)
  <2>1. held' \subseteq Tokens
    BY <1>4 DEF Load, Types, Tokens, TokenInv
  <2> QED BY <1>4, <2>1, EndTyped DEF Load, Types
<1>5. ASSUME NEW t \in Tokens, Refresh(p, t) PROVE Types'
  <2>1. t[1] \in Sessions /\ t[2] \in 0..MaxOps
    BY DEF Tokens
  <2>2. session[t[1]] \in [state : States, hash : 0..MaxOps] /\ session[t[1]].hash <= ops /\ ops < MaxOps
        /\ ops \in 0..MaxOps /\ t[2] = session[t[1]].hash
    BY <1>5, <2>1 DEF Types, TokenInv, Refresh, Begin
  <2>3. session[t[1]].hash + 1 \in 0..MaxOps /\ t[2] + 1 \in Nat /\ t[1] \in 0..MaxSessions
    BY <1>0, <2>1, <2>2 DEF Sessions
  <2>4. [session[t[1]] EXCEPT !.hash = @ + 1] \in [state : States, hash : 0..MaxOps]
    BY <2>2, <2>3
  <2>5. session' \in [Sessions -> [state : States, hash : 0..MaxOps]]
    BY <1>5, <2>1, <2>4 DEF Refresh, Types
  <2>6. redeemed' \in [Tokens -> Nat]
    BY <1>5 DEF Refresh, Types
  <2>7. [Idle EXCEPT !.at = "load", !.s = t[1], !.c = t[2] + 1] \in Requested
    BY <2>3, IdleTyped DEF Requested, Places
  <2> QED BY <1>5, <2>5, <2>6, <2>7, BeginTyped DEF Refresh, Types
<1>6. ASSUME NEW s \in Sessions, Logout(p, s) PROVE Types'
  <2>1. [session[s] EXCEPT !.state = "gone"] \in [state : States, hash : 0..MaxOps]
    BY DEF Types, States
  <2> QED BY <1>6, <2>1, IdleTyped, BeginTyped DEF Logout, Types
<1>7. CASE Die(p)
  <2>1. lost' \subseteq Sessions
    BY <1>7 DEF Die, Types, TokenInv
  <2> QED BY <1>7, <2>1, EndTyped DEF Die, Types
<1> QED BY <1>1, <1>2, <1>3, <1>4, <1>5, <1>6, <1>7 DEF Session

LEMMA CodeTypes ==
  ASSUME Types, ServeInv, NEW p \in Procs,
         Code(p) \/ \E c \in Codes : Age(c)
  PROVE  Types'
<1> USE DEF rowVars, otpVars, sessionVars
<1> DEFINE Code1 == [state : States, age : {"recent", "old", "expired"}, attempts : Nat]
<1>0. MaxCodes \in Nat
  BY ConstantsAreNats
<1>1. Latest = 0 \/ Latest \in Codes
  BY LatestIsCode
<1>2. \A c \in Codes : [otp[c] EXCEPT !.state = "gone"] \in Code1 /\ [otp[c] EXCEPT !.state = "live"] \in Code1
        /\ [otp[c] EXCEPT !.age = "old"] \in Code1 /\ [otp[c] EXCEPT !.age = "expired"] \in Code1
        /\ [otp[c] EXCEPT !.attempts = @ + 1] \in Code1
  BY DEF Types, States
<1>3. Cleared \in [Codes -> Code1]
  BY <1>2 DEF Cleared, Types
<1>4. \A c \in Codes \cup {0} : Shared(p, c) \subseteq Codes
  BY DEF Shared, Types
<1> HIDE DEF Code1
<1>5. CASE SendOtp(p)
  <2>1. [NoRow EXCEPT !.status = "active"] \in Rows
    BY IdleTyped DEF Rows
  <2>2. [Idle EXCEPT !.op = "send", !.at = "clear", !.c = Latest] \in Requested
    <3>1. Latest \in Nat
      BY <1>0, <1>1 DEF Codes
    <3> QED BY <3>1, IdleTyped DEF Requested, Ops, Places
  <2> QED BY <1>1, <1>4, <1>5, <2>1, <2>2, BeginTyped DEF SendOtp, Types
<1>6. CASE Clear(p)
  <2>1. proc' \in [Procs -> Requested]
    BY <1>6, GotoTyped DEF Clear, Places
  <2> QED BY <1>3, <1>6, <2>1 DEF Clear, Types, LiveCodes, Code1
<1>7. CASE CreateOtp(p)
  <2>1. PICK c \in Codes : otp' = [otp EXCEPT ![c].state = "live"] /\ crossed' = Shared(p, c)
    BY <1>7 DEF CreateOtp
  <2>2. otp' \in [Codes -> Code1]
    BY <1>2, <2>1 DEF Types, Code1
  <2> QED BY <1>4, <1>7, <2>1, <2>2, EndTyped DEF CreateOtp, Types, Code1
<1>8. ASSUME NEW right \in BOOLEAN, VerifyOtp(p, right) PROVE Types'
  <2>1. Latest \in Codes /\ Latest \in Nat
    BY <1>0, <1>1, <1>8 DEF VerifyOtp, Codes
  <2>2. \A op \in {"refuse", "verify"}, at \in {"drop", "count"} :
          [Idle EXCEPT !.op = op, !.c = Latest, !.at = at] \in Requested
    BY <2>1, IdleTyped DEF Requested, Ops, Places
  <2>3. PICK r \in Requested : Begin(p, r)
    BY <1>8, <2>2 DEF VerifyOtp
  <2>4. wrong' \in [Codes -> Nat]
    BY <1>8, <2>1 DEF VerifyOtp, Types
  <2> QED BY <1>4, <1>8, <2>1, <2>3, <2>4, BeginTyped DEF VerifyOtp, Types
<1>9. CASE CountAttempt(p)
  <2>1. otp' \in [Codes -> Code1]
    BY <1>2, <1>9 DEF CountAttempt, Types, LiveCodes, Code1
  <2> QED BY <1>9, <2>1, EndTyped DEF CountAttempt, Types, Code1
<1>10. CASE Drop(p)
  <2>1. [proc[p] EXCEPT !.at = "open", !.by = "code"] \in Requested
    BY RequestTyped DEF Types
  <2>2. proc' \in [Procs -> Requested]
    BY <1>10, <2>1, IdleTyped DEF Drop, Types
  <2> QED BY <1>3, <1>10, <2>2 DEF Drop, Types, LiveCodes, Code1
<1>11. ASSUME NEW c \in Codes, Age(c) PROVE Types'
  <2>1. otp' \in [Codes -> Code1]
    BY <1>2, <1>11 DEF Age, Types, Code1
  <2> QED BY <1>11, <2>1 DEF Age, Types, Code1
<1> QED BY <1>5, <1>6, <1>7, <1>8, <1>9, <1>10, <1>11 DEF Code
(* Where a step leaves the requests.                                        *)

LEMMA BeginAt ==
  ASSUME Types, NEW p \in Procs, NEW r, Begin(p, r)
  PROVE  /\ proc[p].at = "idle" /\ proc'[p] = r /\ \A q \in Procs \ {p} : proc'[q] = proc[q]
         /\ ops < MaxOps /\ ops' = ops + 1 /\ faults' = faults
BY DEF Begin, At, Types

LEMMA EndAt ==
  ASSUME Types, NEW p \in Procs, End(p)
  PROVE  proc'[p] = Idle /\ \A q \in Procs \ {p} : proc'[q] = proc[q]
BY DEF End, Types

LEMMA GotoAt ==
  ASSUME Types, NEW p \in Procs, NEW l, Goto(p, l)
  PROVE  /\ proc'[p] = [proc[p] EXCEPT !.at = l] /\ proc'[p].at = l
         /\ \A q \in Procs \ {p} : proc'[q] = proc[q]
BY DEF Goto, Types, Requested

LEMMA RequestIs ==
  ASSUME Types, NEW p, NEW op, NEW l
  PROVE  /\ Request(p, op, l).op = op /\ Request(p, op, l).at = l
         /\ Request(p, op, l).by = "none" /\ Request(p, op, l).c = 0
BY DEF Request, Idle

\* What a request that began has in hand.
LEMMA Begun ==
  ASSUME Types, NEW p \in Procs
  PROVE  /\ \A row \in NewRows : Register(p, row) =>
              proc'[p].at \in {"open", "idle"} /\ proc'[p].op = "register"
              /\ proc'[p].by = "social" /\ proc'[p].c = 0
         /\ ConfirmEmail(p) \/ ConfirmNewEmail(p) \/ UpdateProfile(p) =>
              proc'[p].at \in {"compare", "find"} /\ proc'[p].op \in {"confirm", "address", "profile"}
         /\ \A w \in Passwords : ResetPassword(p, w) =>
              proc'[p].at = "end" /\ proc'[p].op = "reset"
         /\ \A w \in Passwords, s \in Sessions : ChangePassword(p, s, w) =>
              proc'[p].at = "end" /\ proc'[p].op = "change"
         /\ Login(p) => proc'[p].at = "open" /\ proc'[p].op = "login"
                        /\ proc'[p].by = user.password /\ proc'[p].c = 0
         /\ SocialLogin(p) => proc'[p].at = (IF user.provider = "social" THEN "compare" ELSE "open")
                        /\ proc'[p].op = "social" /\ proc'[p].c = 0
                        /\ (proc'[p].at = "open" => proc'[p].by = "social")
         /\ \A t \in Tokens : Refresh(p, t) =>
              proc'[p].at = "load" /\ proc'[p].op = "none" /\ proc'[p].s = t[1] /\ proc'[p].c = t[2] + 1
         /\ \A s \in Sessions : Logout(p, s) => proc'[p] = Idle
         /\ SendOtp(p) => proc'[p].at = "clear" /\ proc'[p].op = "send" /\ proc'[p].c = Latest
<1>1. ASSUME NEW row \in NewRows, Register(p, row)
      PROVE  proc'[p].at \in {"open", "idle"} /\ proc'[p].op = "register"
              /\ proc'[p].by = "social" /\ proc'[p].c = 0
  <2> DEFINE r == [Idle EXCEPT !.op = "register", !.by = "social",
                     !.at = IF row.provider = "social" THEN "open" ELSE "idle"]
  <2>1. r.at \in {"open", "idle"} /\ r.op = "register" /\ r.by = "social" /\ r.c = Idle.c
    BY IdleTyped DEF Requested
  <2>2. Begin(p, r)
    BY <1>1 DEF Register
  <2> HIDE DEF r
  <2> QED BY <2>1, <2>2, BeginAt DEF Idle
<1>2. ASSUME ConfirmEmail(p) \/ ConfirmNewEmail(p) \/ UpdateProfile(p)
      PROVE  proc'[p].at \in {"compare", "find"} /\ proc'[p].op \in {"confirm", "address", "profile"}
  <2>1. \/ proc'[p] = [Request(p, "confirm", "compare") EXCEPT !.row.status = "active"]
        \/ proc'[p] = [Request(p, "address", "compare") EXCEPT !.row.status = "active",
                                                              !.row.email = "second"]
        \/ proc'[p] = [Request(p, "profile", "find") EXCEPT !.row.phone = "second"]
    BY <1>2, BeginAt DEF ConfirmEmail, ConfirmNewEmail, UpdateProfile
  <2> QED BY <2>1 DEF Request, Idle
<1>3. ASSUME NEW w \in Passwords, ResetPassword(p, w)
      PROVE  proc'[p].at = "end" /\ proc'[p].op = "reset"
  <2>1. proc'[p] = [Request(p, "reset", "end") EXCEPT !.password = w]
    BY <1>3, BeginAt DEF ResetPassword
  <2> QED BY <2>1 DEF Request, Idle
<1>4. ASSUME NEW w \in Passwords, NEW s \in Sessions, ChangePassword(p, s, w)
      PROVE  proc'[p].at = "end" /\ proc'[p].op = "change"
  <2>1. proc'[p] = [Request(p, "change", "end") EXCEPT !.password = w, !.s = s]
    BY <1>4, BeginAt DEF ChangePassword
  <2> QED BY <2>1 DEF Request, Idle
<1>5. ASSUME Login(p)
      PROVE  /\ proc'[p].at = "open" /\ proc'[p].op = "login"
             /\ proc'[p].by = user.password /\ proc'[p].c = 0
  <2>1. proc'[p] = [Request(p, "login", "open") EXCEPT !.by = user.password]
    BY <1>5, BeginAt DEF Login
  <2> QED BY <2>1 DEF Request, Idle
<1>6. ASSUME SocialLogin(p)
      PROVE  proc'[p].at = (IF user.provider = "social" THEN "compare" ELSE "open")
             /\ proc'[p].op = "social" /\ proc'[p].c = 0
             /\ (proc'[p].at = "open" => proc'[p].by = "social")
  <2> DEFINE r == [Request(p, "social", "open") EXCEPT !.by = "social"]
  <2>1. r.at = "open" /\ r.op = "social" /\ r.c = 0 /\ r.by = "social"
    BY DEF Request, Idle
  <2>2. proc'[p] = IF user.provider = "social" THEN Request(p, "social", "compare") ELSE r
    BY <1>6, BeginAt DEF SocialLogin
  <2> HIDE DEF r
  <2> QED BY <2>1, <2>2, RequestIs
<1>7. ASSUME NEW t \in Tokens, Refresh(p, t)
      PROVE  proc'[p].at = "load" /\ proc'[p].op = "none" /\ proc'[p].s = t[1] /\ proc'[p].c = t[2] + 1
  <2>1. proc'[p] = [Idle EXCEPT !.at = "load", !.s = t[1], !.c = t[2] + 1]
    BY <1>7, BeginAt DEF Refresh
  <2> QED BY <2>1 DEF Idle
<1>8. ASSUME NEW s \in Sessions, Logout(p, s) PROVE proc'[p] = Idle
  BY <1>8, BeginAt DEF Logout
<1>9. ASSUME SendOtp(p)
      PROVE  proc'[p].at = "clear" /\ proc'[p].op = "send" /\ proc'[p].c = Latest
  <2>1. proc'[p] = [Idle EXCEPT !.op = "send", !.at = "clear", !.c = Latest]
    BY <1>9, BeginAt DEF SendOtp
  <2> QED BY <2>1 DEF Idle
<1> QED BY <1>1, <1>2, <1>3, <1>4, <1>5, <1>6, <1>7, <1>8, <1>9

\* A guess at the newest code, in time or too late.
LEMMA VerifyBegun ==
  ASSUME Types, NEW p \in Procs, NEW right \in BOOLEAN, VerifyOtp(p, right)
  PROVE  /\ proc'[p].c = Latest /\ Latest \in LiveCodes /\ proc'[p].op \in {"refuse", "verify"}
         /\ proc'[p].at \in {"drop", "count"}
         /\ proc'[p].at = "count" => otp[Latest].attempts < MaxAttempts
<1> DEFINE over == otp[Latest].age = "expired" \/ otp[Latest].attempts >= MaxAttempts
           r == [Idle EXCEPT !.op = IF over \/ ~right THEN "refuse" ELSE "verify", !.c = Latest,
                             !.at = IF over \/ right THEN "drop" ELSE "count"]
<1>1. Begin(p, r) /\ Latest # 0
  BY DEF VerifyOtp
<1>2. Latest \in LiveCodes /\ Latest \in Codes
  BY <1>1, LatestIsCode
<1>3. ~over => otp[Latest].attempts < MaxAttempts
  BY <1>2, ConstantsAreNats DEF Types
<1> HIDE DEF over
<1>4. r.c = Latest /\ r.op \in {"refuse", "verify"} /\ r.at \in {"drop", "count"}
      /\ (r.at = "count" => ~over)
  BY DEF Idle
<1> HIDE DEF r
<1> QED BY <1>1, <1>2, <1>3, <1>4, BeginAt

\* Nobody else is moved by a request that begins.
LEMMA OthersStay ==
  ASSUME Types, NEW p \in Procs,
         \/ \E row \in NewRows : Register(p, row)
         \/ ConfirmEmail(p) \/ ConfirmNewEmail(p) \/ UpdateProfile(p)
         \/ \E w \in Passwords : ResetPassword(p, w) \/ \E s \in Sessions : ChangePassword(p, s, w)
         \/ Login(p) \/ SocialLogin(p) \/ (\E t \in Tokens : Refresh(p, t))
         \/ (\E s \in Sessions : Logout(p, s)) \/ SendOtp(p)
         \/ \E right \in BOOLEAN : VerifyOtp(p, right)
  PROVE  /\ proc[p].at = "idle" /\ \A q \in Procs \ {p} : proc'[q] = proc[q]
         /\ ops < MaxOps /\ ops' = ops + 1 /\ faults' = faults
<1>1. \E r : Begin(p, r)
  BY DEF Register, ConfirmEmail, ConfirmNewEmail, UpdateProfile, ResetPassword, ChangePassword,
         Login, SocialLogin, Refresh, Logout, SendOtp, VerifyOtp
<1> QED BY <1>1, BeginAt

\* Steps that leave the row alone.
LEMMA RowQuiet ==
  ASSUME Types, RowInv, NEW p \in Procs, UNCHANGED rowVars,
         \A q \in Procs \ {p} : proc'[q] = proc[q],
         Writes(proc[p])'
  PROVE  RowInv'
<1>1. ASSUME NEW q \in Procs \ {p} PROVE Writes(proc[q])'
  BY <1>1 DEF RowInv, Writes, Same, rowVars
<1> QED BY <1>1 DEF RowInv, rowVars

LEMMA RowIdle ==
  ASSUME Types, RowInv, NEW p \in Procs, UNCHANGED rowVars,
         \A q \in Procs \ {p} : proc'[q] = proc[q],
         proc'[p].at \notin Writing
  PROVE  RowInv'
<1>1. Writes(proc[p])'
  BY DEF Writes
<1> QED BY <1>1, RowQuiet

\* A row that is made: nobody had it in hand.
LEMMA RowMade ==
  ASSUME Types, RowInv, NEW p \in Procs, user.status = "none", user' = meant',
         user'.status # "none",
         \A q \in Procs \ {p} : proc'[q] = proc[q],
         proc'[p].at \notin Writing
  PROVE  RowInv'
BY DEF RowInv, Writes

LEMMA RowRequestRow ==
  ASSUME Types, RowInv, NEW p \in Procs,
         \/ \E row \in NewRows : Register(p, row)
         \/ ConfirmEmail(p) \/ ConfirmNewEmail(p) \/ UpdateProfile(p)
         \/ \E w \in Passwords : ResetPassword(p, w) \/ \E s \in Sessions : ChangePassword(p, s, w)
  PROVE  RowInv'
<1>0. user \in Rows
  BY DEF Types
<1>1. ASSUME NEW row \in NewRows, Register(p, row) PROVE RowInv'
  <2>1. proc'[p].at \notin Writing /\ \A q \in Procs \ {p} : proc'[q] = proc[q]
    <3> DEFINE r == [Idle EXCEPT !.op = "register", !.by = "social",
                       !.at = IF row.provider = "social" THEN "open" ELSE "idle"]
    <3>1. r.at \in {"open", "idle"}
      BY IdleTyped DEF Requested
    <3>2. Begin(p, r)
      BY <1>1 DEF Register
    <3> HIDE DEF r
    <3> QED BY <3>1, <3>2, BeginAt DEF Writing
  <2>2. row.status # "none"
    BY DEF NewRows, NoRow
  <2> QED BY <1>1, <2>1, <2>2, RowMade DEF Register
<1>2. CASE ConfirmEmail(p)
  <2>1. proc'[p] = [Request(p, "confirm", "compare") EXCEPT !.row.status = "active"]
        /\ \A q \in Procs \ {p} : proc'[q] = proc[q]
    BY <1>2, BeginAt DEF ConfirmEmail
  <2>2. Writes(proc[p])'
    BY <1>0, <1>2, <2>1 DEF ConfirmEmail, Writes, Same, Request, Idle, Whole, Rows, rowVars
  <2> QED BY <1>2, <2>1, <2>2, RowQuiet DEF ConfirmEmail
<1>3. CASE ConfirmNewEmail(p)
  <2>1. proc'[p] = [Request(p, "address", "compare") EXCEPT !.row.status = "active",
                                                           !.row.email = "second"]
        /\ \A q \in Procs \ {p} : proc'[q] = proc[q]
    BY <1>3, BeginAt DEF ConfirmNewEmail
  <2>2. proc'[p] = [Request(p, "address", "compare")
                      EXCEPT !.row = [user EXCEPT !.status = "active", !.email = "second"]]
    BY <1>0, <2>1 DEF Request, Idle, Rows
  <2>3. proc'[p].row = [user EXCEPT !.status = "active", !.email = "second"]
        /\ proc'[p].at = "compare" /\ proc'[p].op = "address" /\ proc'[p].c = 0
        /\ proc'[p].password = "keep"
    BY <2>2 DEF Request, Idle
  <2>4. Writes(proc[p])'
    BY <1>0, <1>3, <2>3 DEF ConfirmNewEmail, Writes, Same, Whole, Rows, rowVars
  <2> QED BY <1>3, <2>1, <2>4, RowQuiet DEF ConfirmNewEmail
<1>4. CASE UpdateProfile(p)
  <2>1. proc'[p] = [Request(p, "profile", "find") EXCEPT !.row.phone = "second"]
        /\ \A q \in Procs \ {p} : proc'[q] = proc[q]
    BY <1>4, BeginAt DEF UpdateProfile
  <2>2. Writes(proc[p])'
    BY <1>0, <1>4, <2>1 DEF UpdateProfile, Writes, Same, Request, Idle, Whole, Rows, rowVars
  <2> QED BY <1>4, <2>1, <2>2, RowQuiet DEF UpdateProfile
<1>5. ASSUME NEW w \in Passwords, ResetPassword(p, w) PROVE RowInv'
  <2>1. proc'[p] = [Request(p, "reset", "end") EXCEPT !.password = w]
        /\ \A q \in Procs \ {p} : proc'[q] = proc[q]
    BY <1>5, BeginAt DEF ResetPassword
  <2>2. Writes(proc[p])'
    BY <1>0, <1>5, <2>1 DEF ResetPassword, Writes, Same, Request, Idle, Whole, Rows, rowVars
  <2> QED BY <1>5, <2>1, <2>2, RowQuiet DEF ResetPassword
<1>6. ASSUME NEW w \in Passwords, NEW s \in Sessions, ChangePassword(p, s, w) PROVE RowInv'
  <2>1. proc'[p] = [Request(p, "change", "end") EXCEPT !.password = w, !.s = s]
        /\ \A q \in Procs \ {p} : proc'[q] = proc[q]
    BY <1>6, BeginAt DEF ChangePassword
  <2>2. Writes(proc[p])'
    BY <1>0, <1>6, <2>1 DEF ChangePassword, Writes, Same, Request, Idle, Whole, Rows, rowVars
  <2> QED BY <1>6, <2>1, <2>2, RowQuiet DEF ChangePassword
<1> QED BY <1>1, <1>2, <1>3, <1>4, <1>5, <1>6

LEMMA RowStepRow ==
  ASSUME Types, RowInv, NEW p \in Procs, EndSessions(p) \/ Compare(p) \/ Find(p)
  PROVE  RowInv'
<1>0. proc[p] \in Requested /\ user \in Rows /\ proc \in [Procs -> Requested] /\ Writes(proc[p])
  BY DEF Types, RowInv
<1>1. CASE EndSessions(p)
  <2>1. proc'[p] = [proc[p] EXCEPT !.at = "compare"]
        /\ \A q \in Procs \ {p} : proc'[q] = proc[q]
    BY <1>1, GotoAt DEF EndSessions
  <2>2. Writes(proc[p])'
    BY <1>0, <1>1, <2>1 DEF EndSessions, At, Writes, Writing, Same, Requested, rowVars
  <2> QED BY <1>1, <2>1, <2>2, RowQuiet DEF EndSessions
<1>2. CASE Compare(p)
  <2> DEFINE w == IF proc[p].password \in Passwords THEN proc[p].password
                  ELSE IF proc[p].row.password \in {"none", user.password} THEN "keep"
                  ELSE "rehashed"
  <2>1. proc'[p] = [proc[p] EXCEPT !.at = "find", !.password = w]
        /\ \A q \in Procs \ {p} : proc'[q] = proc[q]
    BY <1>0, <1>2 DEF Compare
  <2>2. proc[p].op \notin {"reset", "change"} /\ ~proc[p].stale /\ ~raced => proc[p].password = "keep"
    BY <1>0, <1>2 DEF Compare, At, Writes, Writing
  <2>3. proc[p].op \in {"confirm", "address", "social"} /\ ~proc[p].stale /\ ~raced => w = "keep"
    BY <1>0, <1>2, <2>2, AccountsAssumption DEF Compare, At, Writes, Writing, Same
  <2>4. proc[p].op = "profile" /\ ~proc[p].stale /\ ~raced => w = "keep"
    BY <1>0, <1>2, <2>2 DEF Compare, At, Writes, Writing, Same
  <2>5. proc[p].op \in {"reset", "change"} => w \in Passwords
    BY <1>0, <1>2 DEF Compare, At, Writes, Writing
  <2> HIDE DEF w
  <2>6. Writes(proc[p])'
    BY <1>0, <1>2, <2>1, <2>3, <2>4, <2>5
       DEF Compare, At, Writes, Writing, Same, Whole, Requested, rowVars
  <2> QED BY <1>2, <2>1, <2>6, RowQuiet DEF Compare
<1>3. CASE Find(p)
  <2> DEFINE f == IF proc[p].op \in Whole \cup {"profile"} THEN proc[p].row.phone ELSE user.phone
  <2>1. proc'[p] = [proc[p] EXCEPT !.at = "save", !.row.phone = f]
        /\ \A q \in Procs \ {p} : proc'[q] = proc[q]
    BY <1>0, <1>3 DEF Find
  <2>2. proc'[p].at = "save" /\ proc'[p].row = [proc[p].row EXCEPT !.phone = f]
        /\ proc'[p].op = proc[p].op /\ proc'[p].password = proc[p].password
        /\ proc'[p].stale = proc[p].stale /\ proc'[p].c = proc[p].c
    BY <1>0, <2>1 DEF Requested
  <2>3. proc'[p].row.phone = f /\ proc'[p].row.status = proc[p].row.status
        /\ proc'[p].row.email = proc[p].row.email /\ proc'[p].row.password = proc[p].row.password
    BY <1>0, <2>2 DEF Requested, Rows
  <2>4. Writes(proc[p])'
    BY <1>0, <1>3, <2>2, <2>3 DEF Find, At, Writes, Writing, Same, Whole, rowVars
  <2> QED BY <1>3, <2>1, <2>4, RowQuiet DEF Find
<1> QED BY <1>1, <1>2, <1>3

\* Who saves the row in time saves what was meant; everybody else has an old one now.
LEMMA SaveRow ==
  ASSUME Types, RowInv, NEW p \in Procs, Save(p)
  PROVE  /\ RowInv' /\ (user'.status # "none")
         /\ ~raced' /\ ~Changing(p) => user'.password = user.password
<1> DEFINE r == proc[p]
<1>0. r \in Requested /\ user \in Rows /\ meant \in Rows /\ r.row \in Rows /\ Writes(r)
      /\ r.at = "save" /\ r.at \in Writing
  BY DEF Types, RowInv, Requested, Save, At, Writing
<1>1. /\ user' = [user EXCEPT !.status = IF r.op \in Whole THEN r.row.status ELSE @,
                              !.email = IF r.op \in Whole THEN r.row.email ELSE @,
                              !.password = IF r.password = "keep" THEN @ ELSE r.password,
                              !.phone = r.row.phone]
      /\ meant' = Meant(r) /\ raced' = (raced \/ r.stale)
  BY DEF Save
<1> HIDE DEF r
<1>2. user'.status # "none"
  BY <1>0, <1>1 DEF Writes, Whole, Rows
<1>3. ASSUME ~raced' PROVE user' = meant' /\ (r.op \notin {"reset", "change"} => user'.password = user.password)
  <2>0. ~raced /\ ~r.stale /\ user = meant
    BY <1>1, <1>3 DEF RowInv
  <2>1. Same(r) /\ (r.op \notin {"reset", "change"} => r.password = "keep")
    BY <1>0, <2>0 DEF Writes
  <2>2. user'.password = (IF r.password = "keep" THEN user.password ELSE r.password)
        /\ user'.phone = r.row.phone /\ user'.provider = user.provider
        /\ user'.status = (IF r.op \in Whole THEN r.row.status ELSE user.status)
        /\ user'.email = (IF r.op \in Whole THEN r.row.email ELSE user.email)
        /\ DOMAIN user' = DOMAIN user
    BY <1>0, <1>1 DEF Rows
  <2>3. meant'.status = (IF r.op \in {"confirm", "address"} THEN "active" ELSE user.status)
        /\ meant'.email = (IF r.op = "address" THEN "second" ELSE user.email)
        /\ meant'.password = (IF r.op \in {"reset", "change"} THEN r.password ELSE user.password)
        /\ meant'.phone = (IF r.op = "profile" THEN "second" ELSE user.phone)
        /\ meant'.provider = user.provider
    BY <1>0, <1>1, <2>0 DEF Meant, Rows
  <2>4. r.op \in {"confirm", "address", "reset", "social", "profile", "change"}
    BY <1>0 DEF Writes, Whole
  <2>5. user'.status = meant'.status /\ user'.email = meant'.email
    BY <2>1, <2>2, <2>3, <2>4 DEF Same, Whole
  <2>6. user'.phone = meant'.phone
    BY <1>0, <2>1, <2>2, <2>3, <2>4 DEF Same, Writes
  <2>7. user'.password = meant'.password
    BY <1>0, <2>1, <2>2, <2>3, AccountsAssumption DEF Writes
  <2>8. user' \in Rows /\ meant' \in Rows
    BY RowStepTypes DEF Types
  <2>9. user' = meant'
    BY <2>2, <2>3, <2>5, <2>6, <2>7, <2>8 DEF Rows
  <2>10. r.op \notin {"reset", "change"} => user'.password = user.password
    BY <2>1, <2>2
  <2> QED BY <2>9, <2>10
<1>4. ASSUME NEW q \in Procs PROVE Writes(proc[q])'
  <2>1. CASE q = p
    <3>1. proc'[p] = IF r.op = "social" THEN [r EXCEPT !.at = "open", !.by = "social"] ELSE Idle
      BY DEF Save, r
    <3>2. proc'[p].at \notin Writing
      BY <1>0, <3>1 DEF Writing, Idle, Requested
    <3> QED BY <2>1, <3>2 DEF Writes
  <2>2. CASE q # p
    <3>1. proc'[q] = [proc[q] EXCEPT !.stale = (proc[q].at # "idle")] /\ proc[q] \in Requested
      BY <2>2 DEF Save, Types
    <3>2. proc'[q].at = proc[q].at /\ proc'[q].op = proc[q].op /\ proc'[q].row = proc[q].row
          /\ proc'[q].password = proc[q].password /\ proc'[q].c = proc[q].c
          /\ proc'[q].stale = (proc[q].at # "idle")
      BY <3>1 DEF Requested
    <3>3. Writes(proc[q])
      BY DEF RowInv
    <3> QED BY <1>2, <3>2, <3>3 DEF Writes, Writing
  <2> QED BY <2>1, <2>2
<1>5. RowInv'
  BY <1>2, <1>3, <1>4 DEF RowInv
<1> QED BY <1>2, <1>3, <1>5 DEF Changing, r

LEMMA OtherRow ==
  ASSUME Types, RowInv, NEW p \in Procs, Session(p) \/ Code(p) \/ Die(p)
  PROVE  RowInv'
<1>0. user \in Rows /\ proc[p] \in Requested /\ proc \in [Procs -> Requested]
  BY DEF Types
<1>1. CASE Login(p)
  <2> QED BY <1>1, Begun, OthersStay, RowIdle DEF Login, Writing
<1>2. CASE SocialLogin(p) /\ user.provider = "social"
  <2>1. proc'[p] = Request(p, "social", "compare") /\ \A q \in Procs \ {p} : proc'[q] = proc[q]
    BY <1>2, BeginAt DEF SocialLogin
  <2>2. Writes(proc[p])'
    BY <1>0, <1>2, <2>1 DEF SocialLogin, Writes, Same, Request, Idle, Whole, Rows, rowVars
  <2> QED BY <1>2, <2>1, <2>2, RowQuiet DEF SocialLogin
<1>3. CASE SocialLogin(p) /\ user.provider # "social"
  <2>1. proc'[p].at = "open" /\ \A q \in Procs \ {p} : proc'[q] = proc[q]
    BY <1>3, Begun, OthersStay
  <2> QED BY <1>3, <2>1, RowIdle DEF SocialLogin, Writing
<1>4. CASE Open(p) \/ Load(p) \/ CreateOtp(p) \/ CountAttempt(p) \/ Die(p)
  <2>1. End(p) /\ UNCHANGED rowVars
    BY <1>4 DEF Open, Load, CreateOtp, CountAttempt, Die
  <2>2. proc'[p].at = "idle"
    BY <2>1, EndAt DEF Idle
  <2> QED BY <2>1, <2>2, EndAt, RowIdle DEF Writing
<1>5. CASE \E t \in Tokens : Refresh(p, t)
  <2>1. proc'[p].at = "load" /\ \A q \in Procs \ {p} : proc'[q] = proc[q]
    BY <1>5, Begun, OthersStay
  <2> QED BY <1>5, <2>1, RowIdle DEF Refresh, Writing
<1>6. CASE \E t \in Sessions : Logout(p, t)
  <2>1. proc'[p].at = "idle" /\ \A q \in Procs \ {p} : proc'[q] = proc[q]
    BY <1>6, Begun, OthersStay DEF Idle
  <2> QED BY <1>6, <2>1, RowIdle DEF Logout, Writing
<1>7. CASE SendOtp(p)
  <2>1. proc'[p].at = "clear" /\ \A q \in Procs \ {p} : proc'[q] = proc[q]
    BY <1>7, Begun, OthersStay
  <2>2. proc'[p].at \notin Writing
    BY <2>1 DEF Writing
  <2>3. CASE user.status = "none"
    <3>1. user' = meant' /\ user'.status # "none"
      BY <1>7, <2>3, IdleTyped DEF SendOtp, NoRow
    <3> QED BY <2>1, <2>2, <2>3, <3>1, RowMade
  <2>4. CASE user.status # "none"
    <3>1. UNCHANGED rowVars
      BY <1>7, <2>4 DEF SendOtp, rowVars
    <3> QED BY <2>1, <2>2, <3>1, RowIdle
  <2> QED BY <2>3, <2>4
<1>8. CASE Clear(p)
  <2>1. proc'[p].at = "create" /\ \A q \in Procs \ {p} : proc'[q] = proc[q]
    BY <1>8, GotoAt DEF Clear
  <2> QED BY <1>8, <2>1, RowIdle DEF Clear, Writing
<1>9. CASE \E right \in BOOLEAN : VerifyOtp(p, right)
  <2>1. proc'[p].at \in {"drop", "count"} /\ \A q \in Procs \ {p} : proc'[q] = proc[q]
    BY <1>9, VerifyBegun, OthersStay
  <2> QED BY <1>9, <2>1, RowIdle DEF VerifyOtp, Writing
<1>10. CASE Drop(p)
  <2>1. proc'[p].at \in {"open", "idle"} /\ \A q \in Procs \ {p} : proc'[q] = proc[q]
    BY <1>0, <1>10 DEF Drop, Idle, Requested
  <2> QED BY <1>10, <2>1, RowIdle DEF Drop, Writing
<1> QED BY <1>1, <1>2, <1>3, <1>4, <1>5, <1>6, <1>7, <1>8, <1>9, <1>10 DEF Session, Code
-----------------------------------------------------------------------------
(* Who opened a session.                                                    *)

\* Steps that open no session and change no password.
LEMMA OwnerQuiet ==
  ASSUME Types, OwnerInv, NEW p \in Procs, raced' = raced, opener' = opener,
         user'.password = user.password \/ user.password \notin Passwords,
         Live' \ excused' \subseteq Live \ excused,
         \A q \in Procs \ {p} : proc'[q] = proc[q],
         Opens(proc[p])'
  PROVE  OwnerInv'
<1>1. ASSUME NEW q \in Procs \ {p} PROVE Opens(proc[q])'
  <2>1. Opens(proc[q])
    BY DEF OwnerInv
  <2>2. Live \subseteq excused => Live' \subseteq excused'
    OBVIOUS
  <2> QED BY <2>1, <2>2 DEF Opens
<1>2. PasswordOwnsSessions'
  BY DEF OwnerInv, PasswordOwnsSessions
<1> QED BY <1>1, <1>2 DEF OwnerInv

LEMMA OwnerIdle ==
  ASSUME Types, OwnerInv, NEW p \in Procs, raced' = raced, opener' = opener,
         user'.password = user.password \/ user.password \notin Passwords,
         Live' \ excused' \subseteq Live \ excused,
         \A q \in Procs \ {p} : proc'[q] = proc[q],
         proc'[p].op \notin {"reset", "change"},
         proc'[p].at = "open" => proc'[p].by \in {"social", "code"}
  PROVE  OwnerInv'
<1>1. Opens(proc[p])'
  BY AccountsAssumption DEF Opens
<1> QED BY <1>1, OwnerQuiet

LEMMA RowOwner ==
  ASSUME Types, RowInv, OwnerInv, NEW p \in Procs, Row(p)
  PROVE  OwnerInv'
<1>0. user \in Rows /\ proc[p] \in Requested /\ proc \in [Procs -> Requested] /\ Writes(proc[p])
      /\ Opens(proc[p])
  BY DEF Types, RowInv, OwnerInv
<1> USE DEF sessionVars, rowVars, Live
<1>1. ASSUME NEW row \in NewRows, Register(p, row) PROVE OwnerInv'
  <2>3. /\ proc'[p].op = "register" /\ proc'[p].by = "social" /\ \A q \in Procs \ {p} : proc'[q] = proc[q]
    BY <1>1, Begun, OthersStay
  <2>4. user.password \notin Passwords
    BY <1>1, AccountsAssumption DEF RowInv, Register
  <2>5. Live' \ excused' \subseteq Live \ excused /\ raced' = raced /\ opener' = opener
    BY <1>1 DEF Register
  <2> QED BY <2>3, <2>4, <2>5, OwnerIdle
<1>2. CASE ConfirmEmail(p) \/ ConfirmNewEmail(p) \/ UpdateProfile(p)
  <2>1. /\ proc'[p].op \in {"confirm", "address", "profile"}
        /\ proc'[p].at # "open" /\ \A q \in Procs \ {p} : proc'[q] = proc[q]
    BY <1>2, Begun, OthersStay
  <2> QED BY <1>2, <2>1, OwnerIdle DEF ConfirmEmail, ConfirmNewEmail, UpdateProfile
<1>3. CASE \E w \in Passwords : ResetPassword(p, w) \/ \E s \in Sessions : ChangePassword(p, s, w)
  <2>1. /\ proc'[p].at = "end" /\ \A q \in Procs \ {p} : proc'[q] = proc[q]
    BY <1>3, Begun, OthersStay
  <2>2. Opens(proc[p])'
    BY <2>1 DEF Opens, Writing
  <2> QED BY <1>3, <2>1, <2>2, OwnerQuiet DEF ResetPassword, ChangePassword
<1>4. CASE EndSessions(p)
  <2>1. proc'[p].at = "compare" /\ \A q \in Procs \ {p} : proc'[q] = proc[q]
    BY <1>4, GotoAt DEF EndSessions
  <2>2. Live' \subseteq excused'
    <3>1. ASSUME NEW s \in Sessions, session'[s].state = "live" PROVE s = proc[p].s
      <4>1. s \in Live => session[s] \in [state : States, hash : 0..MaxOps]
        BY DEF Types
      <4>2. s \notin Live \ {proc[p].s}
        BY <1>4, <3>1, <4>1 DEF EndSessions
      <4> QED BY <1>4, <3>1, <4>2 DEF EndSessions
    <3> QED BY <1>4, <3>1 DEF EndSessions
  <2>3. Opens(proc[p])'
    BY <2>1, <2>2 DEF Opens, Writing
  <2> QED BY <1>4, <2>1, <2>2, <2>3, OwnerQuiet DEF EndSessions
<1>5. CASE Compare(p) \/ Find(p)
  <2>1. /\ proc'[p].op = proc[p].op /\ proc'[p].at \in {"find", "save"}
        /\ proc[p].at \in {"compare", "find"} /\ \A q \in Procs \ {p} : proc'[q] = proc[q]
    BY <1>0, <1>5 DEF Compare, Find, Requested, At
  <2>2. UNCHANGED <<session, excused>>
    BY <1>5 DEF Compare, Find
  <2>3. Opens(proc[p])'
    BY <1>0, <2>1, <2>2 DEF Opens, Writing
  <2> QED BY <1>5, <2>1, <2>2, <2>3, OwnerQuiet DEF Compare, Find
<1>6. CASE Save(p)
  <2>1. UNCHANGED <<session, excused, opener>> /\ raced' = (raced \/ proc[p].stale) /\ proc[p].at = "save"
    BY <1>6 DEF Save, At
  <2>2. ~raced' /\ ~Changing(p) => user'.password = user.password
    BY <1>6, SaveRow
  <2>3. Changing(p) => Live \subseteq excused
    BY <1>0, <2>1 DEF Opens, Changing
  <2>4. PasswordOwnsSessions'
    BY <2>1, <2>2, <2>3 DEF OwnerInv, PasswordOwnsSessions
  <2>5. ASSUME NEW q \in Procs PROVE Opens(proc[q])'
    <3>1. CASE q = p
      <4>1. proc'[p] = IF proc[p].op = "social" THEN [proc[p] EXCEPT !.at = "open", !.by = "social"]
                       ELSE Idle
        BY <1>6 DEF Save
      <4>2. proc'[p].op \notin {"reset", "change"} /\ (proc'[p].at = "open" => proc'[p].by = "social")
        BY <1>0, <4>1 DEF Requested, Idle
      <4> QED BY <3>1, <4>2, AccountsAssumption DEF Opens
    <3>2. CASE q # p
      <4>1. proc'[q] = [proc[q] EXCEPT !.stale = (proc[q].at # "idle")] /\ proc[q] \in Requested
        BY <1>0, <1>6, <3>2 DEF Save
      <4>2. proc'[q].at = proc[q].at /\ proc'[q].op = proc[q].op /\ proc'[q].stale = (proc[q].at # "idle")
        BY <4>1 DEF Requested
      <4>3. Opens(proc[q])
        BY DEF OwnerInv
      <4> QED BY <2>1, <4>2, <4>3 DEF Opens
    <3> QED BY <3>1, <3>2
  <2> QED BY <2>4, <2>5 DEF OwnerInv
<1> QED BY <1>1, <1>2, <1>3, <1>4, <1>5, <1>6 DEF Row

LEMMA OtherOwner ==
  ASSUME Types, RowInv, OwnerInv, NEW p \in Procs, Session(p) \/ Code(p) \/ Die(p)
  PROVE  OwnerInv'
<1>0. user \in Rows /\ proc[p] \in Requested /\ proc \in [Procs -> Requested] /\ Opens(proc[p])
  BY DEF Types, OwnerInv
<1> USE DEF sessionVars, rowVars, Live
<1>1. CASE Login(p)
  <2>1. /\ proc'[p].at = "open" /\ proc'[p].op = "login" /\ proc'[p].by = user.password
        /\ \A q \in Procs \ {p} : proc'[q] = proc[q]
    BY <1>1, Begun, OthersStay
  <2>2. Opens(proc[p])'
    BY <1>1, <2>1 DEF Login, Opens
  <2> QED BY <1>1, <2>1, <2>2, OwnerQuiet DEF Login
<1>2. CASE SocialLogin(p)
  <2>1. /\ proc'[p].op = "social" /\ (proc'[p].at = "open" => proc'[p].by = "social")
        /\ \A q \in Procs \ {p} : proc'[q] = proc[q]
    BY <1>2, Begun, OthersStay
  <2> QED BY <1>2, <2>1, OwnerIdle DEF SocialLogin
<1>3. CASE Open(p)
  <2>1. PICK s \in Sessions :
          /\ session' = [session EXCEPT ![s].state = "live"]
          /\ opener' = [opener EXCEPT ![s] = proc[p].by]
          /\ excused' = IF proc[p].stale \/ \E q \in Procs : Changing(q)
                        THEN excused \cup {s} ELSE excused
    BY <1>3 DEF Open
  <2>2. UNCHANGED <<user, raced>> /\ At(p, "open") /\ End(p)
    BY <1>3 DEF Open
  <2>3. proc'[p] = Idle /\ \A q \in Procs \ {p} : proc'[q] = proc[q]
    BY <2>2, EndAt
  <2>4. \A r \in Sessions \ {s} : opener'[r] = opener[r] /\ session'[r] = session[r]
    BY <2>1 DEF Types
  <2>5. opener'[s] = proc[p].by
    BY <2>1 DEF Types
  <2>6. Opens(Idle)'
    BY DEF Opens, Idle
  <2>7. CASE proc[p].stale \/ \E q \in Procs : Changing(q)
    <3>1. excused' = excused \cup {s}
      BY <2>1, <2>7
    <3>2. Live' \subseteq Live \cup {s}
      BY <2>4
    <3>3. ASSUME NEW q \in Procs PROVE Opens(proc[q])'
      <4>1. CASE q = p
        BY <2>3, <2>6, <4>1 DEF Opens
      <4>2. CASE q # p
        <5>1. Opens(proc[q]) /\ proc'[q] = proc[q]
          BY <2>3, <4>2 DEF OwnerInv
        <5>2. Live \subseteq excused => Live' \subseteq excused'
          BY <3>1, <3>2
        <5> HIDE DEF Live
        <5> QED BY <2>2, <5>1, <5>2 DEF Opens
      <4> QED BY <4>1, <4>2
    <3>4. PasswordOwnsSessions'
      BY <2>2, <2>4, <3>1, <3>2 DEF OwnerInv, PasswordOwnsSessions
    <3> QED BY <3>3, <3>4 DEF OwnerInv
  <2>8. CASE ~(proc[p].stale \/ \E q \in Procs : Changing(q))
    <3>1. excused' = excused
      BY <2>1, <2>8
    <3>2. ASSUME NEW q \in Procs PROVE Opens(proc[q])'
      <4>1. CASE q = p
        BY <2>3, <2>6, <4>1 DEF Opens
      <4>2. CASE q # p
        BY <2>2, <2>3, <2>8, <4>2 DEF OwnerInv, Opens, Changing
      <4> QED BY <4>1, <4>2
    <3>3. ~raced /\ proc[p].by \in Passwords => proc[p].by = user.password
      BY <1>0, <2>2, <2>8 DEF Opens, At
    <3>4. PasswordOwnsSessions'
      BY <2>2, <2>4, <2>5, <3>1, <3>3 DEF OwnerInv, PasswordOwnsSessions
    <3> QED BY <3>2, <3>4 DEF OwnerInv
  <2> QED BY <2>7, <2>8
<1>4. CASE Load(p) \/ CreateOtp(p) \/ CountAttempt(p) \/ Die(p)
  <2>1. End(p) /\ UNCHANGED <<user, raced, session, excused, opener>>
    BY <1>4 DEF Load, CreateOtp, CountAttempt, Die
  <2>2. proc'[p].at = "idle" /\ proc'[p].op = "none"
    BY <2>1, EndAt DEF Idle
  <2> QED BY <2>1, <2>2, EndAt, OwnerIdle
<1>5. ASSUME NEW t \in Tokens, Refresh(p, t) PROVE OwnerInv'
  <2>1. proc'[p].at = "load" /\ proc'[p].op = "none" /\ \A q \in Procs \ {p} : proc'[q] = proc[q]
    BY <1>5, Begun, OthersStay
  <2>2. \A s \in Sessions : session'[s].state = session[s].state
    BY <1>5 DEF Refresh, Types
  <2>3. Live' \ excused' \subseteq Live \ excused
    BY <1>5, <2>2 DEF Refresh
  <2> QED BY <1>5, <2>1, <2>3, OwnerIdle DEF Refresh
<1>6. ASSUME NEW t \in Sessions, Logout(p, t) PROVE OwnerInv'
  <2>1. proc'[p].at = "idle" /\ proc'[p].op = "none" /\ \A q \in Procs \ {p} : proc'[q] = proc[q]
    BY <1>6, Begun, OthersStay DEF Idle
  <2>2. \A s \in Sessions : session'[s].state = "live" => session[s].state = "live"
    BY <1>6 DEF Logout, Types
  <2>3. Live' \ excused' \subseteq Live \ excused
    BY <1>6, <2>2 DEF Logout
  <2> QED BY <1>6, <2>1, <2>3, OwnerIdle DEF Logout
<1>7. CASE SendOtp(p)
  <2>1. proc'[p].at = "clear" /\ proc'[p].op = "send" /\ \A q \in Procs \ {p} : proc'[q] = proc[q]
    BY <1>7, Begun, OthersStay
  <2>2. user'.password = user.password \/ user.password \notin Passwords
    BY <1>7, AccountsAssumption DEF SendOtp, RowInv
  <2> QED BY <1>7, <2>1, <2>2, OwnerIdle DEF SendOtp
<1>8. CASE Clear(p)
  <2>1. proc'[p].at = "create" /\ proc'[p].op = proc[p].op /\ \A q \in Procs \ {p} : proc'[q] = proc[q]
    <3>1. proc'[p] = [proc[p] EXCEPT !.at = "create"] /\ \A q \in Procs \ {p} : proc'[q] = proc[q]
      BY <1>8, GotoAt DEF Clear
    <3> QED BY <1>0, <3>1 DEF Requested
  <2>2. proc[p].op \notin {"reset", "change"}
    BY <1>0, <1>8 DEF Clear, At, Opens, Writing
  <2> QED BY <1>8, <2>1, <2>2, OwnerIdle DEF Clear
<1>9. CASE \E right \in BOOLEAN : VerifyOtp(p, right)
  <2>1. /\ proc'[p].at \in {"drop", "count"} /\ proc'[p].op \in {"refuse", "verify"}
        /\ \A q \in Procs \ {p} : proc'[q] = proc[q]
    BY <1>9, VerifyBegun, OthersStay
  <2> QED BY <1>9, <2>1, OwnerIdle DEF VerifyOtp
<1>10. CASE Drop(p)
  <2>1. /\ proc'[p].at = "open" => proc'[p].by = "code"
        /\ proc'[p].op \in {"none", "verify"} /\ \A q \in Procs \ {p} : proc'[q] = proc[q]
    BY <1>0, <1>10 DEF Drop, Idle, Requested
  <2> QED BY <1>10, <2>1, OwnerIdle DEF Drop
<1> QED BY <1>1, <1>2, <1>3, <1>4, <1>5, <1>6, <1>7, <1>8, <1>9, <1>10 DEF Session, Code
-----------------------------------------------------------------------------
(* What the requests on the row leave to the others.                        *)

Coding == {"clear", "create", "drop", "count"}

\* Whether the step leaves a request where it is, as far as tokens and codes can tell.
Stays(q) == proc'[q].at = proc[q].at /\ proc'[q].op = proc[q].op
            /\ proc'[q].s = proc[q].s /\ proc'[q].c = proc[q].c

LEMMA RowProcs ==
  ASSUME Types, RowInv, NEW p \in Procs, Row(p)
  PROVE  /\ \A q \in Procs \ {p} : Stays(q)
         /\ proc[p].at \in Writing \cup {"idle"}
         /\ proc'[p].at \in Writing \cup {"idle", "open"}
         /\ proc'[p].at = "open" => proc'[p].c = 0
         /\ ops <= ops' /\ faults' = faults /\ ops \in 0..MaxOps
<1>0. proc[p] \in Requested /\ proc \in [Procs -> Requested] /\ Writes(proc[p]) /\ ops \in 0..MaxOps
      /\ MaxOps \in Nat
  BY ConstantsAreNats DEF Types, RowInv
<1>1. CASE \E row \in NewRows : Register(p, row)
  BY <1>0, <1>1, Begun, OthersStay DEF Stays, Writing
<1>2. CASE ConfirmEmail(p) \/ ConfirmNewEmail(p) \/ UpdateProfile(p)
  <2>1. proc'[p].at \in {"compare", "find"}
    BY <1>2, Begun
  <2> QED BY <1>0, <1>2, <2>1, OthersStay DEF Stays, Writing
<1>3. CASE \E w \in Passwords : ResetPassword(p, w) \/ \E s \in Sessions : ChangePassword(p, s, w)
  <2>1. proc'[p].at = "end"
    BY <1>3, Begun
  <2> QED BY <1>0, <1>3, <2>1, OthersStay DEF Stays, Writing
<1>4. CASE EndSessions(p)
  <2>1. proc'[p].at = "compare" /\ (\A q \in Procs \ {p} : proc'[q] = proc[q]) /\ proc[p].at = "end"
    BY <1>4, GotoAt DEF EndSessions, At
  <2> QED BY <1>0, <1>4, <2>1 DEF EndSessions, Stays, Writing
<1>5. CASE Compare(p) \/ Find(p)
  <2>1. /\ proc'[p].at \in {"find", "save"} /\ proc[p].at \in {"compare", "find"}
        /\ \A q \in Procs \ {p} : proc'[q] = proc[q]
    BY <1>0, <1>5 DEF Compare, Find, Requested, At
  <2> QED BY <1>0, <1>5, <2>1 DEF Compare, Find, Stays, Writing
<1>6. CASE Save(p)
  <2>1. proc[p].at = "save" /\ proc[p].c = 0
    BY <1>0, <1>6 DEF Save, At, Writes, Writing
  <2>2. proc'[p] = IF proc[p].op = "social" THEN [proc[p] EXCEPT !.at = "open", !.by = "social"]
                   ELSE Idle
    BY <1>6 DEF Save
  <2>3. proc'[p].at \in {"idle", "open"} /\ proc'[p].c = 0
    BY <1>0, <2>1, <2>2 DEF Requested, Idle
  <2>4. ASSUME NEW q \in Procs \ {p} PROVE Stays(q)
    <3>1. proc'[q] = [proc[q] EXCEPT !.stale = (proc[q].at # "idle")] /\ proc[q] \in Requested
      BY <1>0, <1>6 DEF Save
    <3> QED BY <3>1 DEF Requested, Stays
  <2> QED BY <1>0, <1>6, <2>1, <2>3, <2>4 DEF Save, Writing
<1> QED BY <1>1, <1>2, <1>3, <1>4, <1>5, <1>6 DEF Row
-----------------------------------------------------------------------------
(* Refresh tokens.                                                          *)

LEMMA TokenQuiet ==
  ASSUME Types, TokenInv, UNCHANGED <<held, redeemed>>, lost \subseteq lost', ops <= ops',
         \A s \in Sessions :
           /\ session'[s].hash = session[s].hash
           /\ session'[s].state = "live" => session[s].state = "live"
           /\ session'[s].state = "none" <=> session[s].state = "none",
         ops' \in Nat,
         \A q \in Procs :
           /\ proc'[q].at = "load" => Stays(q)
           /\ proc[q].at = "load" => Stays(q) \/ proc[q].s \in lost'
  PROVE  TokenInv'
<1>1. \A t \in Tokens : t[1] \in Sessions
  BY DEF Tokens
<1>2. held \subseteq Tokens /\ ops \in Nat /\ \A s \in Sessions : session[s].hash \in Nat
  BY ConstantsAreNats DEF Types
<1>3. ASSUME NEW s \in Live' \ lost'
      PROVE  \/ <<s, session'[s].hash>> \in held'
             \/ \E p \in Procs : At(p, "load")' /\ proc'[p].s = s /\ proc'[p].c = session'[s].hash
  <2>1. s \in Sessions /\ s \in Live \ lost
    BY DEF Live
  <2>2. \/ <<s, session[s].hash>> \in held
        \/ \E p \in Procs : At(p, "load") /\ proc[p].s = s /\ proc[p].c = session[s].hash
    BY <2>1 DEF TokenInv, TokensRotate
  <2> QED BY <2>1, <2>2 DEF At, Stays
<1>4. TokensRotate'
  BY <1>3 DEF TokenInv, TokensRotate
<1>5. \A t \in Tokens : session'[t[1]].hash <= t[2] => redeemed'[t] = 0
  BY <1>1 DEF TokenInv
<1>6. \A s \in Sessions : session'[s].hash <= ops' /\ (session'[s].state = "none" => session'[s].hash = 0)
  BY <1>2 DEF TokenInv
<1>7. \A t \in held' : session'[t[1]].state # "none"
  BY <1>1, <1>2 DEF TokenInv
<1>8. \A q \in Procs : At(q, "load")' =>
        proc'[q].s \in Sessions /\ proc'[q].c \in 0..MaxOps /\ session'[proc'[q].s].state # "none"
  BY DEF TokenInv, At, Stays
<1> QED BY <1>4, <1>5, <1>6, <1>7, <1>8 DEF TokenInv

LEMMA RowToken ==
  ASSUME Types, RowInv, TokenInv, NEW p \in Procs, Row(p)
  PROVE  TokenInv'
<1>1. \A q \in Procs : (proc'[q].at = "load" => Stays(q)) /\ (proc[q].at = "load" => Stays(q))
  BY RowProcs DEF Writing
<1>2. ops \in Nat /\ ops' \in Nat /\ ops <= ops'
  <2>1. Types'
    BY RowRequestTypes, RowStepTypes DEF Row
  <2> QED BY <2>1, RowProcs, ConstantsAreNats DEF Types
<1>3. UNCHANGED <<held, redeemed, lost>>
  BY DEF Row, Register, ConfirmEmail, ConfirmNewEmail, UpdateProfile, ResetPassword, ChangePassword,
         EndSessions, Compare, Find, Save, sessionVars
<1>4. \A s \in Sessions :
           /\ session'[s].hash = session[s].hash
           /\ session'[s].state = "live" => session[s].state = "live"
           /\ session'[s].state = "none" <=> session[s].state = "none"
  <2>1. CASE EndSessions(p)
    BY <2>1 DEF EndSessions, Types, Live
  <2>2. CASE UNCHANGED session
    BY <2>2
  <2> QED BY <2>1, <2>2 DEF Row, Register, ConfirmEmail, ConfirmNewEmail, UpdateProfile,
        ResetPassword, ChangePassword, Compare, Find, Save, sessionVars
<1> QED BY <1>1, <1>2, <1>3, <1>4, TokenQuiet

LEMMA SessionToken ==
  ASSUME Types, Types', TokenInv, NEW p \in Procs, Session(p) \/ Die(p)
  PROVE  TokenInv'
<1>0. proc[p] \in Requested /\ proc \in [Procs -> Requested] /\ ops \in Nat /\ ops' \in Nat
      /\ held \subseteq Tokens /\ held' \subseteq Tokens
  BY ConstantsAreNats DEF Types
<1>1. CASE Login(p) \/ SocialLogin(p)
  <2>1. \A q \in Procs : (proc'[q].at = "load" => Stays(q)) /\ (proc[q].at = "load" => Stays(q))
    BY <1>1, Begun, OthersStay DEF Stays
  <2>2. ops <= ops'
    BY <1>0, <1>1, OthersStay
  <2> QED BY <1>0, <1>1, <2>1, <2>2, TokenQuiet DEF Login, SocialLogin, sessionVars
<1>2. ASSUME NEW s \in Sessions, Logout(p, s) PROVE TokenInv'
  <2>1. \A q \in Procs : (proc'[q].at = "load" => Stays(q)) /\ (proc[q].at = "load" => Stays(q))
    BY <1>2, Begun, OthersStay DEF Stays, Idle
  <2>2. ops <= ops'
    BY <1>0, <1>2, OthersStay
  <2>3. \A r \in Sessions :
           /\ session'[r].hash = session[r].hash
           /\ session'[r].state = "live" => session[r].state = "live"
           /\ session'[r].state = "none" <=> session[r].state = "none"
    BY <1>2 DEF Logout, Types
  <2> QED BY <1>0, <1>2, <2>1, <2>2, <2>3, TokenQuiet DEF Logout
<1>3. CASE Die(p)
  <2>1. \A q \in Procs : /\ proc'[q].at = "load" => Stays(q)
                         /\ proc[q].at = "load" => Stays(q) \/ proc[q].s \in lost'
    BY <1>3, EndAt DEF Die, At, Stays, Idle
  <2> QED BY <1>0, <1>3, <2>1, TokenQuiet DEF Die
<1>4. CASE Open(p)
  <2>1. PICK s \in Sessions :
          /\ session[s].state = "none"
          /\ session' = [session EXCEPT ![s].state = "live"]
          /\ held' = held \cup {<<s, 0>>}
    BY <1>4 DEF Open
  <2>2. At(p, "open") /\ End(p) /\ UNCHANGED <<redeemed, lost, ops>>
    BY <1>4 DEF Open
  <2>3. \A q \in Procs : (proc'[q].at = "load" => Stays(q)) /\ (proc[q].at = "load" => Stays(q))
    BY <2>2, EndAt DEF At, Stays, Idle
  <2>4. /\ session'[s].state = "live" /\ session'[s].hash = 0
        /\ \A r \in Sessions \ {s} : session'[r] = session[r]
    BY <2>1 DEF Types, TokenInv
  <2>5. \A r \in Sessions : session'[r].hash = session[r].hash
    BY <2>1, <2>4 DEF TokenInv
  <2>6. TokensRotate'
    <3>1. ASSUME NEW r \in Live' \ lost'
          PROVE  \/ <<r, session'[r].hash>> \in held'
                 \/ \E q \in Procs : At(q, "load")' /\ proc'[q].s = r /\ proc'[q].c = session'[r].hash
      <4>1. CASE r = s
        BY <2>1, <2>4, <4>1
      <4>2. CASE r # s
        <5>1. r \in Sessions /\ r \in Live \ lost
          BY <2>2, <2>4, <4>2 DEF Live
        <5>2. \/ <<r, session[r].hash>> \in held
              \/ \E q \in Procs : At(q, "load") /\ proc[q].s = r /\ proc[q].c = session[r].hash
          BY <5>1 DEF TokenInv, TokensRotate
        <5> QED BY <2>1, <2>3, <2>5, <5>1, <5>2 DEF At, Stays
      <4> QED BY <4>1, <4>2
    <3> QED BY <2>2, <3>1 DEF TokenInv, TokensRotate
  <2>7. \A t \in Tokens : session'[t[1]].hash <= t[2] => redeemed'[t] = 0
    BY <2>2, <2>5 DEF TokenInv, Tokens
  <2>8. \A r \in Sessions : session'[r].hash <= ops' /\ (session'[r].state = "none" => session'[r].hash = 0)
    BY <2>2, <2>4, <2>5 DEF TokenInv
  <2>9. \A t \in held' : session'[t[1]].state # "none"
    BY <1>0, <2>1, <2>4 DEF TokenInv, Tokens
  <2>10. \A q \in Procs : At(q, "load")' =>
           proc'[q].s \in Sessions /\ proc'[q].c \in 0..MaxOps /\ session'[proc'[q].s].state # "none"
    BY <2>3, <2>4 DEF TokenInv, At, Stays
  <2> QED BY <2>6, <2>7, <2>8, <2>9, <2>10 DEF TokenInv
<1>5. CASE Load(p)
  <2>1. At(p, "load") /\ End(p) /\ UNCHANGED <<session, redeemed, lost, ops>>
        /\ held' = IF proc[p].s \in Live THEN held \cup {<<proc[p].s, proc[p].c>>} ELSE held
    BY <1>5 DEF Load
  <2>2. \A q \in Procs : proc'[q].at = "load" => Stays(q)
    BY <2>1, EndAt DEF Stays, Idle
  <2>3. \A q \in Procs \ {p} : proc'[q] = proc[q]
    BY <2>1, EndAt
  <2>4. TokensRotate'
    <3>1. ASSUME NEW r \in Live' \ lost'
          PROVE  \/ <<r, session'[r].hash>> \in held'
                 \/ \E q \in Procs : At(q, "load")' /\ proc'[q].s = r /\ proc'[q].c = session'[r].hash
      <4>1. r \in Live \ lost
        BY <2>1 DEF Live
      <4>2. \/ <<r, session[r].hash>> \in held
            \/ \E q \in Procs : At(q, "load") /\ proc[q].s = r /\ proc[q].c = session[r].hash
        BY <4>1 DEF TokenInv, TokensRotate
      <4>3. CASE <<r, session[r].hash>> \in held
        BY <2>1, <4>3
      <4>4. ASSUME NEW q \in Procs, At(q, "load"), proc[q].s = r, proc[q].c = session[r].hash
            PROVE  \/ <<r, session'[r].hash>> \in held'
                   \/ \E u \in Procs : At(u, "load")' /\ proc'[u].s = r /\ proc'[u].c = session'[r].hash
        <5>1. CASE q = p
          BY <2>1, <4>1, <4>4, <5>1
        <5>2. CASE q # p
          BY <2>1, <2>3, <4>4, <5>2 DEF At
        <5> QED BY <5>1, <5>2
      <4> QED BY <4>2, <4>3, <4>4
    <3> QED BY <2>1, <3>1 DEF TokenInv, TokensRotate
  <2>5. \A t \in held' : session'[t[1]].state # "none"
    BY <2>1 DEF TokenInv, At
  <2>6. \A q \in Procs : At(q, "load")' =>
           proc'[q].s \in Sessions /\ proc'[q].c \in 0..MaxOps /\ session'[proc'[q].s].state # "none"
    BY <2>1, <2>2 DEF TokenInv, At, Stays
  <2> QED BY <2>1, <2>4, <2>5, <2>6 DEF TokenInv
<1>6. ASSUME NEW t \in Tokens, Refresh(p, t) PROVE TokenInv'
  <2> DEFINE s == t[1]
  <2>1. /\ t \in held /\ session[s].hash = t[2]
        /\ session' = [session EXCEPT ![s].hash = @ + 1]
        /\ redeemed' = [redeemed EXCEPT ![t] = @ + 1]
        /\ UNCHANGED <<held, lost>>
    BY <1>6 DEF Refresh
  <2>2. s \in Sessions /\ t[2] \in 0..MaxOps /\ t = <<s, t[2]>> /\ session[s].state # "none"
        /\ t[2] \in Nat
    BY <2>1, ConstantsAreNats DEF Tokens, TokenInv
  <2>3. /\ proc'[p].at = "load" /\ proc'[p].s = s /\ proc'[p].c = t[2] + 1
        /\ proc[p].at = "idle" /\ \A q \in Procs \ {p} : proc'[q] = proc[q]
        /\ ops < MaxOps /\ ops' = ops + 1
    BY <1>6, Begun, OthersStay
  <2>4. /\ session'[s].hash = t[2] + 1 /\ session'[s].state = session[s].state
        /\ \A r \in Sessions \ {s} : session'[r] = session[r]
    BY <2>1, <2>2 DEF Types
  <2>5. redeemed[t] = 0 /\ redeemed'[t] = 1 /\ \A u \in Tokens \ {t} : redeemed'[u] = redeemed[u]
    BY <2>1, <2>2 DEF TokenInv, Types
  <2>6. session[s].hash <= ops
    BY <2>2 DEF TokenInv
  <2> HIDE DEF s
  <2>7. TokensRotate'
    <3>1. ASSUME NEW r \in Live' \ lost'
          PROVE  \/ <<r, session'[r].hash>> \in held'
                 \/ \E q \in Procs : At(q, "load")' /\ proc'[q].s = r /\ proc'[q].c = session'[r].hash
      <4>1. CASE r = s
        BY <2>3, <2>4, <4>1 DEF At
      <4>2. CASE r # s
        <5>1. r \in Sessions /\ r \in Live \ lost
          BY <2>1, <2>4, <4>2 DEF Live
        <5>2. \/ <<r, session[r].hash>> \in held
              \/ \E q \in Procs : At(q, "load") /\ proc[q].s = r /\ proc[q].c = session[r].hash
          BY <5>1 DEF TokenInv, TokensRotate
        <5> QED BY <2>1, <2>3, <2>4, <4>2, <5>1, <5>2 DEF At
      <4> QED BY <4>1, <4>2
    <3>2. \A u \in Tokens : redeemed'[u] <= 1
      BY <2>5 DEF TokenInv, TokensRotate
    <3> QED BY <3>1, <3>2 DEF TokensRotate
  <2>8. ASSUME NEW u \in Tokens, session'[u[1]].hash <= u[2] PROVE redeemed'[u] = 0
    <3>1. u[1] \in Sessions /\ u[2] \in Nat
      BY ConstantsAreNats DEF Tokens
    <3>2. CASE u[1] = s
      <4>1. u[2] # t[2] /\ session[u[1]].hash <= u[2]
        BY <2>1, <2>2, <2>4, <2>8, <3>1, <3>2
      <4> QED BY <2>5, <4>1 DEF TokenInv
    <3>3. CASE u[1] # s
      <4>1. u # t /\ session[u[1]].hash <= u[2]
        BY <2>2, <2>4, <2>8, <3>1, <3>3
      <4> QED BY <2>5, <4>1 DEF TokenInv
    <3> QED BY <3>2, <3>3
  <2>9. ASSUME NEW r \in Sessions
        PROVE  session'[r].hash <= ops' /\ (session'[r].state = "none" => session'[r].hash = 0)
    <3>1. CASE r = s
      BY <1>0, <2>1, <2>2, <2>3, <2>4, <2>6, <3>1
    <3>2. CASE r # s
      <4>1. session'[r] = session[r] /\ session[r].hash \in Nat
        BY <2>4, <3>2, ConstantsAreNats DEF Types
      <4> QED BY <1>0, <2>3, <4>1 DEF TokenInv
    <3> QED BY <3>1, <3>2
  <2>10. \A u \in held' : session'[u[1]].state # "none"
    BY <1>0, <2>1, <2>2, <2>4 DEF TokenInv, Tokens
  <2>11. t[2] + 1 \in 0..MaxOps
    BY <1>0, <2>1, <2>2, <2>3, <2>6, ConstantsAreNats
  <2>12. \A q \in Procs : At(q, "load")' =>
           proc'[q].s \in Sessions /\ proc'[q].c \in 0..MaxOps /\ session'[proc'[q].s].state # "none"
    BY <2>2, <2>3, <2>4, <2>11 DEF TokenInv, At
  <2> QED BY <2>7, <2>8, <2>9, <2>10, <2>12 DEF TokenInv
<1> QED BY <1>1, <1>2, <1>3, <1>4, <1>5, <1>6 DEF Session

LEMMA CodeToken ==
  ASSUME Types, Types', TokenInv, NEW p \in Procs, Code(p)
  PROVE  TokenInv'
<1>0. proc[p] \in Requested /\ proc \in [Procs -> Requested] /\ ops \in Nat /\ ops' \in Nat
  BY ConstantsAreNats DEF Types
<1>1. CASE SendOtp(p)
  <2>1. \A q \in Procs : (proc'[q].at = "load" => Stays(q)) /\ (proc[q].at = "load" => Stays(q))
    BY <1>1, Begun, OthersStay DEF Stays
  <2>2. ops <= ops'
    BY <1>0, <1>1, OthersStay
  <2> QED BY <1>0, <1>1, <2>1, <2>2, TokenQuiet DEF SendOtp, sessionVars
<1>2. CASE \E right \in BOOLEAN : VerifyOtp(p, right)
  <2>1. \A q \in Procs : (proc'[q].at = "load" => Stays(q)) /\ (proc[q].at = "load" => Stays(q))
    BY <1>2, VerifyBegun, OthersStay DEF Stays
  <2>2. ops <= ops'
    BY <1>0, <1>2, OthersStay
  <2> QED BY <1>0, <1>2, <2>1, <2>2, TokenQuiet DEF VerifyOtp, sessionVars
<1>3. CASE Clear(p)
  <2>1. \A q \in Procs : (proc'[q].at = "load" => Stays(q)) /\ (proc[q].at = "load" => Stays(q))
    BY <1>3, GotoAt DEF Clear, At, Stays
  <2> QED BY <1>0, <1>3, <2>1, TokenQuiet DEF Clear, sessionVars
<1>4. CASE CreateOtp(p) \/ CountAttempt(p)
  <2>1. \A q \in Procs : (proc'[q].at = "load" => Stays(q)) /\ (proc[q].at = "load" => Stays(q))
    BY <1>4, EndAt DEF CreateOtp, CountAttempt, At, Stays, Idle
  <2> QED BY <1>0, <1>4, <2>1, TokenQuiet DEF CreateOtp, CountAttempt, sessionVars
<1>5. CASE Drop(p)
  <2>1. proc'[p].at \in {"open", "idle"} /\ \A q \in Procs \ {p} : proc'[q] = proc[q]
    BY <1>0, <1>5 DEF Drop, Idle, Requested
  <2>2. \A q \in Procs : (proc'[q].at = "load" => Stays(q)) /\ (proc[q].at = "load" => Stays(q))
    BY <1>5, <2>1 DEF Drop, At, Stays
  <2> QED BY <1>0, <1>5, <2>2, TokenQuiet DEF Drop, sessionVars
<1> QED BY <1>1, <1>2, <1>3, <1>4, <1>5 DEF Code
-----------------------------------------------------------------------------
(* Guesses at a code.                                                       *)

LEMMA MostIsNat == Most \in Nat
BY ConstantsAreNats DEF Most

LEMMA GuessingIsFinite ==
  ASSUME NEW c
  PROVE  /\ IsFiniteSet(Guessing(c)) /\ Cardinality(Guessing(c)) \in Nat
         /\ Cardinality(Guessing(c)) <= Cardinality(Procs)
BY AccountsAssumption, FS_Subset, FS_CardinalityType DEF Guessing

\* Steps that guess nothing and count nothing.
NoneCounts == \A q \in Procs :
  /\ proc'[q].at = "count" => Stays(q)
  /\ proc[q].at = "count" => Stays(q)

LEMMA GuessQuiet ==
  ASSUME Types, GuessInv, UNCHANGED <<wrong, faults>>,
         \A c \in Codes :
           /\ otp'[c].attempts = otp[c].attempts
           /\ otp'[c].state = "none" => otp[c].state = "none"
           /\ otp'[c].state = "live" => otp[c].state \in {"none", "live"},
         NoneCounts
  PROVE  GuessInv'
<1>1. ASSUME NEW c \in Codes PROVE Guessing(c)' = Guessing(c)
  <2>1. \A q \in Procs : proc'[q].at = "count" /\ proc'[q].c = c <=> proc[q].at = "count" /\ proc[q].c = c
    BY DEF NoneCounts, Stays
  <2>2. Guessing(c)' = {q \in Procs : proc'[q].at = "count" /\ proc'[q].c = c}
        /\ Guessing(c) = {q \in Procs : proc[q].at = "count" /\ proc[q].c = c}
    BY DEF Guessing, At
  <2> QED BY <2>1, <2>2
<1>2. ASSUME NEW c \in Codes
      PROVE  /\ otp'[c].attempts + Cardinality(Guessing(c))' <= Most
             /\ otp'[c].state = "none" => wrong'[c] = 0
             /\ otp'[c].state = "live" =>
                  wrong'[c] <= otp'[c].attempts + Cardinality(Guessing(c))' + faults'
             /\ wrong'[c] <= Most + faults'
  <2>1. Cardinality(Guessing(c))' = Cardinality(Guessing(c)) /\ Cardinality(Guessing(c)) \in Nat
    BY <1>1, GuessingIsFinite
  <2>2. otp[c].attempts \in Nat /\ faults \in Nat /\ wrong[c] \in Nat
    BY DEF Types
  <2>3. otp'[c].state = "live" => wrong[c] <= otp[c].attempts + Cardinality(Guessing(c)) + faults
    BY <2>1, <2>2 DEF GuessInv
  <2> QED BY <2>1, <2>3 DEF GuessInv
<1> QED BY <1>2 DEF GuessInv, Most

\* Cleared rows are gone; the others are as they were.
LEMMA ClearedIs ==
  ASSUME Types, NEW c \in Codes
  PROVE  /\ Cleared[c].attempts = otp[c].attempts
         /\ Cleared[c].state = IF otp[c].state = "live" THEN "gone" ELSE otp[c].state
BY DEF Types, Cleared, LiveCodes

LEMMA GuessStep ==
  ASSUME Types, RowInv, GuessInv, ServeInv, NEW p \in Procs, Row(p) \/ Session(p) \/ Code(p) \/ Die(p)
  PROVE  GuessInv'
<1>0. proc[p] \in Requested /\ proc \in [Procs -> Requested]
  BY DEF Types
<1>1. CASE Row(p)
  <2>1. NoneCounts
    BY <1>1, RowProcs DEF Writing, NoneCounts
  <2>2. UNCHANGED <<otp, wrong>> /\ faults' = faults
    <3>1. UNCHANGED <<otp, wrong>>
      BY <1>1 DEF Row, Register, ConfirmEmail, ConfirmNewEmail, UpdateProfile, ResetPassword,
         ChangePassword, EndSessions, Compare, Find, Save, otpVars
    <3> QED BY <1>1, <3>1, RowProcs
  <2> QED BY <2>1, <2>2, GuessQuiet
<1>2. CASE Login(p) \/ SocialLogin(p) \/ (\E t \in Tokens : Refresh(p, t)) \/ \E s \in Sessions : Logout(p, s)
  <2>1. NoneCounts
    BY <1>2, Begun, OthersStay DEF Stays, Idle, NoneCounts
  <2>2. UNCHANGED <<otp, wrong, faults>>
    BY <1>2, OthersStay DEF Login, SocialLogin, Refresh, Logout, otpVars
  <2> QED BY <2>1, <2>2, GuessQuiet
<1>3. CASE Open(p) \/ Load(p)
  <2>1. NoneCounts
    BY <1>3, EndAt DEF Open, Load, At, Stays, Idle, NoneCounts
  <2> QED BY <1>3, <2>1, GuessQuiet DEF Open, Load, otpVars
<1>4. CASE SendOtp(p)
  <2>1. NoneCounts
    BY <1>4, Begun, OthersStay DEF Stays, NoneCounts
  <2> QED BY <1>4, <2>1, OthersStay, GuessQuiet DEF SendOtp
<1>5. CASE Clear(p)
  <2>1. NoneCounts
    BY <1>5, GotoAt DEF Clear, At, Stays, NoneCounts
  <2> QED BY <1>5, <2>1, ClearedIs, GuessQuiet DEF Clear
<1>6. CASE CreateOtp(p)
  <2>1. NoneCounts
    BY <1>6, EndAt DEF CreateOtp, At, Stays, Idle, NoneCounts
  <2>2. \A c \in Codes :
           /\ otp'[c].attempts = otp[c].attempts
           /\ otp'[c].state = "none" => otp[c].state = "none"
           /\ otp'[c].state = "live" => otp[c].state \in {"none", "live"}
    BY <1>6 DEF CreateOtp, Types
  <2> QED BY <1>6, <2>1, <2>2, GuessQuiet DEF CreateOtp
<1>7. CASE Drop(p)
  <2>1. proc'[p].at \in {"open", "idle"} /\ \A q \in Procs \ {p} : proc'[q] = proc[q]
    BY <1>0, <1>7 DEF Drop, Idle, Requested
  <2>2. NoneCounts
    BY <1>7, <2>1 DEF Drop, At, Stays, NoneCounts
  <2> QED BY <1>7, <2>2, ClearedIs, GuessQuiet DEF Drop
<1>8. ASSUME NEW right \in BOOLEAN, VerifyOtp(p, right) PROVE GuessInv'
  <2> DEFINE l == Latest
  <2>1. /\ proc'[p].c = l /\ l \in Codes /\ otp[l].state = "live" /\ proc'[p].at \in {"drop", "count"}
        /\ proc'[p].at = "count" => otp[l].attempts < MaxAttempts
        /\ proc[p].at = "idle" /\ \A q \in Procs \ {p} : proc'[q] = proc[q]
    BY <1>8, VerifyBegun, OthersStay DEF LiveCodes
  <2>2. otp' = otp /\ faults' = faults
    BY <1>8, OthersStay DEF VerifyOtp
  <2>3. wrong' = IF proc'[p].at = "count" THEN [wrong EXCEPT ![l] = @ + 1] ELSE wrong
    BY <1>8 DEF VerifyOtp
  <2> HIDE DEF l
  <2>4. CASE proc'[p].at = "drop"
    <3>1. NoneCounts
      BY <2>1, <2>4 DEF Stays, NoneCounts
    <3> QED BY <2>2, <2>3, <2>4, <3>1, GuessQuiet
  <2>5. CASE proc'[p].at = "count"
    <3>1. ASSUME NEW c \in Codes
          PROVE  /\ otp'[c].attempts + Cardinality(Guessing(c))' <= Most
                 /\ otp'[c].state = "none" => wrong'[c] = 0
                 /\ otp'[c].state = "live" =>
                      wrong'[c] <= otp'[c].attempts + Cardinality(Guessing(c))' + faults'
                 /\ wrong'[c] <= Most + faults'
      <4>0. otp[c].attempts \in Nat /\ faults \in Nat /\ wrong[c] \in Nat /\ Most \in Nat
            /\ Cardinality(Guessing(c)) \in Nat
        BY MostIsNat, GuessingIsFinite DEF Types
      <4>1. CASE c = l
        <5>1. Guessing(c)' = Guessing(c) \cup {p} /\ p \notin Guessing(c)
          BY <2>1, <2>5, <4>1 DEF Guessing, At
        <5>2. Cardinality(Guessing(c))' = Cardinality(Guessing(c)) + 1
          BY <5>1, GuessingIsFinite, FS_AddElement
        <5>3. Guessing(c) \cup {p} \subseteq Procs /\ IsFiniteSet(Procs)
          BY AccountsAssumption DEF Guessing
        <5>4. Cardinality(Guessing(c)) + 1 <= Cardinality(Procs)
          BY <5>1, <5>3, GuessingIsFinite, FS_AddElement, FS_Subset
        <5>5. otp[c].attempts + Cardinality(Guessing(c)) + 1 <= Most
          BY <2>1, <2>5, <4>0, <4>1, <5>4, ConstantsAreNats DEF Most
        <5>6. wrong[c] <= otp[c].attempts + Cardinality(Guessing(c)) + faults
          BY <2>1, <4>1 DEF GuessInv
        <5>7. wrong'[c] = wrong[c] + 1
          BY <2>3, <2>5, <4>1 DEF Types
        <5>8. wrong[c] + 1 <= otp[c].attempts + (Cardinality(Guessing(c)) + 1) + faults
              /\ wrong[c] + 1 <= Most + faults
          BY <4>0, <5>5, <5>6
        <5>9. otp[c].state # "none"
          BY <2>1, <4>1
        <5>10. otp[c].attempts + (Cardinality(Guessing(c)) + 1) <= Most
          BY <4>0, <5>5
        <5> QED BY <2>2, <5>2, <5>7, <5>8, <5>9, <5>10
      <4>2. CASE c # l
        <5>1. Guessing(c)' = Guessing(c)
          BY <2>1, <4>2 DEF Guessing, At
        <5>2. wrong'[c] = wrong[c]
          BY <2>3, <4>2 DEF Types
        <5> QED BY <2>2, <5>1, <5>2 DEF GuessInv
      <4> QED BY <4>1, <4>2
    <3> QED BY <3>1 DEF GuessInv, Most
  <2> QED BY <2>1, <2>4, <2>5
<1>9. CASE CountAttempt(p)
  <2> DEFINE l == proc[p].c
  <2>1. proc[p].at = "count" /\ l \in Codes /\ wrong' = wrong /\ faults' = faults
        /\ proc'[p] = Idle /\ \A q \in Procs \ {p} : proc'[q] = proc[q]
    BY <1>9, EndAt DEF CountAttempt, At, ServeInv
  <2>2. otp' = IF l \in LiveCodes THEN [otp EXCEPT ![l].attempts = @ + 1] ELSE otp
    BY <1>9 DEF CountAttempt
  <2> HIDE DEF l
  <2>3. ASSUME NEW c \in Codes
        PROVE  /\ otp'[c].attempts + Cardinality(Guessing(c))' <= Most
               /\ otp'[c].state = "none" => wrong'[c] = 0
               /\ otp'[c].state = "live" =>
                    wrong'[c] <= otp'[c].attempts + Cardinality(Guessing(c))' + faults'
               /\ wrong'[c] <= Most + faults'
    <3>0. otp[c].attempts \in Nat /\ faults \in Nat /\ wrong[c] \in Nat /\ Most \in Nat
          /\ Cardinality(Guessing(c)) \in Nat
      BY MostIsNat, GuessingIsFinite DEF Types
    <3>1. CASE c = l
      <4>1. Guessing(c)' = Guessing(c) \ {p} /\ p \in Guessing(c)
        BY <2>1, <3>1 DEF Guessing, At, Idle, l
      <4>2. Cardinality(Guessing(c))' = Cardinality(Guessing(c)) - 1
        BY <4>1, GuessingIsFinite, FS_RemoveElement
      <4>3. /\ otp'[c].state = otp[c].state
            /\ otp'[c].attempts = IF otp[c].state = "live" THEN otp[c].attempts + 1 ELSE otp[c].attempts
        BY <2>2, <3>1 DEF Types, LiveCodes
      <4>4. /\ otp[c].attempts + Cardinality(Guessing(c)) <= Most
            /\ otp[c].state = "none" => wrong[c] = 0
            /\ otp[c].state = "live" => wrong[c] <= otp[c].attempts + Cardinality(Guessing(c)) + faults
            /\ wrong[c] <= Most + faults
        BY DEF GuessInv
      <4> QED BY <2>1, <3>0, <4>2, <4>3, <4>4
    <3>2. CASE c # l
      <4>1. Guessing(c)' = Guessing(c)
        BY <2>1, <3>2 DEF Guessing, At, Idle, l
      <4>2. otp'[c] = otp[c]
        BY <2>2, <3>2 DEF Types
      <4> QED BY <2>1, <4>1, <4>2 DEF GuessInv
    <3> QED BY <3>1, <3>2
  <2> QED BY <2>3 DEF GuessInv, Most
<1>10. CASE Die(p)
  <2>1. otp' = otp /\ wrong' = wrong /\ faults' = faults + 1
        /\ proc'[p] = Idle /\ \A q \in Procs \ {p} : proc'[q] = proc[q]
    BY <1>10, EndAt DEF Die, otpVars
  <2>2. ASSUME NEW c \in Codes
        PROVE  /\ otp'[c].attempts + Cardinality(Guessing(c))' <= Most
               /\ otp'[c].state = "none" => wrong'[c] = 0
               /\ otp'[c].state = "live" =>
                    wrong'[c] <= otp'[c].attempts + Cardinality(Guessing(c))' + faults'
               /\ wrong'[c] <= Most + faults'
    <3>0. otp[c].attempts \in Nat /\ faults \in Nat /\ wrong[c] \in Nat /\ Most \in Nat
          /\ Cardinality(Guessing(c)) \in Nat
      BY MostIsNat, GuessingIsFinite DEF Types
    <3>1. Guessing(c)' = Guessing(c) \ {p}
      BY <2>1 DEF Guessing, At, Idle
    <3>2. Cardinality(Guessing(c))' \in {Cardinality(Guessing(c)), Cardinality(Guessing(c)) - 1}
      <4>1. CASE p \in Guessing(c)
        BY <3>1, <4>1, GuessingIsFinite, FS_RemoveElement
      <4>2. CASE p \notin Guessing(c)
        <5>1. Guessing(c)' = Guessing(c)
          BY <3>1, <4>2
        <5> QED BY <5>1
      <4> QED BY <4>1, <4>2
    <3>3. /\ otp[c].attempts + Cardinality(Guessing(c)) <= Most
          /\ otp[c].state = "none" => wrong[c] = 0
          /\ otp[c].state = "live" => wrong[c] <= otp[c].attempts + Cardinality(Guessing(c)) + faults
          /\ wrong[c] <= Most + faults
      BY DEF GuessInv
    <3> QED BY <2>1, <3>0, <3>2, <3>3
  <2> QED BY <2>2 DEF GuessInv, Most
<1> QED BY <1>1, <1>2, <1>3, <1>4, <1>5, <1>6, <1>7, <1>8, <1>9, <1>10 DEF Session, Code
-----------------------------------------------------------------------------
(* Whom a code serves, and who deletes it.                                  *)

\* No code comes back, and nobody takes one up or opens a session with one.
Onward == \A c \in Codes :
  /\ otp'[c].state = "none" => otp[c].state = "none"
  /\ otp[c].state = "gone" => otp'[c].state = "gone"

NoneServes == \A q \in Procs :
  \/ proc'[q].at \notin {"drop", "count", "open"}
  \/ proc'[q].at = "open" /\ proc'[q].c = 0
  \/ Stays(q)

LEMMA ServeQuiet ==
  ASSUME Types, ServeInv, crossed \subseteq crossed', opened' = opened, Onward, NoneServes
  PROVE  ServeInv'
<1> USE DEF Onward, NoneServes
<1>1. \A c \in Codes : c # 0
  BY DEF Codes
<1>2. \A c \in Codes, q \in Procs : Serves(q, c)' => Serves(q, c) /\ proc'[q].at = proc[q].at
  BY <1>1 DEF Serves, Stays
<1>3. ASSUME NEW c \in Codes \ crossed'
      PROVE  /\ opened'[c] <= 1 /\ (opened'[c] # 0 => otp'[c].state = "gone")
             /\ \A p \in Procs : Serves(p, c)' =>
                  /\ opened'[c] = 0 /\ otp'[c].state # "none"
                  /\ At(p, "open")' => otp'[c].state = "gone"
                  /\ \A q \in Procs : Serves(q, c)' => p = q
  <2>1. c \in Codes \ crossed
    OBVIOUS
  <2>2. /\ opened[c] <= 1 /\ (opened[c] # 0 => otp[c].state = "gone")
        /\ \A p \in Procs : Serves(p, c) =>
             /\ opened[c] = 0 /\ otp[c].state # "none"
             /\ At(p, "open") => otp[c].state = "gone"
             /\ \A q \in Procs : Serves(q, c) => p = q
    BY <2>1 DEF ServeInv
  <2> QED BY <1>2, <2>2 DEF At
<1>4. \A p \in Procs :
        /\ At(p, "open")' /\ proc'[p].c # 0 => proc'[p].op = "verify" /\ proc'[p].c \in Codes
        /\ At(p, "drop")' /\ proc'[p].op = "verify" => proc'[p].c \in Codes
        /\ At(p, "count")' => proc'[p].c \in Codes
  BY DEF ServeInv, At, Stays
<1> QED BY <1>3, <1>4 DEF ServeInv

LEMMA SharedGrows ==
  ASSUME NEW p, NEW c
  PROVE  /\ crossed \subseteq Shared(p, c)
         /\ c # 0 /\ c \notin Shared(p, c) => \A q \in Procs \ {p} : proc[q].at \notin Coding
BY DEF Shared, Coding

\* A request that begins or ends otherwise, and those who do not touch codes.
LEMMA NoCodeProcs ==
  ASSUME Types, RowInv, NEW p \in Procs,
         \/ Row(p) \/ Login(p) \/ SocialLogin(p) \/ (\E t \in Tokens : Refresh(p, t))
         \/ (\E s \in Sessions : Logout(p, s)) \/ Load(p) \/ Die(p) \/ CountAttempt(p)
  PROVE  \A q \in Procs :
           \/ Stays(q)
           \/ proc'[q].at \notin Coding /\ (proc'[q].at = "open" => proc'[q].c = 0)
<1>1. CASE Row(p)
  BY <1>1, RowProcs DEF Writing, Coding
<1>2. CASE Login(p) \/ SocialLogin(p) \/ (\E t \in Tokens : Refresh(p, t)) \/ \E s \in Sessions : Logout(p, s)
  <2>1. \A q \in Procs \ {p} : Stays(q)
    BY <1>2, OthersStay DEF Stays
  <2>2. proc'[p].at \notin Coding /\ (proc'[p].at = "open" => proc'[p].c = 0)
    BY <1>2, Begun DEF Coding, Idle
  <2> QED BY <2>1, <2>2
<1>3. CASE Load(p) \/ Die(p) \/ CountAttempt(p)
  BY <1>3, EndAt DEF Load, Die, CountAttempt, Idle, Coding, Stays
<1> QED BY <1>1, <1>2, <1>3

LEMMA NoCodeRows ==
  ASSUME NEW p \in Procs,
         \/ Row(p) \/ Login(p) \/ SocialLogin(p) \/ (\E t \in Tokens : Refresh(p, t))
         \/ (\E s \in Sessions : Logout(p, s)) \/ Load(p) \/ Die(p)
  PROVE  UNCHANGED otpVars
BY DEF Row, Register, ConfirmEmail, ConfirmNewEmail, UpdateProfile, ResetPassword, ChangePassword,
       EndSessions, Compare, Find, Save, Login, SocialLogin, Refresh, Logout, Load, Die

LEMMA ServeStep ==
  ASSUME Types, RowInv, ServeInv, NEW p \in Procs, Row(p) \/ Session(p) \/ Code(p) \/ Die(p)
  PROVE  ServeInv'
<1>0. proc[p] \in Requested /\ proc \in [Procs -> Requested]
  BY DEF Types
<1>1. CASE Row(p) \/ Login(p) \/ SocialLogin(p) \/ (\E t \in Tokens : Refresh(p, t))
           \/ (\E s \in Sessions : Logout(p, s)) \/ Load(p) \/ Die(p)
  <2>1. UNCHANGED <<otp, crossed, opened>>
    BY <1>1, NoCodeRows DEF otpVars
  <2>2. NoneServes
    BY <1>1, NoCodeProcs DEF Coding, NoneServes
  <2>3. Onward
    BY <2>1 DEF Onward
  <2> QED BY <2>1, <2>2, <2>3, ServeQuiet
<1>2. CASE CountAttempt(p)
  <2>1. NoneServes
    BY <1>2, NoCodeProcs DEF Coding, NoneServes
  <2>2. Onward
    BY <1>2 DEF CountAttempt, Types, LiveCodes, Onward
  <2> QED BY <1>2, <2>1, <2>2, ServeQuiet DEF CountAttempt
<1>3. CASE SendOtp(p)
  <2>1. NoneServes
    BY <1>3, Begun, OthersStay DEF Stays, NoneServes
  <2>3. Onward
    BY <1>3 DEF SendOtp, Onward
  <2>2. crossed \subseteq crossed'
    BY <1>3, SharedGrows DEF SendOtp
  <2> QED BY <1>3, <2>1, <2>2, <2>3, ServeQuiet DEF SendOtp
<1>4. CASE Clear(p)
  <2>1. NoneServes
    BY <1>4, GotoAt DEF Clear, Stays, NoneServes
  <2>2. Onward
    BY <1>4, ClearedIs DEF Clear, Onward
  <2> QED BY <1>4, <2>1, <2>2, ServeQuiet DEF Clear
<1>5. CASE CreateOtp(p)
  <2>1. NoneServes
    BY <1>5, EndAt DEF CreateOtp, Idle, Stays, NoneServes
  <2>2. crossed \subseteq crossed'
    BY <1>5, SharedGrows DEF CreateOtp
  <2>3. Onward
    BY <1>5 DEF CreateOtp, Types, Onward
  <2> QED BY <1>5, <2>1, <2>2, <2>3, ServeQuiet DEF CreateOtp
<1>6. CASE Open(p)
  <2> DEFINE l == proc[p].c
  <2>1. proc[p].at = "open" /\ UNCHANGED <<otp, crossed>> /\ proc'[p] = Idle
        /\ \A q \in Procs \ {p} : proc'[q] = proc[q]
    BY <1>6, EndAt DEF Open, At
  <2>2. opened' = IF l = 0 THEN opened ELSE [opened EXCEPT ![l] = @ + 1]
    BY <1>6 DEF Open
  <2>3. \A q \in Procs : proc'[q].at \notin {"drop", "count", "open"} \/ Stays(q)
    BY <2>1 DEF Idle, Stays
  <2>4. CASE l = 0
    <3>1. opened' = opened
      BY <2>2, <2>4
    <3>2. NoneServes /\ Onward
      BY <2>1, <2>3 DEF NoneServes, Onward
    <3> QED BY <2>1, <3>1, <3>2, ServeQuiet
  <2>5. CASE l # 0
    <3>1. l \in Codes /\ Serves(p, l)
      BY <2>1, <2>5 DEF ServeInv, At, Serves
    <3>2. \A c \in Codes, q \in Procs : Serves(q, c)' => Serves(q, c) /\ proc'[q].at = proc[q].at /\ q # p
      BY <2>1, <2>3 DEF Serves, Stays, Idle
    <3>3. ASSUME NEW c \in Codes \ crossed'
          PROVE  /\ opened'[c] <= 1 /\ (opened'[c] # 0 => otp'[c].state = "gone")
                 /\ \A u \in Procs : Serves(u, c)' =>
                      /\ opened'[c] = 0 /\ otp'[c].state # "none"
                      /\ At(u, "open")' => otp'[c].state = "gone"
                      /\ \A q \in Procs : Serves(q, c)' => u = q
      <4>1. /\ opened[c] <= 1 /\ (opened[c] # 0 => otp[c].state = "gone")
            /\ \A u \in Procs : Serves(u, c) =>
                 /\ opened[c] = 0 /\ otp[c].state # "none"
                 /\ At(u, "open") => otp[c].state = "gone"
                 /\ \A q \in Procs : Serves(q, c) => u = q
        BY <2>1, <3>3 DEF ServeInv
      <4>2. CASE c = l
        <5>1. opened[c] = 0 /\ otp[c].state = "gone" /\ \A q \in Procs : Serves(q, c) => p = q
          BY <2>1, <3>1, <4>1, <4>2 DEF At
        <5>2. opened'[c] = 1
          BY <2>2, <2>5, <4>2, <5>1 DEF Types
        <5>3. \A q \in Procs : ~Serves(q, c)'
          BY <3>2, <5>1
        <5> QED BY <2>1, <5>1, <5>2, <5>3
      <4>3. CASE c # l
        <5>1. opened'[c] = opened[c]
          BY <2>2, <4>3 DEF Types
        <5> QED BY <2>1, <3>2, <4>1, <5>1 DEF At
      <4> QED BY <4>2, <4>3
    <3>4. \A u \in Procs :
            /\ At(u, "open")' /\ proc'[u].c # 0 => proc'[u].op = "verify" /\ proc'[u].c \in Codes
            /\ At(u, "drop")' /\ proc'[u].op = "verify" => proc'[u].c \in Codes
            /\ At(u, "count")' => proc'[u].c \in Codes
      BY <2>3 DEF ServeInv, At, Stays
    <3> QED BY <3>3, <3>4 DEF ServeInv
  <2> QED BY <2>4, <2>5
<1>7. ASSUME NEW right \in BOOLEAN, VerifyOtp(p, right) PROVE ServeInv'
  <2> DEFINE l == Latest
  <2>1. /\ proc'[p].c = l /\ l \in Codes /\ otp[l].state = "live" /\ proc'[p].at \in {"drop", "count"}
        /\ proc[p].at = "idle" /\ \A q \in Procs \ {p} : proc'[q] = proc[q]
    BY <1>7, VerifyBegun, OthersStay DEF LiveCodes
  <2>2. UNCHANGED <<otp, opened>> /\ crossed' = Shared(p, l)
    BY <1>7 DEF VerifyOtp
  <2> HIDE DEF l
  <2>3. l # 0 /\ crossed \subseteq crossed'
    BY <2>1, <2>2, SharedGrows DEF Codes
  <2>4. ASSUME NEW c \in Codes \ crossed'
        PROVE  /\ opened'[c] <= 1 /\ (opened'[c] # 0 => otp'[c].state = "gone")
               /\ \A u \in Procs : Serves(u, c)' =>
                    /\ opened'[c] = 0 /\ otp'[c].state # "none"
                    /\ At(u, "open")' => otp'[c].state = "gone"
                    /\ \A q \in Procs : Serves(q, c)' => u = q
    <3>1. c \in Codes \ crossed
      BY <2>3
    <3>2. /\ opened[c] <= 1 /\ (opened[c] # 0 => otp[c].state = "gone")
          /\ \A u \in Procs : Serves(u, c) =>
               /\ opened[c] = 0 /\ otp[c].state # "none"
               /\ At(u, "open") => otp[c].state = "gone"
               /\ \A q \in Procs : Serves(q, c) => u = q
      BY <3>1 DEF ServeInv
    <3>3. \A q \in Procs \ {p} : (Serves(q, c)' <=> Serves(q, c)) /\ proc'[q].at = proc[q].at
      BY <2>1 DEF Serves
    <3>4. CASE c = l
      <4>1. \A q \in Procs \ {p} : proc[q].at \notin Coding
        BY <2>2, <2>3, <2>4, <3>4, SharedGrows
      <4>2. opened[c] = 0
        BY <2>1, <3>2, <3>4
      <4>3. \A q \in Procs \ {p} : ~Serves(q, c)
        BY <2>1, <3>2, <3>4, <4>1 DEF Serves, Coding, At
      <4>4. \A q \in Procs : Serves(q, c)' => q = p
        BY <3>3, <4>3
      <4>5. otp'[c].state = "live" /\ ~At(p, "open")'
        BY <2>1, <2>2, <3>4 DEF At
      <4> QED BY <2>2, <4>2, <4>4, <4>5
    <3>5. CASE c # l
      <4>1. ~Serves(p, c)'
        BY <2>1, <3>5 DEF Serves
      <4>2. \A q \in Procs : Serves(q, c)' => q # p /\ Serves(q, c) /\ proc'[q].at = proc[q].at
        BY <3>3, <4>1
      <4> QED BY <2>2, <3>2, <4>2 DEF At
    <3> QED BY <3>4, <3>5
  <2>5. \A u \in Procs :
          /\ At(u, "open")' /\ proc'[u].c # 0 => proc'[u].op = "verify" /\ proc'[u].c \in Codes
          /\ At(u, "drop")' /\ proc'[u].op = "verify" => proc'[u].c \in Codes
          /\ At(u, "count")' => proc'[u].c \in Codes
    BY <2>1 DEF ServeInv, At
  <2> QED BY <2>4, <2>5 DEF ServeInv
<1>8. CASE Drop(p)
  <2>1. /\ proc[p].at = "drop" /\ \A q \in Procs \ {p} : proc'[q] = proc[q]
        /\ UNCHANGED <<crossed, opened>> /\ otp' = Cleared
    BY <1>0, <1>8 DEF Drop, At
  <2>2. \/ proc'[p] = Idle
        \/ proc[p].op = "verify" /\ proc'[p] = [proc[p] EXCEPT !.at = "open", !.by = "code"]
    BY <1>0, <1>8 DEF Drop
  <2>3. \/ proc'[p].at = "idle"
        \/ proc[p].op = "verify" /\ proc'[p].op = "verify" /\ proc'[p].at = "open" /\ proc'[p].c = proc[p].c
    <3>1. CASE proc'[p] = Idle
      BY <3>1 DEF Idle
    <3>2. CASE proc[p].op = "verify" /\ proc'[p] = [proc[p] EXCEPT !.at = "open", !.by = "code"]
      BY <1>0, <3>2 DEF Requested
    <3> QED BY <2>2, <3>1, <3>2
  <2>4. \A c \in Codes : /\ otp'[c].state = "none" <=> otp[c].state = "none"
                         /\ otp'[c].state # "none" => otp'[c].state = "gone"
                         /\ otp[c].state = "gone" => otp'[c].state = "gone"
    <3>1. \A c \in Codes : otp[c].state \in States
      BY DEF Types
    <3> QED BY <2>1, <3>1, ClearedIs DEF States
  <2>5. \A c \in Codes, q \in Procs : Serves(q, c)' => Serves(q, c)
    BY <2>1, <2>3 DEF Serves
  <2>6. ASSUME NEW c \in Codes \ crossed'
        PROVE  /\ opened'[c] <= 1 /\ (opened'[c] # 0 => otp'[c].state = "gone")
               /\ \A u \in Procs : Serves(u, c)' =>
                    /\ opened'[c] = 0 /\ otp'[c].state # "none"
                    /\ At(u, "open")' => otp'[c].state = "gone"
                    /\ \A q \in Procs : Serves(q, c)' => u = q
    BY <2>1, <2>4, <2>5, <2>6 DEF ServeInv
  <2>7. \A u \in Procs :
          /\ At(u, "open")' /\ proc'[u].c # 0 => proc'[u].op = "verify" /\ proc'[u].c \in Codes
          /\ At(u, "drop")' /\ proc'[u].op = "verify" => proc'[u].c \in Codes
          /\ At(u, "count")' => proc'[u].c \in Codes
    BY <2>1, <2>3 DEF ServeInv, At
  <2> QED BY <2>6, <2>7 DEF ServeInv
<1> QED BY <1>1, <1>2, <1>3, <1>4, <1>5, <1>6, <1>7, <1>8 DEF Session, Code

\* No code is created or deleted, and nobody sets out to but with the newest in hand.
Kept == \A c \in Codes :
  /\ otp'[c].state = "none" <=> otp[c].state = "none"
  /\ otp'[c].state = "live" => otp[c].state = "live"

NoneClears == \A q \in Procs :
  \/ proc'[q].at \notin {"clear", "drop", "create"}
  \/ Stays(q)
  \/ proc'[q].at # "create" /\ LiveCodes \ {proc'[q].c} \subseteq crossed

LEMMA ClearQuiet ==
  ASSUME Types, ClearInv, vanished' = vanished, crossed \subseteq crossed', Kept, NoneClears
  PROVE  ClearInv'
<1> USE DEF Kept, NoneClears
<1>1. LiveCodes' \subseteq LiveCodes
  BY DEF LiveCodes
<1>2. vanished' \subseteq crossed'
  BY DEF ClearInv
<1>3. \A c, d \in Codes : c < d /\ otp'[c].state = "none" => otp'[d].state = "none"
  BY DEF ClearInv
<1>4. \A c, d \in LiveCodes' : c < d => c \in crossed'
  BY <1>1 DEF ClearInv
<1>5. \A q \in Procs :
        /\ proc'[q].at \in {"clear", "drop"} => LiveCodes' \ {proc'[q].c} \subseteq crossed'
        /\ At(q, "create")' => LiveCodes' \subseteq crossed'
  BY <1>1 DEF ClearInv, Stays, At
<1> QED BY <1>2, <1>3, <1>4, <1>5 DEF ClearInv

\* A code that is created while others are under way is in their hands too.
LEMMA CreateClear ==
  ASSUME Types, ClearInv, NEW p \in Procs, CreateOtp(p)
  PROVE  ClearInv'
<1>1. PICK c \in Codes :
        /\ otp[c].state = "none" /\ \A d \in Codes : d < c => otp[d].state # "none"
        /\ otp' = [otp EXCEPT ![c].state = "live"]
        /\ crossed' = Shared(p, c)
  BY DEF CreateOtp
<1>2. proc[p].at = "create" /\ proc'[p] = Idle /\ (\A q \in Procs \ {p} : proc'[q] = proc[q])
      /\ vanished' = vanished
  BY EndAt DEF CreateOtp, At
<1>3. c # 0 /\ Codes \subseteq Nat /\ crossed \subseteq crossed'
  BY <1>1, SharedGrows, ConstantsAreNats DEF Codes
<1>4. otp'[c].state = "live" /\ \A d \in Codes \ {c} : otp'[d] = otp[d]
  BY <1>1 DEF Types
<1>5. LiveCodes' = LiveCodes \cup {c}
  BY <1>4 DEF LiveCodes
<1>6. LiveCodes \subseteq crossed
  BY <1>2 DEF ClearInv, At
<1>7. ASSUME NEW q \in Procs, proc'[q].at \in Coding
      PROVE  LiveCodes' \subseteq crossed'
  <2>1. q # p /\ proc[q].at \in Coding
    BY <1>2, <1>7 DEF Idle, Coding
  <2>2. c \in crossed'
    BY <1>1, <1>3, <2>1, SharedGrows
  <2> QED BY <1>3, <1>5, <1>6, <2>2
<1>8. \A x, y \in Codes : x < y /\ otp'[x].state = "none" => otp'[y].state = "none"
  <2> SUFFICES ASSUME NEW x \in Codes, NEW y \in Codes, x < y, otp'[x].state = "none"
               PROVE  otp'[y].state = "none"
    OBVIOUS
  <2>1. x # c /\ otp[x].state = "none"
    BY <1>4
  <2>2. y # c
    BY <1>1, <2>1
  <2> QED BY <1>4, <2>1, <2>2 DEF ClearInv
<1>9. \A x, y \in LiveCodes' : x < y => x \in crossed'
  <2> SUFFICES ASSUME NEW x \in LiveCodes', NEW y \in LiveCodes', x < y
               PROVE  x \in crossed'
    OBVIOUS
  <2>1. CASE x = c
    <3>1. y \in LiveCodes /\ y \in Codes /\ otp[y].state = "live"
      BY <1>3, <1>5, <2>1 DEF LiveCodes
    <3> QED BY <1>1, <2>1, <3>1 DEF ClearInv
  <2>2. CASE x # c
    BY <1>3, <1>5, <1>6, <2>2
  <2> QED BY <2>1, <2>2
<1>10. vanished' \subseteq crossed'
  BY <1>2, <1>3 DEF ClearInv
<1> QED BY <1>7, <1>8, <1>9, <1>10 DEF ClearInv, Coding, At

LEMMA ClearStep ==
  ASSUME Types, RowInv, ClearInv, NEW p \in Procs, Row(p) \/ Session(p) \/ Code(p) \/ Die(p)
  PROVE  ClearInv'
<1>0. proc[p] \in Requested /\ proc \in [Procs -> Requested]
  BY DEF Types
<1>1. CASE Row(p) \/ Login(p) \/ SocialLogin(p) \/ (\E t \in Tokens : Refresh(p, t))
           \/ (\E s \in Sessions : Logout(p, s)) \/ Load(p) \/ Die(p)
  <2>1. UNCHANGED <<otp, crossed, vanished>>
    BY <1>1, NoCodeRows DEF otpVars
  <2>2. NoneClears
    BY <1>1, NoCodeProcs DEF Coding, NoneClears
  <2>3. Kept
    BY <2>1 DEF Kept
  <2> QED BY <2>1, <2>2, <2>3, ClearQuiet
<1>2. CASE CountAttempt(p)
  <2>1. NoneClears
    BY <1>2, NoCodeProcs DEF Coding, NoneClears
  <2>2. Kept
    BY <1>2 DEF CountAttempt, Types, LiveCodes, Kept
  <2> QED BY <1>2, <2>1, <2>2, ClearQuiet DEF CountAttempt
<1>3. CASE Open(p)
  <2>1. NoneClears
    BY <1>3, EndAt DEF Open, Idle, Stays, NoneClears
  <2>2. Kept
    BY <1>3 DEF Open, Kept
  <2> QED BY <1>3, <2>1, <2>2, ClearQuiet DEF Open
<1>4. LiveCodes \ {Latest} \subseteq crossed
  <2>1. CASE LiveCodes = {}
    BY <2>1
  <2>2. CASE LiveCodes # {}
    <3>1. Latest \in LiveCodes /\ \A d \in LiveCodes : d <= Latest
      BY <2>2, LatestIsNewest
    <3>2. LiveCodes \subseteq Nat
      BY ConstantsAreNats DEF LiveCodes, Codes
    <3>3. \A d \in LiveCodes \ {Latest} : d < Latest
      BY <3>1, <3>2
    <3> QED BY <3>1, <3>3 DEF ClearInv
  <2> QED BY <2>1, <2>2
<1>5. CASE SendOtp(p)
  <2>1. /\ proc'[p].at = "clear" /\ proc'[p].c = Latest /\ \A q \in Procs \ {p} : proc'[q] = proc[q]
    BY <1>5, Begun, OthersStay
  <2>2. crossed \subseteq crossed'
    BY <1>5, SharedGrows DEF SendOtp
  <2>3. NoneClears
    BY <1>4, <2>1 DEF Stays, NoneClears
  <2>4. Kept
    BY <1>5 DEF SendOtp, Kept
  <2> QED BY <1>5, <2>2, <2>3, <2>4, ClearQuiet DEF SendOtp
<1>6. ASSUME NEW right \in BOOLEAN, VerifyOtp(p, right) PROVE ClearInv'
  <2>1. /\ proc'[p].at \in {"drop", "count"} /\ proc'[p].c = Latest
        /\ \A q \in Procs \ {p} : proc'[q] = proc[q]
    BY <1>6, VerifyBegun, OthersStay
  <2>2. crossed \subseteq crossed'
    BY <1>6, SharedGrows DEF VerifyOtp
  <2>3. NoneClears
    BY <1>4, <2>1 DEF Stays, NoneClears
  <2>4. Kept
    BY <1>6 DEF VerifyOtp, Kept
  <2> QED BY <1>6, <2>2, <2>3, <2>4, ClearQuiet DEF VerifyOtp
<1>7. CASE CreateOtp(p)
  BY <1>7, CreateClear
<1>8. CASE Clear(p) \/ Drop(p)
  <2>1. /\ proc[p].at \in {"clear", "drop"} /\ otp' = Cleared /\ crossed' = crossed
        /\ vanished' = vanished \cup (LiveCodes \ {proc[p].c})
    BY <1>8 DEF Clear, Drop, At
  <2>2. \A c \in Codes : otp'[c].state # "live" /\ (otp'[c].state = "none" <=> otp[c].state = "none")
    <3>1. \A c \in Codes : otp[c].state \in States
      BY DEF Types
    <3> QED BY <2>1, <3>1, ClearedIs DEF States
  <2>3. LiveCodes' = {}
    BY <2>2 DEF LiveCodes
  <2>4. vanished' \subseteq crossed'
    BY <2>1 DEF ClearInv
  <2> QED BY <2>2, <2>3, <2>4 DEF ClearInv
<1> QED BY <1>1, <1>2, <1>3, <1>5, <1>6, <1>7, <1>8 DEF Session, Code
-----------------------------------------------------------------------------
(* The invariant, and what it gives.                                        *)

LEMMA AgeStep ==
  ASSUME IInv, NEW c \in Codes, Age(c)
  PROVE  RowInv' /\ OwnerInv' /\ TokenInv' /\ GuessInv' /\ ServeInv' /\ ClearInv'
<1> USE DEF IInv
<1>1. UNCHANGED <<rowVars, sessionVars, wrong, crossed, opened, vanished, proc, ops, faults>>
  BY DEF Age
<1>2. \A d \in Codes : otp'[d].state = otp[d].state /\ otp'[d].attempts = otp[d].attempts
  BY DEF Age, Types
<1>3. \A q \in Procs : Stays(q)
  BY <1>1 DEF Stays
<1>4. RowInv'
  BY <1>1 DEF RowInv, Writes, Same, rowVars
<1>5. OwnerInv'
  BY <1>1 DEF OwnerInv, Opens, PasswordOwnsSessions, Live, rowVars, sessionVars
<1>6. TokenInv'
  BY <1>1 DEF TokenInv, TokensRotate, Live, At, sessionVars
<1>7. GuessInv'
  <2>1. NoneCounts
    BY <1>3 DEF NoneCounts
  <2>2. \A d \in Codes : otp[d].state \in States
    BY DEF Types
  <2> QED BY <1>1, <1>2, <2>1, <2>2, GuessQuiet DEF States
<1>8. ServeInv'
  <2>1. Onward /\ NoneServes
    BY <1>2, <1>3 DEF Onward, NoneServes
  <2> QED BY <1>1, <2>1, ServeQuiet
<1>9. ClearInv'
  <2>1. Kept /\ NoneClears
    BY <1>2, <1>3 DEF Kept, NoneClears
  <2> QED BY <1>1, <2>1, ClearQuiet
<1> QED BY <1>4, <1>5, <1>6, <1>7, <1>8, <1>9

LEMMA InitInv == Init => IInv
<1> SUFFICES ASSUME Init PROVE IInv OBVIOUS
<1>0. Types
  BY InitTypes
<1>1. \A p \in Procs : proc[p] = Idle
  BY DEF Init
<1>2. \A p \in Procs : proc[p].at = "idle" /\ proc[p].op = "none"
  BY <1>1 DEF Idle
<1>3. RowInv
  <2>1. user = meant /\ user \in {NoRow} \cup NewRows
    BY DEF Init, NewRows
  <2>2. NoRow.password = "none" /\ \A row \in NewRows : row.status # "none"
    BY DEF NewRows, NoRow
  <2>3. user.status = "none" => user.password = "none"
    BY <2>1, <2>2
  <2> QED BY <1>2, <2>1, <2>3 DEF RowInv, Writes, Writing
<1>4. \A s \in Sessions : session[s].state = "none" /\ session[s].hash = 0
  BY DEF Init
<1>5. OwnerInv
  BY <1>2, <1>4 DEF OwnerInv, Opens, PasswordOwnsSessions, Live
<1>6. TokenInv
  <2>1. held = {} /\ ops = 0 /\ \A t \in Tokens : redeemed[t] = 0
    BY DEF Init
  <2> QED BY <1>2, <1>4, <2>1 DEF TokenInv, TokensRotate, Live, At
<1>7. \A c \in Codes : otp[c].state = "none" /\ otp[c].attempts = 0 /\ wrong[c] = 0 /\ opened[c] = 0
  BY DEF Init
<1>8. GuessInv
  <2>1. ASSUME NEW c \in Codes PROVE Cardinality(Guessing(c)) = 0
    <3>1. Guessing(c) = {}
      BY <1>2 DEF Guessing, At
    <3> QED BY <3>1, FS_EmptySet
  <2>2. faults = 0 /\ Most \in Nat
    BY MostIsNat DEF Init
  <2> QED BY <1>7, <2>1, <2>2 DEF GuessInv, Most
<1>9. ServeInv
  BY <1>2, <1>7 DEF ServeInv, Serves, At
<1>10. ClearInv
  <2>1. vanished = {} /\ LiveCodes = {}
    BY <1>7 DEF Init, LiveCodes
  <2> QED BY <1>2, <1>7, <2>1 DEF ClearInv, At
<1> QED BY <1>0, <1>3, <1>5, <1>6, <1>8, <1>9, <1>10 DEF IInv

LEMMA StepInv == IInv /\ [Next]_vars => IInv'
<1> SUFFICES ASSUME IInv, [Next]_vars PROVE IInv' OBVIOUS
<1>0. Types /\ RowInv /\ OwnerInv /\ TokenInv /\ GuessInv /\ ServeInv /\ ClearInv
  BY DEF IInv
<1>1. ASSUME NEW p \in Procs, Row(p) PROVE IInv'
  <2>1. Types'
    BY <1>0, <1>1, RowRequestTypes, RowStepTypes DEF Row
  <2>2. RowInv'
    BY <1>0, <1>1, RowRequestRow, RowStepRow, SaveRow DEF Row
  <2> QED BY <1>0, <1>1, <2>1, <2>2, RowOwner, RowToken, GuessStep, ServeStep, ClearStep DEF IInv
<1>2. ASSUME NEW p \in Procs, Session(p) \/ Die(p) PROVE IInv'
  <2>1. Types'
    BY <1>0, <1>2, SessionTypes
  <2> QED BY <1>0, <1>2, <2>1, OtherRow, OtherOwner, SessionToken, GuessStep, ServeStep, ClearStep DEF IInv
<1>3. ASSUME NEW p \in Procs, Code(p) PROVE IInv'
  <2>1. Types'
    BY <1>0, <1>3, CodeTypes
  <2> QED BY <1>0, <1>3, <2>1, OtherRow, OtherOwner, CodeToken, GuessStep, ServeStep, ClearStep DEF IInv
<1>4. ASSUME NEW c \in Codes, Age(c) PROVE IInv'
  <2>1. \E p : p \in Procs
    BY AccountsAssumption
  <2>2. Types'
    BY <1>0, <1>4, <2>1, CodeTypes
  <2> QED BY <1>4, <2>2, AgeStep DEF IInv
<1>5. CASE UNCHANGED vars
  <2>1. Types'
    BY <1>0, <1>5 DEF vars, rowVars, sessionVars, otpVars, Types
  <2>2. \A q \in Procs : Stays(q)
    BY <1>5 DEF vars, Stays
  <2>3. RowInv'
    BY <1>0, <1>5 DEF vars, RowInv, Writes, Same, rowVars
  <2>4. OwnerInv'
    BY <1>0, <1>5 DEF vars, OwnerInv, Opens, PasswordOwnsSessions, Live, rowVars, sessionVars
  <2>5. TokenInv'
    BY <1>0, <1>5 DEF vars, TokenInv, TokensRotate, Live, At, sessionVars
  <2>6. UNCHANGED <<otp, wrong, crossed, opened, vanished, faults>>
    BY <1>5 DEF vars, otpVars
  <2>7. GuessInv'
    <3>1. \A c \in Codes : otp[c].state \in States
      BY <1>0 DEF Types
    <3>2. NoneCounts
      BY <2>2 DEF NoneCounts
    <3> QED BY <1>0, <2>6, <3>1, <3>2, GuessQuiet DEF States
  <2>8. Onward /\ NoneServes /\ Kept /\ NoneClears
    BY <2>2, <2>6 DEF Onward, NoneServes, Kept, NoneClears
  <2>9. ServeInv' /\ ClearInv'
    BY <1>0, <2>6, <2>8, ServeQuiet, ClearQuiet
  <2> QED BY <2>1, <2>3, <2>4, <2>5, <2>7, <2>9 DEF IInv
<1> QED BY <1>1, <1>2, <1>3, <1>4, <1>5 DEF Next

\* The invariant of an account.
THEOREM AccountInvariant == Spec => []IInv
BY InitInv, StepInv, PTL DEF Spec

\* Every variable has its type, the attempts counted for a code with their bound.
THEOREM AccountTypes == Spec => []TypeOK
<1>1. IInv => TypeOK
  <2> SUFFICES ASSUME IInv PROVE TypeOK OBVIOUS
  <2>1. /\ user.status \in {"none", "inactive", "active"} /\ user.password \in Stored
        /\ user.provider \in {"email", "social"} /\ {user.email, user.phone} \subseteq {"first", "second"}
    BY DEF IInv, Types, Rows
  <2>2. \A p \in Procs : proc[p].at \in Places
    BY DEF IInv, Types, Requested
  <2>3. otp \in [Codes -> [state : {"none", "live", "gone"}, age : {"recent", "old", "expired"},
                           attempts : 0..MaxAttempts + Cardinality(Procs) - 1]]
    <3>1. ASSUME NEW c \in Codes PROVE otp[c].attempts \in 0..Most
      <4>1. otp[c].attempts \in Nat /\ Cardinality(Guessing(c)) \in Nat /\ Most \in Nat
        BY MostIsNat, GuessingIsFinite DEF IInv, Types
      <4>2. otp[c].attempts + Cardinality(Guessing(c)) <= Most
        BY DEF IInv, GuessInv
      <4> QED BY <4>1, <4>2
    <3>2. ASSUME NEW c \in Codes
          PROVE otp[c] \in [state : {"none", "live", "gone"}, age : {"recent", "old", "expired"},
                             attempts : 0..Most]
      BY <3>1 DEF IInv, Types, States
    <3> QED BY <3>2 DEF IInv, Types, Most
  <2> QED BY <2>1, <2>2, <2>3 DEF TypeOK, IInv, Types, States, Places
<1> QED BY <1>1, AccountInvariant, PTL

\* UsersService.update undoes nothing of another request's, unless one saved a row that
\* had been changed since it read it.
THEOREM RowsKeepUpdates == Spec => []UpdatesSurvive
<1>1. IInv => UpdatesSurvive
  BY DEF IInv, RowInv, UpdatesSurvive
<1> QED BY <1>1, AccountInvariant, PTL

\* A new password leaves no session of an older one, but the ones that were opened beside
\* the change and the one it was changed from.
THEOREM PasswordsOwnSessions == Spec => []PasswordOwnsSessions
<1>1. IInv => PasswordOwnsSessions
  BY DEF IInv, OwnerInv
<1> QED BY <1>1, AccountInvariant, PTL

\* No refresh token is exchanged twice, and a live session has its newest in its client's
\* hands or on the way there, unless it got lost.
THEOREM TokensAreRotated == Spec => []TokensRotate
<1>1. IInv => TokensRotate
  BY DEF IInv, TokenInv
<1> QED BY <1>1, AccountInvariant, PTL

\* A one-time code bears a bounded number of guesses and opens one session.
THEOREM CodesServeOneLogin == Spec => []CodesServeOnce
<1>1. IInv => CodesServeOnce
  BY DEF IInv, GuessInv, ServeInv, ClearInv, CodesServeOnce, Most
<1> QED BY <1>1, AccountInvariant, PTL
=============================================================================
