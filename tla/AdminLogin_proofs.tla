--------------------------- MODULE AdminLogin_proofs ---------------------------
(***************************************************************************)
(* One-time codes and the two-step login, for any number of requests,      *)
(* challenges and codes and any limits.                                    *)
(***************************************************************************)
EXTENDS AdminLogin, FiniteSetTheorems, TLAPS

USE RequestsAssumption, LimitsAssumption, LoginAssumption
-----------------------------------------------------------------------------
(***************************************************************************)
(* Codes.  A row that a transaction has updated and not committed is       *)
(* PENDING until that transaction ends, no two hold the same one, and no   *)
(* two have inserted in the same place.                                    *)
(***************************************************************************)

CodeRows == [status : OTPStatus, attempts : 0 .. MaxAttempts, age : Ages]
OpenRows == [at : {"closed", "counted", "updating", "inserted"},
             found : SUBSET Codes, held : SUBSET Codes, row : Codes \union {NoRow}]

RowsTyped == code \in [Codes -> CodeRows] /\ open \in [Requests -> OpenRows]

Held ==
    /\ \A r \in Requests :
          /\ open[r].held \subseteq Pending
          /\ open[r].at # "inserted" => open[r].held = {} /\ open[r].row = NoRow
          /\ open[r].at = "inserted" => open[r].row \in Codes /\ code[open[r].row].status = "none"
    /\ \A q, r \in Requests : q # r => /\ open[q].held \intersect open[r].held = {}
                                       /\ open[q].row = open[r].row => open[q].row = NoRow

CodesInv == RowsTyped /\ Held

LEMMA ClosedIs ==
    /\ Closed \in OpenRows
    /\ Closed.at = "closed" /\ Closed.found = {} /\ Closed.held = {} /\ Closed.row = NoRow
BY DEF Closed, OpenRows, NoRow

LEMMA NoRowIsNone == NoRow \notin Codes
BY DEF NoRow, Codes

\* What the steps of Otp do to the rows
LEMMA OpenAfter ==
    ASSUME CodesInv, NEW r \in Requests, NEW x \in OpenRows, Step(r, x)
    PROVE  /\ open' \in [Requests -> OpenRows]
           /\ \A q \in Requests : open'[q] = IF q = r THEN x ELSE open[q]
BY DEF CodesInv, RowsTyped, Step

LEMMA BeginIs ==
    ASSUME CodesInv, NEW r \in Requests, BeginSend(r)
    PROVE  /\ open[r].at = "closed" /\ Cardinality(Recent) < MaxPerDay
           /\ open' \in [Requests -> OpenRows] /\ code' = code
           /\ \A q \in Requests : q # r => open'[q] = open[q]
           /\ open'[r].at = "counted" /\ open'[r].held = {} /\ open'[r].row = NoRow
<1> DEFINE x == [Closed EXCEPT !.at = "counted"]
<1>1. x \in OpenRows /\ x.at = "counted" /\ x.held = {} /\ x.row = NoRow
  BY DEF Closed, OpenRows, NoRow
<1>2. Step(r, x) /\ open[r].at = "closed" /\ Cardinality(Recent) < MaxPerDay /\ code' = code
  BY DEF BeginSend, WithinLimits
<1> HIDE DEF x
<1> QED
  BY <1>1, <1>2, OpenAfter

LEMMA FindIs ==
    ASSUME CodesInv, NEW r \in Requests, FindPending(r)
    PROVE  /\ open[r].at = "counted"
           /\ open' \in [Requests -> OpenRows] /\ code' = code
           /\ \A q \in Requests : q # r => open'[q] = open[q]
           /\ open'[r].at = "updating" /\ open'[r].found = Pending
           /\ open'[r].held = {} /\ open'[r].row = NoRow
<1> DEFINE x == [Closed EXCEPT !.at = "updating", !.found = ToExpire]
<1>1. ToExpire = Pending /\ Pending \subseteq Codes
  BY DEF ToExpire, Pending
<1>2. x \in OpenRows /\ x.at = "updating" /\ x.found = Pending /\ x.held = {} /\ x.row = NoRow
  BY <1>1 DEF Closed, OpenRows, NoRow
<1>3. Step(r, x) /\ open[r].at = "counted" /\ code' = code
  BY DEF FindPending
<1> HIDE DEF x
<1> QED
  BY <1>2, <1>3, OpenAfter

LEMMA InsertIs ==
    ASSUME CodesInv, NEW r \in Requests, InsertCode(r)
    PROVE  /\ open[r].at = "updating"
           /\ open' \in [Requests -> OpenRows]
           /\ \A q \in Requests : q # r => open'[q] = open[q]
           /\ open'[r].at = "inserted" /\ open'[r].held = open[r].found \intersect Pending
           /\ \A q \in Requests : open'[r].held \intersect open[q].held = {}
           /\ open'[r].row \in Codes /\ code[open'[r].row].status = "none"
           /\ \A q \in Requests : open[q].row # open'[r].row
           /\ code' \in [Codes -> CodeRows]
           /\ \A c \in Codes : /\ code'[c].status = code[c].status
                               /\ code[c].status # "none" => code'[c] = code[c]
<1>1. PICK c \in Codes :
         /\ c - 1 \in Taken /\ \A d \in Taken : d < c
         /\ Step(r, [at |-> "inserted", found |-> {}, held |-> open[r].found \intersect Pending, row |-> c])
         /\ code' = [code EXCEPT ![c].age = 0]
  BY DEF InsertCode
<1> DEFINE x == [at |-> "inserted", found |-> {}, held |-> open[r].found \intersect Pending, row |-> c]
<1>2. x \in OpenRows /\ x.at = "inserted" /\ x.held = open[r].found \intersect Pending /\ x.row = c
  BY DEF OpenRows, Pending
<1>3. \A d \in Taken : d # c
  <2>1. c \in Nat
    BY DEF Codes
  <2> QED
    BY <1>1, <2>1
<1>4. c \notin Rows /\ \A q \in Requests : open[q].row # c
  BY <1>3 DEF Taken
<1>5. code[c].status = "none"
  BY <1>4 DEF Rows
<1>6. \A q \in Requests : x.held \intersect open[q].held = {}
  BY <1>2 DEF InsertCode, LockedRows
<1>7. Step(r, x) /\ open[r].at = "updating"
  BY <1>1 DEF InsertCode
<1> HIDE DEF x
<1>8. /\ open' \in [Requests -> OpenRows]
      /\ \A q \in Requests : open'[q] = IF q = r THEN x ELSE open[q]
  BY <1>2, <1>7, OpenAfter
<1>9. /\ code' \in [Codes -> CodeRows]
      /\ \A d \in Codes : /\ code'[d].status = code[d].status
                          /\ code[d].status # "none" => code'[d] = code[d]
  <2>1. code \in [Codes -> CodeRows] /\ code[c] \in CodeRows
    BY DEF CodesInv, RowsTyped
  <2>2. [code[c] EXCEPT !.age = 0] \in CodeRows /\ [code[c] EXCEPT !.age = 0].status = "none"
    BY <1>5, <2>1 DEF CodeRows, Ages
  <2>3. \A d \in Codes : code'[d] = IF d = c THEN [code[c] EXCEPT !.age = 0] ELSE code[d]
    BY <1>1, <2>1
  <2>4. code' \in [Codes -> CodeRows]
    BY <1>1, <2>1, <2>2
  <2> QED
    BY <1>5, <2>2, <2>3, <2>4
<1> QED
  BY <1>2, <1>4, <1>5, <1>6, <1>7, <1>8, <1>9

LEMMA GenerateIs ==
    ASSUME CodesInv, NEW r \in Requests, GenerateAndSend(r)
    PROVE  /\ open[r].at = "inserted" /\ open[r].row \in Codes /\ open[r].row \notin Rows
           /\ open' \in [Requests -> OpenRows]
           /\ \A q \in Requests : q # r => open'[q] = open[q]
           /\ open'[r] = Closed
           /\ code' \in [Codes -> CodeRows]
           /\ \A c \in Codes :
                /\ code'[c].age = code[c].age
                /\ c = open[r].row => code'[c].status = "PENDING"
                /\ c # open[r].row /\ c \in open[r].held => code'[c].status = "EXPIRED"
                /\ c # open[r].row /\ c \notin open[r].held => code'[c] = code[c]
           /\ Pending' = (Pending \ open[r].held) \union {open[r].row}
<1> DEFINE k == open[r].row
<1>1. open[r].at = "inserted" /\ k \in Codes /\ code[k].status = "none" /\ k \notin Rows
  BY DEF GenerateAndSend, CodesInv, Held, Rows
<1>2. open' \in [Requests -> OpenRows] /\ \A q \in Requests : open'[q] = IF q = r THEN Closed ELSE open[q]
  BY ClosedIs, OpenAfter DEF GenerateAndSend
<1>3. \A c \in Codes :
         /\ [code[c] EXCEPT !.status = "PENDING"] \in CodeRows
         /\ [code[c] EXCEPT !.status = "PENDING"].status = "PENDING"
         /\ [code[c] EXCEPT !.status = "PENDING"].age = code[c].age
         /\ [code[c] EXCEPT !.status = "EXPIRED"] \in CodeRows
         /\ [code[c] EXCEPT !.status = "EXPIRED"].status = "EXPIRED"
         /\ [code[c] EXCEPT !.status = "EXPIRED"].age = code[c].age
         /\ code[c] \in CodeRows
  BY DEF CodesInv, RowsTyped, CodeRows, OTPStatus
<1>4. code' = [c \in Codes |->
          IF c = open[r].row THEN [code[c] EXCEPT !.status = "PENDING"]
          ELSE IF c \in open[r].held THEN [code[c] EXCEPT !.status = "EXPIRED"]
          ELSE code[c]]
  BY DEF GenerateAndSend
<1>5. /\ code' \in [Codes -> CodeRows]
      /\ \A c \in Codes :
           /\ code'[c].age = code[c].age
           /\ c = open[r].row => code'[c].status = "PENDING"
           /\ c # open[r].row /\ c \in open[r].held => code'[c].status = "EXPIRED"
           /\ c # open[r].row /\ c \notin open[r].held => code'[c] = code[c]
  BY <1>3, <1>4
<1>6. Pending' = (Pending \ open[r].held) \union {k}
  BY <1>1, <1>5 DEF Pending
<1> QED
  BY <1>1, <1>2, <1>5, <1>6

LEMMA FailsIs ==
    ASSUME CodesInv, NEW r \in Requests, SendFails(r)
    PROVE  /\ open[r].at # "closed"
           /\ open' \in [Requests -> OpenRows]
           /\ \A q \in Requests : q # r => open'[q] = open[q]
           /\ open'[r] = Closed
           /\ code' \in [Codes -> CodeRows]
           /\ \A c \in Codes : /\ code'[c].status = code[c].status
                               /\ code[c].status # "none" => code'[c] = code[c]
<1>1. open' \in [Requests -> OpenRows] /\ \A q \in Requests : open'[q] = IF q = r THEN Closed ELSE open[q]
  BY ClosedIs, OpenAfter DEF SendFails
<1>2. NoCode \in CodeRows /\ NoCode.status = "none"
  BY DEF NoCode, CodeRows, OTPStatus, Ages
<1>3. \A c \in Codes : c = open[r].row => code[c].status = "none"
  BY NoRowIsNone DEF CodesInv, Held
<1>4. code' = [c \in Codes |-> IF c = open[r].row THEN NoCode ELSE code[c]] /\ open[r].at # "closed"
  BY DEF SendFails
<1> HIDE DEF NoCode
<1>5. code \in [Codes -> CodeRows]
  BY DEF CodesInv, RowsTyped
<1> QED
  BY <1>1, <1>2, <1>3, <1>4, <1>5

\* The outcome of a verification is written to a row that waits and is not held
LEMMA VerifyIs ==
    ASSUME CodesInv, NEW c \in Codes, NEW right \in BOOLEAN, Verify(c, right)
    PROVE  /\ c \in Pending /\ \A r \in Requests : c \notin open[r].held
           /\ code' \in [Codes -> CodeRows]
           /\ code'[c].status = Outcome(c, right) /\ code'[c].age = code[c].age
           /\ code'[c].status \in {"PENDING", "VERIFIED", "EXPIRED", "FAILED"}
           /\ \A d \in Codes : d # c => code'[d] = code[d]
           /\ open' = open
<1> DEFINE o   == Outcome(c, right)
           n   == Counted(c, right)
           row == [code[c] EXCEPT !.status = o, !.attempts = n]
<1>1. code[c] \in CodeRows /\ code \in [Codes -> CodeRows]
  BY DEF CodesInv, RowsTyped
<1>2. o \in {"PENDING", "VERIFIED", "EXPIRED", "FAILED"}
  BY DEF Outcome
<1>3. n \in 0 .. MaxAttempts
  BY <1>1 DEF Counted, CodeRows
<1>4. c \in Pending /\ c \notin LockedRows /\ code' = [code EXCEPT ![c] = row] /\ open' = open
  BY DEF Verify
<1> HIDE DEF o, n
<1>5. row \in CodeRows /\ row.status = o /\ row.age = code[c].age
  BY <1>1, <1>2, <1>3 DEF CodeRows, OTPStatus
<1> HIDE DEF row
<1>6. code' \in [Codes -> CodeRows] /\ \A d \in Codes : code'[d] = IF d = c THEN row ELSE code[d]
  BY <1>1, <1>4, <1>5
<1> QED
  BY <1>2, <1>4, <1>5, <1>6 DEF LockedRows, o

LEMMA AgesIs ==
    ASSUME CodesInv, NEW c \in Codes, CodeAges(c)
    PROVE  /\ code' \in [Codes -> CodeRows]
           /\ \A d \in Codes : code'[d].status = code[d].status /\ code'[d].age >= code[d].age
           /\ open' = open
<1> DEFINE row == [code[c] EXCEPT !.age = @ + 1]
<1>1. code[c] \in CodeRows /\ code \in [Codes -> CodeRows] /\ \A d \in Codes : code[d].age \in Ages
  BY DEF CodesInv, RowsTyped, CodeRows
<1>2. code[c].age < 3 /\ code' = [code EXCEPT ![c] = row] /\ open' = open
  BY DEF CodeAges
<1>3. row \in CodeRows /\ row.status = code[c].status /\ row.age >= code[c].age
  BY <1>1, <1>2 DEF CodeRows, Ages
<1> HIDE DEF row
<1>4. code' \in [Codes -> CodeRows] /\ \A d \in Codes : code'[d] = IF d = c THEN row ELSE code[d]
  BY <1>1, <1>2, <1>3
<1>5. \A d \in Codes : code[d].age >= code[d].age
  BY <1>1 DEF Ages
<1> QED
  BY <1>2, <1>3, <1>4, <1>5

\* What every step of the login does to codes
OtpStep ==
    \/ UNCHANGED otpVars
    \/ \E r \in Requests : \/ BeginSend(r) \/ FindPending(r) \/ InsertCode(r)
                           \/ GenerateAndSend(r) \/ SendFails(r)
    \/ \E c \in Codes : CodeAges(c) \/ \E right \in BOOLEAN : Verify(c, right)

LEMMA StepsAreOtp == [AdminLoginNext]_vars => OtpStep
<1> SUFFICES ASSUME [AdminLoginNext]_vars  PROVE OtpStep
  OBVIOUS
<1>1. ASSUME NEW r \in Requests, LoginStep(r)
      PROVE  OtpStep
  BY <1>1 DEF LoginStep, OtpStep, CheckPasswordStep, TrustedDevice, OpenChallenge, FindChallenge, ResendCode,
     SendGoesOn, CodeSent, ChallengeOpens, LoginBreaks, StartComplete, VerifyCode, Consume, CompleteLogin, LoginDies
<1>2. CASE Ageing
  BY <1>2 DEF Ageing, OtpStep
<1>3. CASE UpdateAccount \/ ResetPassword \/ RevokeAllSessions \/ LockEnds
  BY <1>3 DEF UpdateAccount, ResetPassword, RevokeAllSessions, LockEnds, OtpStep
<1>4. ASSUME NEW h \in Challenges, ChallengeExpires(h)
      PROVE  OtpStep
  BY <1>4 DEF ChallengeExpires, OtpStep
<1>5. CASE UNCHANGED vars
  BY <1>5 DEF vars, OtpStep
<1> QED
  BY <1>1, <1>2, <1>3, <1>4, <1>5 DEF AdminLoginNext

LEMMA CodesStep == CodesInv /\ OtpStep => CodesInv'
<1> SUFFICES ASSUME CodesInv, OtpStep  PROVE CodesInv'
  OBVIOUS
<1>1. CASE UNCHANGED otpVars
  BY <1>1 DEF otpVars, CodesInv, RowsTyped, Held, Pending
<1>2. ASSUME NEW r \in Requests, BeginSend(r) \/ FindPending(r)
      PROVE  CodesInv'
  <2>1. /\ open' \in [Requests -> OpenRows] /\ code' = code
        /\ \A q \in Requests : q # r => open'[q] = open[q]
        /\ open'[r].at # "inserted" /\ open'[r].held = {} /\ open'[r].row = NoRow
    BY <1>2, BeginIs, FindIs
  <2>2. Pending' = Pending
    BY <2>1 DEF Pending
  <2> QED
    BY <2>1, <2>2 DEF CodesInv, RowsTyped, Held
<1>3. ASSUME NEW r \in Requests, InsertCode(r)
      PROVE  CodesInv'
  <2>1. Pending' = Pending
    BY <1>3, InsertIs DEF Pending
  <2>2. Held'
    BY <1>3, <2>1, InsertIs DEF CodesInv, Held
  <2> QED
    BY <1>3, <2>2, InsertIs DEF CodesInv, RowsTyped
<1>4. ASSUME NEW r \in Requests, GenerateAndSend(r)
      PROVE  CodesInv'
  <2>1. \A q \in Requests : q # r => open'[q].held \subseteq Pending'
    BY <1>4, GenerateIs DEF CodesInv, Held
  <2>2. ASSUME NEW q \in Requests, q # r, open'[q].at = "inserted"
        PROVE  open'[q].row \in Codes /\ code'[open'[q].row].status = "none"
    <3>1. open'[q] = open[q] /\ open[q].row \in Codes /\ code[open[q].row].status = "none"
      BY <1>4, <2>2, GenerateIs DEF CodesInv, Held
    <3>2. open[q].row # open[r].row
      BY <1>4, <2>2, <3>1, NoRowIsNone DEF CodesInv, Held
    <3>3. open[q].row \notin open[r].held
      BY <3>1 DEF CodesInv, Held, Pending
    <3> QED
      BY <1>4, <3>1, <3>2, <3>3, GenerateIs
  <2>3. Held'
    BY <1>4, <2>1, <2>2, GenerateIs, ClosedIs DEF CodesInv, Held
  <2> QED
    BY <1>4, <2>3, GenerateIs DEF CodesInv, RowsTyped
<1>5. ASSUME NEW r \in Requests, SendFails(r)
      PROVE  CodesInv'
  <2>1. Pending' = Pending
    BY <1>5, FailsIs DEF Pending
  <2>2. Held'
    BY <1>5, <2>1, FailsIs, ClosedIs DEF CodesInv, Held
  <2> QED
    BY <1>5, <2>2, FailsIs DEF CodesInv, RowsTyped
<1>6. ASSUME NEW c \in Codes, NEW right \in BOOLEAN, Verify(c, right)
      PROVE  CodesInv'
  <2>1. Pending \ {c} \subseteq Pending' /\ code[c].status # "none"
    BY <1>6, VerifyIs DEF Pending
  <2>2. Held'
    BY <1>6, <2>1, VerifyIs DEF CodesInv, Held
  <2> QED
    BY <1>6, <2>2, VerifyIs DEF CodesInv, RowsTyped
<1>7. ASSUME NEW c \in Codes, CodeAges(c)
      PROVE  CodesInv'
  <2>1. Pending' = Pending
    BY <1>7, AgesIs DEF Pending
  <2> QED
    BY <1>7, <2>1, AgesIs DEF CodesInv, RowsTyped, Held
<1> QED
  BY <1>1, <1>2, <1>3, <1>4, <1>5, <1>6, <1>7 DEF OtpStep

LEMMA CodesInit == AdminLoginInit => CodesInv
<1> SUFFICES ASSUME AdminLoginInit  PROVE CodesInv
  OBVIOUS
<1>1. code = [c \in Codes |-> NoCode] /\ open = [r \in Requests |-> Closed]
  BY DEF AdminLoginInit, OtpInit
<1>2. NoCode \in CodeRows
  BY DEF NoCode, CodeRows, OTPStatus, Ages
<1>3. RowsTyped /\ Held
  <2> HIDE DEF NoCode
  <2> QED
    BY <1>1, <1>2, ClosedIs DEF RowsTyped, Held
<1> QED
  BY <1>3 DEF CodesInv
-----------------------------------------------------------------------------
(***************************************************************************)
(* Live codes.  Each of them is charged to the worker that made it: a      *)
(* later transaction of that worker finds it among the rows to expire,     *)
(* holds it, and replaces it.  No worker is charged with two.              *)
(***************************************************************************)

Charged(f) ==
    /\ f \in [Pending -> Requests]
    /\ \A c, d \in Pending : f[c] = f[d] => c = d
    /\ \A c \in Pending : /\ open[f[c]].at = "updating" => c \in open[f[c]].found
                          /\ open[f[c]].at = "inserted" => c \in open[f[c]].held

LiveInv == \E f : Charged(f)

LEMMA AllFinite ==
    /\ IsFiniteSet(Codes) /\ IsFiniteSet(Pending) /\ IsFiniteSet(Recent)
<1>1. IsFiniteSet(Codes)
  BY FS_Interval DEF Codes
<1>2. Pending \subseteq Codes /\ Recent \subseteq Codes
  BY DEF Pending, Recent, Rows
<1> QED
  BY <1>1, <1>2, FS_Subset

LEMMA LiveStep == CodesInv /\ LiveInv /\ OtpStep => LiveInv'
<1> SUFFICES ASSUME CodesInv, NEW f, Charged(f), OtpStep
             PROVE  \E g : Charged(g)'
  BY DEF LiveInv
<1>1. CASE UNCHANGED otpVars
  <2>1. Charged(f)'
    BY <1>1 DEF otpVars, Charged, Pending
  <2> QED
    BY <2>1
<1>2. ASSUME NEW r \in Requests, BeginSend(r) \/ FindPending(r)
      PROVE  \E g : Charged(g)'
  <2>1. /\ code' = code /\ \A q \in Requests : q # r => open'[q] = open[q]
        /\ \/ open'[r].at = "counted"
           \/ open'[r].at = "updating" /\ open'[r].found = Pending
    BY <1>2, BeginIs, FindIs
  <2>2. Pending' = Pending
    BY <2>1 DEF Pending
  <2>3. Charged(f)'
    BY <2>1, <2>2 DEF Charged
  <2> QED
    BY <2>3
<1>3. ASSUME NEW r \in Requests, InsertCode(r)
      PROVE  \E g : Charged(g)'
  <2>1. Pending' = Pending
    BY <1>3, InsertIs DEF Pending
  <2>2. \A c \in Pending : f[c] = r => c \in open[r].found
    BY <1>3, InsertIs DEF Charged
  <2>3. Charged(f)'
    BY <1>3, <2>1, <2>2, InsertIs DEF Charged
  <2> QED
    BY <2>3
<1>4. ASSUME NEW r \in Requests, GenerateAndSend(r)
      PROVE  \E g : Charged(g)'
  <2> DEFINE k == open[r].row
             g == [c \in Pending' |-> IF c = k THEN r ELSE f[c]]
  <2>1. Pending' = (Pending \ open[r].held) \union {k} /\ open[r].at = "inserted"
    BY <1>4, GenerateIs
  <2>2. \A c \in Pending' : c # k => c \in Pending /\ f[c] \in Requests /\ f[c] # r
    BY <2>1 DEF Charged
  <2>3. g \in [Pending' -> Requests]
    BY <2>2
  <2>4. \A c, d \in Pending' : g[c] = g[d] => c = d
    BY <2>2 DEF Charged
  <2>5. \A c \in Pending' : /\ open'[g[c]].at = "updating" => c \in open'[g[c]].found
                            /\ open'[g[c]].at = "inserted" => c \in open'[g[c]].held
    <3> SUFFICES ASSUME NEW c \in Pending'
                 PROVE  /\ open'[g[c]].at = "updating" => c \in open'[g[c]].found
                        /\ open'[g[c]].at = "inserted" => c \in open'[g[c]].held
      OBVIOUS
    <3>1. CASE c = k
      <4>1. open'[g[c]] = Closed
        BY <1>4, <3>1, GenerateIs
      <4> QED
        BY <4>1, ClosedIs
    <3>2. CASE c # k
      <4>1. g[c] = f[c] /\ open'[f[c]] = open[f[c]] /\ c \in Pending
        BY <1>4, <2>2, <3>2, GenerateIs
      <4> QED
        BY <4>1 DEF Charged
    <3> QED
      BY <3>1, <3>2
  <2>6. PICK h : h = g
    OBVIOUS
  <2> HIDE DEF g
  <2>7. Charged(h)'
    BY <2>3, <2>4, <2>5, <2>6 DEF Charged
  <2> QED
    BY <2>7
<1>5. ASSUME NEW r \in Requests, SendFails(r)
      PROVE  \E g : Charged(g)'
  <2>1. Pending' = Pending
    BY <1>5, FailsIs DEF Pending
  <2>2. Charged(f)'
    BY <1>5, <2>1, FailsIs, ClosedIs DEF Charged
  <2> QED
    BY <2>2
<1>6. ASSUME NEW c \in Codes, NEW right \in BOOLEAN, Verify(c, right)
      PROVE  \E g : Charged(g)'
  <2>1. Pending' \subseteq Pending /\ open' = open
    BY <1>6, VerifyIs DEF Pending
  <2>2. PICK h : h = [d \in Pending' |-> f[d]]
    OBVIOUS
  <2>3. h \in [Pending' -> Requests] /\ \A d \in Pending' : h[d] = f[d]
    BY <2>1, <2>2 DEF Charged
  <2>4. Charged(h)'
    BY <2>1, <2>3 DEF Charged
  <2> QED
    BY <2>4
<1>7. ASSUME NEW c \in Codes, CodeAges(c)
      PROVE  \E g : Charged(g)'
  <2>1. Pending' = Pending /\ open' = open
    BY <1>7, AgesIs DEF Pending
  <2>2. Charged(f)'
    BY <2>1 DEF Charged
  <2> QED
    BY <2>2
<1> QED
  BY <1>1, <1>2, <1>3, <1>4, <1>5, <1>6, <1>7 DEF OtpStep

LEMMA LiveInit == AdminLoginInit => LiveInv
<1> SUFFICES ASSUME AdminLoginInit  PROVE LiveInv
  OBVIOUS
<1>1. code = [c \in Codes |-> NoCode] /\ NoCode.status = "none"
  BY DEF AdminLoginInit, OtpInit, NoCode
<1>2. Pending = {}
  BY <1>1 DEF Pending
<1>3. Charged([c \in {} |-> c])
  BY <1>2 DEF Charged
<1> QED
  BY <1>3 DEF LiveInv

LEMMA LiveIsBounded == LiveInv => LiveCodesBounded
<1> SUFFICES ASSUME NEW f, Charged(f), ~(Cardinality(Pending) <= Cardinality(Requests))
             PROVE  FALSE
  BY DEF LiveInv, LiveCodesBounded
<1>1. Cardinality(Pending) \in Nat /\ Cardinality(Requests) \in Nat
  BY AllFinite, FS_CardinalityType
<1>2. f \in [Pending -> Requests] /\ Cardinality(Requests) < Cardinality(Pending)
  BY <1>1 DEF Charged
<1>3. \E c, d \in Pending : c # d /\ f[c] = f[d]
  BY <1>2, AllFinite, FS_PigeonHole
<1> QED
  BY <1>3 DEF Charged

\* No more codes are live than workers serve requests, for any number of both:
\* requests that pass the cooldown together, or wait for each other's rows, leave
\* one each, whatever came before (otp.py: generate_and_send)
THEOREM CodesBounded == AdminLoginSpec => []LiveCodesBounded
<1> DEFINE Inv == CodesInv /\ LiveInv
<1>1. AdminLoginInit => Inv
  BY CodesInit, LiveInit
<1>2. Inv /\ [AdminLoginNext]_vars => Inv'
  BY StepsAreOtp, CodesStep, LiveStep
<1>3. Inv => LiveCodesBounded
  BY LiveIsBounded
<1> QED
  BY <1>1, <1>2, <1>3, PTL DEF AdminLoginSpec
-----------------------------------------------------------------------------
(***************************************************************************)
(* The limits.  A request that has passed them will leave one more row, so *)
(* that rows and such requests are counted together.                       *)
(***************************************************************************)

Busy == {r \in Requests : open[r].at # "closed"}

DayInv == Cardinality(Recent) + Cardinality(Busy) < MaxPerDay + Cardinality(Requests)

LEMMA BusyFinite == IsFiniteSet(Busy)
<1>1. Busy \subseteq Requests
  BY DEF Busy
<1> QED
  BY <1>1, FS_Subset

\* The ways a sum of two counts changes: neither grows, or one moves from the
\* second to the first
LEMMA NeitherGrows ==
    ASSUME NEW A, NEW B, IsFiniteSet(A), IsFiniteSet(B),
           NEW A1, A1 \subseteq A, NEW B1, B1 \subseteq B
    PROVE  /\ Cardinality(A) \in Nat /\ Cardinality(B) \in Nat /\ Cardinality(A1) \in Nat /\ Cardinality(B1) \in Nat
           /\ Cardinality(A1) <= Cardinality(A) /\ Cardinality(B1) <= Cardinality(B)
<1>1. IsFiniteSet(A1) /\ Cardinality(A1) <= Cardinality(A) /\ IsFiniteSet(B1) /\ Cardinality(B1) <= Cardinality(B)
  BY FS_Subset
<1> QED
  BY <1>1, FS_CardinalityType

LEMMA OneMoves ==
    ASSUME NEW A, NEW B, IsFiniteSet(A), IsFiniteSet(B), NEW a, NEW b \in B
    PROVE  /\ Cardinality(A) \in Nat /\ Cardinality(B) \in Nat
           /\ Cardinality(A \union {a}) \in Nat /\ Cardinality(B \ {b}) \in Nat
           /\ Cardinality(A \union {a}) + Cardinality(B \ {b}) <= Cardinality(A) + Cardinality(B)
<1>1. Cardinality(B \ {b}) = Cardinality(B) - 1 /\ IsFiniteSet(B \ {b})
  BY FS_RemoveElement
<1>2. /\ IsFiniteSet(A \union {a})
      /\ Cardinality(A \union {a}) = Cardinality(A) \/ Cardinality(A \union {a}) = Cardinality(A) + 1
  BY FS_AddElement
<1>3. /\ Cardinality(A) \in Nat /\ Cardinality(B) \in Nat
      /\ Cardinality(A \union {a}) \in Nat /\ Cardinality(B \ {b}) \in Nat
  BY <1>1, <1>2, FS_CardinalityType
<1> QED
  BY <1>1, <1>2, <1>3

LEMMA DayStep == CodesInv /\ DayInv /\ OtpStep => DayInv'
<1> SUFFICES ASSUME CodesInv, DayInv, OtpStep
             PROVE  DayInv'
  OBVIOUS
<1> USE AllFinite, BusyFinite
<1>0. Cardinality(Requests) \in Nat
  BY FS_CardinalityType
<1>1. ASSUME Recent' \subseteq Recent, Busy' \subseteq Busy
      PROVE  DayInv'
  BY <1>0, <1>1, NeitherGrows DEF DayInv
<1>2. CASE UNCHANGED otpVars
  BY <1>1, <1>2 DEF otpVars, Recent, Rows, Busy
<1>3. ASSUME NEW r \in Requests, BeginSend(r)
      PROVE  DayInv'
  <2>1. code' = code /\ Cardinality(Recent) < MaxPerDay
    BY <1>3, BeginIs
  <2>2. Recent' = Recent /\ Busy' \subseteq Requests
    BY <2>1 DEF Recent, Rows, Busy
  <2>3. Cardinality(Recent) \in Nat /\ Cardinality(Busy') <= Cardinality(Requests) /\ Cardinality(Busy') \in Nat
    BY <2>2, FS_Subset, FS_CardinalityType
  <2> QED
    BY <1>0, <2>1, <2>2, <2>3 DEF DayInv
<1>4. ASSUME NEW r \in Requests, FindPending(r) \/ InsertCode(r) \/ SendFails(r)
      PROVE  DayInv'
  <2>1. /\ open[r].at # "closed" /\ \A q \in Requests : q # r => open'[q] = open[q]
        /\ \A c \in Codes : /\ code'[c].status = code[c].status
                            /\ code[c].status # "none" => code'[c] = code[c]
    BY <1>4, FindIs, InsertIs, FailsIs
  <2>2. Busy' \subseteq Busy
    BY <2>1 DEF Busy
  <2>3. Recent' \subseteq Recent
    BY <2>1 DEF Recent, Rows
  <2> QED
    BY <1>1, <2>2, <2>3
<1>5. ASSUME NEW r \in Requests, GenerateAndSend(r)
      PROVE  DayInv'
  <2> DEFINE k == open[r].row
  <2>1. Busy' = Busy \ {r} /\ r \in Busy
    BY <1>5, GenerateIs, ClosedIs DEF Busy
  <2>2. Recent' \subseteq Recent \union {k}
    <3> SUFFICES ASSUME NEW c \in Codes, c # k, code'[c].status # "none", code'[c].age < 3
                 PROVE  c \in Recent
      BY DEF Recent, Rows
    <3>1. c \in open[r].held => code[c].status = "PENDING"
      BY DEF CodesInv, Held, Pending
    <3> QED
      BY <1>5, <3>1, GenerateIs DEF Recent, Rows
  <2>3. /\ Cardinality(Recent) \in Nat /\ Cardinality(Busy) \in Nat
        /\ Cardinality(Recent \union {k}) \in Nat /\ Cardinality(Busy') \in Nat
        /\ Cardinality(Recent \union {k}) + Cardinality(Busy') <= Cardinality(Recent) + Cardinality(Busy)
    BY <2>1, OneMoves
  <2>4. Cardinality(Recent') \in Nat /\ Cardinality(Recent') <= Cardinality(Recent \union {k})
    <3>1. IsFiniteSet(Recent \union {k})
      BY FS_AddElement
    <3> QED
      BY <2>2, <3>1, FS_Subset, FS_CardinalityType
  <2> QED
    BY <1>0, <2>3, <2>4 DEF DayInv
<1>6. ASSUME NEW c \in Codes, NEW right \in BOOLEAN, Verify(c, right)
      PROVE  DayInv'
  <2>1. Busy' = Busy
    BY <1>6, VerifyIs DEF Busy
  <2>2. code[c].status = "PENDING"
    BY <1>6, VerifyIs DEF Pending
  <2>3. Recent' \subseteq Recent
    BY <1>6, <2>2, VerifyIs DEF Recent, Rows
  <2> QED
    BY <1>1, <2>1, <2>3
<1>7. ASSUME NEW c \in Codes, CodeAges(c)
      PROVE  DayInv'
  <2>1. Busy' = Busy
    BY <1>7, AgesIs DEF Busy
  <2>2. Recent' \subseteq Recent
    <3> SUFFICES ASSUME NEW d \in Codes, code'[d].status # "none", code'[d].age < 3
                 PROVE  d \in Recent
      BY DEF Recent, Rows
    <3>1. code[d].age \in Ages /\ code'[d].age \in Ages
      BY <1>7, AgesIs DEF CodesInv, RowsTyped, CodeRows
    <3> QED
      BY <1>7, <3>1, AgesIs DEF Recent, Rows, Ages
  <2> QED
    BY <1>1, <2>1, <2>2
<1> QED
  BY <1>2, <1>3, <1>4, <1>5, <1>6, <1>7 DEF OtpStep

LEMMA DayInit == AdminLoginInit => DayInv
<1> SUFFICES ASSUME AdminLoginInit  PROVE DayInv
  OBVIOUS
<1>1. code = [c \in Codes |-> NoCode] /\ open = [r \in Requests |-> Closed]
  BY DEF AdminLoginInit, OtpInit
<1>2. NoCode.status = "none"
  BY DEF NoCode
<1>3. Recent = {} /\ Busy = {}
  BY <1>1, <1>2, ClosedIs DEF Recent, Rows, Busy
<1>4. Cardinality({}) = 0 /\ Cardinality(Requests) \in Nat
  BY FS_EmptySet, FS_CardinalityType
<1> QED
  BY <1>3, <1>4 DEF DayInv

LEMMA DayIsBounded == DayInv => OvershootBounded
<1>1. Cardinality(Recent) \in Nat /\ Cardinality(Busy) \in Nat /\ Cardinality(Requests) \in Nat
  BY AllFinite, BusyFinite, FS_CardinalityType
<1> QED
  BY <1>1 DEF DayInv, OvershootBounded

\* The daily limit is overshot by fewer requests than there are workers, for any
\* limit and number of both, however long each waits between counting and
\* inserting (otp.py: _enforce_request_limits)
THEOREM OvershootIsBounded == AdminLoginSpec => []OvershootBounded
<1> DEFINE Inv == CodesInv /\ DayInv
<1>1. AdminLoginInit => Inv
  BY CodesInit, DayInit
<1>2. Inv /\ [AdminLoginNext]_vars => Inv'
  BY StepsAreOtp, CodesStep, DayStep
<1>3. Inv => OvershootBounded
  BY DayIsBounded
<1> QED
  BY <1>1, <1>2, <1>3, PTL DEF AdminLoginSpec
-----------------------------------------------------------------------------
(***************************************************************************)
(* Challenges.  A worker that has verified a code holds a challenge there  *)
(* is, and one whose conditional update has found it unused holds the row, *)
(* so that it is still unused when that worker commits.                    *)
(***************************************************************************)

ChallengeStates == {"none", "open", "overdue", "consumed"}
Consumed == {h \in Challenges : challenge[h] = "consumed"}
AtCode   == {r \in Requests : flow[r].at \in {"code", "consuming"}}
Verified == {c \in Codes : code[c].status = "VERIFIED"}

\* The steps at which a worker holds a challenge
WithChallenge == {"resend", "sending", "sent", "checked", "code", "consuming"}

Consuming(r) == flow[r].at = "consuming"

ChallengeInv ==
    /\ challenge \in [Challenges -> ChallengeStates]
    /\ flow = [r \in Requests |-> flow[r]]
    /\ \A r \in Requests : flow[r].at \in WithChallenge => flow[r].of \in Challenges
    /\ \A r \in Requests : Consuming(r) => flow[r].of \notin Consumed
    /\ \A q, r \in Requests : Consuming(q) /\ Consuming(r) /\ flow[q].of = flow[r].of => q = r
    /\ logins = [h \in Challenges |-> IF challenge[h] = "consumed" THEN 1 ELSE 0]
    /\ trusted => Consumed # {}

\* Where the workers are after one of them has moved
LEMMA GotoIs ==
    ASSUME ChallengeInv, NEW r \in Requests, NEW step, NEW h, Goto(r, step, h)
    PROVE  /\ flow' = [q \in Requests |-> flow'[q]]
           /\ \A q \in Requests : q # r => flow'[q] = flow[q]
           /\ flow'[r].at = step /\ flow'[r].of = h
<1> DEFINE x == [at |-> step, of |-> h]
<1>1. flow' = [flow EXCEPT ![r] = x] /\ x.at = step /\ x.of = h
  BY DEF Goto
<1> HIDE DEF x
<1>2. flow' = [q \in Requests |-> IF q = r THEN x ELSE flow[q]]
  BY <1>1 DEF ChallengeInv
<1> QED
  BY <1>1, <1>2

\* Every step moves challenges, tokens of trust and logins in one of three ways
ChallengesSame ==
    /\ challenge' \in [Challenges -> ChallengeStates]
    /\ Consumed' = Consumed
    /\ logins' = logins
    /\ trusted' => trusted

ConsumedNow(h) ==
    /\ h \notin Consumed
    /\ challenge' = [challenge EXCEPT ![h] = "consumed"]
    /\ logins' = [logins EXCEPT ![h] = @ + 1]

LEMMA ConsumedNowIs ==
    ASSUME ChallengeInv, NEW h \in Challenges, ConsumedNow(h)
    PROVE  /\ challenge' \in [Challenges -> ChallengeStates]
           /\ Consumed' = Consumed \union {h}
           /\ logins' = [g \in Challenges |-> IF challenge'[g] = "consumed" THEN 1 ELSE 0]
<1>1. \A g \in Challenges : challenge'[g] = IF g = h THEN "consumed" ELSE challenge[g]
  BY DEF ChallengeInv, ConsumedNow
<1>2. challenge' \in [Challenges -> ChallengeStates]
  BY DEF ChallengeInv, ConsumedNow, ChallengeStates
<1>3. logins' = [g \in Challenges |-> IF g = h THEN logins[h] + 1 ELSE logins[g]]
  BY DEF ChallengeInv, ConsumedNow
<1>4. \A g \in Challenges : logins[g] = IF challenge[g] = "consumed" THEN 1 ELSE 0
  BY DEF ChallengeInv
<1>5. logins[h] + 1 = 1
  BY <1>4 DEF ConsumedNow, Consumed
<1> QED
  BY <1>1, <1>2, <1>3, <1>4, <1>5 DEF Consumed

LEMMA WorkerChallenges ==
    ASSUME ChallengeInv, NEW r \in Requests, LoginStep(r)
    PROVE  \/ ChallengesSame
           \/ /\ At(r, "consuming") /\ flow[r].of \in Challenges
              /\ ConsumedNow(flow[r].of) /\ Goto(r, "idle", NoChallenge) /\ UNCHANGED otpVars
<1>1. ASSUME UNCHANGED <<challenge, trusted, logins>>
      PROVE  ChallengesSame
  BY <1>1 DEF ChallengesSame, ChallengeInv, Consumed
<1>2. CASE ChallengeOpens(r)
  <2> DEFINE k == flow[r].of
  <2>1. k \in Challenges
    BY <1>2 DEF ChallengeOpens, At, ChallengeInv, WithChallenge
  <2>2. \A g \in Challenges :
           challenge'[g] = IF g = k /\ challenge[k] # "consumed" THEN "open" ELSE challenge[g]
    BY <1>2, <2>1 DEF ChallengeOpens, ChallengeInv
  <2>3. challenge' \in [Challenges -> ChallengeStates]
    BY <1>2, <2>1 DEF ChallengeOpens, ChallengeInv, ChallengeStates
  <2>4. Consumed' = Consumed
    BY <2>2 DEF Consumed
  <2> QED
    BY <1>2, <2>3, <2>4 DEF ChallengeOpens, ChallengesSame
<1>3. ASSUME NEW remember \in BOOLEAN, CompleteLogin(r, remember)
      PROVE  \/ ChallengesSame
             \/ /\ At(r, "consuming") /\ flow[r].of \in Challenges
                /\ ConsumedNow(flow[r].of) /\ Goto(r, "idle", NoChallenge) /\ UNCHANGED otpVars
  <2>1. flow[r].of \in Challenges /\ At(r, "consuming") /\ flow[r].of \notin Consumed
    BY <1>3 DEF CompleteLogin, At, ChallengeInv, Consuming, WithChallenge
  <2> QED
    BY <1>3, <2>1 DEF CompleteLogin, ConsumedNow
<1> QED
  BY <1>1, <1>2, <1>3 DEF LoginStep, CheckPasswordStep, TrustedDevice, OpenChallenge, FindChallenge, ResendCode,
     SendGoesOn, CodeSent, LoginBreaks, StartComplete, VerifyCode, Consume, LoginDies, loginVars

LEMMA OtherChallenges ==
    ASSUME ChallengeInv, [AdminLoginNext]_vars, ~\E r \in Requests : LoginStep(r)
    PROVE  ChallengesSame /\ flow' = flow
<1>1. ASSUME UNCHANGED <<challenge, logins, flow>>, trusted' => trusted
      PROVE  ChallengesSame /\ flow' = flow
  BY <1>1 DEF ChallengesSame, ChallengeInv, Consumed
<1>2. ASSUME NEW h \in Challenges, ChallengeExpires(h)
      PROVE  ChallengesSame /\ flow' = flow
  <2>1. \A g \in Challenges : challenge'[g] = IF g = h THEN "overdue" ELSE challenge[g]
    BY <1>2 DEF ChallengeExpires, ChallengeInv
  <2>2. Consumed' = Consumed
    BY <1>2, <2>1 DEF Consumed, ChallengeExpires
  <2>3. challenge' \in [Challenges -> ChallengeStates]
    BY <1>2 DEF ChallengeExpires, ChallengeInv, ChallengeStates
  <2> QED
    BY <1>2, <2>2, <2>3 DEF ChallengesSame, ChallengeExpires
<1>3. CASE UNCHANGED vars
  BY <1>1, <1>3 DEF vars, loginVars
<1>4. CASE Ageing
  BY <1>1, <1>4 DEF Ageing, loginVars
<1>5. CASE UpdateAccount
  <2>1. trusted' => trusted
    BY <1>5 DEF UpdateAccount
  <2> QED
    BY <1>1, <1>5, <2>1 DEF UpdateAccount
<1>6. CASE ResetPassword \/ RevokeAllSessions
  BY <1>1, <1>6 DEF ResetPassword, RevokeAllSessions
<1>7. CASE LockEnds
  BY <1>1, <1>7 DEF LockEnds
<1> QED
  BY <1>2, <1>3, <1>4, <1>5, <1>6, <1>7 DEF AdminLoginNext

\* Where a worker is after a step of its own; it holds an unused challenge only
\* if it did before, or took it when nobody did
LEMMA WorkerMoves ==
    ASSUME ChallengeInv, NEW r \in Requests, LoginStep(r)
    PROVE  /\ flow' = [q \in Requests |-> flow'[q]]
           /\ \A q \in Requests : q # r => flow'[q] = flow[q]
           /\ flow'[r].at \in WithChallenge => flow'[r].of \in Challenges
           /\ flow'[r].at = "consuming" =>
                 \/ flow'[r] = flow[r]
                 \/ /\ flow'[r].of \notin Consumed
                    /\ \A q \in Requests : ~(Consuming(q) /\ flow[q].of = flow'[r].of)
<1> DEFINE Moves == /\ flow' = [q \in Requests |-> flow'[q]]
                    /\ \A q \in Requests : q # r => flow'[q] = flow[q]
                    /\ flow'[r].at \in WithChallenge => flow'[r].of \in Challenges
                    /\ flow'[r].at = "consuming" =>
                          \/ flow'[r] = flow[r]
                          \/ /\ flow'[r].of \notin Consumed
                             /\ \A q \in Requests : ~(Consuming(q) /\ flow[q].of = flow'[r].of)
<1>1. ASSUME UNCHANGED flow
      PROVE  Moves
  BY <1>1 DEF ChallengeInv
<1>2. ASSUME NEW step, NEW h, Goto(r, step, h), step # "consuming", step \in WithChallenge => h \in Challenges
      PROVE  Moves
  BY <1>2, GotoIs
<1>3. ASSUME Consume(r)
      PROVE  Moves
  <2> DEFINE h == flow[r].of
  <2>1. h \in Challenges
    BY <1>3 DEF Consume, At, ChallengeInv, WithChallenge
  <2>2. CASE MayConsume(h) /\ admin.active
    <3>1. Goto(r, "consuming", h) /\ h \notin Consumed
      BY <1>3, <2>2 DEF Consume, MayConsume, Consumed
    <3>2. \A q \in Requests : ~(Consuming(q) /\ flow[q].of = h)
      BY <1>3 DEF Consume, Consuming, At
    <3> QED
      BY <2>1, <3>1, <3>2, GotoIs
  <2>3. CASE ~(MayConsume(h) /\ admin.active)
    <3>1. Goto(r, "idle", NoChallenge)
      BY <1>3, <2>3 DEF Consume
    <3> QED
      BY <1>2, <3>1 DEF WithChallenge
  <2> QED
    BY <2>2, <2>3
<1>4. ASSUME At(r, "resend") \/ At(r, "sending") \/ At(r, "checked")
      PROVE  flow[r].of \in Challenges
  BY <1>4 DEF At, ChallengeInv, WithChallenge
<1>5. \/ UNCHANGED flow \/ Consume(r)
      \/ Goto(r, "password", NoChallenge) \/ Goto(r, "idle", NoChallenge)
      \/ \E h \in Challenges : \/ Goto(r, "sending", h) \/ Goto(r, "resend", h) \/ Goto(r, "sent", h)
                               \/ Goto(r, "checked", h) \/ Goto(r, "code", h)
  BY <1>4 DEF LoginStep, CheckPasswordStep, TrustedDevice, OpenChallenge, FindChallenge, ResendCode, SendGoesOn,
     CodeSent, ChallengeOpens, LoginBreaks, StartComplete, VerifyCode, CompleteLogin, LoginDies, loginVars
<1> QED
  BY <1>1, <1>2, <1>3, <1>5 DEF WithChallenge

LEMMA ChallengeStep == ChallengeInv /\ [AdminLoginNext]_vars => ChallengeInv'
<1> SUFFICES ASSUME ChallengeInv, [AdminLoginNext]_vars
             PROVE  ChallengeInv'
  OBVIOUS
<1>1. ASSUME ChallengesSame
      PROVE  /\ challenge' \in [Challenges -> ChallengeStates]
             /\ logins' = [h \in Challenges |-> IF challenge'[h] = "consumed" THEN 1 ELSE 0]
             /\ trusted' => Consumed' # {}
  <2>1. \A h \in Challenges : challenge'[h] = "consumed" <=> challenge[h] = "consumed"
    BY <1>1 DEF ChallengesSame, Consumed
  <2> QED
    BY <1>1, <2>1 DEF ChallengesSame, ChallengeInv
<1>2. ASSUME NEW r \in Requests, LoginStep(r)
      PROVE  ChallengeInv'
  <2>1. /\ challenge' \in [Challenges -> ChallengeStates]
        /\ logins' = [h \in Challenges |-> IF challenge'[h] = "consumed" THEN 1 ELSE 0]
        /\ trusted' => Consumed' # {}
    BY <1>1, <1>2, WorkerChallenges, ConsumedNowIs
  <2>2. \A p, q \in Requests : Consuming(p)' /\ Consuming(q)' /\ flow'[p].of = flow'[q].of => p = q
    BY <1>2, WorkerMoves DEF ChallengeInv, Consuming
  <2>3. CASE ChallengesSame
    <3>1. \A q \in Requests : Consuming(q)' => flow'[q].of \notin Consumed'
      BY <1>2, <2>3, WorkerMoves DEF ChallengeInv, Consuming, ChallengesSame
    <3> QED
      BY <1>2, <2>1, <2>2, <3>1, WorkerMoves DEF ChallengeInv
  <2>4. ASSUME At(r, "consuming"), flow[r].of \in Challenges, ConsumedNow(flow[r].of), Goto(r, "idle", NoChallenge)
        PROVE  ChallengeInv'
    <3>1. Consumed' = Consumed \union {flow[r].of}
      BY <2>4, ConsumedNowIs
    <3>2. \A q \in Requests : Consuming(q)' => q # r /\ flow'[q] = flow[q]
      BY <2>4, GotoIs DEF Consuming
    <3>3. \A q \in Requests : Consuming(q)' => flow'[q].of \notin Consumed'
      BY <2>4, <3>1, <3>2 DEF ChallengeInv, Consuming, At
    <3> QED
      BY <1>2, <2>1, <2>2, <3>3, WorkerMoves DEF ChallengeInv
  <2> QED
    BY <1>2, <2>3, <2>4, WorkerChallenges
<1>3. CASE ~\E r \in Requests : LoginStep(r)
  BY <1>1, <1>3, OtherChallenges DEF ChallengeInv, ChallengesSame, Consuming
<1> QED
  BY <1>2, <1>3

LEMMA ChallengeInit == AdminLoginInit => ChallengeInv
<1> SUFFICES ASSUME AdminLoginInit  PROVE ChallengeInv
  OBVIOUS
<1>1. /\ challenge = [h \in Challenges |-> "none"] /\ trusted = FALSE
      /\ flow = [r \in Requests |-> Idle] /\ logins = [h \in Challenges |-> 0]
  BY DEF AdminLoginInit
<1>2. Idle.at = "idle"
  BY DEF Idle
<1>3. logins = [h \in Challenges |-> IF challenge[h] = "consumed" THEN 1 ELSE 0]
  BY <1>1
<1> QED
  BY <1>1, <1>2, <1>3 DEF ChallengeInv, ChallengeStates, WithChallenge, Consuming

LEMMA UsedOnce == ChallengeInv => ChallengeUsedOnce
BY DEF ChallengeInv, ChallengeUsedOnce, Consumed

\* A challenge leads to one login at most, for any number of workers that
\* present it, and no device is trusted before the first
\* (admin_auth.py: the conditional update of complete_login)
THEOREM ChallengesUsedOnce == AdminLoginSpec => []ChallengeUsedOnce
BY ChallengeInit, ChallengeStep, UsedOnce, PTL DEF AdminLoginSpec
-----------------------------------------------------------------------------
(***************************************************************************)
(* Logins and codes.  A verified code stays verified; a worker that has    *)
(* just verified one stands for it until it logs in or gives up.           *)
(***************************************************************************)

CodedInv ==
    /\ IsFiniteSet(Consumed)
    /\ Cardinality(Consumed) + Cardinality(AtCode) <= Cardinality(Verified)

LEMMA LoginsFinite == IsFiniteSet(AtCode) /\ IsFiniteSet(Verified)
<1>1. AtCode \subseteq Requests /\ Verified \subseteq Codes
  BY DEF AtCode, Verified
<1> QED
  BY <1>1, AllFinite, FS_Subset

LEMMA VerifiedStays == CodesInv /\ OtpStep => Verified \subseteq Verified'
<1> SUFFICES ASSUME CodesInv, OtpStep
             PROVE  Verified \subseteq Verified'
  OBVIOUS
<1>1. ASSUME code' = code
      PROVE  Verified \subseteq Verified'
  BY <1>1 DEF Verified
<1>2. ASSUME NEW r \in Requests, GenerateAndSend(r)
      PROVE  Verified \subseteq Verified'
  <2> SUFFICES ASSUME NEW c \in Codes, code[c].status = "VERIFIED"
               PROVE  code'[c].status = "VERIFIED"
    BY DEF Verified
  <2>1. c \notin open[r].held
    BY DEF CodesInv, Held, Pending
  <2>2. c # open[r].row
    BY <1>2, GenerateIs DEF Rows
  <2> QED
    BY <1>2, <2>1, <2>2, GenerateIs
<1>5. ASSUME NEW r \in Requests, InsertCode(r) \/ SendFails(r)
      PROVE  Verified \subseteq Verified'
  BY <1>5, InsertIs, FailsIs DEF Verified
<1>3. ASSUME NEW c \in Codes, NEW right \in BOOLEAN, Verify(c, right)
      PROVE  Verified \subseteq Verified'
  BY <1>3, VerifyIs DEF Verified, Pending
<1>4. ASSUME NEW c \in Codes, CodeAges(c)
      PROVE  Verified \subseteq Verified'
  BY <1>4, AgesIs DEF Verified
<1> QED
  BY <1>1, <1>2, <1>3, <1>4, <1>5 DEF OtpStep, otpVars, BeginSend, FindPending

LEMMA CodedStep == CodesInv /\ ChallengeInv /\ CodedInv /\ [AdminLoginNext]_vars => CodedInv'
<1> SUFFICES ASSUME CodesInv, ChallengeInv, CodedInv, [AdminLoginNext]_vars
             PROVE  CodedInv'
  OBVIOUS
<1> USE LoginsFinite
<1>1. /\ Cardinality(Consumed) \in Nat /\ Cardinality(AtCode) \in Nat /\ Cardinality(Verified) \in Nat
      /\ IsFiniteSet(Consumed)
  BY FS_CardinalityType DEF CodedInv
<1>2. /\ Verified \subseteq Verified' /\ IsFiniteSet(Verified') /\ Cardinality(Verified') \in Nat
      /\ Cardinality(Verified) <= Cardinality(Verified')
  <2>1. Verified \subseteq Verified'
    BY StepsAreOtp, VerifiedStays
  <2>2. Verified' \subseteq Codes
    BY DEF Verified
  <2>3. IsFiniteSet(Verified')
    BY <2>2, AllFinite, FS_Subset
  <2> QED
    BY <2>1, <2>3, FS_Subset, FS_CardinalityType
<1>3. ASSUME Consumed' = Consumed, AtCode' \subseteq AtCode
      PROVE  CodedInv'
  <2>1. Cardinality(AtCode') \in Nat /\ Cardinality(AtCode') <= Cardinality(AtCode)
    BY <1>3, NeitherGrows
  <2> QED
    BY <1>1, <1>2, <1>3, <2>1 DEF CodedInv
<1>4. ASSUME NEW r \in Requests, LoginStep(r)
      PROVE  CodedInv'
  <2>1. ASSUME At(r, "consuming"), flow[r].of \in Challenges, ConsumedNow(flow[r].of), Goto(r, "idle", NoChallenge)
        PROVE  CodedInv'
    <3>1. Consumed' = Consumed \union {flow[r].of}
      BY <2>1, ConsumedNowIs
    <3>2. AtCode' = AtCode \ {r} /\ r \in AtCode
      BY <2>1, GotoIs DEF AtCode, At
    <3>3. /\ Cardinality(Consumed') \in Nat /\ Cardinality(AtCode') \in Nat
          /\ Cardinality(Consumed') + Cardinality(AtCode') <= Cardinality(Consumed) + Cardinality(AtCode)
      BY <1>1, <3>1, <3>2, OneMoves
    <3>4. IsFiniteSet(Consumed')
      BY <1>1, <3>1, FS_AddElement
    <3> QED
      BY <1>1, <1>2, <3>3, <3>4 DEF CodedInv
  <2>2. ASSUME NEW right \in BOOLEAN, VerifyCode(r, right), Consumed' = Consumed
        PROVE  CodedInv'
    <3>1. PICK c \in Codes : /\ Verify(c, right)
                             /\ IF Outcome(c, right) = "VERIFIED"
                                THEN Goto(r, "code", flow[r].of) ELSE Goto(r, "idle", NoChallenge)
      BY <2>2 DEF VerifyCode
    <3>2. CASE Outcome(c, right) = "VERIFIED"
      <4>1. AtCode' = AtCode \union {r}
        BY <3>1, <3>2, GotoIs DEF AtCode
      <4>2. c \in Verified' /\ c \notin Verified
        BY <3>1, <3>2, VerifyIs DEF Verified, Pending
      <4>3. /\ Cardinality(AtCode \union {r}) \in Nat
            /\ \/ Cardinality(AtCode \union {r}) = Cardinality(AtCode)
               \/ Cardinality(AtCode \union {r}) = Cardinality(AtCode) + 1
        BY FS_AddElement, FS_CardinalityType
      <4>4. Cardinality(Verified \union {c}) = Cardinality(Verified) + 1
        BY <4>2, FS_AddElement
      <4>5. Cardinality(Verified \union {c}) <= Cardinality(Verified')
        BY <1>2, <4>2, FS_Subset
      <4> QED
        BY <1>1, <1>2, <2>2, <4>1, <4>3, <4>4, <4>5 DEF CodedInv
    <3>3. CASE Outcome(c, right) # "VERIFIED"
      <4>1. AtCode' \subseteq AtCode
        BY <3>1, <3>3, GotoIs DEF AtCode
      <4> QED
        BY <1>3, <2>2, <4>1
    <3> QED
      BY <3>2, <3>3
  <2>3. CASE ChallengesSame
    <3>1. Consumed' = Consumed
      BY <2>3 DEF ChallengesSame
    <3>2. ASSUME NEW step, step \notin {"code", "consuming"} \/ r \in AtCode, NEW h, Goto(r, step, h)
          PROVE  AtCode' \subseteq AtCode
      BY <3>2, GotoIs DEF AtCode
    <3>3. ASSUME UNCHANGED flow
          PROVE  AtCode' \subseteq AtCode
      BY <3>3 DEF AtCode
    <3>4. ASSUME Consume(r)
          PROVE  AtCode' \subseteq AtCode
      <4>1. r \in AtCode
        BY <3>4 DEF Consume, At, AtCode
      <4> QED
        BY <3>2, <3>4, <4>1 DEF Consume
    <3>5. \/ \E right \in BOOLEAN : VerifyCode(r, right)
          \/ UNCHANGED flow \/ Consume(r)
          \/ Goto(r, "password", NoChallenge) \/ Goto(r, "idle", NoChallenge)
          \/ \E h : \/ Goto(r, "sending", h) \/ Goto(r, "resend", h) \/ Goto(r, "sent", h)
                    \/ Goto(r, "checked", h)
      BY <1>4 DEF LoginStep, CheckPasswordStep, TrustedDevice, OpenChallenge, FindChallenge, ResendCode, SendGoesOn,
         CodeSent, ChallengeOpens, LoginBreaks, StartComplete, CompleteLogin, LoginDies, loginVars
    <3> QED
      BY <1>3, <2>2, <3>1, <3>2, <3>3, <3>4, <3>5
  <2> QED
    BY <1>4, <2>1, <2>3, WorkerChallenges
<1>5. CASE ~\E r \in Requests : LoginStep(r)
  <2>1. Consumed' = Consumed /\ flow' = flow
    BY <1>5, OtherChallenges DEF ChallengesSame
  <2> QED
    BY <1>3, <2>1 DEF AtCode
<1> QED
  BY <1>4, <1>5

LEMMA CodedInit == AdminLoginInit => CodedInv
<1> SUFFICES ASSUME AdminLoginInit  PROVE CodedInv
  OBVIOUS
<1>1. /\ challenge = [h \in Challenges |-> "none"] /\ flow = [r \in Requests |-> Idle]
  BY DEF AdminLoginInit
<1>2. Idle.at = "idle"
  BY DEF Idle
<1>3. Consumed = {} /\ AtCode = {}
  BY <1>1, <1>2 DEF Consumed, AtCode
<1>4. Cardinality({}) = 0 /\ IsFiniteSet({}) /\ Cardinality(Verified) \in Nat
  BY LoginsFinite, FS_EmptySet, FS_CardinalityType
<1> QED
  BY <1>3, <1>4 DEF CodedInv

LEMMA CodedIs == CodedInv => LoginsHaveCodes
BY DEF CodedInv, LoginsHaveCodes, Consumed, AtCode, Verified

\* Every challenge that was used and every worker that is about to use one has a
\* verified code of its own, for any number of each: no code serves two logins
\* (otp.py: verify, admin_auth.py: complete_login)
THEOREM LoginsCoded == AdminLoginSpec => []LoginsHaveCodes
<1> DEFINE Inv == CodesInv /\ ChallengeInv /\ CodedInv
<1>1. AdminLoginInit => Inv
  BY CodesInit, ChallengeInit, CodedInit
<1>2. Inv /\ [AdminLoginNext]_vars => Inv'
  BY StepsAreOtp, CodesStep, ChallengeStep, CodedStep
<1>3. Inv => LoginsHaveCodes
  BY CodedIs
<1> QED
  BY <1>1, <1>2, <1>3, PTL DEF AdminLoginSpec
-----------------------------------------------------------------------------
(* Types.  The invariants above know of rows only what they need. *)

AdminRows == [active : BOOLEAN, failed : 0 .. MaxFailed - 1, locked : BOOLEAN]
FlowRows  == [at : {"idle", "password"} \union WithChallenge, of : Challenges \union {NoChallenge}]

Typed ==
    /\ admin \in AdminRows
    /\ trusted \in BOOLEAN
    /\ flow \in [Requests -> FlowRows]

LoginInv == CodesInv /\ ChallengeInv /\ Typed

LEMMA AdminTyped ==
    ASSUME admin \in AdminRows, [AdminLoginNext]_vars
    PROVE  admin' \in AdminRows
<1> USE DEF AdminRows
<1>1. CASE UNCHANGED admin
  BY <1>1
<1>2. ASSUME NEW r \in Requests, NEW right \in BOOLEAN, CheckPasswordStep(r, right)
      PROVE  admin' \in AdminRows
  <2>1. MaxFailed \in Nat \ {0} /\ admin.failed \in 0 .. MaxFailed - 1
    BY LoginAssumption
  <2>2. [admin EXCEPT !.failed = 0] \in AdminRows
    BY <2>1
  <2>3. AfterFailure \in AdminRows
    <3>1. CASE admin.failed + 1 >= MaxFailed
      <4>1. /\ [admin EXCEPT !.failed = 0] \in AdminRows
            /\ [admin EXCEPT !.failed = 0, !.locked = TRUE] = [[admin EXCEPT !.failed = 0] EXCEPT !.locked = TRUE]
        BY <2>2
      <4>2. \A a \in AdminRows : [a EXCEPT !.locked = TRUE] \in AdminRows
        OBVIOUS
      <4> QED
        BY <3>1, <4>1, <4>2 DEF AfterFailure
    <3>2. CASE ~(admin.failed + 1 >= MaxFailed)
      <4>1. admin.failed + 1 \in 0 .. MaxFailed - 1
        BY <2>1, <3>2
      <4>2. [admin EXCEPT !.failed = @ + 1] \in AdminRows
        BY <4>1
      <4> QED
        BY <3>2, <4>2 DEF AfterFailure
    <3> QED
      BY <3>1, <3>2
  <2> QED
    BY <1>2, <2>2, <2>3 DEF CheckPasswordStep
<1>3. CASE UpdateAccount
  BY <1>3 DEF UpdateAccount
<1>4. CASE ResetPassword \/ LockEnds
  <2>1. 0 \in 0 .. MaxFailed - 1
    BY LoginAssumption
  <2> QED
    BY <1>4, <2>1 DEF ResetPassword, LockEnds
<1> QED
  BY <1>1, <1>2, <1>3, <1>4 DEF AdminLoginNext, vars, loginVars, LoginStep, TrustedDevice, OpenChallenge,
     FindChallenge, ResendCode, SendGoesOn, CodeSent, ChallengeOpens, LoginBreaks, StartComplete, VerifyCode,
     Consume, CompleteLogin, LoginDies, RevokeAllSessions,
     ChallengeExpires, Ageing

LEMMA FlowTyped ==
    ASSUME flow \in [Requests -> FlowRows], trusted \in BOOLEAN, [AdminLoginNext]_vars
    PROVE  flow' \in [Requests -> FlowRows] /\ trusted' \in BOOLEAN
<1>1. ASSUME NEW r \in Requests, NEW step \in {"idle", "password"} \union WithChallenge,
             NEW h \in Challenges \union {NoChallenge}, Goto(r, step, h)
      PROVE  flow' \in [Requests -> FlowRows]
  BY <1>1 DEF Goto, FlowRows
<1>2. ASSUME NEW r \in Requests, LoginStep(r)
      PROVE  flow' \in [Requests -> FlowRows] /\ trusted' \in BOOLEAN
  <2>1. flow[r].of \in Challenges \union {NoChallenge}
    BY DEF FlowRows
  <2>2. trusted' \in BOOLEAN
    BY <1>2 DEF LoginStep, CheckPasswordStep, TrustedDevice, OpenChallenge, FindChallenge, ResendCode, SendGoesOn,
       CodeSent, ChallengeOpens, LoginBreaks, StartComplete, VerifyCode, Consume, CompleteLogin, LoginDies, loginVars
  <2>3. \/ UNCHANGED flow
        \/ \E step \in {"idle", "password"} \union WithChallenge, h \in Challenges \union {NoChallenge} :
              Goto(r, step, h)
    BY <1>2, <2>1 DEF LoginStep, CheckPasswordStep, TrustedDevice, OpenChallenge, FindChallenge, ResendCode,
       SendGoesOn, CodeSent, ChallengeOpens, LoginBreaks, StartComplete, VerifyCode, Consume, CompleteLogin,
       LoginDies, loginVars, WithChallenge
  <2> QED
    BY <1>1, <2>2, <2>3
<1>3. CASE UNCHANGED flow /\ trusted' \in BOOLEAN
  BY <1>3
<1> QED
  BY <1>2, <1>3 DEF AdminLoginNext, vars, loginVars, UpdateAccount, ResetPassword, RevokeAllSessions, LockEnds,
     ChallengeExpires, Ageing

LEMMA LoginInit == AdminLoginInit => LoginInv
<1> SUFFICES ASSUME AdminLoginInit  PROVE Typed
  BY CodesInit, ChallengeInit DEF LoginInv
<1>1. Idle \in FlowRows
  BY DEF Idle, FlowRows
<1>2. 0 \in 0 .. MaxFailed - 1
  BY LoginAssumption
<1> QED
  BY <1>1, <1>2 DEF AdminLoginInit, OtpInit, Typed, AdminRows

LEMMA LoginStepTyped == LoginInv /\ [AdminLoginNext]_vars => LoginInv'
BY StepsAreOtp, CodesStep, ChallengeStep, AdminTyped, FlowTyped
   DEF LoginInv, Typed

LEMMA LoginTypes == LoginInv => AdminLoginTypeOK
BY DEF LoginInv, Typed, CodesInv, RowsTyped, ChallengeInv, AdminLoginTypeOK, OtpTypeOK, CodeRows, OpenRows,
   AdminRows, FlowRows, WithChallenge, ChallengeStates

\* Codes, challenges, the lockout and what workers know stay within their types:
\* no code is guessed at more often than the limit, and no count of failed
\* passwords reaches its own (otp.py: verify, admin_auth.py: check_password_step).
THEOREM AdminLoginTypeCorrect == AdminLoginSpec => []AdminLoginTypeOK
BY LoginInit, LoginStepTyped, LoginTypes, PTL DEF AdminLoginSpec
=============================================================================
