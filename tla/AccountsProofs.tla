---------------------------- MODULE AccountsProofs ----------------------------
(***************************************************************************)
(* Theorems about Accounts, for any number of browsers, links and codes    *)
(* and without the bounds of the runs.                                     *)
(*                                                                         *)
(* Each promise is inductive once it is said what it rests on: no cookie   *)
(* or challenge is ahead of the epoch (EpochsBehind), no code is listed or *)
(* submitted before it was generated (CodesKnown), and the failures that   *)
(* count are those that happened (FailuresExact).                          *)
(***************************************************************************)
EXTENDS Accounts, TLAPS

(* The readings of all requests. *)
Reads(b) ==
  \/ SubmitLogin(b) \/ SubmitWrongPassword(b) \/ SubmitSso(b) \/ SubmitForgot(b)
  \/ SubmitChange(b) \/ SubmitRevoke(b) \/ SubmitChallenge(b) \/ SubmitWrongCode(b)
  \/ SubmitSetup(b) \/ SubmitRegenerate(b) \/ SubmitDisable(b)
  \/ \E l \in Links : SubmitReset(b, l)

(* What a reading may carry. *)
Carries(q) ==
  /\ q \in Request
  /\ q.code \in user.codes \union {None}
  /\ q.row.codes \subseteq user.codes
  /\ q.op = "reset" => q.link \in Links

ResetsNameLinks == \A b \in Browsers : req[b].op = "reset" => req[b].link \in Links

EpochsBehind ==
  /\ user.epoch >= 1
  /\ "epoch" \notin late =>
       \A b \in Browsers : cookie[b].epoch <= user.epoch /\ pending[b].epoch <= user.epoch

CodesKnown ==
  /\ used \subseteq issued /\ user.codes \subseteq issued
  /\ \A b \in Browsers : req[b].code \in issued \union {None} /\ req[b].row.codes \subseteq issued

FailuresExact ==
  "failed" \notin late =>
    /\ missed = user.failed
    /\ user.failed >= MaxAttempts => user.lock # "none"

-----------------------------------------------------------------------------
(* Rows and requests. *)

LEMMA NoRowTyped == NoRow \in Row /\ NoPass \in Pass /\ Idle \in Request
BY AccountsAssumption DEF NoRow, Row, NoPass, Pass, Idle, Request

(* The readings are rows again, and list no code the row does not. *)
LEMMA ReadingsTyped ==
  ASSUME user \in Row, NEW p \in Nat
  PROVE  /\ Checked(p) \in Row /\ Checked(p).codes = {}
         /\ \A r \in Row : WithLockout(r) \in Row /\ WithLockout(r).codes = r.codes
         /\ \A r \in Row : WithEpoch(r) \in Row /\ WithEpoch(r).codes = r.codes
         /\ \A r \in Row : [r EXCEPT !.old = user.old] \in Row
                           /\ [r EXCEPT !.old = user.old].codes = r.codes
BY DEF Checked, WithLockout, WithEpoch, NoRow, Row

(* Every reading submits a request that carries nothing but what it read. *)
LEMMA ReadsSubmit ==
  ASSUME TypeOK, NEW b \in Browsers, Reads(b)
  PROVE  /\ req[b] = Idle
         /\ \E q : Carries(q) /\ req' = [req EXCEPT ![b] = q]
         /\ UNCHANGED <<user, chosen, link, policy, cookie, pending, issued, used, spent,
                        missed, late>>
<1>1. user \in Row /\ user.password \in Nat /\ pending[b].password \in Nat
      /\ Open \subseteq Links /\ NoRow \in Row /\ NoRow.codes = {}
  BY NoRowTyped DEF TypeOK, Row, Pass, Open, NoRow
<1> USE ReadingsTyped
<1>2. ASSUME NEW op \in {"login", "signin", "fail", "miss", "challenge", "forgot", "reset",
                         "change", "revoke", "setup", "regenerate", "disable"},
             NEW row \in Row, row.codes \subseteq user.codes,
             NEW c \in user.codes \union {None}, NEW l \in Links \union {None},
             NEW ls \in SUBSET Links, op = "reset" => l \in Links,
             Submit(b, op, row, c, l, ls)
      PROVE  /\ req[b] = Idle
             /\ \E q : Carries(q) /\ req' = [req EXCEPT ![b] = q]
             /\ UNCHANGED <<user, chosen, link, policy, cookie, pending, issued, used, spent,
                            missed, late>>
  <2> DEFINE q == [op |-> op, row |-> row, code |-> c, link |-> l, links |-> ls]
  <2>1. c \in Codes \union {None}
    BY <1>1, <1>2 DEF Row
  <2>2. Carries(q)
    BY <1>2, <2>1 DEF Carries, Request
  <2> QED BY <1>2, <2>2 DEF Submit
<1>3. CASE SubmitLogin(b)
  <2> DEFINE row == [WithLockout(Checked(user.password)) EXCEPT !.old = user.old]
  <2>1. row \in Row /\ row.codes = {}
    BY <1>1
  <2>2. Submit(b, "login", row, None, None, {})
    BY <1>3 DEF SubmitLogin
  <2> QED BY <1>2, <2>1, <2>2
<1>4. CASE SubmitWrongPassword(b)
  BY <1>1, <1>2, <1>4 DEF SubmitWrongPassword
<1>5. CASE SubmitSso(b)
  BY <1>1, <1>2, <1>5 DEF SubmitSso
<1>6. CASE SubmitForgot(b)
  BY <1>1, <1>2, <1>6 DEF SubmitForgot
<1>7. CASE SubmitChange(b)
  BY <1>1, <1>2, <1>7 DEF SubmitChange
<1>8. CASE SubmitRevoke(b)
  BY <1>1, <1>2, <1>8 DEF SubmitRevoke
<1>9. CASE SubmitChallenge(b)
  <2>1. PICK c \in user.codes \union {None} :
          Submit(b, "challenge", [WithLockout(Checked(pending[b].password))
                                    EXCEPT !.codes = IF c = None THEN {} ELSE user.codes],
                 c, None, {})
    BY <1>9 DEF SubmitChallenge
  <2> DEFINE row == [WithLockout(Checked(pending[b].password))
                       EXCEPT !.codes = IF c = None THEN {} ELSE user.codes]
  <2>2. row \in Row /\ row.codes \subseteq user.codes
    BY <1>1 DEF Row
  <2> QED BY <1>2, <2>1, <2>2
<1>10. CASE SubmitWrongCode(b)
  BY <1>1, <1>2, <1>10 DEF SubmitWrongCode
<1>11. CASE SubmitSetup(b)
  BY <1>1, <1>2, <1>11 DEF SubmitSetup
<1>12. CASE SubmitRegenerate(b)
  BY <1>1, <1>2, <1>12 DEF SubmitRegenerate
<1>13. CASE SubmitDisable(b)
  <2>1. [NoRow EXCEPT !.codes = user.codes] \in Row
        /\ [NoRow EXCEPT !.codes = user.codes].codes = user.codes
    BY <1>1 DEF Row
  <2> QED BY <1>2, <1>13, <2>1 DEF SubmitDisable
<1>14. CASE \E l \in Links : SubmitReset(b, l)
  BY <1>1, <1>2, <1>14 DEF SubmitReset
<1> QED
  BY <1>3, <1>4, <1>5, <1>6, <1>7, <1>8, <1>9, <1>10, <1>11, <1>12, <1>13, <1>14,
     Reads(b) DEF Reads

(* What the methods of User do to a row. *)
LEMMA MethodsTyped ==
  ASSUME NEW u \in Row, NEW r \in Row, chosen \in Nat
  PROVE  /\ ClearLockout(u, r) \in Row
         /\ RegisterFailedLogin(u, r) \in Row
         /\ RevokeSessions(u, r) \in Row
         /\ SetPassword(u, r) \in Row
         /\ Rehash(u, r) \in Row
<1>1. \A v \in Row : ClearLockout(v, r) \in Row
  BY DEF ClearLockout, Row
<1>2. \A v \in Row : RegisterFailedLogin(v, r) \in Row
  <2> SUFFICES ASSUME NEW v \in Row PROVE RegisterFailedLogin(v, r) \in Row
    OBVIOUS
  <2>1. r.failed + 1 \in Nat
    BY DEF Row
  <2>2. ASSUME NEW f \in Nat, NEW k \in {"none", "on", "over"}
        PROVE  [v EXCEPT !.failed = f, !.lock = k] \in Row
    BY DEF Row
  <2>3. (IF r.failed + 1 >= MaxAttempts THEN "on" ELSE v.lock) \in {"none", "on", "over"}
    BY DEF Row
  <2> QED BY <2>1, <2>2, <2>3 DEF RegisterFailedLogin
<1>3. \A v \in Row : RevokeSessions(v, r) \in Row
  BY DEF RevokeSessions, Row
<1>4. \A v \in Row : [v EXCEPT !.password = chosen + 1, !.old = FALSE] \in Row
  <2>1. chosen + 1 \in Nat
    OBVIOUS
  <2>2. \A v \in Row, n \in Nat : [v EXCEPT !.password = n, !.old = FALSE] \in Row
    BY DEF Row
  <2> QED BY <2>1, <2>2
<1>5. \A v \in Row : Rehash(v, r) \in Row
  BY DEF Rehash, Row
<1> QED BY <1>1, <1>2, <1>3, <1>4, <1>5 DEF SetPassword

LEMMA MethodsEffect ==
  ASSUME NEW u \in Row, NEW r \in Row, chosen \in Nat
  PROVE  /\ ClearLockout(u, r).epoch = u.epoch
         /\ ClearLockout(u, r).password = u.password
         /\ ClearLockout(u, r).codes = u.codes
         /\ ClearLockout(u, r).failed = (IF r.failed = 0 THEN u.failed ELSE 0)
         /\ ClearLockout(u, r).lock = (IF r.lock = "none" THEN u.lock ELSE "none")
         /\ Rehash(u, r).epoch = u.epoch
         /\ Rehash(u, r).password = (IF r.old THEN r.password ELSE u.password)
         /\ Rehash(u, r).codes = u.codes
         /\ Rehash(u, r).failed = u.failed
         /\ Rehash(u, r).lock = u.lock
         /\ SetPassword(u, r).epoch = r.epoch + 1
         /\ SetPassword(u, r).codes = u.codes
         /\ SetPassword(u, r).failed = (IF r.failed = 0 THEN u.failed ELSE 0)
         /\ SetPassword(u, r).lock = (IF r.lock = "none" THEN u.lock ELSE "none")
         /\ RevokeSessions(u, r).epoch = r.epoch + 1
         /\ RevokeSessions(u, r).codes = u.codes
         /\ RevokeSessions(u, r).failed = u.failed
         /\ RevokeSessions(u, r).lock = u.lock
         /\ RegisterFailedLogin(u, r).epoch = u.epoch
         /\ RegisterFailedLogin(u, r).password = u.password
         /\ RegisterFailedLogin(u, r).codes = u.codes
         /\ RegisterFailedLogin(u, r).failed = r.failed + 1
         /\ RegisterFailedLogin(u, r).lock =
              (IF r.failed + 1 >= MaxAttempts THEN "on" ELSE u.lock)
<1>1. RevokeSessions(u, r) \in Row /\ RevokeSessions(u, r).epoch = r.epoch + 1
      /\ RevokeSessions(u, r).codes = u.codes /\ RevokeSessions(u, r).failed = u.failed
      /\ RevokeSessions(u, r).lock = u.lock
  BY DEF RevokeSessions, Row
<1>2. \A v \in Row :
        /\ ClearLockout(v, r) \in Row
        /\ ClearLockout(v, r).epoch = v.epoch
        /\ ClearLockout(v, r).password = v.password
        /\ ClearLockout(v, r).codes = v.codes
        /\ ClearLockout(v, r).failed = (IF r.failed = 0 THEN v.failed ELSE 0)
        /\ ClearLockout(v, r).lock = (IF r.lock = "none" THEN v.lock ELSE "none")
  BY DEF ClearLockout, Row
<1>3. /\ Rehash(u, r).epoch = u.epoch
      /\ Rehash(u, r).password = (IF r.old THEN r.password ELSE u.password)
      /\ Rehash(u, r).codes = u.codes
      /\ Rehash(u, r).failed = u.failed
      /\ Rehash(u, r).lock = u.lock
  BY DEF Rehash, Row
<1>4. \A v \in Row :
        LET w == [v EXCEPT !.password = chosen + 1, !.old = FALSE]
        IN  w.epoch = v.epoch /\ w.codes = v.codes /\ w.failed = v.failed /\ w.lock = v.lock
  BY DEF Row
<1>5. /\ SetPassword(u, r).epoch = r.epoch + 1
      /\ SetPassword(u, r).codes = u.codes
      /\ SetPassword(u, r).failed = (IF r.failed = 0 THEN u.failed ELSE 0)
      /\ SetPassword(u, r).lock = (IF r.lock = "none" THEN u.lock ELSE "none")
  BY <1>1, <1>2, <1>4 DEF SetPassword
<1>6. /\ RegisterFailedLogin(u, r).epoch = u.epoch
      /\ RegisterFailedLogin(u, r).password = u.password
      /\ RegisterFailedLogin(u, r).codes = u.codes
      /\ RegisterFailedLogin(u, r).failed = r.failed + 1
      /\ RegisterFailedLogin(u, r).lock =
           (IF r.failed + 1 >= MaxAttempts THEN "on" ELSE u.lock)
  BY DEF RegisterFailedLogin, Row
<1> QED BY <1>1, <1>2, <1>3, <1>5, <1>6

-----------------------------------------------------------------------------
(* Types. *)

LEMMA InitType == Init => TypeOK
<1> SUFFICES ASSUME Init PROVE TypeOK
  OBVIOUS
<1>1. PICK mfa \in BOOLEAN, old \in BOOLEAN, codes \in SUBSET Codes :
        /\ user = [password |-> 1, old |-> old, epoch |-> 1, failed |-> 0,
                   lock |-> "none", mfa |-> mfa, codes |-> codes]
        /\ issued = codes
  BY DEF Init
<1>2. user \in Row
  BY <1>1 DEF Row
<1> QED BY <1>1, <1>2, NoRowTyped DEF Init, TypeOK

(* One lemma per action. *)

LEMMA ReadsType == ASSUME TypeOK, NEW b \in Browsers, Reads(b) PROVE TypeOK'
<1>1. PICK q : Carries(q) /\ req' = [req EXCEPT ![b] = q]
  BY ReadsSubmit
<1>2. q \in Request
  BY <1>1 DEF Carries
<1> QED BY <1>1, <1>2, ReadsSubmit DEF TypeOK

LEMMA LoginType == ASSUME TypeOK, NEW b \in Browsers, CommitLogin(b) PROVE TypeOK'
<1> DEFINE r == req[b].row
<1>1. r \in Row /\ user \in Row /\ chosen \in Nat /\ r.password \in Nat /\ req[b] \in Request
  BY DEF TypeOK, Request, Row
<1>2. user' \in Row
  BY <1>1, MethodsTyped DEF CommitLogin
<1>3. [req[b] EXCEPT !.op = "verified", !.row = Checked(r.password)] \in Request
  BY <1>1, ReadingsTyped DEF Request
<1>4. req' \in [Browsers -> Request]
  BY <1>3 DEF TypeOK, CommitLogin
<1>5. missed' \in Nat
  BY DEF TypeOK, CommitLogin, Missed
<1> QED BY <1>2, <1>4, <1>5 DEF TypeOK, CommitLogin, LateIn

LEMMA VerifiedType == ASSUME TypeOK, NEW b \in Browsers, Verified(b) PROVE TypeOK'
<1>1. user.epoch \in Nat /\ req[b].row.password \in Nat /\ req[b] \in Request
  BY DEF TypeOK, Row, Request
<1>2. pending' \in [Browsers -> Pass]
  <2>1. [epoch |-> user.epoch, password |-> req[b].row.password] \in Pass
    BY <1>1 DEF Pass
  <2> QED BY <2>1 DEF TypeOK, Verified
<1>3. [req[b] EXCEPT !.op = "signin"] \in Request
  BY <1>1 DEF Request
<1>4. req' \in [Browsers -> Request]
  BY <1>3, NoRowTyped DEF TypeOK, Verified
<1> QED BY <1>2, <1>4 DEF TypeOK, Verified, LateIf

LEMMA SignInType == ASSUME TypeOK, NEW b \in Browsers, SignIn(b) PROVE TypeOK'
<1>1. user.epoch \in Nat /\ req[b].row.password \in Nat
  BY DEF TypeOK, Row, Request
<1>2. cookie' \in [Browsers -> Pass]
  BY <1>1 DEF TypeOK, SignIn, Pass
<1> QED BY <1>2, NoRowTyped DEF TypeOK, SignIn, LateIf

LEMMA FailType == ASSUME TypeOK, NEW b \in Browsers, CommitFail(b) PROVE TypeOK'
<1>1. req[b].row \in Row /\ user \in Row /\ chosen \in Nat
  BY DEF TypeOK, Request
<1>2. user' \in Row
  BY <1>1, MethodsTyped DEF CommitFail
<1>3. pending' \in [Browsers -> Pass] /\ req' \in [Browsers -> Request] /\ missed' \in Nat
  BY NoRowTyped DEF TypeOK, CommitFail
<1> QED BY <1>2, <1>3 DEF TypeOK, CommitFail, LateIf

LEMMA ChallengeType == ASSUME TypeOK, NEW b \in Browsers, CommitChallenge(b) PROVE TypeOK'
<1> DEFINE q == req[b]
<1>1. q.row \in Row /\ user \in Row /\ chosen \in Nat /\ q.row.password \in Nat
      /\ q \in Request /\ q.code \in Codes \union {None} /\ q.row.codes \subseteq Codes
  BY DEF TypeOK, Request, Row
<1>2. ConsumeCode(user, q) \in Row
  BY <1>1 DEF ConsumeCode, Row
<1>3. user' \in Row
  BY <1>1, <1>2, MethodsTyped DEF CommitChallenge
<1>4. [q EXCEPT !.op = "signin", !.row = Checked(q.row.password), !.code = None] \in Request
  BY <1>1, ReadingsTyped DEF Request
<1>5. req' \in [Browsers -> Request] /\ pending' \in [Browsers -> Pass]
  BY <1>4, NoRowTyped DEF TypeOK, CommitChallenge
<1>6. used' \subseteq Codes /\ missed' \in Nat
  BY <1>1 DEF TypeOK, CommitChallenge, Missed
<1> QED BY <1>3, <1>5, <1>6 DEF TypeOK, CommitChallenge, LateIn

LEMMA ForgotType ==
  ASSUME TypeOK, NEW b \in Browsers, NEW l \in Links, CommitForgot(b, l) PROVE TypeOK'
BY NoRowTyped DEF TypeOK, CommitForgot, LateIf

(* A commit happens for a request of its own kind. *)
LEMMA ResetType == ASSUME TypeOK, NEW b \in Browsers, CommitReset(b), req[b].link \in Links
                   PROVE  TypeOK'
<1>1. req[b].row \in Row /\ user \in Row /\ chosen \in Nat
  BY DEF TypeOK, Request
<1>2. user' \in Row
  BY <1>1, MethodsTyped DEF CommitReset
<1>3. link' \in [Links -> {"none", "open", "dead"}] /\ spent' \subseteq Links
      /\ missed' \in Nat /\ chosen' \in Nat /\ req' \in [Browsers -> Request]
  BY NoRowTyped DEF TypeOK, CommitReset, Missed
<1> QED BY <1>2, <1>3 DEF TypeOK, CommitReset, LateIn

LEMMA ChangeType == ASSUME TypeOK, NEW b \in Browsers, CommitChange(b) PROVE TypeOK'
<1>1. req[b].row \in Row /\ user \in Row /\ chosen \in Nat /\ chosen + 1 \in Nat
      /\ req[b] \in Request
  BY DEF TypeOK, Request
<1>2. user' \in Row
  BY <1>1, MethodsTyped DEF CommitChange
<1>3. [req[b] EXCEPT !.op = "signin", !.row = Checked(chosen + 1)] \in Request
  BY <1>1, ReadingsTyped DEF Request
<1>4. req' \in [Browsers -> Request] /\ missed' \in Nat /\ chosen' \in Nat
  BY <1>3 DEF TypeOK, CommitChange, Missed
<1> QED BY <1>2, <1>4 DEF TypeOK, CommitChange, LateIn

LEMMA RevokeType == ASSUME TypeOK, NEW b \in Browsers, CommitRevoke(b) PROVE TypeOK'
<1>1. req[b].row \in Row /\ user \in Row /\ chosen \in Nat /\ req[b] \in Request
      /\ req[b].row.password \in Nat
  BY DEF TypeOK, Request, Row
<1>2. user' \in Row
  BY <1>1, MethodsTyped DEF CommitRevoke
<1>3. [req[b] EXCEPT !.op = "signin", !.row = Checked(req[b].row.password)] \in Request
  BY <1>1, ReadingsTyped DEF Request
<1>4. req' \in [Browsers -> Request]
  BY <1>3 DEF TypeOK, CommitRevoke
<1> QED BY <1>2, <1>4 DEF TypeOK, CommitRevoke, LateIf

LEMMA CodesType ==
  ASSUME TypeOK, NEW b \in Browsers, NEW new \in SUBSET Codes, CommitCodes(b, new)
  PROVE  TypeOK'
<1>1. user' \in Row
  BY DEF TypeOK, CommitCodes, Row
<1> QED BY <1>1, NoRowTyped DEF TypeOK, CommitCodes

LEMMA DisableType == ASSUME TypeOK, NEW b \in Browsers, CommitDisable(b) PROVE TypeOK'
<1>1. user' \in Row
  BY DEF TypeOK, CommitDisable, Row
<1> QED BY <1>1, NoRowTyped DEF TypeOK, CommitDisable

LEMMA SingleType ==
  ASSUME TypeOK,
         \/ \E b \in Browsers : Abandon(b) \/ Logout(b) \/ DropPending(b)
         \/ \E l \in Links : LinkExpires(l)
         \/ LockExpires
         \/ \E p \in Policies : SetPolicy(p)
  PROVE  TypeOK'
<1>1. CASE \E b \in Browsers : Abandon(b) \/ Logout(b) \/ DropPending(b)
  <2>1. ASSUME NEW b \in Browsers, Abandon(b) PROVE TypeOK'
    BY <2>1, NoRowTyped DEF TypeOK, Abandon
  <2>2. ASSUME NEW b \in Browsers, Logout(b) PROVE TypeOK'
    BY <2>2, NoRowTyped DEF TypeOK, Logout
  <2>3. ASSUME NEW b \in Browsers, DropPending(b) PROVE TypeOK'
    BY <2>3, NoRowTyped DEF TypeOK, DropPending
  <2> QED BY <1>1, <2>1, <2>2, <2>3
<1>2. CASE \E l \in Links : LinkExpires(l)
  BY <1>2 DEF TypeOK, LinkExpires
<1>3. CASE LockExpires
  <2>1. user' \in Row
    BY <1>3 DEF TypeOK, LockExpires, Row
  <2> QED BY <1>3, <2>1 DEF TypeOK, LockExpires
<1>4. CASE \E p \in Policies : SetPolicy(p)
  BY <1>4 DEF TypeOK, SetPolicy
<1> QED BY <1>1, <1>2, <1>3, <1>4

LEMMA TypeStep == ASSUME TypeOK, ResetsNameLinks, [Next]_vars PROVE TypeOK' /\ ResetsNameLinks'
<1>1. TypeOK'
  <2>1. ASSUME NEW b \in Browsers, CommitReset(b) PROVE TypeOK'
    BY <2>1, ResetType DEF CommitReset, ResetsNameLinks
  <2>2. CASE UNCHANGED vars
    BY <2>2 DEF TypeOK, vars
  <2> QED
    BY <2>1, <2>2, ReadsType, LoginType, VerifiedType, SignInType, FailType, ChallengeType,
       ForgotType, ChangeType, RevokeType, CodesType, DisableType, SingleType
       DEF Next, Reads
<1>2. ResetsNameLinks'
  <2>1. ASSUME NEW b \in Browsers, Reads(b) PROVE ResetsNameLinks'
    BY <2>1, ReadsSubmit DEF ResetsNameLinks, Carries, TypeOK
  <2>2. ASSUME NEW b \in Browsers, NEW q, q.op # "reset", req' = [req EXCEPT ![b] = q]
        PROVE  ResetsNameLinks'
    BY <2>2 DEF ResetsNameLinks, TypeOK
  <2>3. Idle.op # "reset"
    BY DEF Idle
  <2>4. ASSUME NEW b \in Browsers,
               \/ CommitLogin(b) \/ CommitChallenge(b) \/ CommitChange(b) \/ CommitRevoke(b)
        PROVE  ResetsNameLinks'
    BY <2>4 DEF CommitLogin, CommitChallenge, CommitChange, CommitRevoke, ResetsNameLinks,
                TypeOK, Request
  <2>5. ASSUME NEW b \in Browsers, Verified(b) PROVE ResetsNameLinks'
    BY <2>2, <2>3, <2>5 DEF Verified, ResetsNameLinks, TypeOK, Request
  <2>6. ASSUME NEW b \in Browsers, req' = [req EXCEPT ![b] = Idle] PROVE ResetsNameLinks'
    BY <2>2, <2>3, <2>6
  <2>7. ASSUME req' = req PROVE ResetsNameLinks'
    BY <2>7 DEF ResetsNameLinks
  <2> QED
    BY <2>1, <2>4, <2>5, <2>6, <2>7
       DEF Next, Reads, SignIn, CommitFail, CommitReset, CommitDisable, CommitForgot,
           CommitCodes, Abandon, Logout, DropPending, LinkExpires, LockExpires, SetPolicy, vars
<1> QED BY <1>1, <1>2

(* The tables, cookies and requests keep their shape. *)
THEOREM TypeCorrect == Spec => [](TypeOK /\ ResetsNameLinks)
<1>1. Init => TypeOK /\ ResetsNameLinks
  BY InitType DEF Init, ResetsNameLinks, Idle
<1> QED BY <1>1, TypeStep, PTL DEF Spec

-----------------------------------------------------------------------------
(* Sessions end with their password. *)

(* Steps that leave the account, the cookies and the challenges alone. *)
LEMMA SessionsStill ==
  ASSUME TypeOK, EpochsBehind, SessionsFollowPassword,
         user'.epoch = user.epoch, user'.password = user.password,
         UNCHANGED <<cookie, pending>>, late \subseteq late'
  PROVE  EpochsBehind' /\ SessionsFollowPassword'
BY DEF EpochsBehind, SessionsFollowPassword

(* A new epoch leaves every cookie and challenge behind, unless the request
   was late. *)
LEMMA SessionsLeftBehind ==
  ASSUME TypeOK, EpochsBehind, NEW r \in Row,
         user'.epoch = r.epoch + 1,
         UNCHANGED <<cookie, pending>>, late \subseteq late',
         r.epoch # user.epoch => "epoch" \in late'
  PROVE  EpochsBehind' /\ SessionsFollowPassword'
<1>1. user.epoch \in Nat /\ r.epoch \in Nat
      /\ \A b \in Browsers : cookie[b].epoch \in Nat /\ pending[b].epoch \in Nat
  BY DEF TypeOK, Row, Pass
<1>2. CASE "epoch" \in late'
  BY <1>1, <1>2 DEF EpochsBehind, SessionsFollowPassword
<1>3. CASE "epoch" \notin late'
  <2>1. user'.epoch = user.epoch + 1 /\ "epoch" \notin late
    BY <1>3
  <2>2. \A b \in Browsers : cookie[b].epoch <= user.epoch /\ pending[b].epoch <= user.epoch
    BY <2>1 DEF EpochsBehind
  <2>3. \A b \in Browsers : cookie[b].epoch # user.epoch + 1
                            /\ pending[b].epoch # user.epoch + 1
    BY <1>1, <2>2
  <2>4. SessionsFollowPassword'
    BY <2>1, <2>3 DEF SessionsFollowPassword
  <2>5. EpochsBehind'
    BY <1>1, <2>1, <2>2 DEF EpochsBehind
  <2> QED BY <2>4, <2>5
<1> QED BY <1>2, <1>3

(* A browser that drops a cookie or a challenge changes nothing else. *)
LEMMA SessionsDropped ==
  ASSUME TypeOK, EpochsBehind, SessionsFollowPassword, NEW b \in Browsers,
         UNCHANGED <<user, late>>,
         cookie' \in {cookie, [cookie EXCEPT ![b] = NoPass]},
         pending' \in {pending, [pending EXCEPT ![b] = NoPass]}
  PROVE  EpochsBehind' /\ SessionsFollowPassword'
<1>1. user.epoch \in Nat /\ user.epoch # 0 /\ NoPass.epoch = 0
  BY DEF EpochsBehind, TypeOK, Row, NoPass
<1>2. \A x \in Browsers : cookie'[x] \in {cookie[x], NoPass} /\ pending'[x] \in {pending[x], NoPass}
  BY DEF TypeOK
<1>3. EpochsBehind'
  BY <1>1, <1>2 DEF EpochsBehind
<1>4. SessionsFollowPassword'
  BY <1>1, <1>2 DEF SessionsFollowPassword
<1> QED BY <1>3, <1>4

(* A browser that gets a cookie or a challenge gets the current epoch, and
   what it shows for it is the current password unless it was late. *)
LEMMA SessionsGiven ==
  ASSUME TypeOK, EpochsBehind, SessionsFollowPassword, NEW b \in Browsers, NEW pw \in Nat,
         UNCHANGED user,
         \/ /\ cookie' = [cookie EXCEPT ![b] = [epoch |-> user.epoch, password |-> pw]]
            /\ UNCHANGED pending
         \/ /\ pending' = [pending EXCEPT ![b] = [epoch |-> user.epoch, password |-> pw]]
            /\ UNCHANGED cookie,
         LateIf("password", pw # user.password)
  PROVE  EpochsBehind' /\ SessionsFollowPassword'
<1> DEFINE new == [epoch |-> user.epoch, password |-> pw]
<1>1. user.epoch \in Nat /\ new.epoch = user.epoch /\ new.password = pw
  BY DEF TypeOK, Row
<1>2. \A x \in Browsers : cookie'[x] \in {cookie[x], new} /\ pending'[x] \in {pending[x], new}
  BY DEF TypeOK
<1>3. late' \subseteq late \union {"password"} /\ late \subseteq late'
      /\ ("password" \notin late' => pw = user.password)
  BY DEF LateIf
<1>4. EpochsBehind'
  BY <1>1, <1>2, <1>3 DEF EpochsBehind
<1>5. SessionsFollowPassword'
  BY <1>1, <1>2, <1>3 DEF SessionsFollowPassword
<1> QED BY <1>4, <1>5

LEMMA SessionsStep ==
  ASSUME TypeOK, EpochsBehind, SessionsFollowPassword, [Next]_vars
  PROVE  EpochsBehind' /\ SessionsFollowPassword'
<1> DEFINE Goal == EpochsBehind' /\ SessionsFollowPassword'
<1>0. user \in Row /\ chosen \in Nat /\ \A b \in Browsers : req[b].row \in Row
      /\ req[b].row.password \in Nat
  BY DEF TypeOK, Request, Row
<1>1. ASSUME NEW b \in Browsers, Reads(b) PROVE Goal
  BY <1>1, ReadsSubmit, SessionsStill
<1>2. ASSUME NEW b \in Browsers, CommitLogin(b) PROVE Goal
  <2> DEFINE r == req[b].row
  <2>1. ClearLockout(user, r) \in Row /\ r \in Row
    BY <1>0, MethodsTyped
  <2>2. user'.epoch = user.epoch
        /\ user'.password = (IF r.old THEN r.password ELSE user.password)
    BY <1>0, <1>2, <2>1, MethodsEffect DEF CommitLogin
  <2>3. late \subseteq late' /\ UNCHANGED <<cookie, pending>>
        /\ (r.old /\ r.password # user.password => "password" \in late')
    BY <1>2 DEF CommitLogin, LateIn
  <2>4. CASE "password" \in late'
    BY <2>2, <2>3, <2>4 DEF EpochsBehind, SessionsFollowPassword
  <2>5. CASE "password" \notin late'
    BY <2>2, <2>3, <2>5, SessionsStill
  <2> QED BY <2>4, <2>5
<1>3. ASSUME NEW b \in Browsers, Verified(b) PROVE Goal
  <2>1. CASE user.mfa
    BY <1>0, <1>3, <2>1, SessionsGiven DEF Verified
  <2>2. CASE ~user.mfa
    BY <1>3, <2>2, SessionsStill DEF Verified
  <2> QED BY <2>1, <2>2
<1>4. ASSUME NEW b \in Browsers, SignIn(b) PROVE Goal
  BY <1>0, <1>4, SessionsGiven DEF SignIn
<1>5. ASSUME NEW b \in Browsers, CommitFail(b) PROVE Goal
  <2>1. user'.epoch = user.epoch /\ user'.password = user.password
    BY <1>0, <1>5, MethodsEffect DEF CommitFail
  <2>2. late \subseteq late' /\ cookie' = cookie
        /\ pending' \in {pending, [pending EXCEPT ![b] = NoPass]}
        /\ late' \subseteq late \union {"failed"}
    BY <1>5 DEF CommitFail, LateIf
  <2>3. \A x \in Browsers : pending'[x] \in {pending[x], NoPass}
    BY <2>2 DEF TypeOK
  <2>4. user.epoch \in Nat /\ user.epoch # 0 /\ NoPass.epoch = 0
    BY DEF EpochsBehind, TypeOK, Row, NoPass
  <2>5. EpochsBehind'
    BY <2>1, <2>2, <2>3, <2>4 DEF EpochsBehind
  <2>6. SessionsFollowPassword'
    BY <2>1, <2>2, <2>3, <2>4 DEF SessionsFollowPassword
  <2> QED BY <2>5, <2>6
<1>6. ASSUME NEW b \in Browsers, CommitChallenge(b) PROVE Goal
  <2>1. ConsumeCode(user, req[b]) \in Row
        /\ ConsumeCode(user, req[b]).epoch = user.epoch
        /\ ConsumeCode(user, req[b]).password = user.password
    BY <1>0 DEF ConsumeCode, Row
  <2>2. user'.epoch = user.epoch /\ user'.password = user.password
    BY <1>0, <1>6, <2>1, MethodsEffect DEF CommitChallenge
  <2>3. late \subseteq late' /\ cookie' = cookie /\ pending' = [pending EXCEPT ![b] = NoPass]
        /\ late' \subseteq late \union {"failed", "codes"}
    BY <1>6 DEF CommitChallenge, LateIn
  <2>4. \A x \in Browsers : pending'[x] \in {pending[x], NoPass}
    BY <2>3 DEF TypeOK
  <2>5. user.epoch \in Nat /\ user.epoch # 0 /\ NoPass.epoch = 0
    BY DEF EpochsBehind, TypeOK, Row, NoPass
  <2>6. EpochsBehind'
    BY <2>2, <2>3, <2>4, <2>5 DEF EpochsBehind
  <2>7. SessionsFollowPassword'
    BY <2>2, <2>3, <2>4, <2>5 DEF SessionsFollowPassword
  <2> QED BY <2>6, <2>7
<1>7. ASSUME NEW b \in Browsers, CommitReset(b) \/ CommitChange(b) \/ CommitRevoke(b) PROVE Goal
  <2>1. user'.epoch = req[b].row.epoch + 1
    BY <1>0, <1>7, MethodsEffect DEF CommitReset, CommitChange, CommitRevoke
  <2>2. UNCHANGED <<cookie, pending>> /\ late \subseteq late'
        /\ (req[b].row.epoch # user.epoch => "epoch" \in late')
    BY <1>7 DEF CommitReset, CommitChange, CommitRevoke, LateIn, LateIf
  <2> QED BY <1>0, <2>1, <2>2, SessionsLeftBehind
<1>8. ASSUME NEW b \in Browsers, NEW l \in Links, CommitForgot(b, l) PROVE Goal
  BY <1>8, SessionsStill DEF CommitForgot, LateIf
<1>9. ASSUME NEW b \in Browsers, NEW new \in SUBSET Codes, CommitCodes(b, new) PROVE Goal
  <2>1. user'.epoch = user.epoch /\ user'.password = user.password
    BY <1>0, <1>9 DEF CommitCodes, Row
  <2> QED BY <1>9, <2>1, SessionsStill DEF CommitCodes
<1>10. ASSUME NEW b \in Browsers, CommitDisable(b) PROVE Goal
  <2>1. user'.epoch = user.epoch /\ user'.password = user.password
    BY <1>0, <1>10 DEF CommitDisable, Row
  <2> QED BY <1>10, <2>1, SessionsStill DEF CommitDisable
<1>11. ASSUME NEW b \in Browsers, Abandon(b) PROVE Goal
  BY <1>11, SessionsStill DEF Abandon
<1>12. ASSUME NEW b \in Browsers, Logout(b) \/ DropPending(b) PROVE Goal
  BY <1>12, SessionsDropped DEF Logout, DropPending
<1>13. CASE LockExpires
  <2>1. user'.epoch = user.epoch /\ user'.password = user.password
    BY <1>0, <1>13 DEF LockExpires, Row
  <2> QED BY <1>13, <2>1, SessionsStill DEF LockExpires
<1>14. CASE (\E l \in Links : LinkExpires(l)) \/ (\E p \in Policies : SetPolicy(p)) \/ UNCHANGED vars
  BY <1>14, SessionsStill DEF LinkExpires, SetPolicy, vars
<1> QED
  BY <1>1, <1>2, <1>3, <1>4, <1>5, <1>6, <1>7, <1>8, <1>9, <1>10, <1>11, <1>12, <1>13, <1>14
     DEF Next, Reads

SessionInv == TypeOK /\ ResetsNameLinks /\ EpochsBehind /\ SessionsFollowPassword

LEMMA SessionsAlways == Spec => []SessionInv
<1>1. Init => SessionInv
  <2> SUFFICES ASSUME Init PROVE SessionInv
    OBVIOUS
  <2>1. TypeOK /\ ResetsNameLinks
    BY InitType DEF Init, ResetsNameLinks, Idle
  <2>2. user.epoch = 1 /\ cookie = [b \in Browsers |-> NoPass]
        /\ pending = [b \in Browsers |-> NoPass] /\ NoPass.epoch = 0
    BY DEF Init, NoPass
  <2> QED BY <2>1, <2>2 DEF SessionInv, EpochsBehind, SessionsFollowPassword
<1>2. SessionInv /\ [Next]_vars => SessionInv'
  BY TypeStep, SessionsStep DEF SessionInv
<1> QED BY <1>1, <1>2, PTL DEF Spec

(* No cookie and no challenge obtained with an earlier password counts: user_loader
   and _pending_user compare epochs only, and that is enough, as long as nobody
   wrote an epoch or used a password that had changed since it was read. *)
THEOREM SessionsEndWithPassword == Spec => []SessionsFollowPassword
<1>1. SessionInv => SessionsFollowPassword
  BY DEF SessionInv
<1> QED BY <1>1, SessionsAlways, PTL

(* Only its own commit moves a request of browser b that is about to revoke,
   and changes the account. *)
LEMMA RevokersCommit ==
  ASSUME TypeOK, NEW b \in Browsers, [Next]_vars,
         req[b].op \in {"reset", "change", "revoke"}, user' # user, req'[b] # req[b]
  PROVE  CommitReset(b) \/ CommitChange(b) \/ CommitRevoke(b)
<1>1. ASSUME NEW x \in Browsers, CommitLogin(x) \/ CommitFail(x) \/ CommitChallenge(x)
                                 \/ CommitReset(x) \/ CommitChange(x) \/ CommitRevoke(x)
                                 \/ CommitDisable(x)
                                 \/ \E new \in SUBSET Codes : CommitCodes(x, new)
      PROVE  x = b
  BY <1>1 DEF TypeOK, CommitLogin, CommitFail, CommitChallenge, CommitReset, CommitChange,
              CommitRevoke, CommitDisable, CommitCodes
<1>2. ASSUME NEW x \in Browsers, Reads(x) \/ Verified(x) \/ SignIn(x) \/ Abandon(x) \/ Logout(x)
                                 \/ DropPending(x) \/ \E l \in Links : CommitForgot(x, l)
      PROVE  FALSE
  BY <1>2, ReadsSubmit DEF Verified, SignIn, Abandon, Logout, DropPending, CommitForgot
<1>3. ~((\E l \in Links : LinkExpires(l)) \/ LockExpires \/ (\E p \in Policies : SetPolicy(p))
        \/ UNCHANGED vars)
  BY DEF LinkExpires, LockExpires, SetPolicy, vars
<1>4. ~(CommitLogin(b) \/ CommitFail(b) \/ CommitChallenge(b) \/ CommitDisable(b)
        \/ \E new \in SUBSET Codes : CommitCodes(b, new))
  BY DEF CommitLogin, CommitFail, CommitChallenge, CommitDisable, CommitCodes
<1> QED BY <1>1, <1>2, <1>3, <1>4 DEF Next, Reads

(* Whoever revokes the sessions with a current reading of the epoch leaves no
   browser signed in and no challenge to continue. *)
THEOREM RevocationsReach == Spec => RevocationReaches
<1>1. ASSUME SessionInv, [Next]_vars, NEW b \in Browsers,
             req[b].op \in {"reset", "change", "revoke"}, user' # user, req'[b] # req[b],
             req[b].row.epoch = user.epoch, "epoch" \notin late, NEW x \in Browsers
      PROVE  user'.epoch \notin {cookie'[x].epoch, pending'[x].epoch}
  <2>1. CommitReset(b) \/ CommitChange(b) \/ CommitRevoke(b)
    BY <1>1, RevokersCommit DEF SessionInv
  <2>2. user \in Row /\ req[b].row \in Row /\ chosen \in Nat
    BY <1>1 DEF SessionInv, TypeOK, Request
  <2>3. user'.epoch = user.epoch + 1 /\ UNCHANGED <<cookie, pending>>
    BY <1>1, <2>1, <2>2, MethodsEffect DEF CommitReset, CommitChange, CommitRevoke
  <2>4. user.epoch \in Nat /\ cookie[x].epoch \in Nat /\ pending[x].epoch \in Nat
    BY <1>1, <2>2 DEF SessionInv, TypeOK, Row, Pass
  <2>5. cookie[x].epoch <= user.epoch /\ pending[x].epoch <= user.epoch
    BY <1>1 DEF SessionInv, EpochsBehind
  <2> QED BY <2>3, <2>4, <2>5
<1>2. SessionInv /\ [Next]_vars =>
        [\A b \in Browsers :
           /\ req[b].op \in {"reset", "change", "revoke"}
           /\ user' # user /\ req'[b] # req[b]
           /\ req[b].row.epoch = user.epoch /\ "epoch" \notin late
           => \A x \in Browsers : user'.epoch \notin {cookie'[x].epoch, pending'[x].epoch}]_vars
  BY <1>1
<1> QED BY <1>2, SessionsAlways, PTL DEF Spec, RevocationReaches

-----------------------------------------------------------------------------
(* Recovery codes. *)

LEMMA CodesStep ==
  ASSUME TypeOK, CodesKnown, CodesServeOnce, [Next]_vars
  PROVE  CodesKnown' /\ CodesServeOnce'
<1> DEFINE Goal == CodesKnown' /\ CodesServeOnce'
<1>0. user \in Row /\ chosen \in Nat /\ \A b \in Browsers : req[b].row \in Row
      /\ req[b].row.password \in Nat
  BY DEF TypeOK, Request, Row
<1>1. ASSUME NEW b \in Browsers, Reads(b) PROVE Goal
  <2>1. PICK q : Carries(q) /\ req' = [req EXCEPT ![b] = q]
    BY <1>1, ReadsSubmit
  <2>2. UNCHANGED <<user, used, issued, late>>
    BY <1>1, ReadsSubmit
  <2> QED BY <2>1, <2>2 DEF CodesKnown, CodesServeOnce, Carries, TypeOK
<1>2. ASSUME user'.codes = user.codes, UNCHANGED <<used, issued>>, late \subseteq late',
             \A b \in Browsers : /\ req'[b].code \in {req[b].code, None}
                                 /\ req'[b].row.codes \subseteq req[b].row.codes
      PROVE  Goal
  BY <1>2 DEF CodesKnown, CodesServeOnce
<1>3. Idle.code = None /\ Idle.row.codes = {}
  BY DEF Idle, NoRow
<1>4. ASSUME NEW b \in Browsers, req' = [req EXCEPT ![b] = Idle]
      PROVE  \A x \in Browsers : /\ req'[x].code \in {req[x].code, None}
                                 /\ req'[x].row.codes \subseteq req[x].row.codes
  BY <1>3, <1>4 DEF TypeOK
<1>5. ASSUME NEW b \in Browsers, CommitLogin(b) \/ CommitChange(b) \/ CommitRevoke(b) PROVE Goal
  <2>1. user'.codes = user.codes
    <3>1. CASE CommitLogin(b)
      <4>1. ClearLockout(user, req[b].row) \in Row
        BY <1>0, MethodsTyped
      <4> QED BY <1>0, <3>1, <4>1, MethodsEffect DEF CommitLogin
    <3>2. CASE CommitChange(b) \/ CommitRevoke(b)
      BY <1>0, <3>2, MethodsEffect DEF CommitChange, CommitRevoke
    <3> QED BY <1>5, <3>1, <3>2
  <2>2. \A p \in Nat : Checked(p).codes = {}
    BY <1>0, ReadingsTyped
  <2>3. PICK p \in Nat, op \in {"verified", "signin"} :
          req' = [req EXCEPT ![b].op = op, ![b].row = Checked(p)]
    <3>1. chosen + 1 \in Nat
      BY <1>0
    <3>2. CASE CommitLogin(b)
      BY <1>0, <3>2 DEF CommitLogin
    <3>3. CASE CommitChange(b)
      BY <3>1, <3>3 DEF CommitChange
    <3>4. CASE CommitRevoke(b)
      <4>1. req' = [req EXCEPT ![b].op = "signin", ![b].row = Checked(req[b].row.password)]
        BY <3>4 DEF CommitRevoke, TypeOK, Request
      <4> QED BY <1>0, <4>1
    <3> QED BY <1>5, <3>2, <3>3, <3>4
  <2>4. \A x \in Browsers : /\ req'[x].code \in {req[x].code, None}
                            /\ req'[x].row.codes \subseteq req[x].row.codes
    BY <2>2, <2>3 DEF TypeOK, Request
  <2> QED BY <1>2, <1>5, <2>1, <2>4 DEF CommitLogin, CommitChange, CommitRevoke, LateIn, LateIf
<1>6. ASSUME NEW b \in Browsers, Verified(b) PROVE Goal
  <2>1. CASE req' = [req EXCEPT ![b] = Idle]
    BY <1>2, <1>4, <1>6, <2>1 DEF Verified, LateIf
  <2>2. CASE req' = [req EXCEPT ![b].op = "signin"]
    BY <1>2, <1>6, <2>2 DEF Verified, LateIf, TypeOK, Request
  <2> QED BY <1>6, <2>1, <2>2 DEF Verified
<1>7. ASSUME NEW b \in Browsers, SignIn(b) \/ CommitFail(b) \/ CommitReset(b) \/ Abandon(b)
                                 \/ \E l \in Links : CommitForgot(b, l)
      PROVE  Goal
  <2>1. user'.codes = user.codes
    BY <1>0, <1>7, MethodsEffect DEF SignIn, CommitFail, CommitReset, Abandon, CommitForgot
  <2>2. UNCHANGED <<used, issued>> /\ late \subseteq late' /\ req' = [req EXCEPT ![b] = Idle]
    BY <1>7 DEF SignIn, CommitFail, CommitReset, Abandon, CommitForgot, LateIn, LateIf
  <2> QED BY <1>2, <1>4, <2>1, <2>2
<1>8. ASSUME NEW b \in Browsers, CommitChallenge(b) PROVE Goal
  <2> DEFINE q == req[b]
  <2>1. ConsumeCode(user, q) \in Row
        /\ ConsumeCode(user, q).codes =
             (IF q.code = None THEN user.codes ELSE q.row.codes \ {q.code})
    BY <1>0 DEF ConsumeCode, Row
  <2>2. user'.codes = (IF q.code = None THEN user.codes ELSE q.row.codes \ {q.code})
    BY <1>0, <1>8, <2>1, MethodsEffect DEF CommitChallenge
  <2>3. used' = used \union ({q.code} \ {None}) /\ issued' = issued /\ late \subseteq late'
        /\ (q.code # None /\ q.row.codes # user.codes => "codes" \in late')
    BY <1>8 DEF CommitChallenge, LateIn
  <2>4. Checked(q.row.password).codes = {}
    BY <1>0, ReadingsTyped
  <2>5. \A x \in Browsers : /\ req'[x].code \in {req[x].code, None}
                            /\ req'[x].row.codes \subseteq req[x].row.codes
    BY <1>8, <2>4 DEF CommitChallenge, TypeOK, Request
  <2>6. CodesKnown'
    BY <2>2, <2>3, <2>5 DEF CodesKnown
  <2>7. CodesServeOnce'
    BY <2>2, <2>3 DEF CodesServeOnce
  <2> QED BY <2>6, <2>7
<1>9. ASSUME NEW b \in Browsers, NEW new \in SUBSET Codes, CommitCodes(b, new) PROVE Goal
  <2>1. user'.codes = new /\ issued' = issued \union new /\ used' = used /\ late' = late
        /\ new \cap issued = {} /\ req' = [req EXCEPT ![b] = Idle]
    BY <1>0, <1>9 DEF CommitCodes, Row
  <2>2. \A x \in Browsers : /\ req'[x].code \in {req[x].code, None}
                            /\ req'[x].row.codes \subseteq req[x].row.codes
    BY <1>4, <2>1
  <2> QED BY <2>1, <2>2 DEF CodesKnown, CodesServeOnce
<1>10. ASSUME NEW b \in Browsers, CommitDisable(b) PROVE Goal
  <2>1. user'.codes \subseteq user.codes /\ UNCHANGED <<issued, used, late>>
        /\ req' = [req EXCEPT ![b] = Idle]
    BY <1>0, <1>10 DEF CommitDisable, Row
  <2>2. \A x \in Browsers : /\ req'[x].code \in {req[x].code, None}
                            /\ req'[x].row.codes \subseteq req[x].row.codes
    BY <1>4, <2>1
  <2> QED BY <2>1, <2>2 DEF CodesKnown, CodesServeOnce
<1>11. CASE LockExpires
  <2>1. user'.codes = user.codes
    BY <1>0, <1>11 DEF LockExpires, Row
  <2> QED BY <1>2, <1>11, <2>1 DEF LockExpires
<1>12. ASSUME \/ \E b \in Browsers : Logout(b) \/ DropPending(b)
              \/ \E l \in Links : LinkExpires(l)
              \/ \E p \in Policies : SetPolicy(p)
              \/ UNCHANGED vars
       PROVE  Goal
  BY <1>2, <1>12 DEF Logout, DropPending, LinkExpires, SetPolicy, vars
<1> QED
  BY <1>1, <1>5, <1>6, <1>7, <1>8, <1>9, <1>10, <1>11, <1>12 DEF Next, Reads

(* A recovery code that has signed somebody in is never listed again, unless
   a challenge stored what is left of a list that had changed. *)
THEOREM RecoveryCodesServeOnce == Spec => []CodesServeOnce
<1> DEFINE I == TypeOK /\ ResetsNameLinks /\ CodesKnown /\ CodesServeOnce
<1>1. Init => I
  <2> SUFFICES ASSUME Init PROVE I
    OBVIOUS
  <2>1. user.codes = issued
    BY DEF Init
  <2> QED BY <2>1, InitType DEF Init, ResetsNameLinks, CodesKnown, CodesServeOnce, Idle, NoRow
<1>2. I /\ [Next]_vars => I'
  BY TypeStep, CodesStep
<1> QED BY <1>1, <1>2, PTL DEF Spec

-----------------------------------------------------------------------------
(* Reset links. *)

LEMMA LinksStep ==
  ASSUME TypeOK, ResetsNameLinks, OneLinkWorks, [Next]_vars
  PROVE  OneLinkWorks'
<1>1. ASSUME UNCHANGED <<link, spent>>, late \subseteq late' PROVE OneLinkWorks'
  BY <1>1 DEF OneLinkWorks
<1>2. ASSUME NEW b \in Browsers, NEW l \in Links, CommitForgot(b, l) PROVE OneLinkWorks'
  <2>1. CASE "links" \in late'
    BY <2>1 DEF OneLinkWorks
  <2>2. CASE "links" \notin late'
    <3>1. "links" \notin late /\ req[b].links = Open
      BY <1>2, <2>2 DEF CommitForgot, LateIf
    <3>2. \A m \in Links : link'[m] = "open" => m = l
      BY <1>2, <3>1 DEF CommitForgot, Open
    <3>3. \A m \in spent : link[m] = "dead" /\ m \in Links
      BY <3>1 DEF OneLinkWorks, TypeOK
    <3>4. \A m \in spent' : link'[m] = "dead"
      BY <1>2, <3>3 DEF CommitForgot
    <3> QED BY <3>2, <3>4 DEF OneLinkWorks
  <2> QED BY <2>1, <2>2
<1>3. ASSUME NEW b \in Browsers, CommitReset(b) PROVE OneLinkWorks'
  <2>1. req[b].link \in Links /\ late \subseteq late'
        /\ link' = [link EXCEPT ![req[b].link] = "dead"]
        /\ spent' = spent \union {req[b].link}
    BY <1>3 DEF CommitReset, ResetsNameLinks, LateIn
  <2> QED BY <2>1 DEF OneLinkWorks, TypeOK
<1>4. ASSUME NEW l \in Links, LinkExpires(l) PROVE OneLinkWorks'
  BY <1>4 DEF LinkExpires, OneLinkWorks, TypeOK
<1>5. ASSUME NEW b \in Browsers, Reads(b) PROVE OneLinkWorks'
  BY <1>1, <1>5, ReadsSubmit
<1> QED
  BY <1>1, <1>2, <1>3, <1>4, <1>5
     DEF Next, Reads, CommitLogin, Verified, SignIn, CommitFail, CommitChallenge, CommitChange,
         CommitRevoke, CommitDisable, CommitCodes, Abandon, Logout, DropPending, LockExpires,
         SetPolicy, vars, LateIn, LateIf

(* At most one reset link works at any time, and none that has set a password,
   unless two requests had read the same links. *)
THEOREM NewestLinkOnly == Spec => []OneLinkWorks
<1> DEFINE I == TypeOK /\ ResetsNameLinks /\ OneLinkWorks
<1>1. Init => I
  BY InitType DEF Init, ResetsNameLinks, OneLinkWorks, Idle
<1>2. I /\ [Next]_vars => I'
  BY TypeStep, LinksStep
<1> QED BY <1>1, <1>2, PTL DEF Spec

-----------------------------------------------------------------------------
(* The lockout. *)

LEMMA FailuresStep ==
  ASSUME TypeOK, FailuresExact, [Next]_vars
  PROVE  FailuresExact'
<1>0. user \in Row /\ chosen \in Nat /\ missed \in Nat /\ MaxAttempts \in Nat \ {0}
      /\ \A b \in Browsers : req[b].row \in Row
  BY AccountsAssumption DEF TypeOK, Request
<1>1. ASSUME user'.failed = user.failed, user'.lock = user.lock, missed' = missed,
             late \subseteq late'
      PROVE  FailuresExact'
  BY <1>1 DEF FailuresExact
(* Every request that clears the lockout writes a zero over what it read. *)
<1>2. ASSUME NEW r \in Row,
             user'.failed = (IF r.failed = 0 THEN user.failed ELSE 0),
             user'.lock = (IF r.lock = "none" THEN user.lock ELSE "none"),
             missed' = Missed(user'), late \subseteq late',
             LockoutMoved(r) => "failed" \in late'
      PROVE  FailuresExact'
  <2>1. CASE "failed" \in late'
    BY <2>1 DEF FailuresExact
  <2>2. CASE "failed" \notin late'
    <3>1. r.failed = user.failed /\ user'.failed = 0 /\ missed' = 0
      BY <1>2, <2>2 DEF LockoutMoved, Missed
    <3> QED BY <1>0, <3>1 DEF FailuresExact
  <2> QED BY <2>1, <2>2
<1>3. ASSUME NEW b \in Browsers, CommitLogin(b) PROVE FailuresExact'
  <2> DEFINE r == req[b].row
  <2>1. ClearLockout(user, r) \in Row /\ r \in Row
    BY <1>0, MethodsTyped
  <2>2. user'.failed = (IF r.failed = 0 THEN user.failed ELSE 0)
        /\ user'.lock = (IF r.lock = "none" THEN user.lock ELSE "none")
    BY <1>0, <1>3, <2>1, MethodsEffect DEF CommitLogin
  <2>3. missed' = Missed(user') /\ late \subseteq late' /\ (LockoutMoved(r) => "failed" \in late')
    BY <1>3 DEF CommitLogin, LateIn
  <2> QED BY <1>2, <2>1, <2>2, <2>3
<1>4. ASSUME NEW b \in Browsers, CommitReset(b) \/ CommitChange(b) PROVE FailuresExact'
  <2> DEFINE r == req[b].row
  <2>1. r \in Row
        /\ user'.failed = (IF r.failed = 0 THEN user.failed ELSE 0)
        /\ user'.lock = (IF r.lock = "none" THEN user.lock ELSE "none")
    BY <1>0, <1>4, MethodsEffect DEF CommitReset, CommitChange
  <2>2. missed' = Missed(user') /\ late \subseteq late' /\ (LockoutMoved(r) => "failed" \in late')
    BY <1>4 DEF CommitReset, CommitChange, LateIn
  <2> QED BY <1>2, <2>1, <2>2
<1>5. ASSUME NEW b \in Browsers, CommitChallenge(b) PROVE FailuresExact'
  <2> DEFINE q == req[b]
             r == q.row
  <2>1. ConsumeCode(user, q) \in Row
        /\ ConsumeCode(user, q).failed = user.failed /\ ConsumeCode(user, q).lock = user.lock
    BY <1>0 DEF ConsumeCode, Row
  <2>2. r \in Row
        /\ user'.failed = (IF r.failed = 0 THEN user.failed ELSE 0)
        /\ user'.lock = (IF r.lock = "none" THEN user.lock ELSE "none")
    BY <1>0, <1>5, <2>1, MethodsEffect DEF CommitChallenge
  <2>3. missed' = Missed(user') /\ late \subseteq late' /\ (LockoutMoved(r) => "failed" \in late')
    BY <1>5 DEF CommitChallenge, LateIn
  <2> QED BY <1>2, <2>2, <2>3
<1>6. ASSUME NEW b \in Browsers, CommitFail(b) PROVE FailuresExact'
  <2> DEFINE r == req[b].row
  <2>1. user'.failed = r.failed + 1 /\ missed' = missed + 1
        /\ user'.lock = (IF r.failed + 1 >= MaxAttempts THEN "on" ELSE user.lock)
    BY <1>0, <1>6, MethodsEffect DEF CommitFail
  <2>2. late \subseteq late' /\ ("failed" \notin late' => r.failed = user.failed)
    BY <1>6 DEF CommitFail, LateIf, LockoutMoved
  <2> QED BY <2>1, <2>2 DEF FailuresExact
<1>7. ASSUME NEW b \in Browsers, CommitRevoke(b) PROVE FailuresExact'
  <2>1. user'.failed = user.failed /\ user'.lock = user.lock
    BY <1>0, <1>7, MethodsEffect DEF CommitRevoke
  <2> QED BY <1>1, <1>7, <2>1 DEF CommitRevoke, LateIf
<1>8. ASSUME \E b \in Browsers : CommitDisable(b) \/ \E new \in SUBSET Codes : CommitCodes(b, new)
      PROVE  FailuresExact'
  <2>1. user'.failed = user.failed /\ user'.lock = user.lock
    BY <1>0, <1>8 DEF CommitDisable, CommitCodes, Row
  <2> QED BY <1>1, <1>8, <2>1 DEF CommitDisable, CommitCodes
<1>9. CASE LockExpires
  <2>1. user'.failed = user.failed /\ user'.lock = "over" /\ missed' = missed /\ late' = late
    BY <1>0, <1>9 DEF LockExpires, Row
  <2> QED BY <2>1 DEF FailuresExact
<1>10. ASSUME NEW b \in Browsers, Reads(b) PROVE FailuresExact'
  BY <1>1, <1>10, ReadsSubmit
<1> QED
  BY <1>1, <1>3, <1>4, <1>5, <1>6, <1>7, <1>8, <1>9, <1>10
     DEF Next, Reads, Verified, SignIn, CommitForgot, Abandon, Logout, DropPending, LinkExpires,
         SetPolicy, vars, LateIn, LateIf

(* MaxAttempts failures since the lockout was cleared lock the account, unless
   two requests counted from the same number. *)
THEOREM FailuresLock == Spec => []LockoutReached
<1> DEFINE I == TypeOK /\ ResetsNameLinks /\ FailuresExact
<1>1. Init => I
  <2> SUFFICES ASSUME Init PROVE I
    OBVIOUS
  <2>1. user.failed = 0 /\ missed = 0 /\ MaxAttempts \in Nat \ {0}
    BY AccountsAssumption DEF Init
  <2> QED BY <2>1, InitType DEF Init, ResetsNameLinks, FailuresExact, Idle
<1>2. I /\ [Next]_vars => I'
  BY TypeStep, FailuresStep
<1>3. I => LockoutReached
  BY DEF FailuresExact, LockoutReached
<1> QED BY <1>1, <1>2, <1>3, PTL DEF Spec
=============================================================================
