------------------------------- MODULE Accounts -------------------------------
(***************************************************************************)
(* One account signing in from several browsers: passwords, reset links,   *)
(* the lockout, the second factor with its recovery codes, and session     *)
(* revocation (blueprints/auth/routes.py, blueprints/auth/mfa_routes.py,   *)
(* models/user.py, services/mfa.py, user_loader in __init__.py).           *)
(*                                                                         *)
(* A request reads the account's row (Submit...), decides, and commits     *)
(* later (Commit...): the new values are computed from the row it read and *)
(* written as they are.  After its commit a request that signs in reads    *)
(* the row once more (Verified, SignIn), since sessions expire their rows  *)
(* on commit.  No row of this table carries a version.                     *)
(***************************************************************************)
EXTENDS Naturals, FiniteSets

CONSTANTS
  Browsers,     (* each with its own cookie and at most one request        *)
  Links,        (* bound: reset links ever sent                            *)
  Codes,        (* bound: recovery codes ever generated                    *)
  MaxAttempts,  (* LOGIN_MAX_ATTEMPTS                                      *)
  MaxFailed,    (* bound: failed sign-ins counted                          *)
  MaxEpoch,     (* bound: session epochs and passwords                     *)
  Policies,     (* of "sso_only" and "require_mfa", those that change      *)
  None          (* no code, no link                                        *)

ASSUME AccountsAssumption ==
  /\ MaxAttempts \in Nat \ {0}
  /\ MaxFailed \in Nat /\ MaxEpoch \in Nat
  /\ Policies \subseteq {"sso_only", "require_mfa"}
  /\ None \notin Codes \union Links

VARIABLES
  user,     (* the row of table users                                      *)
  chosen,   (* passwords chosen so far: the newest one is number `chosen`  *)
  link,     (* table password_reset_tokens; "dead" once used or expired    *)
  policy,   (* the access policies of the person's organizations           *)
  cookie,   (* session cookies: the epoch in it, 0 for none                *)
  pending,  (* PENDING_MFA_KEY in each cookie: the epoch in it, 0 for none *)
  req,      (* the request each browser waits for                          *)
  issued,   (* recovery codes generated so far                             *)
  used,     (* history: recovery codes that signed somebody in             *)
  spent,    (* history: reset links that set a password                    *)
  missed,   (* history: failed sign-ins since the lockout was cleared      *)
  late      (* history: what some request acted on after it had changed    *)

vars == <<user, chosen, link, policy, cookie, pending, req, issued, used, spent, missed, late>>

(* `old` says the hash was made with outdated parameters; `lock` is "over"
   when locked_until lies in the past. *)
Row == [password : Nat, old : BOOLEAN, epoch : Nat, failed : Nat,
        lock : {"none", "on", "over"}, mfa : BOOLEAN, codes : SUBSET Codes]

NoRow == [password |-> 0, old |-> FALSE, epoch |-> 0, failed |-> 0,
          lock |-> "none", mfa |-> FALSE, codes |-> {}]

(* A cookie also remembers under which password it was obtained; the
   program does not. *)
Pass == [epoch : Nat, password : Nat]

NoPass == [epoch |-> 0, password |-> 0]

(* `row` holds what of the account as read the request will use, its password
   the one that was checked. *)
Request ==
  [op : {"idle", "login", "verified", "signin", "fail", "miss", "challenge", "forgot",
         "reset", "change", "revoke", "setup", "regenerate", "disable"},
   row : Row, code : Codes \union {None}, link : Links \union {None}, links : SUBSET Links]

Idle == [op |-> "idle", row |-> NoRow, code |-> None, link |-> None, links |-> {}]

(* The tables, the cookies and the requests. *)
TypeOK ==
  /\ user \in Row
  /\ chosen \in Nat
  /\ link \in [Links -> {"none", "open", "dead"}]
  /\ policy \subseteq Policies
  /\ cookie \in [Browsers -> Pass]
  /\ pending \in [Browsers -> Pass]
  /\ req \in [Browsers -> Request]
  /\ issued \subseteq Codes /\ used \subseteq Codes
  /\ spent \subseteq Links
  /\ missed \in Nat
  /\ late \subseteq {"password", "epoch", "codes", "links", "failed"}

Init ==
  /\ \E mfa \in BOOLEAN, old \in BOOLEAN, codes \in SUBSET Codes :
       /\ mfa <=> codes # {}
       /\ user = [password |-> 1, old |-> old, epoch |-> 1, failed |-> 0,
                  lock |-> "none", mfa |-> mfa, codes |-> codes]
       /\ issued = codes
  /\ chosen = 1
  /\ link = [l \in Links |-> "none"]
  /\ policy = {}
  /\ cookie = [b \in Browsers |-> NoPass]
  /\ pending = [b \in Browsers |-> NoPass]
  /\ req = [b \in Browsers |-> Idle]
  /\ used = {} /\ spent = {} /\ missed = 0 /\ late = {}

-----------------------------------------------------------------------------
(* What the program asks of the row it has just read. *)

(* user_loader *)
Authenticated(b) == cookie[b].epoch = user.epoch

(* _enforce_org_policy redirects all but the exempt pages. *)
Barred == "require_mfa" \in policy /\ ~user.mfa

(* _pending_user *)
PendingValid(b) == pending[b].epoch = user.epoch /\ user.mfa

(* What each request keeps of its reading. *)
Checked(p) == [NoRow EXCEPT !.password = p]
WithLockout(r) == [r EXCEPT !.failed = user.failed, !.lock = user.lock]
WithEpoch(r) == [r EXCEPT !.epoch = user.epoch]

Open == {l \in Links : link[l] = "open"}

(* What the methods of User make of the row `u`, for a request that read `r`:
   an attribute is written only if its value differs from the one read. *)

ClearLockout(u, r) ==
  [u EXCEPT !.failed = IF r.failed = 0 THEN @ ELSE 0,
            !.lock = IF r.lock = "none" THEN @ ELSE "none"]

(* Mutant: one attempt too many before the lock. *)
RegisterFailedLoginLate(u, r) ==
  [u EXCEPT !.failed = r.failed + 1,
            !.lock = IF r.failed + 1 > MaxAttempts THEN "on" ELSE @]

RegisterFailedLogin(u, r) ==
  [u EXCEPT !.failed = r.failed + 1,
            !.lock = IF r.failed + 1 >= MaxAttempts THEN "on" ELSE @]

(* Mutant: the epoch is written back as it was read. *)
RevokeSessionsNot(u, r) == [u EXCEPT !.epoch = r.epoch]

RevokeSessions(u, r) == [u EXCEPT !.epoch = r.epoch + 1]

(* Mutant: set_password forgets to revoke the sessions. *)
SetPasswordOnly(u, r) ==
  [ClearLockout(u, r) EXCEPT !.password = chosen + 1, !.old = FALSE]

SetPassword(u, r) ==
  [ClearLockout(RevokeSessions(u, r), r) EXCEPT !.password = chosen + 1, !.old = FALSE]

(* set_password(revoke_sessions=False) on the password just checked *)
Rehash(u, r) == IF r.old THEN [u EXCEPT !.password = r.password, !.old = FALSE] ELSE u

(* Mutant: the codes that remain are not stored. *)
ConsumeCodeKept(u, q) == [u EXCEPT !.codes = IF q.code = None THEN @ ELSE q.row.codes]

ConsumeCode(u, q) == [u EXCEPT !.codes = IF q.code = None THEN @ ELSE q.row.codes \ {q.code}]

(* Overtaken readings, for the history. *)
LateIf(what, overtaken) == late' = IF overtaken THEN late \union {what} ELSE late

LockoutMoved(r) == r.failed # user.failed \/ r.lock # user.lock

(* Several of them at once. *)
LateIn(overtaken) == late' = late \union overtaken

Missed(u) == IF u.failed = 0 THEN 0 ELSE missed

-----------------------------------------------------------------------------
(* A request arrives and reads. *)

Submit(b, op, row, code, l, ls) ==
  /\ req[b] = Idle
  /\ req' = [req EXCEPT ![b] = [op |-> op, row |-> row, code |-> code, link |-> l, links |-> ls]]
  /\ UNCHANGED <<user, chosen, link, policy, cookie, pending, issued, used, spent, missed, late>>

(* The right password; a locked account and "sso_only" refuse it. *)
SubmitLogin(b) ==
  /\ ~Authenticated(b) /\ user.lock # "on" /\ "sso_only" \notin policy
  /\ Submit(b, "login", [WithLockout(Checked(user.password)) EXCEPT !.old = user.old], None, None, {})

SubmitWrongPassword(b) ==
  /\ ~Authenticated(b) /\ user.lock # "on" /\ user.failed < MaxFailed
  /\ Submit(b, "fail", WithLockout(NoRow), None, None, {})

(* The identity provider vouches for the person; nothing read here is
   written back. *)
SubmitSso(b) == Submit(b, "signin", Checked(user.password), None, None, {})

SubmitForgot(b) == ~Authenticated(b) /\ Submit(b, "forgot", NoRow, None, None, Open)

SubmitReset(b, l) ==
  /\ link[l] = "open" /\ user.epoch < MaxEpoch
  /\ Submit(b, "reset", WithLockout(WithEpoch(NoRow)), None, l, {})

(* /profile with the current password *)
SubmitChange(b) ==
  /\ Authenticated(b) /\ user.epoch < MaxEpoch
  /\ Submit(b, "change", WithLockout(WithEpoch(NoRow)), None, None, {})

SubmitRevoke(b) ==
  /\ Authenticated(b) /\ ~Barred /\ user.epoch < MaxEpoch
  /\ Submit(b, "revoke", WithEpoch(Checked(user.password)), None, None, {})

(* A code of the authenticator (None) or one of the recovery codes. *)
SubmitChallenge(b) ==
  /\ ~Authenticated(b) /\ PendingValid(b)
  /\ \E c \in user.codes \union {None} :
       Submit(b, "challenge", [WithLockout(Checked(pending[b].password))
                                 EXCEPT !.codes = IF c = None THEN {} ELSE user.codes], c, None, {})

SubmitWrongCode(b) ==
  /\ ~Authenticated(b) /\ PendingValid(b) /\ user.failed < MaxFailed
  /\ Submit(b, "miss", WithLockout(NoRow), None, None, {})

SubmitSetup(b) == Authenticated(b) /\ ~user.mfa /\ Submit(b, "setup", NoRow, None, None, {})

SubmitRegenerate(b) ==
  Authenticated(b) /\ user.mfa /\ Submit(b, "regenerate", NoRow, None, None, {})

SubmitDisable(b) ==
  /\ Authenticated(b) /\ user.mfa /\ "require_mfa" \notin policy
  /\ Submit(b, "disable", [NoRow EXCEPT !.codes = user.codes], None, None, {})

-----------------------------------------------------------------------------
(* The request commits. *)

CommitLogin(b) ==
  LET r == req[b].row IN
  /\ req[b].op = "login"
  /\ user' = Rehash(ClearLockout(user, r), r)
  /\ missed' = Missed(user')
  /\ LateIn((IF LockoutMoved(r) THEN {"failed"} ELSE {}) \union
            (IF r.old /\ r.password # user.password THEN {"password"} ELSE {}))
  /\ req' = [req EXCEPT ![b].op = "verified", ![b].row = Checked(r.password)]
  /\ UNCHANGED <<chosen, link, policy, cookie, pending, issued, used, spent>>

(* With a second factor configured the login only starts a challenge. *)
Verified(b) ==
  /\ req[b].op = "verified"
  /\ \/ /\ user.mfa
        /\ pending' = [pending EXCEPT ![b] = [epoch |-> user.epoch,
                                              password |-> req[b].row.password]]
        /\ req' = [req EXCEPT ![b] = Idle]
        /\ LateIf("password", req[b].row.password # user.password)
     \/ /\ ~user.mfa
        /\ req' = [req EXCEPT ![b].op = "signin"]
        /\ UNCHANGED <<pending, late>>
  /\ UNCHANGED <<user, chosen, link, policy, cookie, issued, used, spent, missed>>

(* login_user: the cookie gets the epoch the row has now. *)
SignIn(b) ==
  /\ req[b].op = "signin"
  /\ cookie' = [cookie EXCEPT ![b] = [epoch |-> user.epoch, password |-> req[b].row.password]]
  /\ req' = [req EXCEPT ![b] = Idle]
  /\ LateIf("password", req[b].row.password # user.password)
  /\ UNCHANGED <<user, chosen, link, policy, pending, issued, used, spent, missed>>

(* A wrong password, or a wrong code: the code that locks the account also
   ends its challenge. *)
CommitFail(b) ==
  LET r == req[b].row IN
  /\ req[b].op \in {"fail", "miss"}
  /\ user' = RegisterFailedLogin(user, r)
  /\ missed' = missed + 1
  /\ LateIf("failed", LockoutMoved(r))
  /\ pending' = IF req[b].op = "miss" /\ r.failed + 1 >= MaxAttempts
                THEN [pending EXCEPT ![b] = NoPass] ELSE pending
  /\ req' = [req EXCEPT ![b] = Idle]
  /\ UNCHANGED <<chosen, link, policy, cookie, issued, used, spent>>

CommitChallenge(b) ==
  LET q == req[b] IN
  /\ q.op = "challenge"
  /\ user' = ClearLockout(ConsumeCode(user, q), q.row)
  /\ used' = used \union ({q.code} \ {None})
  /\ missed' = Missed(user')
  /\ LateIn((IF LockoutMoved(q.row) THEN {"failed"} ELSE {}) \union
            (IF q.code # None /\ q.row.codes # user.codes THEN {"codes"} ELSE {}))
  /\ pending' = [pending EXCEPT ![b] = NoPass]
  /\ req' = [req EXCEPT ![b].op = "signin", ![b].row = Checked(q.row.password), ![b].code = None]
  /\ UNCHANGED <<chosen, link, policy, cookie, issued, spent>>

(* Mutant: the links sent before stay usable. *)
CommitForgotKeepsOthers(b, l) ==
  /\ req[b].op = "forgot" /\ link[l] = "none"
  /\ link' = [link EXCEPT ![l] = "open"]
  /\ LateIf("links", req[b].links # Open)
  /\ req' = [req EXCEPT ![b] = Idle]
  /\ UNCHANGED <<user, chosen, policy, cookie, pending, issued, used, spent, missed>>

CommitForgot(b, l) ==
  /\ req[b].op = "forgot" /\ link[l] = "none"
  /\ link' = [m \in Links |-> IF m = l THEN "open"
                              ELSE IF m \in req[b].links THEN "dead" ELSE link[m]]
  /\ LateIf("links", req[b].links # Open)
  /\ req' = [req EXCEPT ![b] = Idle]
  /\ UNCHANGED <<user, chosen, policy, cookie, pending, issued, used, spent, missed>>

CommitReset(b) ==
  LET r == req[b].row IN
  /\ req[b].op = "reset" /\ chosen < MaxEpoch
  /\ user' = SetPassword(user, r)
  /\ chosen' = chosen + 1
  /\ link' = [link EXCEPT ![req[b].link] = "dead"]
  /\ spent' = spent \union {req[b].link}
  /\ missed' = Missed(user')
  /\ LateIn((IF LockoutMoved(r) THEN {"failed"} ELSE {}) \union
            (IF r.epoch # user.epoch THEN {"epoch"} ELSE {}) \union
            (IF link[req[b].link] = "dead" THEN {"links"} ELSE {}))
  /\ req' = [req EXCEPT ![b] = Idle]
  /\ UNCHANGED <<policy, cookie, pending, issued, used>>

CommitChange(b) ==
  LET r == req[b].row IN
  /\ req[b].op = "change" /\ chosen < MaxEpoch
  /\ user' = SetPassword(user, r)
  /\ chosen' = chosen + 1
  /\ missed' = Missed(user')
  /\ LateIn((IF LockoutMoved(r) THEN {"failed"} ELSE {}) \union
            (IF r.epoch # user.epoch THEN {"epoch"} ELSE {}))
  /\ req' = [req EXCEPT ![b].op = "signin", ![b].row = Checked(chosen + 1)]
  /\ UNCHANGED <<link, policy, cookie, pending, issued, used, spent>>

CommitRevoke(b) ==
  /\ req[b].op = "revoke"
  /\ user' = RevokeSessions(user, req[b].row)
  /\ LateIf("epoch", req[b].row.epoch # user.epoch)
  /\ req' = [req EXCEPT ![b].op = "signin", ![b].row = Checked(@.password)]
  /\ UNCHANGED <<chosen, link, policy, cookie, pending, issued, used, spent, missed>>

(* New recovery codes, when the second factor is set up or on request. *)
CommitCodes(b, new) ==
  /\ req[b].op \in {"setup", "regenerate"}
  /\ new # {} /\ new \subseteq Codes \ issued
  /\ user' = [user EXCEPT !.codes = new, !.mfa = IF req[b].op = "setup" THEN TRUE ELSE @]
  /\ issued' = issued \union new
  /\ req' = [req EXCEPT ![b] = Idle]
  /\ UNCHANGED <<chosen, link, policy, cookie, pending, used, spent, missed, late>>

CommitDisable(b) ==
  /\ req[b].op = "disable"
  /\ user' = [user EXCEPT !.mfa = FALSE, !.codes = IF req[b].row.codes = {} THEN @ ELSE {}]
  /\ req' = [req EXCEPT ![b] = Idle]
  /\ UNCHANGED <<chosen, link, policy, cookie, pending, issued, used, spent, missed, late>>

(* A request fails before its commit, or its answer never arrives. *)
Abandon(b) ==
  /\ req[b] # Idle
  /\ req' = [req EXCEPT ![b] = Idle]
  /\ UNCHANGED <<user, chosen, link, policy, cookie, pending, issued, used, spent, missed, late>>

-----------------------------------------------------------------------------
(* Steps that are a single write, and the clock. *)

Logout(b) ==
  /\ Authenticated(b) /\ req[b] = Idle
  /\ cookie' = [cookie EXCEPT ![b] = NoPass]
  /\ UNCHANGED <<user, chosen, link, policy, pending, req, issued, used, spent, missed, late>>

(* CHALLENGE_TTL, /mfa/cancel, or a payload _pending_user rejects *)
DropPending(b) ==
  /\ pending[b] # NoPass /\ req[b] = Idle
  /\ pending' = [pending EXCEPT ![b] = NoPass]
  /\ UNCHANGED <<user, chosen, link, policy, cookie, req, issued, used, spent, missed, late>>

LinkExpires(l) ==
  /\ link[l] = "open"
  /\ link' = [link EXCEPT ![l] = "dead"]
  /\ UNCHANGED <<user, chosen, policy, cookie, pending, req, issued, used, spent, missed, late>>

LockExpires ==
  /\ user.lock = "on"
  /\ user' = [user EXCEPT !.lock = "over"]
  /\ UNCHANGED <<chosen, link, policy, cookie, pending, req, issued, used, spent, missed, late>>

(* An administrator turns an access policy on or off. *)
SetPolicy(p) ==
  /\ policy' = (policy \union {p}) \ (policy \cap {p})
  /\ UNCHANGED <<user, chosen, link, cookie, pending, req, issued, used, spent, missed, late>>

Next ==
  \/ \E b \in Browsers :
       \/ SubmitLogin(b) \/ SubmitWrongPassword(b) \/ SubmitSso(b) \/ SubmitForgot(b)
       \/ SubmitChange(b) \/ SubmitRevoke(b) \/ SubmitChallenge(b) \/ SubmitWrongCode(b)
       \/ SubmitSetup(b) \/ SubmitRegenerate(b) \/ SubmitDisable(b)
       \/ CommitLogin(b) \/ Verified(b) \/ SignIn(b) \/ CommitFail(b) \/ CommitChallenge(b)
       \/ CommitReset(b) \/ CommitChange(b) \/ CommitRevoke(b) \/ CommitDisable(b)
       \/ Abandon(b) \/ Logout(b) \/ DropPending(b)
       \/ \E l \in Links : SubmitReset(b, l) \/ CommitForgot(b, l)
       \/ \E new \in SUBSET Codes : CommitCodes(b, new)
  \/ \E l \in Links : LinkExpires(l)
  \/ LockExpires
  \/ \E p \in Policies : SetPolicy(p)

Spec == Init /\ [][Next]_vars

-----------------------------------------------------------------------------
(* What the account's pages promise, as long as nobody acted late on what the
   promise is about. *)

(* A cookie or a pending challenge that still counts was obtained with the
   password that is in force: changing it ends what came before
   (User.set_password, _pending_user). *)
SessionsFollowPassword ==
  late \cap {"password", "epoch"} = {} =>
    \A b \in Browsers : \A p \in {cookie[b], pending[b]} :
      p.epoch = user.epoch => p.password = user.password

(* Once a request that read the current epoch has revoked the sessions, no
   browser is signed in and no challenge can be continued, until somebody
   signs in again (auth/routes.py revoke_sessions, profile, reset_password). *)
RevocationReaches ==
  [][\A b \in Browsers :
       /\ req[b].op \in {"reset", "change", "revoke"}
       /\ user' # user /\ req'[b] # req[b]
       /\ req[b].row.epoch = user.epoch /\ "epoch" \notin late
       => \A x \in Browsers : user'.epoch \notin {cookie'[x].epoch, pending'[x].epoch}]_vars

(* A recovery code that has signed somebody in is in no list again
   (services/mfa.py consume_recovery_code). *)
CodesServeOnce == "codes" \notin late => used \cap user.codes = {}

(* At most one reset link works, and none that has set a password
   (auth/routes.py forgot_password: "only the newest link works"). *)
OneLinkWorks ==
  "links" \notin late =>
    /\ \A l, m \in Links : link[l] = "open" /\ link[m] = "open" => l = m
    /\ \A l \in spent : link[l] = "dead"

(* MaxAttempts failures in a row lock the account, whichever mixture of
   passwords and codes failed (User.register_failed_login). *)
LockoutReached ==
  "failed" \notin late /\ missed >= MaxAttempts => user.lock # "none"
=============================================================================
