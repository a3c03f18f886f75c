------------------------------ MODULE TokenCache ------------------------------
(***************************************************************************)
(* Bearer tokens of the JSON API and the cache each process keeps of the   *)
(* hash comparisons it has made (blueprints/api/auth.py, class ApiToken,   *)
(* blueprints/admin/routes.py).                                            *)
(*                                                                         *)
(* A call is a thread of a process.  The cache has a lock, which is held   *)
(* for each lookup, eviction or removal but never across a query, so a     *)
(* call is split there and at its queries.  One organization and one       *)
(* owner; a digest stands for the token it is the digest of.               *)
(***************************************************************************)
EXTENDS Naturals, FiniteSets

CONSTANTS
  Tokens,    (* bound: rows of api_tokens ever inserted                    *)
  Raws,      (* what a caller may present                                  *)
  Procs,     (* processes serving the API                                  *)
  Calls,     (* calls in progress                                          *)
  MaxCached, (* CACHE_MAX_ENTRIES                                          *)
  None

ASSUME TokenCacheAssumption ==
  /\ None \notin Tokens \union Raws \union Procs
  /\ IsFiniteSet(Raws)
  /\ MaxCached \in Nat \ {0}

VARIABLES
  token,    (* table api_tokens                                            *)
  strict,   (* organizations.settings["require_mfa"]                       *)
  mfa,      (* mfa_enabled of the owner                                    *)
  cache,    (* _verified_cache of each process                             *)
  call      (* the calls                                                   *)

vars == <<token, strict, mfa, cache, call>>

(* `recent` says that last_used_at is younger than LAST_USED_RESOLUTION. *)
Row ==
  [state : {"none", "live", "revoked", "deleted"}, hash : Raws \union {None},
   expired : BOOLEAN, recent : BOOLEAN]

(* An entry of the cache, `fresh` until CACHE_TTL_SECONDS have passed. *)
Entry == [id : Tokens \union {None}, fresh : BOOLEAN]

NoEntry == [id |-> None, fresh |-> FALSE]

(* `spent` is a history: the token that was presented had been revoked, had
   expired or was deleted before the call began; `barred` another one: the
   policy has forbidden the call for all of its time. `touched` says that the
   call has committed a stamp, so that it reads its row again. *)
Call ==
  [stage : {"idle", "lookup", "cached", "stale", "missing", "matched", "known", "touched",
            "served", "refused", "failed"},
   proc : Procs \union {None}, raw : Raws \union {None}, id : Tokens \union {None},
   touched : BOOLEAN, spent : BOOLEAN, barred : BOOLEAN]

Idle ==
  [stage |-> "idle", proc |-> None, raw |-> None, id |-> None,
   touched |-> FALSE, spent |-> FALSE, barred |-> FALSE]

(* The table, the caches and the calls. *)
TypeOK ==
  /\ token \in [Tokens -> Row]
  /\ strict \in BOOLEAN /\ mfa \in BOOLEAN
  /\ cache \in [Procs -> [Raws -> Entry]]
  /\ call \in [Calls -> Call]

Init ==
  /\ token = [t \in Tokens |->
                [state |-> "none", hash |-> None, expired |-> FALSE, recent |-> FALSE]]
  /\ strict \in BOOLEAN /\ mfa \in BOOLEAN
  /\ cache = [p \in Procs |-> [r \in Raws |-> NoEntry]]
  /\ call = [c \in Calls |-> Idle]

-----------------------------------------------------------------------------
(* Tokens. *)

(* is_valid, of a row that is still there. *)
Valid(t) == token[t].state = "live" /\ ~token[t].expired

(* Mutant: the prefix alone is compared. *)
MatchesPrefix(t, r) == token[t].hash # None

Matches(t, r) == token[t].hash = r

Spent(r) == \E t \in Tokens : token[t].hash = r /\ (token[t].state # "live" \/ token[t].expired)

(* require_mfa, as far as this owner goes. *)
Permitted == ~strict \/ mfa

-----------------------------------------------------------------------------
(* The caches. *)

Cached(p) == {r \in Raws : cache[p][r].id # None}

(* Mutant: only expired entries are dropped. *)
EvictExpired(p) == [r \in Raws |-> IF cache[p][r].fresh THEN cache[p][r] ELSE NoEntry]

(* A full cache drops its expired entries, then everything. *)
Evict(p) ==
  LET kept == {r \in Cached(p) : cache[p][r].fresh} IN
  IF Cardinality(Cached(p)) < MaxCached THEN cache[p]
  ELSE [r \in Raws |-> IF r \in kept /\ Cardinality(kept) < MaxCached THEN cache[p][r] ELSE NoEntry]

Remembered(p, r, t) == [Evict(p) EXCEPT ![r] = [id |-> t, fresh |-> TRUE]]

-----------------------------------------------------------------------------
(* A call. *)

Moves(c, stage) == call' = [call EXCEPT ![c].stage = stage]

(* A call comes in and computes the digest of its token. *)
Present(c, p, r) ==
  /\ call[c].stage = "idle"
  /\ call' = [call EXCEPT ![c] =
                [Idle EXCEPT !.stage = "lookup", !.proc = p, !.raw = r, !.spent = Spent(r),
                             !.barred = ~Permitted]]
  /\ UNCHANGED <<token, strict, mfa, cache>>

(* _cached_token_id(), which drops an entry whose time is over. *)
Lookup(c) ==
  LET p == call[c].proc
      r == call[c].raw
      e == cache[p][r]
  IN /\ call[c].stage = "lookup"
     /\ IF e.fresh
        THEN call' = [call EXCEPT ![c] = [@ EXCEPT !.stage = "cached", !.id = e.id]]
        ELSE Moves(c, "missing")
     /\ cache' = IF e.fresh THEN cache ELSE [cache EXCEPT ![p][r] = NoEntry]
     /\ UNCHANGED <<token, strict, mfa>>

(* Mutant: what is cached is not read again. *)
LoadCachedTrusted(c) ==
  /\ call[c].stage = "cached"
  /\ Moves(c, "known")
  /\ UNCHANGED <<token, strict, mfa, cache>>

(* The row of a cached token is read. *)
LoadCached(c) ==
  /\ call[c].stage = "cached"
  /\ Moves(c, IF Valid(call[c].id) THEN "known" ELSE "stale")
  /\ UNCHANGED <<token, strict, mfa, cache>>

(* The entry of a token that is not valid any more is removed. *)
Forget(c) ==
  /\ call[c].stage = "stale"
  /\ cache' = [cache EXCEPT ![call[c].proc][call[c].raw] = NoEntry]
  /\ Moves(c, "refused")
  /\ UNCHANGED <<token, strict, mfa>>

(* The rows with the prefix of the token are read and their hashes compared. *)
Scan(c) ==
  /\ call[c].stage = "missing"
  /\ \/ \E t \in Tokens :
          /\ Valid(t) /\ Matches(t, call[c].raw)
          /\ call' = [call EXCEPT ![c] = [@ EXCEPT !.stage = "matched", !.id = t]]
     \/ /\ \A t \in Tokens : ~(Valid(t) /\ Matches(t, call[c].raw))
        /\ Moves(c, "refused")
  /\ UNCHANGED <<token, strict, mfa, cache>>

(* _remember(). *)
Remember(c) ==
  LET p == call[c].proc IN
  /\ call[c].stage = "matched"
  /\ cache' = [cache EXCEPT ![p] = Remembered(p, call[c].raw, call[c].id)]
  /\ Moves(c, "known")
  /\ UNCHANGED <<token, strict, mfa>>

(* _touch(): a stamp that is old is written and committed, which fails if the
   row has been deleted. *)
Touch(c) ==
  LET t == call[c].id IN
  /\ call[c].stage = "known"
  /\ \/ /\ token[t].recent
        /\ Moves(c, "touched")
        /\ UNCHANGED token
     \/ /\ ~token[t].recent /\ token[t].state # "deleted"
        /\ token' = [token EXCEPT ![t].recent = TRUE]
        /\ call' = [call EXCEPT ![c] = [@ EXCEPT !.stage = "touched", !.touched = TRUE]]
     \/ /\ ~token[t].recent /\ token[t].state = "deleted"
        /\ Moves(c, "failed")
        /\ UNCHANGED token
  /\ UNCHANGED <<strict, mfa, cache>>

(* Mutant: the policy is for browsers only. *)
EnforcePolicyNever(c) ==
  /\ call[c].stage = "touched"
  /\ Moves(c, "served")
  /\ UNCHANGED <<token, strict, mfa, cache>>

(* _enforce_organization_policy(). After a commit the row is read again, which
   fails if it is gone; without one, a token whose owner is gone has nobody to
   enforce anything on. *)
EnforcePolicy(c) ==
  LET gone == token[call[c].id].state = "deleted" IN
  /\ call[c].stage = "touched"
  /\ Moves(c, IF gone /\ call[c].touched THEN "failed"
              ELSE IF Permitted \/ gone THEN "served" ELSE "refused")
  /\ UNCHANGED <<token, strict, mfa, cache>>

Answer(c) ==
  /\ call[c].stage \in {"served", "refused", "failed"}
  /\ call' = [call EXCEPT ![c] = Idle]
  /\ UNCHANGED <<token, strict, mfa, cache>>

(* A process is replaced: its cache and its calls are lost. *)
Restart(p) ==
  /\ cache' = [cache EXCEPT ![p] = [r \in Raws |-> NoEntry]]
  /\ call' = [c \in Calls |-> IF call[c].proc = p THEN Idle ELSE call[c]]
  /\ UNCHANGED <<token, strict, mfa>>

-----------------------------------------------------------------------------
(* Administrators and time. *)

(* tokens(): a new random token. *)
Issue(t, r) ==
  /\ token[t].state = "none" /\ \A u \in Tokens : token[u].hash # r
  /\ token' = [token EXCEPT ![t] = [state |-> "live", hash |-> r, expired |-> FALSE, recent |-> FALSE]]
  /\ UNCHANGED <<strict, mfa, cache, call>>

(* revoke_token(). *)
Revoke(t) ==
  /\ token[t].state = "live"
  /\ token' = [token EXCEPT ![t].state = "revoked"]
  /\ UNCHANGED <<strict, mfa, cache, call>>

(* The account that owns the tokens is deleted, and they with it. *)
DeleteOwner ==
  /\ \E t \in Tokens : token[t].state \in {"live", "revoked"}
  /\ token' = [t \in Tokens |-> IF token[t].state = "none" THEN token[t]
                                ELSE [token[t] EXCEPT !.state = "deleted"]]
  /\ UNCHANGED <<strict, mfa, cache, call>>

(* security_policy(), and the second factor of the owner. *)
SetPolicy ==
  /\ strict' \in BOOLEAN /\ mfa' \in BOOLEAN
  /\ call' = [c \in Calls |-> [call[c] EXCEPT !.barred = @ /\ strict' /\ ~mfa']]
  /\ UNCHANGED <<token, cache>>

Expire(t) ==
  /\ token[t].state = "live" /\ ~token[t].expired
  /\ token' = [token EXCEPT ![t].expired = TRUE]
  /\ UNCHANGED <<strict, mfa, cache, call>>

StampAges(t) ==
  /\ token[t].recent
  /\ token' = [token EXCEPT ![t].recent = FALSE]
  /\ UNCHANGED <<strict, mfa, cache, call>>

EntryAges(p, r) ==
  /\ cache[p][r].fresh
  /\ cache' = [cache EXCEPT ![p][r].fresh = FALSE]
  /\ UNCHANGED <<token, strict, mfa, call>>

Next ==
  \/ \E c \in Calls :
       \/ \E p \in Procs, r \in Raws : Present(c, p, r)
       \/ Lookup(c) \/ LoadCached(c) \/ Forget(c) \/ Scan(c) \/ Remember(c)
       \/ Touch(c) \/ EnforcePolicy(c) \/ Answer(c)
  \/ \E p \in Procs : Restart(p) \/ \E r \in Raws : EntryAges(p, r)
  \/ \E t \in Tokens : Revoke(t) \/ Expire(t) \/ StampAges(t) \/ \E r \in Raws : Issue(t, r)
  \/ DeleteOwner
  \/ SetPolicy

Spec == Init /\ [][Next]_vars

-----------------------------------------------------------------------------
(* What is cached and what is not. *)

(* "Revoking a token takes effect on the very next call": whatever the caches
   hold, a call that began with a token revoked, expired or deleted is not
   served (_resolve_token, is_valid). *)
RevocationImmediate == \A c \in Calls : call[c].stage = "served" => ~call[c].spent

(* A token is no way around a policy that was in force for the whole call
   (_enforce_organization_policy), unless its owner is gone. *)
PolicyHolds ==
  \A c \in Calls : call[c].stage = "served" /\ call[c].barred => token[call[c].id].state = "deleted"

(* "The cache is bounded" (_remember). *)
CacheBounded == \A p \in Procs : Cardinality(Cached(p)) <= MaxCached

(* The cached check grants and refuses as one that looks every token up: an
   entry that is aged, evicted or lost in a restart costs time only. *)
Verdict(c) ==
  CASE call[c].stage = "idle" -> "none"
    [] call[c].stage \in {"lookup", "cached", "missing"} -> "open"
    [] call[c].stage \in {"matched", "known", "touched"} -> "valid"
    [] call[c].stage \in {"stale", "refused"} -> "refused"
    [] OTHER -> call[c].stage

Direct == INSTANCE TokenCheck WITH
  raw <- [c \in Calls |-> call[c].raw], verdict <- [c \in Calls |-> Verdict(c)]

ChecksLikeDirect == Direct!Spec
=============================================================================
