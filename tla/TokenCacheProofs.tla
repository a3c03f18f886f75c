--------------------------- MODULE TokenCacheProofs ---------------------------
(***************************************************************************)
(* Theorems about TokenCache, for any number of tokens, processes and      *)
(* calls, and that it implements TokenCheck.                               *)
(*                                                                         *)
(* They rest on two facts: an entry of a cache, and the id a call holds,   *)
(* belong to the token that was presented (CachesName, Named), and what a  *)
(* call found out at its beginning cannot become untrue (Begun).           *)
(***************************************************************************)
EXTENDS TokenCache, FiniteSetTheorems, TLAPS

(* No two rows were made for one token. *)
HashesDiffer ==
  /\ \A t \in Tokens : token[t].state = "none" <=> token[t].hash = None
  /\ \A t, u \in Tokens : token[t].hash = token[u].hash /\ token[t].hash # None => t = u

CachesName ==
  \A p \in Procs, r \in Raws :
    /\ cache[p][r].fresh => cache[p][r].id # None
    /\ cache[p][r].id # None => token[cache[p][r].id].hash = r

LiveIn(tok, t) == tok[t].state = "live" /\ ~tok[t].expired

Named(tok, x) ==
  /\ x.stage # "idle" => x.raw \in Raws /\ x.proc \in Procs
  /\ x.stage \in {"cached", "stale", "matched", "known", "touched", "served"} =>
       x.id \in Tokens /\ tok[x.id].hash = x.raw
  /\ x.stage = "stale" => ~LiveIn(tok, x.id)

Begun(tok, permitted, x) ==
  /\ x.spent => /\ x.stage \notin {"idle", "matched", "known", "touched", "served"}
                /\ \E t \in Tokens : tok[t].hash = x.raw /\ ~LiveIn(tok, t)
  /\ x.barred => ~permitted /\ (x.stage = "served" => tok[x.id].state = "deleted")

IInv ==
  /\ TypeOK
  /\ HashesDiffer
  /\ CachesName
  /\ \A c \in Calls : Named(token, call[c]) /\ Begun(token, Permitted, call[c])
  /\ CacheBounded

(* Rows keep their hash, and what they have lost. *)
Keep(tok, tok2) ==
  \A t \in Tokens : tok[t].hash # None =>
    /\ tok2[t].hash = tok[t].hash
    /\ ~LiveIn(tok, t) => ~LiveIn(tok2, t)
    /\ tok[t].state = "deleted" => tok2[t].state = "deleted"

-----------------------------------------------------------------------------
(* Parts of steps. *)

LEMMA Nones == None \notin Tokens /\ None \notin Raws /\ None \notin Procs
BY TokenCacheAssumption

LEMMA IdleTyped ==
  /\ Idle \in Call /\ Idle.stage = "idle" /\ Idle.raw = None /\ ~Idle.spent /\ ~Idle.barred
  /\ NoEntry \in Entry /\ NoEntry.id = None /\ ~NoEntry.fresh
BY DEF Idle, Call, NoEntry, Entry

(* One call goes to another stage and perhaps learns the id of its token. *)
LEMMA CallMoves ==
  ASSUME call \in [Calls -> Call], NEW c \in Calls,
         NEW y \in Call, call' = [call EXCEPT ![c] = y]
  PROVE  /\ call' \in [Calls -> Call] /\ call'[c] = y
         /\ \A d \in Calls \ {c} : call'[d] = call[d]
OBVIOUS

LEMMA StageMoves ==
  ASSUME call \in [Calls -> Call], NEW c \in Calls, NEW stage, Moves(c, stage),
         stage \in {"missing", "known", "stale", "refused", "touched", "served", "failed"}
  PROVE  /\ call' \in [Calls -> Call]
         /\ call'[c].stage = stage /\ call'[c].raw = call[c].raw /\ call'[c].proc = call[c].proc
         /\ call'[c].id = call[c].id /\ call'[c].spent = call[c].spent
         /\ call'[c].barred = call[c].barred
         /\ \A d \in Calls \ {c} : call'[d] = call[d]
<1> DEFINE y == [call[c] EXCEPT !.stage = stage]
<1>1. /\ y \in Call /\ y.stage = stage /\ y.raw = call[c].raw /\ y.proc = call[c].proc
      /\ y.id = call[c].id /\ y.spent = call[c].spent /\ y.barred = call[c].barred
  BY DEF Call
<1>2. call' = [call EXCEPT ![c] = y]
  BY DEF Moves
<1> HIDE DEF y
<1> QED BY <1>1, <1>2, CallMoves

(* A call keeps what is known of it while rows only lose their validity. *)
LEMMA CallKeeps ==
  ASSUME NEW tok, NEW tok2, Keep(tok, tok2), NEW x, NEW b, NEW b2,
         Named(tok, x), Begun(tok, b, x), x.barred => ~b2
  PROVE  Named(tok2, x) /\ Begun(tok2, b2, x)
<1>1. x.stage # "idle" => x.raw # None
  BY Nones DEF Named
<1>2. \A t \in Tokens : tok[t].hash = x.raw /\ x.raw # None =>
        /\ tok2[t].hash = x.raw
        /\ ~LiveIn(tok, t) => ~LiveIn(tok2, t)
        /\ tok[t].state = "deleted" => tok2[t].state = "deleted"
  BY DEF Keep
<1>3. Named(tok2, x)
  BY <1>1, <1>2 DEF Named
<1>4. Begun(tok2, b2, x)
  BY <1>1, <1>2 DEF Named, Begun
<1> QED BY <1>3, <1>4

(* Once its token was spent, a call never finds it valid. *)
LEMMA SpentNotValid ==
  ASSUME HashesDiffer, NEW x \in Call, Begun(token, Permitted, x), x.spent, x.raw # None,
         NEW t \in Tokens, token[t].hash = x.raw
  PROVE  ~Valid(t)
BY DEF HashesDiffer, Begun, LiveIn, Valid

(* A full cache is emptied before it takes one entry more. *)
LEMMA RememberedBounded ==
  ASSUME TypeOK, NEW p \in Procs, NEW r \in Raws, NEW t \in Tokens,
         Cardinality(Cached(p)) <= MaxCached
  PROVE  /\ Remembered(p, r, t) \in [Raws -> Entry]
         /\ Remembered(p, r, t)[r] = [id |-> t, fresh |-> TRUE]
         /\ \A q \in Raws \ {r} : Remembered(p, r, t)[q] \in {cache[p][q], NoEntry}
         /\ Cardinality({q \in Raws : Remembered(p, r, t)[q].id # None}) <= MaxCached
<1> DEFINE e == Evict(p)
           C == Cached(p)
           kept == {q \in C : cache[p][q].fresh}
           E == {q \in Raws : e[q].id # None}
           n == [id |-> t, fresh |-> TRUE]
<1>1. cache[p] \in [Raws -> Entry] /\ MaxCached \in Nat \ {0} /\ IsFiniteSet(Raws)
  BY TokenCacheAssumption DEF TypeOK
<1>2. e \in [Raws -> Entry] /\ \A q \in Raws : e[q] \in {cache[p][q], NoEntry}
  BY <1>1, IdleTyped DEF Evict
<1>3. IsFiniteSet(E) /\ IsFiniteSet(C) /\ IsFiniteSet(kept) /\ Cardinality(C) \in Nat
      /\ Cardinality(kept) \in Nat /\ Cardinality(E) \in Nat
  <2>1. E \subseteq Raws /\ C \subseteq Raws /\ kept \subseteq Raws
    BY DEF Cached
  <2> QED BY <1>1, <2>1, FS_Subset, FS_CardinalityType
<1>4. Cardinality(E) < MaxCached
  <2>1. CASE Cardinality(C) < MaxCached
    <3>1. e = cache[p]
      BY <2>1 DEF Evict
    <3>2. E = C
      BY <3>1 DEF Cached
    <3> QED BY <2>1, <3>2
  <2>2. CASE ~(Cardinality(C) < MaxCached) /\ Cardinality(kept) < MaxCached
    <3>1. e = [q \in Raws |-> IF q \in kept THEN cache[p][q] ELSE NoEntry]
      BY <2>2 DEF Evict
    <3>2. E \subseteq kept
      BY <3>1, IdleTyped
    <3>3. Cardinality(E) <= Cardinality(kept)
      BY <1>3, <3>2, FS_Subset
    <3> QED BY <1>1, <1>3, <2>2, <3>3
  <2>3. CASE ~(Cardinality(C) < MaxCached) /\ ~(Cardinality(kept) < MaxCached)
    <3>1. e = [q \in Raws |-> NoEntry]
      BY <2>3 DEF Evict
    <3>2. E = {}
      BY <3>1, IdleTyped
    <3>3. Cardinality(E) = 0
      BY <3>2, FS_EmptySet, Zenon
    <3> QED BY <1>1, <3>3
  <2> QED BY <2>1, <2>2, <2>3
<1>5. n \in Entry /\ n.id = t
  BY DEF Entry
<1> HIDE DEF e, n
<1>6. Remembered(p, r, t) = [e EXCEPT ![r] = n]
  BY DEF Remembered, e, n
<1>7. {q \in Raws : Remembered(p, r, t)[q].id # None} \subseteq E \union {r}
  BY <1>2, <1>6
<1>8. Cardinality(E \union {r}) <= MaxCached /\ IsFiniteSet(E \union {r})
  <2>1. Cardinality(E \union {r}) \in {Cardinality(E), Cardinality(E) + 1}
        /\ IsFiniteSet(E \union {r})
    BY <1>3, FS_AddElement
  <2> QED BY <1>1, <1>3, <1>4, <2>1
<1>9. Cardinality({q \in Raws : Remembered(p, r, t)[q].id # None}) <= Cardinality(E \union {r})
  BY <1>7, <1>8, FS_Subset
<1>10. Cardinality({q \in Raws : Remembered(p, r, t)[q].id # None}) \in Nat
       /\ Cardinality(E \union {r}) \in Nat
  BY <1>7, <1>8, FS_Subset, FS_CardinalityType
<1> QED BY <1>1, <1>2, <1>5, <1>6, <1>8, <1>9, <1>10 DEF n
-----------------------------------------------------------------------------
(* The steps of a call. *)

(* A step of one call that leaves rows, policy and caches alone. *)
LEMMA CallStepKeeps ==
  ASSUME IInv, NEW c \in Calls, UNCHANGED <<token, strict, mfa, cache>>,
         call' \in [Calls -> Call], \A d \in Calls \ {c} : call'[d] = call[d],
         Named(token, call'[c]), Begun(token, Permitted, call'[c])
  PROVE  IInv'
<1>1. \A d \in Calls : Named(token, call'[d]) /\ Begun(token, Permitted, call'[d])
  BY DEF IInv
<1>2. CacheBounded' /\ CachesName' /\ HashesDiffer' /\ TypeOK' /\ (Permitted' <=> Permitted)
  BY DEF IInv, CacheBounded, Cached, CachesName, HashesDiffer, TypeOK, Permitted
<1> QED BY <1>1, <1>2 DEF IInv, Begun

(* A step that changes caches as well. *)
LEMMA CacheStepKeeps ==
  ASSUME IInv, UNCHANGED <<token, strict, mfa>>,
         cache' \in [Procs -> [Raws -> Entry]], CachesName', CacheBounded',
         call' \in [Calls -> Call], \A d \in Calls : Named(token, call'[d]) /\ Begun(token, Permitted, call'[d])
  PROVE  IInv'
<1>1. HashesDiffer' /\ TypeOK'
  BY DEF IInv, HashesDiffer, TypeOK
<1>2. Permitted' <=> Permitted
  BY DEF Permitted
<1> QED BY <1>1, <1>2 DEF IInv, Begun

(* Entries may be dropped and age. *)
LEMMA CachesDrop ==
  ASSUME IInv, UNCHANGED token, cache' \in [Procs -> [Raws -> Entry]],
         \A p \in Procs, r \in Raws :
           \/ cache'[p][r] = cache[p][r]
           \/ ~cache'[p][r].fresh /\ cache'[p][r].id \in {cache[p][r].id, None}
  PROVE  CachesName' /\ CacheBounded'
<1>1. CachesName'
  BY DEF IInv, CachesName
<1>2. ASSUME NEW p \in Procs
      PROVE  Cardinality(Cached(p)') <= MaxCached
  <2>1. Cached(p)' \subseteq Cached(p)
    BY DEF Cached
  <2>2. IsFiniteSet(Cached(p)) /\ Cardinality(Cached(p)) <= MaxCached /\ MaxCached \in Nat
    <3>1. Cached(p) \subseteq Raws
      BY DEF Cached
    <3>2. IsFiniteSet(Cached(p))
      BY <3>1, TokenCacheAssumption, FS_Subset
    <3>3. Cardinality(Cached(p)) <= MaxCached
      BY DEF IInv, CacheBounded
    <3> QED BY <3>2, <3>3, TokenCacheAssumption
  <2>3. Cardinality(Cached(p)') <= Cardinality(Cached(p)) /\ IsFiniteSet(Cached(p)')
    BY <2>1, <2>2, FS_Subset
  <2>4. Cardinality(Cached(p)') \in Nat /\ Cardinality(Cached(p)) \in Nat
    BY <2>2, <2>3, FS_CardinalityType
  <2> QED BY <2>2, <2>3, <2>4
<1> QED BY <1>1, <1>2 DEF CacheBounded

LEMMA PresentKeeps ==
  ASSUME IInv, NEW c \in Calls, NEW p \in Procs, NEW r \in Raws, Present(c, p, r)
  PROVE  IInv'
<1> DEFINE y == [Idle EXCEPT !.stage = "lookup", !.proc = p, !.raw = r, !.spent = Spent(r),
                             !.barred = ~Permitted]
<1>1. /\ y \in Call /\ y.stage = "lookup" /\ y.proc = p /\ y.raw = r /\ y.spent = Spent(r)
      /\ y.barred = ~Permitted
  BY DEF Idle, Call, Spent, Permitted
<1>2. call' = [call EXCEPT ![c] = y] /\ UNCHANGED <<token, strict, mfa, cache>>
  BY DEF Present
<1>3. Named(token, y) /\ Begun(token, Permitted, y)
  BY <1>1 DEF Named, Begun, Spent, LiveIn
<1> HIDE DEF y
<1>4. call \in [Calls -> Call]
  BY DEF IInv, TypeOK
<1>5. call' \in [Calls -> Call] /\ call'[c] = y /\ \A d \in Calls \ {c} : call'[d] = call[d]
  BY <1>1, <1>2, <1>4, CallMoves
<1> QED BY <1>2, <1>3, <1>5, CallStepKeeps

(* The invariant and a call of it, spelled out. *)
LEMMA TablesKnown ==
  ASSUME IInv
  PROVE  /\ HashesDiffer /\ CachesName /\ call \in [Calls -> Call]
         /\ cache \in [Procs -> [Raws -> Entry]] /\ token \in [Tokens -> Row]
BY DEF IInv, TypeOK

LEMMA CallKnown ==
  ASSUME IInv, NEW c \in Calls
  PROVE  /\ call \in [Calls -> Call] /\ call[c] \in Call
         /\ Named(token, call[c]) /\ Begun(token, Permitted, call[c]) /\ HashesDiffer /\ CachesName
         /\ cache \in [Procs -> [Raws -> Entry]] /\ token \in [Tokens -> Row]
         /\ call[c].stage # "idle" => call[c].raw \in Raws /\ call[c].proc \in Procs /\ call[c].raw # None
BY Nones DEF IInv, TypeOK, Named

LEMMA LookupKeeps ==
  ASSUME IInv, NEW c \in Calls, Lookup(c)
  PROVE  IInv'
<1> DEFINE p == call[c].proc
           r == call[c].raw
           e == cache[p][r]
           y == [call[c] EXCEPT !.stage = "cached", !.id = e.id]
<1>1. call[c].stage = "lookup" /\ p \in Procs /\ r \in Raws /\ e \in Entry
      /\ UNCHANGED <<token, strict, mfa>>
  BY CallKnown DEF Lookup
<1>2. CASE e.fresh
  <2>1. call' = [call EXCEPT ![c] = y] /\ cache' = cache
    BY <1>2 DEF Lookup
  <2>2. e.id \in Tokens /\ token[e.id].hash = r
    BY <1>1, <1>2, CallKnown DEF CachesName, Entry
  <2>3. /\ y \in Call /\ y.stage = "cached" /\ y.id = e.id /\ y.raw = r /\ y.proc = p
        /\ y.spent = call[c].spent /\ y.barred = call[c].barred
    BY <2>2, CallKnown DEF Call
  <2>4. Named(token, y) /\ Begun(token, Permitted, y)
    BY <1>1, <2>2, <2>3, CallKnown DEF Named, Begun
  <2> HIDE DEF y
  <2>5. call' \in [Calls -> Call] /\ call'[c] = y /\ \A d \in Calls \ {c} : call'[d] = call[d]
    BY <2>1, <2>3, CallKnown, CallMoves
  <2> QED BY <1>1, <2>1, <2>4, <2>5, CallStepKeeps
<1>3. CASE ~e.fresh
  <2>1. Moves(c, "missing") /\ cache' = [cache EXCEPT ![p][r] = NoEntry]
    BY <1>3 DEF Lookup
  <2>2. /\ call' \in [Calls -> Call]
        /\ call'[c].stage = "missing" /\ call'[c].raw = r /\ call'[c].proc = p
        /\ call'[c].id = call[c].id /\ call'[c].spent = call[c].spent
        /\ call'[c].barred = call[c].barred
        /\ \A d \in Calls \ {c} : call'[d] = call[d]
    BY <2>1, CallKnown, StageMoves
  <2>3. Named(token, call'[c]) /\ Begun(token, Permitted, call'[c])
    BY <1>1, <2>2, CallKnown DEF Named, Begun
  <2>4. cache' \in [Procs -> [Raws -> Entry]]
    BY <1>1, <2>1, CallKnown, IdleTyped
  <2>5. \A q \in Procs, s \in Raws : cache'[q][s] \in {cache[q][s], NoEntry}
    BY <1>1, <2>1, CallKnown
  <2>6. CachesName' /\ CacheBounded'
    BY <1>1, <2>4, <2>5, IdleTyped, CachesDrop
  <2>7. \A d \in Calls : Named(token, call'[d]) /\ Begun(token, Permitted, call'[d])
    BY <2>2, <2>3 DEF IInv
  <2> QED BY <1>1, <2>2, <2>4, <2>6, <2>7, CacheStepKeeps
<1> QED BY <1>2, <1>3

LEMMA StageStepKeeps ==
  ASSUME IInv, NEW c \in Calls, NEW stage, Moves(c, stage), UNCHANGED <<token, strict, mfa, cache>>,
         \/ call[c].stage = "cached" /\ stage = "known" /\ Valid(call[c].id)
         \/ call[c].stage = "cached" /\ stage = "stale" /\ ~Valid(call[c].id)
         \/ call[c].stage # "idle" /\ stage \in {"refused", "failed"}
         \/ call[c].stage = "known" /\ stage = "touched"
         \/ call[c].stage = "touched" /\ stage = "served"
               /\ (Permitted \/ token[call[c].id].state = "deleted")
  PROVE  IInv'
<1>1. /\ call' \in [Calls -> Call]
      /\ call'[c].stage = stage /\ call'[c].raw = call[c].raw /\ call'[c].proc = call[c].proc
      /\ call'[c].id = call[c].id /\ call'[c].spent = call[c].spent
      /\ call'[c].barred = call[c].barred
      /\ \A d \in Calls \ {c} : call'[d] = call[d]
  BY CallKnown, StageMoves
<1>2. Named(token, call'[c])
  BY <1>1, CallKnown DEF Named, LiveIn, Valid
<1>3. Begun(token, Permitted, call'[c])
  <2>1. ASSUME stage = "known", Valid(call[c].id), call[c].stage = "cached", call[c].spent
        PROVE  FALSE
    BY <2>1, CallKnown, SpentNotValid DEF Named
  <2> QED BY <1>1, <2>1, CallKnown DEF Begun
<1> QED BY <1>1, <1>2, <1>3, CallStepKeeps

LEMMA ForgetKeeps ==
  ASSUME IInv, NEW c \in Calls, Forget(c)
  PROVE  IInv'
<1> DEFINE p == call[c].proc
           r == call[c].raw
<1>1. call[c].stage = "stale" /\ p \in Procs /\ r \in Raws /\ UNCHANGED <<token, strict, mfa>>
      /\ cache' = [cache EXCEPT ![p][r] = NoEntry] /\ Moves(c, "refused")
  BY CallKnown DEF Forget
<1>2. /\ call' \in [Calls -> Call]
      /\ call'[c].stage = "refused" /\ call'[c].raw = r /\ call'[c].proc = p
      /\ call'[c].id = call[c].id /\ call'[c].spent = call[c].spent
      /\ call'[c].barred = call[c].barred
      /\ \A d \in Calls \ {c} : call'[d] = call[d]
  BY <1>1, CallKnown, StageMoves
<1>3. Named(token, call'[c]) /\ Begun(token, Permitted, call'[c])
  BY <1>1, <1>2, CallKnown DEF Named, Begun
<1>4. cache' \in [Procs -> [Raws -> Entry]]
  BY <1>1, CallKnown, IdleTyped
<1>5. \A q \in Procs, s \in Raws : cache'[q][s] \in {cache[q][s], NoEntry}
  BY <1>1, CallKnown
<1>6. CachesName' /\ CacheBounded'
  BY <1>1, <1>4, <1>5, IdleTyped, CachesDrop
<1>7. \A d \in Calls : Named(token, call'[d]) /\ Begun(token, Permitted, call'[d])
  BY <1>2, <1>3 DEF IInv
<1> QED BY <1>1, <1>2, <1>4, <1>6, <1>7, CacheStepKeeps

LEMMA ScanKeeps ==
  ASSUME IInv, NEW c \in Calls, Scan(c)
  PROVE  IInv'
<1>1. call[c].stage = "missing" /\ UNCHANGED <<token, strict, mfa, cache>>
  BY DEF Scan
<1>2. CASE Moves(c, "refused")
  BY <1>1, <1>2, StageStepKeeps
<1>3. ASSUME NEW t \in Tokens, Valid(t), Matches(t, call[c].raw),
             call' = [call EXCEPT ![c] = [call[c] EXCEPT !.stage = "matched", !.id = t]]
      PROVE  IInv'
  <2> DEFINE y == [call[c] EXCEPT !.stage = "matched", !.id = t]
  <2>1. /\ y \in Call /\ y.stage = "matched" /\ y.id = t /\ y.raw = call[c].raw
        /\ y.proc = call[c].proc /\ y.spent = call[c].spent /\ y.barred = call[c].barred
    BY CallKnown DEF Call
  <2>2. ~call[c].spent
    BY <1>1, <1>3, CallKnown, SpentNotValid DEF Matches
  <2>3. Named(token, y) /\ Begun(token, Permitted, y)
    BY <1>1, <1>3, <2>1, <2>2, CallKnown DEF Named, Begun, Matches
  <2>4. call' = [call EXCEPT ![c] = y]
    BY <1>3
  <2> HIDE DEF y
  <2>5. call' \in [Calls -> Call] /\ call'[c] = y /\ \A d \in Calls \ {c} : call'[d] = call[d]
    BY <2>1, <2>4, CallKnown, CallMoves
  <2> QED BY <1>1, <2>3, <2>5, CallStepKeeps
<1>4. \/ Moves(c, "refused")
      \/ \E t \in Tokens :
           /\ Valid(t) /\ Matches(t, call[c].raw)
           /\ call' = [call EXCEPT ![c] = [call[c] EXCEPT !.stage = "matched", !.id = t]]
  BY DEF Scan
<1> QED BY <1>2, <1>3, <1>4

LEMMA RememberKeeps ==
  ASSUME IInv, NEW c \in Calls, Remember(c)
  PROVE  IInv'
<1> DEFINE p == call[c].proc
           r == call[c].raw
           t == call[c].id
           m == Remembered(p, r, t)
<1>1. call[c].stage = "matched" /\ p \in Procs /\ r \in Raws /\ t \in Tokens
      /\ token[t].hash = r /\ UNCHANGED <<token, strict, mfa>>
      /\ cache' = [cache EXCEPT ![p] = m] /\ Moves(c, "known")
  BY CallKnown DEF Remember, Named
<1>2. /\ call' \in [Calls -> Call]
      /\ call'[c].stage = "known" /\ call'[c].raw = r /\ call'[c].proc = p
      /\ call'[c].id = call[c].id /\ call'[c].spent = call[c].spent
      /\ call'[c].barred = call[c].barred
      /\ \A d \in Calls \ {c} : call'[d] = call[d]
  BY <1>1, CallKnown, StageMoves
<1>3. Named(token, call'[c]) /\ Begun(token, Permitted, call'[c])
  BY <1>1, <1>2, CallKnown DEF Named, Begun
<1>4. Cardinality(Cached(p)) <= MaxCached /\ TypeOK
  BY <1>1 DEF IInv, CacheBounded
<1>5. /\ m \in [Raws -> Entry] /\ m[r] = [id |-> t, fresh |-> TRUE]
      /\ \A q \in Raws \ {r} : m[q] \in {cache[p][q], NoEntry}
      /\ Cardinality({q \in Raws : m[q].id # None}) <= MaxCached
  BY <1>1, <1>4, RememberedBounded
<1> HIDE DEF m
<1>6. cache' \in [Procs -> [Raws -> Entry]] /\ cache'[p] = m
      /\ \A q \in Procs \ {p} : cache'[q] = cache[q]
  BY <1>1, <1>5, CallKnown
<1>7. CachesName'
  <2>1. \A q \in Raws :
          /\ m[q].fresh => m[q].id # None
          /\ m[q].id # None => token[m[q].id].hash = q
    <3> SUFFICES ASSUME NEW q \in Raws
                 PROVE  /\ m[q].fresh => m[q].id # None
                        /\ m[q].id # None => token[m[q].id].hash = q
      OBVIOUS
    <3>1. CASE q = r
      BY <1>1, <1>5, <3>1, Nones
    <3>2. CASE q # r
      BY <1>1, <1>5, <3>2, CallKnown, IdleTyped DEF CachesName
    <3> QED BY <3>1, <3>2
  <2> SUFFICES ASSUME NEW q \in Procs, NEW s \in Raws
               PROVE  /\ cache'[q][s].fresh => cache'[q][s].id # None
                      /\ cache'[q][s].id # None => token[cache'[q][s].id].hash = s
    BY <1>1 DEF CachesName
  <2>2. CASE q = p
    <3>1. cache'[q][s] = m[s]
      BY <1>6, <2>2
    <3>2. /\ m[s].fresh => m[s].id # None
          /\ m[s].id # None => token[m[s].id].hash = s
      BY <2>1
    <3> QED BY <3>1, <3>2, Zenon
  <2>3. CASE q # p
    BY <1>6, <2>3, CallKnown DEF CachesName
  <2> QED BY <2>2, <2>3
<1>8. CacheBounded'
  <2>1. \A q \in Procs : Cardinality({s \in Raws : cache'[q][s].id # None}) <= MaxCached
    <3> SUFFICES ASSUME NEW q \in Procs
                 PROVE  Cardinality({s \in Raws : cache'[q][s].id # None}) <= MaxCached
      OBVIOUS
    <3>1. CASE q = p
      BY <1>5, <1>6, <3>1
    <3>2. CASE q # p
      BY <1>6, <3>2 DEF IInv, CacheBounded, Cached
    <3> QED BY <3>1, <3>2
  <2> QED BY <2>1 DEF CacheBounded, Cached
<1>9. \A d \in Calls : Named(token, call'[d]) /\ Begun(token, Permitted, call'[d])
  BY <1>2, <1>3 DEF IInv
<1> QED BY <1>1, <1>2, <1>6, <1>7, <1>8, <1>9, CacheStepKeeps

(* Rows change, calls and caches do not. *)
LEMMA RowStepKeeps ==
  ASSUME IInv, token' \in [Tokens -> Row], HashesDiffer', Keep(token, token'), UNCHANGED <<strict, mfa, cache>>,
         call' \in [Calls -> Call], \A d \in Calls : Named(token, call'[d]) /\ Begun(token, Permitted, call'[d])
  PROVE  IInv'
<1>1. TypeOK'
  BY DEF IInv, TypeOK
<1>2. CacheBounded'
  BY DEF IInv, CacheBounded, Cached
<1>3. CachesName'
  <2> SUFFICES ASSUME NEW p \in Procs, NEW r \in Raws, cache[p][r].id # None
               PROVE  token'[cache[p][r].id].hash = r
    BY DEF IInv, CachesName
  <2>1. cache[p][r].id \in Tokens /\ token[cache[p][r].id].hash = r /\ r # None
    BY CallKnown, Nones DEF IInv, TypeOK, Entry, CachesName
  <2> QED BY <2>1 DEF Keep
<1>4. ASSUME NEW d \in Calls
      PROVE  Named(token', call'[d]) /\ Begun(token', Permitted', call'[d])
  <2>1. call'[d].barred => ~Permitted'
    BY DEF Begun, Permitted
  <2> QED BY <2>1, CallKeeps
<1> QED BY <1>1, <1>2, <1>3, <1>4 DEF IInv

LEMMA TouchKeeps ==
  ASSUME IInv, NEW c \in Calls, Touch(c)
  PROVE  IInv'
<1> DEFINE t == call[c].id
           y == [call[c] EXCEPT !.stage = "touched", !.touched = TRUE]
           v == [token[t] EXCEPT !.recent = TRUE]
<1>1. call[c].stage = "known" /\ t \in Tokens /\ UNCHANGED <<strict, mfa, cache>>
  BY CallKnown DEF Touch, Named
<1>2. CASE Moves(c, "touched") /\ UNCHANGED token
  BY <1>1, <1>2, StageStepKeeps
<1>3. CASE Moves(c, "failed") /\ UNCHANGED token
  BY <1>1, <1>3, StageStepKeeps
<1>4. CASE token' = [token EXCEPT ![t].recent = TRUE] /\ call' = [call EXCEPT ![c] = y]
  <2>1. /\ v \in Row /\ v.state = token[t].state /\ v.hash = token[t].hash
        /\ v.expired = token[t].expired
    BY <1>1, CallKnown DEF Row
  <2>2. token' = [token EXCEPT ![t] = v]
    BY <1>4
  <2>3. /\ y \in Call /\ y.stage = "touched" /\ y.raw = call[c].raw /\ y.proc = call[c].proc
        /\ y.id = call[c].id /\ y.spent = call[c].spent /\ y.barred = call[c].barred
    BY CallKnown DEF Call
  <2>4. call' = [call EXCEPT ![c] = y]
    BY <1>4
  <2> HIDE DEF v, y
  <2>5. /\ token' \in [Tokens -> Row]
        /\ \A u \in Tokens : /\ token'[u].state = token[u].state /\ token'[u].hash = token[u].hash
                             /\ token'[u].expired = token[u].expired
    BY <1>1, <2>1, <2>2, CallKnown
  <2>6. HashesDiffer' /\ Keep(token, token')
    BY <2>5, CallKnown DEF HashesDiffer, Keep, LiveIn
  <2>7. call' \in [Calls -> Call] /\ call'[c] = y /\ \A d \in Calls \ {c} : call'[d] = call[d]
    BY <2>3, <2>4, CallKnown, CallMoves
  <2>8. Named(token, y) /\ Begun(token, Permitted, y)
    BY <1>1, <2>3, CallKnown DEF Named, Begun
  <2>9. \A d \in Calls : Named(token, call'[d]) /\ Begun(token, Permitted, call'[d])
    BY <2>7, <2>8 DEF IInv
  <2> QED BY <1>1, <2>5, <2>6, <2>7, <2>9, RowStepKeeps
<1> QED BY <1>2, <1>3, <1>4 DEF Touch

LEMMA RowChanges ==
  ASSUME IInv, NEW t \in Tokens, NEW v \in Row, token' = [token EXCEPT ![t] = v],
         UNCHANGED <<strict, mfa, cache, call>>,
         v.state # "none" /\ v.hash # None,
         token[t].hash # None => v.hash = token[t].hash,
         token[t].hash = None => \A u \in Tokens : token[u].hash # v.hash,
         token[t].hash # None /\ ~LiveIn(token, t) => v.state # "live" \/ v.expired,
         token[t].state = "deleted" => v.state = "deleted"
  PROVE  IInv'
<1>1. /\ token' \in [Tokens -> Row] /\ token'[t] = v
      /\ \A u \in Tokens \ {t} : token'[u] = token[u]
  BY TablesKnown
<1>2. HashesDiffer'
  BY <1>1, TablesKnown DEF HashesDiffer
<1>3. Keep(token, token')
  BY <1>1 DEF Keep, LiveIn
<1>4. call' \in [Calls -> Call]
      /\ \A d \in Calls : Named(token, call'[d]) /\ Begun(token, Permitted, call'[d])
  BY DEF IInv, TypeOK
<1> QED BY <1>1, <1>2, <1>3, <1>4, RowStepKeeps

LEMMA DeleteOwnerKeeps ==
  ASSUME IInv, DeleteOwner
  PROVE  IInv'
<1>1. ASSUME NEW t \in Tokens
      PROVE  /\ [token[t] EXCEPT !.state = "deleted"] \in Row
             /\ [token[t] EXCEPT !.state = "deleted"].state = "deleted"
             /\ [token[t] EXCEPT !.state = "deleted"].hash = token[t].hash
  BY TablesKnown DEF Row
<1>2. token' = [t \in Tokens |-> IF token[t].state = "none" THEN token[t]
                                ELSE [token[t] EXCEPT !.state = "deleted"]]
      /\ UNCHANGED <<strict, mfa, cache, call>>
  BY DEF DeleteOwner
<1>3. /\ token' \in [Tokens -> Row]
      /\ \A t \in Tokens : /\ token'[t].hash = token[t].hash
                           /\ token[t].state = "none" => token'[t].state = "none"
                           /\ token[t].state # "none" => token'[t].state = "deleted"
  BY <1>1, <1>2, TablesKnown
<1>4. HashesDiffer' /\ Keep(token, token')
  BY <1>3, TablesKnown DEF HashesDiffer, Keep, LiveIn
<1>5. call' \in [Calls -> Call]
      /\ \A d \in Calls : Named(token, call'[d]) /\ Begun(token, Permitted, call'[d])
  BY <1>2 DEF IInv, TypeOK
<1> QED BY <1>2, <1>3, <1>4, <1>5, RowStepKeeps

LEMMA PolicyKeeps ==
  ASSUME IInv, SetPolicy
  PROVE  IInv'
<1>1. ASSUME NEW c \in Calls
      PROVE  /\ call'[c] \in Call /\ call'[c].stage = call[c].stage /\ call'[c].raw = call[c].raw
             /\ call'[c].id = call[c].id /\ call'[c].spent = call[c].spent
             /\ call'[c].proc = call[c].proc
             /\ call'[c].barred => call[c].barred /\ ~Permitted'
  <2>1. call'[c] = [call[c] EXCEPT !.barred = @ /\ strict' /\ ~mfa'] /\ call[c] \in Call
    BY CallKnown DEF SetPolicy
  <2> QED BY <2>1 DEF Call, Permitted
<1>2. call' \in [Calls -> Call] /\ UNCHANGED <<token, cache>> /\ strict' \in BOOLEAN /\ mfa' \in BOOLEAN
  BY <1>1 DEF SetPolicy
<1>3. \A c \in Calls : Named(token, call'[c]) /\ Begun(token, Permitted', call'[c])
  BY <1>1, CallKnown DEF Named, Begun
<1>4. TypeOK' /\ HashesDiffer' /\ CachesName' /\ CacheBounded'
  BY <1>2 DEF IInv, TypeOK, HashesDiffer, CachesName, CacheBounded, Cached
<1> QED BY <1>2, <1>3, <1>4 DEF IInv

LEMMA RestartKeeps ==
  ASSUME IInv, NEW p \in Procs, Restart(p)
  PROVE  IInv'
<1>1. /\ cache' = [cache EXCEPT ![p] = [r \in Raws |-> NoEntry]] /\ UNCHANGED <<token, strict, mfa>>
      /\ call' = [c \in Calls |-> IF call[c].proc = p THEN Idle ELSE call[c]]
  BY DEF Restart
<1>2. cache' \in [Procs -> [Raws -> Entry]]
      /\ \A q \in Procs, r \in Raws : cache'[q][r] \in {cache[q][r], NoEntry}
  BY <1>1, TablesKnown, IdleTyped
<1>3. CachesName' /\ CacheBounded'
  BY <1>1, <1>2, IdleTyped, CachesDrop
<1>4. Named(token, Idle) /\ Begun(token, Permitted, Idle)
  BY IdleTyped DEF Named, Begun
<1>5. call' \in [Calls -> Call]
      /\ \A d \in Calls : Named(token, call'[d]) /\ Begun(token, Permitted, call'[d])
  BY <1>1, <1>4, TablesKnown, IdleTyped DEF IInv
<1> QED BY <1>1, <1>2, <1>3, <1>5, CacheStepKeeps

LEMMA EntryAgesKeeps ==
  ASSUME IInv, NEW p \in Procs, NEW r \in Raws, EntryAges(p, r)
  PROVE  IInv'
<1> DEFINE e == [cache[p][r] EXCEPT !.fresh = FALSE]
<1>0. cache[p][r] \in Entry
  BY TablesKnown
<1>1. e \in Entry /\ ~e.fresh /\ e.id = cache[p][r].id
  BY <1>0 DEF Entry
<1>2. cache' = [cache EXCEPT ![p][r] = e] /\ UNCHANGED <<token, strict, mfa, call>>
  BY DEF EntryAges
<1> HIDE DEF e
<1>3. /\ cache' \in [Procs -> [Raws -> Entry]] /\ cache'[p][r] = e
      /\ \A q \in Procs, s \in Raws : q # p \/ s # r => cache'[q][s] = cache[q][s]
  BY <1>1, <1>2, TablesKnown
<1>4. CachesName' /\ CacheBounded'
  BY <1>1, <1>2, <1>3, CachesDrop
<1>5. call' \in [Calls -> Call]
      /\ \A d \in Calls : Named(token, call'[d]) /\ Begun(token, Permitted, call'[d])
  BY <1>2 DEF IInv, TypeOK
<1> QED BY <1>2, <1>3, <1>4, <1>5, CacheStepKeeps

(* The actions on one row of the table. *)
LEMMA RowActionsKeep ==
  ASSUME IInv, NEW t \in Tokens,
         Revoke(t) \/ Expire(t) \/ StampAges(t) \/ \E r \in Raws : Issue(t, r)
  PROVE  IInv'
<1>1. token[t] \in Row /\ (token[t].state = "none" <=> token[t].hash = None)
  BY TablesKnown DEF HashesDiffer
<1>2. CASE Revoke(t)
  <2> DEFINE v == [token[t] EXCEPT !.state = "revoked"]
  <2>1. v \in Row /\ v.state = "revoked" /\ v.hash = token[t].hash
    BY <1>1 DEF Row
  <2>2. token' = [token EXCEPT ![t] = v] /\ UNCHANGED <<strict, mfa, cache, call>>
        /\ token[t].state = "live"
    BY <1>2 DEF Revoke
  <2> HIDE DEF v
  <2> QED BY <1>1, <2>1, <2>2, RowChanges
<1>3. CASE Expire(t)
  <2> DEFINE v == [token[t] EXCEPT !.expired = TRUE]
  <2>1. v \in Row /\ v.expired /\ v.state = token[t].state /\ v.hash = token[t].hash
    BY <1>1 DEF Row
  <2>2. token' = [token EXCEPT ![t] = v] /\ UNCHANGED <<strict, mfa, cache, call>>
        /\ token[t].state = "live"
    BY <1>3 DEF Expire
  <2> HIDE DEF v
  <2> QED BY <1>1, <2>1, <2>2, RowChanges
<1>4. CASE StampAges(t)
  <2> DEFINE v == [token[t] EXCEPT !.recent = FALSE]
  <2>1. v \in Row /\ v.expired = token[t].expired /\ v.state = token[t].state
        /\ v.hash = token[t].hash
    BY <1>1 DEF Row
  <2>2. token' = [token EXCEPT ![t] = v] /\ UNCHANGED <<strict, mfa, cache, call>>
    BY <1>4 DEF StampAges
  <2> HIDE DEF v
  <2>3. token'[t] = v /\ token' \in [Tokens -> Row] /\ \A u \in Tokens \ {t} : token'[u] = token[u]
    BY <2>1, <2>2, TablesKnown
  <2>4. HashesDiffer' /\ Keep(token, token')
    BY <2>1, <2>3, TablesKnown DEF HashesDiffer, Keep, LiveIn
  <2>5. call' \in [Calls -> Call]
        /\ \A d \in Calls : Named(token, call'[d]) /\ Begun(token, Permitted, call'[d])
    BY <2>2 DEF IInv, TypeOK
  <2> QED BY <2>2, <2>3, <2>4, <2>5, RowStepKeeps
<1>5. ASSUME NEW r \in Raws, Issue(t, r)
      PROVE  IInv'
  <2> DEFINE v == [state |-> "live", hash |-> r, expired |-> FALSE, recent |-> FALSE]
  <2>1. v \in Row /\ v.state = "live" /\ v.hash = r /\ r # None
    BY Nones DEF Row
  <2>2. token' = [token EXCEPT ![t] = v] /\ UNCHANGED <<strict, mfa, cache, call>>
        /\ token[t].state = "none" /\ \A u \in Tokens : token[u].hash # r
    BY <1>5 DEF Issue
  <2> HIDE DEF v
  <2> QED BY <1>1, <2>1, <2>2, RowChanges
<1> QED BY <1>2, <1>3, <1>4, <1>5

LEMMA AnswerKeeps ==
  ASSUME IInv, NEW c \in Calls, Answer(c)
  PROVE  IInv'
<1>1. Named(token, Idle) /\ Begun(token, Permitted, Idle)
  BY IdleTyped DEF Named, Begun
<1>2. call' \in [Calls -> Call] /\ call'[c] = Idle /\ (\A d \in Calls \ {c} : call'[d] = call[d])
      /\ UNCHANGED <<token, strict, mfa, cache>>
  BY CallKnown, IdleTyped DEF Answer
<1>3. Named(token, call'[c]) /\ Begun(token, Permitted, call'[c])
  BY <1>1, <1>2
<1> QED BY <1>2, <1>3, CallStepKeeps

LEMMA InitIInv == Init => IInv
<1> SUFFICES ASSUME Init PROVE IInv
  OBVIOUS
<1>1. TypeOK
  BY IdleTyped DEF Init, TypeOK, Row
<1>2. HashesDiffer
  BY DEF Init, HashesDiffer
<1>3. CachesName
  BY IdleTyped DEF Init, CachesName
<1>4. \A c \in Calls : Named(token, call[c]) /\ Begun(token, Permitted, call[c])
  BY IdleTyped DEF Init, Named, Begun
<1>5. CacheBounded
  <2>1. \A p \in Procs : Cached(p) = {}
    BY IdleTyped DEF Init, Cached
  <2>2. Cardinality({}) = 0
    BY FS_EmptySet
  <2> QED BY <2>1, <2>2, TokenCacheAssumption DEF CacheBounded
<1> QED BY <1>1, <1>2, <1>3, <1>4, <1>5 DEF IInv

(* Every step keeps the invariant. *)
LEMMA NextKeeps ==
  ASSUME IInv, [Next]_vars
  PROVE  IInv'
<1>1. CASE UNCHANGED vars
  BY <1>1 DEF vars, IInv, TypeOK, HashesDiffer, CachesName, Named, Begun, CacheBounded, Cached,
              Permitted
<1>2. ASSUME NEW c \in Calls, LoadCached(c)
      PROVE  IInv'
  <2>1. call[c].stage = "cached" /\ UNCHANGED <<token, strict, mfa, cache>>
    BY <1>2 DEF LoadCached
  <2>2. CASE Valid(call[c].id)
    BY <1>2, <2>1, <2>2, StageStepKeeps DEF LoadCached
  <2>3. CASE ~Valid(call[c].id)
    BY <1>2, <2>1, <2>3, StageStepKeeps DEF LoadCached
  <2> QED BY <2>2, <2>3
<1>3. ASSUME NEW c \in Calls, EnforcePolicy(c)
      PROVE  IInv'
  <2>1. call[c].stage = "touched" /\ UNCHANGED <<token, strict, mfa, cache>>
    BY <1>3 DEF EnforcePolicy
  <2>2. \/ Moves(c, "failed") \/ Moves(c, "refused")
        \/ Moves(c, "served") /\ (Permitted \/ token[call[c].id].state = "deleted")
    BY <1>3 DEF EnforcePolicy
  <2> QED BY <2>1, <2>2, StageStepKeeps
<1>4. CASE \E c \in Calls :
             \/ \E p \in Procs, r \in Raws : Present(c, p, r)
             \/ Lookup(c) \/ LoadCached(c) \/ Forget(c) \/ Scan(c) \/ Remember(c)
             \/ Touch(c) \/ EnforcePolicy(c) \/ Answer(c)
  BY <1>2, <1>3, <1>4, PresentKeeps, LookupKeeps, ForgetKeeps, ScanKeeps, RememberKeeps,
     TouchKeeps, AnswerKeeps
<1>5. CASE \E p \in Procs : Restart(p) \/ \E r \in Raws : EntryAges(p, r)
  BY <1>5, RestartKeeps, EntryAgesKeeps
<1>6. CASE \E t \in Tokens : Revoke(t) \/ Expire(t) \/ StampAges(t) \/ \E r \in Raws : Issue(t, r)
  BY <1>6, RowActionsKeep
<1> QED BY <1>1, <1>4, <1>5, <1>6, DeleteOwnerKeeps, PolicyKeeps DEF Next

LEMMA Inductive == Spec => []IInv
<1>1. Init => IInv
  BY InitIInv
<1>2. IInv /\ [Next]_vars => IInv'
  BY NextKeeps
<1> QED BY <1>1, <1>2, PTL DEF Spec

-----------------------------------------------------------------------------
(* The direct check. *)

(* Rows behind a call whose token is known. *)
LEMMA BehindKnown ==
  ASSUME IInv, NEW t \in Tokens, NEW r, r # None, token[t].hash = r
  PROVE  Direct!Behind(r) # {} <=> Valid(t)
BY TablesKnown DEF Direct!Behind, Valid, HashesDiffer

(* What the direct check sees of a step that moves one call. *)
LEMMA OneMoves ==
  ASSUME NEW c \in Calls, call \in [Calls -> Call], call' \in [Calls -> Call],
         call'[c].raw = call[c].raw, \A d \in Calls \ {c} : call'[d] = call[d]
  PROVE  /\ [d \in Calls |-> call[d].raw]' = [d \in Calls |-> call[d].raw]
         /\ [d \in Calls |-> Verdict(d)]' =
              [[d \in Calls |-> Verdict(d)] EXCEPT ![c] = Verdict(c)']
         /\ Verdict(c)' = Verdict(c) =>
              [d \in Calls |-> Verdict(d)]' = [d \in Calls |-> Verdict(d)]
<1>1. \A d \in Calls : call'[d].raw = call[d].raw
  OBVIOUS
<1>2. \A d \in Calls \ {c} : Verdict(d)' = Verdict(d)
  BY DEF Verdict
<1> QED BY <1>1, <1>2

(* A step of one call, seen from the direct check: nothing, a check of the row,
   or a decision. *)
LEMMA StageStepMaps ==
  ASSUME IInv, NEW c \in Calls, NEW stage, Moves(c, stage), UNCHANGED <<token, strict, mfa>>,
         \/ call[c].stage = "lookup" /\ stage = "missing"
         \/ call[c].stage = "cached" /\ stage = "known" /\ Valid(call[c].id)
         \/ call[c].stage = "cached" /\ stage = "stale" /\ ~Valid(call[c].id)
         \/ call[c].stage = "stale" /\ stage = "refused"
         \/ /\ call[c].stage = "missing" /\ stage = "refused"
            /\ \A t \in Tokens : ~(Valid(t) /\ Matches(t, call[c].raw))
         \/ call[c].stage = "matched" /\ stage = "known"
         \/ call[c].stage = "known" /\ stage = "touched"
         \/ /\ call[c].stage \in {"known", "touched"} /\ stage = "failed"
            /\ token[call[c].id].state = "deleted"
         \/ call[c].stage = "touched" /\ stage = "refused" /\ ~Permitted
         \/ /\ call[c].stage = "touched" /\ stage = "served"
            /\ Permitted \/ token[call[c].id].state = "deleted"
  PROVE  [Direct!Next]_(Direct!vars)
<1> DEFINE raws == [d \in Calls |-> call[d].raw]
           verdicts == [d \in Calls |-> Verdict(d)]
<1>1. /\ call' \in [Calls -> Call]
      /\ call'[c].stage = stage /\ call'[c].raw = call[c].raw
      /\ \A d \in Calls \ {c} : call'[d] = call[d]
  BY CallKnown, StageMoves
<1>2. /\ raws' = raws /\ verdicts' = [verdicts EXCEPT ![c] = Verdict(c)']
      /\ Verdict(c)' = Verdict(c) => verdicts' = verdicts
  BY <1>1, CallKnown, OneMoves
<1>3. verdicts[c] = Verdict(c) /\ raws[c] = call[c].raw
  OBVIOUS
<1>4. call[c].raw # None /\ (call[c].stage \in {"cached", "known", "touched"} =>
                               call[c].id \in Tokens /\ token[call[c].id].hash = call[c].raw)
  BY CallKnown DEF Named
<1> HIDE DEF raws, verdicts
<1>5. CASE Verdict(c)' = Verdict(c)
  BY <1>2, <1>5 DEF Direct!vars, raws, verdicts
<1>6. CASE call[c].stage \in {"cached", "missing"} /\ stage \in {"known", "stale", "refused"}
  <2>1. Verdict(c) = "open" /\ Verdict(c)' = (IF stage = "known" THEN "valid" ELSE "refused")
    BY <1>1, <1>6 DEF Verdict
  <2>2. Direct!Behind(call[c].raw) # {} <=> stage = "known"
    <3>1. CASE call[c].stage = "cached"
      BY <1>4, <1>6, <3>1, BehindKnown
    <3>2. CASE call[c].stage = "missing"
      BY <1>6, <3>2 DEF Direct!Behind, Valid, Matches
    <3> QED BY <1>6, <3>1, <3>2
  <2>3. Direct!Check(c)
    BY <1>2, <1>3, <2>1, <2>2 DEF Direct!Check, raws, verdicts
  <2> QED BY <2>3 DEF Direct!Next
<1>7. CASE call[c].stage \in {"known", "touched"} /\ stage \in {"failed", "refused", "served"}
  <2>1. Verdict(c) = "valid" /\ Verdict(c)' = stage
    BY <1>1, <1>7 DEF Verdict
  <2>2. Direct!Permitted <=> Permitted
    BY DEF Direct!Permitted, Permitted
  <2>3. token[call[c].id].state = "deleted" =>
          \E t \in Tokens : token[t].hash = raws[c] /\ token[t].state = "deleted"
    BY <1>3, <1>4, <1>7
  <2>4. Direct!Decide(c)
    <3>1. CASE stage = "served" /\ Permitted
      BY <1>2, <1>3, <2>1, <2>2, <3>1 DEF Direct!Decide, raws, verdicts
    <3>2. CASE stage = "refused" /\ ~Permitted
      BY <1>2, <1>3, <2>1, <2>2, <3>2 DEF Direct!Decide, raws, verdicts
    <3>3. CASE stage \in {"served", "failed"} /\ token[call[c].id].state = "deleted"
      <4>1. verdicts[c] = "valid" /\ (\E t \in Tokens : token[t].hash = raws[c] /\ token[t].state = "deleted")
        BY <1>3, <2>1, <2>3, <3>3
      <4>2. \E v \in {"served", "failed"} : verdicts' = [verdicts EXCEPT ![c] = v]
        BY <1>2, <2>1, <3>3
      <4> QED BY <1>2, <4>1, <4>2 DEF Direct!Decide, raws, verdicts
    <3> QED BY <1>7, <3>1, <3>2, <3>3
  <2> QED BY <2>4 DEF Direct!Next
<1> QED BY <1>1, <1>5, <1>6, <1>7 DEF Verdict

LEMMA PresentMaps ==
  ASSUME IInv, NEW c \in Calls, NEW p \in Procs, NEW r \in Raws, Present(c, p, r)
  PROVE  Direct!Next
<1> DEFINE raws == [d \in Calls |-> call[d].raw]
           verdicts == [d \in Calls |-> Verdict(d)]
<1>1. /\ call[c].stage = "idle" /\ call'[c].stage = "lookup" /\ call'[c].raw = r
      /\ \A d \in Calls \ {c} : call'[d] = call[d]
      /\ UNCHANGED <<token, strict, mfa>>
  BY CallKnown DEF Present, Idle
<1>2. raws' = [raws EXCEPT ![c] = r]
  BY <1>1
<1>3. Verdict(c) = "none" /\ Verdict(c)' = "open" /\ \A d \in Calls \ {c} : Verdict(d)' = Verdict(d)
  BY <1>1 DEF Verdict
<1>4. verdicts' = [verdicts EXCEPT ![c] = "open"]
  BY <1>3
<1>5. Direct!Ask(c)
  BY <1>1, <1>2, <1>3, <1>4 DEF Direct!Ask
<1> QED BY <1>5 DEF Direct!Next

(* Calls are answered or lost. *)
LEMMA EndMaps ==
  ASSUME IInv, NEW C \in SUBSET Calls, UNCHANGED <<token, strict, mfa>>,
         \A d \in Calls : call'[d] = IF d \in C THEN Idle ELSE call[d]
  PROVE  Direct!Next
<1> DEFINE raws == [d \in Calls |-> call[d].raw]
           verdicts == [d \in Calls |-> Verdict(d)]
<1>1. raws' = [d \in Calls |-> IF d \in C THEN None ELSE raws[d]]
  BY IdleTyped
<1>2. \A d \in Calls : Verdict(d)' = IF d \in C THEN "none" ELSE Verdict(d)
  BY IdleTyped DEF Verdict
<1>3. verdicts' = [d \in Calls |-> IF d \in C THEN "none" ELSE verdicts[d]]
  BY <1>2
<1>4. Direct!End(C)
  BY <1>1, <1>3 DEF Direct!End
<1> QED BY <1>4 DEF Direct!Next

(* Every step is one of the direct check or none. *)
LEMMA NextMaps ==
  ASSUME IInv, [Next]_vars
  PROVE  [Direct!Next]_(Direct!vars)
<1>1. CASE UNCHANGED vars
  BY <1>1 DEF vars, Direct!vars, Verdict
<1>2. ASSUME NEW c \in Calls, Lookup(c)
      PROVE  [Direct!Next]_(Direct!vars)
  <2>1. call[c].stage = "lookup" /\ UNCHANGED <<token, strict, mfa>>
    BY <1>2 DEF Lookup
  <2>2. CASE Moves(c, "missing")
    BY <2>1, <2>2, StageStepMaps
  <2>3. CASE call' = [call EXCEPT ![c] = [call[c] EXCEPT !.stage = "cached",
                                           !.id = cache[call[c].proc][call[c].raw].id]]
             /\ cache[call[c].proc][call[c].raw].fresh
    <3> DEFINE y == [call[c] EXCEPT !.stage = "cached", !.id = cache[call[c].proc][call[c].raw].id]
    <3>1. cache[call[c].proc][call[c].raw].id \in Tokens
      BY <2>1, <2>3, CallKnown DEF CachesName, Entry
    <3>2. y \in Call /\ y.stage = "cached" /\ y.raw = call[c].raw
      BY <3>1, CallKnown DEF Call
    <3>3. call' = [call EXCEPT ![c] = y]
      BY <2>3
    <3> HIDE DEF y
    <3>4. call' \in [Calls -> Call] /\ call'[c] = y /\ \A d \in Calls \ {c} : call'[d] = call[d]
      BY <3>2, <3>3, CallKnown, CallMoves
    <3>5. Verdict(c)' = Verdict(c)
      BY <2>1, <3>2, <3>4 DEF Verdict
    <3> QED BY <2>1, <3>2, <3>4, <3>5, CallKnown, OneMoves DEF Direct!vars
  <2> QED BY <1>2, <2>2, <2>3 DEF Lookup
<1>3. ASSUME NEW c \in Calls, LoadCached(c)
      PROVE  [Direct!Next]_(Direct!vars)
  <2>1. call[c].stage = "cached" /\ UNCHANGED <<token, strict, mfa>>
    BY <1>3 DEF LoadCached
  <2>2. CASE Valid(call[c].id)
    BY <1>3, <2>1, <2>2, StageStepMaps DEF LoadCached
  <2>3. CASE ~Valid(call[c].id)
    BY <1>3, <2>1, <2>3, StageStepMaps DEF LoadCached
  <2> QED BY <2>2, <2>3
<1>4. ASSUME NEW c \in Calls, Forget(c) \/ Remember(c)
      PROVE  [Direct!Next]_(Direct!vars)
  BY <1>4, StageStepMaps DEF Forget, Remember
<1>5. ASSUME NEW c \in Calls, Scan(c)
      PROVE  [Direct!Next]_(Direct!vars)
  <2>1. call[c].stage = "missing" /\ UNCHANGED <<token, strict, mfa>>
    BY <1>5 DEF Scan
  <2>2. CASE Moves(c, "refused") /\ \A t \in Tokens : ~(Valid(t) /\ Matches(t, call[c].raw))
    BY <2>1, <2>2, StageStepMaps
  <2>3. ASSUME NEW t \in Tokens, Valid(t), Matches(t, call[c].raw),
               call' = [call EXCEPT ![c] = [call[c] EXCEPT !.stage = "matched", !.id = t]]
        PROVE  [Direct!Next]_(Direct!vars)
    <3> DEFINE y == [call[c] EXCEPT !.stage = "matched", !.id = t]
               raws == [d \in Calls |-> call[d].raw]
               verdicts == [d \in Calls |-> Verdict(d)]
    <3>1. y \in Call /\ y.stage = "matched" /\ y.raw = call[c].raw
      BY CallKnown DEF Call
    <3>2. call' = [call EXCEPT ![c] = y]
      BY <2>3
    <3> HIDE DEF y
    <3>3. call' \in [Calls -> Call] /\ call'[c] = y /\ \A d \in Calls \ {c} : call'[d] = call[d]
      BY <3>1, <3>2, CallKnown, CallMoves
    <3>4. Verdict(c) = "open" /\ Verdict(c)' = "valid"
      BY <2>1, <3>1, <3>3 DEF Verdict
    <3>5. raws' = raws /\ verdicts' = [verdicts EXCEPT ![c] = "valid"]
      BY <3>1, <3>3, <3>4, CallKnown, OneMoves
    <3>6. Direct!Behind(raws[c]) # {}
      BY <2>3 DEF Direct!Behind, Valid, Matches
    <3>7. Direct!Check(c)
      BY <2>1, <3>4, <3>5, <3>6 DEF Direct!Check
    <3> QED BY <3>7 DEF Direct!Next
  <2> QED BY <1>5, <2>2, <2>3 DEF Scan
<1>6. ASSUME NEW c \in Calls, Touch(c)
      PROVE  [Direct!Next]_(Direct!vars)
  <2> DEFINE t == call[c].id
             y == [call[c] EXCEPT !.stage = "touched", !.touched = TRUE]
  <2>1. call[c].stage = "known" /\ t \in Tokens /\ UNCHANGED <<strict, mfa>>
    BY <1>6, CallKnown DEF Touch, Named
  <2>2. CASE Moves(c, "touched") /\ UNCHANGED token
    BY <2>1, <2>2, StageStepMaps
  <2>3. CASE Moves(c, "failed") /\ UNCHANGED token /\ token[t].state = "deleted"
    BY <2>1, <2>3, StageStepMaps
  <2>4. CASE token' = [token EXCEPT ![t].recent = TRUE] /\ call' = [call EXCEPT ![c] = y]
    <3> DEFINE v == [token[t] EXCEPT !.recent = TRUE]
               raws == [d \in Calls |-> call[d].raw]
               verdicts == [d \in Calls |-> Verdict(d)]
    <3>1. v.state = token[t].state /\ v.hash = token[t].hash /\ v.expired = token[t].expired
      BY <2>1, TablesKnown DEF Row
    <3>2. token' = [token EXCEPT ![t] = v] /\ call' = [call EXCEPT ![c] = y]
      BY <2>4
    <3>3. y \in Call /\ y.stage = "touched" /\ y.raw = call[c].raw
      BY CallKnown DEF Call
    <3> HIDE DEF v, y
    <3>4. \A u \in Tokens : /\ token'[u].state = token[u].state
                            /\ token'[u].hash = token[u].hash
                            /\ token'[u].expired = token[u].expired
      BY <2>1, <3>1, <3>2, TablesKnown
    <3>5. call' \in [Calls -> Call] /\ call'[c] = y /\ \A d \in Calls \ {c} : call'[d] = call[d]
      BY <3>2, <3>3, CallKnown, CallMoves
    <3>6. Verdict(c)' = Verdict(c)
      BY <2>1, <3>3, <3>5 DEF Verdict
    <3>7. raws' = raws /\ verdicts' = verdicts
      BY <3>3, <3>5, <3>6, CallKnown, OneMoves
    <3>8. Direct!Elsewhere
      BY <3>4, <3>7 DEF Direct!Elsewhere
    <3> QED BY <3>8 DEF Direct!Next
  <2> QED BY <1>6, <2>2, <2>3, <2>4 DEF Touch
<1>7. ASSUME NEW c \in Calls, EnforcePolicy(c)
      PROVE  [Direct!Next]_(Direct!vars)
  <2>1. call[c].stage = "touched" /\ UNCHANGED <<token, strict, mfa>>
    BY <1>7 DEF EnforcePolicy
  <2>2. \/ Moves(c, "failed") /\ token[call[c].id].state = "deleted"
        \/ Moves(c, "refused") /\ ~Permitted
        \/ Moves(c, "served") /\ (Permitted \/ token[call[c].id].state = "deleted")
    BY <1>7 DEF EnforcePolicy
  <2> QED BY <2>1, <2>2, StageStepMaps
<1>8. ASSUME NEW c \in Calls, Answer(c)
      PROVE  [Direct!Next]_(Direct!vars)
  <2>1. \A d \in Calls : call'[d] = IF d \in {c} THEN Idle ELSE call[d]
    BY <1>8, CallKnown DEF Answer
  <2> QED BY <1>8, <2>1, EndMaps DEF Answer
<1>9. ASSUME NEW p \in Procs, Restart(p)
      PROVE  [Direct!Next]_(Direct!vars)
  <2> DEFINE C == {d \in Calls : call[d].proc = p}
  <2>1. \A d \in Calls : call'[d] = IF d \in C THEN Idle ELSE call[d]
    BY <1>9 DEF Restart
  <2> QED BY <1>9, <2>1, EndMaps DEF Restart
<1>10. ASSUME NEW p \in Procs, NEW r \in Raws, EntryAges(p, r)
       PROVE  [Direct!Next]_(Direct!vars)
  BY <1>10 DEF EntryAges, Direct!vars, Verdict
<1>11. CASE \E t \in Tokens : Revoke(t) \/ Expire(t) \/ StampAges(t) \/ \E r \in Raws : Issue(t, r)
  <2>1. PICK t \in Tokens : Revoke(t) \/ Expire(t) \/ StampAges(t) \/ \E r \in Raws : Issue(t, r)
    BY <1>11
  <2>2. token[t] \in Row /\ (\A u \in Tokens \ {t} : token'[u] = token[u])
        /\ (token[t].state # "none" => /\ token'[t].hash = token[t].hash
                                       /\ token[t].state # "live" => token'[t].state # "live"
                                       /\ token[t].expired => token'[t].expired)
    <3>1. token[t] \in Row /\ token \in [Tokens -> Row]
      BY TablesKnown
    <3>2. CASE Revoke(t)
      BY <3>1, <3>2 DEF Revoke, Row
    <3>3. CASE Expire(t)
      BY <3>1, <3>3 DEF Expire, Row
    <3>4. CASE StampAges(t)
      BY <3>1, <3>4 DEF StampAges, Row
    <3>5. CASE \E r \in Raws : Issue(t, r)
      BY <3>1, <3>5 DEF Issue
    <3> QED BY <2>1, <3>1, <3>2, <3>3, <3>4, <3>5
  <2>3. \A u \in Tokens : token[u].state # "none" =>
          /\ token'[u].hash = token[u].hash
          /\ token[u].state # "live" => token'[u].state # "live"
          /\ token[u].expired => token'[u].expired
    <3> SUFFICES ASSUME NEW u \in Tokens, token[u].state # "none"
                 PROVE  /\ token'[u].hash = token[u].hash
                        /\ token[u].state # "live" => token'[u].state # "live"
                        /\ token[u].expired => token'[u].expired
      OBVIOUS
    <3>1. CASE u = t
      BY <2>2, <3>1
    <3>2. CASE u # t
      BY <2>2, <3>2
    <3> QED BY <3>1, <3>2
  <2>4. UNCHANGED call
    BY <2>1 DEF Revoke, Expire, StampAges, Issue
  <2>5. Direct!Elsewhere
    BY <2>3, <2>4 DEF Direct!Elsewhere, Verdict
  <2> QED BY <2>5 DEF Direct!Next
<1>12. CASE DeleteOwner
  <2>1. UNCHANGED call /\ \A t \in Tokens : token[t].state # "none" =>
          token'[t] = [token[t] EXCEPT !.state = "deleted"] /\ token[t] \in Row
    BY <1>12, TablesKnown DEF DeleteOwner
  <2>2. \A t \in Tokens : token[t].state # "none" =>
          /\ token'[t].hash = token[t].hash
          /\ token[t].state # "live" => token'[t].state # "live"
          /\ token[t].expired => token'[t].expired
    BY <2>1 DEF Row
  <2>3. Direct!Elsewhere
    BY <2>1, <2>2 DEF Direct!Elsewhere, Verdict
  <2> QED BY <2>3 DEF Direct!Next
<1>13. CASE SetPolicy
  <2>1. \A d \in Calls : call'[d].raw = call[d].raw /\ call'[d].stage = call[d].stage
    BY <1>13, TablesKnown DEF SetPolicy, Call
  <2>2. Direct!Elsewhere
    BY <1>13, <2>1 DEF Direct!Elsewhere, Verdict, SetPolicy
  <2> QED BY <2>2 DEF Direct!Next
<1> QED
  BY <1>1, <1>2, <1>3, <1>4, <1>5, <1>6, <1>7, <1>8, <1>9, <1>10, <1>11, <1>12, <1>13,
     PresentMaps DEF Next

-----------------------------------------------------------------------------
(* The theorems. *)

(* Rows, caches and calls keep their shape. *)
THEOREM TypeCorrect == Spec => []TypeOK
<1>1. IInv => TypeOK
  BY DEF IInv
<1> QED BY <1>1, Inductive, PTL

(* A call that began with a token revoked, expired or deleted is not served,
   whatever the caches hold (_resolve_token). *)
THEOREM RevocationsHold == Spec => []RevocationImmediate
<1>1. IInv => RevocationImmediate
  BY DEF IInv, Begun, RevocationImmediate
<1> QED BY <1>1, Inductive, PTL

(* A policy in force for the whole of a call keeps it out, unless the owner of
   the token is gone (_enforce_organization_policy). *)
THEOREM PoliciesHold == Spec => []PolicyHolds
<1>1. IInv => PolicyHolds
  BY DEF IInv, Begun, PolicyHolds
<1> QED BY <1>1, Inductive, PTL

(* No cache grows beyond CACHE_MAX_ENTRIES (_remember). *)
THEOREM CachesBounded == Spec => []CacheBounded
<1>1. IInv => CacheBounded
  BY DEF IInv
<1> QED BY <1>1, Inductive, PTL

(* The cached check grants and refuses as one that looks every token up. *)
THEOREM ImplementsDirect == Spec => ChecksLikeDirect
<1>1. Init => Direct!Init
  BY IdleTyped DEF Init, Direct!Init, Verdict
<1>2. IInv /\ [Next]_vars => [Direct!Next]_(Direct!vars)
  BY NextMaps
<1> QED BY <1>1, <1>2, Inductive, PTL DEF Spec, Direct!Spec, ChecksLikeDirect
=============================================================================
