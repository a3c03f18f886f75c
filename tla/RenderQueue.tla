----------------------------- MODULE RenderQueue -----------------------------
(***************************************************************************)
(* The render queue and cache: scopemaker/services/render_queue.py, the    *)
(* RenderJob row of models/render.py and the download handlers of          *)
(* blueprints/exports/routes.py.                                           *)
(*                                                                         *)
(* One scope and one format are modelled: every query of the cache filters *)
(* on both, so rows of other documents only share the workers.  A document *)
(* state is a model value, everything the exhibit prints; Fingerprint says *)
(* which states fingerprint() tells apart.  Each action is what one        *)
(* process does between two database commits (READ COMMITTED), so any two  *)
(* actions of different processes may interleave as in production.         *)
(***************************************************************************)
EXTENDS Naturals, FiniteSets

CONSTANTS
  Docs,         (* states the scope's document can be in                   *)
  Keys,         (* the hashes fingerprint() returns                        *)
  Fingerprint,  (* the hash of each state: it covers the scope, its lines, *)
                (* the package, the company and the project, but not the   *)
                (* project's contractor, which is printed all the same     *)
  Oversized,    (* the states that render to more than MAX_RESULT_BYTES    *)
  Clients,      (* browsers with a download in progress                    *)
  Workers,      (* `flask run-worker` processes                            *)
  Modes,        (* RENDER_ASYNC of the web processes: "inline", "async"    *)
  MAX_ATTEMPTS, (* models/render.py:59                                     *)
  MaxJobs,      (* bound: rows ever inserted                               *)
  MaxEdits,     (* bound: edits of the document                            *)
  MaxCrashes,   (* bound: processes killed from outside                    *)
  None,         (* SQL NULL: no worker, no result, no document             *)
  Failed        (* the renderer raised                                     *)

ASSUME QueueAssumption ==
  /\ Oversized \subseteq Docs
  /\ Fingerprint \in [Docs -> Keys]
  /\ None \notin Docs \union Workers \union Keys
  /\ Failed \notin Docs \union {None}
  /\ Modes \subseteq {"inline", "async"}
  /\ MAX_ATTEMPTS \in Nat \ {0}
  /\ MaxJobs \in Nat /\ MaxEdits \in Nat /\ MaxCrashes \in Nat
  /\ IsFiniteSet(Workers)

VARIABLES
  doc,          (* current state of the document; None once deleted        *)
  jobs,         (* the render_jobs table, in creation order                *)
  req,          (* one download request per client                         *)
  wrk,          (* the worker processes                                    *)
  clock,        (* stamps handed out so far, for finished_at               *)
  edits,        (* edits made so far                                       *)
  crashes,      (* crashes so far                                          *)
  queuings,     (* history: how often each row was put in the queue        *)
  inlined,      (* history: rows inserted by an inline render              *)
  overtaken     (* history: rows whose document was edited under a render  *)

vars == <<doc, jobs, req, wrk, clock, edits, crashes, queuings, inlined, overtaken>>
env == <<edits, crashes>>
hist == <<queuings, inlined, overtaken>>

JobIds == 1..MaxJobs
Live == {"queued", "running"}
Present == Live \union {"complete", "failed"}

(* A row before its INSERT; `finished` orders finished_at stamps. *)
NoRow == [status |-> "new", key |-> None, attempts |-> 0, worker |-> None,
          started |-> "none", finished |-> 0, expires |-> "none", result |-> None]

Row == [status : Present \union {"new", "gone"}, key : Keys \union {None},
        attempts : Nat, worker : Workers \union {None},
        started : {"none", "recent", "old"}, finished : Nat,
        expires : {"none", "future", "past"}, result : Docs \union {None}]

IdleRequest == [pc |-> "idle", key |-> None, job |-> 0, out |-> None, moved |-> FALSE]

Request == [pc : {"idle", "missed", "insert", "render", "store", "again", "polling", "served"},
            key : Keys \union {None}, job : JobIds \union {0},
            out : Docs \union {None, Failed}, moved : BOOLEAN]

FreshWorker == [pc |-> "scan", job |-> 0, out |-> None, back |-> {}, drop |-> {}]

Worker == [pc : {"scan", "sweep", "pick", "claim", "render", "store", "idle", "dead"},
           job : JobIds \union {0}, out : Docs \union {None, Failed},
           back : SUBSET JobIds, drop : SUBSET JobIds]

(* Worker type: the states of each process and the shape of each row. *)
TypeOK ==
  /\ doc \in Docs \union {None}
  /\ jobs \in [JobIds -> Row]
  /\ req \in [Clients -> Request]
  /\ wrk \in [Workers -> Worker]
  /\ clock \in Nat
  /\ edits \in 0..MaxEdits
  /\ crashes \in 0..MaxCrashes
  /\ queuings \in [JobIds -> Nat]
  /\ inlined \subseteq JobIds
  /\ overtaken \subseteq JobIds

-----------------------------------------------------------------------------
(* Queries and row updates. *)

(* Mutant: the query forgets to filter on the fingerprint. *)
CompleteAnyState(k) == {j \in JobIds : jobs[j].status = "complete"}

Complete(k) == {j \in JobIds : jobs[j].status = "complete" /\ jobs[j].key = k}

(* cached(): the newest completed row for the fingerprint, if its bytes were
   kept and have not expired. *)
Cached(k) ==
  {j \in Complete(k) : /\ \A i \in Complete(k) : jobs[i].finished <= jobs[j].finished
                       /\ jobs[j].result # None
                       /\ jobs[j].expires # "past"}

(* pending(): a row queued or running for the fingerprint. *)
Pending(k) == {j \in JobIds : jobs[j].status \in Live /\ jobs[j].key = k}

Queued == {j \in JobIds : jobs[j].status = "queued"}

(* Mutant: a NULL started_at counts as stale. *)
StaleIfNull == {j \in JobIds : jobs[j].status = "running" /\ jobs[j].started # "recent"}

(* Mutant: whatever its status, an old row is stale. *)
StaleAnyStatus == {j \in JobIds : jobs[j].started = "old"}

Stale == {j \in JobIds : jobs[j].status = "running" /\ jobs[j].started = "old"}

(* Rows are created in the order of their numbers. *)
Oldest(j, S) == j \in S /\ \A i \in S : j <= i

NewIds == {j \in JobIds : jobs[j].status = "new"}

(* mark_complete and mark_failed; `clock` is utcnow() as far as finished_at needs it. *)
MarkComplete(row, out) ==
  [row EXCEPT !.status = "complete", !.finished = clock, !.expires = "future",
              !.worker = None, !.result = IF out \in Oversized THEN None ELSE out]

MarkFailed(row) ==
  [row EXCEPT !.status = "failed", !.finished = clock, !.worker = None]

Requeue(row) ==
  [row EXCEPT !.status = "queued", !.worker = None, !.started = "none"]

(* What render_now() commits: mark_complete, or mark_failed if it raised. *)
Finish(row, out) == IF out = Failed THEN MarkFailed(row) ELSE MarkComplete(row, out)

-----------------------------------------------------------------------------
(* The download request. *)

(* Fingerprint the document and look for finished bytes: any state with the
   same fingerprint will do. *)
Lookup(c) ==
  /\ req[c].pc = "idle"
  /\ doc # None
  /\ \/ \E j \in Cached(Fingerprint[doc]) :
          req' = [req EXCEPT ![c] = [pc |-> "served", key |-> Fingerprint[doc], job |-> j,
                                     out |-> jobs[j].result, moved |-> FALSE]]
     \/ /\ Cached(Fingerprint[doc]) = {}
        /\ req' = [req EXCEPT ![c] = [IdleRequest EXCEPT !.pc = "missed",
                                                         !.key = Fingerprint[doc]]]
  /\ UNCHANGED <<doc, jobs, wrk, env, clock, hist>>

(* enqueue(), first half: return the job already doing this exact work. *)
EnqueueFind(c) ==
  /\ "async" \in Modes
  /\ req[c].pc = "missed"
  /\ \/ \E j \in Pending(req[c].key) :
          req' = [req EXCEPT ![c].pc = "polling", ![c].job = j]
     \/ /\ Pending(req[c].key) = {}
        /\ req' = [req EXCEPT ![c].pc = "insert"]
  /\ UNCHANGED <<doc, jobs, wrk, env, clock, hist>>

InsertRow(c, j, status) ==
  /\ Oldest(j, NewIds)
  /\ doc # None
  /\ jobs' = [jobs EXCEPT ![j] = [NoRow EXCEPT !.status = status, !.key = req[c].key]]
  /\ overtaken' = IF req[c].moved THEN overtaken \union {j} ELSE overtaken
  /\ req' = [req EXCEPT ![c].job = j,
                        ![c].pc = IF status = "queued" THEN "polling" ELSE "render"]

(* The request ends in an error page: the document is gone (404, or the
   INSERT or UPDATE finds no row), and nothing is written. *)
RequestError(c) ==
  /\ \/ req[c].pc \in {"missed", "insert", "render", "again"} /\ doc = None
     \/ req[c].pc = "store" /\ jobs[req[c].job].status = "gone"
     \/ req[c].pc = "polling" /\ jobs[req[c].job].status \in {"gone", "failed"}
  /\ req' = [req EXCEPT ![c] = IdleRequest]
  /\ UNCHANGED <<doc, jobs, wrk, env, clock, hist>>

(* enqueue(), second half: INSERT a queued row, commit, redirect to its page. *)
EnqueueInsert(c) ==
  /\ req[c].pc = "insert"
  /\ \E j \in JobIds : /\ InsertRow(c, j, "queued")
                       /\ queuings' = [queuings EXCEPT ![j] = 1]
  /\ UNCHANGED <<doc, wrk, env, inlined, clock>>

(* Without RENDER_ASYNC the request inserts the row already running. *)
InlineInsert(c) ==
  /\ "inline" \in Modes
  /\ req[c].pc = "missed"
  /\ \E j \in JobIds : /\ InsertRow(c, j, "running")
                       /\ inlined' = inlined \union {j}
  /\ UNCHANGED <<doc, wrk, env, queuings, clock>>

(* render_now() in the request: the commit expired the session, so what is
   rendered is the document as it is now; the renderer may raise. *)
InlineRender(c) ==
  /\ req[c].pc = "render"
  /\ doc # None
  /\ \E out \in {doc, Failed} :
       req' = [req EXCEPT ![c].pc = "store", ![c].out = out]
  /\ UNCHANGED <<doc, jobs, wrk, env, clock, hist>>

(* Commit the outcome and serve it; an oversized document is rendered again. *)
InlineStore(c) ==
  LET r == req[c] IN
  /\ r.pc = "store"
  /\ jobs[r.job].status # "gone"
  /\ jobs' = [jobs EXCEPT ![r.job] = [Finish(@, r.out) EXCEPT !.started = "recent"]]
  /\ req' = [req EXCEPT ![c] =
       IF r.out = Failed THEN IdleRequest
       ELSE [r EXCEPT !.pc = IF r.out \in Oversized THEN "again" ELSE "served"]]
  /\ clock' = clock + 1
  /\ UNCHANGED <<doc, wrk, env, hist>>

InlineAgain(c) ==
  /\ req[c].pc = "again"
  /\ doc # None
  /\ req' = [req EXCEPT ![c].pc = "served", ![c].out = doc]
  /\ UNCHANGED <<doc, jobs, wrk, env, clock, hist>>

(* job_status and job_state: serve the bytes once they are there.  A failed or
   deleted job is RequestError; otherwise the waiting page stays. *)
Poll(c) ==
  LET j == req[c].job IN
  /\ req[c].pc = "polling"
  /\ jobs[j].status = "complete"
  /\ jobs[j].result # None
  /\ req' = [req EXCEPT ![c].pc = "served", ![c].out = jobs[j].result]
  /\ UNCHANGED <<doc, jobs, wrk, env, clock, hist>>

(* The waiting page stops polling after two minutes; a served client leaves. *)
Leave(c) ==
  /\ req[c].pc \in {"polling", "served"}
  /\ req' = [req EXCEPT ![c] = IdleRequest]
  /\ UNCHANGED <<doc, jobs, wrk, env, clock, hist>>

(* The web process is killed in the middle of the request. *)
RequestCrash(c) ==
  /\ req[c].pc \in {"insert", "render", "store", "again"}
  /\ crashes < MaxCrashes
  /\ crashes' = crashes + 1
  /\ req' = [req EXCEPT ![c] = IdleRequest]
  /\ UNCHANGED <<doc, jobs, wrk, edits, clock, hist>>

-----------------------------------------------------------------------------
(* The worker loop. *)

(* Mutant: every stale job gets another attempt. *)
ScanRetriesAll(w) ==
  /\ wrk[w].pc = "scan"
  /\ wrk' = [wrk EXCEPT ![w] =
       [FreshWorker EXCEPT !.pc = IF Stale = {} THEN "pick" ELSE "sweep", !.back = Stale]]
  /\ UNCHANGED <<doc, jobs, req, env, clock, hist>>

(* Mutant: only jobs out of attempts are swept. *)
ScanGiveUpOnly(w) ==
  LET spent == {j \in Stale : jobs[j].attempts >= MAX_ATTEMPTS} IN
  /\ wrk[w].pc = "scan"
  /\ wrk' = [wrk EXCEPT ![w] =
       [FreshWorker EXCEPT !.pc = IF spent = {} THEN "pick" ELSE "sweep", !.drop = spent]]
  /\ UNCHANGED <<doc, jobs, req, env, clock, hist>>

(* requeue_stale(), its SELECT: what to do with each row is decided here. *)
Scan(w) ==
  /\ wrk[w].pc = "scan"
  /\ wrk' = [wrk EXCEPT ![w] =
       [FreshWorker EXCEPT
          !.pc = IF Stale = {} THEN "pick" ELSE "sweep",
          !.drop = {j \in Stale : jobs[j].attempts >= MAX_ATTEMPTS},
          !.back = {j \in Stale : jobs[j].attempts < MAX_ATTEMPTS}]]
  /\ UNCHANGED <<doc, jobs, req, env, clock, hist>>

(* requeue_stale(), its commit: UPDATEs by primary key alone. *)
Sweep(w) ==
  /\ wrk[w].pc = "sweep"
  /\ \A j \in wrk[w].back \union wrk[w].drop : jobs[j].status # "gone"
  /\ jobs' = [j \in JobIds |-> IF j \in wrk[w].drop THEN MarkFailed(jobs[j])
                                ELSE IF j \in wrk[w].back THEN Requeue(jobs[j])
                                ELSE jobs[j]]
  /\ queuings' = [j \in JobIds |->
                    IF j \in wrk[w].back THEN queuings[j] + 1 ELSE queuings[j]]
  /\ wrk' = [wrk EXCEPT ![w] = [FreshWorker EXCEPT !.pc = "pick"]]
  /\ clock' = clock + 1
  /\ UNCHANGED <<doc, req, env, inlined, overtaken>>

(* claim_one(), its SELECT: the oldest queued row. *)
Pick(w) ==
  /\ wrk[w].pc = "pick"
  /\ \/ Queued = {} /\ wrk' = [wrk EXCEPT ![w].pc = "idle"]
     \/ \E j \in JobIds :
          Oldest(j, Queued) /\ wrk' = [wrk EXCEPT ![w].pc = "claim", ![w].job = j]
  /\ UNCHANGED <<doc, jobs, req, env, clock, hist>>

Claimed(w, row) ==
  [row EXCEPT !.status = "running", !.worker = w, !.started = "recent",
              !.attempts = @ + 1]

(* Mutant: UPDATE by primary key, without the status condition. *)
ClaimUnconditional(w) ==
  /\ wrk[w].pc = "claim"
  /\ jobs' = [jobs EXCEPT ![wrk[w].job] = Claimed(w, @)]
  /\ wrk' = [wrk EXCEPT ![w].pc = "render"]
  /\ UNCHANGED <<doc, req, env, clock, hist>>

(* claim_one(), its conditional UPDATE: zero rows means somebody else got it. *)
Claim(w) ==
  LET j == wrk[w].job IN
  /\ wrk[w].pc = "claim"
  /\ \/ /\ jobs[j].status = "queued"
        /\ jobs' = [jobs EXCEPT ![j] = Claimed(w, @)]
        /\ wrk' = [wrk EXCEPT ![w].pc = "render"]
     \/ /\ jobs[j].status # "queued"
        /\ wrk' = [wrk EXCEPT ![w] = [FreshWorker EXCEPT !.pc = "idle"]]
        /\ UNCHANGED jobs
  /\ UNCHANGED <<doc, req, env, clock, hist>>

(* Nothing claimed: every 30th idle cycle purge_expired() runs. *)
Idle(w) ==
  /\ wrk[w].pc = "idle"
  /\ \/ UNCHANGED jobs
     \/ jobs' = [j \in JobIds |-> IF jobs[j].expires = "past"
                                  THEN [NoRow EXCEPT !.status = "gone"] ELSE jobs[j]]
  /\ wrk' = [wrk EXCEPT ![w] = FreshWorker]
  /\ UNCHANGED <<doc, req, env, clock, hist>>

(* render_now(): render the document as it is now, whatever was enqueued. *)
Render(w) ==
  /\ wrk[w].pc = "render"
  /\ \E out \in IF doc = None THEN {Failed} ELSE {doc, Failed} :
       wrk' = [wrk EXCEPT ![w].pc = "store", ![w].out = out]
  /\ UNCHANGED <<doc, jobs, req, env, clock, hist>>

(* render_now(), its commit: an UPDATE by primary key, whatever became of the
   claim in the meantime. *)
Store(w) ==
  /\ wrk[w].pc = "store"
  /\ jobs[wrk[w].job].status # "gone"
  /\ jobs' = [jobs EXCEPT ![wrk[w].job] = Finish(@, wrk[w].out)]
  /\ wrk' = [wrk EXCEPT ![w] = FreshWorker]
  /\ clock' = clock + 1
  /\ UNCHANGED <<doc, req, env, hist>>

(* An UPDATE that matches no row raises StaleDataError out of run_worker. *)
WorkerError(w) ==
  /\ \/ wrk[w].pc = "store" /\ jobs[wrk[w].job].status = "gone"
     \/ wrk[w].pc = "sweep" /\ \E j \in wrk[w].back \union wrk[w].drop : jobs[j].status = "gone"
  /\ wrk' = [wrk EXCEPT ![w] = [FreshWorker EXCEPT !.pc = "dead"]]
  /\ UNCHANGED <<doc, jobs, req, env, clock, hist>>

WorkerCrash(w) ==
  /\ wrk[w].pc # "dead"
  /\ crashes < MaxCrashes
  /\ crashes' = crashes + 1
  /\ wrk' = [wrk EXCEPT ![w] = [FreshWorker EXCEPT !.pc = "dead"]]
  /\ UNCHANGED <<doc, jobs, req, edits, clock, hist>>

Restart(w) ==
  /\ wrk[w].pc = "dead"
  /\ wrk' = [wrk EXCEPT ![w] = FreshWorker]
  /\ UNCHANGED <<doc, jobs, req, env, clock, hist>>

-----------------------------------------------------------------------------
(* The document and the clock. *)

(* A render of row j may still read the document. *)
InFlight(j) ==
  \/ jobs[j].status \in Live
  \/ \E w \in Workers : \/ wrk[w].pc = "render" /\ wrk[w].job = j
                        \/ j \in wrk[w].back

(* Somebody changes what the exhibit prints: the scope, its package, the company
   or the project, whose contractor leaves the fingerprint as it was. *)
Edit ==
  /\ doc # None
  /\ edits < MaxEdits
  /\ edits' = edits + 1
  /\ doc' \in Docs \ {doc}
  /\ overtaken' = overtaken \union {j \in JobIds : InFlight(j)}
  /\ req' = [c \in Clients |->
       IF req[c].pc \in {"idle", "served"} THEN req[c] ELSE [req[c] EXCEPT !.moved = TRUE]]
  /\ UNCHANGED <<jobs, wrk, crashes, queuings, inlined, clock>>

(* Deleting the scope: ON DELETE CASCADE takes its render jobs with it. *)
DeleteScope ==
  /\ doc # None
  /\ doc' = None
  /\ jobs' = [j \in JobIds |-> IF jobs[j].status = "new" THEN jobs[j]
                               ELSE [NoRow EXCEPT !.status = "gone"]]
  /\ UNCHANGED <<req, wrk, env, clock, hist>>

(* STALE_AFTER passes since the claim was stamped. *)
Age(j) ==
  /\ jobs[j].status = "running"
  /\ jobs[j].started = "recent"
  /\ jobs' = [jobs EXCEPT ![j].started = "old"]
  /\ UNCHANGED <<doc, req, wrk, env, clock, hist>>

(* RESULT_TTL passes since the result was stored. *)
Expire(j) ==
  /\ jobs[j].expires = "future"
  /\ jobs' = [jobs EXCEPT ![j].expires = "past"]
  /\ UNCHANGED <<doc, req, wrk, env, clock, hist>>

-----------------------------------------------------------------------------
Init ==
  /\ doc \in Docs
  /\ jobs = [j \in JobIds |-> NoRow]
  /\ req = [c \in Clients |-> IdleRequest]
  /\ wrk = [w \in Workers |-> FreshWorker]
  /\ clock = 1
  /\ edits = 0
  /\ crashes = 0
  /\ queuings = [j \in JobIds |-> 0]
  /\ inlined = {}
  /\ overtaken = {}

ClientStep(c) ==
  \/ Lookup(c) \/ EnqueueFind(c) \/ EnqueueInsert(c)
  \/ InlineInsert(c) \/ InlineRender(c) \/ InlineStore(c) \/ InlineAgain(c)
  \/ Poll(c) \/ Leave(c) \/ RequestError(c)

WorkerStep(w) ==
  \/ Scan(w) \/ Sweep(w) \/ Pick(w) \/ Claim(w) \/ Idle(w)
  \/ Render(w) \/ Store(w) \/ WorkerError(w) \/ Restart(w)

Next ==
  \/ \E c \in Clients : ClientStep(c) \/ RequestCrash(c)
  \/ \E w \in Workers : WorkerStep(w) \/ WorkerCrash(w)
  \/ \E j \in JobIds : Age(j) \/ Expire(j)
  \/ Edit
  \/ DeleteScope

(* Worker loops keep running (docker-compose restarts them) and time passes;
   clients, edits and crashes are not obliged to happen. *)
Fairness ==
  /\ \A w \in Workers : WF_vars(WorkerStep(w))
  /\ \A j \in JobIds : WF_vars(Age(j))

Spec == Init /\ [][Next]_vars
FairSpec == Spec /\ Fairness

-----------------------------------------------------------------------------
(* Safety. *)

(* Two workers racing for one row never both get it: a row is claimed at most
   once for each time it was put in the queue (the conditional UPDATE of
   claim_one(), whatever requeue_stale() of other workers does). *)
ClaimsMatchQueuings ==
  \A j \in JobIds :
    jobs[j].attempts + (IF jobs[j].status = "queued" THEN 1 ELSE 0) <= queuings[j]

(* Retries are bounded even when several workers sweep the same stale row at
   once: each other worker can add at most one attempt to MAX_ATTEMPTS. *)
AttemptsBound ==
  \A j \in JobIds : jobs[j].attempts <= MAX_ATTEMPTS + Cardinality(Workers) - 1

(* A document being rendered inside a web request is never handed to a worker
   as well: its row has no started_at, so requeue_stale() passes it over. *)
InlineExclusive ==
  \A w \in Workers : ({wrk[w].job} \union wrk[w].back \union wrk[w].drop) \cap inlined = {}

(* What a client is served is a document with the fingerprint its request
   computed, by whichever of the cache, the queue or an inline render it came,
   unless somebody edited the document while that very render was outstanding. *)
ExactUnlessOvertaken ==
  \A c \in Clients :
    LET r == req[c] IN
    r.pc = "served" =>
      r.out \in Docs /\ (Fingerprint[r.out] = r.key \/ r.job \in overtaken \/ r.moved)

(* render_queue.py:113, "A completed render for exactly this document state,
   if there is one": the fingerprint cached() is asked for is that of what it
   finds. *)
CacheIsExact ==
  \A k \in Keys : \A j \in Cached(k) : Fingerprint[jobs[j].result] = k

(* render_queue.py:56, fingerprint() "Hashes the content that actually ends up
   in the document": a download answered from the cache gets the document as
   it stands, if no edit overtook the render that filled the cache. *)
CacheServesPresent ==
  [][\A c \in Clients :
       req[c].pc = "idle" /\ req'[c].pc = "served" /\ req'[c].job \notin overtaken
         => req'[c].out = doc]_vars

(* docker-compose.yml:70, "several can share one queue safely", and
   render_queue.py:286, "Gives up after MAX_ATTEMPTS". *)
AttemptsWithinLimit == \A j \in JobIds : jobs[j].attempts <= MAX_ATTEMPTS

(* models/render.py:51, "A job stuck in `running` for longer than this is
   assumed to have died with its worker and is returned to the queue": a
   running row nobody is working on is one requeue_stale() will find. *)
Worked(j) ==
  \/ \E w \in Workers : wrk[w].pc \in {"render", "store"} /\ wrk[w].job = j
  \/ \E c \in Clients : req[c].pc \in {"render", "store"} /\ req[c].job = j

AbandonedIsReclaimed ==
  \A j \in JobIds :
    jobs[j].status = "running" /\ ~Worked(j) => jobs[j].started # "none"

-----------------------------------------------------------------------------
(* Liveness and refinement. *)

(* With the worker running, no queued job waits or is retried for ever: every
   row a worker may take ends complete, failed or removed, and stays so. *)
QueueDrains ==
  \A j \in JobIds : (jobs[j].status = "queued") ~> [](jobs[j].status \notin Live)

(* A row leads the life that JobLifecycle promises. *)
Lifecycle == INSTANCE JobLifecycle
  WITH Jobs <- JobIds, phase <- [j \in JobIds |-> jobs[j].status],
       tries <- [j \in JobIds |-> jobs[j].attempts]

LifecycleSpec == Lifecycle!Spec
=============================================================================
