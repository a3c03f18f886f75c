--------------------------- MODULE RenderQueueProofs ---------------------------
(***************************************************************************)
(* Theorems about RenderQueue for any number of rows, clients, workers and *)
(* document states: types, exclusive claims, exclusive inline renders,     *)
(* exact downloads, bounded retries, and the life cycle of a row under one *)
(* worker.                                                                 *)
(***************************************************************************)
EXTENDS RenderQueue, FiniteSetTheorems, TLAPS

(* The outcome of a render keeps a row a row. *)
LEMMA FinishType ==
  ASSUME NEW row \in Row, NEW out \in Docs \union {None, Failed}, clock \in Nat
  PROVE  Finish(row, out) \in Row
BY ZenonT(30), QueueAssumption DEF Finish, MarkComplete, MarkFailed, Row, Present

(* So does taking it, putting it back, and giving it up. *)
LEMMA ClaimType ==
  ASSUME NEW row \in Row, NEW w \in Workers
  PROVE  Claimed(w, row) \in Row
<1>1. row.attempts \in Nat /\ row.attempts + 1 \in Nat
  BY DEF Row
<1> QED
  BY <1>1 DEF Claimed, Row, Present, Live

LEMMA SweepType ==
  ASSUME NEW row \in Row, clock \in Nat
  PROVE  Requeue(row) \in Row /\ MarkFailed(row) \in Row
<1>1. Requeue(row) \in Row
  BY DEF Requeue, Row, Present, Live
<1>2. MarkFailed(row) \in Row
  BY DEF MarkFailed, Row, Present, Live
<1> QED
  BY <1>1, <1>2

(* A new row is a row. *)
LEMMA NewRowType ==
  ASSUME NEW k \in Keys \union {None}, NEW s \in Present
  PROVE  [NoRow EXCEPT !.status = s, !.key = k] \in Row
BY DEF NoRow, Row, Present, Live

-----------------------------------------------------------------------------
(* Types. *)

(* A request that renders, stores or polls has a row. *)
JobNamed ==
  \A c \in Clients : req[c].pc \in {"render", "store", "polling"} => req[c].job \in JobIds

(* JobNamed is what makes TypeOK inductive: Poll serves what its row holds. *)
LEMMA TypeInv == Spec => [](TypeOK /\ JobNamed)
<1>1. Init => TypeOK /\ JobNamed
  BY QueueAssumption
  DEF Init, TypeOK, JobNamed, NoRow, Row, IdleRequest, Request, FreshWorker, Worker
<1>2. TypeOK /\ JobNamed /\ [Next]_vars => TypeOK' /\ JobNamed'
  <2> SUFFICES ASSUME TypeOK, JobNamed, [Next]_vars PROVE TypeOK' /\ JobNamed'
    OBVIOUS
  <2>0. /\ doc \in Docs \union {None} /\ clock \in Nat
        /\ jobs \in [JobIds -> Row] /\ req \in [Clients -> Request]
        /\ wrk \in [Workers -> Worker]
    BY DEF TypeOK
  <2>1. ASSUME NEW c \in Clients, Lookup(c) PROVE TypeOK' /\ JobNamed'
    <3>a. ASSUME NEW j \in Cached(Fingerprint[doc]) PROVE j \in JobIds /\ jobs[j].result \in Docs
      BY <2>0 DEF Cached, Complete, Row
    <3>b. PICK r \in Request : req' = [req EXCEPT ![c] = r] /\ r.pc \in {"served", "missed"}
      <4>1. Fingerprint[doc] \in Keys
        BY <2>0, <2>1, QueueAssumption DEF Lookup
      <4>2. ASSUME NEW j \in Cached(Fingerprint[doc])
            PROVE  [pc |-> "served", key |-> Fingerprint[doc], job |-> j,
                    out |-> jobs[j].result, moved |-> FALSE] \in Request
        BY <4>1, <3>a, <4>2 DEF Request
      <4>3. [IdleRequest EXCEPT !.pc = "missed", !.key = Fingerprint[doc]] \in Request
        BY <4>1 DEF IdleRequest, Request
      <4> QED
        BY <2>1, <4>2, <4>3 DEF Lookup, IdleRequest
    <3>1. req' \in [Clients -> Request]
      BY <2>0, <3>b
    <3>2. JobNamed'
      BY <2>0, <3>b DEF JobNamed
    <3>3. UNCHANGED <<doc, jobs, wrk, clock, edits, crashes, queuings, inlined, overtaken>>
      BY <2>1 DEF Lookup, env, hist
    <3> QED
      BY <3>1, <3>2, <3>3 DEF TypeOK
  <2>2. ASSUME NEW c \in Clients, EnqueueFind(c) PROVE TypeOK' /\ JobNamed'
    <3>1. req' \in [Clients -> Request]
      BY <2>2, <2>0 DEF EnqueueFind, Pending, Request
    <3>2. JobNamed'
      BY <2>2, <2>0 DEF EnqueueFind, Pending, JobNamed, Request
    <3>3. UNCHANGED <<doc, jobs, wrk, clock, edits, crashes, queuings, inlined, overtaken>>
      BY <2>2 DEF EnqueueFind, env, hist
    <3> QED
      BY <3>1, <3>2, <3>3 DEF TypeOK
  <2>3. ASSUME NEW c \in Clients, EnqueueInsert(c) PROVE TypeOK' /\ JobNamed'
    <3>1. PICK j \in JobIds : InsertRow(c, j, "queued") /\ queuings' = [queuings EXCEPT ![j] = 1]
      BY <2>3 DEF EnqueueInsert
    <3>2. jobs[j] \in Row /\ req[c].key \in Keys \union {None}
      BY <2>0 DEF Request
    <3>3. jobs' \in [JobIds -> Row]
      BY <2>0, <3>1, <3>2, NewRowType DEF InsertRow, Present, Live
    <3>4. req' \in [Clients -> Request]
      BY ZenonT(30), <2>0, <3>1 DEF InsertRow, Request
    <3>5. overtaken' \subseteq JobIds
      BY <3>1 DEF InsertRow, TypeOK
    <3>6. queuings' \in [JobIds -> Nat]
      BY <3>1 DEF TypeOK
    <3>7. JobNamed'
      BY <2>0, <3>1 DEF InsertRow, JobNamed, Request
    <3>8. UNCHANGED <<doc, wrk, clock, edits, crashes, inlined>>
      BY <2>3 DEF EnqueueInsert, env, hist
    <3> QED
      BY <3>3, <3>4, <3>5, <3>6, <3>7, <3>8 DEF TypeOK
  <2>4. ASSUME NEW c \in Clients, InlineInsert(c) PROVE TypeOK' /\ JobNamed'
    <3>1. PICK j \in JobIds : InsertRow(c, j, "running") /\ inlined' = inlined \union {j}
      BY <2>4 DEF InlineInsert
    <3>2. jobs[j] \in Row /\ req[c].key \in Keys \union {None}
      BY <2>0 DEF Request
    <3>3. jobs' \in [JobIds -> Row]
      BY <2>0, <3>1, <3>2, NewRowType DEF InsertRow, Present, Live
    <3>4. req' \in [Clients -> Request]
      BY ZenonT(30), <2>0, <3>1 DEF InsertRow, Request
    <3>5. overtaken' \subseteq JobIds
      BY <3>1 DEF InsertRow, TypeOK
    <3>6. inlined' \subseteq JobIds
      BY <3>1 DEF TypeOK
    <3>7. JobNamed'
      BY <2>0, <3>1 DEF InsertRow, JobNamed, Request
    <3>8. UNCHANGED <<doc, wrk, clock, edits, crashes, queuings>>
      BY <2>4 DEF InlineInsert, env, hist
    <3> QED
      BY <3>3, <3>4, <3>5, <3>6, <3>7, <3>8 DEF TypeOK
  <2>5. ASSUME NEW c \in Clients, InlineRender(c) PROVE TypeOK' /\ JobNamed'
    <3>a. PICK out \in Docs \union {Failed} : req' = [req EXCEPT ![c].pc = "store", ![c].out = out]
      BY <2>5, <2>0 DEF InlineRender
    <3>b. [[req[c] EXCEPT !.pc = "store"] EXCEPT !.out = out] \in Request
      BY <2>0, <3>a DEF Request
    <3>1. req' \in [Clients -> Request]
      BY <2>0, <3>a, <3>b
    <3>2. JobNamed'
      BY <2>5, <2>0 DEF InlineRender, JobNamed, Request
    <3>3. UNCHANGED <<doc, jobs, wrk, clock, edits, crashes, queuings, inlined, overtaken>>
      BY <2>5 DEF InlineRender, env, hist
    <3> QED
      BY <3>1, <3>2, <3>3 DEF TypeOK
  <2>6. ASSUME NEW c \in Clients, InlineStore(c) PROVE TypeOK' /\ JobNamed'
    <3>1. Finish(jobs[req[c].job], req[c].out) \in Row
      BY <2>6, <2>0, FinishType DEF InlineStore, JobNamed, Request
    <3>2. jobs' \in [JobIds -> Row]
      BY <2>6, <2>0, <3>1 DEF InlineStore, Row
    <3>3. req' \in [Clients -> Request]
      BY <2>6, <2>0 DEF InlineStore, Request, IdleRequest
    <3>4. clock' \in Nat
      BY <2>6, <2>0 DEF InlineStore
    <3>5. JobNamed'
      BY <2>6, <2>0 DEF InlineStore, IdleRequest, JobNamed, Request
    <3>6. UNCHANGED <<doc, wrk, edits, crashes, queuings, inlined, overtaken>>
      BY <2>6 DEF InlineStore, env, hist
    <3> QED
      BY <3>2, <3>3, <3>4, <3>5, <3>6 DEF TypeOK
  <2>7. ASSUME NEW c \in Clients, InlineAgain(c) PROVE TypeOK' /\ JobNamed'
    <3>1. req' \in [Clients -> Request]
      BY ZenonT(30), <2>7, <2>0 DEF InlineAgain, Request
    <3>2. JobNamed'
      BY <2>7, <2>0 DEF InlineAgain, JobNamed, Request
    <3>3. UNCHANGED <<doc, jobs, wrk, clock, edits, crashes, queuings, inlined, overtaken>>
      BY <2>7 DEF InlineAgain, env, hist
    <3> QED
      BY <3>1, <3>2, <3>3 DEF TypeOK
  <2>8. ASSUME NEW c \in Clients, Poll(c) PROVE TypeOK' /\ JobNamed'
    <3>1. jobs[req[c].job] \in Row
      BY <2>8, <2>0 DEF Poll, JobNamed
    <3>a. PICK out \in Docs : req' = [req EXCEPT ![c].pc = "served", ![c].out = out]
      BY <2>8, <3>1 DEF Poll, Row
    <3>b. [[req[c] EXCEPT !.pc = "served"] EXCEPT !.out = out] \in Request
      BY <2>0, <3>a DEF Request
    <3>2. req' \in [Clients -> Request]
      BY <2>0, <3>a, <3>b
    <3>3. JobNamed'
      BY <2>8, <2>0 DEF Poll, JobNamed, Request
    <3>4. UNCHANGED <<doc, jobs, wrk, clock, edits, crashes, queuings, inlined, overtaken>>
      BY <2>8 DEF Poll, env, hist
    <3> QED
      BY <3>2, <3>3, <3>4 DEF TypeOK
  <2>9. ASSUME NEW c \in Clients, Leave(c) PROVE TypeOK' /\ JobNamed'
    <3>1. req' \in [Clients -> Request]
      BY <2>9, <2>0 DEF Leave, Request, IdleRequest
    <3>2. JobNamed'
      BY <2>9, <2>0 DEF Leave, IdleRequest, JobNamed, Request
    <3>3. UNCHANGED <<doc, jobs, wrk, clock, edits, crashes, queuings, inlined, overtaken>>
      BY <2>9 DEF Leave, env, hist
    <3> QED
      BY <3>1, <3>2, <3>3 DEF TypeOK
  <2>10. ASSUME NEW c \in Clients, RequestError(c) PROVE TypeOK' /\ JobNamed'
    <3>1. req' \in [Clients -> Request]
      BY <2>10, <2>0 DEF RequestError, Request, IdleRequest
    <3>2. JobNamed'
      BY <2>10, <2>0 DEF RequestError, IdleRequest, JobNamed, Request
    <3>3. UNCHANGED <<doc, jobs, wrk, clock, edits, crashes, queuings, inlined, overtaken>>
      BY <2>10 DEF RequestError, env, hist
    <3> QED
      BY <3>1, <3>2, <3>3 DEF TypeOK
  <2>11. ASSUME NEW c \in Clients, RequestCrash(c) PROVE TypeOK' /\ JobNamed'
    <3>1. req' \in [Clients -> Request]
      BY <2>11, <2>0 DEF RequestCrash, Request, IdleRequest
    <3>2. crashes' \in 0..MaxCrashes
      BY <2>11, QueueAssumption DEF RequestCrash, TypeOK
    <3>3. JobNamed'
      BY <2>11, <2>0 DEF RequestCrash, IdleRequest, JobNamed, Request
    <3>4. UNCHANGED <<doc, jobs, wrk, clock, edits, queuings, inlined, overtaken>>
      BY <2>11 DEF RequestCrash, env, hist
    <3> QED
      BY <3>1, <3>2, <3>3, <3>4 DEF TypeOK
  <2>12. ASSUME NEW w \in Workers, Scan(w) PROVE TypeOK' /\ JobNamed'
    <3>1. wrk' \in [Workers -> Worker]
      BY <2>12, <2>0 DEF Scan, Stale, FreshWorker, Worker
    <3>2. UNCHANGED <<doc, jobs, req, clock, edits, crashes, queuings, inlined, overtaken>>
      BY <2>12 DEF Scan, env, hist
    <3> QED
      BY <3>1, <3>2 DEF TypeOK, JobNamed
  <2>13. ASSUME NEW w \in Workers, Sweep(w) PROVE TypeOK' /\ JobNamed'
    <3>1. jobs' \in [JobIds -> Row]
      BY <2>13, <2>0, SweepType DEF Sweep
    <3>2. wrk' \in [Workers -> Worker]
      BY <2>13, <2>0 DEF Sweep, FreshWorker, Worker
    <3>3. clock' \in Nat
      BY <2>13, <2>0 DEF Sweep
    <3>4. queuings' \in [JobIds -> Nat]
      BY <2>13 DEF Sweep, TypeOK
    <3>5. UNCHANGED <<doc, req, edits, crashes, inlined, overtaken>>
      BY <2>13 DEF Sweep, env, hist
    <3> QED
      BY <3>1, <3>2, <3>3, <3>4, <3>5 DEF TypeOK, JobNamed
  <2>14. ASSUME NEW w \in Workers, Pick(w) PROVE TypeOK' /\ JobNamed'
    <3>1. wrk' \in [Workers -> Worker]
      BY <2>14, <2>0 DEF Pick, Oldest, Queued, Worker
    <3>2. UNCHANGED <<doc, jobs, req, clock, edits, crashes, queuings, inlined, overtaken>>
      BY <2>14 DEF Pick, env, hist
    <3> QED
      BY <3>1, <3>2 DEF TypeOK, JobNamed
  <2>15. ASSUME NEW w \in Workers, Claim(w) PROVE TypeOK' /\ JobNamed'
    <3>1. jobs' \in [JobIds -> Row]
      BY <2>15, <2>0, ClaimType DEF Claim
    <3>2. wrk' \in [Workers -> Worker]
      BY <2>15, <2>0 DEF Claim, FreshWorker, Worker
    <3>3. UNCHANGED <<doc, req, clock, edits, crashes, queuings, inlined, overtaken>>
      BY <2>15 DEF Claim, env, hist
    <3> QED
      BY <3>1, <3>2, <3>3 DEF TypeOK, JobNamed
  <2>16. ASSUME NEW w \in Workers, Idle(w) PROVE TypeOK' /\ JobNamed'
    <3>1. jobs' \in [JobIds -> Row]
      BY <2>16, <2>0 DEF Idle, NoRow, Row
    <3>2. wrk' \in [Workers -> Worker]
      BY <2>16, <2>0 DEF Idle, FreshWorker, Worker
    <3>3. UNCHANGED <<doc, req, clock, edits, crashes, queuings, inlined, overtaken>>
      BY <2>16 DEF Idle, env, hist
    <3> QED
      BY <3>1, <3>2, <3>3 DEF TypeOK, JobNamed
  <2>17. ASSUME NEW w \in Workers, Render(w) PROVE TypeOK' /\ JobNamed'
    <3>a. PICK out \in Docs \union {Failed} : wrk' = [wrk EXCEPT ![w].pc = "store", ![w].out = out]
      BY <2>17, <2>0 DEF Render
    <3>b. [[wrk[w] EXCEPT !.pc = "store"] EXCEPT !.out = out] \in Worker
      BY <2>0, <3>a DEF Worker
    <3>1. wrk' \in [Workers -> Worker]
      BY <2>0, <3>a, <3>b
    <3>2. UNCHANGED <<doc, jobs, req, clock, edits, crashes, queuings, inlined, overtaken>>
      BY <2>17 DEF Render, env, hist
    <3> QED
      BY <3>1, <3>2 DEF TypeOK, JobNamed
  <2>18. ASSUME NEW w \in Workers, Store(w) PROVE TypeOK' /\ JobNamed'
    <3>1. wrk[w].out \in Docs \union {None, Failed}
      BY <2>0 DEF Worker
    <3>2. jobs' \in [JobIds -> Row]
      BY <2>18, <2>0, <3>1, FinishType DEF Store
    <3>3. wrk' \in [Workers -> Worker]
      BY <2>18, <2>0 DEF Store, FreshWorker, Worker
    <3>4. clock' \in Nat
      BY <2>18, <2>0 DEF Store
    <3>5. UNCHANGED <<doc, req, edits, crashes, queuings, inlined, overtaken>>
      BY <2>18 DEF Store, env, hist
    <3> QED
      BY <3>2, <3>3, <3>4, <3>5 DEF TypeOK, JobNamed
  <2>19. ASSUME NEW w \in Workers, WorkerError(w) PROVE TypeOK' /\ JobNamed'
    <3>1. wrk' \in [Workers -> Worker]
      BY <2>19, <2>0 DEF WorkerError, FreshWorker, Worker
    <3>2. UNCHANGED <<doc, jobs, req, clock, edits, crashes, queuings, inlined, overtaken>>
      BY <2>19 DEF WorkerError, env, hist
    <3> QED
      BY <3>1, <3>2 DEF TypeOK, JobNamed
  <2>20. ASSUME NEW w \in Workers, WorkerCrash(w) PROVE TypeOK' /\ JobNamed'
    <3>1. wrk' \in [Workers -> Worker]
      BY <2>20, <2>0 DEF WorkerCrash, FreshWorker, Worker
    <3>2. crashes' \in 0..MaxCrashes
      BY <2>20, QueueAssumption DEF WorkerCrash, TypeOK
    <3>3. UNCHANGED <<doc, jobs, req, clock, edits, queuings, inlined, overtaken>>
      BY <2>20 DEF WorkerCrash, env, hist
    <3> QED
      BY <3>1, <3>2, <3>3 DEF TypeOK, JobNamed
  <2>21. ASSUME NEW w \in Workers, Restart(w) PROVE TypeOK' /\ JobNamed'
    <3>1. wrk' \in [Workers -> Worker]
      BY <2>21, <2>0 DEF Restart, FreshWorker, Worker
    <3>2. UNCHANGED <<doc, jobs, req, clock, edits, crashes, queuings, inlined, overtaken>>
      BY <2>21 DEF Restart, env, hist
    <3> QED
      BY <3>1, <3>2 DEF TypeOK, JobNamed
  <2>22. ASSUME Edit PROVE TypeOK' /\ JobNamed'
    <3>1. doc' \in Docs \union {None}
      BY <2>22 DEF Edit
    <3>2. req' \in [Clients -> Request]
      BY ZenonT(30), <2>22, <2>0 DEF Edit, Request
    <3>3. edits' \in 0..MaxEdits
      BY <2>22, QueueAssumption DEF Edit, TypeOK
    <3>4. overtaken' \subseteq JobIds
      BY <2>22 DEF Edit, TypeOK
    <3>5. JobNamed'
      BY <2>22, <2>0 DEF Edit, JobNamed, Request
    <3>6. UNCHANGED <<jobs, wrk, clock, crashes, queuings, inlined>>
      BY <2>22 DEF Edit, env, hist
    <3> QED
      BY <3>1, <3>2, <3>3, <3>4, <3>5, <3>6 DEF TypeOK
  <2>23. ASSUME DeleteScope PROVE TypeOK' /\ JobNamed'
    <3>1. doc' \in Docs \union {None}
      BY <2>23 DEF DeleteScope
    <3>2. jobs' \in [JobIds -> Row]
      BY <2>23, <2>0 DEF DeleteScope, NoRow, Row
    <3>3. UNCHANGED <<req, wrk, clock, edits, crashes, queuings, inlined, overtaken>>
      BY <2>23 DEF DeleteScope, env, hist
    <3> QED
      BY <3>1, <3>2, <3>3 DEF TypeOK, JobNamed
  <2>24. ASSUME NEW j \in JobIds, Age(j) PROVE TypeOK' /\ JobNamed'
    <3>1. jobs' \in [JobIds -> Row]
      BY <2>24, <2>0 DEF Age, Row
    <3>2. UNCHANGED <<doc, req, wrk, clock, edits, crashes, queuings, inlined, overtaken>>
      BY <2>24 DEF Age, env, hist
    <3> QED
      BY <3>1, <3>2 DEF TypeOK, JobNamed
  <2>25. ASSUME NEW j \in JobIds, Expire(j) PROVE TypeOK' /\ JobNamed'
    <3>1. jobs' \in [JobIds -> Row]
      BY <2>25, <2>0 DEF Expire, Row
    <3>2. UNCHANGED <<doc, req, wrk, clock, edits, crashes, queuings, inlined, overtaken>>
      BY <2>25 DEF Expire, env, hist
    <3> QED
      BY <3>1, <3>2 DEF TypeOK, JobNamed
  <2>26. CASE UNCHANGED vars
    BY <2>26 DEF vars, TypeOK, JobNamed
  <2> QED
    BY <2>1, <2>2, <2>3, <2>4, <2>5, <2>6, <2>7, <2>8, <2>9, <2>10, <2>11, <2>12, <2>13,
       <2>14, <2>15, <2>16, <2>17, <2>18, <2>19, <2>20, <2>21, <2>22, <2>23, <2>24, <2>25, <2>26
    DEF Next, ClientStep, WorkerStep
<1> QED
  BY <1>1, <1>2, PTL DEF Spec

(* Every state of every process and every row has its type: no step leaves a
   request, a worker or a row in a shape the code has no branch for. *)
THEOREM TypeCorrect == Spec => []TypeOK
BY TypeInv, PTL

-----------------------------------------------------------------------------
(* Steps that concern neither the rows nor the workers. *)

ReadStep(c) ==
  \/ Lookup(c) \/ EnqueueFind(c) \/ InlineRender(c) \/ InlineAgain(c)
  \/ Poll(c) \/ Leave(c) \/ RequestError(c) \/ RequestCrash(c)

LEMMA ReadStepFrame ==
  ASSUME NEW c \in Clients, ReadStep(c)
  PROVE  UNCHANGED <<jobs, wrk, queuings, inlined>>
BY DEF ReadStep, Lookup, EnqueueFind, InlineRender, InlineAgain, Poll, Leave,
       RequestError, RequestCrash, hist

LEMMA EditFrame == Edit => UNCHANGED <<jobs, wrk, queuings, inlined>>
BY DEF Edit

-----------------------------------------------------------------------------
(* Exclusive claims. *)

(* For any number of workers and whatever they sweep concurrently, a row is
   claimed at most once for each time it was queued.  The invariant is
   inductive given the types: only EnqueueInsert, Sweep and Claim touch either
   side, and Claim takes the one unit a queued row still has. *)
THEOREM ClaimsExclusive == Spec => []ClaimsMatchQueuings
<1>1. Init => ClaimsMatchQueuings
  BY DEF Init, ClaimsMatchQueuings, NoRow
<1>2. TypeOK /\ JobNamed /\ ClaimsMatchQueuings /\ [Next]_vars => ClaimsMatchQueuings'
  <2> SUFFICES ASSUME TypeOK, JobNamed, ClaimsMatchQueuings, [Next]_vars,
                      NEW i \in JobIds
               PROVE  (jobs[i].attempts + (IF jobs[i].status = "queued" THEN 1 ELSE 0)
                        <= queuings[i])'
    BY DEF ClaimsMatchQueuings
  <2> DEFINE Counted(row, n) ==
        row.attempts + (IF row.status = "queued" THEN 1 ELSE 0) <= n
  <2>0. /\ jobs \in [JobIds -> Row] /\ queuings \in [JobIds -> Nat]
        /\ jobs[i] \in Row /\ jobs[i].attempts \in Nat /\ queuings[i] \in Nat
        /\ Counted(jobs[i], queuings[i])
    BY DEF TypeOK, ClaimsMatchQueuings, Row
  <2> SUFFICES Counted(jobs'[i], queuings'[i])
    OBVIOUS
  <2>1. ASSUME NEW c \in Clients, ReadStep(c) PROVE Counted(jobs'[i], queuings'[i])
    BY <2>0, <2>1, ReadStepFrame
  <2>2. ASSUME NEW c \in Clients, EnqueueInsert(c) PROVE Counted(jobs'[i], queuings'[i])
    BY <2>0, <2>2 DEF EnqueueInsert, InsertRow, NoRow
  <2>3. ASSUME NEW c \in Clients, InlineInsert(c) PROVE Counted(jobs'[i], queuings'[i])
    BY <2>0, <2>3 DEF InlineInsert, InsertRow, NoRow, hist
  <2>4. ASSUME NEW row \in Row, NEW out \in Docs \union {None, Failed}
        PROVE  Finish(row, out).attempts = row.attempts /\ Finish(row, out).status # "queued"
    BY DEF Finish, MarkComplete, MarkFailed, Row
  <2>5. ASSUME NEW c \in Clients, InlineStore(c) PROVE Counted(jobs'[i], queuings'[i])
    <3>1. CASE i # req[c].job
      BY <2>0, <2>5, <3>1 DEF InlineStore, hist
    <3>2. CASE i = req[c].job
      <4>1. req[c].out \in Docs \union {None, Failed}
        BY DEF TypeOK, Request
      <4>2. Finish(jobs[i], req[c].out) \in Row
        BY <2>0, <4>1, FinishType DEF TypeOK
      <4>3. jobs'[i] = [Finish(jobs[i], req[c].out) EXCEPT !.started = "recent"]
        BY <2>0, <2>5, <3>2 DEF InlineStore
      <4>4. jobs'[i].attempts = jobs[i].attempts /\ jobs'[i].status # "queued"
        BY <2>0, <2>4, <4>1, <4>2, <4>3 DEF Row
      <4> QED
        BY <2>0, <2>5, <4>4 DEF InlineStore, hist
    <3> QED
      BY <3>1, <3>2
  <2>6. ASSUME NEW w \in Workers, Scan(w) \/ Pick(w) \/ Render(w) \/ WorkerError(w)
                                   \/ WorkerCrash(w) \/ Restart(w)
        PROVE  Counted(jobs'[i], queuings'[i])
    BY <2>0, <2>6 DEF Scan, Pick, Render, WorkerError, WorkerCrash, Restart, hist
  <2>7. ASSUME NEW w \in Workers, Sweep(w) PROVE Counted(jobs'[i], queuings'[i])
    <3>1. MarkFailed(jobs[i]).attempts = jobs[i].attempts /\ MarkFailed(jobs[i]).status # "queued"
      BY <2>0 DEF MarkFailed, Row
    <3>2. Requeue(jobs[i]).attempts = jobs[i].attempts
      BY <2>0 DEF Requeue, Row
    <3>3. CASE i \in wrk[w].drop
      BY <2>0, <2>7, <3>1, <3>3 DEF Sweep
    <3>4. CASE i \in wrk[w].back /\ i \notin wrk[w].drop
      BY <2>0, <2>7, <3>2, <3>4 DEF Sweep
    <3>5. CASE i \notin wrk[w].back /\ i \notin wrk[w].drop
      BY <2>0, <2>7, <3>5 DEF Sweep
    <3> QED
      BY <3>3, <3>4, <3>5
  <2>8. ASSUME NEW w \in Workers, Claim(w) PROVE Counted(jobs'[i], queuings'[i])
    <3>1. CASE jobs[wrk[w].job].status = "queued" /\ i = wrk[w].job
      <4>1. jobs'[i] = Claimed(w, jobs[i]) /\ queuings' = queuings
        BY <2>0, <2>8, <3>1 DEF Claim, hist
      <4>2. Claimed(w, jobs[i]).attempts = jobs[i].attempts + 1
            /\ Claimed(w, jobs[i]).status = "running"
        BY <2>0 DEF Claimed, Row
      <4> QED
        BY <2>0, <3>1, <4>1, <4>2
    <3>2. CASE jobs'[i] = jobs[i]
      BY <2>0, <2>8, <3>2 DEF Claim, hist
    <3> QED
      BY <2>0, <2>8, <3>1, <3>2 DEF Claim
  <2>9. ASSUME NEW w \in Workers, Idle(w) PROVE Counted(jobs'[i], queuings'[i])
    BY <2>0, <2>9 DEF Idle, NoRow, hist
  <2>10. ASSUME NEW w \in Workers, Store(w) PROVE Counted(jobs'[i], queuings'[i])
    <3>1. wrk[w].out \in Docs \union {None, Failed}
      BY DEF TypeOK, Worker
    <3>2. jobs'[i] \in {jobs[i], Finish(jobs[i], wrk[w].out)}
      BY <2>0, <2>10 DEF Store
    <3> QED
      BY <2>0, <2>4, <2>10, <3>1, <3>2 DEF Store, hist
  <2>11. CASE Edit
    BY <2>0, <2>11, EditFrame
  <2>12. CASE DeleteScope
    BY <2>0, <2>12 DEF DeleteScope, NoRow, hist
  <2>13. ASSUME NEW j \in JobIds, Age(j) \/ Expire(j) PROVE Counted(jobs'[i], queuings'[i])
    BY <2>0, <2>13 DEF Age, Expire, Row, hist
  <2>14. CASE UNCHANGED vars
    BY <2>0, <2>14 DEF vars
  <2> QED
    BY <2>1, <2>2, <2>3, <2>5, <2>6, <2>7, <2>8, <2>9, <2>10, <2>11, <2>12, <2>13, <2>14
    DEF Next, ClientStep, WorkerStep, ReadStep
<1> QED
  BY <1>1, <1>2, TypeInv, PTL DEF Spec

-----------------------------------------------------------------------------
(* Exclusive inline renders. *)

(* A row inserted by an inline render is never queued, and has no started_at
   while it runs: what requeue_stale() and claim_one() select misses it. *)
InlineRows ==
  \A j \in inlined : /\ jobs[j].status \in {"running", "complete", "failed", "gone"}
                     /\ jobs[j].status = "running" => jobs[j].started = "none"

(* The rows a worker holds on to exist, so none becomes an inline row later. *)
Held(w) == ({wrk[w].job} \union wrk[w].back \union wrk[w].drop) \ {0}

HeldRowsExist == \A w \in Workers : \A j \in Held(w) : jobs[j].status # "new"

InlineInv == InlineRows /\ HeldRowsExist /\ InlineExclusive

(* Rows change, but no row comes into being and none is put in the queue. *)
LEMMA InlineFrame ==
  ASSUME TypeOK, InlineInv, UNCHANGED <<wrk, inlined>>,
         \A j \in JobIds : /\ jobs[j].status # "new" => jobs'[j].status # "new"
                           /\ j \in inlined => \/ jobs'[j] = jobs[j]
                                               \/ jobs'[j].status \in {"complete", "failed", "gone"}
                                               \/ /\ jobs'[j].status = jobs[j].status
                                                  /\ jobs'[j].started = jobs[j].started
  PROVE  InlineInv'
<1>1. inlined \subseteq JobIds /\ \A w \in Workers : Held(w) \subseteq JobIds
  BY DEF TypeOK, Worker, Held
<1>2. InlineRows'
  <2>1. ASSUME NEW j \in inlined
        PROVE  /\ jobs'[j].status \in {"running", "complete", "failed", "gone"}
               /\ jobs'[j].status = "running" => jobs'[j].started = "none"
    <3>1. /\ jobs[j].status \in {"running", "complete", "failed", "gone"}
          /\ jobs[j].status = "running" => jobs[j].started = "none"
      BY DEF InlineInv, InlineRows
    <3> QED
      BY <1>1, <3>1
  <2> QED
    BY <2>1 DEF InlineRows
<1>3. HeldRowsExist'
  BY <1>1 DEF InlineInv, HeldRowsExist, Held
<1>4. InlineExclusive'
  BY DEF InlineInv, InlineExclusive
<1> QED
  BY <1>2, <1>3, <1>4 DEF InlineInv

(* A worker step that leaves the rows alone and holds on to no others. *)
LEMMA WorkerFrame ==
  ASSUME TypeOK, InlineInv, NEW w \in Workers, NEW x \in Worker,
         wrk' = [wrk EXCEPT ![w] = x], UNCHANGED <<jobs, inlined>>,
         \A j \in ({x.job} \union x.back \union x.drop) \ {0} :
           jobs[j].status # "new" /\ j \notin inlined
  PROVE  InlineInv'
<1>1. wrk'[w] = x /\ \A v \in Workers \ {w} : wrk'[v] = wrk[v]
  BY DEF TypeOK
<1>2. 0 \notin inlined
  BY QueueAssumption DEF TypeOK, JobIds
<1>3. InlineRows'
  BY DEF InlineInv, InlineRows
<1>4. HeldRowsExist'
  BY <1>1 DEF InlineInv, HeldRowsExist, Held
<1>5. InlineExclusive'
  BY <1>1, <1>2 DEF InlineInv, InlineExclusive
<1> QED
  BY <1>3, <1>4, <1>5 DEF InlineInv

(* InlineExclusive alone is not inductive: that a worker picks up no inline row
   rests on InlineRows, and that a row it holds does not turn into one on
   HeldRowsExist. *)
LEMMA InlineInvariant == Spec => []InlineInv
<1>1. Init => InlineInv
  BY DEF Init, InlineInv, InlineRows, HeldRowsExist, Held, InlineExclusive, FreshWorker
<1>2. TypeOK /\ JobNamed /\ InlineInv /\ [Next]_vars => InlineInv'
  <2> SUFFICES ASSUME TypeOK, JobNamed, InlineInv, [Next]_vars PROVE InlineInv'
    OBVIOUS
  <2>0. /\ jobs \in [JobIds -> Row] /\ wrk \in [Workers -> Worker]
        /\ inlined \subseteq JobIds /\ 0 \notin JobIds
        /\ \A j \in JobIds : jobs[j] \in Row
        /\ \A w \in Workers : Held(w) \subseteq JobIds
    BY QueueAssumption DEF TypeOK, JobIds, Worker, Held
  <2>1. ASSUME NEW c \in Clients, ReadStep(c) PROVE InlineInv'
    BY <2>1, ReadStepFrame, InlineFrame
  <2>2. ASSUME NEW c \in Clients, EnqueueInsert(c) PROVE InlineInv'
    <3>1. PICK j \in JobIds : /\ jobs[j].status = "new"
                              /\ jobs' = [jobs EXCEPT ![j] = [NoRow EXCEPT !.status = "queued",
                                                                         !.key = req[c].key]]
      BY <2>2 DEF EnqueueInsert, InsertRow, Oldest, NewIds
    <3>2. j \notin inlined
      BY <3>1 DEF InlineInv, InlineRows
    <3>3. UNCHANGED <<wrk, inlined>>
      BY <2>2 DEF EnqueueInsert
    <3>4. \A k \in JobIds : k # j => jobs'[k] = jobs[k]
      BY <2>0, <3>1
    <3>5. jobs'[j].status = "queued"
      BY <2>0, <3>1 DEF NoRow
    <3> QED
      BY <3>2, <3>3, <3>4, <3>5, InlineFrame
  <2>3. ASSUME NEW c \in Clients, InlineInsert(c) PROVE InlineInv'
    <3>1. PICK j \in JobIds : /\ jobs[j].status = "new"
                              /\ jobs' = [jobs EXCEPT ![j] = [NoRow EXCEPT !.status = "running",
                                                                         !.key = req[c].key]]
                             /\ inlined' = inlined \union {j}
      BY <2>3 DEF InlineInsert, InsertRow, Oldest, NewIds
    <3>2. wrk' = wrk
      BY <2>3 DEF InlineInsert
    <3>3. \A k \in JobIds : k # j => jobs'[k] = jobs[k]
      BY <2>0, <3>1
    <3>4. jobs'[j].status = "running" /\ jobs'[j].started = "none"
      BY <2>0, <3>1 DEF NoRow
    <3>5. \A w \in Workers : j \notin Held(w) \union {0}
      BY <2>0, <3>1 DEF InlineInv, HeldRowsExist
    <3>6. InlineRows'
      BY <2>0, <3>1, <3>3, <3>4 DEF InlineInv, InlineRows
    <3>7. HeldRowsExist'
      BY <2>0, <3>2, <3>3, <3>4 DEF InlineInv, HeldRowsExist, Held
    <3>8. InlineExclusive'
      BY <3>1, <3>2, <3>5 DEF InlineInv, InlineExclusive, Held
    <3> QED
      BY <3>6, <3>7, <3>8 DEF InlineInv
  <2>4. ASSUME NEW row \in Row, NEW out \in Docs \union {None, Failed}
        PROVE  Finish(row, out).status \in {"complete", "failed"}
    BY DEF Finish, MarkComplete, MarkFailed, Row
  <2>5. ASSUME NEW c \in Clients, InlineStore(c) PROVE InlineInv'
    <3>1. req[c].out \in Docs \union {None, Failed} /\ req[c].job \in JobIds
      BY <2>5 DEF TypeOK, Request, JobNamed, InlineStore
    <3>2. Finish(jobs[req[c].job], req[c].out) \in Row
      BY <2>0, <3>1, FinishType DEF TypeOK
    <3>3. \A k \in JobIds : jobs'[k] = jobs[k] \/ jobs'[k].status \in {"complete", "failed"}
      BY <2>0, <2>4, <2>5, <3>1, <3>2 DEF InlineStore, Row
    <3>4. UNCHANGED <<wrk, inlined>>
      BY <2>5 DEF InlineStore, hist
    <3> QED
      BY <3>3, <3>4, InlineFrame
  <2>6. ASSUME NEW w \in Workers, Scan(w) PROVE InlineInv'
    <3> DEFINE x == [FreshWorker EXCEPT
                       !.pc = IF Stale = {} THEN "pick" ELSE "sweep",
                       !.drop = {j \in Stale : jobs[j].attempts >= MAX_ATTEMPTS},
                       !.back = {j \in Stale : jobs[j].attempts < MAX_ATTEMPTS}]
    <3>1. wrk' = [wrk EXCEPT ![w] = x] /\ UNCHANGED <<jobs, inlined>>
      BY <2>6 DEF Scan, hist
    <3>2. x \in Worker /\ x.job = 0 /\ x.back \subseteq Stale /\ x.drop \subseteq Stale
      BY DEF Worker, FreshWorker, Stale
    <3>3. \A j \in Stale : jobs[j].status # "new" /\ j \notin inlined
      BY DEF Stale, InlineInv, InlineRows
    <3> QED
      BY <3>1, <3>2, <3>3, WorkerFrame
  <2>7. ASSUME NEW w \in Workers, Sweep(w) PROVE InlineInv'
    <3>1. /\ UNCHANGED inlined
          /\ wrk' = [wrk EXCEPT ![w] = [FreshWorker EXCEPT !.pc = "pick"]]
      BY <2>7 DEF Sweep
    <3>2. \A j \in inlined : jobs'[j] = jobs[j]
      BY <2>0, <2>7 DEF Sweep, InlineInv, InlineExclusive
    <3>3. \A j \in JobIds : jobs[j].status # "new" => jobs'[j].status # "new"
      BY <2>0, <2>7 DEF Sweep, MarkFailed, Requeue, Row
    <3>4. Held(w)' = {} /\ \A v \in Workers \ {w} : wrk'[v] = wrk[v]
      BY <2>0, <3>1 DEF Held, FreshWorker
    <3>5. InlineRows'
      BY <2>0, <3>1, <3>2 DEF InlineInv, InlineRows
    <3>6. HeldRowsExist'
      BY <2>0, <3>3, <3>4 DEF InlineInv, HeldRowsExist, Held
    <3>7. InlineExclusive'
      BY <2>0, <3>1, <3>4 DEF InlineInv, InlineExclusive, Held
    <3> QED
      BY <3>5, <3>6, <3>7 DEF InlineInv
  <2>8. ASSUME NEW w \in Workers, Pick(w) PROVE InlineInv'
    <3>1. UNCHANGED <<jobs, inlined>>
      BY <2>8 DEF Pick, hist
    <3>2. CASE wrk' = [wrk EXCEPT ![w].pc = "idle"]
      BY <2>0, <3>1, <3>2 DEF InlineInv, InlineRows, HeldRowsExist, InlineExclusive, Held, Worker
    <3>3. ASSUME NEW j \in JobIds, j \in Queued,
                 wrk' = [wrk EXCEPT ![w].pc = "claim", ![w].job = j]
          PROVE  InlineInv'
      <4> DEFINE x == [[wrk[w] EXCEPT !.pc = "claim"] EXCEPT !.job = j]
      <4>1. wrk' = [wrk EXCEPT ![w] = x] /\ x \in Worker
        BY <2>0, <3>3 DEF Worker
      <4>2. x.job = j /\ x.back = wrk[w].back /\ x.drop = wrk[w].drop
        BY <2>0 DEF Worker
      <4>3. jobs[j].status # "new" /\ j \notin inlined
        BY <3>3 DEF Queued, InlineInv, InlineRows
      <4>4. \A k \in (wrk[w].back \union wrk[w].drop) \ {0} :
              jobs[k].status # "new" /\ k \notin inlined
        BY DEF InlineInv, HeldRowsExist, InlineExclusive, Held
      <4> QED
        BY <3>1, <4>1, <4>2, <4>3, <4>4, WorkerFrame
    <3> QED
      BY <2>8, <3>2, <3>3 DEF Pick, Oldest
  <2>9. ASSUME NEW w \in Workers, Claim(w) PROVE InlineInv'
    <3> DEFINE j == wrk[w].job
    <3>1. CASE jobs[j].status # "queued"
      <4>1. /\ wrk' = [wrk EXCEPT ![w] = [FreshWorker EXCEPT !.pc = "idle"]]
            /\ UNCHANGED <<jobs, inlined>>
        BY <2>9, <3>1 DEF Claim, hist
      <4> QED
        BY <4>1, WorkerFrame DEF FreshWorker, Worker
    <3>2. CASE jobs[j].status = "queued"
      <4>1. /\ jobs' = [jobs EXCEPT ![j] = Claimed(w, @)]
            /\ wrk' = [wrk EXCEPT ![w].pc = "render"]
            /\ UNCHANGED inlined
        BY <2>9, <3>2 DEF Claim, hist
      <4>2. \A i \in inlined : jobs'[i] = jobs[i]
        BY <2>0, <4>1 DEF InlineInv, InlineExclusive
      <4>3. \A i \in JobIds : jobs[i].status # "new" => jobs'[i].status # "new"
        BY <2>0, <4>1 DEF Claimed, Row
      <4>4. \A v \in Workers : /\ wrk'[v].job = wrk[v].job
                               /\ wrk'[v].back = wrk[v].back /\ wrk'[v].drop = wrk[v].drop
        BY <2>0, <4>1 DEF Worker
      <4>5. InlineRows'
        BY <4>1, <4>2 DEF InlineInv, InlineRows
      <4>6. HeldRowsExist'
        BY <2>0, <4>3, <4>4 DEF InlineInv, HeldRowsExist, Held
      <4>7. InlineExclusive'
        BY <4>1, <4>4 DEF InlineInv, InlineExclusive
      <4> QED
        BY <4>5, <4>6, <4>7 DEF InlineInv
    <3> QED
      BY <3>1, <3>2
  <2>10. ASSUME NEW w \in Workers, NEW p \in {"scan", "dead"},
                wrk' = [wrk EXCEPT ![w] = [FreshWorker EXCEPT !.pc = p]],
                UNCHANGED inlined,
                \A k \in JobIds : /\ jobs[k].status # "new" => jobs'[k].status # "new"
                                  /\ k \in inlined => \/ jobs'[k] = jobs[k]
                                                      \/ jobs'[k].status = "gone"
         PROVE  InlineInv'
    <3>1. Held(w)' = {} /\ wrk'[w].job = 0 /\ \A v \in Workers \ {w} : wrk'[v] = wrk[v]
      BY <2>0, <2>10 DEF Held, FreshWorker
    <3>2. InlineRows'
      BY <2>0, <2>10 DEF InlineInv, InlineRows
    <3>3. HeldRowsExist'
      BY <2>0, <2>10, <3>1 DEF InlineInv, HeldRowsExist, Held
    <3>4. InlineExclusive'
      BY <2>0, <2>10, <3>1 DEF InlineInv, InlineExclusive, Held
    <3> QED
      BY <3>2, <3>3, <3>4 DEF InlineInv
  <2>11. ASSUME NEW w \in Workers, Idle(w) PROVE InlineInv'
    <3>1. wrk' = [wrk EXCEPT ![w] = [FreshWorker EXCEPT !.pc = "scan"]] /\ UNCHANGED inlined
      BY <2>11 DEF Idle, FreshWorker, hist
    <3>2. \A k \in JobIds : jobs'[k] = jobs[k] \/ jobs'[k].status = "gone"
      BY <2>0, <2>11 DEF Idle, NoRow
    <3> QED
      BY <2>10, <3>1, <3>2
  <2>12. ASSUME NEW w \in Workers, Render(w) PROVE InlineInv'
    <3>1. PICK out : wrk' = [wrk EXCEPT ![w].pc = "store", ![w].out = out]
      BY <2>12 DEF Render
    <3>2. UNCHANGED <<jobs, inlined>>
      BY <2>12 DEF Render, hist
    <3>3. \A v \in Workers : /\ wrk'[v].job = wrk[v].job
                             /\ wrk'[v].back = wrk[v].back /\ wrk'[v].drop = wrk[v].drop
      BY <2>0, <3>1 DEF Worker
    <3> QED
      BY <3>2, <3>3 DEF InlineInv, InlineRows, HeldRowsExist, InlineExclusive, Held
  <2>13. ASSUME NEW w \in Workers, Store(w) PROVE InlineInv'
    <3> DEFINE j == wrk[w].job
    <3>1. /\ jobs' = [jobs EXCEPT ![j] = Finish(@, wrk[w].out)]
          /\ wrk' = [wrk EXCEPT ![w] = [FreshWorker EXCEPT !.pc = "scan"]]
          /\ UNCHANGED inlined
      BY <2>13 DEF Store, FreshWorker, hist
    <3>2. wrk[w].out \in Docs \union {None, Failed}
      BY <2>0 DEF Worker
    <3>3. \A k \in JobIds : jobs'[k] = jobs[k] \/ jobs'[k].status \in {"complete", "failed"}
      BY <2>0, <2>4, <3>1, <3>2
    <3>4. \A k \in inlined : jobs'[k] = jobs[k]
      BY <2>0, <3>1 DEF InlineInv, InlineExclusive
    <3> QED
      BY <2>10, <3>1, <3>3, <3>4
  <2>14. ASSUME NEW w \in Workers, WorkerError(w) \/ WorkerCrash(w) \/ Restart(w)
         PROVE  InlineInv'
    <3>1. \E p \in {"scan", "dead"} : wrk' = [wrk EXCEPT ![w] = [FreshWorker EXCEPT !.pc = p]]
      BY <2>14 DEF WorkerError, WorkerCrash, Restart, FreshWorker
    <3>2. UNCHANGED <<jobs, inlined>>
      BY <2>14 DEF WorkerError, WorkerCrash, Restart, hist
    <3> QED
      BY <2>10, <3>1, <3>2
  <2>15. CASE Edit
    BY <2>15, EditFrame, InlineFrame
  <2>16. CASE DeleteScope
    <3>1. UNCHANGED <<wrk, inlined>>
      BY <2>16 DEF DeleteScope, hist
    <3>2. \A k \in JobIds : jobs'[k] = jobs[k] \/ jobs'[k].status = "gone"
      BY <2>0, <2>16 DEF DeleteScope, NoRow
    <3> QED
      BY <3>1, <3>2, InlineFrame
  <2>17. ASSUME NEW j \in JobIds, Age(j) PROVE InlineInv'
    <3>1. UNCHANGED <<wrk, inlined>>
      BY <2>17 DEF Age, hist
    <3>2. j \notin inlined
      BY <2>17 DEF Age, InlineInv, InlineRows
    <3>3. /\ jobs'[j].status # "new"
          /\ \A k \in JobIds : k # j => jobs'[k] = jobs[k]
      BY <2>0, <2>17 DEF Age, Row
    <3> QED
      BY <3>1, <3>2, <3>3, InlineFrame
  <2>18. ASSUME NEW j \in JobIds, Expire(j) PROVE InlineInv'
    <3>1. UNCHANGED <<wrk, inlined>>
      BY <2>18 DEF Expire, hist
    <3>2. \A k \in JobIds : /\ jobs'[k].status = jobs[k].status
                            /\ jobs'[k].started = jobs[k].started
      BY <2>0, <2>18 DEF Expire, Row
    <3> QED
      BY <3>1, <3>2, InlineFrame
  <2>19. CASE UNCHANGED vars
    BY <2>19, InlineFrame DEF vars
  <2> QED
    BY <2>1, <2>2, <2>3, <2>5, <2>6, <2>7, <2>8, <2>9, <2>11, <2>12, <2>13, <2>14, <2>15,
       <2>16, <2>17, <2>18, <2>19
    DEF Next, ClientStep, WorkerStep, ReadStep
<1> QED
  BY <1>1, <1>2, TypeInv, PTL DEF Spec

(* A document rendered inside a web request is never handed to a worker as
   well, however many workers sweep the table. *)
THEOREM InlineRendersExclusive == Spec => []InlineExclusive
<1>1. InlineInv => InlineExclusive
  BY DEF InlineInv
<1> QED
  BY <1>1, InlineInvariant, PTL

-----------------------------------------------------------------------------
(* Exact downloads. *)

(* A kept result has the fingerprint the row was inserted for, and while a render
   of it is outstanding so has the document: an edit would have overtaken it. *)
RowExact(j) ==
  j \notin overtaken =>
    /\ jobs[j].result # None => Fingerprint[jobs[j].result] = jobs[j].key
    /\ InFlight(j) /\ jobs[j].status # "gone" /\ doc # None => Fingerprint[doc] = jobs[j].key

Rendered(out, j) ==
  j \notin overtaken /\ jobs[j].status # "gone" /\ out # Failed => Fingerprint[out] = jobs[j].key

WorkerExact(w) ==
  /\ wrk[w].pc \in {"claim", "render", "store"} => wrk[w].job # 0
  /\ wrk[w].pc = "store" => Rendered(wrk[w].out, wrk[w].job)

(* A request nobody edited under works on a state with its fingerprint; one that
   renders inline has its own running row, one that polls a row of that key. *)
RequestExact(c) ==
  LET r == req[c] IN
  /\ r.pc \notin {"idle", "served"} /\ ~r.moved /\ doc # None => Fingerprint[doc] = r.key
  /\ r.pc \in {"render", "store"} =>
       r.job \in inlined /\ jobs[r.job].status \in {"running", "gone"}
  /\ r.pc = "store" => /\ r.out \in Docs \union {Failed}
                       /\ ~r.moved /\ r.out # Failed => Fingerprint[r.out] = r.key
                       /\ Rendered(r.out, r.job)
  /\ r.pc = "polling" => /\ jobs[r.job].status # "new"
                         /\ jobs[r.job].status # "gone" => jobs[r.job].key = r.key
  /\ r.pc = "served" =>
       r.out \in Docs /\ (Fingerprint[r.out] = r.key \/ r.job \in overtaken \/ r.moved)

Inline(c) == req[c].pc \in {"render", "store"}

ExactInv ==
  /\ \A j \in JobIds : RowExact(j)
  /\ \A w \in Workers : WorkerExact(w)
  /\ \A c \in Clients : RequestExact(c)
  /\ \A c, d \in Clients : Inline(c) /\ Inline(d) /\ c # d => req[c].job # req[d].job

(* What a row keeps through every step but its own INSERT and the request's
   own commit. *)
RowKept(j) ==
  \/ jobs'[j].status = "gone"
  \/ /\ jobs[j].status # "gone"
     /\ jobs'[j].key = jobs[j].key
     /\ jobs[j].status # "new" => jobs'[j].status # "new"
     /\ j \in inlined /\ jobs[j].status = "running" => jobs'[j].status = "running"

(* A row that gets no result, and no render that was not outstanding. *)
LEMMA RowFrame ==
  ASSUME NEW j \in JobIds, RowExact(j), overtaken \subseteq overtaken', doc' \in {doc, None},
         RowKept(j), jobs'[j].result \in {None, jobs[j].result},
         jobs'[j].status = "gone" => jobs'[j].result = None \/ jobs'[j] = jobs[j],
         InFlight(j)' => InFlight(j)
  PROVE  RowExact(j)'
BY DEF RowExact, RowKept

LEMMA RequestFrame ==
  ASSUME NEW c \in Clients, RequestExact(c), req'[c] = req[c],
         overtaken \subseteq overtaken', inlined \subseteq inlined', doc' \in {doc, None},
         req[c].pc \in {"render", "store", "polling"} => RowKept(req[c].job)
  PROVE  RequestExact(c)'
BY DEF RequestExact, RowKept, Rendered

LEMMA OutcomeFrame ==
  ASSUME NEW w \in Workers, WorkerExact(w), wrk'[w] = wrk[w],
         overtaken \subseteq overtaken',
         wrk[w].pc = "store" => RowKept(wrk[w].job)
  PROVE  WorkerExact(w)'
BY DEF WorkerExact, RowKept, Rendered

(* Every step of the workers, of time and of a deletion has this shape. *)
LEMMA RowsStep ==
  ASSUME TypeOK, JobNamed, ExactInv, UNCHANGED <<req, overtaken, inlined>>,
         doc' \in {doc, None},
         \A j \in JobIds : RowKept(j) /\ RowExact(j)',
         \A w \in Workers : wrk'[w] = wrk[w] \/ WorkerExact(w)'
  PROVE  ExactInv'
<1>1. ASSUME NEW c \in Clients PROVE RequestExact(c)'
  <2>1. req[c].pc \in {"render", "store", "polling"} => RowKept(req[c].job)
    BY DEF JobNamed
  <2> QED
    BY <2>1, RequestFrame DEF ExactInv
<1>2. ASSUME NEW w \in Workers PROVE WorkerExact(w)'
  <2>1. wrk[w].pc = "store" => RowKept(wrk[w].job)
    BY DEF ExactInv, WorkerExact, TypeOK, Worker
  <2> QED
    BY <2>1, OutcomeFrame DEF ExactInv
<1> QED
  BY <1>1, <1>2 DEF ExactInv, Inline

(* A step of one request that touches no row. *)
LEMMA RequestStep ==
  ASSUME TypeOK, JobNamed, ExactInv, NEW c \in Clients, NEW r \in Request,
         req' = [req EXCEPT ![c] = r], UNCHANGED <<jobs, wrk, doc, overtaken, inlined>>,
         RequestExact(c)', Inline(c)' => Inline(c) /\ r.job = req[c].job
  PROVE  ExactInv'
<1>1. req'[c] = r /\ \A d \in Clients \ {c} : req'[d] = req[d]
  BY DEF TypeOK
<1>2. ASSUME NEW d \in Clients, d # c PROVE RequestExact(d)'
  <2>1. req[d].pc \in {"render", "store", "polling"} => RowKept(req[d].job)
    BY DEF RowKept
  <2> QED
    BY <1>1, <1>2, RequestFrame DEF ExactInv, RequestExact, Rendered
<1>3. \A j \in JobIds : RowExact(j)'
  BY DEF ExactInv, RowExact, InFlight
<1>4. \A w \in Workers : WorkerExact(w)'
  BY DEF ExactInv, WorkerExact, Rendered
<1>5. \A d, e \in Clients : Inline(d)' /\ Inline(e)' /\ d # e => req'[d].job # req'[e].job
  BY <1>1 DEF ExactInv, Inline
<1> QED
  BY <1>2, <1>3, <1>4, <1>5 DEF ExactInv, Inline

(* A render either fails or yields the document it read. *)
LEMMA FinishRow ==
  ASSUME NEW row \in Row, NEW out \in Docs \union {None, Failed}
  PROVE  /\ Finish(row, out).key = row.key
         /\ Finish(row, out).status \in {"complete", "failed"}
         /\ \/ Finish(row, out).result \in {None, row.result}
            \/ Finish(row, out).result = out /\ out # Failed
BY DEF Finish, MarkComplete, MarkFailed, Row

LEMMA ReadExact ==
  ASSUME TypeOK, JobNamed, ExactInv, TypeOK', NEW c \in Clients, ReadStep(c)
  PROVE  ExactInv'
<1>0. /\ req \in [Clients -> Request] /\ req[c] \in Request /\ req'[c] \in Request
      /\ UNCHANGED <<jobs, wrk, doc, overtaken, inlined>>
      /\ RequestExact(c) /\ doc \in Docs \union {None}
      /\ \A j \in JobIds : RowExact(j) /\ jobs[j] \in Row
  BY ReadStepFrame
  DEF TypeOK, ExactInv, ReadStep, Lookup, EnqueueFind, InlineRender, InlineAgain, Poll, Leave,
      RequestError, RequestCrash, hist
<1>1. SUFFICES /\ req' = [req EXCEPT ![c] = req'[c]]
               /\ RequestExact(c)'
               /\ Inline(c)' => Inline(c) /\ req'[c].job = req[c].job
  BY <1>0, RequestStep
<1>2. req' = [req EXCEPT ![c] = req'[c]]
  BY <1>0 DEF ReadStep, Lookup, EnqueueFind, InlineRender, InlineAgain, Poll, Leave,
      RequestError, RequestCrash
<1>3. CASE Lookup(c)
  <2>1. CASE req'[c].pc = "missed"
    <3>1. req'[c] = [IdleRequest EXCEPT !.pc = "missed", !.key = Fingerprint[doc]]
      BY <1>0, <1>3, <2>1 DEF Lookup
    <3>2. req'[c].pc = "missed" /\ req'[c].key = Fingerprint[doc]
      BY <3>1 DEF IdleRequest
    <3> QED
      BY <1>0, <1>2, <3>2 DEF RequestExact, Inline
  <2>2. CASE req'[c].pc # "missed"
    <3>1. PICK j \in Cached(Fingerprint[doc]) :
            req'[c] = [pc |-> "served", key |-> Fingerprint[doc], job |-> j,
                       out |-> jobs[j].result, moved |-> FALSE]
      BY <1>0, <1>3, <2>2 DEF Lookup, IdleRequest
    <3>2. /\ j \in JobIds /\ jobs[j].key = Fingerprint[doc] /\ jobs[j].result \in Docs
          /\ jobs[j].status = "complete"
      BY <1>0 DEF Cached, Complete, Row
    <3>3. j \in overtaken \/ Fingerprint[jobs[j].result] = Fingerprint[doc]
      BY <1>0, <3>2, QueueAssumption DEF RowExact
    <3> QED
      BY <1>0, <1>2, <3>1, <3>2, <3>3 DEF RequestExact, Inline
  <2> QED
    BY <2>1, <2>2
<1>4. CASE EnqueueFind(c)
  <2>1. CASE req' = [req EXCEPT ![c].pc = "insert"]
    BY <1>0, <1>2, <1>4, <2>1 DEF EnqueueFind, RequestExact, Inline, Request
  <2>2. ASSUME NEW j \in Pending(req[c].key), req' = [req EXCEPT ![c].pc = "polling", ![c].job = j]
        PROVE  RequestExact(c)' /\ ~Inline(c)'
    <3>1. j \in JobIds /\ jobs[j].status \in {"queued", "running"} /\ jobs[j].key = req[c].key
      BY DEF Pending, Live
    <3>2. /\ req'[c].pc = "polling" /\ req'[c].job = j /\ req'[c].key = req[c].key
          /\ req'[c].moved = req[c].moved
      BY <1>0, <2>2 DEF Request
    <3> QED
      BY <1>0, <1>4, <3>1, <3>2 DEF EnqueueFind, RequestExact, Inline
  <2> QED
    BY <1>2, <1>4, <2>1, <2>2 DEF EnqueueFind
<1>5. CASE InlineRender(c)
  <2>1. /\ req[c].pc = "render" /\ doc # None /\ req'[c].pc = "store"
        /\ req'[c].out \in {doc, Failed} /\ doc \in Docs /\ req'[c].job = req[c].job
        /\ req'[c].key = req[c].key /\ req'[c].moved = req[c].moved
    BY <1>0, <1>5 DEF InlineRender, Request
  <2>2. req[c].job \in JobIds
    BY <2>1 DEF JobNamed
  <2>3. jobs[req[c].job].status \in {"running", "gone"}
    BY <1>0, <2>1 DEF RequestExact
  <2>4. Rendered(req'[c].out, req[c].job)
    BY <1>0, <2>1, <2>2, <2>3 DEF Rendered, RowExact, InFlight, Live
  <2> QED
    BY <1>0, <1>2, <2>1, <2>4 DEF RequestExact, Inline, Rendered
<1>6. CASE InlineAgain(c)
  BY <1>0, <1>2, <1>6 DEF InlineAgain, RequestExact, Inline, Request
<1>7. CASE Poll(c)
  <2>1. /\ req[c].pc = "polling" /\ jobs[req[c].job].status = "complete"
        /\ jobs[req[c].job].result # None /\ req'[c].pc = "served"
        /\ req'[c].out = jobs[req[c].job].result /\ req'[c].job = req[c].job
        /\ req'[c].key = req[c].key
    BY <1>0, <1>7 DEF Poll, Request
  <2>2. req[c].job \in JobIds
    BY <2>1 DEF JobNamed
  <2>3. /\ req[c].job \in overtaken \/ Fingerprint[jobs[req[c].job].result] = req[c].key
        /\ jobs[req[c].job].result \in Docs
    BY <1>0, <2>1, <2>2 DEF RowExact, RequestExact, Row
  <2> QED
    BY <1>0, <1>2, <2>1, <2>3 DEF RequestExact, Inline
<1>8. CASE Leave(c) \/ RequestError(c) \/ RequestCrash(c)
  <2>1. req'[c] = IdleRequest
    BY <1>0, <1>8 DEF Leave, RequestError, RequestCrash
  <2> QED
    BY <1>2, <2>1 DEF RequestExact, Inline, IdleRequest
<1> QED
  BY <1>2, <1>3, <1>4, <1>5, <1>6, <1>7, <1>8 DEF ReadStep

(* The INSERT of a request's own row. *)
LEMMA InsertExact ==
  ASSUME TypeOK, JobNamed, HeldRowsExist, ExactInv, TypeOK',
         NEW c \in Clients, NEW j \in JobIds, NEW s \in {"queued", "running"},
         req[c].pc \in {"missed", "insert"}, InsertRow(c, j, s), UNCHANGED <<doc, wrk>>,
         inlined \subseteq inlined', s = "running" => j \in inlined'
  PROVE  ExactInv'
<1>0. /\ jobs[j].status = "new" /\ doc # None
      /\ jobs' = [jobs EXCEPT ![j] = [NoRow EXCEPT !.status = s, !.key = req[c].key]]
      /\ overtaken' = IF req[c].moved THEN overtaken \union {j} ELSE overtaken
      /\ req' = [req EXCEPT ![c].job = j,
                            ![c].pc = IF s = "queued" THEN "polling" ELSE "render"]
  BY DEF InsertRow, Oldest, NewIds
<1>1. /\ req'[c].job = j /\ req'[c].key = req[c].key /\ req'[c].moved = req[c].moved
      /\ req'[c].pc = IF s = "queued" THEN "polling" ELSE "render"
      /\ \A d \in Clients \ {c} : req'[d] = req[d]
  BY <1>0 DEF TypeOK, Request
<1>2. /\ jobs'[j].status = s /\ jobs'[j].key = req[c].key /\ jobs'[j].result = None
      /\ \A i \in JobIds \ {j} : jobs'[i] = jobs[i]
  BY <1>0 DEF TypeOK, NoRow
<1>3. RequestExact(c) /\ overtaken \subseteq overtaken'
  BY <1>0 DEF ExactInv
<1>4. ASSUME NEW i \in JobIds PROVE RowExact(i)'
  <2>1. CASE i = j
    BY <1>0, <1>1, <1>2, <1>3, <2>1 DEF RowExact, RequestExact
  <2>2. CASE i # j
    BY <1>0, <1>2, <1>3, <2>2 DEF ExactInv, RowExact, InFlight
  <2> QED
    BY <2>1, <2>2
<1>5. ASSUME NEW w \in Workers PROVE WorkerExact(w)'
  <2>1. wrk[w].pc = "store" => wrk[w].job \in JobIds \ {j}
    BY <1>0 DEF ExactInv, WorkerExact, HeldRowsExist, Held, TypeOK, Worker
  <2>2. wrk[w].pc = "store" => jobs'[wrk[w].job] = jobs[wrk[w].job]
    BY <1>2, <2>1
  <2> QED
    BY <1>3, <2>2 DEF ExactInv, WorkerExact, Rendered
<1>6. ASSUME NEW d \in Clients, d # c
      PROVE  RequestExact(d)' /\ (Inline(d) => req[d].job # j)
  <2>1. req[d].pc \in {"render", "store", "polling"} =>
          req[d].job \in JobIds /\ jobs[req[d].job].status # "new"
    BY DEF ExactInv, RequestExact, JobNamed
  <2>2. req[d].pc \in {"render", "store", "polling"} => RowKept(req[d].job)
    BY <1>0, <1>2, <2>1 DEF RowKept
  <2> QED
    BY <1>0, <1>1, <1>3, <1>6, <2>1, <2>2, RequestFrame DEF ExactInv, Inline
<1>7. RequestExact(c)'
  BY <1>0, <1>1, <1>2, <1>3 DEF RequestExact
<1>8. \A d, e \in Clients : Inline(d)' /\ Inline(e)' /\ d # e => req'[d].job # req'[e].job
  BY <1>1, <1>6 DEF ExactInv, Inline
<1> QED
  BY <1>4, <1>5, <1>6, <1>7, <1>8 DEF ExactInv, Inline

(* The commit of an inline render: nobody else has the row. *)
LEMMA StoreExact ==
  ASSUME TypeOK, JobNamed, InlineExclusive, ExactInv, TypeOK',
         NEW c \in Clients, InlineStore(c)
  PROVE  ExactInv'
<1> DEFINE j == req[c].job
           row == Finish(jobs[j], req[c].out)
<1>0. /\ req[c].pc = "store" /\ jobs[j].status # "gone" /\ j \in JobIds /\ j \in inlined
      /\ jobs[j] \in Row /\ req[c] \in Request
      /\ UNCHANGED <<doc, wrk, inlined, overtaken>>
      /\ RequestExact(c) /\ RowExact(j) /\ Inline(c)
  BY DEF TypeOK, JobNamed, ExactInv, RequestExact, InlineStore, hist, Inline
<1>1. row \in Row
  BY <1>0, FinishType DEF TypeOK, Request
<1>2. /\ jobs'[j] = [row EXCEPT !.started = "recent"]
      /\ \A i \in JobIds \ {j} : jobs'[i] = jobs[i]
  BY <1>0 DEF TypeOK, InlineStore
<1>3. /\ jobs'[j].key = jobs[j].key /\ jobs'[j].status \in {"complete", "failed"}
      /\ \/ jobs'[j].result \in {None, jobs[j].result}
         \/ jobs'[j].result = req[c].out /\ req[c].out # Failed
  <2>1. /\ row.key = jobs[j].key /\ row.status \in {"complete", "failed"}
        /\ row.result \in {None, jobs[j].result} \/ (row.result = req[c].out /\ req[c].out # Failed)
    BY <1>0, FinishRow DEF Request
  <2> QED
    BY <1>1, <1>2, <2>1 DEF Row
<1>4. \A w \in Workers : j \notin wrk[w].back /\ wrk[w].job # j
  BY <1>0 DEF InlineExclusive
<1>5. ASSUME NEW i \in JobIds PROVE RowExact(i)'
  <2>1. CASE i = j
    BY <1>0, <1>3, <1>4, <2>1 DEF RowExact, InFlight, Live, RequestExact, Rendered
  <2>2. CASE i # j
    BY <1>0, <1>2, <2>2 DEF ExactInv, RowExact, InFlight
  <2> QED
    BY <2>1, <2>2
<1>6. ASSUME NEW w \in Workers PROVE WorkerExact(w)'
  <2>1. wrk[w].pc = "store" => wrk[w].job \in JobIds \ {j}
    BY <1>4 DEF ExactInv, WorkerExact, TypeOK, Worker
  <2>2. wrk[w].pc = "store" => jobs'[wrk[w].job] = jobs[wrk[w].job]
    BY <1>2, <2>1
  <2> QED
    BY <1>0, <2>2 DEF ExactInv, WorkerExact, Rendered
<1>7. /\ req'[c] = IF req[c].out = Failed THEN IdleRequest
                   ELSE [req[c] EXCEPT !.pc = IF req[c].out \in Oversized THEN "again" ELSE "served"]
      /\ \A d \in Clients \ {c} : req'[d] = req[d]
  BY DEF TypeOK, InlineStore
<1>8. ASSUME NEW d \in Clients, d # c PROVE RequestExact(d)'
  <2>1. req[d].pc \in {"render", "store"} => req[d].job \in JobIds \ {j}
    BY <1>0, <1>8 DEF ExactInv, JobNamed, Inline
  <2>2. req[d].pc = "polling" => req[d].job \in JobIds
    BY DEF JobNamed
  <2>3. req'[d] = req[d] /\ RequestExact(d)
    BY <1>7, <1>8 DEF ExactInv
  <2>4. CASE req[d].pc = "polling" /\ req[d].job = j
    BY <1>0, <1>3, <2>3, <2>4 DEF RequestExact
  <2>5. CASE ~(req[d].pc = "polling" /\ req[d].job = j)
    <3>1. req[d].pc \in {"render", "store", "polling"} => RowKept(req[d].job)
      BY <1>2, <2>1, <2>2, <2>5 DEF RowKept
    <3> QED
      BY <1>0, <2>3, <3>1, RequestFrame
  <2> QED
    BY <2>4, <2>5
<1>9. RequestExact(c)' /\ ~Inline(c)'
  <2>1. CASE req[c].out = Failed
    BY <1>7, <2>1 DEF RequestExact, IdleRequest, Inline
  <2>2. CASE req[c].out # Failed
    <3>1. /\ req'[c].pc \in {"again", "served"} /\ req'[c].job = j /\ req'[c].key = req[c].key
          /\ req'[c].moved = req[c].moved /\ req'[c].out = req[c].out
      BY <1>0, <1>7, <2>2 DEF Request
    <3> QED
      BY <1>0, <2>2, <3>1 DEF RequestExact, Inline
  <2> QED
    BY <2>1, <2>2
<1> QED
  BY <1>5, <1>6, <1>7, <1>8, <1>9 DEF ExactInv, Inline

(* An edit moves every request under way and overtakes every outstanding render. *)
LEMMA EditExact ==
  ASSUME TypeOK, JobNamed, ExactInv, Edit
  PROVE  ExactInv'
<1>0. /\ UNCHANGED <<jobs, wrk, inlined>>
      /\ overtaken' = overtaken \union {j \in JobIds : InFlight(j)}
      /\ \A c \in Clients :
           req'[c] = IF req[c].pc \in {"idle", "served"} THEN req[c]
                     ELSE [req[c] EXCEPT !.moved = TRUE]
  BY DEF Edit
<1>1. ASSUME NEW j \in JobIds PROVE RowExact(j)'
  BY <1>0 DEF ExactInv, RowExact, InFlight
<1>2. ASSUME NEW w \in Workers PROVE WorkerExact(w)'
  BY <1>0 DEF ExactInv, WorkerExact, Rendered
<1>3. ASSUME NEW c \in Clients
      PROVE  /\ req'[c].pc = req[c].pc /\ req'[c].job = req[c].job
             /\ req'[c].key = req[c].key /\ req'[c].out = req[c].out
             /\ req[c].pc \in {"idle", "served"} => req'[c].moved = req[c].moved
             /\ req[c].pc \notin {"idle", "served"} => req'[c].moved
  <2>1. req[c] \in Request
    BY DEF TypeOK
  <2>2. CASE req[c].pc \in {"idle", "served"}
    BY <1>0, <2>1, <2>2 DEF Request
  <2>3. CASE req[c].pc \notin {"idle", "served"}
    BY <1>0, <2>1, <2>3 DEF Request
  <2> QED
    BY <2>2, <2>3
<1>4. ASSUME NEW c \in Clients PROVE RequestExact(c)'
  <2>1. RequestExact(c)
    BY DEF ExactInv
  <2>2. CASE req[c].pc \in {"idle", "served"}
    BY <1>0, <1>3, <2>1, <2>2 DEF RequestExact
  <2>3. CASE req[c].pc \notin {"idle", "served"}
    BY <1>0, <1>3, <2>1, <2>3 DEF RequestExact, Rendered
  <2> QED
    BY <2>2, <2>3
<1> QED
  BY <1>1, <1>2, <1>3, <1>4 DEF ExactInv, Inline

(* A step of one worker that changes no row: it may only let go of rows, or
   hold on to rows already running. *)
LEMMA WorkerStepExact ==
  ASSUME TypeOK, JobNamed, ExactInv, NEW w \in Workers, NEW x \in Worker,
         wrk' = [wrk EXCEPT ![w] = x], UNCHANGED <<jobs, req, doc, inlined, overtaken>>,
         WorkerExact(w)',
         x.pc = "render" => wrk[w].pc = "render" /\ x.job = wrk[w].job,
         \A j \in x.back : j \in wrk[w].back \/ jobs[j].status = "running"
  PROVE  ExactInv'
<1>1. wrk'[w] = x /\ \A v \in Workers \ {w} : wrk'[v] = wrk[v]
  BY DEF TypeOK
<1>2. ASSUME NEW j \in JobIds PROVE RowKept(j) /\ RowExact(j)'
  <2>1. InFlight(j)' => InFlight(j)
    BY <1>1 DEF InFlight, Live
  <2>2. RowKept(j)
    BY DEF RowKept
  <2> QED
    BY <2>1, <2>2, RowFrame DEF ExactInv
<1> QED
  BY <1>1, <1>2, RowsStep

(* ExactUnlessOvertaken speaks of served requests only; ExactInv follows the
   state from the fingerprint through the row and the renderer to the response. *)
LEMMA ExactInvariant == Spec => []ExactInv
<1>1. Init => ExactInv
  BY QueueAssumption
  DEF Init, ExactInv, RowExact, WorkerExact, RequestExact, Inline, InFlight, NoRow,
      FreshWorker, IdleRequest, Live
<1>2. /\ TypeOK /\ JobNamed /\ InlineInv /\ ExactInv
      /\ TypeOK' /\ JobNamed' /\ [Next]_vars
      => ExactInv'
  <2> SUFFICES ASSUME TypeOK, JobNamed, InlineInv, ExactInv, TypeOK', [Next]_vars
               PROVE  ExactInv'
    OBVIOUS
  <2>0. /\ jobs \in [JobIds -> Row] /\ wrk \in [Workers -> Worker]
        /\ \A j \in JobIds : jobs[j] \in Row /\ RowExact(j)
        /\ \A w \in Workers : wrk[w] \in Worker /\ WorkerExact(w) /\ wrk[w].back \subseteq JobIds
        /\ InlineExclusive /\ HeldRowsExist
    BY DEF TypeOK, ExactInv, InlineInv, Worker
  <2>1. ASSUME NEW c \in Clients, ReadStep(c) PROVE ExactInv'
    BY <2>1, ReadExact
  <2>2. ASSUME NEW c \in Clients, EnqueueInsert(c) PROVE ExactInv'
    <3>1. PICK j \in JobIds : InsertRow(c, j, "queued")
      BY <2>2 DEF EnqueueInsert
    <3>2. req[c].pc = "insert" /\ UNCHANGED <<doc, wrk, inlined>>
      BY <2>2 DEF EnqueueInsert
    <3> QED
      BY <2>0, <3>1, <3>2, InsertExact
  <2>3. ASSUME NEW c \in Clients, InlineInsert(c) PROVE ExactInv'
    <3>1. PICK j \in JobIds : InsertRow(c, j, "running") /\ inlined' = inlined \union {j}
      BY <2>3 DEF InlineInsert
    <3>2. req[c].pc = "missed" /\ UNCHANGED <<doc, wrk>>
      BY <2>3 DEF InlineInsert
    <3> QED
      BY <2>0, <3>1, <3>2, InsertExact
  <2>4. ASSUME NEW c \in Clients, InlineStore(c) PROVE ExactInv'
    BY <2>0, <2>4, StoreExact
  <2>5. ASSUME NEW w \in Workers, Scan(w) PROVE ExactInv'
    <3> DEFINE x == [FreshWorker EXCEPT
                       !.pc = IF Stale = {} THEN "pick" ELSE "sweep",
                       !.drop = {j \in Stale : jobs[j].attempts >= MAX_ATTEMPTS},
                       !.back = {j \in Stale : jobs[j].attempts < MAX_ATTEMPTS}]
    <3>1. wrk' = [wrk EXCEPT ![w] = x] /\ UNCHANGED <<jobs, req, doc, inlined, overtaken>>
      BY <2>5 DEF Scan, hist
    <3>2. x \in Worker /\ x.pc \in {"pick", "sweep"} /\ x.back \subseteq Stale
      BY DEF Worker, FreshWorker, Stale
    <3>3. WorkerExact(w)'
      BY <2>0, <3>1, <3>2 DEF WorkerExact
    <3> QED
      BY <3>1, <3>2, <3>3, WorkerStepExact DEF Stale
  <2>6. ASSUME NEW w \in Workers, Sweep(w) PROVE ExactInv'
    <3>1. /\ wrk'[w].pc = "pick" /\ wrk'[w].back = {}
          /\ \A v \in Workers \ {w} : wrk'[v] = wrk[v]
          /\ UNCHANGED <<req, doc, inlined, overtaken>>
      BY <2>0, <2>6 DEF Sweep, FreshWorker
    <3>2. ASSUME NEW j \in JobIds
          PROVE  \/ jobs'[j] = jobs[j]
                 \/ /\ jobs[j].status # "gone" /\ jobs'[j].key = jobs[j].key
                    /\ jobs'[j].result = jobs[j].result /\ j \notin inlined
                    /\ jobs'[j].status = "failed" \/ (jobs'[j].status = "queued" /\ j \in wrk[w].back)
      <4>1. j \in wrk[w].back \union wrk[w].drop => j \notin inlined /\ jobs[j].status # "gone"
        BY <2>6 DEF Sweep, InlineInv, InlineExclusive
      <4>2. /\ MarkFailed(jobs[j]).key = jobs[j].key /\ MarkFailed(jobs[j]).result = jobs[j].result
            /\ MarkFailed(jobs[j]).status = "failed"
        BY <2>0 DEF MarkFailed, Row
      <4>3. /\ Requeue(jobs[j]).key = jobs[j].key /\ Requeue(jobs[j]).result = jobs[j].result
            /\ Requeue(jobs[j]).status = "queued"
        BY <2>0 DEF Requeue, Row
      <4>4. jobs'[j] = IF j \in wrk[w].drop THEN MarkFailed(jobs[j])
                       ELSE IF j \in wrk[w].back THEN Requeue(jobs[j]) ELSE jobs[j]
        BY <2>6 DEF Sweep
      <4> QED
        BY <4>1, <4>2, <4>3, <4>4
    <3>3. ASSUME NEW j \in JobIds PROVE RowKept(j) /\ RowExact(j)'
      <4>1. RowKept(j)
        BY <3>2 DEF RowKept
      <4>2. InFlight(j)' => InFlight(j)
        BY <3>1, <3>2 DEF InFlight, Live
      <4>3. /\ jobs'[j].result \in {None, jobs[j].result}
            /\ jobs'[j].status = "gone" => jobs'[j] = jobs[j]
        BY <3>2
      <4> QED
        BY <2>0, <3>1, <4>1, <4>2, <4>3, RowFrame
    <3> QED
      BY <3>1, <3>3, RowsStep DEF WorkerExact
  <2>7. ASSUME NEW w \in Workers, Pick(w) PROVE ExactInv'
    <3>1. UNCHANGED <<jobs, req, doc, inlined, overtaken>> /\ wrk[w].pc = "pick"
      BY <2>7 DEF Pick, hist
    <3>2. PICK x \in Worker : /\ wrk' = [wrk EXCEPT ![w] = x] /\ x.back = wrk[w].back
                              /\ x.pc = "idle" \/ (x.pc = "claim" /\ x.job # 0)
      <4>1. CASE wrk' = [wrk EXCEPT ![w].pc = "idle"]
        <5>1. /\ [wrk[w] EXCEPT !.pc = "idle"] \in Worker
              /\ [wrk[w] EXCEPT !.pc = "idle"].back = wrk[w].back
              /\ [wrk[w] EXCEPT !.pc = "idle"].pc = "idle"
          BY <2>0 DEF Worker
        <5> QED
          BY <4>1, <5>1
      <4>2. ASSUME NEW j \in JobIds, wrk' = [wrk EXCEPT ![w].pc = "claim", ![w].job = j]
            PROVE  \E x \in Worker : /\ wrk' = [wrk EXCEPT ![w] = x] /\ x.back = wrk[w].back
                                     /\ x.pc = "idle" \/ (x.pc = "claim" /\ x.job # 0)
        <5>1. [[wrk[w] EXCEPT !.pc = "claim"] EXCEPT !.job = j] \in Worker
          BY <2>0 DEF Worker
        <5>2. j # 0
          BY QueueAssumption DEF JobIds
        <5> QED
          BY <2>0, <4>2, <5>1, <5>2 DEF Worker
      <4> QED
        BY <2>7, <4>1, <4>2 DEF Pick
    <3>3. WorkerExact(w)'
      BY <2>0, <3>2 DEF WorkerExact
    <3> QED
      BY <3>1, <3>2, <3>3, WorkerStepExact
  <2>8. ASSUME NEW w \in Workers, Claim(w) PROVE ExactInv'
    <3> DEFINE k == wrk[w].job
    <3>1. CASE jobs[k].status # "queued"
      <4>1. /\ wrk' = [wrk EXCEPT ![w] = [FreshWorker EXCEPT !.pc = "idle"]]
            /\ UNCHANGED <<jobs, req, doc, inlined, overtaken>>
        BY <2>8, <3>1 DEF Claim, hist
      <4>2. WorkerExact(w)'
        BY <2>0, <4>1 DEF WorkerExact, FreshWorker
      <4>3. /\ [FreshWorker EXCEPT !.pc = "idle"] \in Worker
            /\ [FreshWorker EXCEPT !.pc = "idle"].pc = "idle"
            /\ [FreshWorker EXCEPT !.pc = "idle"].back = {}
        BY DEF FreshWorker, Worker
      <4> QED
        BY <4>1, <4>2, <4>3, WorkerStepExact
    <3>2. CASE jobs[k].status = "queued"
      <4>1. /\ jobs' = [jobs EXCEPT ![k] = Claimed(w, @)]
            /\ wrk' = [wrk EXCEPT ![w].pc = "render"]
            /\ UNCHANGED <<req, doc, inlined, overtaken>>
            /\ wrk[w].pc = "claim"
        BY <2>8, <3>2 DEF Claim, hist
      <4>2. k \in JobIds
        BY <2>0, <4>1 DEF WorkerExact, Worker
      <4>3. /\ jobs'[k].key = jobs[k].key /\ jobs'[k].result = jobs[k].result
            /\ jobs'[k].status = "running"
            /\ \A j \in JobIds \ {k} : jobs'[j] = jobs[j]
        BY <2>0, <4>1, <4>2 DEF Claimed, Row
      <4>4. /\ wrk'[w].job = k /\ wrk'[w].back = wrk[w].back /\ wrk'[w].pc = "render"
            /\ \A v \in Workers \ {w} : wrk'[v] = wrk[v]
        BY <2>0, <4>1 DEF Worker
      <4>5. ASSUME NEW j \in JobIds PROVE RowKept(j) /\ RowExact(j)'
        <5>1. RowKept(j)
          BY <3>2, <4>3 DEF RowKept
        <5>2. InFlight(j)' => InFlight(j)
          BY <3>2, <4>3, <4>4 DEF InFlight, Live
        <5> QED
          BY <2>0, <4>1, <4>3, <5>1, <5>2, RowFrame
      <4>6. WorkerExact(w)'
        BY <2>0, <4>1, <4>4 DEF WorkerExact
      <4> QED
        BY <4>1, <4>4, <4>5, <4>6, RowsStep
    <3> QED
      BY <3>1, <3>2
  <2>9. ASSUME NEW w \in Workers, Idle(w) PROVE ExactInv'
    <3>1. /\ wrk' = [wrk EXCEPT ![w] = FreshWorker]
          /\ UNCHANGED <<req, doc, inlined, overtaken>>
          /\ \A j \in JobIds : jobs'[j] = jobs[j] \/ (jobs'[j].status = "gone" /\ jobs'[j].result = None)
      BY <2>0, <2>9 DEF Idle, NoRow, hist
    <3>2. /\ wrk'[w].pc = "scan" /\ wrk'[w].back = {}
          /\ \A v \in Workers \ {w} : wrk'[v] = wrk[v]
      BY <2>0, <3>1 DEF FreshWorker
    <3>3. ASSUME NEW j \in JobIds PROVE RowKept(j) /\ RowExact(j)'
      <4>1. CASE jobs'[j] = jobs[j]
        BY <2>0, <3>1, <3>2, <4>1, RowFrame DEF InFlight, RowKept
      <4>2. CASE jobs'[j].status = "gone" /\ jobs'[j].result = None
        BY <4>2 DEF RowKept, RowExact
      <4> QED
        BY <3>1, <4>1, <4>2
    <3> QED
      BY <3>1, <3>2, <3>3, RowsStep DEF WorkerExact
  <2>10. ASSUME NEW w \in Workers, Render(w) PROVE ExactInv'
    <3>1. /\ wrk[w].pc = "render" /\ UNCHANGED <<jobs, req, doc, inlined, overtaken>>
      BY <2>10 DEF Render, hist
    <3>2. PICK out \in Docs \union {Failed} :
            /\ (out = doc /\ doc # None) \/ out = Failed
            /\ wrk' = [wrk EXCEPT ![w].pc = "store", ![w].out = out]
      BY <2>10 DEF Render, TypeOK
    <3> DEFINE x == [[wrk[w] EXCEPT !.pc = "store"] EXCEPT !.out = out]
    <3>3. /\ wrk' = [wrk EXCEPT ![w] = x] /\ x \in Worker /\ x.pc = "store"
          /\ x.out = out /\ x.job = wrk[w].job /\ x.back = wrk[w].back
      BY <2>0, <3>2 DEF Worker
    <3>4. wrk[w].job \in JobIds
      BY <2>0, <3>1 DEF WorkerExact, Worker
    <3>5. Rendered(out, wrk[w].job)
      BY <2>0, <3>1, <3>2, <3>4 DEF Rendered, RowExact, InFlight
    <3>6. WorkerExact(w)'
      BY <2>0, <3>1, <3>3, <3>5 DEF WorkerExact, Rendered
    <3> HIDE DEF x
    <3> QED
      BY <3>1, <3>3, <3>6, WorkerStepExact
  <2>11. ASSUME NEW w \in Workers, Store(w) PROVE ExactInv'
    <3> DEFINE k == wrk[w].job
    <3>1. /\ wrk[w].pc = "store" /\ jobs[k].status # "gone"
          /\ jobs' = [jobs EXCEPT ![k] = Finish(@, wrk[w].out)]
          /\ wrk' = [wrk EXCEPT ![w] = FreshWorker]
          /\ UNCHANGED <<req, doc, inlined, overtaken>>
      BY <2>11 DEF Store, hist
    <3>2. k \in JobIds /\ k \notin inlined /\ Rendered(wrk[w].out, k)
      BY <2>0, <3>1 DEF WorkerExact, Worker, InlineExclusive
    <3>3. /\ jobs'[k] = Finish(jobs[k], wrk[w].out)
          /\ \A j \in JobIds \ {k} : jobs'[j] = jobs[j]
      BY <2>0, <3>1, <3>2
    <3>4. /\ wrk'[w].pc = "scan" /\ wrk'[w].back = {}
          /\ \A v \in Workers \ {w} : wrk'[v] = wrk[v]
      BY <2>0, <3>1 DEF FreshWorker
    <3>5. /\ jobs'[k].key = jobs[k].key /\ jobs'[k].status \in {"complete", "failed"}
          /\ \/ jobs'[k].result \in {None, jobs[k].result}
             \/ jobs'[k].result = wrk[w].out /\ wrk[w].out # Failed
      BY <2>0, <3>2, <3>3, FinishRow DEF Worker
    <3>6. ASSUME NEW j \in JobIds PROVE RowKept(j) /\ RowExact(j)'
      <4>1. RowKept(j)
        BY <3>1, <3>2, <3>3, <3>5 DEF RowKept
      <4>2. InFlight(j)' => InFlight(j)
        BY <3>3, <3>4, <3>5 DEF InFlight, Live
      <4>3. CASE j = k /\ jobs'[k].result = wrk[w].out /\ wrk[w].out # Failed
        <5>1. j \notin overtaken => Fingerprint[jobs'[j].result] = jobs'[j].key
          BY <2>0, <3>1, <3>2, <3>5, <4>3 DEF Rendered
        <5>2. /\ j \notin overtaken /\ InFlight(j) /\ doc # None
                => Fingerprint[doc] = jobs[j].key
              /\ jobs'[j].key = jobs[j].key
          BY <2>0, <3>1, <3>5, <4>3 DEF RowExact
        <5>3. doc' = doc /\ overtaken' = overtaken /\ jobs[j].status # "gone"
          BY <3>1, <4>3
        <5> QED
          BY <4>1, <4>2, <5>1, <5>2, <5>3 DEF RowExact
      <4>4. CASE j # k \/ jobs'[k].result \in {None, jobs[k].result}
        <5>1. jobs'[j].result \in {None, jobs[j].result}
          BY <3>3, <4>4
        <5>2. jobs'[j].status = "gone" => jobs'[j] = jobs[j]
          BY <3>3, <3>5
        <5> QED
          BY <2>0, <3>1, <4>1, <4>2, <5>1, <5>2, RowFrame
      <4> QED
        BY <3>5, <4>1, <4>3, <4>4
    <3> QED
      BY <3>1, <3>4, <3>6, RowsStep DEF WorkerExact
  <2>12. ASSUME NEW w \in Workers, WorkerError(w) \/ WorkerCrash(w) \/ Restart(w)
         PROVE  ExactInv'
    <3>1. PICK p \in {"scan", "dead"} : wrk' = [wrk EXCEPT ![w] = [FreshWorker EXCEPT !.pc = p]]
      BY <2>12 DEF WorkerError, WorkerCrash, Restart, FreshWorker
    <3>2. UNCHANGED <<jobs, req, doc, inlined, overtaken>>
      BY <2>12 DEF WorkerError, WorkerCrash, Restart, hist
    <3>3. /\ [FreshWorker EXCEPT !.pc = p] \in Worker
          /\ [FreshWorker EXCEPT !.pc = p].pc = p /\ [FreshWorker EXCEPT !.pc = p].back = {}
      BY DEF FreshWorker, Worker
    <3>4. WorkerExact(w)'
      BY <2>0, <3>1, <3>3 DEF WorkerExact
    <3> QED
      BY <3>1, <3>2, <3>3, <3>4, WorkerStepExact
  <2>13. CASE Edit
    BY <2>13, EditExact
  <2>14. CASE DeleteScope
    <3>1. /\ UNCHANGED <<req, wrk, inlined, overtaken>> /\ doc' = None
          /\ \A j \in JobIds : \/ jobs[j].status = "new" /\ jobs'[j] = jobs[j]
                               \/ jobs'[j].status = "gone" /\ jobs'[j].result = None
      BY <2>0, <2>14 DEF DeleteScope, NoRow, hist
    <3>2. ASSUME NEW j \in JobIds PROVE RowKept(j) /\ RowExact(j)'
      BY <2>0, <3>1 DEF RowKept, RowExact
    <3> QED
      BY <3>1, <3>2, RowsStep
  <2>15. ASSUME NEW j \in JobIds, Age(j) \/ Expire(j) PROVE ExactInv'
    <3>1. UNCHANGED <<req, wrk, doc, inlined, overtaken>>
      BY <2>15 DEF Age, Expire, hist
    <3>2. \A i \in JobIds : /\ jobs'[i].status = jobs[i].status /\ jobs'[i].key = jobs[i].key
                            /\ jobs'[i].result = jobs[i].result
      BY <2>0, <2>15 DEF Age, Expire, Row
    <3>3. ASSUME NEW i \in JobIds PROVE RowKept(i) /\ RowExact(i)'
      BY <2>0, <3>1, <3>2 DEF RowKept, RowExact, InFlight
    <3> QED
      BY <3>1, <3>3, RowsStep
  <2>16. CASE UNCHANGED vars
    <3>1. UNCHANGED <<doc, jobs, req, wrk, inlined, overtaken>>
      BY <2>16 DEF vars, hist
    <3>2. \A i \in JobIds : RowKept(i) /\ RowExact(i)'
      BY <2>0, <3>1 DEF RowKept, RowExact, InFlight
    <3> QED
      BY <3>1, <3>2, RowsStep
  <2> QED
    BY <2>1, <2>2, <2>3, <2>4, <2>5, <2>6, <2>7, <2>8, <2>9, <2>10, <2>11, <2>12, <2>13, <2>14,
       <2>15, <2>16
    DEF Next, ClientStep, WorkerStep, ReadStep
<1> QED
  BY <1>1, <1>2, TypeInv, InlineInvariant, PTL DEF Spec

(* What a client is served is a document with the fingerprint its request
   computed, whichever way it came, unless an edit overtook that render: the
   queue, the inline renders and the cache together, for any number of each and
   whatever states the fingerprint fails to tell apart. *)
THEOREM DownloadsExact == Spec => []ExactUnlessOvertaken
<1>1. ExactInv => ExactUnlessOvertaken
  BY DEF ExactInv, RequestExact, ExactUnlessOvertaken
<1> QED
  BY <1>1, ExactInvariant, PTL

-----------------------------------------------------------------------------
(* Bounded retries. *)

Limit == MAX_ATTEMPTS + Cardinality(Workers) - 1

(* The workers that have decided to put a row back. *)
Returning(j) == {w \in Workers : j \in wrk[w].back}

(* The attempts a row has had and may still get: one if it is queued, and one
   for each worker about to queue it. *)
Budget(j) ==
  jobs[j].attempts + (IF jobs[j].status = "queued" THEN 1 ELSE 0) + Cardinality(Returning(j))

Untried(j) == jobs[j].attempts = 0 /\ Returning(j) = {}

BudgetInv == \A j \in JobIds : Untried(j) \/ Budget(j) <= Limit

LEMMA ReturningSize ==
  ASSUME TypeOK, NEW j \in JobIds
  PROVE  /\ IsFiniteSet(Returning(j)) /\ Cardinality(Workers) \in Nat
         /\ Cardinality(Returning(j)) \in 0..Cardinality(Workers)
         /\ jobs[j].attempts \in Nat
         /\ MAX_ATTEMPTS \in Nat \ {0} /\ Limit \in Int
<1>1. IsFiniteSet(Workers) /\ Returning(j) \in SUBSET Workers
  BY QueueAssumption DEF Returning
<1>2. IsFiniteSet(Returning(j)) /\ Cardinality(Returning(j)) <= Cardinality(Workers)
  BY <1>1, FS_Subset
<1>3. Cardinality(Workers) \in Nat /\ Cardinality(Returning(j)) \in Nat
  BY <1>1, <1>2, FS_CardinalityType
<1> QED
  BY <1>2, <1>3, QueueAssumption DEF TypeOK, Row, Limit

(* Nobody decides to return the row, and it gets no attempt and no queueing. *)
LEMMA BudgetFrame ==
  ASSUME TypeOK, TypeOK', NEW j \in JobIds, Untried(j) \/ Budget(j) <= Limit,
         Returning(j)' \subseteq Returning(j),
         \/ /\ jobs'[j].attempts = jobs[j].attempts
            /\ jobs'[j].status = "queued" => jobs[j].status = "queued"
         \/ jobs'[j].attempts = 0 /\ jobs'[j].status # "queued"
  PROVE  (Untried(j) \/ Budget(j) <= Limit)'
<1>1. /\ Cardinality(Returning(j)') <= Cardinality(Returning(j))
      /\ Cardinality(Returning(j)') \in Nat
  BY ReturningSize, FS_Subset, FS_CardinalityType
<1>2. /\ Cardinality(Returning(j)) \in Nat /\ jobs[j].attempts \in Nat
      /\ jobs'[j].attempts \in Nat /\ Limit \in Int /\ Limit' = Limit
  BY ReturningSize DEF TypeOK, Row, Limit
<1>3. CASE Untried(j)
  BY <1>3 DEF Untried
<1>4. CASE Budget(j) <= Limit
  BY <1>1, <1>2, <1>4 DEF Budget
<1> QED
  BY <1>3, <1>4

(* Each worker that sweeps a stale row while it still has attempts left adds
   at most one, whatever the others do in between.  The bound on the attempts
   alone is not inductive: a row below it may be queued already and about to be
   queued again, and Budget counts those attempts before they happen. *)
THEOREM RetriesBounded == Spec => []AttemptsBound
<1>1. Init => BudgetInv
  BY DEF Init, BudgetInv, Untried, Returning, NoRow, FreshWorker
<1>2. /\ TypeOK /\ JobNamed /\ InlineInv /\ BudgetInv /\ TypeOK' /\ [Next]_vars
      => BudgetInv'
  <2> SUFFICES ASSUME TypeOK, JobNamed, InlineInv, BudgetInv, TypeOK', [Next]_vars,
                      NEW j \in JobIds
               PROVE  (Untried(j) \/ Budget(j) <= Limit)'
    BY DEF BudgetInv
  <2> DEFINE Goal == (Untried(j) \/ Budget(j) <= Limit)'
             n == Cardinality(Returning(j))
  <2>0. /\ jobs \in [JobIds -> Row] /\ jobs[j] \in Row /\ wrk \in [Workers -> Worker]
        /\ Untried(j) \/ Budget(j) <= Limit
        /\ IsFiniteSet(Returning(j)) /\ Cardinality(Workers) \in Nat
        /\ n \in 0..Cardinality(Workers) /\ jobs[j].attempts \in Nat
        /\ MAX_ATTEMPTS \in Nat \ {0} /\ Limit = MAX_ATTEMPTS + Cardinality(Workers) - 1
    BY ReturningSize DEF TypeOK, BudgetInv, Limit
  <2>1. ASSUME wrk' = wrk \/ \E w \in Workers, x \in Worker :
                               wrk' = [wrk EXCEPT ![w] = x] /\ x.back \subseteq wrk[w].back,
               \/ /\ jobs'[j].attempts = jobs[j].attempts
                  /\ jobs'[j].status = "queued" => jobs[j].status = "queued"
               \/ jobs'[j].attempts = 0 /\ jobs'[j].status # "queued"
        PROVE  Goal
    <3>1. Returning(j)' \subseteq Returning(j)
      BY <2>0, <2>1 DEF Returning
    <3> QED
      BY <2>0, <2>1, <3>1, BudgetFrame
  <2>2. ASSUME NEW c \in Clients, ReadStep(c) PROVE Goal
    BY <2>1, <2>2, ReadStepFrame
  <2>3. ASSUME NEW c \in Clients, EnqueueInsert(c) PROVE Goal
    <3>1. PICK i \in JobIds : jobs[i].status = "new"
                              /\ jobs' = [jobs EXCEPT ![i] = [NoRow EXCEPT !.status = "queued",
                                                                         !.key = req[c].key]]
      BY <2>3 DEF EnqueueInsert, InsertRow, Oldest, NewIds
    <3>2. wrk' = wrk
      BY <2>3 DEF EnqueueInsert
    <3>3. CASE i # j
      BY <2>1, <3>1, <3>2, <3>3
    <3>4. CASE i = j
      <4>1. Returning(j) = {}
        BY <2>0, <3>1, <3>4, QueueAssumption
        DEF InlineInv, HeldRowsExist, Held, Returning, JobIds
      <4> QED
        BY <2>0, <3>1, <3>2, <3>4, <4>1 DEF Untried, Returning, NoRow
    <3> QED
      BY <3>3, <3>4
  <2>4. ASSUME NEW c \in Clients, InlineInsert(c) PROVE Goal
    <3>1. wrk' = wrk /\ (jobs'[j] = jobs[j] \/ (jobs'[j].attempts = 0 /\ jobs'[j].status = "running"))
      BY <2>0, <2>4 DEF InlineInsert, InsertRow, NoRow
    <3> QED
      BY <2>1, <3>1
  <2>5. ASSUME NEW row \in Row, NEW out \in Docs \union {None, Failed}
        PROVE  /\ Finish(row, out).attempts = row.attempts
               /\ Finish(row, out).status # "queued"
    BY DEF Finish, MarkComplete, MarkFailed, Row
  <2>6. ASSUME NEW c \in Clients, InlineStore(c) PROVE Goal
    <3>1. req[c].out \in Docs \union {None, Failed} /\ wrk' = wrk
      BY <2>6 DEF TypeOK, Request, InlineStore
    <3>2. jobs'[j] = jobs[j] \/ jobs'[j] = [Finish(jobs[j], req[c].out) EXCEPT !.started = "recent"]
      BY <2>0, <2>6 DEF InlineStore
    <3>3. Finish(jobs[j], req[c].out) \in Row
      BY <2>0, <3>1, FinishType DEF TypeOK
    <3>4. jobs'[j].attempts = jobs[j].attempts /\ (jobs'[j] = jobs[j] \/ jobs'[j].status # "queued")
      BY <2>0, <2>5, <3>1, <3>2, <3>3 DEF Row
    <3> QED
      BY <2>1, <3>1, <3>4
  <2>7. ASSUME NEW w \in Workers, Scan(w) PROVE Goal
    <3> DEFINE x == [FreshWorker EXCEPT
                       !.pc = IF Stale = {} THEN "pick" ELSE "sweep",
                       !.drop = {i \in Stale : jobs[i].attempts >= MAX_ATTEMPTS},
                       !.back = {i \in Stale : jobs[i].attempts < MAX_ATTEMPTS}]
    <3>1. wrk' = [wrk EXCEPT ![w] = x] /\ UNCHANGED jobs
      BY <2>7 DEF Scan
    <3>2. x \in Worker /\ x.back = {i \in Stale : jobs[i].attempts < MAX_ATTEMPTS}
      BY DEF Worker, FreshWorker, Stale
    <3>3. CASE j \notin x.back
      <4>1. Returning(j)' \subseteq Returning(j)
        BY <2>0, <3>1, <3>3 DEF Returning
      <4> QED
        BY <2>0, <3>1, <4>1, BudgetFrame
    <3>4. CASE j \in x.back
      <4>1. jobs[j].status = "running" /\ jobs[j].attempts < MAX_ATTEMPTS
        BY <3>2, <3>4 DEF Stale
      <4>2. Returning(j)' \in SUBSET Workers
        BY DEF Returning
      <4>3. Cardinality(Returning(j)') <= Cardinality(Workers) /\ Cardinality(Returning(j)') \in Nat
        BY <4>2, QueueAssumption, FS_Subset, FS_CardinalityType
      <4> QED
        BY <2>0, <3>1, <4>1, <4>3 DEF Budget, Limit
    <3> QED
      BY <3>3, <3>4
  <2>8. ASSUME NEW w \in Workers, Sweep(w) PROVE Goal
    <3>1. /\ wrk'[w].back = {} /\ \A v \in Workers \ {w} : wrk'[v] = wrk[v]
          /\ jobs'[j] = IF j \in wrk[w].drop THEN MarkFailed(jobs[j])
                        ELSE IF j \in wrk[w].back THEN Requeue(jobs[j]) ELSE jobs[j]
      BY <2>0, <2>8 DEF Sweep, FreshWorker
    <3>2. Returning(j)' = Returning(j) \ {w}
      BY <3>1 DEF Returning
    <3>3. /\ MarkFailed(jobs[j]).attempts = jobs[j].attempts /\ MarkFailed(jobs[j]).status = "failed"
          /\ Requeue(jobs[j]).attempts = jobs[j].attempts /\ Requeue(jobs[j]).status = "queued"
      BY <2>0 DEF MarkFailed, Requeue, Row
    <3>4. CASE j \notin wrk[w].back \/ j \in wrk[w].drop
      BY <2>0, <3>1, <3>2, <3>3, <3>4, BudgetFrame
    <3>5. CASE j \in wrk[w].back /\ j \notin wrk[w].drop
      <4>1. w \in Returning(j)
        BY <3>5 DEF Returning
      <4>2. Cardinality(Returning(j)') = n - 1
        BY <2>0, <3>2, <4>1, FS_RemoveElement
      <4>3. Budget(j) <= Limit
        BY <2>0, <4>1 DEF Untried
      <4>4. jobs'[j].attempts = jobs[j].attempts /\ jobs'[j].status = "queued"
        BY <3>1, <3>3, <3>5
      <4> QED
        BY <2>0, <4>2, <4>3, <4>4 DEF Budget, Limit
    <3> QED
      BY <3>4, <3>5
  <2>9. ASSUME NEW w \in Workers, Claim(w) PROVE Goal
    <3> DEFINE k == wrk[w].job
    <3>1. CASE jobs[k].status = "queued" /\ k = j
      <4>1. /\ jobs' = [jobs EXCEPT ![j] = Claimed(w, @)]
            /\ wrk' = [wrk EXCEPT ![w].pc = "render"]
        BY <2>9, <3>1 DEF Claim
      <4>2. jobs'[j].attempts = jobs[j].attempts + 1 /\ jobs'[j].status = "running"
        BY <2>0, <4>1 DEF Claimed, Row
      <4>3. Returning(j)' = Returning(j)
        BY <2>0, <4>1 DEF Returning, Worker
      <4>4. CASE Untried(j)
        <5>1. Cardinality(Returning(j)') = 0 /\ jobs'[j].attempts = 1
          BY <2>0, <4>2, <4>3, <4>4, FS_EmptySet DEF Untried
        <5>2. Cardinality(Workers) # 0
          BY <2>0, FS_EmptySet, QueueAssumption
        <5> QED
          BY <2>0, <4>2, <5>1, <5>2 DEF Budget, Limit
      <4>5. CASE Budget(j) <= Limit
        BY <2>0, <3>1, <4>2, <4>3, <4>5 DEF Budget, Limit
      <4> QED
        BY <2>0, <4>4, <4>5
    <3>2. CASE ~(jobs[k].status = "queued" /\ k = j)
      <4>1. jobs'[j] = jobs[j]
        BY <2>0, <2>9, <3>2 DEF Claim
      <4>2. Returning(j)' \subseteq Returning(j)
        BY <2>0, <2>9 DEF Claim, Returning, FreshWorker, Worker
      <4> QED
        BY <2>0, <4>1, <4>2, BudgetFrame
    <3> QED
      BY <3>1, <3>2
  <2>10. ASSUME NEW w \in Workers, Store(w) PROVE Goal
    <3>1. wrk[w].out \in Docs \union {None, Failed} /\ wrk' = [wrk EXCEPT ![w] = FreshWorker]
      BY <2>0, <2>10 DEF Worker, Store
    <3>2. jobs'[j] = jobs[j] \/ jobs'[j] = Finish(jobs[j], wrk[w].out)
      BY <2>0, <2>10 DEF Store
    <3>3. FreshWorker \in Worker /\ FreshWorker.back \subseteq wrk[w].back
      BY DEF FreshWorker, Worker
    <3> QED
      BY <2>0, <2>1, <2>5, <3>1, <3>2, <3>3
  <2>11. ASSUME NEW w \in Workers, Idle(w) PROVE Goal
    <3>1. /\ wrk' = [wrk EXCEPT ![w] = FreshWorker]
          /\ jobs'[j] = jobs[j] \/ (jobs'[j].attempts = 0 /\ jobs'[j].status = "gone")
      BY <2>0, <2>11 DEF Idle, NoRow
    <3>2. FreshWorker \in Worker /\ FreshWorker.back \subseteq wrk[w].back
      BY DEF FreshWorker, Worker
    <3> QED
      BY <2>1, <3>1, <3>2
  <2>12. ASSUME NEW w \in Workers,
                Pick(w) \/ Render(w) \/ WorkerError(w) \/ WorkerCrash(w) \/ Restart(w)
         PROVE  Goal
    <3>1. UNCHANGED jobs
      BY <2>12 DEF Pick, Render, WorkerError, WorkerCrash, Restart
    <3>2. Returning(j)' \subseteq Returning(j)
      BY <2>0, <2>12 DEF Pick, Render, WorkerError, WorkerCrash, Restart, Returning,
         FreshWorker, Worker
    <3> QED
      BY <2>0, <3>1, <3>2, BudgetFrame
  <2>13. CASE Edit
    BY <2>1, <2>13, EditFrame
  <2>14. CASE DeleteScope
    <3>1. wrk' = wrk /\ (jobs'[j] = jobs[j] \/ (jobs'[j].attempts = 0 /\ jobs'[j].status = "gone"))
      BY <2>0, <2>14 DEF DeleteScope, NoRow
    <3> QED
      BY <2>1, <3>1
  <2>15. ASSUME NEW i \in JobIds, Age(i) \/ Expire(i) PROVE Goal
    <3>1. /\ wrk' = wrk
          /\ jobs'[j].attempts = jobs[j].attempts /\ jobs'[j].status = jobs[j].status
      BY <2>0, <2>15 DEF Age, Expire, Row
    <3> QED
      BY <2>1, <3>1
  <2>16. CASE UNCHANGED vars
    BY <2>1, <2>16 DEF vars
  <2> QED
    BY <2>2, <2>3, <2>4, <2>6, <2>7, <2>8, <2>9, <2>10, <2>11, <2>12, <2>13, <2>14, <2>15, <2>16
    DEF Next, ClientStep, WorkerStep, ReadStep
<1>3. TypeOK /\ BudgetInv => AttemptsBound
  <2> SUFFICES ASSUME TypeOK, BudgetInv, NEW j \in JobIds PROVE jobs[j].attempts <= Limit
    BY DEF AttemptsBound, Limit
  <2>1. CASE Budget(j) <= Limit
    BY <2>1, ReturningSize DEF Budget
  <2>2. CASE Untried(j)
    BY <2>2, ReturningSize DEF Untried, Limit
  <2> QED
    BY <2>1, <2>2 DEF BudgetInv
<1> QED
  BY <1>1, <1>2, <1>3, TypeInv, InlineInvariant, PTL DEF Spec

-----------------------------------------------------------------------------
(* One worker implements the life cycle JobLifecycle promises. *)

SingleWorker == \A v, w \in Workers : v = w

(* What a lone worker may rely on: a row it holds is still running unless the
   document was deleted, and a row in the queue has attempts left. *)
QueueSound(j) ==
  /\ jobs[j].status = "new" => jobs[j].attempts = 0 /\ jobs[j].expires = "none"
  /\ jobs[j].status = "queued" => jobs[j].attempts < MAX_ATTEMPTS
  /\ jobs[j].status = "running" => j \in inlined \/ jobs[j].attempts \in Nat \ {0}

HoldsRunning(w) ==
  /\ wrk[w].pc # "sweep" => wrk[w].back = {} /\ wrk[w].drop = {}
  /\ \A j \in wrk[w].back \union wrk[w].drop : jobs[j].status \in {"running", "gone"}
  /\ \A j \in wrk[w].back : jobs[j].status = "running" => jobs[j].attempts < MAX_ATTEMPTS
  /\ wrk[w].pc \in {"render", "store"} => jobs[wrk[w].job].status \in {"running", "gone"}

SingleInv == (\A j \in JobIds : QueueSound(j)) /\ (\A w \in Workers : HoldsRunning(w))

(* A row moves as one step of the life cycle, or not at all. *)
LegalMove(j) ==
  \/ jobs[j].status = "new" /\ jobs'[j].status \in {"queued", "running"} /\ jobs'[j].attempts = 0
  \/ /\ jobs[j].status = "queued" /\ jobs'[j].status = "running"
     /\ jobs[j].attempts < MAX_ATTEMPTS /\ jobs'[j].attempts = jobs[j].attempts + 1
  \/ /\ jobs[j].status = "running" /\ jobs'[j].status \in {"complete", "failed"}
     /\ jobs'[j].attempts = jobs[j].attempts
  \/ /\ jobs[j].status = "running" /\ jobs'[j].status = "queued"
     /\ jobs[j].attempts \in 1..(MAX_ATTEMPTS - 1) /\ jobs'[j].attempts = jobs[j].attempts
  \/ jobs[j].status # "new" /\ jobs'[j].status = "gone" /\ jobs'[j].attempts = 0
  \/ jobs'[j].status = jobs[j].status /\ jobs'[j].attempts = jobs[j].attempts

Moves == \A j \in JobIds : LegalMove(j)

(* Rows change, or vanish, but none that a worker holds is taken from it. *)
LEMMA SingleFrame ==
  ASSUME TypeOK, ExactInv, SingleInv, inlined \subseteq inlined',
         \A j \in JobIds : LegalMove(j) /\ QueueSound(j)',
         \A w \in Workers :
           \/ HoldsRunning(w)'
           \/ /\ wrk'[w] = wrk[w]
              /\ \A j \in JobIds \intersect ({wrk[w].job} \union wrk[w].back \union wrk[w].drop) :
                   \/ jobs'[j].status = "gone"
                   \/ jobs'[j].status = jobs[j].status /\ jobs'[j].attempts = jobs[j].attempts
  PROVE  Moves /\ SingleInv'
<1>1. ASSUME NEW w \in Workers, wrk'[w] = wrk[w],
             \A j \in JobIds \intersect ({wrk[w].job} \union wrk[w].back \union wrk[w].drop) :
               \/ jobs'[j].status = "gone"
               \/ jobs'[j].status = jobs[j].status /\ jobs'[j].attempts = jobs[j].attempts
      PROVE  HoldsRunning(w)'
  <2>1. /\ wrk[w].back \subseteq JobIds /\ wrk[w].drop \subseteq JobIds
        /\ wrk[w].pc \in {"render", "store"} => wrk[w].job \in JobIds
        /\ HoldsRunning(w)
    BY DEF TypeOK, Worker, ExactInv, WorkerExact, SingleInv
  <2> QED
    BY <1>1, <2>1 DEF HoldsRunning
<1> QED
  BY <1>1 DEF Moves, SingleInv

LEMMA SingleStep ==
  ASSUME SingleWorker, TypeOK, JobNamed, InlineInv, ExactInv, SingleInv, TypeOK', [Next]_vars
  PROVE  Moves /\ SingleInv'
<1>0. /\ jobs \in [JobIds -> Row] /\ wrk \in [Workers -> Worker] /\ inlined \subseteq JobIds
      /\ \A j \in JobIds : jobs[j] \in Row /\ jobs[j].attempts \in Nat /\ QueueSound(j)
      /\ \A w \in Workers : wrk[w] \in Worker /\ HoldsRunning(w) /\ WorkerExact(w)
      /\ InlineExclusive /\ InlineRows /\ HeldRowsExist /\ MAX_ATTEMPTS \in Nat \ {0}
      /\ \A v, w \in Workers : v = w
  BY QueueAssumption DEF TypeOK, SingleInv, InlineInv, ExactInv, SingleWorker, Row
<1>1. ASSUME UNCHANGED <<wrk, inlined>>,
             \A j \in JobIds : \/ jobs'[j] = jobs[j]
                               \/ /\ jobs'[j].status = jobs[j].status
                                  /\ jobs'[j].attempts = jobs[j].attempts
                                  /\ jobs[j].status # "new"
                               \/ /\ jobs[j].status # "new"
                                  /\ jobs'[j].status = "gone" /\ jobs'[j].attempts = 0
      PROVE  Moves /\ SingleInv'
  <2>1. ASSUME NEW j \in JobIds PROVE LegalMove(j) /\ QueueSound(j)'
    BY <1>0, <1>1 DEF LegalMove, QueueSound
  <2> QED
    BY <1>1, <2>1, SingleFrame
<1>2. ASSUME NEW c \in Clients, ReadStep(c) PROVE Moves /\ SingleInv'
  BY <1>1, <1>2, ReadStepFrame
<1>3. ASSUME NEW c \in Clients, NEW j \in JobIds, NEW s \in {"queued", "running"},
             InsertRow(c, j, s), UNCHANGED wrk,
             inlined' = IF s = "running" THEN inlined \union {j} ELSE inlined
      PROVE  Moves /\ SingleInv'
  <2>1. /\ jobs[j].status = "new"
        /\ jobs' = [jobs EXCEPT ![j] = [NoRow EXCEPT !.status = s, !.key = req[c].key]]
    BY <1>3 DEF InsertRow, Oldest, NewIds
  <2>2. /\ jobs'[j].status = s /\ jobs'[j].attempts = 0
        /\ \A i \in JobIds \ {j} : jobs'[i] = jobs[i]
    BY <1>0, <2>1 DEF NoRow
  <2>3. ASSUME NEW i \in JobIds PROVE LegalMove(i) /\ QueueSound(i)'
    BY <1>0, <1>3, <2>1, <2>2 DEF LegalMove, QueueSound
  <2>4. \A w \in Workers : j \notin {wrk[w].job} \union wrk[w].back \union wrk[w].drop
    BY <1>0, <2>1, QueueAssumption DEF HeldRowsExist, Held, JobIds
  <2> QED
    BY <1>3, <2>2, <2>3, <2>4, SingleFrame
<1>4. ASSUME NEW c \in Clients, EnqueueInsert(c) \/ InlineInsert(c) PROVE Moves /\ SingleInv'
  BY <1>3, <1>4 DEF EnqueueInsert, InlineInsert
<1>5. ASSUME NEW row \in Row, NEW out \in Docs \union {None, Failed}
      PROVE  /\ Finish(row, out).attempts = row.attempts
             /\ Finish(row, out).status \in {"complete", "failed"}
  BY DEF Finish, MarkComplete, MarkFailed, Row
<1>6. ASSUME NEW c \in Clients, InlineStore(c) PROVE Moves /\ SingleInv'
  <2> DEFINE k == req[c].job
  <2>1. /\ req[c].out \in Docs \union {None, Failed} /\ k \in JobIds /\ k \in inlined
        /\ jobs[k].status = "running" /\ UNCHANGED <<wrk, inlined>>
    BY <1>6 DEF TypeOK, Request, JobNamed, InlineStore, hist, ExactInv, RequestExact
  <2>2. /\ jobs'[k] = [Finish(jobs[k], req[c].out) EXCEPT !.started = "recent"]
        /\ \A i \in JobIds \ {k} : jobs'[i] = jobs[i]
    BY <1>0, <1>6, <2>1 DEF InlineStore
  <2>3. Finish(jobs[k], req[c].out) \in Row
    BY <1>0, <2>1, FinishType DEF TypeOK
  <2>4. jobs'[k].attempts = jobs[k].attempts /\ jobs'[k].status \in {"complete", "failed"}
    BY <1>0, <1>5, <2>1, <2>2, <2>3 DEF Row
  <2>5. ASSUME NEW i \in JobIds PROVE LegalMove(i) /\ QueueSound(i)'
    BY <1>0, <2>1, <2>2, <2>4 DEF LegalMove, QueueSound
  <2>6. \A w \in Workers : k \notin {wrk[w].job} \union wrk[w].back \union wrk[w].drop
    BY <1>0, <2>1 DEF InlineExclusive
  <2> QED
    BY <2>1, <2>2, <2>5, <2>6, SingleFrame
<1>7. ASSUME NEW w \in Workers, UNCHANGED inlined,
             \A j \in JobIds : LegalMove(j) /\ QueueSound(j)', HoldsRunning(w)'
      PROVE  Moves /\ SingleInv'
  BY <1>0, <1>7 DEF Moves, SingleInv
<1>8. ASSUME NEW w \in Workers, UNCHANGED <<jobs, inlined>>, HoldsRunning(w)'
      PROVE  Moves /\ SingleInv'
  BY <1>0, <1>7, <1>8 DEF LegalMove, QueueSound
<1>9. ASSUME NEW w \in Workers, Scan(w) PROVE Moves /\ SingleInv'
  <2> DEFINE x == [FreshWorker EXCEPT
                     !.pc = IF Stale = {} THEN "pick" ELSE "sweep",
                     !.drop = {i \in Stale : jobs[i].attempts >= MAX_ATTEMPTS},
                     !.back = {i \in Stale : jobs[i].attempts < MAX_ATTEMPTS}]
  <2>1. wrk' = [wrk EXCEPT ![w] = x] /\ UNCHANGED <<jobs, inlined>>
    BY <1>9 DEF Scan, hist
  <2>2. /\ x.pc = IF Stale = {} THEN "pick" ELSE "sweep"
        /\ x.back = {i \in Stale : jobs[i].attempts < MAX_ATTEMPTS}
        /\ x.drop = {i \in Stale : jobs[i].attempts >= MAX_ATTEMPTS}
    BY DEF FreshWorker
  <2>3. \A i \in Stale : jobs[i].status = "running"
    BY DEF Stale
  <2>4. wrk'[w].pc = x.pc /\ wrk'[w].back = x.back /\ wrk'[w].drop = x.drop
    BY <1>0, <2>1
  <2>5. HoldsRunning(w)'
    <3> HIDE DEF x
    <3> QED
      BY <2>1, <2>2, <2>3, <2>4 DEF HoldsRunning
  <2> QED
    BY <1>8, <2>1, <2>5
<1>10. ASSUME NEW w \in Workers, Sweep(w) PROVE Moves /\ SingleInv'
  <2>1. /\ wrk'[w].pc = "pick" /\ wrk'[w].back = {} /\ wrk'[w].drop = {} /\ UNCHANGED inlined
        /\ \A i \in wrk[w].back \union wrk[w].drop : jobs[i].status = "running" /\ i \notin inlined
    BY <1>0, <1>10 DEF Sweep, FreshWorker, HoldsRunning, InlineExclusive
  <2>2. ASSUME NEW j \in JobIds PROVE LegalMove(j) /\ QueueSound(j)'
    <3>1. /\ MarkFailed(jobs[j]).attempts = jobs[j].attempts /\ MarkFailed(jobs[j]).status = "failed"
          /\ Requeue(jobs[j]).attempts = jobs[j].attempts /\ Requeue(jobs[j]).status = "queued"
      BY <1>0 DEF MarkFailed, Requeue, Row
    <3>2. jobs'[j] = IF j \in wrk[w].drop THEN MarkFailed(jobs[j])
                     ELSE IF j \in wrk[w].back THEN Requeue(jobs[j]) ELSE jobs[j]
      BY <1>10 DEF Sweep
    <3>3. CASE j \in wrk[w].drop
      BY <2>1, <3>1, <3>2, <3>3 DEF LegalMove, QueueSound
    <3>4. CASE j \in wrk[w].back /\ j \notin wrk[w].drop
      <4>1. jobs[j].attempts \in Nat \ {0} /\ jobs[j].attempts < MAX_ATTEMPTS
        BY <1>0, <2>1, <3>4 DEF QueueSound, HoldsRunning
      <4> QED
        BY <1>0, <2>1, <3>1, <3>2, <3>4, <4>1 DEF LegalMove, QueueSound
    <3>5. CASE j \notin wrk[w].back /\ j \notin wrk[w].drop
      BY <1>0, <2>1, <3>2, <3>5 DEF LegalMove, QueueSound
    <3> QED
      BY <3>3, <3>4, <3>5
  <2>3. HoldsRunning(w)'
    BY <2>1 DEF HoldsRunning
  <2> QED
    BY <1>7, <2>1, <2>2, <2>3
<1>11. ASSUME NEW w \in Workers, Pick(w) \/ Render(w) PROVE Moves /\ SingleInv'
  <2>1. UNCHANGED <<jobs, inlined>>
    BY <1>11 DEF Pick, Render, hist
  <2>2. /\ wrk'[w].back = wrk[w].back /\ wrk'[w].drop = wrk[w].drop /\ wrk[w].pc # "sweep"
        /\ wrk'[w].pc \in {"idle", "claim"}
           \/ (wrk'[w].pc = "store" /\ wrk[w].pc = "render" /\ wrk'[w].job = wrk[w].job)
    BY <1>0, <1>11 DEF Pick, Render, Worker
  <2>3. HoldsRunning(w)'
    BY <1>0, <2>1, <2>2 DEF HoldsRunning
  <2> QED
    BY <1>8, <2>1, <2>3
<1>12. ASSUME NEW w \in Workers, Claim(w) PROVE Moves /\ SingleInv'
  <2> DEFINE k == wrk[w].job
  <2>1. CASE jobs[k].status # "queued"
    <3>1. /\ wrk' = [wrk EXCEPT ![w] = [FreshWorker EXCEPT !.pc = "idle"]]
          /\ UNCHANGED <<jobs, inlined>>
      BY <1>12, <2>1 DEF Claim, hist
    <3>2. wrk'[w].pc = "idle" /\ wrk'[w].back = {} /\ wrk'[w].drop = {}
      BY <1>0, <3>1 DEF FreshWorker
    <3>3. HoldsRunning(w)'
      BY <3>2 DEF HoldsRunning
    <3> QED
      BY <1>8, <3>1, <3>3
  <2>2. CASE jobs[k].status = "queued"
    <3>1. /\ jobs' = [jobs EXCEPT ![k] = Claimed(w, @)]
          /\ wrk' = [wrk EXCEPT ![w].pc = "render"]
          /\ UNCHANGED inlined /\ wrk[w].pc = "claim"
      BY <1>12, <2>2 DEF Claim, hist
    <3>2. k \in JobIds
      BY <1>0, <3>1 DEF WorkerExact, Worker
    <3>3. /\ jobs'[k].attempts = jobs[k].attempts + 1 /\ jobs'[k].status = "running"
          /\ \A i \in JobIds \ {k} : jobs'[i] = jobs[i]
      BY <1>0, <3>1, <3>2 DEF Claimed, Row
    <3>4. ASSUME NEW i \in JobIds PROVE LegalMove(i) /\ QueueSound(i)'
      BY <1>0, <2>2, <3>1, <3>2, <3>3 DEF LegalMove, QueueSound
    <3>5. /\ wrk'[w].pc = "render" /\ wrk'[w].job = k
          /\ wrk'[w].back = {} /\ wrk'[w].drop = {}
      BY <1>0, <3>1 DEF Worker, HoldsRunning
    <3>6. HoldsRunning(w)'
      BY <3>3, <3>5 DEF HoldsRunning
    <3> QED
      BY <1>7, <3>1, <3>4, <3>6
  <2> QED
    BY <2>1, <2>2
<1>13. ASSUME NEW w \in Workers, NEW p \in {"scan", "dead"},
              wrk' = [wrk EXCEPT ![w] = [FreshWorker EXCEPT !.pc = p]]
       PROVE  HoldsRunning(w)'
  <2>1. wrk'[w].pc = p /\ wrk'[w].back = {} /\ wrk'[w].drop = {}
    BY <1>0, <1>13 DEF FreshWorker
  <2> QED
    BY <2>1 DEF HoldsRunning
<1>14. ASSUME NEW w \in Workers, WorkerError(w) \/ WorkerCrash(w) \/ Restart(w)
       PROVE  Moves /\ SingleInv'
  <2>1. \E p \in {"scan", "dead"} : wrk' = [wrk EXCEPT ![w] = [FreshWorker EXCEPT !.pc = p]]
    BY <1>14 DEF WorkerError, WorkerCrash, Restart, FreshWorker
  <2>2. UNCHANGED <<jobs, inlined>>
    BY <1>14 DEF WorkerError, WorkerCrash, Restart, hist
  <2> QED
    BY <1>8, <1>13, <2>1, <2>2
<1>15. ASSUME NEW w \in Workers, Idle(w) PROVE Moves /\ SingleInv'
  <2>1. /\ wrk' = [wrk EXCEPT ![w] = [FreshWorker EXCEPT !.pc = "scan"]] /\ UNCHANGED inlined
        /\ \A j \in JobIds : \/ jobs'[j] = jobs[j]
                             \/ /\ jobs[j].expires = "past"
                                /\ jobs'[j].status = "gone" /\ jobs'[j].attempts = 0
    BY <1>0, <1>15 DEF Idle, FreshWorker, NoRow, hist
  <2>2. ASSUME NEW j \in JobIds PROVE LegalMove(j) /\ QueueSound(j)'
    BY <1>0, <2>1 DEF LegalMove, QueueSound
  <2> QED
    BY <1>7, <1>13, <2>1, <2>2
<1>16. ASSUME NEW w \in Workers, Store(w) PROVE Moves /\ SingleInv'
  <2> DEFINE k == wrk[w].job
  <2>1. /\ wrk[w].pc = "store" /\ jobs[k].status # "gone"
        /\ jobs' = [jobs EXCEPT ![k] = Finish(@, wrk[w].out)]
        /\ wrk' = [wrk EXCEPT ![w] = [FreshWorker EXCEPT !.pc = "scan"]]
        /\ UNCHANGED inlined /\ wrk[w].out \in Docs \union {None, Failed}
    BY <1>0, <1>16 DEF Store, FreshWorker, Worker, hist
  <2>2. k \in JobIds /\ jobs[k].status = "running"
    BY <1>0, <2>1 DEF WorkerExact, Worker, HoldsRunning
  <2>3. /\ jobs'[k].attempts = jobs[k].attempts /\ jobs'[k].status \in {"complete", "failed"}
        /\ \A i \in JobIds \ {k} : jobs'[i] = jobs[i]
    BY <1>0, <1>5, <2>1, <2>2
  <2>4. ASSUME NEW i \in JobIds PROVE LegalMove(i) /\ QueueSound(i)'
    BY <1>0, <2>1, <2>2, <2>3 DEF LegalMove, QueueSound
  <2> QED
    BY <1>7, <1>13, <2>1, <2>4
<1>17. CASE Edit
  BY <1>1, <1>17, EditFrame
<1>18. CASE DeleteScope
  BY <1>0, <1>1, <1>18 DEF DeleteScope, NoRow, hist
<1>19. ASSUME NEW j \in JobIds, Age(j) PROVE Moves /\ SingleInv'
  BY <1>0, <1>1, <1>19 DEF Age, Row, hist
<1>20. ASSUME NEW j \in JobIds, Expire(j) PROVE Moves /\ SingleInv'
  <2>1. UNCHANGED <<wrk, inlined>> /\ jobs[j].status # "new"
    BY <1>0, <1>20 DEF Expire, QueueSound, hist
  <2>2. \A i \in JobIds : /\ jobs'[i].status = jobs[i].status /\ jobs'[i].attempts = jobs[i].attempts
                          /\ i # j => jobs'[i] = jobs[i]
    BY <1>0, <1>20 DEF Expire, Row
  <2> QED
    BY <1>1, <2>1, <2>2
<1>21. CASE UNCHANGED vars
  BY <1>1, <1>21 DEF vars, hist
<1> QED
  BY <1>2, <1>4, <1>6, <1>9, <1>10, <1>11, <1>12, <1>14, <1>15, <1>16, <1>17, <1>18, <1>19,
     <1>20, <1>21
  DEF Next, ClientStep, WorkerStep, ReadStep

(* With a single worker every row leads the life JobLifecycle promises: it is
   run at most MAX_ATTEMPTS times, and once complete or failed it stays so.
   Run RQ_attempts shows that a second worker breaks the bound. *)
THEOREM SingleWorkerImplements == SingleWorker => (Spec => LifecycleSpec)
<1> SUFFICES ASSUME SingleWorker PROVE Spec => LifecycleSpec
  OBVIOUS
<1>1. Init => SingleInv
  BY QueueAssumption DEF Init, SingleInv, QueueSound, HoldsRunning, NoRow, FreshWorker
<1>2. /\ TypeOK /\ JobNamed /\ InlineInv /\ ExactInv /\ SingleInv
      /\ TypeOK' /\ [Next]_vars
      => Moves /\ SingleInv'
  BY SingleStep
<1>3. Init => Lifecycle!Init
  BY DEF Init, Lifecycle!Init, NoRow
<1>4. TypeOK /\ TypeOK' /\ Moves => Lifecycle!Next
  <2> SUFFICES ASSUME TypeOK, TypeOK', Moves PROVE Lifecycle!Next
    OBVIOUS
  <2>1. /\ [j \in JobIds |-> jobs'[j].status] \in [JobIds -> Lifecycle!Phases]
        /\ [j \in JobIds |-> jobs'[j].attempts] \in [JobIds -> Nat]
    BY DEF TypeOK, Row, Present, Live, Lifecycle!Phases
  <2>2. ASSUME NEW j \in JobIds PROVE Lifecycle!JobStep(j)
    BY DEF Moves, LegalMove, Lifecycle!JobStep, Lifecycle!Insert, Lifecycle!Take, Lifecycle!End,
           Lifecycle!GiveBack, Lifecycle!Remove
  <2> QED
    BY <2>1, <2>2 DEF Lifecycle!Next
<1> QED
  BY <1>1, <1>2, <1>3, <1>4, TypeInv, InlineInvariant, ExactInvariant, PTL
  DEF Spec, LifecycleSpec, Lifecycle!Spec
===============================================================================
