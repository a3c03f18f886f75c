------------------------- MODULE ScopeLifecycleProofs -------------------------
(***************************************************************************)
(* Theorems about ScopeLifecycle, for any number of sessions, users, parts *)
(* and versions.                                                           *)
(*                                                                         *)
(* The inductive invariant says of every request waiting to be flushed     *)
(* what kind of change it carries (EditShape, IssueShape, ReviseShape) and *)
(* that its copy of the scopes row is the row itself unless the row's      *)
(* version counter has moved on since (CopyFresh).  The history is         *)
(* complete because a request whose counter still matches has read the     *)
(* very row, and so the very revisions, it is about to change.             *)
(***************************************************************************)
EXTENDS ScopeLifecycle, TLAPS

Flushing(x) == x.pc = "flush"

Copied(x) ==
  /\ x.row \in ScopeRow /\ x.to \in ScopeRow
  /\ x.parts \in Body /\ x.toParts \in Body

(* Settings, PATCH, body edits, archive, push: nothing of a locked document
   changes but its status, which stays locked. *)
EditShape(x) ==
  /\ x.snap = None
  /\ x.to.version = x.row.version
  /\ x.to.issuedAt = x.row.issuedAt
  /\ Locked(x.row) => /\ Locked(x.to)
                      /\ x.to.head = x.row.head
                      /\ x.toParts = x.parts

IssueShape(x) ==
  /\ ~Locked(x.row)
  /\ x.snap \in Snapshot
  /\ x.to.version = x.row.version
  /\ x.to.issuedAt
  /\ Locked(x.to)

ReviseShape(x) ==
  /\ x.to.version = x.row.version + 1
  /\ ~x.to.issuedAt
  /\ ~Locked(x.to)
  /\ x.to.head = x.row.head
  /\ x.toParts = x.parts

Shaped(x) == Copied(x) /\ (EditShape(x) \/ IssueShape(x) \/ ReviseShape(x))

CopyFresh(x) ==
  /\ x.row.rv <= scope.rv
  /\ x.row.rv = scope.rv =>
       /\ x.row = scope
       /\ ReviseShape(x) => (x.snap = None <=> revs[x.row.version] # None)

CopiesFresh == \A s \in Sessions : Flushing(ses[s]) => Shaped(ses[s]) /\ CopyFresh(ses[s])

AuditsMarked == \A s \in Sessions : ses[s].pc = "audit" => ses[s].mark # "none"

IInv == TypeOK /\ CopiesFresh /\ AuditsMarked /\ HistoryComplete

-----------------------------------------------------------------------------
(* When the row was read as it still is, writing the changed attributes
   amounts to writing the whole copy. *)
LEMMA MergedSame ==
  ASSUME NEW now \in ScopeRow, NEW to \in ScopeRow
  PROVE  Merged(now, now, to) = to
<1>1. DOMAIN now = {"status", "version", "issuedAt", "by", "head", "rv"}
  BY DEF ScopeRow
<1>2. DOMAIN to = {"status", "version", "issuedAt", "by", "head", "rv"}
  BY DEF ScopeRow
<1>3. to = [f \in DOMAIN to |-> to[f]]
  BY DEF ScopeRow
<1>4. Merged(now, now, to) = [f \in DOMAIN now |-> to[f]]
  BY DEF Merged
<1> QED BY <1>1, <1>2, <1>3, <1>4

(* Body edits merge into a body. *)
LEMMA MergedBody ==
  ASSUME NEW b \in Body, NEW p \in Body, NEW q \in Body
  PROVE  Merged(b, p, q) \in Body
BY DEF Merged, Body

(* A request whose flush changes the row has read the row as it is. *)
LEMMA DirtyCopyIsRow ==
  ASSUME IInv, NEW s \in Sessions, Flushing(ses[s]), ~Conflict(s), RowDirty(s)
  PROVE  /\ ses[s].row = scope
         /\ Merged(scope, ses[s].row, ses[s].to) = ses[s].to
<1>1. ses[s].row = scope
  BY DEF IInv, CopiesFresh, CopyFresh, Conflict
<1>2. ses[s].to \in ScopeRow /\ scope \in ScopeRow
  BY DEF IInv, CopiesFresh, Shaped, Copied, TypeOK
<1> QED BY <1>1, <1>2, MergedSame

(* What else happens leaves a waiting request as it is, but for `moved`. *)
LEMMA AgedKeeps ==
  ASSUME NEW x \in Session
  PROVE  /\ Aged(x) \in Session
         /\ Aged(x).pc = x.pc /\ Aged(x).row = x.row /\ Aged(x).to = x.to
         /\ Aged(x).parts = x.parts /\ Aged(x).toParts = x.toParts
         /\ Aged(x).snap = x.snap
<1>1. Changed \in SUBSET Shown
  BY DEF Changed, Shown
<1>2. CASE x.pc \in {"open", "flush"}
  <2>1. Aged(x) = [x EXCEPT !.moved = x.moved \union Changed]
    BY <1>2 DEF Aged
  <2> QED BY <2>1, <1>1 DEF Session
<1>3. CASE x.pc \notin {"open", "flush"}
  BY <1>3 DEF Aged
<1> QED BY <1>2, <1>3

(* The kinds of change do not mention anything but those fields. *)
LEMMA ShapeCarries ==
  ASSUME NEW x, NEW y, y.row = x.row, y.to = x.to, y.parts = x.parts,
         y.toParts = x.toParts, y.snap = x.snap, Shaped(x)
  PROVE  Shaped(y) /\ (ReviseShape(y) <=> ReviseShape(x))
BY DEF Shaped, Copied, EditShape, IssueShape, ReviseShape, Locked

-----------------------------------------------------------------------------
LEMMA InitInv == Init => IInv
<1> SUFFICES ASSUME Init PROVE IInv
  OBVIOUS
<1> USE LifecycleAssumption
<1>1. Idle \in Session
  BY DEF Idle, Session
<1>2. scope \in ScopeRow
  BY DEF Init, ScopeRow, Statuses, Versions
<1>3. TypeOK
  BY <1>1, <1>2 DEF Init, TypeOK
<1>4. CopiesFresh
  BY DEF Init, CopiesFresh, Flushing, Idle
<1>5. AuditsMarked
  BY DEF Init, AuditsMarked, Idle
<1>6. HistoryComplete
  BY DEF Init, HistoryComplete, Versions, Locked, LOCKED_STATUSES
<1> QED BY <1>3, <1>4, <1>5, <1>6 DEF IInv

(* A step that leaves the tables alone and gives one session a value that is
   not waiting, or waits with a change of a known kind, keeps the invariant. *)
LEMMA SessionStepInv ==
  ASSUME IInv, NEW s \in Sessions, NEW x \in Session,
         ses' = [ses EXCEPT ![s] = x],
         Flushing(x) => Shaped(x) /\ CopyFresh(x),
         x.pc = "audit" => x.mark # "none",
         log' \in Entry \union {None},
         UNCHANGED <<scope, body, revs>>
  PROVE  IInv'
<1>1. TypeOK'
  BY DEF IInv, TypeOK
<1>2. ASSUME NEW t \in Sessions, Flushing(ses[t])'
      PROVE  (Shaped(ses[t]) /\ CopyFresh(ses[t]))'
  <2>1. CASE t = s
    <3>1. ses'[t] = x
      BY <2>1 DEF IInv, TypeOK
    <3>2. Flushing(x)
      BY <3>1, <1>2 DEF Flushing
    <3>3. CopyFresh(x)'
      BY <3>2 DEF CopyFresh, ReviseShape, Locked
    <3> QED BY <3>1, <3>2, <3>3 DEF CopyFresh, Shaped, Copied, EditShape, IssueShape,
                                    ReviseShape, Locked
  <2>2. CASE t # s
    <3>1. ses'[t] = ses[t]
      BY <2>2 DEF IInv, TypeOK
    <3>2. Shaped(ses[t]) /\ CopyFresh(ses[t])
      BY <3>1, <1>2 DEF Flushing, IInv, CopiesFresh
    <3> QED BY <3>1, <3>2 DEF CopyFresh, Shaped, Copied, EditShape, IssueShape,
                              ReviseShape, Locked
  <2> QED BY <2>1, <2>2
<1>3. CopiesFresh'
  BY <1>2 DEF CopiesFresh
<1>4. AuditsMarked'
  BY DEF IInv, AuditsMarked, TypeOK
<1>5. HistoryComplete'
  BY DEF IInv, HistoryComplete, Locked
<1> QED BY <1>1, <1>3, <1>4, <1>5 DEF IInv

Waiting(s, to, toParts, touch, snap, mark) ==
  [pc |-> "flush", moved |-> ses[s].moved, row |-> scope, to |-> to, parts |-> body,
   toParts |-> toParts, touch |-> touch, snap |-> snap, mark |-> mark]

(* What a handler submits was just read, so its copy is fresh. *)
LEMMA SubmitInv ==
  ASSUME IInv, NEW s \in Sessions, NEW to \in ScopeRow, NEW toParts \in Body,
         NEW touch \in BOOLEAN, NEW snap \in Snapshot \union {None},
         NEW mark \in {"none", "issued", "revised"},
         Submit(s, to, toParts, touch, snap, mark),
         \/ EditShape(Waiting(s, to, toParts, touch, snap, mark))
         \/ IssueShape(Waiting(s, to, toParts, touch, snap, mark))
         \/ ReviseShape(Waiting(s, to, toParts, touch, snap, mark)),
         ReviseShape(Waiting(s, to, toParts, touch, snap, mark))
           => (snap = None <=> revs[scope.version] # None)
  PROVE  IInv'
<1> DEFINE x == Waiting(s, to, toParts, touch, snap, mark)
<1>1. x.pc # "audit" /\ x.row = scope /\ x.to = to /\ x.parts = body /\ x.toParts = toParts /\ x.snap = snap
  BY DEF Waiting
<1>2. scope \in ScopeRow /\ body \in Body /\ ses[s] \in Session
  BY DEF IInv, TypeOK
<1>3. x \in Session
  BY <1>2 DEF Waiting, Session
<1>4. ses' = [ses EXCEPT ![s] = x]
  BY DEF Submit, Waiting
<1>5. Shaped(x)
  BY <1>1, <1>2 DEF Shaped, Copied
<1>6. scope.rv \in Nat
  BY <1>2, LifecycleAssumption DEF ScopeRow
<1>7. CopyFresh(x)
  BY <1>1, <1>6 DEF CopyFresh
<1> HIDE DEF x
<1>8. log' \in Entry \union {None} /\ UNCHANGED <<scope, body, revs>>
  BY DEF Submit, IInv, TypeOK
<1> QED BY <1>1, <1>3, <1>4, <1>5, <1>7, <1>8, SessionStepInv

(* The attributes a handler assigns keep the row a row. *)
LEMMA RowTypes ==
  ASSUME TypeOK, NEW u \in Users
  PROVE  /\ \A h \in Heads, st \in Statuses :
              [scope EXCEPT !.head = h, !.status = st, !.by = u] \in ScopeRow
         /\ [scope EXCEPT !.by = u] \in ScopeRow
         /\ [scope EXCEPT !.status = "issued", !.issuedAt = TRUE, !.by = u] \in ScopeRow
         /\ [scope EXCEPT !.status = "archived", !.by = u] \in ScopeRow
         /\ scope.version < MaxVersion => Reopened(u) \in ScopeRow
         /\ Frozen \in Snapshot
<1>1. scope \in ScopeRow /\ body \in Body
  BY DEF TypeOK
<1>2. scope.version < MaxVersion => scope.version + 1 \in Versions
  BY <1>1, LifecycleAssumption DEF ScopeRow, Versions
<1>3. scope.version < MaxVersion => Reopened(u) \in ScopeRow
  BY <1>1, <1>2 DEF Reopened, ScopeRow, Statuses
<1>4. Frozen \in Snapshot
  BY <1>1 DEF Frozen, Snapshot, ScopeRow
<1>5. \A h \in Heads, st \in Statuses :
         [scope EXCEPT !.head = h, !.status = st, !.by = u] \in ScopeRow
  BY <1>1 DEF ScopeRow
<1> QED BY <1>1, <1>3, <1>4, <1>5 DEF ScopeRow, Statuses

(* A submission that neither issues nor revises. *)
LEMMA SubmitEditInv ==
  ASSUME IInv, NEW s \in Sessions, NEW to \in ScopeRow, NEW toParts \in Body,
         NEW touch \in BOOLEAN, Submit(s, to, toParts, touch, None, "none"),
         to.version = scope.version, to.issuedAt = scope.issuedAt,
         Locked(scope) => Locked(to) /\ to.head = scope.head /\ toParts = body
  PROVE  IInv'
<1> DEFINE x == Waiting(s, to, toParts, touch, None, "none")
<1>1. EditShape(x)
  BY DEF Waiting, EditShape
<1>2. scope.version \in Nat
  BY LifecycleAssumption DEF IInv, TypeOK, ScopeRow, Versions
<1>3. ~ReviseShape(x)
  BY <1>2 DEF Waiting, ReviseShape
<1> QED BY <1>1, <1>3, SubmitInv

LEMMA SubmitStepInv ==
  ASSUME IInv, NEW s \in Sessions, NEW u \in Users, SubmitStep(s, u)
  PROVE  IInv'
<1>1. TypeOK /\ scope \in ScopeRow /\ body \in Body
  BY DEF IInv, TypeOK
<1>2. scope.version \in Nat
  BY <1>1, LifecycleAssumption DEF ScopeRow, Versions
<1>3. ASSUME ~Locked(scope), NEW h \in Heads, NEW st \in Statuses,
             Submit(s, [scope EXCEPT !.head = h, !.status = st, !.by = u], body,
                    FALSE, None, "none")
      PROVE  IInv'
  <2> DEFINE to == [scope EXCEPT !.head = h, !.status = st, !.by = u]
  <2>1. to \in ScopeRow
    BY <1>1, RowTypes
  <2>2. to.version = scope.version /\ to.issuedAt = scope.issuedAt
    BY <1>1 DEF ScopeRow
  <2>3. Submit(s, to, body, FALSE, None, "none")
    BY <1>3
  <2> HIDE DEF to
  <2> QED BY <1>1, <1>3, <2>1, <2>2, <2>3, SubmitEditInv
<1>4. CASE SubmitPatch(s, u)
  BY <1>3, <1>4 DEF SubmitPatch
<1>5. CASE SubmitSettings(s, u)
  BY <1>3, <1>5 DEF SubmitSettings
<1>6. CASE SubmitBody(s, u)
  <2>1. PICK p \in Parts, t \in Texts :
          Submit(s, [scope EXCEPT !.by = u], [body EXCEPT ![p] = t], FALSE, None, "none")
    BY <1>6 DEF SubmitBody
  <2> DEFINE to == [scope EXCEPT !.by = u]
             toParts == [body EXCEPT ![p] = t]
  <2>2. to \in ScopeRow /\ to.version = scope.version /\ to.issuedAt = scope.issuedAt
    BY <1>1, RowTypes DEF ScopeRow
  <2>3. toParts \in Body
    BY <1>1 DEF Body
  <2>4. Submit(s, to, toParts, FALSE, None, "none") /\ ~Locked(scope)
    BY <1>6, <2>1 DEF SubmitBody
  <2> HIDE DEF to, toParts
  <2> QED BY <2>2, <2>3, <2>4, SubmitEditInv
<1>7. CASE SubmitPush(s, u)
  BY <1>1, <1>7, SubmitEditInv DEF SubmitPush
<1>8. CASE SubmitIssue(s, u)
  <2> DEFINE to == [scope EXCEPT !.status = "issued", !.issuedAt = TRUE, !.by = u]
  <2>1. PICK mark \in {"none", "issued"} : Submit(s, to, body, FALSE, Frozen, mark)
    BY <1>8 DEF SubmitIssue
  <2>2. to \in ScopeRow /\ Frozen \in Snapshot
    BY <1>1, RowTypes
  <2>3. to.version = scope.version /\ to.issuedAt /\ Locked(to)
    BY <1>1 DEF ScopeRow, Locked, LOCKED_STATUSES
  <2>4. ~Locked(scope)
    BY <1>8 DEF SubmitIssue
  <2> HIDE DEF to
  <2> DEFINE x == Waiting(s, to, body, FALSE, Frozen, mark)
  <2>5. IssueShape(x)
    BY <2>2, <2>3, <2>4 DEF Waiting, IssueShape
  <2>6. ~ReviseShape(x)
    BY <1>2, <2>3 DEF Waiting, ReviseShape
  <2> QED BY <1>1, <2>1, <2>2, <2>5, <2>6, SubmitInv
<1>9. CASE SubmitRevise(s, u)
  <2> DEFINE to == Reopened(u)
             snap == IF revs[scope.version] = None THEN Frozen ELSE None
  <2>1. PICK mark \in {"none", "revised"} : Submit(s, to, body, FALSE, snap, mark)
    BY <1>9 DEF SubmitRevise
  <2>2. to \in ScopeRow /\ Frozen \in Snapshot
    BY <1>1, <1>9, RowTypes DEF SubmitRevise
  <2>3. /\ to.version = scope.version + 1 /\ ~to.issuedAt
        /\ ~Locked(to) /\ to.head = scope.head
    BY <1>1 DEF Reopened, ScopeRow, Locked, LOCKED_STATUSES
  <2>4. snap \in Snapshot \union {None} /\ (snap = None <=> revs[scope.version] # None)
    BY <2>2, LifecycleAssumption
  <2> HIDE DEF to, snap
  <2> DEFINE x == Waiting(s, to, body, FALSE, snap, mark)
  <2>5. ReviseShape(x)
    BY <2>3 DEF Waiting, ReviseShape
  <2> QED BY <1>1, <2>1, <2>2, <2>4, <2>5, SubmitInv
<1>10. CASE SubmitArchive(s, u)
  <2> DEFINE to == [scope EXCEPT !.status = "archived", !.by = u]
  <2>1. to \in ScopeRow
    BY <1>1, RowTypes
  <2>2. /\ to.version = scope.version /\ to.issuedAt = scope.issuedAt
        /\ Locked(to) /\ to.head = scope.head
    BY <1>1 DEF ScopeRow, Locked, LOCKED_STATUSES
  <2>3. Submit(s, to, body, FALSE, None, "none")
    BY <1>10 DEF SubmitArchive
  <2> HIDE DEF to
  <2> QED BY <1>1, <2>1, <2>2, <2>3, SubmitEditInv
<1> QED BY <1>4, <1>5, <1>6, <1>7, <1>8, <1>9, <1>10 DEF SubmitStep

LEMMA OtherStepInv ==
  ASSUME IInv, NEW s \in Sessions, Open(s) \/ Refused(s) \/ Audit(s) \/ Leave(s)
  PROVE  IInv'
<1>1. Idle \in Session /\ [Idle EXCEPT !.pc = "open"] \in Session
  BY DEF Idle, Session
<1>2. /\ ~Flushing(Idle) /\ ~Flushing([Idle EXCEPT !.pc = "open"])
      /\ Idle.pc # "audit" /\ [Idle EXCEPT !.pc = "open"].pc # "audit"
  BY DEF Idle, Flushing
<1>3. ses[s] \in Session /\ scope.version \in Versions
  BY DEF IInv, TypeOK, ScopeRow
<1>4. log \in Entry \union {None}
  BY DEF IInv, TypeOK
<1>5. CASE Open(s)
  BY <1>1, <1>2, <1>4, <1>5, SessionStepInv DEF Open
<1>6. CASE Refused(s)
  BY <1>1, <1>2, <1>4, <1>6, SessionStepInv DEF Refused
<1>7. CASE Leave(s)
  BY <1>1, <1>2, <1>4, <1>7, SessionStepInv DEF Leave
<1>8. CASE Audit(s)
  <2>1. ses[s].mark \in {"issued", "revised"}
    BY <1>3, <1>8 DEF Audit, IInv, AuditsMarked, Session
  <2> QED BY <1>1, <1>2, <1>3, <1>8, <2>1, SessionStepInv DEF Audit, Entry
<1> QED BY <1>5, <1>6, <1>7, <1>8

-----------------------------------------------------------------------------
(* What a flush makes of the row. *)
LEMMA CommitDirty ==
  ASSUME IInv, NEW s \in Sessions, Commit(s), RowDirty(s)
  PROVE  /\ ses[s].row = scope
         /\ scope' \in ScopeRow
         /\ scope'.rv = scope.rv + 1
         /\ scope'.version = ses[s].to.version
         /\ scope'.issuedAt = ses[s].to.issuedAt
         /\ scope'.head = ses[s].to.head
         /\ Locked(scope') <=> Locked(ses[s].to)
<1>1. Flushing(ses[s]) /\ ~Conflict(s) /\ scope.rv < MaxRv
  BY DEF Commit, Flushing
<1>2. ses[s].row = scope /\ scope' = [ses[s].to EXCEPT !.rv = ses[s].row.rv + 1]
  BY <1>1, DirtyCopyIsRow DEF Commit
<1>3. ses[s].to \in ScopeRow /\ scope \in ScopeRow
  BY <1>1 DEF IInv, CopiesFresh, Shaped, Copied, TypeOK
<1>4. scope.rv + 1 \in 1..MaxRv
  BY <1>1, <1>3, LifecycleAssumption DEF ScopeRow
<1> QED BY <1>2, <1>3, <1>4 DEF ScopeRow, Locked

(* A flush without an UPDATE of the row is an edit that changed only parts. *)
LEMMA CommitClean ==
  ASSUME IInv, NEW s \in Sessions, Commit(s), ~RowDirty(s)
  PROVE  /\ ses[s].to = ses[s].row /\ EditShape(ses[s])
         /\ scope' = scope /\ revs' = revs
<1>1. Shaped(ses[s])
  BY DEF Commit, Flushing, IInv, CopiesFresh
<1>2. ses[s].to = ses[s].row
  BY DEF RowDirty
<1>3. ses[s].row.version \in Nat
  BY <1>1, LifecycleAssumption DEF Shaped, Copied, ScopeRow, Versions
<1>4. ~ReviseShape(ses[s])
  BY <1>2, <1>3 DEF ReviseShape
<1>5. ~IssueShape(ses[s])
  BY <1>2 DEF IssueShape
<1>6. EditShape(ses[s])
  BY <1>1, <1>4, <1>5 DEF Shaped
<1> QED BY <1>2, <1>6 DEF Commit, EditShape

LEMMA CommitType ==
  ASSUME IInv, NEW s \in Sessions, Commit(s)
  PROVE  TypeOK'
<1>1. /\ TypeOK /\ Shaped(ses[s]) /\ ses[s] \in Session
  BY DEF IInv, Commit, Flushing, CopiesFresh, TypeOK
<1>2. scope' \in ScopeRow
  BY <1>1, CommitDirty, CommitClean DEF TypeOK
<1>3. body' \in Body
  BY <1>1, MergedBody DEF Commit, Shaped, Copied, TypeOK
<1>4. revs' \in [Versions -> Snapshot \union {None}]
  BY <1>1 DEF Commit, Shaped, Copied, TypeOK, Session, ScopeRow
<1>5. ASSUME NEW x \in Sessions PROVE ses'[x] \in Session
  <2>1. Idle \in Session
    BY DEF Idle, Session
  <2>2. \A mark \in {"none", "issued", "revised"} :
           [Idle EXCEPT !.pc = "audit", !.mark = mark] \in Session
    BY DEF Idle, Session
  <2>3. ses[s].mark \in {"none", "issued", "revised"}
    BY <1>1 DEF Session
  <2>4. ses[x] \in Session
    BY <1>1 DEF TypeOK
  <2>5. Aged(ses[x]) \in Session
    BY <2>4, AgedKeeps
  <2>6. ses'[x] = IF x # s THEN Aged(ses[x])
                  ELSE IF ses[s].mark = "none" THEN Idle
                  ELSE [Idle EXCEPT !.pc = "audit", !.mark = ses[s].mark]
    BY DEF Commit
  <2> QED BY <2>1, <2>2, <2>3, <2>5, <2>6
<1>6. ses' \in [Sessions -> Session]
  BY <1>5 DEF Commit
<1> QED BY <1>1, <1>2, <1>3, <1>4, <1>6 DEF Commit, TypeOK

(* The committing session stops waiting; the others keep what they carry. *)
LEMMA CommitSessions ==
  ASSUME IInv, NEW s \in Sessions, Commit(s), NEW t \in Sessions
  PROVE  /\ t = s => ~Flushing(ses'[t]) /\ (ses'[t].pc = "audit" => ses'[t].mark # "none")
         /\ t # s => /\ ses'[t].pc = ses[t].pc /\ ses'[t].mark = ses[t].mark
                     /\ ses'[t].row = ses[t].row /\ ses'[t].to = ses[t].to
                     /\ ses'[t].parts = ses[t].parts /\ ses'[t].toParts = ses[t].toParts
                     /\ ses'[t].snap = ses[t].snap
<1>1. ses[t] \in Session /\ ses[s] \in Session
  BY DEF IInv, TypeOK
<1>2. CASE t = s
  <2>1. \/ ses'[t] = Idle
        \/ ses[s].mark # "none" /\ ses'[t] = [Idle EXCEPT !.pc = "audit", !.mark = ses[s].mark]
    BY <1>2 DEF Commit
  <2>2. /\ Idle.pc = "idle"
        /\ \A mark : [Idle EXCEPT !.pc = "audit", !.mark = mark].pc = "audit"
        /\ \A mark : [Idle EXCEPT !.pc = "audit", !.mark = mark].mark = mark
    BY DEF Idle
  <2> QED BY <2>1, <2>2, <1>2 DEF Flushing
<1>3. CASE t # s
  <2>1. ses'[t] = Aged(ses[t])
    BY <1>3 DEF Commit
  <2>2. Aged(ses[t]).mark = ses[t].mark
    BY <1>1 DEF Aged, Session
  <2> QED BY <1>1, <1>3, <2>1, <2>2, AgedKeeps
<1> QED BY <1>2, <1>3

LEMMA CommitHistory ==
  ASSUME IInv, NEW s \in Sessions, Commit(s)
  PROVE  HistoryComplete'
<1> DEFINE x == ses[s]
<1>1. TypeOK /\ HistoryComplete /\ Shaped(x) /\ CopyFresh(x)
  BY DEF IInv, Commit, Flushing, CopiesFresh
<1>2. scope.version \in Versions /\ scope.rv \in Nat
  BY <1>1, LifecycleAssumption DEF TypeOK, ScopeRow
<1>3. CASE ~RowDirty(s)
  BY <1>1, <1>3, CommitClean DEF HistoryComplete
<1>4. CASE RowDirty(s)
  <2>1. /\ x.row = scope
        /\ scope'.version = x.to.version /\ scope'.issuedAt = x.to.issuedAt
        /\ Locked(scope') <=> Locked(x.to)
    BY <1>4, CommitDirty
  <2>2. revs' = IF x.snap = None THEN revs ELSE [revs EXCEPT ![scope.version] = x.snap]
    BY <2>1 DEF Commit
  <2>3. revs \in [Versions -> Snapshot \union {None}]
    BY <1>1 DEF TypeOK
  <2>4. None \notin Snapshot /\ Versions \subseteq Nat
    BY LifecycleAssumption DEF Versions
  <2>5. CASE EditShape(x)
    BY <1>1, <2>1, <2>2, <2>5 DEF EditShape, HistoryComplete
  <2>6. CASE IssueShape(x)
    <3>1. revs' = [revs EXCEPT ![scope.version] = x.snap] /\ x.snap # None
      BY <2>2, <2>4, <2>6 DEF IssueShape
    <3>2. scope'.version = scope.version /\ Locked(scope')
      BY <2>1, <2>6 DEF IssueShape
    <3> QED BY <1>1, <1>2, <2>3, <2>4, <3>1, <3>2 DEF HistoryComplete
  <2>7. CASE ReviseShape(x)
    <3>1. scope'.version = scope.version + 1 /\ ~scope'.issuedAt
      BY <2>1, <2>7 DEF ReviseShape
    <3>2. revs'[scope.version] # None
      BY <1>1, <1>2, <2>1, <2>2, <2>3, <2>7 DEF CopyFresh
    <3>3. \A v \in Versions : v # scope.version => revs'[v] = revs[v]
      BY <2>2, <2>3
    <3>4. scope'.version \in Versions
      BY <1>1, <2>1 DEF Shaped, Copied, ScopeRow
    <3> DEFINE n == scope.version
    <3>5. n \in Nat /\ scope'.version = n + 1
      BY <1>2, <2>4, <3>1
    <3> HIDE DEF n
    <3>6. ASSUME NEW v \in Versions
          PROVE  /\ v < scope'.version => v < n \/ v = n
                 /\ v > scope'.version => v > n /\ v # n
                 /\ v = scope'.version => v > n /\ v # n
      <4>1. v \in Nat
        BY <2>4
      <4> QED BY <3>5, <4>1
    <3>7. ASSUME NEW v \in Versions PROVE v < n => revs'[v] # None
      BY <1>1, <3>2, <3>3 DEF HistoryComplete, n
    <3>8. ASSUME NEW v \in Versions PROVE v > n /\ v # n => revs'[v] = None
      BY <1>1, <3>3 DEF HistoryComplete, n
    <3>9. revs'[n] # None
      BY <3>2 DEF n
    <3>10. \A v \in Versions : v < scope'.version => revs'[v] # None
      BY <3>6, <3>7, <3>9
    <3>11. \A v \in Versions : v > scope'.version => revs'[v] = None
      BY <3>6, <3>8
    <3>12. revs'[scope'.version] = None
      BY <3>4, <3>6, <3>8
    <3> QED BY <3>1, <3>10, <3>11, <3>12 DEF HistoryComplete
  <2> QED BY <1>1, <2>5, <2>6, <2>7 DEF Shaped
<1> QED BY <1>3, <1>4

LEMMA CommitInv ==
  ASSUME IInv, NEW s \in Sessions, Commit(s)
  PROVE  IInv'
<1>1. scope.rv \in Nat
  BY LifecycleAssumption DEF IInv, TypeOK, ScopeRow
<1>2. ASSUME NEW t \in Sessions, Flushing(ses[t])'
      PROVE  (Shaped(ses[t]) /\ CopyFresh(ses[t]))'
  <2>1. t # s /\ Flushing(ses[t])
    BY <1>2, CommitSessions DEF Flushing
  <2>2. Shaped(ses[t]) /\ CopyFresh(ses[t])
    BY <2>1 DEF IInv, CopiesFresh
  <2>3. /\ ses'[t].row = ses[t].row
        /\ Shaped(ses'[t]) /\ (ReviseShape(ses'[t]) <=> ReviseShape(ses[t]))
        /\ ses'[t].snap = ses[t].snap
    BY <2>1, <2>2, CommitSessions, ShapeCarries
  <2>4. ses[t].row.rv \in Nat
    BY <2>2, LifecycleAssumption DEF Shaped, Copied, ScopeRow
  <2>5. Shaped(ses[t])'
    BY <2>3 DEF Shaped, Copied, EditShape, IssueShape, ReviseShape, Locked
  <2>6. CASE RowDirty(s)
    <3>1. ses[t].row.rv < scope'.rv /\ ses[t].row.rv <= scope'.rv
      BY <1>1, <2>2, <2>4, <2>6, CommitDirty DEF CopyFresh
    <3>2. CopyFresh(ses[t])'
      BY <2>3, <2>4, <3>1 DEF CopyFresh
    <3> QED BY <2>5, <3>2
  <2>7. CASE ~RowDirty(s)
    <3>1. scope' = scope /\ revs' = revs
      BY <2>7, CommitClean
    <3>2. CopyFresh(ses[t])'
      BY <2>2, <2>3, <3>1 DEF CopyFresh, ReviseShape, Locked
    <3> QED BY <2>5, <3>2
  <2> QED BY <2>6, <2>7
<1>3. CopiesFresh'
  BY <1>2 DEF CopiesFresh
<1>4. AuditsMarked'
  BY CommitSessions DEF AuditsMarked, IInv
<1> QED BY <1>3, <1>4, CommitType, CommitHistory DEF IInv

LEMMA NextInv == IInv /\ [Next]_vars => IInv'
<1> SUFFICES ASSUME IInv, [Next]_vars PROVE IInv'
  OBVIOUS
<1>1. CASE UNCHANGED vars
  BY <1>1 DEF vars, IInv, TypeOK, CopiesFresh, AuditsMarked, HistoryComplete, CopyFresh,
              Flushing, Shaped, Copied, EditShape, IssueShape, ReviseShape, Locked
<1>2. CASE Next
  <2>1. PICK s \in Sessions :
          \/ Open(s) \/ Commit(s) \/ Refused(s) \/ Audit(s) \/ Leave(s)
          \/ \E u \in Users : SubmitStep(s, u)
    BY <1>2 DEF Next
  <2> QED BY <2>1, OtherStepInv, CommitInv, SubmitStepInv
<1> QED BY <1>1, <1>2

LEMMA Invariance == Spec => []IInv
BY InitInv, NextInv, PTL DEF Spec

-----------------------------------------------------------------------------
(* The tables and the sessions' copies keep their shape. *)
THEOREM TypeCorrect == Spec => []TypeOK
<1>1. IInv => TypeOK
  BY DEF IInv
<1> QED BY <1>1, Invariance, PTL

(* No version of a document is ever lost, however many people edit, issue and
   revise it at once: every version left behind has its snapshot. *)
THEOREM HistoryPreserved == Spec => []HistoryComplete
<1>1. IInv => HistoryComplete
  BY DEF IInv
<1> QED BY <1>1, Invariance, PTL

(* uq_revision_scope_version is never what refuses a request. *)
THEOREM RevisionsNeverClash == Spec => []NoRevisionClash
<1>1. ASSUME IInv PROVE NoRevisionClash
  <2> SUFFICES ASSUME NEW s \in Sessions, ses[s].pc = "flush", ses[s].snap # None,
                      revs[ses[s].row.version] # None
               PROVE  RowDirty(s) /\ scope.rv # ses[s].row.rv
    BY DEF NoRevisionClash
  <2> DEFINE x == ses[s]
  <2>1. Shaped(x) /\ CopyFresh(x) /\ HistoryComplete
    BY <1>1 DEF IInv, CopiesFresh, Flushing
  <2>2. IssueShape(x) \/ ReviseShape(x)
    BY <2>1 DEF Shaped, EditShape
  <2>3. x.row.version \in Nat
    BY <2>1, LifecycleAssumption DEF Shaped, Copied, ScopeRow, Versions
  <2>4. RowDirty(s)
    BY <2>2, <2>3 DEF RowDirty, IssueShape, ReviseShape
  <2>5. ASSUME scope.rv = x.row.rv PROVE FALSE
    <3>1. x.row = scope /\ ~ReviseShape(x)
      BY <2>1, <2>5 DEF CopyFresh
    <3> QED BY <2>1, <2>2, <3>1 DEF IssueShape, HistoryComplete
  <2> QED BY <2>4, <2>5
<1> QED BY <1>1, Invariance, PTL

-----------------------------------------------------------------------------
(* The tables are changed by commits only. *)
LEMMA OnlyCommitsWrite ==
  ASSUME [Next]_vars, scope' # scope \/ body' # body
  PROVE  \E s \in Sessions : Commit(s)
BY ZenonT(30) DEF Next, vars, Open, Refused, Audit, Leave, SubmitStep, SubmitPatch, SubmitSettings,
       SubmitBody, SubmitPush, SubmitIssue, SubmitRevise, SubmitArchive, Submit

(* While a commit is made, no other session stops waiting. *)
LEMMA OneCommits ==
  ASSUME IInv, NEW s \in Sessions, Commit(s), NEW t \in Sessions, Committing(t)
  PROVE  t = s
BY CommitSessions DEF Committing

(* A locked document keeps its own fields, and leaves the lock only as the
   next version. *)
THEOREM LockIsKept == Spec => LockHolds
<1>1. ASSUME IInv, [Next]_vars, Locked(scope)
      PROVE  /\ scope'.head = scope.head
             /\ Locked(scope') \/ scope'.version = scope.version + 1
  <2>1. CASE scope' = scope
    BY <1>1, <2>1
  <2>2. CASE scope' # scope
    <3>1. PICK s \in Sessions : Commit(s)
      BY <1>1, <2>2, OnlyCommitsWrite
    <3>2. RowDirty(s)
      BY <1>1, <2>2, <3>1, CommitClean
    <3>3. /\ ses[s].row = scope
          /\ scope'.version = ses[s].to.version /\ scope'.head = ses[s].to.head
          /\ Locked(scope') <=> Locked(ses[s].to)
      BY <1>1, <3>1, <3>2, CommitDirty
    <3>4. Shaped(ses[s])
      BY <1>1, <3>1 DEF IInv, CopiesFresh, Flushing, Commit
    <3> QED BY <1>1, <3>3, <3>4 DEF Shaped, EditShape, IssueShape, ReviseShape
  <2> QED BY <2>1, <2>2
<1>2. IInv /\ [Next]_vars
        => [Locked(scope) => /\ scope'.head = scope.head
                             /\ Locked(scope') \/ scope'.version = scope.version + 1]_vars
  BY <1>1
<1> QED BY <1>2, Invariance, PTL DEF Spec, LockHolds

(* Nobody writes the scopes row on the strength of an outdated reading. *)
THEOREM RowIsWrittenFresh == Spec => RowWrittenFresh
<1>1. ASSUME IInv, [Next]_vars, NEW t \in Sessions, Committing(t), scope' # scope
      PROVE  ses[t].row = scope
  <2>1. PICK s \in Sessions : Commit(s)
    BY <1>1, OnlyCommitsWrite
  <2>2. t = s
    BY <1>1, <2>1, OneCommits
  <2>3. RowDirty(s)
    BY <1>1, <2>1, CommitClean
  <2> QED BY <1>1, <2>1, <2>2, <2>3, CommitDirty
<1>2. IInv /\ [Next]_vars
        => [\A s \in Sessions : Committing(s) /\ scope' # scope => ses[s].row = scope]_vars
  BY <1>1
<1> QED BY <1>2, Invariance, PTL DEF Spec, RowWrittenFresh

(* Only a request that read the document before it was locked, signed by the
   editor who was the last one already, can still change its text. *)
THEOREM LockedBodyIsKept == Spec => LockedBodyBoundary
<1>1. ASSUME IInv, [Next]_vars, NEW t \in Sessions, Locked(scope), Committing(t),
             body' # body
      PROVE  ~Locked(ses[t].row) /\ ses[t].to = ses[t].row
  <2>1. PICK s \in Sessions : Commit(s)
    BY <1>1, OnlyCommitsWrite
  <2>2. t = s
    BY <1>1, <2>1, OneCommits
  <2> DEFINE x == ses[s]
  <2>3. Shaped(x) /\ body \in Body
    BY <1>1, <2>1 DEF IInv, CopiesFresh, Flushing, Commit, TypeOK
  <2>4. x.toParts # x.parts
    BY <1>1, <2>1, <2>3 DEF Commit, Merged, Body
  <2>5. ~Locked(x.row)
    BY <2>3, <2>4 DEF Shaped, EditShape, IssueShape, ReviseShape
  <2>6. ~RowDirty(s)
    BY <1>1, <2>1, <2>5, CommitDirty
  <2> QED BY <1>1, <2>1, <2>2, <2>5, <2>6, CommitClean
<1>2. IInv /\ [Next]_vars
        => [\A s \in Sessions : Locked(scope) /\ Committing(s) /\ body' # body
              => ~Locked(ses[s].row) /\ ses[s].to = ses[s].row]_vars
  BY <1>1
<1> QED BY <1>2, Invariance, PTL DEF Spec, LockedBodyBoundary
=============================================================================
