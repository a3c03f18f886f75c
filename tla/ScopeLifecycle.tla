---------------------------- MODULE ScopeLifecycle ----------------------------
(***************************************************************************)
(* The life of one scope document: editing, issuing, revising, archiving   *)
(* (blueprints/scopes/routes.py, blueprints/api/routes.py,                 *)
(* services/scope_builder.py, models/scope.py).                            *)
(*                                                                         *)
(* A session is one person's visit to one page: the page is shown (Open),  *)
(* its form is posted and the handler reads the scope, checks it and       *)
(* mutates its own copy (the submit actions), and the unit of work is      *)
(* flushed (Commit).  Other requests may commit between any two of these.  *)
(* The scopes row has a version counter; sections and items, here the      *)
(* parts of the body, have none.                                           *)
(***************************************************************************)
EXTENDS Naturals

CONSTANTS
  Sessions,   (* requests in progress                                      *)
  Users,      (* people with the editor role                               *)
  Heads,      (* values of the scopes row's own fields: title, amounts...  *)
  Parts,      (* sections and items                                        *)
  Texts,      (* what a part may say                                       *)
  MaxVersion, (* bound: versions of the document                           *)
  MaxRv,      (* bound: UPDATEs of the scopes row                          *)
  None        (* no revision                                               *)

(* "in_review" is treated like "approved" everywhere and is left out. *)
Statuses == {"draft", "approved", "issued", "archived"}
LOCKED_STATUSES == {"issued", "archived"}
Versions == 1..MaxVersion
Body == [Parts -> Texts]
Snapshot == [head : Heads, body : Body]
Shown == {"head"} \union Parts
ScopeRow == [status : Statuses, version : Versions, issuedAt : BOOLEAN,
             by : Users, head : Heads, rv : 1..MaxRv]
Entry == [action : {"issued", "revised"}, version : Versions]

ASSUME LifecycleAssumption ==
  /\ MaxVersion \in Nat \ {0}
  /\ MaxRv \in Nat \ {0}
  /\ None \notin Snapshot \union Body \union ScopeRow \union Entry

VARIABLES
  scope,  (* the row of table scopes                                       *)
  body,   (* scope_sections and scope_items of the scope                   *)
  revs,   (* scope_revisions: the snapshot of each version, or None        *)
  log,    (* the newest audit entry "issued" or "revised", or None: older
             entries never change, and are judged when they are newest     *)
  ses     (* the sessions                                                  *)

vars == <<scope, body, revs, log, ses>>

(* `moved` is what others changed of what the page shows; `row` and `parts` are what the handler
   read, `to` and `toParts` the same objects after it changed them; `snap` is
   the snapshot it adds, for version row.version; `mark` the audit action that
   follows the commit, or "none". *)
Session == [pc : {"idle", "open", "flush", "audit"}, moved : SUBSET Shown,
            row : ScopeRow \union {None}, to : ScopeRow \union {None},
            parts : Body \union {None}, toParts : Body \union {None},
            touch : BOOLEAN, snap : Snapshot \union {None},
            mark : {"none", "issued", "revised"}]

Idle == [pc |-> "idle", moved |-> {}, row |-> None, to |-> None, parts |-> None,
         toParts |-> None, touch |-> FALSE, snap |-> None, mark |-> "none"]

(* The shape of the tables and of the sessions' copies. *)
TypeOK ==
  /\ scope \in ScopeRow
  /\ body \in Body
  /\ revs \in [Versions -> Snapshot \union {None}]
  /\ log \in Entry \union {None}
  /\ ses \in [Sessions -> Session]

Locked(row) == row.status \in LOCKED_STATUSES

-----------------------------------------------------------------------------
(* A page is opened, and posted. *)

(* The document as it is: what a page shows, what snapshot_scope() keeps. *)
Frozen == [head |-> scope.head, body |-> body]

Open(s) ==
  /\ ses[s].pc = "idle"
  /\ ses' = [ses EXCEPT ![s] = [Idle EXCEPT !.pc = "open"]]
  /\ UNCHANGED <<scope, body, revs, log>>

(* The handler reads the scope and leaves `to` and `toParts` to be flushed.
   A conjunct of the callers is the check it makes on what it read. *)
Submit(s, to, toParts, touch, snap, mark) ==
  /\ ses[s].pc = "open"
  /\ ses' = [ses EXCEPT ![s] =
       [pc |-> "flush", moved |-> ses[s].moved, row |-> scope, to |-> to, parts |-> body,
        toParts |-> toParts, touch |-> touch, snap |-> snap, mark |-> mark]]
  /\ UNCHANGED <<scope, body, revs, log>>

(* Mutant: the API's PATCH without its is_locked check. *)
SubmitPatchUnchecked(s, u) ==
  \E h \in Heads, st \in Statuses :
    Submit(s, [scope EXCEPT !.head = h, !.status = st, !.by = u], body, FALSE, None, "none")

(* The API's PATCH: the row's own fields and its status, which may be any. *)
SubmitPatch(s, u) ==
  /\ ~Locked(scope)
  /\ \E h \in Heads, st \in Statuses :
       Submit(s, [scope EXCEPT !.head = h, !.status = st, !.by = u], body, FALSE, None, "none")

(* settings(): the same from the form, which does not offer "archived". *)
SubmitSettings(s, u) ==
  /\ ~Locked(scope)
  /\ \E h \in Heads, st \in Statuses \ {"archived"} :
       Submit(s, [scope EXCEPT !.head = h, !.status = st, !.by = u], body, FALSE, None, "none")

(* Mutant: no require_unlocked(). *)
SubmitBodyUnchecked(s, u) ==
  \E p \in Parts, t \in Texts :
    Submit(s, [scope EXCEPT !.by = u], [body EXCEPT ![p] = t], FALSE, None, "none")

(* The handlers of sections and items: require_unlocked(), one part gets new
   content, and the scope is signed. *)
SubmitBody(s, u) ==
  /\ ~Locked(scope)
  /\ \E p \in Parts, t \in Texts :
       Submit(s, [scope EXCEPT !.by = u], [body EXCEPT ![p] = t], FALSE, None, "none")

(* Attaching the export to a Procore commitment stamps the row anew. *)
SubmitPush(s, u) == Submit(s, scope, body, TRUE, None, "none")

(* Mutant: issuing does not take the snapshot. *)
SubmitIssueUnfrozen(s, u) ==
  /\ ~Locked(scope)
  /\ \E mark \in {"none", "issued"} :
       Submit(s, [scope EXCEPT !.status = "issued", !.issuedAt = TRUE, !.by = u],
              body, FALSE, None, mark)

(* issue_scope(), from the page (audited afterwards) or the API (not audited). *)
SubmitIssue(s, u) ==
  /\ ~Locked(scope)
  /\ \E mark \in {"none", "issued"} :
       Submit(s, [scope EXCEPT !.status = "issued", !.issuedAt = TRUE, !.by = u],
              body, FALSE, Frozen, mark)

(* What revise_scope() makes of the row. *)
Reopened(u) ==
  [scope EXCEPT !.version = @ + 1, !.status = "draft", !.issuedAt = FALSE, !.by = u]

(* Mutant: revising always takes a snapshot. *)
SubmitReviseFreezing(s, u) ==
  /\ scope.version < MaxVersion
  /\ \E mark \in {"none", "revised"} :
       Submit(s, Reopened(u), body, FALSE, Frozen, mark)

(* revise_scope(): the page revises only a locked scope, the API any.  The
   version is frozen first unless it already was. *)
SubmitRevise(s, u) ==
  /\ scope.version < MaxVersion
  /\ \E mark \in {"none", "revised"} :
       /\ mark = "revised" => Locked(scope)
       /\ Submit(s, Reopened(u), body, FALSE,
                 IF revs[scope.version] = None THEN Frozen ELSE None, mark)

(* archive(): no check of the status. *)
SubmitArchive(s, u) ==
  Submit(s, [scope EXCEPT !.status = "archived", !.by = u], body, FALSE, None, "none")

-----------------------------------------------------------------------------
(* The flush. *)

(* An UPDATE of the row is emitted only for a net change. *)
RowDirty(s) == ses[s].to # ses[s].row \/ ses[s].touch

(* version_id_col misses its row, or uq_revision_scope_version is violated. *)
Conflict(s) ==
  \/ RowDirty(s) /\ scope.rv # ses[s].row.rv
  \/ ses[s].snap # None /\ revs[ses[s].row.version] # None

(* Each UPDATE writes only the attributes that changed since they were read. *)
Merged(now, row, to) == [f \in DOMAIN now |-> IF to[f] # row[f] THEN to[f] ELSE now[f]]

(* History: what this commit changes under a page somebody else has open. *)
Changed == {p \in Parts : body'[p] # body[p]}
             \union (IF scope'.head # scope.head THEN {"head"} ELSE {})

Aged(x) == IF x.pc \in {"open", "flush"} THEN [x EXCEPT !.moved = @ \union Changed] ELSE x

Commit(s) ==
  /\ ses[s].pc = "flush"
  /\ ~Conflict(s)
  /\ RowDirty(s) => scope.rv < MaxRv
  /\ scope' = IF RowDirty(s)
              THEN [Merged(scope, ses[s].row, ses[s].to) EXCEPT !.rv = ses[s].row.rv + 1]
              ELSE scope
  /\ body' = Merged(body, ses[s].parts, ses[s].toParts)
  /\ revs' = IF ses[s].snap = None THEN revs
             ELSE [revs EXCEPT ![ses[s].row.version] = ses[s].snap]
  /\ ses' = [x \in Sessions |->
       IF x # s THEN Aged(ses[x])
       ELSE IF ses[s].mark = "none" THEN Idle
       ELSE [Idle EXCEPT !.pc = "audit", !.mark = ses[s].mark]]
  /\ UNCHANGED log

(* StaleDataError or IntegrityError: all of it is rolled back. *)
Refused(s) ==
  /\ ses[s].pc = "flush"
  /\ Conflict(s)
  /\ ses' = [ses EXCEPT ![s] = Idle]
  /\ UNCHANGED <<scope, body, revs, log>>

(* issue() and revise() then record the event in a transaction of its own; the
   commit expired the scope, so scope.version is read again. *)
Audit(s) ==
  /\ ses[s].pc = "audit"
  /\ log' = [action |-> ses[s].mark, version |-> scope.version]
  /\ ses' = [ses EXCEPT ![s] = Idle]
  /\ UNCHANGED <<scope, body, revs>>

(* The page is left or refused (409), or the process dies: whatever is not
   committed is gone. *)
Leave(s) ==
  /\ ses[s].pc # "idle"
  /\ ses' = [ses EXCEPT ![s] = Idle]
  /\ UNCHANGED <<scope, body, revs, log>>

-----------------------------------------------------------------------------
Init ==
  /\ \E u \in Users, h \in Heads :
       scope = [status |-> "draft", version |-> 1, issuedAt |-> FALSE,
                by |-> u, head |-> h, rv |-> 1]
  /\ body \in Body
  /\ revs = [v \in Versions |-> None]
  /\ log = None
  /\ ses = [s \in Sessions |-> Idle]

SubmitStep(s, u) ==
  \/ SubmitPatch(s, u) \/ SubmitSettings(s, u) \/ SubmitBody(s, u) \/ SubmitPush(s, u)
  \/ SubmitIssue(s, u) \/ SubmitRevise(s, u) \/ SubmitArchive(s, u)

Next ==
  \E s \in Sessions :
    \/ Open(s) \/ Commit(s) \/ Refused(s) \/ Audit(s) \/ Leave(s)
    \/ \E u \in Users : SubmitStep(s, u)

Spec == Init /\ [][Next]_vars

-----------------------------------------------------------------------------
(* Safety. *)

(* Every version that was left behind is frozen, none that is still to come,
   and the current one only while it is locked; a document carrying an issue
   date has its frozen version.  (scope_builder.py:491-507, the comment on
   revising "straight from draft" included.) *)
HistoryComplete ==
  /\ \A v \in Versions : v < scope.version => revs[v] # None
  /\ \A v \in Versions : v > scope.version => revs[v] = None
  /\ ~Locked(scope) => revs[scope.version] = None
  /\ scope.issuedAt => revs[scope.version] # None

(* The unique constraint on (scope, version) is never what refuses a request:
   whenever it would, the row's version counter refuses it as well. *)
NoRevisionClash ==
  \A s \in Sessions :
    /\ ses[s].pc = "flush"
    /\ ses[s].snap # None
    /\ revs[ses[s].row.version] # None
    => RowDirty(s) /\ scope.rv # ses[s].row.rv

(* While a document is locked its own fields stay as they are, and it gets
   out of the lock only as the next version, whoever read it before. *)
LockHolds ==
  [][Locked(scope) => /\ scope'.head = scope.head
                      /\ Locked(scope') \/ scope'.version = scope.version + 1]_vars

Committing(s) == ses[s].pc = "flush" /\ ses'[s].pc # "flush"

(* Two requests never both write the scopes row from one reading of it: the
   later one is refused. *)
RowWrittenFresh ==
  [][\A s \in Sessions : Committing(s) /\ scope' # scope => ses[s].row = scope]_vars

(* How far the lock reaches into the body: a locked document's text is changed
   only by a request that read it before it was locked and whose user was its
   last editor, so that signing it is no change of the row. *)
LockedBodyBoundary ==
  [][\A s \in Sessions : Locked(scope) /\ Committing(s) /\ body' # body
       => ~Locked(ses[s].row) /\ ses[s].to = ses[s].row]_vars

(* models/scope.py:367, "every issued version is preserved verbatim", and
   models/scope.py:43, "further edits must go through a new revision". *)
IssuedIsVerbatim ==
  scope.status = "issued" /\ scope.issuedAt
    => revs[scope.version] = [head |-> scope.head, body |-> body]

(* README.md:181, "two people editing the same document get a clear conflict
   instead of one silently overwriting the other": a request replaces only
   what nobody else changed since its page was shown. *)
NoSilentOverwrite ==
  [][\A s \in Sessions : Committing(s) => Changed \cap ses[s].moved = {}]_vars

(* services/audit.py:9, "written in the *same transaction* as the action it
   describes ... That is what stops the log and reality diverging": a version
   the log calls issued has been frozen. *)
AuditNamesFrozenVersion ==
  log # None /\ log.action = "issued" => revs[log.version] # None
=============================================================================
