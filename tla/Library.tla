-------------------------------- MODULE Library --------------------------------
(***************************************************************************)
(* The library: shipped rows shared by every organization, rows of their   *)
(* own, the shipped clauses an organization has hidden, and the seeding    *)
(* that brings the shipped rows to a release (services/library.py,         *)
(* services/seeding.py, blueprints/library/routes.py, models/library.py,   *)
(* models/template.py).                                                    *)
(*                                                                         *)
(* A request or a seeding reads in one step and commits in another; its    *)
(* unit of work writes the attributes that differ from what it read.  What *)
(* a row says is one value; a skipped seed entry is one that the release   *)
(* does not ship.                                                          *)
(***************************************************************************)
EXTENDS Naturals, FiniteSets

CONSTANTS
  Orgs,         (* organizations                                           *)
  Rows,         (* bound: rows ever inserted                               *)
  ClauseKeys,   (* system keys of shipped clauses                          *)
  SectionKeys,  (* system keys of shipped specification sections           *)
  Texts,        (* what a row may say                                      *)
  Releases,
  Shipped,      (* what each release ships under each key                  *)
  Sessions,     (* requests and seedings in progress                       *)
  None

Keys == ClauseKeys \union SectionKeys

ASSUME LibraryAssumption ==
  /\ None \notin Orgs \union Rows \union Keys \union Texts \union Releases
  /\ Shipped \in [Releases -> [Keys -> Texts \union {None}]]

VARIABLES
  row,      (* tables clauses, spec_sections and scope_templates           *)
  hidden,   (* table clause_suppressions                                   *)
  ses,      (* the requests and the seedings                               *)
  release,  (* history: the release of the last seeding, if it updated and
               no seeding of another one overlapped it                     *)
  shown     (* history: the shipped clauses that each organization has
               restored after it had copied them                           *)

vars == <<row, hidden, ses, release, shown>>

(* `twin` is a history: the shipped clause the row was copied from. *)
Row ==
  [state : {"never", "live", "gone"}, kind : {"clause", "section", "template"},
   owner : Orgs \union {None}, key : Keys \union {None}, text : Texts \union {None},
   active : BOOLEAN, twin : Rows \union {None}]

NoRow == [state |-> "never", kind |-> "clause", owner |-> None, key |-> None, text |-> None,
          active |-> FALSE, twin |-> None]

(* `seen` is what was read of the rows to be written, `to` the form; for a
   seeding `org` is none, `of` the release and `update` whether it refreshes
   rows; `over` says that a seeding of another release committed meanwhile. *)
Session ==
  [op : {"idle", "create", "copy", "edit", "activate", "hide", "restore", "delete", "seed"},
   org : Orgs \union {None}, id : Rows \union {None}, seen : [Rows -> Row], to : Row,
   of : Releases \union {None}, update : BOOLEAN, over : BOOLEAN]

NoRows == [i \in Rows |-> NoRow]

Idle == [op |-> "idle", org |-> None, id |-> None, seen |-> NoRows, to |-> NoRow,
         of |-> None, update |-> FALSE, over |-> FALSE]

(* The tables and the sessions. *)
TypeOK ==
  /\ row \in [Rows -> Row]
  /\ hidden \in [Orgs -> SUBSET Rows]
  /\ ses \in [Sessions -> Session]
  /\ release \in Releases \union {None}
  /\ shown \in [Orgs -> SUBSET Rows]

(* The code makes no system template. *)
Init ==
  /\ row = NoRows
  /\ hidden = [o \in Orgs |-> {}]
  /\ ses = [s \in Sessions |-> Idle]
  /\ release = None
  /\ shown = [o \in Orgs |-> {}]

-----------------------------------------------------------------------------
(* Reading. *)

Live == {i \in Rows : row[i].state = "live"}

System(i) == row[i].owner = None

(* get_clause_or_404 and its siblings. *)
Readable(o) == {i \in Live : row[i].owner \in {o, None}}

(* available_clauses, available_spec_sections and the templates offered. *)
Available(o) == {i \in Readable(o) : row[i].active /\ i \notin hidden[o]}

(* Everything that an organization can find in its library. *)
Offered(o) == {[id |-> i, text |-> row[i].text] : i \in Available(o)}

WithKey(f, k) == {i \in Rows : f[i].state = "live" /\ f[i].key = k}

Only(I) == [i \in Rows |-> IF i \in I THEN row[i] ELSE NoRow]

-----------------------------------------------------------------------------
(* A request of an editor arrives. *)

Submit(s, request) ==
  /\ ses[s] = Idle
  /\ ses' = [ses EXCEPT ![s] = request]
  /\ UNCHANGED <<row, hidden, release, shown>>

Form(o, kind, text, active) ==
  [state |-> "live", kind |-> kind, owner |-> o, key |-> None, text |-> text,
   active |-> active, twin |-> None]

Creation(o, kind, text, active) ==
  [Idle EXCEPT !.op = "create", !.org = o, !.to = Form(o, kind, text, active)]

CreateClause(s, o, text, active) == Submit(s, Creation(o, "clause", text, active))

CreateSpecSection(s, o, text, active) == Submit(s, Creation(o, "section", text, active))

SaveAsTemplate(s, o, text) == Submit(s, Creation(o, "template", text, TRUE))

(* copy_clause: the form starts with the text of the clause. *)
CopyClause(s, o, i, text) ==
  /\ i \in Readable(o) /\ row[i].kind = "clause"
  /\ Submit(s, [Idle EXCEPT !.op = "copy", !.org = o, !.id = i,
                  !.to = [Form(o, "clause", text, TRUE) EXCEPT !.twin = IF System(i) THEN i ELSE None]])

(* Shipped rows are shared and cannot be edited. *)
Edit(s, o, i, text, active) ==
  /\ i \in Readable(o) /\ ~System(i)
  /\ Submit(s, [Idle EXCEPT !.op = "edit", !.org = o, !.id = i, !.seen = Only({i}),
                  !.to = [row[i] EXCEPT !.text = text, !.active = active]])

EditClause(s, o, i, text, active) == row[i].kind = "clause" /\ Edit(s, o, i, text, active)

EditSpecSection(s, o, i, text, active) == row[i].kind = "section" /\ Edit(s, o, i, text, active)

EditTemplate(s, o, i, text, active) == row[i].kind = "template" /\ Edit(s, o, i, text, active)

(* Mutant: what is not hidden is switched off. *)
ToggleSwitches(o, i) == IF i \in hidden[o] THEN "restore" ELSE "activate"

(* toggle_suppression: what to do follows from what was read. *)
Toggle(o, i) ==
  IF i \in hidden[o] THEN "restore" ELSE IF System(i) THEN "hide" ELSE "activate"

ToggleSuppression(s, o, i) ==
  /\ i \in Readable(o) /\ row[i].kind = "clause"
  /\ Submit(s, [Idle EXCEPT !.op = Toggle(o, i), !.org = o, !.id = i, !.seen = Only({i}),
                  !.to = [row[i] EXCEPT !.active = ~@]])

(* The getters refuse shipped rows here (allow_system=False). *)
Delete(s, o, i) ==
  /\ i \in Readable(o) /\ ~System(i)
  /\ Submit(s, [Idle EXCEPT !.op = "delete", !.org = o, !.id = i])

DeleteClause(s, o, i) == row[i].kind = "clause" /\ Delete(s, o, i)

DeleteSpecSection(s, o, i) == row[i].kind = "section" /\ Delete(s, o, i)

DeleteTemplate(s, o, i) == row[i].kind = "template" /\ Delete(s, o, i)

(* seed_library, with or without --no-update, reads the rows that have a key. *)
SeedLibrary(s, r, update) ==
  Submit(s, [Idle EXCEPT !.op = "seed", !.of = r, !.update = update,
               !.seen = Only({i \in Live : row[i].key # None})])

-----------------------------------------------------------------------------
(* Commits. *)

(* The rows that a session writes, if there are differences. *)
Changed(x) == {i \in Rows : x.seen[i].state = "live" /\ x.to # x.seen[i] /\ x.id = i}

(* A row with the changed attributes of the form. *)
Merged(x, i) ==
  [row[i] EXCEPT !.text = IF x.to.text # x.seen[i].text THEN x.to.text ELSE @,
                 !.active = IF x.to.active # x.seen[i].active THEN x.to.active ELSE @]

Fresh == {i \in Rows : row[i].state = "never"}

Finish(s) == ses' = [ses EXCEPT ![s] = Idle]

CommitCreate(s) ==
  /\ ses[s].op = "create"
  /\ \E i \in Fresh : row' = [row EXCEPT ![i] = ses[s].to]
  /\ Finish(s)
  /\ UNCHANGED <<hidden, release, shown>>

(* Mutant: the original stays in the picker. *)
CommitCopyShown(s) ==
  /\ ses[s].op = "copy" /\ ses[s].id \notin hidden[ses[s].org]
  /\ \E i \in Fresh : row' = [row EXCEPT ![i] = ses[s].to]
  /\ Finish(s)
  /\ UNCHANGED <<hidden, release, shown>>

(* A shipped original is hidden with the insertion, which the unique
   constraint refuses if it is hidden already. *)
CommitCopy(s) ==
  LET o == ses[s].org
      original == ses[s].to.twin
  IN /\ ses[s].op = "copy" /\ original \notin hidden[o]
     /\ \E i \in Fresh : row' = [row EXCEPT ![i] = ses[s].to]
     /\ hidden' = [hidden EXCEPT ![o] = @ \union ({original} \ {None})]
     /\ shown' = [shown EXCEPT ![o] = @ \ {original}]
     /\ Finish(s)
     /\ UNCHANGED release

(* An edit, or a clause of one's own switched on or off. *)
CommitEdit(s) ==
  LET x == ses[s] IN
  /\ x.op \in {"edit", "activate"}
  /\ Changed(x) \subseteq Live
  /\ row' = [i \in Rows |-> IF i \in Changed(x) THEN Merged(x, i) ELSE row[i]]
  /\ Finish(s)
  /\ UNCHANGED <<hidden, release, shown>>

CommitHide(s) ==
  LET o == ses[s].org IN
  /\ ses[s].op = "hide" /\ ses[s].id \notin hidden[o]
  /\ hidden' = [hidden EXCEPT ![o] = @ \union {ses[s].id}]
  /\ Finish(s)
  /\ UNCHANGED <<row, release, shown>>

(* The suppression that was read is deleted: of two requests that read the
   same one, the second deletes nothing. *)
CommitRestore(s) ==
  LET o == ses[s].org
      i == ses[s].id
  IN /\ ses[s].op = "restore"
     /\ hidden' = [hidden EXCEPT ![o] = @ \ {i}]
     /\ shown' = [shown EXCEPT ![o] = @ \union ({i} \ {None})]
     /\ ses' = [t \in Sessions |->
                  IF t = s THEN Idle
                  ELSE IF ses[t].op = "restore" /\ ses[t].org = o /\ ses[t].id = i
                       THEN [ses[t] EXCEPT !.id = None] ELSE ses[t]]
     /\ UNCHANGED <<row, release>>

Gone == [NoRow EXCEPT !.state = "gone"]

CommitDelete(s) ==
  /\ ses[s].op = "delete"
  /\ row' = [row EXCEPT ![ses[s].id] = Gone]
  /\ Finish(s)
  /\ UNCHANGED <<hidden, release, shown>>

(* What a release ships and the seeding did not find. *)
Lacking(x) == {k \in Keys : Shipped[x.of][k] # None /\ WithKey(x.seen, k) = {}}

ShippedRow(r, k) ==
  [state |-> "live", kind |-> IF k \in ClauseKeys THEN "clause" ELSE "section",
   owner |-> None, key |-> k, text |-> Shipped[r][k], active |-> TRUE, twin |-> None]

(* Mutant: rows that are there are never refreshed. *)
RefreshedNever(x, i) == row[i]

(* A row found, with the attributes that the release changes. *)
Refreshed(x, i) ==
  LET k == x.seen[i].key IN
  IF x.update /\ x.seen[i].state = "live" /\ Shipped[x.of][k] # None
  THEN [row[i] EXCEPT !.text = IF x.seen[i].text # Shipped[x.of][k] THEN Shipped[x.of][k] ELSE @,
                      !.active = IF ~x.seen[i].active THEN TRUE ELSE @]
  ELSE row[i]

(* One transaction: the unique constraint on the keys refuses all of it if
   another seeding has inserted a row meanwhile. *)
CommitSeed(s) ==
  LET x == ses[s]
      new == Lacking(x)
  IN /\ x.op = "seed"
     /\ \A k \in new : WithKey(row, k) = {}
     /\ \E at \in [new -> Fresh] :
          /\ \A j, k \in new : at[j] = at[k] => j = k
          /\ row' = [i \in Rows |-> IF \E k \in new : at[k] = i
                                    THEN ShippedRow(x.of, CHOOSE k \in new : at[k] = i)
                                    ELSE Refreshed(x, i)]
     /\ ses' = [t \in Sessions |->
                  IF t = s THEN Idle
                  ELSE IF ses[t].op = "seed" /\ ses[t].of # x.of THEN [ses[t] EXCEPT !.over = TRUE]
                  ELSE ses[t]]
     /\ release' = IF x.over \/ (~x.update /\ release # x.of) THEN None ELSE x.of
     /\ UNCHANGED <<hidden, shown>>

(* Refused by a constraint or a row that is gone, or the process died. *)
Rollback(s) ==
  /\ ses[s].op # "idle"
  /\ Finish(s)
  /\ UNCHANGED <<row, hidden, release, shown>>

Next ==
  \E s \in Sessions :
    \/ \E o \in Orgs :
         \/ \E text \in Texts, active \in BOOLEAN :
              CreateClause(s, o, text, active) \/ CreateSpecSection(s, o, text, active)
         \/ \E text \in Texts : SaveAsTemplate(s, o, text)
         \/ \E i \in Rows :
              \/ \E text \in Texts : CopyClause(s, o, i, text)
              \/ \E text \in Texts, active \in BOOLEAN :
                   \/ EditClause(s, o, i, text, active)
                   \/ EditSpecSection(s, o, i, text, active)
                   \/ EditTemplate(s, o, i, text, active)
              \/ ToggleSuppression(s, o, i)
              \/ DeleteClause(s, o, i) \/ DeleteSpecSection(s, o, i) \/ DeleteTemplate(s, o, i)
    \/ \E r \in Releases, update \in BOOLEAN : SeedLibrary(s, r, update)
    \/ CommitCreate(s) \/ CommitCopy(s) \/ CommitEdit(s) \/ CommitHide(s) \/ CommitRestore(s)
    \/ CommitDelete(s) \/ CommitSeed(s)
    \/ Rollback(s)

Spec == Init /\ [][Next]_vars

-----------------------------------------------------------------------------
(* What the library promises. *)

(* "Nobody else is affected": a request of one organization changes nothing in
   what another one is offered, for any reading it acts on (toggle_suppression,
   copy_clause, the getters of blueprints/helpers.py). *)
OthersUnaffected ==
  [][\A s \in Sessions, o \in Orgs :
       ses[s].org \notin {o, None} /\ ses'[s] # ses[s] => Offered(o)' = Offered(o)]_vars

(* "A correction actually lands": after a seeding that no other release
   overlapped, what the release ships is there once, as shipped and active
   (seed_library). *)
AsReleased ==
  release # None =>
    \A k \in Keys : Shipped[release][k] # None =>
      \E i \in Rows : /\ WithKey(row, k) = {i}
                      /\ System(i) /\ row[i].active /\ row[i].text = Shipped[release][k]

(* "The picker does not show near-identical twins": who has copied a shipped
   clause is not offered it any more, unless they restored it (copy_clause). *)
TwinsHidden ==
  \A o \in Orgs : \A i \in Available(o) :
    row[i].owner = o /\ row[i].twin # None /\ row[i].twin \notin shown[o]
      => row[i].twin \notin Available(o)
=============================================================================
