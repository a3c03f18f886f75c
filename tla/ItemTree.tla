------------------------------- MODULE ItemTree -------------------------------
(***************************************************************************)
(* The numbered lines of one section of an unlocked scope document: a      *)
(* forest whose siblings are ordered by position, changed by requests that *)
(* overlap (blueprints/scopes/routes.py, services/scope_builder.py,        *)
(* models/scope.py).                                                       *)
(*                                                                         *)
(* A request loads the section's rows, changes its own copy of them, and   *)
(* its unit of work writes the attributes that differ from what was read.  *)
(* The table of items has foreign keys but no version counter; the scopes  *)
(* row has one, and is updated only when another person signs the change.  *)
(* Positions count tens, as the code does.                                 *)
(***************************************************************************)
EXTENDS Naturals, FiniteSets

CONSTANTS
  Items,     (* bound: rows ever inserted                                  *)
  Clauses,   (* clauses of the library                                     *)
  Sessions,  (* requests in progress                                       *)
  Users,     (* people with the editor role                                *)
  MaxPos,    (* bound: positions                                           *)
  None       (* no parent, no clause                                       *)

ASSUME ItemTreeAssumption ==
  /\ None \notin Items \union Clauses
  /\ MaxPos \in Nat

VARIABLES
  item,  (* table scope_items, of one section                              *)
  by,    (* scopes.updated_by_id                                           *)
  ses,   (* the requests                                                   *)
  late   (* history: what was written from a reading that had changed, or,
            for "order", from a list that left items out                   *)

vars == <<item, by, ses, late>>

Row == [state : {"never", "live", "gone"}, parent : Items \union {None}, pos : Nat,
        clause : Clauses \union {None}]

NoRow == [state |-> "never", parent |-> None, pos |-> 0, clause |-> None]

Gone == [NoRow EXCEPT !.state = "gone"]

(* `row` is the section as read and `to` the request's own copy; `touched` the
   rows whose text it changes, `doomed` the row it deletes; `next` the counters
   of reorder_items(), `listed` the items of the payload seen so far and
   `skipped` whether one was left alone. `signed` says that the scopes row will
   be updated, `stale` that it has been by another request since. *)
Session ==
  [op : {"idle", "reorder", "insert", "update", "delete"}, user : Users \union {None},
   signed : BOOLEAN, stale : BOOLEAN, row : [Items -> Row], to : [Items -> Row],
   touched : SUBSET Items, doomed : Items \union {None},
   next : [Items \union {None} -> Nat], listed : SUBSET Items, skipped : BOOLEAN]

NoItems == [i \in Items |-> NoRow]

Idle == [op |-> "idle", user |-> None, signed |-> FALSE, stale |-> FALSE,
         row |-> NoItems, to |-> NoItems, touched |-> {}, doomed |-> None,
         next |-> [p \in Items \union {None} |-> 0], listed |-> {}, skipped |-> FALSE]

(* The table and the requests. *)
TypeOK ==
  /\ item \in [Items -> Row]
  /\ by \in Users
  /\ ses \in [Sessions -> Session]
  /\ late \subseteq {"tree", "order", "clause"}

-----------------------------------------------------------------------------
(* Forests. *)

Live(f) == {i \in Items : f[i].state = "live"}

Siblings(f, p) == {i \in Live(f) : f[i].parent = p}

(* No set of items hangs on itself. *)
Acyclic(f) == \A C \in SUBSET Items : C # {} => \E k \in C : f[k].parent \notin C

ParentsLive(f) == \A i \in Live(f) : f[i].parent \in Live(f) \union {None}

Distinct(f) ==
  \A i, j \in Live(f) : f[i].parent = f[j].parent /\ f[i].pos = f[j].pos => i = j

ClausesOnce(f) ==
  \A i, j \in Live(f) : f[i].clause = f[j].clause /\ f[i].clause # None => i = j

(* Where a walk from p to its parents gets to. *)
Up(f, p) ==
  {j \in Items :
     \A C \in SUBSET Items : p \in C /\ (\A k \in C : f[k].parent \in C \union {None}) => j \in C}

(* Mutant: only the parent itself is looked at. *)
CreatesCycleShallow(f, i, p) == f[p].parent = i

(* The walk meets i, or never ends. *)
CreatesCycle(f, i, p) == i \in Up(f, p) \/ \A k \in Up(f, p) : f[k].parent # None

(* A row and all that hang on it, which the foreign key deletes with it. *)
Subtree(f, i) ==
  {j \in Items :
     \A C \in SUBSET Items : i \in C /\ (\A k \in Items : f[k].parent \in C => k \in C) => j \in C}

Cut(f, i) ==
  [j \in Items |-> IF i # None /\ f[j].state = "live" /\ j \in Subtree(f, i) THEN Gone ELSE f[j]]

(* n is one past the largest position among the items I, or zero. *)
After(f, I, n) ==
  /\ \A i \in I : f[i].pos < n
  /\ n = 0 \/ \E i \in I : f[i].pos + 1 = n

(* Scopes start as build_scope() lays them out without a template. *)
Init ==
  /\ \E live \in SUBSET Items :
       \E parent \in [live -> live \union {None}], pos \in [live -> 0..MaxPos],
          clause \in [live -> Clauses \union {None}] :
         item = [i \in Items |-> IF i \in live
                                 THEN [state |-> "live", parent |-> parent[i],
                                       pos |-> pos[i], clause |-> clause[i]]
                                 ELSE NoRow]
  /\ Acyclic(item) /\ ParentsLive(item) /\ Distinct(item) /\ ClausesOnce(item)
  /\ \A i \in Live(item) : item[i].pos < Cardinality(Siblings(item, item[i].parent))
  /\ by \in Users
  /\ ses = [s \in Sessions |-> Idle]
  /\ late = {}

-----------------------------------------------------------------------------
(* A request arrives: it loads the section and prepares its changes. *)

(* Rows no other request is about to insert. *)
Fresh == {i \in Items : item[i].state = "never" /\ \A s \in Sessions : ses[s].to[i].state = "never"}

Submit(s, u, op, to, touched, doomed) ==
  /\ ses[s] = Idle
  /\ ses' = [ses EXCEPT ![s] =
               [Idle EXCEPT !.op = op, !.user = u, !.signed = (u # by), !.row = item, !.to = to,
                            !.touched = touched, !.doomed = doomed]]
  /\ UNCHANGED <<item, by, late>>

(* The parent of the form, if it belongs to the section. *)
SubmitAdd(s, u, p) ==
  /\ p \in Live(item) \union {None}
  /\ \E i \in Fresh, pos \in 0..MaxPos :
       /\ After(item, Siblings(item, p), pos)
       /\ Submit(s, u, "insert",
                 [item EXCEPT ![i] = [state |-> "live", parent |-> p, pos |-> pos, clause |-> None]],
                 {}, None)

(* Mutant: the clauses already there are added once more. *)
MissingAll(cs) == cs

(* The clauses that are not on the section yet. *)
Missing(cs) == {c \in cs : \A i \in Live(item) : item[i].clause # c}

(* Mutant: the last position is used again. *)
StartTooLow(n) == IF Live(item) = {} THEN n = 0 ELSE After(item, Live(item), n + 1)

Start(n) == After(item, Live(item), n)

(* `at` says which new row gets which clause, `nth` in which order. *)
SubmitAddClauses(s, u, cs) ==
  LET new == Missing(cs) IN
  \E start \in 0..MaxPos, at \in [new -> Fresh], nth \in [new -> 0..MaxPos] :
       /\ Start(start)
       /\ \A c, d \in new : c # d => at[c] # at[d] /\ nth[c] # nth[d]
       /\ \A c \in new : nth[c] < Cardinality(new) /\ start + nth[c] <= MaxPos
       /\ Submit(s, u, "insert",
                 [i \in Items |->
                    IF \E c \in new : at[c] = i
                    THEN LET c == CHOOSE c \in new : at[c] = i
                         IN [state |-> "live", parent |-> None, pos |-> start + nth[c],
                             clause |-> c]
                    ELSE item[i]],
                 {}, None)

(* A text that stays the same is not written. *)
SubmitUpdate(s, u, i) ==
  i \in Live(item) /\ \E touched \in {{}, {i}} : Submit(s, u, "update", item, touched, None)

SubmitDelete(s, u, i) == i \in Live(item) /\ Submit(s, u, "delete", item, {}, i)

SubmitReorder(s, u) == Submit(s, u, "reorder", item, {}, None)

(* reorder_items() treats one entry of its payload (bound: an item is listed
   once): an unknown parent, or the item itself, counts as none. *)
Entry(s, i, p) ==
  LET x == ses[s]
      q == IF p = i \/ p \notin Live(x.row) THEN None ELSE p
  IN /\ x.op = "reorder" /\ i \in Live(x.row) \ x.listed
     /\ IF q # None /\ CreatesCycle(x.to, i, q)
        THEN ses' = [ses EXCEPT ![s] = [x EXCEPT !.listed = @ \union {i}, !.skipped = TRUE]]
        ELSE /\ x.next[q] <= MaxPos
             /\ ses' = [ses EXCEPT ![s] = [x EXCEPT !.listed = @ \union {i}, !.next[q] = @ + 1,
                                                    !.to[i].parent = q, !.to[i].pos = x.next[q]]]
     /\ UNCHANGED <<item, by, late>>

-----------------------------------------------------------------------------
(* The unit of work. *)

Inserted(x) == Live(x.to) \ Live(x.row)

Written(x) == x.touched \union {i \in Live(x.row) : x.to[i] # x.row[i]}

(* The scopes row was updated meanwhile, an updated row is no longer there, or
   a foreign key does not hold. *)
Refused(x) ==
  \/ x.signed /\ x.stale
  \/ \E i \in Written(x) : item[i].state # "live"
  \/ \E i \in Live(x.to) :
       /\ x.to[i].parent # x.row[i].parent
       /\ x.to[i].parent \notin Live(item) \union {None}

Merged(x) ==
  [i \in Items |->
     IF i \in Inserted(x) THEN x.to[i]
     ELSE [item[i] EXCEPT !.parent = IF x.to[i].parent # x.row[i].parent THEN x.to[i].parent ELSE @,
                          !.pos = IF x.to[i].pos # x.row[i].pos THEN x.to[i].pos ELSE @]]

Reparents(x) == \E i \in Live(x.row) : x.to[i].parent # x.row[i].parent

(* What the request wrote from a reading that had changed. *)
LateWrites(x) ==
  {w \in {"tree", "order", "clause"} :
     \/ w = "tree" /\ Reparents(x) /\ x.row # item
     \/ w = "order" /\ Inserted(x) # {} /\ x.row # item
     \/ w = "order" /\ x.op = "reorder"
          /\ (x.row # item \/ x.skipped \/ x.listed # Live(x.row))
     \/ w = "clause" /\ Inserted(x) # {} /\ x.row # item}

Commit(s) ==
  LET x == ses[s] IN
  /\ x.op # "idle" /\ ~Refused(x)
  /\ item' = Cut(Merged(x), x.doomed)
  /\ by' = IF x.signed THEN x.user ELSE by
  /\ ses' = [t \in Sessions |->
               IF t = s THEN Idle
               ELSE IF x.signed /\ ses[t].op # "idle" THEN [ses[t] EXCEPT !.stale = TRUE]
               ELSE ses[t]]
  /\ late' = late \union LateWrites(x)

(* Refused by the database, abandoned, or without anything to save. *)
Rollback(s) ==
  /\ ses[s].op # "idle"
  /\ ses' = [ses EXCEPT ![s] = Idle]
  /\ UNCHANGED <<item, by, late>>

Next ==
  \E s \in Sessions :
    \/ \E u \in Users :
         \/ SubmitReorder(s, u)
         \/ \E p \in Items \union {None} : SubmitAdd(s, u, p)
         \/ \E cs \in SUBSET Clauses : SubmitAddClauses(s, u, cs)
         \/ \E i \in Items : SubmitUpdate(s, u, i) \/ SubmitDelete(s, u, i)
    \/ \E i \in Items, p \in Items \union {None} : Entry(s, i, p)
    \/ Commit(s)
    \/ Rollback(s)

Spec == Init /\ [][Next]_vars

-----------------------------------------------------------------------------
(* What the document promises, and which overlap can break it. *)

(* Every item is shown: it hangs, over parents that are there, on the top level
   (reorder_items, _creates_cycle, ON DELETE CASCADE). Only a reorder that
   moves items to other parents on an old reading can break it. *)
AllShown == ParentsLive(item) /\ ("tree" \notin late => Acyclic(item))

(* Siblings have an order: no two share a position, unless a request worked on
   an old reading or a reorder left items out (add_item, add_clauses_to_scope,
   reorder_items). *)
SiblingsOrdered == "order" \notin late => Distinct(item)

(* A clause is on the section once (scope_builder.py add_clauses_to_scope:
   "adding it twice helps nobody"). *)
ClauseOnce == "clause" \notin late => ClausesOnce(item)
=============================================================================
