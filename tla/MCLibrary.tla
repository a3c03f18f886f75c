------------------------------- MODULE MCLibrary -------------------------------
(* The library on small instances: the second release corrects the clause of
   the first and adds a section. *)
EXTENDS Library, TLC

CONSTANTS c, f, r1, r2, t1, t2

Ships ==
  (r1 :> (c :> t1 @@ f :> None)) @@ (r2 :> (c :> t2 @@ f :> t1))

Shares == {"copy", "hide", "restore", "seed"}

Owns == {"edit", "activate", "delete"}

(* Bound: a form writes text t1 and creates an active clause; a seed without
   updates comes from the newer release.  A request about the shipped rows and
   their suppressions overlaps its like, one about a clause of one's own
   overlaps its like, and the rest nothing. *)
Bounded ==
  \A s \in Sessions :
    /\ ses[s].op \in {"create", "copy", "edit"} => ses[s].to.text = t1
    /\ ses[s].op = "create" => ses[s].to.active
    /\ ses[s].op = "seed" /\ ~ses[s].update => ses[s].of = r2
    /\ \A t \in Sessions \ {s} :
         \/ "idle" \in {ses[s].op, ses[t].op}
         \/ {ses[s].op, ses[t].op} \subseteq Shares
         \/ {ses[s].op, ses[t].op} \subseteq Owns /\ row[ses[s].id].kind = "clause"

Symmetry == Permutations(Orgs) \union Permutations(Sessions) \union Permutations(Rows)
=============================================================================
