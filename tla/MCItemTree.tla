------------------------------ MODULE MCItemTree ------------------------------
(* ItemTree on small instances; the sets are interchangeable. *)
EXTENDS ItemTree, TLC

Symmetry ==
  Permutations(Items) \union Permutations(Sessions) \union Permutations(Users)
    \union Permutations(Clauses)

(* Bounds: nothing happens after a late write, and a request overlaps another
   only if it has read at most two items and no deleted one. *)
Bounded ==
  /\ late = {}
  /\ \A s, t \in Sessions :
       s # t /\ ses[s].op # "idle" /\ ses[t].op # "idle" =>
         /\ Cardinality(Live(ses[s].row)) <= 2
         /\ \A i \in Items : ses[s].row[i].state # "gone"

(* The entries of a payload change the request's own copy only, so they may
   as well be handled before anybody else commits. *)
EntriesFirst ==
  \A s \in Sessions : ses'[s].op = "reorder" /\ ses'[s].listed # ses[s].listed => ses[s].row = item
=============================================================================
