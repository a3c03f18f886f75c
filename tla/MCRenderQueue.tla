---------------------------- MODULE MCRenderQueue ----------------------------
(* RenderQueue on small instances: three states of a document, of which d3
   differs from d1 in the project's contractor alone, and the symmetry sets of
   the safety runs. *)
EXTENDS RenderQueue, TLC

CONSTANTS d1, d2, d3, k1, k2

MCFingerprint == [d \in Docs |-> IF d = d2 THEN k2 ELSE k1]

(* d1 and d3 render alike and hash alike: exchanging them changes nothing. *)
Symmetry == Permutations(Workers) \union Permutations(Clients) \union Permutations({d1, d3})

(* The oversized document is reached by the edit that makes it so. *)
GrowsLater == edits = 0 => doc # d2

(* A process dies while the document stays as it is and one row is there. *)
DiesApart == crashes > 0 => edits = 0 /\ Cardinality({j \in JobIds : jobs[j] # NoRow}) < 2
=============================================================================
