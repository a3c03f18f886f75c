-------------------------------- MODULE Outline --------------------------------
(***************************************************************************)
(* The outline of one section of a document: its lines, their counters     *)
(* (models/scope.py, services/numbering.py) and their copies               *)
(* (services/scope_builder.py).                                            *)
(*                                                                         *)
(* A line has a position and a `parent`, its place in the sequence or 0.   *)
(* Where positions are equal the database follows the order of insertion,  *)
(* which is that of the sequence; elsewhere the sequence only names lines. *)
(***************************************************************************)
EXTENDS Naturals, Sequences, FiniteSets, SequencesExt

\* The members of DOMAIN before, each after those that are before it.
Listed(before) ==
  [k \in 1..Cardinality(DOMAIN before) |->
     CHOOSE n \in DOMAIN before : Cardinality(before[n]) = k - 1]

InOrder(I) == Listed([n \in I |-> {m \in I : m < n}])

\* The ids of the sequence that are in S; one that is repeated counts where it
\* comes last.
Picked(ids, S) ==
  LET at == InOrder({n \in DOMAIN ids :
                       /\ ids[n] \in S
                       /\ \A m \in DOMAIN ids : ids[m] = ids[n] => m <= n})
  IN [k \in DOMAIN at |-> ids[at[k]]]

-----------------------------------------------------------------------------
(* Counters. *)

Peers(lines, n) == {m \in DOMAIN lines : lines[m].parent = lines[n].parent}

UpTo(lines, n) ==
  {m \in Peers(lines, n) :
     lines[m].pos < lines[n].pos \/ (lines[m].pos = lines[n].pos /\ m <= n)}

Rank(lines, n) == Cardinality(UpTo(lines, n))

\* Mutant: the walk does not hand its prefix down.
CountersFlat(lines) == [n \in DOMAIN lines |-> <<Rank(lines, n)>>]

\* Dotted counters by line: the walk of the tree.
Counters(lines) ==
  LET rank == [n \in DOMAIN lines |-> Rank(lines, n)]
      path[n \in DOMAIN lines] ==
        IF lines[n].parent = 0 THEN <<rank[n]>> ELSE Append(path[lines[n].parent], rank[n])
  IN path

HasTies(lines) ==
  \E n, m \in DOMAIN lines :
    n # m /\ lines[n].parent = lines[m].parent /\ lines[n].pos = lines[m].pos

\* A line and all those below it.
Branch(lines, n) ==
  LET counters == Counters(lines)
  IN {m \in DOMAIN lines : IsPrefix(counters[n], counters[m])}

-----------------------------------------------------------------------------
(* Copies. *)

\* The first place where they differ decides; a line is ahead of those below it.
Ahead(p, q) ==
  \E k \in DOMAIN q :
    /\ k <= Len(p) + 1 /\ \A j \in 1..(k - 1) : p[j] = q[j]
    /\ k <= Len(p) => p[k] < q[k]

\* Places in the order of the page.
PageOrder(lines) ==
  LET counters == Counters(lines)
  IN Listed([n \in DOMAIN lines |->
               {m \in DOMAIN lines : Ahead(counters[m], counters[n])}])

Place(order, p) == CHOOSE n \in DOMAIN order : order[n] = p

\* The lines at these places in this order, each below its own parent.
Arranged(lines, order) ==
  [n \in DOMAIN order |->
     [lines[order[n]] EXCEPT !.parent = IF @ = 0 THEN 0 ELSE Place(order, @)]]

\* Mutant: children are copied as items of their own.
CopyItemsFlat(lines) == [n \in DOMAIN lines |-> [lines[PageOrder(lines)[n]] EXCEPT !.parent = 0]]

\* A parent is copied before its children.
CopyItems(lines) == Arranged(lines, PageOrder(lines))

\* The line and those below it go.
Without(lines, n) == Arranged(lines, InOrder(DOMAIN lines \ Branch(lines, n)))

Append2(lines, more) ==
  lines \o [n \in DOMAIN more |->
              [more[n] EXCEPT !.parent = IF @ = 0 THEN 0 ELSE @ + Len(lines)]]
=============================================================================
