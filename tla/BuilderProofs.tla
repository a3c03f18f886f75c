----------------------------- MODULE BuilderProofs -----------------------------
(***************************************************************************)
(* Theorems about what the builder makes and the editor changes: the items *)
(* of a section under requests that overlap (ItemTree), and the documents  *)
(* from their generation to the coverage report (Exhibits), for any number *)
(* of items, lines, documents, clauses, sections and requests, and without *)
(* the bounds of the runs.                                                 *)
(***************************************************************************)
EXTENDS ItemTree, Exhibits, FiniteSetTheorems, FunctionTheorems, SequenceTheorems,
        WellFoundedInduction, TLAPS

-----------------------------------------------------------------------------
(* The item tree.  The invariant says what each request holds in hand: the
   copy of a reorder has no cycle and distinct positions among the items it
   has seen (Reordering), an insert adds nothing but rows nobody else knows
   (Inserting, NobodyElses), and the others only what they have read. *)

(* Rows that are not live hang on nothing. *)
Bare(f) == \A i \in Items \ Live(f) : f[i].parent = None

Forest(f) == Bare(f) /\ ParentsLive(f)

Reordering(x) ==
  /\ x.doomed = None /\ x.touched = {} /\ x.listed \subseteq Live(x.row)
  /\ \A i \in Items : x.to[i].state = x.row[i].state /\ x.to[i].clause = x.row[i].clause
  /\ \A i \in Items \ Live(x.row) : x.to[i] = x.row[i]
  /\ Acyclic(x.row) => Acyclic(x.to)
  /\ ~x.skipped =>
       /\ \A i \in x.listed : x.to[i].pos < x.next[x.to[i].parent]
       /\ \A i, j \in x.listed :
            x.to[i].parent = x.to[j].parent /\ x.to[i].pos = x.to[j].pos => i = j

Inserting(x) ==
  /\ x.doomed = None /\ x.touched = {}
  /\ \A i \in Items \ Inserted(x) : x.to[i] = x.row[i]
  /\ \A i \in Inserted(x) : x.row[i].state = "never"
  /\ Distinct(x.row) => Distinct(x.to)
  /\ ClausesOnce(x.row) => ClausesOnce(x.to)

InHand(x) ==
  /\ Forest(x.row)
  /\ x.op # "idle" => x.user \in Users
  /\ x.op \in {"idle", "update", "delete"} => x.to = x.row
  /\ x.op = "reorder" => Reordering(x)
  /\ x.op = "insert" => Inserting(x)

(* A row about to be inserted is in no other copy and not in the table. *)
NobodyElses ==
  \A s, t \in Sessions : \A i \in Inserted(ses[s]) :
    item[i].state = "never" /\ (s # t => ses[t].to[i].state = "never")

IInv ==
  /\ TypeOK
  /\ Forest(item)
  /\ \A s \in Sessions : InHand(ses[s])
  /\ NobodyElses
  /\ "tree" \notin late => Acyclic(item)
  /\ "order" \notin late => Distinct(item)
  /\ "clause" \notin late => ClausesOnce(item)

-----------------------------------------------------------------------------
(* Forests. *)

LEMMA NoneIsNoItem == None \notin Items /\ None \notin Clauses /\ MaxPos \in Nat
BY ItemTreeAssumption

(* An item hung on q closes no cycle if the walk from q does not meet it: a
   closed set of parents would hold a smaller one without the item. *)
LEMMA HangingKeepsAcyclic ==
  ASSUME NEW f \in [Items -> Row], Acyclic(f), NEW g \in [Items -> Row], NEW i \in Items,
         NEW q \in Items \union {None},
         g[i].parent = q, \A k \in Items \ {i} : g[k].parent = f[k].parent,
         q # None => ~CreatesCycle(f, i, q)
  PROVE  Acyclic(g)
<1> SUFFICES ASSUME NEW C \in SUBSET Items, C # {}, \A k \in C : g[k].parent \in C
             PROVE  FALSE
  BY DEF Acyclic
<1>1. i \in C
  BY DEF Acyclic
<1>2. q \in C /\ q # None
  BY <1>1, NoneIsNoItem
<1>3. i \notin Up(f, q)
  BY <1>2 DEF CreatesCycle
<1> DEFINE D == Up(f, q) \cap C
<1>4. q \in D
  BY <1>2 DEF Up
<1>5. ASSUME NEW k \in D
      PROVE  f[k].parent \in D
  <2>1. f[k].parent \in C
    BY <1>3
  <2>2. f[k].parent \in Up(f, q)
    BY <2>1, NoneIsNoItem DEF Up
  <2> QED BY <2>1, <2>2
<1> QED BY <1>4, <1>5 DEF Acyclic, Up

LEMMA CutTyped ==
  ASSUME NEW f \in [Items -> Row], NEW d \in Items \union {None}
  PROVE  /\ Cut(f, d) \in [Items -> Row]
         /\ \A i \in Items : Cut(f, d)[i] = f[i] \/ Cut(f, d)[i] = Gone
         /\ Live(Cut(f, d)) \subseteq Live(f)
         /\ \A i \in Live(Cut(f, d)) : Cut(f, d)[i] = f[i]
         /\ \A i \in Items : f[i].state = "never" => Cut(f, d)[i] = f[i]
<1>1. Gone \in Row /\ Gone.state # "live"
  BY DEF Gone, NoRow, Row
<1> QED BY <1>1 DEF Cut, Live, Row

(* What is left after a subtree is cut off is a forest again. *)
LEMMA CutKeepsForest ==
  ASSUME NEW f \in [Items -> Row], NEW d \in Items \union {None}, Forest(f)
  PROVE  /\ Forest(Cut(f, d))
         /\ Acyclic(f) => Acyclic(Cut(f, d))
         /\ Distinct(f) => Distinct(Cut(f, d))
         /\ ClausesOnce(f) => ClausesOnce(Cut(f, d))
<1> DEFINE g == Cut(f, d)
<1>1. Gone.parent = None
  BY DEF Gone, NoRow
<1>2. Bare(g)
  BY CutTyped, <1>1 DEF Forest, Bare, Live
<1>3. ASSUME NEW j \in Live(g)
      PROVE  g[j].parent \in Live(g) \union {None}
  <2>1. j \in Live(f) /\ g[j] = f[j]
    BY <1>3, CutTyped
  <2> SUFFICES ASSUME f[j].parent # None PROVE f[j].parent \in Live(g)
    BY <2>1
  <2>2. f[j].parent \in Live(f)
    BY <2>1 DEF Forest, ParentsLive
  <2>3. d = None \/ j \notin Subtree(f, d)
    BY <1>3, <2>1 DEF Cut, Live, Gone, NoRow
  <2>4. d = None \/ f[j].parent \notin Subtree(f, d)
    BY <2>1, <2>2, <2>3 DEF Subtree, Live
  <2> QED BY <2>2, <2>4 DEF Cut, Live
<1>4. Acyclic(f) => Acyclic(g)
  <2> SUFFICES ASSUME Acyclic(f), NEW C \in SUBSET Items, C # {}
               PROVE  \E k \in C : g[k].parent \notin C
    BY DEF Acyclic
  <2>1. PICK k \in C : f[k].parent \notin C
    BY DEF Acyclic
  <2>2. g[k] = f[k] \/ g[k] = Gone
    BY CutTyped
  <2> QED BY <1>1, <2>1, <2>2, NoneIsNoItem
<1>5. Distinct(f) => Distinct(g)
  BY CutTyped DEF Distinct
<1>6. ClausesOnce(f) => ClausesOnce(g)
  BY CutTyped DEF ClausesOnce
<1> QED BY <1>2, <1>3, <1>4, <1>5, <1>6 DEF Forest, ParentsLive

-----------------------------------------------------------------------------
(* What the unit of work writes. *)

LEMMA MergedTyped ==
  ASSUME item \in [Items -> Row], NEW x \in Session
  PROVE  /\ Merged(x) \in [Items -> Row]
         /\ \A i \in Inserted(x) : Merged(x)[i] = x.to[i]
         /\ \A i \in Items \ Inserted(x) :
              /\ Merged(x)[i].state = item[i].state
              /\ Merged(x)[i].clause = item[i].clause
              /\ Merged(x)[i].parent = IF x.to[i].parent # x.row[i].parent
                                       THEN x.to[i].parent ELSE item[i].parent
              /\ Merged(x)[i].pos = IF x.to[i].pos # x.row[i].pos
                                    THEN x.to[i].pos ELSE item[i].pos
              /\ x.to[i] = x.row[i] => Merged(x)[i] = item[i]
<1>1. x.to \in [Items -> Row] /\ x.row \in [Items -> Row]
  BY DEF Session
<1>2. ASSUME NEW i \in Items
      PROVE  x.to[i] \in Row /\ x.row[i] \in Row /\ item[i] \in Row
  BY <1>1
<1>3. \A i \in Inserted(x) : Merged(x)[i] = x.to[i] /\ i \in Items
  BY DEF Merged, Inserted, Live
<1>4. ASSUME NEW i \in Items \ Inserted(x)
      PROVE  /\ Merged(x)[i] \in Row
             /\ Merged(x)[i].state = item[i].state
             /\ Merged(x)[i].clause = item[i].clause
             /\ Merged(x)[i].parent = IF x.to[i].parent # x.row[i].parent
                                      THEN x.to[i].parent ELSE item[i].parent
             /\ Merged(x)[i].pos = IF x.to[i].pos # x.row[i].pos
                                   THEN x.to[i].pos ELSE item[i].pos
             /\ x.to[i] = x.row[i] => Merged(x)[i] = item[i]
  <2> DEFINE parent == IF x.to[i].parent # x.row[i].parent THEN x.to[i].parent ELSE item[i].parent
             pos == IF x.to[i].pos # x.row[i].pos THEN x.to[i].pos ELSE item[i].pos
  <2>1. Merged(x)[i] = [item[i] EXCEPT !.parent = parent, !.pos = pos]
    BY DEF Merged
  <2>2. parent \in Items \union {None} /\ pos \in Nat
    BY <1>2 DEF Row
  <2>3. x.to[i] = x.row[i] => parent = item[i].parent /\ pos = item[i].pos
    OBVIOUS
  <2> HIDE DEF parent, pos
  <2>4. /\ [item[i] EXCEPT !.parent = parent, !.pos = pos] \in Row
        /\ [item[i] EXCEPT !.parent = parent, !.pos = pos].state = item[i].state
        /\ [item[i] EXCEPT !.parent = parent, !.pos = pos].clause = item[i].clause
        /\ [item[i] EXCEPT !.parent = parent, !.pos = pos].parent = parent
        /\ [item[i] EXCEPT !.parent = parent, !.pos = pos].pos = pos
        /\ parent = item[i].parent /\ pos = item[i].pos =>
             [item[i] EXCEPT !.parent = parent, !.pos = pos] = item[i]
    BY <1>2, <2>2 DEF Row
  <2> QED BY <2>1, <2>3, <2>4 DEF parent, pos
<1>5. Merged(x) = [i \in Items |-> Merged(x)[i]]
  BY DEF Merged
<1>6. \A i \in Items : Merged(x)[i] \in Row
  BY <1>2, <1>3, <1>4
<1>7. Merged(x) \in [Items -> Row]
  BY <1>5, <1>6
<1> QED BY <1>3, <1>4, <1>7

(* Only what was read as live, and what is inserted, differs in the copy. *)
LEMMA CopyDiffers ==
  ASSUME NEW x \in Session, InHand(x), x.op # "idle"
  PROVE  /\ \A i \in Items \ Inserted(x) :
              x.to[i].state = x.row[i].state /\ (x.to[i] # x.row[i] => i \in Live(x.row))
         /\ \A i \in Inserted(x) : x.row[i].state = "never" /\ x.row[i].parent = None
         /\ x.op # "insert" => Inserted(x) = {}
         /\ Inserted(x) \subseteq Items /\ Live(x.to) \subseteq Items
<1>1. x.op \in {"reorder", "insert", "update", "delete"}
  BY DEF Session
<1>2. CASE x.op = "reorder"
  BY <1>2 DEF InHand, Reordering, Inserted, Live
<1>3. CASE x.op = "insert"
  BY <1>3 DEF InHand, Inserting, Inserted, Live, Forest, Bare
<1>4. CASE x.op \in {"update", "delete"}
  BY <1>4 DEF InHand, Inserted, Live
<1> QED BY <1>1, <1>2, <1>3, <1>4

(* An accepted request leaves a forest. *)
LEMMA MergedForest ==
  ASSUME IInv, NEW s \in Sessions, ses[s].op # "idle", ~Refused(ses[s])
  PROVE  Forest(Merged(ses[s])) /\ Live(item) \subseteq Live(Merged(ses[s]))
<1> DEFINE x == ses[s]
           g == Merged(x)
<1>1. x \in Session /\ InHand(x) /\ item \in [Items -> Row]
  BY DEF IInv, TypeOK
<1>2. Live(item) \subseteq Live(g)
  <2> SUFFICES ASSUME NEW i \in Live(item) PROVE i \in Live(g)
    OBVIOUS
  <2>1. CASE i \in Inserted(x)
    BY <1>1, <2>1, MergedTyped DEF Live, Inserted
  <2>2. CASE i \notin Inserted(x)
    BY <1>1, <2>2, MergedTyped DEF Live
  <2> QED BY <2>1, <2>2
<1>3. ASSUME NEW i \in Items
      PROVE  g[i].parent \in Live(item) \union {None} /\ (i \notin Live(g) => g[i].parent = None)
  <2>1. CASE i \in Inserted(x)
    <3>1. g[i] = x.to[i] /\ i \in Live(x.to) /\ x.row[i].parent = None
      BY <1>1, <2>1, MergedTyped, CopyDiffers DEF Inserted
    <3>2. i \in Live(g)
      BY <3>1 DEF Live
    <3> QED BY <3>1, <3>2 DEF Refused
  <2>2. CASE i \notin Inserted(x) /\ x.to[i].parent # x.row[i].parent
    <3>1. i \in Live(x.row) /\ i \in Live(x.to) /\ i \in Written(x)
      BY <1>1, <2>2, CopyDiffers DEF Live, Written
    <3>2. item[i].state = "live" /\ x.to[i].parent \in Live(item) \union {None}
      BY <3>1, <2>2 DEF Refused
    <3> QED BY <1>1, <2>2, <3>2, MergedTyped DEF Live
  <2>3. CASE i \notin Inserted(x) /\ x.to[i].parent = x.row[i].parent
    <3>1. g[i].parent = item[i].parent /\ g[i].state = item[i].state
      BY <1>1, <2>3, MergedTyped
    <3> QED BY <3>1 DEF IInv, Forest, Bare, ParentsLive, Live
  <2> QED BY <2>1, <2>2, <2>3
<1> QED BY <1>2, <1>3 DEF Forest, Bare, ParentsLive, Live

(* It closes no cycle unless it moves items on an old reading. *)
LEMMA MergedAcyclic ==
  ASSUME IInv, NEW s \in Sessions, ses[s].op # "idle", ~Refused(ses[s]), Acyclic(item),
         ~(Reparents(ses[s]) /\ ses[s].row # item)
  PROVE  Acyclic(Merged(ses[s]))
<1> DEFINE x == ses[s]
           g == Merged(x)
<1>1. x \in Session /\ InHand(x) /\ item \in [Items -> Row]
  BY DEF IInv, TypeOK
<1>2. CASE x.op = "reorder" /\ x.row = item
  <2>1. Inserted(x) = {} /\ Acyclic(x.to)
    BY <1>1, <1>2, CopyDiffers DEF InHand, Reordering
  <2>2. \A i \in Items : g[i].parent = x.to[i].parent
    BY <1>1, <1>2, <2>1, MergedTyped
  <2> QED BY <2>1, <2>2 DEF Acyclic
<1>3. CASE x.op # "reorder" \/ ~Reparents(x)
  <2>1. \A i \in Items \ Inserted(x) : g[i].parent = item[i].parent
    <3> SUFFICES ASSUME NEW i \in Items \ Inserted(x), x.to[i].parent # x.row[i].parent
                 PROVE  FALSE
      BY <1>1, MergedTyped
    <3>1. i \in Live(x.row)
      BY <1>1, CopyDiffers
    <3> QED BY <1>1, <1>3, <3>1 DEF Reparents, InHand, Inserting, Session
  <2>2. \A i \in Inserted(x) :
          g[i].parent \in Live(item) \union {None} /\ item[i].state = "never"
    <3> SUFFICES ASSUME NEW i \in Inserted(x)
                 PROVE  g[i].parent \in Live(item) \union {None} /\ item[i].state = "never"
      OBVIOUS
    <3>1. g[i] = x.to[i] /\ i \in Live(x.to) /\ x.row[i].parent = None
      BY <1>1, MergedTyped, CopyDiffers DEF Inserted
    <3>2. item[i].state = "never"
      BY DEF IInv, NobodyElses
    <3> QED BY <3>1, <3>2 DEF Refused
  <2> SUFFICES ASSUME NEW C \in SUBSET Items, C # {}, \A k \in C : g[k].parent \in C
               PROVE  FALSE
    BY DEF Acyclic
  <2> DEFINE D == C \ Inserted(x)
  <2>3. Live(item) \cap Inserted(x) = {}
    BY <2>2 DEF Live
  <2>4. \A k \in C : g[k].parent \in Live(item)
    <3> SUFFICES ASSUME NEW k \in C PROVE g[k].parent \in Live(item)
      OBVIOUS
    <3>1. g[k].parent # None
      BY NoneIsNoItem
    <3>2. CASE k \in Inserted(x)
      BY <3>1, <3>2, <2>2
    <3>3. CASE k \notin Inserted(x)
      BY <3>1, <3>3, <2>1 DEF IInv, Forest, Bare, ParentsLive
    <3> QED BY <3>2, <3>3
  <2>5. D # {} /\ D \in SUBSET Items
    BY <2>3, <2>4
  <2>6. \A k \in D : item[k].parent \in D
    BY <2>1, <2>3, <2>4
  <2> QED BY <2>5, <2>6 DEF Acyclic
<1> QED BY <1>2, <1>3

(* Its items have distinct positions unless it counted on an old reading or
   left items out. *)
LEMMA MergedDistinct ==
  ASSUME IInv, NEW s \in Sessions, ses[s].op # "idle", "order" \notin LateWrites(ses[s]),
         Distinct(item)
  PROVE  Distinct(Merged(ses[s]))
<1> DEFINE x == ses[s]
           g == Merged(x)
<1>1. x \in Session /\ InHand(x) /\ item \in [Items -> Row]
  BY DEF IInv, TypeOK
<1>2. x.op \in {"reorder", "insert", "update", "delete"}
  BY <1>1 DEF Session
<1>3. CASE x.op = "reorder"
  <2>1. x.row = item /\ ~x.skipped /\ x.listed = Live(x.row)
    BY <1>3 DEF LateWrites
  <2>2. Reordering(x) /\ Inserted(x) = {}
    BY <1>1, <1>3, CopyDiffers DEF InHand
  <2>3. \A i \in Items : g[i].parent = x.to[i].parent /\ g[i].pos = x.to[i].pos
                         /\ g[i].state = item[i].state
    BY <1>1, <2>1, <2>2, MergedTyped
  <2> QED BY <2>1, <2>2, <2>3 DEF Distinct, Reordering, Live
<1>4. CASE x.op = "insert" /\ Inserted(x) # {}
  <2>1. x.row = item
    BY <1>4 DEF LateWrites
  <2>2. Inserting(x)
    BY <1>1, <1>4 DEF InHand
  <2>3. \A i \in Items : g[i] = x.to[i]
    BY <1>1, <2>1, <2>2, MergedTyped DEF Inserting
  <2>4. Distinct(x.to)
    BY <2>1, <2>2 DEF Inserting
  <2> QED BY <2>3, <2>4 DEF Distinct, Live
<1>5. CASE x.op \in {"insert", "update", "delete"} /\ Inserted(x) = {}
  <2>1. \A i \in Items : x.to[i] = x.row[i]
    BY <1>1, <1>5 DEF InHand, Inserting
  <2>2. \A i \in Items : g[i] = item[i]
    BY <1>1, <1>5, <2>1, MergedTyped
  <2> QED BY <2>2 DEF Distinct, Live
<1>6. x.op # "insert" => Inserted(x) = {}
  BY <1>1, CopyDiffers
<1> QED BY <1>2, <1>3, <1>4, <1>5, <1>6

(* It adds no clause twice unless it looked for them on an old reading. *)
LEMMA MergedClauses ==
  ASSUME IInv, NEW s \in Sessions, ses[s].op # "idle", "clause" \notin LateWrites(ses[s]),
         ClausesOnce(item)
  PROVE  ClausesOnce(Merged(ses[s]))
<1> DEFINE x == ses[s]
           g == Merged(x)
<1>1. x \in Session /\ InHand(x) /\ item \in [Items -> Row]
  BY DEF IInv, TypeOK
<1>2. CASE Inserted(x) # {}
  <2>1. x.row = item /\ x.op = "insert"
    BY <1>1, <1>2, CopyDiffers DEF LateWrites
  <2>2. Inserting(x)
    BY <1>1, <2>1 DEF InHand
  <2>3. \A i \in Items : g[i] = x.to[i]
    BY <1>1, <2>1, <2>2, MergedTyped DEF Inserting
  <2>4. ClausesOnce(x.to)
    BY <2>1, <2>2 DEF Inserting
  <2> QED BY <2>3, <2>4 DEF ClausesOnce, Live
<1>3. CASE Inserted(x) = {}
  <2>1. \A i \in Items : g[i].clause = item[i].clause /\ g[i].state = item[i].state
    BY <1>1, <1>3, MergedTyped
  <2> QED BY <2>1 DEF ClausesOnce, Live
<1> QED BY <1>2, <1>3
-----------------------------------------------------------------------------
(* The steps. *)

LEMMA IdleTyped ==
  /\ NoRow \in Row /\ NoItems \in [Items -> Row] /\ Idle \in Session
  /\ Idle.row = NoItems /\ Idle.to = NoItems /\ Idle.op = "idle"
  /\ Live(NoItems) = {} /\ Forest(NoItems) /\ Acyclic(NoItems)
  /\ InHand(Idle) /\ Inserted(Idle) = {}
<1>1. NoRow \in Row /\ NoItems \in [Items -> Row] /\ NoRow.state = "never" /\ NoRow.parent = None
  BY DEF NoRow, Row, NoItems
<1>2. Idle \in Session /\ Idle.row = NoItems /\ Idle.to = NoItems /\ Idle.op = "idle"
  BY <1>1 DEF Idle, Session
<1>3. Live(NoItems) = {} /\ \A i \in Items : NoItems[i] = NoRow
  BY <1>1 DEF Live, NoItems
<1>4. Forest(NoItems) /\ Acyclic(NoItems)
  BY <1>1, <1>3, NoneIsNoItem DEF Forest, Bare, ParentsLive, Acyclic
<1>5. InHand(Idle) /\ Inserted(Idle) = {}
  BY <1>2, <1>3, <1>4 DEF InHand, Inserted
<1> QED BY <1>1, <1>2, <1>3, <1>4, <1>5

(* What Submit puts in place. *)
LEMMA SubmitTyped ==
  ASSUME TypeOK, NEW s \in Sessions, NEW u \in Users,
         NEW op \in {"reorder", "insert", "update", "delete"},
         NEW to \in [Items -> Row], NEW touched \in SUBSET Items,
         NEW doomed \in Items \union {None},
         Submit(s, u, op, to, touched, doomed)
  PROVE  /\ ses' \in [Sessions -> Session]
         /\ ses'[s].op = op /\ ses'[s].user = u /\ ses'[s].row = item /\ ses'[s].to = to
         /\ ses'[s].touched = touched /\ ses'[s].doomed = doomed
         /\ ses'[s].listed = {} /\ ses'[s].skipped = FALSE
         /\ \A t \in Sessions \ {s} : ses'[t] = ses[t]
         /\ ses[s] = Idle /\ UNCHANGED <<item, by, late>>
<1> DEFINE y == [Idle EXCEPT !.op = op, !.user = u, !.signed = (u # by), !.row = item, !.to = to,
                             !.touched = touched, !.doomed = doomed]
<1>1. ses' = [ses EXCEPT ![s] = y] /\ ses[s] = Idle /\ UNCHANGED <<item, by, late>>
  BY DEF Submit
<1>2. /\ y \in Session /\ y.op = op /\ y.user = u /\ y.row = item /\ y.to = to
      /\ y.touched = touched /\ y.doomed = doomed /\ y.listed = {} /\ y.skipped = FALSE
  BY DEF TypeOK, Idle, Session
<1> HIDE DEF y
<1>3. ses \in [Sessions -> Session]
  BY DEF TypeOK
<1>4. ses' \in [Sessions -> Session] /\ ses'[s] = y
      /\ \A t \in Sessions \ {s} : ses'[t] = ses[t]
  BY <1>1, <1>2, <1>3
<1> QED BY <1>1, <1>2, <1>4

(* A request that submits no row of another one keeps the invariant. *)
LEMMA SubmitKeeps ==
  ASSUME IInv, NEW s \in Sessions, NEW u \in Users,
         NEW op \in {"reorder", "insert", "update", "delete"},
         NEW to \in [Items -> Row], NEW touched \in SUBSET Items,
         NEW doomed \in Items \union {None},
         Submit(s, u, op, to, touched, doomed),
         op # "insert" => to = item,
         op \in {"reorder", "insert"} => doomed = None /\ touched = {},
         \A i \in Items : to[i] = item[i] \/ (i \in Fresh /\ to[i].state = "live"),
         Distinct(item) => Distinct(to), ClausesOnce(item) => ClausesOnce(to)
  PROVE  IInv'
<1>1. TypeOK
  BY DEF IInv
<1>2. /\ ses' \in [Sessions -> Session]
      /\ ses'[s].op = op /\ ses'[s].user = u /\ ses'[s].row = item /\ ses'[s].to = to
      /\ ses'[s].touched = touched /\ ses'[s].doomed = doomed
      /\ ses'[s].listed = {} /\ ses'[s].skipped = FALSE
      /\ \A t \in Sessions \ {s} : ses'[t] = ses[t]
      /\ ses[s] = Idle /\ UNCHANGED <<item, by, late>>
  BY <1>1, SubmitTyped
<1>3. TypeOK'
  BY <1>1, <1>2 DEF TypeOK
<1>4. \A i \in Inserted(ses'[s]) : i \in Fresh /\ i \in Items /\ item[i].state = "never"
  BY <1>2 DEF Inserted, Live, Fresh
<1>5. InHand(ses'[s])
  <2>1. Forest(item)
    BY DEF IInv
  <2>2. CASE op = "reorder"
    BY <1>2, <2>1, <2>2 DEF InHand, Reordering
  <2>3. CASE op = "insert"
    <3>1. \A i \in Items \ Inserted(ses'[s]) : to[i] = item[i]
      BY <1>2 DEF Inserted, Live, Fresh
    <3> QED BY <1>2, <1>4, <2>1, <2>3, <3>1 DEF InHand, Inserting
  <2>4. CASE op \in {"update", "delete"}
    BY <1>2, <2>1, <2>4 DEF InHand
  <2> QED BY <2>2, <2>3, <2>4
<1>6. \A t \in Sessions : InHand(ses'[t])
  BY <1>2, <1>5 DEF IInv
<1>7. NobodyElses'
  <2> SUFFICES ASSUME NEW r \in Sessions, NEW t \in Sessions, NEW i \in Inserted(ses'[r])
               PROVE  item[i].state = "never" /\ (r # t => ses'[t].to[i].state = "never")
    BY <1>2 DEF NobodyElses
  <2>1. i \in Items
    BY DEF Inserted, Live
  <2>2. CASE r = s
    BY <1>2, <1>4, <2>2 DEF Fresh
  <2>3. CASE r # s
    <3>1. i \in Inserted(ses[r]) /\ ses[r].to[i].state = "live"
      BY <1>2, <2>3 DEF Inserted, Live
    <3>2. item[i].state = "never" /\ (r # t => ses[t].to[i].state = "never")
      BY <3>1 DEF IInv, NobodyElses
    <3>3. i \notin Fresh
      BY <3>1 DEF Fresh
    <3> QED BY <1>2, <2>1, <3>2, <3>3
  <2> QED BY <2>2, <2>3
<1> QED BY <1>2, <1>3, <1>6, <1>7 DEF IInv

LEMMA AddKeeps ==
  ASSUME IInv, NEW s \in Sessions, NEW u \in Users, NEW p \in Items \union {None},
         SubmitAdd(s, u, p)
  PROVE  IInv'
<1>1. PICK i \in Fresh, pos \in 0..MaxPos :
        /\ After(item, Siblings(item, p), pos)
        /\ Submit(s, u, "insert",
                  [item EXCEPT ![i] = [state |-> "live", parent |-> p, pos |-> pos, clause |-> None]],
                  {}, None)
  BY DEF SubmitAdd
<1> DEFINE r == [state |-> "live", parent |-> p, pos |-> pos, clause |-> None]
           to == [item EXCEPT ![i] = r]
<1>2. item \in [Items -> Row] /\ i \in Items /\ pos \in Nat /\ item[i].state = "never"
  BY NoneIsNoItem DEF IInv, TypeOK, Fresh
<1>3. r \in Row /\ r.state = "live" /\ r.parent = p /\ r.pos = pos /\ r.clause = None
  BY <1>2 DEF Row
<1> HIDE DEF r
<1>4. to \in [Items -> Row] /\ to[i] = r /\ \A j \in Items \ {i} : to[j] = item[j]
  BY <1>2, <1>3
<1> HIDE DEF to
<1>5. \A j \in Live(to) : j = i \/ (j \in Live(item) /\ to[j] = item[j])
  BY <1>2, <1>4 DEF Live
<1>6. \A j \in Live(item) : item[j].parent = p => item[j].pos < pos
  BY <1>1 DEF After, Siblings
<1>7. Distinct(item) => Distinct(to)
  <2> SUFFICES ASSUME Distinct(item), NEW j \in Live(to), NEW k \in Live(to),
                      to[j].parent = to[k].parent, to[j].pos = to[k].pos
               PROVE  j = k
    BY DEF Distinct
  <2>1. \A l \in Live(item) : item[l].parent = p => item[l].pos # pos
    BY <1>2, <1>6 DEF Row, Live
  <2> QED BY <1>3, <1>4, <1>5, <2>1 DEF Distinct
<1>8. ClausesOnce(item) => ClausesOnce(to)
  BY <1>3, <1>4, <1>5 DEF ClausesOnce
<1>9. \A j \in Items : to[j] = item[j] \/ (j \in Fresh /\ to[j].state = "live")
  BY <1>3, <1>4
<1>10. Submit(s, u, "insert", to, {}, None)
  BY <1>1 DEF to, r
<1> QED BY <1>4, <1>7, <1>8, <1>9, <1>10, SubmitKeeps

LEMMA AddClausesKeeps ==
  ASSUME IInv, NEW s \in Sessions, NEW u \in Users, NEW cs \in SUBSET Clauses,
         SubmitAddClauses(s, u, cs)
  PROVE  IInv'
<1> DEFINE new == Missing(cs)
           To(at, nth, start) ==
             [i \in Items |->
                IF \E c \in new : at[c] = i
                THEN LET c == CHOOSE c \in new : at[c] = i
                     IN [state |-> "live", parent |-> None, pos |-> start + nth[c], clause |-> c]
                ELSE item[i]]
<1>1. PICK start \in 0..MaxPos, at \in [new -> Fresh], nth \in [new -> 0..MaxPos] :
        /\ Start(start)
        /\ \A c, d \in new : c # d => at[c] # at[d] /\ nth[c] # nth[d]
        /\ Submit(s, u, "insert", To(at, nth, start), {}, None)
  BY Zenon DEF SubmitAddClauses
<1> DEFINE to == To(at, nth, start)
           Of(i) == CHOOSE c \in new : at[c] = i
           clauseRow(c) == [state |-> "live", parent |-> None, pos |-> start + nth[c], clause |-> c]
<1>2. item \in [Items -> Row] /\ Fresh \subseteq Items /\ new \subseteq Clauses /\ start \in Nat
      /\ \A c \in new : nth[c] \in Nat /\ at[c] \in Fresh /\ at[c] \in Items
  BY NoneIsNoItem DEF IInv, TypeOK, Fresh, Missing
<1>3. ASSUME NEW i \in Items
      PROVE  \/ to[i] = item[i] /\ ~\E c \in new : at[c] = i
             \/ Of(i) \in new /\ at[Of(i)] = i /\ to[i] = clauseRow(Of(i))
  OBVIOUS
<1>4. ASSUME NEW c \in new
      PROVE  /\ clauseRow(c) \in Row /\ clauseRow(c).state = "live" /\ clauseRow(c).parent = None
             /\ clauseRow(c).pos = start + nth[c] /\ clauseRow(c).clause = c
  BY <1>2 DEF Row
<1> HIDE DEF clauseRow
<1>5. to \in [Items -> Row]
  BY <1>2, <1>3, <1>4
<1> HIDE DEF to, Of, To
<1>6. \A i \in Items : to[i] = item[i] \/ (i \in Fresh /\ to[i].state = "live")
  BY <1>2, <1>3, <1>4
<1>7. \A i \in Live(to) :
        \/ i \in Live(item) /\ to[i] = item[i]
        \/ \E c \in new : at[c] = i /\ to[i] = clauseRow(c)
  BY <1>3 DEF Live
<1>8. \A i \in Live(item) : item[i].pos < start /\ item[i].pos \in Nat
  BY <1>1, <1>2 DEF Start, After, Live, Row
<1>9. Distinct(item) => Distinct(to)
  <2> SUFFICES ASSUME Distinct(item), NEW j \in Live(to), NEW k \in Live(to),
                      to[j].parent = to[k].parent, to[j].pos = to[k].pos
               PROVE  j = k
    BY DEF Distinct
  <2>1. CASE j \in Live(item) /\ to[j] = item[j] /\ k \in Live(item) /\ to[k] = item[k]
    BY <2>1 DEF Distinct
  <2>2. ASSUME NEW c \in new, at[c] = k, to[k] = clauseRow(c)
        PROVE  j = k
    <3>1. to[k].pos = start + nth[c] /\ nth[c] \in Nat
      BY <1>2, <1>4, <2>2
    <3>2. ~(j \in Live(item) /\ to[j] = item[j])
      BY <1>2, <1>8, <3>1
    <3>3. PICK d \in new : at[d] = j /\ to[j] = clauseRow(d)
      BY <1>7, <3>2
    <3>4. to[j].pos = start + nth[d] /\ nth[d] \in Nat
      BY <1>2, <1>4, <3>3
    <3>5. nth[c] = nth[d]
      BY <1>2, <3>1, <3>4
    <3>6. c = d
      BY <1>1, <3>5
    <3> QED BY <2>2, <3>3, <3>6
  <2>3. ASSUME NEW c \in new, at[c] = j, to[j] = clauseRow(c), k \in Live(item), to[k] = item[k]
        PROVE  j = k
    <3>1. to[j].pos = start + nth[c] /\ nth[c] \in Nat
      BY <1>2, <1>4, <2>3
    <3> QED BY <1>2, <1>8, <2>3, <3>1
  <2> QED BY <1>7, <2>1, <2>2, <2>3
<1>10. ClausesOnce(item) => ClausesOnce(to)
  <2> SUFFICES ASSUME ClausesOnce(item), NEW j \in Live(to), NEW k \in Live(to),
                      to[j].clause = to[k].clause, to[j].clause # None
               PROVE  j = k
    BY DEF ClausesOnce
  <2>1. \A c \in new : \A i \in Live(item) : item[i].clause # c
    BY DEF Missing
  <2>2. \A c \in new : clauseRow(c).clause = c
    BY <1>4
  <2> QED BY <1>7, <2>1, <2>2 DEF ClausesOnce
<1>11. Submit(s, u, "insert", to, {}, None)
  BY <1>1 DEF to
<1> QED BY <1>5, <1>6, <1>9, <1>10, <1>11, SubmitKeeps

(* A session that keeps its row and its insertions keeps the invariant. *)
LEMMA OneSessionKeeps ==
  ASSUME IInv, NEW s \in Sessions, NEW y \in Session, ses' = [ses EXCEPT ![s] = y], InHand(y),
         UNCHANGED <<item, by, late>>, Inserted(y) = {},
         \A i \in Items : y.to[i].state = "never" \/ y.to[i].state = ses[s].to[i].state
  PROVE  IInv'
<1>1. TypeOK /\ ses \in [Sessions -> Session]
  BY DEF IInv, TypeOK
<1>2. ses' \in [Sessions -> Session] /\ ses'[s] = y /\ \A t \in Sessions \ {s} : ses'[t] = ses[t]
  BY <1>1
<1>3. TypeOK'
  BY <1>1, <1>2 DEF TypeOK
<1>4. \A t \in Sessions : InHand(ses'[t])
  BY <1>2 DEF IInv
<1>5. NobodyElses'
  <2> SUFFICES ASSUME NEW r \in Sessions, NEW t \in Sessions, NEW i \in Inserted(ses'[r])
               PROVE  item[i].state = "never" /\ (r # t => ses'[t].to[i].state = "never")
    BY DEF NobodyElses
  <2>1. r # s /\ ses'[r] = ses[r]
    BY <1>2
  <2>2. i \in Items
    BY DEF Inserted, Live
  <2>3. item[i].state = "never" /\ (r # t => ses[t].to[i].state = "never")
    BY <2>1 DEF IInv, NobodyElses
  <2> QED BY <1>2, <2>1, <2>2, <2>3
<1> QED BY <1>3, <1>4, <1>5 DEF IInv

LEMMA EntryKeeps ==
  ASSUME IInv, NEW s \in Sessions, NEW i \in Items, NEW p \in Items \union {None}, Entry(s, i, p)
  PROVE  IInv'
<1> DEFINE x == ses[s]
           q == IF p = i \/ p \notin Live(x.row) THEN None ELSE p
           z == [x EXCEPT !.listed = @ \union {i}, !.skipped = TRUE]
           y == [x EXCEPT !.listed = @ \union {i}, !.next[q] = @ + 1,
                          !.to[i].parent = q, !.to[i].pos = x.next[q]]
<1>1. /\ x \in Session /\ x.op = "reorder" /\ InHand(x) /\ Reordering(x)
      /\ i \in Live(x.row) \ x.listed /\ UNCHANGED <<item, by, late>>
      /\ q \in Items \union {None} /\ Inserted(x) = {} /\ ses \in [Sessions -> Session]
  <2>1. x \in Session /\ x.op = "reorder" /\ InHand(x) /\ ses \in [Sessions -> Session]
    BY DEF Entry, IInv, TypeOK
  <2> QED BY <2>1, CopyDiffers DEF Entry, InHand
<1>2. CASE q # None /\ CreatesCycle(x.to, i, q)
  <2>2. ses' = [ses EXCEPT ![s] = z]
    BY <1>2 DEF Entry
  <2>3. /\ z \in Session /\ z.op = x.op /\ z.user = x.user
        /\ z.row = x.row /\ z.to = x.to /\ z.doomed = x.doomed
        /\ z.touched = x.touched /\ z.skipped = TRUE /\ z.listed = x.listed \union {i}
    BY <1>1 DEF Session
  <2>4. InHand(z)
    BY <1>1, <2>3 DEF InHand, Reordering
  <2>5. Inserted(z) = {}
    BY <1>1, <2>3 DEF Inserted
  <2> HIDE DEF z, x
  <2> QED BY <1>1, <2>2, <2>3, <2>4, <2>5, OneSessionKeeps DEF x
<1>3. CASE ~(q # None /\ CreatesCycle(x.to, i, q))
  <2>2. ses' = [ses EXCEPT ![s] = y]
    BY <1>3 DEF Entry
  <2> DEFINE g == [x.to EXCEPT ![i].parent = q, ![i].pos = x.next[q]]
             next == [x.next EXCEPT ![q] = @ + 1]
  <2>3. /\ x.to \in [Items -> Row] /\ x.next \in [Items \union {None} -> Nat] /\ x.next[q] \in Nat
        /\ x.listed \subseteq Items /\ x.to[i] \in Row
    BY <1>1 DEF Session
  <2>4. /\ g[i] = [x.to[i] EXCEPT !.parent = q, !.pos = x.next[q]]
        /\ \A j \in Items \ {i} : g[j] = x.to[j]
        /\ g = [j \in Items |-> g[j]]
    BY <2>3
  <2>5. /\ g[i] \in Row /\ g[i].parent = q /\ g[i].pos = x.next[q]
        /\ g[i].state = x.to[i].state /\ g[i].clause = x.to[i].clause
    BY <1>1, <2>3, <2>4 DEF Row
  <2>6. g \in [Items -> Row]
    BY <2>3, <2>4, <2>5
  <2>7. /\ next \in [Items \union {None} -> Nat] /\ next[q] = x.next[q] + 1
        /\ \A k \in (Items \union {None}) \ {q} : next[k] = x.next[k]
    BY <1>1, <2>3
  <2>8. y = [x EXCEPT !.listed = x.listed \union {i}, !.next = next, !.to = g]
    BY <1>1, <2>3 DEF Session
  <2> HIDE DEF g, next, y
  <2>9. /\ y \in Session /\ y.op = x.op /\ y.user = x.user /\ y.row = x.row /\ y.to = g /\ y.doomed = x.doomed
        /\ y.touched = x.touched /\ y.skipped = x.skipped /\ y.listed = x.listed \union {i}
        /\ y.next = next
    BY <1>1, <2>3, <2>6, <2>7, <2>8 DEF Session
  <2>10. Acyclic(x.row) => Acyclic(g)
    <3>1. \A k \in Items \ {i} : g[k].parent = x.to[k].parent
      BY <2>4
    <3>2. Acyclic(x.row) => Acyclic(x.to)
      BY <1>1 DEF Reordering
    <3>3. i \in Items /\ q \in Items \union {None} /\ (q # None => ~CreatesCycle(x.to, i, q))
      BY <1>1, <1>3
    <3> HIDE DEF x, q
    <3> QED BY <2>3, <2>5, <2>6, <3>1, <3>2, <3>3, HangingKeepsAcyclic
  <2>11. ASSUME ~x.skipped
         PROVE  /\ \A j \in y.listed : g[j].pos < next[g[j].parent]
                /\ \A j, k \in y.listed : g[j].parent = g[k].parent /\ g[j].pos = g[k].pos => j = k
    <3>1. \A j \in x.listed : /\ g[j] = x.to[j] /\ g[j] \in Row
                              /\ g[j].pos < x.next[g[j].parent] /\ x.next[g[j].parent] \in Nat
      BY <1>1, <2>3, <2>4, <2>11 DEF Reordering, Row
    <3>2. \A j \in x.listed : g[j].parent \in Items \union {None} /\ g[j].pos \in Nat
      BY <3>1 DEF Row
    <3>3. \A j \in y.listed : g[j].pos < next[g[j].parent]
      BY <2>3, <2>5, <2>7, <2>9, <3>1, <3>2
    <3>4. \A j, k \in x.listed : g[j].parent = g[k].parent /\ g[j].pos = g[k].pos => j = k
      BY <1>1, <2>11, <3>1 DEF Reordering
    <3>5. \A j \in x.listed : g[j].parent = q => g[j].pos # g[i].pos
      BY <2>3, <2>5, <3>1, <3>2
    <3> QED BY <2>5, <2>9, <3>3, <3>4, <3>5
  <2>12. Reordering(y)
    <3>1. y.doomed = None /\ y.touched = {} /\ y.listed \subseteq Live(y.row)
      BY <1>1, <2>9 DEF Reordering
    <3>2. \A j \in Items : y.to[j].state = y.row[j].state /\ y.to[j].clause = y.row[j].clause
      <4>1. \A j \in Items : x.to[j].state = x.row[j].state /\ x.to[j].clause = x.row[j].clause
        BY <1>1 DEF Reordering
      <4>2. \A j \in Items : g[j].state = x.to[j].state /\ g[j].clause = x.to[j].clause
        BY <2>4, <2>5
      <4> QED BY <2>9, <4>1, <4>2
    <3>3. \A j \in Items \ Live(y.row) : y.to[j] = y.row[j]
      BY <1>1, <2>4, <2>9 DEF Reordering
    <3> QED BY <2>9, <2>10, <2>11, <3>1, <3>2, <3>3 DEF Reordering
  <2>13. InHand(y) /\ Inserted(y) = {} /\ \A j \in Items : y.to[j].state = x.to[j].state
    <3>1. \A j \in Items : y.to[j].state = x.to[j].state
      BY <2>4, <2>5, <2>9
    <3>2. InHand(y)
      BY <1>1, <2>9, <2>12 DEF InHand
    <3> QED BY <1>1, <2>9, <3>1, <3>2 DEF Inserted, Live
  <2> HIDE DEF x
  <2> QED BY <1>1, <2>2, <2>9, <2>13, OneSessionKeeps DEF x
<1> QED BY <1>2, <1>3

LEMMA CommitKeeps ==
  ASSUME IInv, NEW s \in Sessions, Commit(s)
  PROVE  IInv'
<1> DEFINE x == ses[s]
           g == Merged(x)
<1>1. /\ x.op # "idle" /\ ~Refused(x) /\ item' = Cut(g, x.doomed)
      /\ by' = (IF x.signed THEN x.user ELSE by) /\ late' = late \union LateWrites(x)
      /\ ses' = [t \in Sessions |->
                   IF t = s THEN Idle
                   ELSE IF x.signed /\ ses[t].op # "idle" THEN [ses[t] EXCEPT !.stale = TRUE]
                   ELSE ses[t]]
  BY DEF Commit
<1>2. TypeOK /\ x \in Session /\ InHand(x) /\ item \in [Items -> Row] /\ g \in [Items -> Row]
      /\ x.doomed \in Items \union {None}
  BY MergedTyped DEF IInv, TypeOK, Session
<1>3. Forest(g)
  BY <1>1, MergedForest
<1>4. item' \in [Items -> Row] /\ Forest(item')
  BY <1>1, <1>2, <1>3, CutTyped, CutKeepsForest
<1>5. late' \subseteq {"tree", "order", "clause"}
  BY <1>1, <1>2 DEF TypeOK, LateWrites
<1>6. by' \in Users
  BY <1>1, <1>2 DEF TypeOK, InHand
<1>7. \A t \in Sessions \ {s} :
        /\ ses'[t] \in Session
        /\ ses'[t].op = ses[t].op /\ ses'[t].row = ses[t].row /\ ses'[t].to = ses[t].to
        /\ ses'[t].user = ses[t].user
        /\ ses'[t].doomed = ses[t].doomed /\ ses'[t].touched = ses[t].touched
        /\ ses'[t].listed = ses[t].listed /\ ses'[t].skipped = ses[t].skipped
        /\ ses'[t].next = ses[t].next
  <2> SUFFICES ASSUME NEW t \in Sessions \ {s}
               PROVE  /\ ses'[t] \in Session
                      /\ ses'[t].op = ses[t].op /\ ses'[t].row = ses[t].row
                      /\ ses'[t].to = ses[t].to /\ ses'[t].user = ses[t].user
                      /\ ses'[t].doomed = ses[t].doomed /\ ses'[t].touched = ses[t].touched
                      /\ ses'[t].listed = ses[t].listed /\ ses'[t].skipped = ses[t].skipped
                      /\ ses'[t].next = ses[t].next
    OBVIOUS
  <2>1. ses[t] \in Session
    BY <1>2 DEF TypeOK
  <2>2. ses'[t] = ses[t] \/ ses'[t] = [ses[t] EXCEPT !.stale = TRUE]
    BY <1>1
  <2> QED BY <2>1, <2>2 DEF Session
<1>8. ses' \in [Sessions -> Session] /\ ses'[s] = Idle
  <2>1. ses' = [t \in Sessions |-> ses'[t]] /\ ses'[s] = Idle
    BY <1>1
  <2>2. \A t \in Sessions : ses'[t] \in Session
    BY <1>7, <2>1, IdleTyped
  <2> QED BY <2>1, <2>2
<1>9. \A t \in Sessions : InHand(ses'[t])
  <2> SUFFICES ASSUME NEW t \in Sessions PROVE InHand(ses'[t])
    OBVIOUS
  <2>1. CASE t = s
    BY <1>8, <2>1, IdleTyped
  <2>2. CASE t # s
    <3>1. InHand(ses[t])
      BY DEF IInv
    <3> QED BY <1>7, <2>2, <3>1 DEF InHand, Reordering, Inserting, Inserted
  <2> QED BY <2>1, <2>2
<1>10. NobodyElses'
  <2> SUFFICES ASSUME NEW r \in Sessions, NEW t \in Sessions, NEW i \in Inserted(ses'[r])
               PROVE  item'[i].state = "never" /\ (r # t => ses'[t].to[i].state = "never")
    BY DEF NobodyElses
  <2>1. r # s
    BY <1>8, IdleTyped
  <2>2. i \in Items /\ i \in Inserted(ses[r])
    BY <1>7, <2>1 DEF Inserted, Live
  <2>3. item[i].state = "never" /\ (r # t => ses[t].to[i].state = "never") /\ x.to[i].state = "never"
    BY <2>1, <2>2 DEF IInv, NobodyElses
  <2>4. i \notin Inserted(x) /\ g[i].state = "never"
    BY <1>2, <2>2, <2>3, MergedTyped DEF Inserted, Live
  <2>5. item'[i].state = "never"
    BY <1>1, <1>2, <2>2, <2>4, CutTyped
  <2>6. t = s => ses'[t].to[i].state = "never"
    BY <1>8, <2>2, IdleTyped DEF NoItems, NoRow
  <2> QED BY <1>7, <2>3, <2>5, <2>6
<1>11. "tree" \notin late' => Acyclic(item')
  <2> SUFFICES ASSUME "tree" \notin late' PROVE Acyclic(item')
    OBVIOUS
  <2>1. Acyclic(item) /\ ~(Reparents(x) /\ x.row # item)
    BY <1>1 DEF IInv, LateWrites
  <2>2. Acyclic(g)
    BY <1>1, <2>1, MergedAcyclic
  <2> QED BY <1>1, <1>2, <1>3, <2>2, CutKeepsForest
<1>12. "order" \notin late' => Distinct(item')
  <2> SUFFICES ASSUME "order" \notin late' PROVE Distinct(item')
    OBVIOUS
  <2>1. Distinct(item) /\ "order" \notin LateWrites(x)
    BY <1>1 DEF IInv
  <2>2. Distinct(g)
    BY <1>1, <2>1, MergedDistinct
  <2> QED BY <1>1, <1>2, <1>3, <2>2, CutKeepsForest
<1>13. "clause" \notin late' => ClausesOnce(item')
  <2> SUFFICES ASSUME "clause" \notin late' PROVE ClausesOnce(item')
    OBVIOUS
  <2>1. ClausesOnce(item) /\ "clause" \notin LateWrites(x)
    BY <1>1 DEF IInv
  <2>2. ClausesOnce(g)
    BY <1>1, <2>1, MergedClauses
  <2> QED BY <1>1, <1>2, <1>3, <2>2, CutKeepsForest
<1> QED
  BY <1>4, <1>5, <1>6, <1>8, <1>9, <1>10, <1>11, <1>12, <1>13 DEF IInv, TypeOK

LEMMA InitIInv == Init => IInv
<1> SUFFICES ASSUME Init PROVE IInv
  OBVIOUS
<1>1. item \in [Items -> Row]
  <2>0. PICK live \in SUBSET Items :
          \E parent \in [live -> live \union {None}], pos \in [live -> 0..MaxPos],
             clause \in [live -> Clauses \union {None}] :
            item = [i \in Items |-> IF i \in live
                                    THEN [state |-> "live", parent |-> parent[i],
                                          pos |-> pos[i], clause |-> clause[i]]
                                    ELSE NoRow]
    BY DEF Init
  <2>1. PICK parent \in [live -> live \union {None}], pos \in [live -> 0..MaxPos],
             clause \in [live -> Clauses \union {None}] :
          item = [i \in Items |-> IF i \in live
                                  THEN [state |-> "live", parent |-> parent[i],
                                        pos |-> pos[i], clause |-> clause[i]]
                                  ELSE NoRow]
    BY <2>0
  <2>2. ASSUME NEW i \in live
        PROVE  [state |-> "live", parent |-> parent[i], pos |-> pos[i], clause |-> clause[i]] \in Row
    <3>1. parent[i] \in Items \union {None} /\ pos[i] \in Nat /\ clause[i] \in Clauses \union {None}
      BY NoneIsNoItem
    <3> QED BY <3>1 DEF Row
  <2> QED BY <2>1, <2>2, IdleTyped
<1>2. \A i \in Items \ Live(item) : item[i].parent = None
  BY DEF Init, Live, NoRow
<1>3. ses \in [Sessions -> Session] /\ \A s \in Sessions : ses[s] = Idle
  BY IdleTyped DEF Init
<1>4. TypeOK
  BY <1>1, <1>3 DEF Init, TypeOK
<1>5. \A s \in Sessions : InHand(ses[s]) /\ Inserted(ses[s]) = {}
  BY <1>3, IdleTyped
<1> QED BY <1>2, <1>4, <1>5 DEF Init, IInv, Forest, Bare, NobodyElses

(* Every step keeps the invariant. *)
LEMMA NextKeeps ==
  ASSUME IInv, [Next]_vars
  PROVE  IInv'
<1>1. CASE UNCHANGED vars
  BY <1>1 DEF vars, IInv, TypeOK, Forest, Bare, ParentsLive, InHand, Reordering, Inserting,
              Inserted, NobodyElses, Live, Acyclic, Distinct, ClausesOnce
<1>2. ASSUME NEW s \in Sessions, NEW u \in Users, SubmitReorder(s, u)
      PROVE  IInv'
  BY <1>2, SubmitKeeps DEF SubmitReorder, IInv, TypeOK
<1>3. ASSUME NEW s \in Sessions, NEW u \in Users, NEW i \in Items, SubmitUpdate(s, u, i)
      PROVE  IInv'
  <2>1. PICK touched \in {{}, {i}} : Submit(s, u, "update", item, touched, None)
    BY <1>3 DEF SubmitUpdate
  <2> QED BY <2>1, SubmitKeeps DEF IInv, TypeOK
<1>4. ASSUME NEW s \in Sessions, NEW u \in Users, NEW i \in Items, SubmitDelete(s, u, i)
      PROVE  IInv'
  BY <1>4, SubmitKeeps DEF SubmitDelete, IInv, TypeOK
<1>5. ASSUME NEW s \in Sessions, Rollback(s)
      PROVE  IInv'
  <2>1. \A i \in Items : Idle.to[i].state = "never"
    BY IdleTyped DEF NoItems, NoRow
  <2> QED BY <1>5, <2>1, IdleTyped, OneSessionKeeps DEF Rollback
<1> QED
  BY <1>1, <1>2, <1>3, <1>4, <1>5, AddKeeps, AddClausesKeeps, EntryKeeps, CommitKeeps DEF Next

LEMMA Inductive == Spec => []IInv
<1>1. Init => IInv
  BY InitIInv
<1>2. IInv /\ [Next]_vars => IInv'
  BY NextKeeps
<1> QED BY <1>1, <1>2, PTL DEF Spec

-----------------------------------------------------------------------------
(* The theorems. *)

(* The table and the requests keep their shape. *)
THEOREM TypeCorrect == Spec => []TypeOK
<1>1. IInv => TypeOK
  BY DEF IInv
<1> QED BY <1>1, Inductive, PTL

(* No item is lost in a cycle or under a parent that is gone, unless a reorder
   moved items to other parents on a reading that had changed (reorder_items,
   _creates_cycle, ON DELETE CASCADE). *)
THEOREM ItemsShown == Spec => []AllShown
<1>1. IInv => AllShown
  BY DEF IInv, Forest, AllShown
<1> QED BY <1>1, Inductive, PTL

(* Siblings have distinct positions, unless a request counted on an old reading
   or a reorder left items out (add_item, add_clauses_to_scope, reorder_items). *)
THEOREM SiblingsKeepOrder == Spec => []SiblingsOrdered
<1>1. IInv => SiblingsOrdered
  BY DEF IInv, SiblingsOrdered
<1> QED BY <1>1, Inductive, PTL

(* A clause is on a section once, unless a request looked for it on an old
   reading (add_clauses_to_scope). *)
THEOREM ClausesLandOnce == Spec => []ClauseOnce
<1>1. IInv => ClauseOnce
  BY DEF IInv, ClauseOnce
<1> QED BY <1>1, Inductive, PTL

-----------------------------------------------------------------------------
(* Sequences made from an order. *)

(* `before` says of each place which ones come before it. *)
StrictOrder(before) ==
  /\ \A n \in DOMAIN before : before[n] \subseteq DOMAIN before /\ n \notin before[n]
  /\ \A n, m \in DOMAIN before : m \in before[n] => before[m] \subseteq before[n]
  /\ \A n, m \in DOMAIN before : n = m \/ n \in before[m] \/ m \in before[n]

(* A set of numbers that is not empty has a smallest one: induction over the
   places of a sequence is by the first place where a claim would fail. *)
LEMMA FirstOf ==
  ASSUME NEW T \in SUBSET Nat, T # {}
  PROVE  \E n \in T : \A m \in T : n <= m
<1>1. IsWellFoundedOn(OpToRel(<, Nat), Nat)
  BY NatLessThanWellFounded
<1>2. PICK n \in T : \A m \in T : ~(<<m, n>> \in OpToRel(<, Nat))
  BY <1>1, WFMin
<1>3. \A m \in T : ~(m < n)
  BY <1>2 DEF OpToRel
<1> QED
  BY <1>3

(* The listing of a strict total order on a finite set names every member once,
   and one before the other exactly when the order says so (Listed). *)
LEMMA ListedOrder ==
  ASSUME NEW before, IsFiniteSet(DOMAIN before), StrictOrder(before)
  PROVE  /\ Cardinality(DOMAIN before) \in Nat
         /\ DOMAIN Listed(before) = 1..Cardinality(DOMAIN before)
         /\ \A k \in DOMAIN Listed(before) : Listed(before)[k] \in DOMAIN before
         /\ \A n \in DOMAIN before : \E k \in DOMAIN Listed(before) : Listed(before)[k] = n
         /\ \A j, k \in DOMAIN Listed(before) :
              Listed(before)[j] \in before[Listed(before)[k]] <=> j < k
<1> DEFINE S == DOMAIN before
           N == Cardinality(S)
           count(n) == Cardinality(before[n])
<1>1. N \in Nat
  BY FS_CardinalityType
<1>2. ASSUME NEW n \in S PROVE count(n) \in 0..(N - 1) /\ IsFiniteSet(before[n])
  <2>1. before[n] \in SUBSET S /\ before[n] # S
    BY DEF StrictOrder
  <2>2. IsFiniteSet(before[n]) /\ count(n) <= N /\ count(n) # N
    BY <2>1, FS_Subset
  <2> QED
    BY <1>1, <2>2, FS_CardinalityType
<1>3. ASSUME NEW m \in S, NEW n \in S, m \in before[n] PROVE count(m) < count(n)
  <2>1. before[m] \in SUBSET before[n] /\ before[m] # before[n]
    BY <1>3 DEF StrictOrder
  <2>2. count(m) <= count(n) /\ count(m) # count(n)
    BY <1>2, <2>1, FS_Subset
  <2> QED
    BY <1>2, <2>2
<1>4. ASSUME NEW m \in S, NEW n \in S, count(m) = count(n) PROVE m = n
  BY <1>2, <1>3, <1>4 DEF StrictOrder
<1> DEFINE at == [n \in S |-> count(n) + 1]
<1>5. at \in Injection(S, 1..N)
  <2>1. \A n \in S : at[n] \in 1..N
    BY <1>1, <1>2
  <2>2. \A n, m \in S : at[n] = at[m] => n = m
    BY <1>2, <1>4
  <2> QED
    BY <2>1, <2>2 DEF Injection, IsInjective
<1>6. at \in Surjection(S, 1..N)
  <2>1. IsFiniteSet(1..N) /\ Cardinality(1..N) = N
    BY <1>1, FS_Interval
  <2> QED
    BY <1>5, <2>1, FS_Injection
<1>7. DOMAIN Listed(before) = 1..N
  BY DEF Listed
<1>8. ASSUME NEW k \in 1..N
      PROVE  Listed(before)[k] \in S /\ count(Listed(before)[k]) = k - 1
  <2>1. PICK n \in S : at[n] = k
    BY <1>6 DEF Surjection
  <2>2. count(n) = k - 1
    BY <1>1, <1>2, <2>1
  <2>3. Listed(before)[k] = CHOOSE m \in S : count(m) = k - 1
    BY DEF Listed
  <2> HIDE DEF count
  <2> QED
    BY <2>2, <2>3
<1>9. ASSUME NEW n \in S PROVE \E k \in 1..N : Listed(before)[k] = n
  <2>1. count(n) + 1 \in 1..N /\ count(n) = (count(n) + 1) - 1
    BY <1>1, <1>2
  <2>2. count(Listed(before)[count(n) + 1]) = count(n) /\ Listed(before)[count(n) + 1] \in S
    BY <1>8, <2>1
  <2> QED
    BY <1>4, <2>1, <2>2
<1>10. ASSUME NEW j \in 1..N, NEW k \in 1..N
       PROVE  Listed(before)[j] \in before[Listed(before)[k]] <=> j < k
  <2>1. /\ Listed(before)[j] \in S /\ count(Listed(before)[j]) = j - 1
        /\ Listed(before)[k] \in S /\ count(Listed(before)[k]) = k - 1
    BY <1>8
  <2>2. Listed(before)[j] \in before[Listed(before)[k]] => j < k
    BY <1>1, <1>3, <2>1
  <2>3. ASSUME j < k PROVE Listed(before)[j] \in before[Listed(before)[k]]
    <3>1. Listed(before)[k] \notin before[Listed(before)[j]]
      BY <1>1, <1>3, <2>1, <2>3
    <3>2. Listed(before)[k] # Listed(before)[j]
      BY <1>1, <2>1, <2>3
    <3> QED
      BY <2>1, <3>1, <3>2 DEF StrictOrder
  <2> QED
    BY <2>2, <2>3
<1> QED
  BY <1>1, <1>7, <1>8, <1>9, <1>10

-----------------------------------------------------------------------------
(* Ranks and counters. *)

LEMMA LineFacts ==
  ASSUME NEW lines \in Lines
  PROVE  /\ Len(lines) \in Nat /\ DOMAIN lines = 1..Len(lines) /\ IsFiniteSet(DOMAIN lines)
         /\ \A n \in DOMAIN lines : /\ lines[n] \in LineRecord
                                    /\ lines[n].parent \in Nat /\ lines[n].pos \in Nat
                                    /\ lines[n].parent < n
                                    /\ lines[n].parent # 0 => lines[n].parent \in DOMAIN lines
<1>1. lines \in Seq(LineRecord) /\ ParentsFirst(lines)
  BY DEF Lines
<1>2. Len(lines) \in Nat /\ DOMAIN lines = 1..Len(lines)
  BY <1>1
<1>3. \A n \in DOMAIN lines : lines[n] \in LineRecord
  BY <1>1
<1>4. \A n \in DOMAIN lines : lines[n].parent \in Nat /\ lines[n].pos \in Nat
  BY <1>3 DEF LineRecord
<1>5. \A n \in DOMAIN lines : lines[n].parent < n
  BY <1>1 DEF ParentsFirst
<1>6. \A n \in DOMAIN lines : lines[n].parent # 0 => lines[n].parent \in DOMAIN lines
  BY <1>2, <1>4, <1>5
<1>7. IsFiniteSet(DOMAIN lines)
  BY <1>2, FS_Interval
<1> QED
  BY <1>2, <1>3, <1>4, <1>5, <1>6, <1>7

(* Siblings have different ranks, the counters of root_items and children. *)
LEMMA RankFacts ==
  ASSUME NEW lines \in Lines
  PROVE  /\ \A n \in DOMAIN lines : Rank(lines, n) \in Nat /\ Rank(lines, n) > 0
         /\ \A n, m \in DOMAIN lines :
              lines[n].parent = lines[m].parent /\ Rank(lines, n) = Rank(lines, m) => n = m
<1>1. ASSUME NEW n \in DOMAIN lines
      PROVE  /\ IsFiniteSet(UpTo(lines, n)) /\ n \in UpTo(lines, n)
             /\ Rank(lines, n) \in Nat /\ Rank(lines, n) > 0
  <2>1. UpTo(lines, n) \in SUBSET DOMAIN lines
    BY DEF UpTo, Peers
  <2>2. IsFiniteSet(UpTo(lines, n))
    BY <2>1, LineFacts, FS_Subset
  <2>3. n \in UpTo(lines, n)
    BY LineFacts DEF UpTo, Peers
  <2>4. Rank(lines, n) \in Nat /\ Rank(lines, n) # 0
    BY <2>2, <2>3, FS_CardinalityType, FS_EmptySet DEF Rank
  <2> QED
    BY <2>2, <2>3, <2>4
<1>2. ASSUME NEW n \in DOMAIN lines, NEW m \in DOMAIN lines, n # m,
             lines[n].parent = lines[m].parent, n \in UpTo(lines, m)
      PROVE  Rank(lines, n) # Rank(lines, m)
  <2>1. UpTo(lines, n) \subseteq UpTo(lines, m) /\ m \notin UpTo(lines, n)
    BY <1>2, LineFacts DEF UpTo, Peers
  <2>2. UpTo(lines, n) # UpTo(lines, m)
    BY <1>1, <2>1
  <2> QED
    BY <1>1, <2>1, <2>2, FS_Subset DEF Rank
<1>3. ASSUME NEW n \in DOMAIN lines, NEW m \in DOMAIN lines, n # m,
             lines[n].parent = lines[m].parent
      PROVE  n \in UpTo(lines, m) \/ m \in UpTo(lines, n)
  BY <1>3, LineFacts DEF UpTo, Peers
<1> QED
  BY <1>1, <1>2, <1>3

(* What the walk hands out: the parent's counters and the rank. *)
Step(lines, path, n) ==
  IF lines[n].parent = 0 THEN <<Rank(lines, n)>>
  ELSE Append(path[lines[n].parent], Rank(lines, n))

Walk(lines, path) == path = [n \in DOMAIN lines |-> Step(lines, path, n)]

(* The walk comes to an end, so that its counters are well defined. *)
LEMMA WalkExists ==
  ASSUME NEW lines \in Lines
  PROVE  \E path : Walk(lines, path)
<1> DEFINE Upto(k, path) == path = [n \in 1..k |-> Step(lines, path, n)]
           T == {k \in 0..Len(lines) : ~\E path : Upto(k, path)}
<1>1. Len(lines) \in Nat /\ DOMAIN lines = 1..Len(lines)
  BY LineFacts
<1>2. T = {}
  <2> SUFFICES ASSUME T # {} PROVE FALSE
    OBVIOUS
  <2>1. T \in SUBSET Nat
    BY <1>1
  <2>2. PICK k \in T : \A m \in T : k <= m
    BY <2>1, FirstOf
  <2>3. k \in 0..Len(lines) /\ ~\E path : Upto(k, path)
    BY <2>2
  <2>4. CASE k = 0
    <3>1. Upto(0, [n \in 1..0 |-> 0])
      <4>1. 1..0 = {}
        OBVIOUS
      <4> QED
        BY <4>1
    <3> QED
      BY <2>3, <2>4, <3>1
  <2>5. CASE k > 0
    <3>1. k - 1 \in 0..Len(lines) /\ k - 1 \notin T
      BY <1>1, <2>2, <2>3, <2>5
    <3>2. PICK f : Upto(k - 1, f)
      BY <3>1
    <3> DEFINE g == [n \in 1..k |-> IF n = k THEN Step(lines, f, k) ELSE f[n]]
    <3>3. ASSUME NEW n \in 1..k PROVE g[n] = Step(lines, g, n)
      <4>1. n \in DOMAIN lines /\ n \in Nat /\ k \in Nat
        BY <1>1, <2>3
      <4>2. lines[n].parent \in Nat /\ lines[n].parent < n
        BY <4>1, LineFacts
      <4>3. lines[n].parent # 0 => g[lines[n].parent] = f[lines[n].parent]
        BY <4>1, <4>2
      <4>4. Step(lines, g, n) = Step(lines, f, n)
        BY <4>3 DEF Step
      <4>5. n # k => f[n] = Step(lines, f, n)
        BY <3>2, <4>1
      <4> QED
        BY <4>4, <4>5
    <3>4. Upto(k, g)
      BY <3>3
    <3> QED
      BY <2>3, <3>4
  <2> QED
    BY <1>1, <2>3, <2>4, <2>5
<1>3. \E path : Upto(Len(lines), path)
  BY <1>1, <1>2
<1> QED
  BY <1>1, <1>3 DEF Walk

LEMMA CountersWalk ==
  ASSUME NEW lines \in Lines
  PROVE  /\ DOMAIN Counters(lines) = DOMAIN lines
         /\ \A n \in DOMAIN lines : Counters(lines)[n] = Step(lines, Counters(lines), n)
<1>1. \A n \in DOMAIN lines : lines[n].parent # 0 => lines[n].parent \in DOMAIN lines
  BY LineFacts
<1> DEFINE rank == [n \in DOMAIN lines |-> Rank(lines, n)]
           By(path) == [n \in DOMAIN lines |->
                          IF lines[n].parent = 0 THEN <<rank[n]>>
                          ELSE Append(path[lines[n].parent], rank[n])]
<1>2. Counters(lines) = CHOOSE path : path = By(path)
  BY DEF Counters
<1>3. ASSUME NEW path PROVE By(path) = [n \in DOMAIN lines |-> Step(lines, path, n)]
  BY DEF Step
<1>4. \E path : path = By(path)
  BY <1>3, WalkExists DEF Walk
<1> HIDE DEF By
<1>5. Counters(lines) = By(Counters(lines))
  BY <1>2, <1>4
<1> QED
  BY <1>3, <1>5

LEMMA NumberSequences ==
  /\ \A r \in Nat : <<r>> \in Seq(Nat) /\ Len(<<r>>) > 0
  /\ \A s \in Seq(Nat), r \in Nat : Append(s, r) \in Seq(Nat) /\ Len(Append(s, r)) > 0
  /\ \A r, q \in Nat : <<r>> = <<q>> => r = q
  /\ \A s \in Seq(Nat), r, q \in Nat : Len(s) > 0 => <<r>> # Append(s, q)
  /\ \A s, t \in Seq(Nat), r, q \in Nat : Append(s, r) = Append(t, q) => s = t /\ r = q
<1>1. \A r \in Nat : <<r>> \in Seq(Nat) /\ Len(<<r>>) > 0
  OBVIOUS
<1>2. \A s \in Seq(Nat), r \in Nat :
       Append(s, r) \in Seq(Nat) /\ Len(Append(s, r)) > 0 /\ Len(Append(s, r)) = Len(s) + 1
  OBVIOUS
<1>3. \A r, q \in Nat : <<r>> = <<q>> => r = q
  OBVIOUS
<1>4. ASSUME NEW s \in Seq(Nat), NEW r \in Nat, NEW q \in Nat, Len(s) > 0, <<r>> = Append(s, q)
      PROVE  FALSE
  <2>1. Len(Append(s, q)) = 1
    BY <1>4
  <2> QED
    BY <1>2, <1>4, <2>1
<1>5. ASSUME NEW s \in Seq(Nat), NEW t \in Seq(Nat), NEW r \in Nat, NEW q \in Nat,
             Append(s, r) = Append(t, q)
      PROVE  s = t /\ r = q
  BY <1>5, AppendInjective
<1> QED
  BY <1>1, <1>2, <1>3, <1>4, <1>5

(* Counters are finite sequences of positive numbers, one longer than the
   parent's. *)
LEMMA CountersType ==
  ASSUME NEW lines \in Lines, NEW n \in DOMAIN lines
  PROVE  /\ Counters(lines)[n] \in Seq(Nat) /\ Len(Counters(lines)[n]) > 0
         /\ lines[n].parent = 0 => Counters(lines)[n] = <<Rank(lines, n)>>
         /\ lines[n].parent # 0 =>
              Counters(lines)[n] = Append(Counters(lines)[lines[n].parent], Rank(lines, n))
<1>0. PICK path : path = Counters(lines)
  OBVIOUS
<1> DEFINE T == {k \in DOMAIN lines : ~(path[k] \in Seq(Nat) /\ Len(path[k]) > 0)}
<1>1. \A k \in DOMAIN lines : path[k] = Step(lines, path, k)
  BY <1>0, CountersWalk
<1>2. T = {}
  <2> SUFFICES ASSUME T # {} PROVE FALSE
    OBVIOUS
  <2>0. T \in SUBSET Nat
    BY LineFacts
  <2>1. PICK k \in T : \A m \in T : k <= m
    BY <2>0, FirstOf
  <2>2. /\ k \in DOMAIN lines /\ k \in Nat /\ Rank(lines, k) \in Nat
        /\ lines[k].parent \in Nat /\ lines[k].parent < k
        /\ lines[k].parent # 0 => lines[k].parent \in DOMAIN lines
    BY <2>1, LineFacts, RankFacts
  <2>3. lines[k].parent # 0 =>
          path[lines[k].parent] \in Seq(Nat) /\ Len(path[lines[k].parent]) > 0
    BY <2>1, <2>2
  <2>4. path[k] \in Seq(Nat) /\ Len(path[k]) > 0
    <3>1. CASE lines[k].parent = 0
      <4>1. path[k] = <<Rank(lines, k)>>
        BY <1>1, <2>2, <3>1 DEF Step
      <4> QED
        BY <2>2, <4>1, NumberSequences
    <3>2. CASE lines[k].parent # 0
      <4>1. path[k] = Append(path[lines[k].parent], Rank(lines, k))
        BY <1>1, <2>2, <3>2 DEF Step
      <4>2. PICK s \in Seq(Nat) : s = path[lines[k].parent]
        BY <2>3, <3>2
      <4>3. PICK r \in Nat : r = Rank(lines, k)
        BY <2>2
      <4>4. Append(s, r) \in Seq(Nat) /\ Len(Append(s, r)) > 0
        BY NumberSequences
      <4> QED
        BY <4>1, <4>2, <4>3, <4>4
    <3> QED
      BY <3>1, <3>2
  <2> QED
    BY <2>1, <2>4
<1> QED
  BY <1>0, <1>1, <1>2 DEF Step

(* No two lines of a section have the same counters: one outline number is one
   sentence, however lines are nested and even where positions tie
   (Numberer.walk, ScopeSection.root_items). *)
THEOREM CountersDiffer ==
  ASSUME NEW lines \in Lines
  PROVE  \A n, m \in DOMAIN lines : Counters(lines)[n] = Counters(lines)[m] => n = m
<1>0. PICK path : path = Counters(lines)
  OBVIOUS
<1> DEFINE T == {n \in DOMAIN lines : \E m \in DOMAIN lines : m # n /\ path[m] = path[n]}
<1>1. \A n \in DOMAIN lines :
        /\ path[n] \in Seq(Nat) /\ Len(path[n]) > 0
        /\ lines[n].parent = 0 => path[n] = <<Rank(lines, n)>>
        /\ lines[n].parent # 0 => path[n] = Append(path[lines[n].parent], Rank(lines, n))
        /\ lines[n].parent # 0 => lines[n].parent \in DOMAIN lines
        /\ lines[n].parent < n /\ lines[n].parent \in Nat /\ n \in Nat
  <2>1. ASSUME NEW n \in DOMAIN lines
        PROVE  /\ path[n] \in Seq(Nat) /\ Len(path[n]) > 0
               /\ lines[n].parent = 0 => path[n] = <<Rank(lines, n)>>
               /\ lines[n].parent # 0 => path[n] = Append(path[lines[n].parent], Rank(lines, n))
    BY <1>0, CountersType, Zenon
  <2> QED
    BY <2>1, LineFacts
<1>2. T = {}
  <2> SUFFICES ASSUME T # {} PROVE FALSE
    OBVIOUS
  <2>0. T \in SUBSET Nat
    BY LineFacts
  <2>1. PICK n \in T : \A k \in T : n <= k
    BY <2>0, FirstOf
  <2>2. PICK m \in DOMAIN lines : m # n /\ path[m] = path[n]
    BY <2>1
  <2>3. n \in DOMAIN lines
    BY <2>1
  <2>4. Rank(lines, n) \in Nat /\ Rank(lines, m) \in Nat
    BY <2>2, <2>3, RankFacts
  <2>5. lines[n].parent = lines[m].parent /\ Rank(lines, n) = Rank(lines, m)
    <3>0. /\ path[m] = path[n]
          /\ lines[n].parent # 0 => path[lines[n].parent] \in Seq(Nat) /\ Len(path[lines[n].parent]) > 0
          /\ lines[m].parent # 0 => path[lines[m].parent] \in Seq(Nat) /\ Len(path[lines[m].parent]) > 0
      BY <1>1, <2>2, <2>3
    <3>1. CASE lines[n].parent = 0 /\ lines[m].parent = 0
      <4>1. <<Rank(lines, n)>> = <<Rank(lines, m)>>
        BY <1>1, <2>2, <2>3, <3>1, Zenon
      <4> QED
        BY <2>4, <3>1, <4>1, NumberSequences, Zenon
    <3>2. CASE lines[n].parent # 0 /\ lines[m].parent # 0
      <4>1. Append(path[lines[n].parent], Rank(lines, n)) = Append(path[lines[m].parent], Rank(lines, m))
        BY <1>1, <2>2, <2>3, <3>2, Zenon
      <4>2. path[lines[n].parent] = path[lines[m].parent] /\ Rank(lines, n) = Rank(lines, m)
        <5>1. PICK s \in Seq(Nat) : s = path[lines[n].parent]
          BY <3>0, <3>2
        <5>2. PICK t \in Seq(Nat) : t = path[lines[m].parent]
          BY <3>0, <3>2
        <5>3. PICK r \in Nat : r = Rank(lines, n)
          BY <2>4
        <5>4. PICK q \in Nat : q = Rank(lines, m)
          BY <2>4
        <5>5. Append(s, r) = Append(t, q)
          BY <4>1, <5>1, <5>2, <5>3, <5>4, Zenon
        <5>6. s = t /\ r = q
          BY <5>5, NumberSequences
        <5> QED
          BY <5>1, <5>2, <5>3, <5>4, <5>6
      <4>3. /\ lines[n].parent \in DOMAIN lines /\ lines[m].parent \in DOMAIN lines
            /\ lines[n].parent < n /\ n \in Nat /\ lines[n].parent \in Nat
        BY <1>1, <2>2, <2>3, <3>2
      <4>4. lines[n].parent \notin T
        BY <2>1, <4>3
      <4> QED
        BY <4>2, <4>3, <4>4, Zenon
    <3>3. CASE lines[n].parent = 0 /\ lines[m].parent # 0
      <4>1. <<Rank(lines, n)>> = Append(path[lines[m].parent], Rank(lines, m))
        BY <1>1, <2>2, <2>3, <3>3, Zenon
      <4> QED
        BY <2>4, <3>0, <3>3, <4>1, NumberSequences, Zenon
    <3>4. CASE lines[n].parent # 0 /\ lines[m].parent = 0
      <4>1. <<Rank(lines, m)>> = Append(path[lines[n].parent], Rank(lines, n))
        BY <1>1, <2>2, <2>3, <3>4, Zenon
      <4> QED
        BY <2>4, <3>0, <3>4, <4>1, NumberSequences, Zenon
    <3> QED
      BY <3>1, <3>2, <3>3, <3>4
  <2> QED
    BY <2>2, <2>3, <2>5, RankFacts
<1> QED
  BY <1>0, <1>2

-----------------------------------------------------------------------------
(* The labels.  A function that the model defines by recursion is the one its
   definition describes because there is such a function (RecursionExists, by
   the least counterexample).  Each style then writes different counters
   differently: digits by the quotient and the remainder, letters by a numeral
   system without a zero, numerals because the first signs tell the amount that
   was taken off first.  A label is taken apart again at its last dot. *)

(* A function defined along smaller and smaller numbers. *)
Recursive(f, base, next, prev) ==
  \A n \in Nat : f[n] = IF prev[n] < n THEN next[n][f[prev[n]]] ELSE base[n]

LEMMA RecursionExists ==
  ASSUME NEW S, NEW base \in [Nat -> S], NEW next \in [Nat -> [S -> S]], NEW prev \in [Nat -> Nat]
  PROVE  \E f \in [Nat -> S] : Recursive(f, base, next, prev)
<1> DEFINE By(f, n) == IF prev[n] < n THEN next[n][f[prev[n]]] ELSE base[n]
           Upto(k, f) == f \in [0..k -> S] /\ \A n \in 0..k : f[n] = By(f, n)
           T == {k \in Nat : ~\E f : Upto(k, f)}
<1>1. T = {}
  <2> SUFFICES ASSUME T # {} PROVE FALSE
    OBVIOUS
  <2>1. PICK k \in T : \A m \in T : k <= m
    BY FirstOf
  <2>2. k \in Nat /\ ~\E f : Upto(k, f)
    BY <2>1
  <2>3. ASSUME NEW f, NEW s \in S,
               f \in [0..(k - 1) -> S], \A n \in 0..(k - 1) : f[n] = By(f, n),
               s = IF prev[k] < k THEN next[k][f[prev[k]]] ELSE base[k]
        PROVE  FALSE
    <3> DEFINE g == [n \in 0..k |-> IF n = k THEN s ELSE f[n]]
    <3>1. g \in [0..k -> S]
      BY <2>2, <2>3
    <3>2. ASSUME NEW n \in 0..k PROVE g[n] = By(g, n)
      <4>1. prev[n] \in Nat /\ n \in Nat
        BY <2>2
      <4>2. prev[n] < n => prev[n] \in 0..(k - 1) /\ prev[n] # k /\ prev[n] \in 0..k
        BY <2>2, <4>1
      <4>3. prev[n] < n => g[prev[n]] = f[prev[n]]
        BY <4>2
      <4>4. n # k => n \in 0..(k - 1)
        BY <2>2
      <4>5. n # k => g[n] = f[n] /\ f[n] = By(f, n)
        BY <2>3, <4>4
      <4>6. n = k => g[n] = By(f, n)
        BY <2>3
      <4>7. By(f, n) = By(g, n)
        BY <4>3
      <4> QED
        BY <4>5, <4>6, <4>7
    <3> QED
      BY <2>2, <3>1, <3>2
  <2>4. CASE k = 0
    <3>1. base[k] \in S /\ prev[k] \in Nat /\ ~(prev[k] < k)
      BY <2>2, <2>4
    <3>2. 0..(k - 1) = {}
      BY <2>4
    <3>3. PICK f : f = [n \in 0..(k - 1) |-> base[k]]
      OBVIOUS
    <3>4. f \in [0..(k - 1) -> S] /\ \A n \in 0..(k - 1) : f[n] = By(f, n)
      BY <3>2, <3>3
    <3> QED
      BY <2>3, <3>1, <3>4
  <2>5. CASE k # 0
    <3>0. k - 1 \in Nat /\ ~(k <= k - 1)
      BY <2>2, <2>5
    <3>1. k - 1 \in Nat /\ k - 1 \notin T
      BY <2>1, <3>0, Zenon
    <3>2. PICK f : Upto(k - 1, f)
      BY <3>1
    <3>3. prev[k] < k => f[prev[k]] \in S
      <4>1. prev[k] < k => prev[k] \in 0..(k - 1)
        BY <2>2
      <4> QED
        BY <3>2, <4>1
    <3>4. (IF prev[k] < k THEN next[k][f[prev[k]]] ELSE base[k]) \in S
      BY <2>2, <3>3
    <3> QED
      BY <2>3, <3>2, <3>4
  <2> QED
    BY <2>4, <2>5
<1> DEFINE at == [k \in Nat |-> CHOOSE f : Upto(k, f)]
           whole == [n \in Nat |-> at[n][n]]
<1>2. \A k \in Nat : Upto(k, at[k])
  BY <1>1
<1> HIDE DEF at
<1>3. \A k, n \in Nat : n <= k => at[k][n] = at[n][n]
  <2> DEFINE D == {n \in Nat : \E k \in Nat : n <= k /\ at[k][n] # at[n][n]}
  <2>1. D = {}
    <3> SUFFICES ASSUME D # {} PROVE FALSE
      OBVIOUS
    <3>1. PICK n \in D : \A m \in D : n <= m
      BY FirstOf
    <3>2. PICK k \in Nat : n <= k /\ at[k][n] # at[n][n]
      BY <3>1
    <3>3. n \in Nat /\ n \in 0..k /\ n \in 0..n
      BY <3>1, <3>2
    <3>4. at[k][n] = By(at[k], n) /\ at[n][n] = By(at[n], n)
      BY <1>2, <3>2, <3>3
    <3>5. prev[n] < n => at[k][prev[n]] = at[n][prev[n]]
      <4>1. prev[n] < n => prev[n] \in Nat /\ prev[n] \notin D /\ prev[n] <= k /\ prev[n] <= n
        BY <3>1, <3>2, <3>3
      <4> QED
        BY <3>2, <3>3, <4>1
    <3> QED
      BY <3>2, <3>4, <3>5
  <2> QED
    BY <2>1
<1>4. whole \in [Nat -> S]
  <2>1. ASSUME NEW n \in Nat PROVE at[n][n] \in S
    <3>1. n \in 0..n /\ at[n] \in [0..n -> S]
      BY <1>2
    <3> QED
      BY <3>1
  <2> QED
    BY <2>1
<1>5. ASSUME NEW n \in Nat PROVE whole[n] = By(whole, n)
  <2>1. n \in 0..n /\ prev[n] \in Nat
    OBVIOUS
  <2>2. at[n][n] = By(at[n], n)
    BY <1>2, <2>1
  <2>3. prev[n] < n => at[n][prev[n]] = at[prev[n]][prev[n]]
    BY <1>3, <2>1
  <2> QED
    BY <2>1, <2>2, <2>3
<1>6. Recursive(whole, base, next, prev)
  BY <1>5 DEF Recursive
<1> QED
  BY <1>4, <1>6

LEMMA DigitFacts ==
  /\ \A k \in 0..9 : Digits[k + 1] \in Sign
  /\ \A j, k \in 0..9 : Digits[j + 1] = Digits[k + 1] => j = k
<1>0. /\ Digits[1] = "0" /\ Digits[2] = "1" /\ Digits[3] = "2" /\ Digits[4] = "3"
      /\ Digits[5] = "4" /\ Digits[6] = "5" /\ Digits[7] = "6" /\ Digits[8] = "7"
      /\ Digits[9] = "8" /\ Digits[10] = "9"
  BY DEF Digits
<1>1. \A k \in 1..10 : Digits[k] \in Sign
  BY <1>0 DEF Sign
<1>2. \A j, k \in 1..10 : Digits[j] = Digits[k] => j = k
  BY <1>0
<1>3. \A k \in 0..9 : k + 1 \in 1..10
  OBVIOUS
<1>4. ASSUME NEW j \in 0..9, NEW k \in 0..9, Digits[j + 1] = Digits[k + 1] PROVE j = k
  <2>1. j + 1 = k + 1
    BY <1>2, <1>3, <1>4, Zenon
  <2> QED
    BY <2>1
<1> QED
  BY <1>1, <1>3, <1>4

LEMMA TenFacts ==
  ASSUME NEW n \in Nat
  PROVE  /\ n % 10 \in 0..9 /\ n \div 10 \in Nat
         /\ n = 10 * (n \div 10) + (n % 10)
         /\ n >= 10 => n \div 10 < n
<1>1. n % 10 \in 0..9 /\ n \div 10 \in Nat
  OBVIOUS
<1>2. n = 10 * (n \div 10) + (n % 10)
  OBVIOUS
<1>3. n >= 10 => n \div 10 < n
  OBVIOUS
<1> QED
  BY <1>1, <1>2, <1>3

LEMMA SignSequences ==
  /\ \A x \in Sign : <<x>> \in Seq(Sign) /\ <<x>> # <<>>
  /\ \A s \in Seq(Sign), x \in Sign : Append(s, x) \in Seq(Sign) /\ Append(s, x) # <<>>
  /\ \A x, y \in Sign : <<x>> = <<y>> => x = y
  /\ \A s \in Seq(Sign), x, y \in Sign : s # <<>> => <<x>> # Append(s, y)
  /\ \A s, t \in Seq(Sign), x, y \in Sign : Append(s, x) = Append(t, y) => s = t /\ x = y
<1>0. \A x \in Sign : <<x>> \in Seq(Sign) /\ <<x>> # <<>>
  OBVIOUS
<1>1. \A s \in Seq(Sign), x \in Sign : Append(s, x) \in Seq(Sign) /\ Append(s, x) # <<>>
  BY AppendProperties
<1>2. \A x, y \in Sign : <<x>> = <<y>> => x = y
  OBVIOUS
<1>3. ASSUME NEW s \in Seq(Sign), NEW x \in Sign, NEW y \in Sign, s # <<>>, <<x>> = Append(s, y)
      PROVE  FALSE
  <2>1. Len(Append(s, y)) = Len(s) + 1 /\ Len(s) # 0 /\ Len(s) \in Nat
    BY <1>3, EmptySeq
  <2>2. Len(<<x>>) = 1
    OBVIOUS
  <2> QED
    BY <1>3, <2>1, <2>2
<1>4. ASSUME NEW s \in Seq(Sign), NEW t \in Seq(Sign), NEW x \in Sign, NEW y \in Sign,
             Append(s, x) = Append(t, y)
      PROVE  s = t /\ x = y
  BY <1>4, AppendInjective
<1> QED
  BY <1>0, <1>1, <1>2, <1>3, <1>4

LEMMA DecimalEquation ==
  \A n \in Nat : ToDecimal[n] =
    IF n < 10 THEN <<Digits[n + 1]>> ELSE Append(ToDecimal[n \div 10], Digits[(n % 10) + 1])
<1> DEFINE F(f) == [n \in Nat |-> IF n < 10 THEN <<Digits[n + 1]>>
                                  ELSE Append(f[n \div 10], Digits[(n % 10) + 1])]
           base == [n \in Nat |-> <<Digits[(n % 10) + 1]>>]
           next == [n \in Nat |-> [s \in Seq(Sign) |-> Append(s, Digits[(n % 10) + 1])]]
           prev == [n \in Nat |-> IF n < 10 THEN n ELSE n \div 10]
<1>1. \A n \in Nat : Digits[(n % 10) + 1] \in Sign
  BY TenFacts, DigitFacts
<1>2. /\ base \in [Nat -> Seq(Sign)] /\ next \in [Nat -> [Seq(Sign) -> Seq(Sign)]]
      /\ prev \in [Nat -> Nat]
  BY <1>1, TenFacts, SignSequences
<1>3. PICK f \in [Nat -> Seq(Sign)] :
        \A n \in Nat : f[n] = IF prev[n] < n THEN next[n][f[prev[n]]] ELSE base[n]
  <2>1. PICK S : S = Seq(Sign)
    OBVIOUS
  <2>2. PICK b \in [Nat -> S] : b = base
    BY <1>2, <2>1
  <2>3. PICK x \in [Nat -> [S -> S]] : x = next
    BY <1>2, <2>1
  <2>4. PICK p \in [Nat -> Nat] : p = prev
    BY <1>2
  <2>5. PICK g \in [Nat -> S] : Recursive(g, b, x, p)
    BY RecursionExists
  <2> QED
    BY <2>1, <2>2, <2>3, <2>4, <2>5 DEF Recursive
<1>4. ASSUME NEW n \in Nat PROVE f[n] = F(f)[n]
  <2>1. CASE n < 10
    <3>1. n % 10 = n /\ ~(prev[n] < n)
      BY <2>1
    <3> QED
      BY <1>3, <2>1, <3>1
  <2>2. CASE ~(n < 10)
    <3>1. n \div 10 \in Nat /\ n \div 10 < n /\ prev[n] = n \div 10
      BY <2>2, TenFacts
    <3>2. f[n \div 10] \in Seq(Sign)
      BY <3>1
    <3>3. f[n] = next[n][f[n \div 10]]
      BY <1>3, <3>1
    <3> QED
      BY <2>2, <3>2, <3>3
  <2> QED
    BY <2>1, <2>2
<1>5. f = F(f)
  BY <1>4
<1>6. ToDecimal = CHOOSE g : g = F(g)
  BY DEF ToDecimal
<1> HIDE DEF F
<1>7. ToDecimal = F(ToDecimal)
  BY <1>5, <1>6
<1> QED
  BY <1>7 DEF F

LEMMA DecimalDiffers ==
  /\ \A n \in Nat : ToDecimal[n] \in Seq(Sign) /\ ToDecimal[n] # <<>>
  /\ \A n, m \in Nat : ToDecimal[n] = ToDecimal[m] => n = m
<1> DEFINE T == {n \in Nat : ~(ToDecimal[n] \in Seq(Sign) /\ ToDecimal[n] # <<>>)}
           D == {n \in Nat : \E m \in Nat : ToDecimal[n] = ToDecimal[m] /\ n # m}
<1>1. \A n \in Nat : n < 10 => n \in 0..9
  OBVIOUS
<1>2. \A n \in Nat : Digits[(n % 10) + 1] \in Sign
  BY TenFacts, DigitFacts
<1>3. \A n \in Nat : n < 10 => Digits[n + 1] \in Sign
  BY <1>1, DigitFacts
<1>4. T = {}
  <2> SUFFICES ASSUME T # {} PROVE FALSE
    OBVIOUS
  <2>1. PICK n \in T : \A m \in T : n <= m
    BY FirstOf
  <2>2. n \in Nat /\ ~(ToDecimal[n] \in Seq(Sign) /\ ToDecimal[n] # <<>>)
    BY <2>1
  <2>3. n < 10 => <<Digits[n + 1]>> \in Seq(Sign) /\ <<Digits[n + 1]>> # <<>>
    BY <1>3, <2>2, SignSequences
  <2>4. ~(n < 10)
    BY <2>2, <2>3, DecimalEquation
  <2>5. n \div 10 \in Nat /\ n \div 10 < n
    BY <2>2, <2>4, TenFacts
  <2>6. ToDecimal[n \div 10] \in Seq(Sign)
    BY <2>1, <2>5
  <2>7. ToDecimal[n] = Append(ToDecimal[n \div 10], Digits[(n % 10) + 1])
    BY <2>2, <2>4, DecimalEquation
  <2> QED
    <3>1. PICK x \in Sign : x = Digits[(n % 10) + 1]
      BY <1>2, <2>2
    <3>2. PICK s \in Seq(Sign) : s = ToDecimal[n \div 10]
      BY <2>6
    <3>3. ToDecimal[n] = Append(s, x)
      BY <2>7, <3>1, <3>2
    <3>4. Append(s, x) \in Seq(Sign) /\ Append(s, x) # <<>>
      BY SignSequences, Zenon
    <3> QED
      BY <2>2, <3>3, <3>4
<1>5. \A n \in Nat : ToDecimal[n] \in Seq(Sign) /\ ToDecimal[n] # <<>>
  BY <1>4
<1>6. ASSUME NEW n \in Nat, NEW m \in Nat, ToDecimal[n] = ToDecimal[m], n < 10
      PROVE  n = m
  <2>1. ToDecimal[n] = <<Digits[n + 1]>> /\ Digits[n + 1] \in Sign
    BY <1>3, <1>6, DecimalEquation
  <2>2. m < 10
    <3> SUFFICES ASSUME ~(m < 10) PROVE FALSE
      OBVIOUS
    <3>1. ToDecimal[m] = Append(ToDecimal[m \div 10], Digits[(m % 10) + 1]) /\ m \div 10 \in Nat
      BY DecimalEquation, TenFacts
    <3> QED
      <4>1. PICK y \in Sign : y = Digits[(m % 10) + 1]
        BY <1>2
      <4>2. PICK t \in Seq(Sign) : t # <<>> /\ t = ToDecimal[m \div 10]
        BY <1>5, <3>1
      <4>3. PICK x \in Sign : x = Digits[n + 1]
        BY <2>1
      <4>4. <<x>> = Append(t, y)
        BY <1>6, <2>1, <3>1, <4>1, <4>2, <4>3
      <4> QED
        BY <4>2, <4>4, SignSequences, Zenon
  <2>3. ToDecimal[m] = <<Digits[m + 1]>> /\ Digits[m + 1] \in Sign
    BY <1>3, <2>2, DecimalEquation
  <2>4. Digits[n + 1] = Digits[m + 1]
    BY <1>6, <2>1, <2>3, SignSequences, Zenon
  <2> QED
    BY <1>1, <1>6, <2>2, <2>4, DigitFacts
<1>7. D = {}
  <2> SUFFICES ASSUME D # {} PROVE FALSE
    OBVIOUS
  <2>1. PICK n \in D : \A m \in D : n <= m
    BY FirstOf
  <2>2. PICK m \in Nat : ToDecimal[n] = ToDecimal[m] /\ n # m
    BY <2>1
  <2>3. n \in Nat /\ ~(n < 10) /\ ~(m < 10)
    BY <1>6, <2>1, <2>2
  <2>4. /\ ToDecimal[n] = Append(ToDecimal[n \div 10], Digits[(n % 10) + 1])
        /\ ToDecimal[m] = Append(ToDecimal[m \div 10], Digits[(m % 10) + 1])
    BY <2>2, <2>3, DecimalEquation
  <2>5. n \div 10 \in Nat /\ m \div 10 \in Nat /\ n \div 10 < n
    BY <2>2, <2>3, TenFacts
  <2>6. ToDecimal[n \div 10] = ToDecimal[m \div 10] /\ Digits[(n % 10) + 1] = Digits[(m % 10) + 1]
    <3>1. /\ Digits[(n % 10) + 1] \in Sign /\ Digits[(m % 10) + 1] \in Sign
          /\ ToDecimal[n \div 10] \in Seq(Sign) /\ ToDecimal[m \div 10] \in Seq(Sign)
      BY <1>2, <1>5, <2>2, <2>3, <2>5
    <3>2. PICK x \in Sign : x = Digits[(n % 10) + 1]
      BY <3>1
    <3>3. PICK y \in Sign : y = Digits[(m % 10) + 1]
      BY <3>1
    <3>4. PICK s \in Seq(Sign) : s = ToDecimal[n \div 10]
      BY <3>1
    <3>5. PICK t \in Seq(Sign) : t = ToDecimal[m \div 10]
      BY <3>1
    <3>6. Append(s, x) = Append(t, y)
      BY <2>2, <2>4, <3>2, <3>3, <3>4, <3>5
    <3>7. s = t /\ x = y
      BY <3>6, SignSequences
    <3> QED
      BY <3>2, <3>3, <3>4, <3>5, <3>7
  <2>7. n % 10 = m % 10
    BY <2>2, <2>3, <2>6, TenFacts, DigitFacts
  <2>8. n \div 10 = m \div 10
    <3>1. n \div 10 \notin D
      BY <2>1, <2>3, <2>5
    <3> QED
      BY <2>5, <2>6, <3>1
  <2> QED
    BY <2>2, <2>3, <2>7, <2>8, TenFacts
<1> QED
  BY <1>5, <1>7

LEMMA QuotientFacts ==
  ASSUME NEW n \in Nat, n > 0, NEW k \in Nat, k > 0
  PROVE  /\ (n - 1) % k \in 0..(k - 1) /\ (n - 1) \div k \in Nat
         /\ n - 1 = k * ((n - 1) \div k) + ((n - 1) % k)
         /\ (n - 1) \div k < n
<1>0. PICK m \in Nat : m = n - 1
  OBVIOUS
<1>1. m % k \in 0..(k - 1) /\ m \div k \in Nat
  OBVIOUS
<1>2. m = k * (m \div k) + (m % k)
  OBVIOUS
<1>3. m \div k <= m
  OBVIOUS
<1>4. m \div k < n
  BY <1>0, <1>1, <1>3
<1> QED
  BY <1>0, <1>1, <1>2, <1>4

LEMMA AlphaEquation ==
  \A n \in Nat : ToAlpha[n] =
    IF n = 0 THEN <<>>
    ELSE Append(ToAlpha[(n - 1) \div Len(Alphabet)], Alphabet[((n - 1) % Len(Alphabet)) + 1])
<1> DEFINE F(f) == [n \in Nat |-> IF n = 0 THEN <<>>
                       ELSE Append(f[(n - 1) \div Len(Alphabet)],
                                   Alphabet[((n - 1) % Len(Alphabet)) + 1])]
           base == [n \in Nat |-> <<>>]
           next == [n \in Nat |-> [s \in Seq(Sign) |->
                      IF n = 0 THEN <<>>
                      ELSE Append(s, Alphabet[((n - 1) % Len(Alphabet)) + 1])]]
           prev == [n \in Nat |-> IF n = 0 THEN 0 ELSE (n - 1) \div Len(Alphabet)]
<1>1. Len(Alphabet) \in Nat /\ Len(Alphabet) > 0 /\ DOMAIN Alphabet = 1..Len(Alphabet)
  BY NumberingAssumption, EmptySeq
<1>2. \A n \in Nat : n # 0 => Alphabet[((n - 1) % Len(Alphabet)) + 1] \in Sign
  <2>1. ASSUME NEW n \in Nat, n # 0 PROVE Alphabet[((n - 1) % Len(Alphabet)) + 1] \in Sign
    <3>1. PICK k \in Nat : k > 0 /\ k = Len(Alphabet)
      BY <1>1
    <3>2. (n - 1) % k \in 0..(k - 1)
      BY <2>1, <3>1, QuotientFacts
    <3>3. ((n - 1) % k) + 1 \in 1..k
      BY <3>1, <3>2
    <3> QED
      BY <1>1, <3>1, <3>3 DEF Sign, Letters
  <2> QED
    BY <2>1
<1>3. \A n \in Nat : n # 0 =>
        (n - 1) \div Len(Alphabet) \in Nat /\ (n - 1) \div Len(Alphabet) < n
  <2>1. ASSUME NEW n \in Nat, n # 0
        PROVE  (n - 1) \div Len(Alphabet) \in Nat /\ (n - 1) \div Len(Alphabet) < n
    <3>1. PICK k \in Nat : k > 0 /\ k = Len(Alphabet)
      BY <1>1
    <3> QED
      BY <2>1, <3>1, QuotientFacts
  <2> QED
    BY <2>1
<1>4. <<>> \in Seq(Sign)
  OBVIOUS
<1>5. /\ base \in [Nat -> Seq(Sign)] /\ next \in [Nat -> [Seq(Sign) -> Seq(Sign)]]
      /\ prev \in [Nat -> Nat]
  BY <1>2, <1>3, <1>4, SignSequences
<1>6. PICK f \in [Nat -> Seq(Sign)] :
        \A n \in Nat : f[n] = IF prev[n] < n THEN next[n][f[prev[n]]] ELSE base[n]
  <2>1. PICK S : S = Seq(Sign)
    OBVIOUS
  <2>2. PICK b \in [Nat -> S] : b = base
    BY <1>5, <2>1
  <2>3. PICK x \in [Nat -> [S -> S]] : x = next
    BY <1>5, <2>1
  <2>4. PICK p \in [Nat -> Nat] : p = prev
    BY <1>5
  <2>5. PICK g \in [Nat -> S] : Recursive(g, b, x, p)
    BY RecursionExists
  <2> QED
    BY <2>1, <2>2, <2>3, <2>4, <2>5 DEF Recursive
<1>7. ASSUME NEW n \in Nat PROVE f[n] = F(f)[n]
  <2>1. CASE n = 0
    <3>1. ~(prev[n] < n) /\ base[n] = <<>>
      BY <2>1
    <3> QED
      BY <1>6, <2>1, <3>1
  <2>2. CASE n # 0
    <3>1. prev[n] = (n - 1) \div Len(Alphabet) /\ prev[n] \in Nat /\ prev[n] < n
      BY <1>3, <2>2
    <3>2. f[prev[n]] \in Seq(Sign)
      BY <3>1
    <3>3. f[n] = next[n][f[prev[n]]]
      BY <1>6, <3>1
    <3>4. next[n][f[prev[n]]] = Append(f[prev[n]], Alphabet[((n - 1) % Len(Alphabet)) + 1])
      BY <2>2, <3>2
    <3> QED
      BY <2>2, <3>1, <3>3, <3>4
  <2> QED
    BY <2>1, <2>2
<1>8. f = F(f)
  BY <1>7
<1>9. ToAlpha = CHOOSE g : g = F(g)
  BY DEF ToAlpha
<1> HIDE DEF F
<1>10. ToAlpha = F(ToAlpha)
  BY <1>8, <1>9
<1> QED
  BY <1>10 DEF F

LEMMA AlphaDiffers ==
  /\ \A n \in Nat : ToAlpha[n] \in Seq(Sign) /\ (n # 0 => ToAlpha[n] # <<>>)
  /\ \A n, m \in Nat : ToAlpha[n] = ToAlpha[m] => n = m
<1>0. PICK k \in Nat : k > 0 /\ k = Len(Alphabet) /\ DOMAIN Alphabet = 1..k
  BY NumberingAssumption, EmptySeq
<1> DEFINE letter(n) == Alphabet[((n - 1) % k) + 1]
           before(n) == (n - 1) \div k
           T == {n \in Nat : ToAlpha[n] \notin Seq(Sign)}
           D == {n \in Nat : \E m \in Nat : ToAlpha[n] = ToAlpha[m] /\ n # m}
<1>1. ASSUME NEW n \in Nat, n # 0
      PROVE  /\ letter(n) \in Sign /\ before(n) \in Nat /\ before(n) < n
             /\ (n - 1) % k \in 0..(k - 1) /\ n - 1 = k * before(n) + ((n - 1) % k)
  <2>1. (n - 1) % k \in 0..(k - 1) /\ before(n) \in Nat /\ before(n) < n
    BY <1>0, <1>1, QuotientFacts
  <2>2. n - 1 = k * before(n) + ((n - 1) % k)
    BY <1>0, <1>1, QuotientFacts
  <2>3. ((n - 1) % k) + 1 \in 1..k
    BY <1>0, <2>1
  <2>4. letter(n) \in Sign
    BY <1>0, <2>3 DEF Sign, Letters
  <2> QED
    BY <2>1, <2>2, <2>4
<1>2. \A n \in Nat : n # 0 => ToAlpha[n] = Append(ToAlpha[before(n)], letter(n))
  BY <1>0, AlphaEquation
<1>3. ToAlpha[0] = <<>> /\ <<>> \in Seq(Sign)
  <2>1. ToAlpha[0] = <<>>
    BY AlphaEquation, Zenon
  <2> QED
    BY <2>1
<1> HIDE DEF letter, before
<1>4. T = {}
  <2> SUFFICES ASSUME T # {} PROVE FALSE
    OBVIOUS
  <2>1. PICK n \in T : \A m \in T : n <= m
    BY FirstOf
  <2>2. n \in Nat /\ n # 0 /\ ToAlpha[n] \notin Seq(Sign)
    BY <1>3, <2>1
  <2>3. before(n) \in Nat /\ before(n) < n /\ letter(n) \in Sign
    BY <1>1, <2>2
  <2>4. ToAlpha[before(n)] \in Seq(Sign)
    BY <2>1, <2>2, <2>3
  <2>5. PICK s \in Seq(Sign) : s = ToAlpha[before(n)]
    BY <2>4
  <2>6. PICK x \in Sign : x = letter(n)
    BY <2>3
  <2>7. Append(s, x) \in Seq(Sign)
    BY SignSequences, Zenon
  <2> QED
    BY <1>2, <2>2, <2>5, <2>6, <2>7
<1>5. \A n \in Nat : ToAlpha[n] \in Seq(Sign)
  BY <1>4
<1>6. ASSUME NEW n \in Nat, n # 0 PROVE ToAlpha[n] # <<>>
  <2>1. before(n) \in Nat /\ letter(n) \in Sign
    BY <1>1, <1>6
  <2>2. PICK s \in Seq(Sign) : s = ToAlpha[before(n)]
    BY <1>5, <2>1
  <2>3. PICK x \in Sign : x = letter(n)
    BY <2>1
  <2>4. Append(s, x) # <<>>
    BY SignSequences, Zenon
  <2> QED
    BY <1>2, <1>6, <2>2, <2>3, <2>4
<1>7. D = {}
  <2> SUFFICES ASSUME D # {} PROVE FALSE
    OBVIOUS
  <2>1. PICK n \in D : \A m \in D : n <= m
    BY FirstOf
  <2>2. PICK m \in Nat : ToAlpha[n] = ToAlpha[m] /\ n # m
    BY <2>1
  <2>3. n \in Nat /\ n # 0 /\ m # 0
    BY <1>3, <1>6, <2>1, <2>2
  <2>4. /\ before(n) \in Nat /\ before(n) < n /\ letter(n) \in Sign
        /\ before(m) \in Nat /\ letter(m) \in Sign
    BY <1>1, <2>2, <2>3
  <2>5. PICK s \in Seq(Sign) : s = ToAlpha[before(n)]
    BY <1>5, <2>4
  <2>6. PICK t \in Seq(Sign) : t = ToAlpha[before(m)]
    BY <1>5, <2>4
  <2>7. PICK x \in Sign : x = letter(n)
    BY <2>4
  <2>8. PICK y \in Sign : y = letter(m)
    BY <2>4
  <2>9. Append(s, x) = Append(t, y)
    BY <1>2, <2>2, <2>3, <2>5, <2>6, <2>7, <2>8
  <2>10. s = t /\ x = y
    BY <2>9, SignSequences
  <2>11. before(n) = before(m)
    <3>1. before(n) \notin D
      BY <2>1, <2>3, <2>4
    <3> QED
      BY <2>4, <2>5, <2>6, <2>10, <3>1
  <2>12. (n - 1) % k = (m - 1) % k
    <3>1. PICK i \in 0..(k - 1) : i = (n - 1) % k
      BY <1>1, <2>3
    <3>2. PICK j \in 0..(k - 1) : j = (m - 1) % k
      BY <1>1, <2>2, <2>3
    <3>3. Alphabet[i + 1] = Alphabet[j + 1]
      BY <2>7, <2>8, <2>10, <3>1, <3>2 DEF letter
    <3>4. i + 1 \in 1..k /\ j + 1 \in 1..k
      BY <1>0
    <3>5. i + 1 = j + 1
      BY <1>0, <3>3, <3>4, NumberingAssumption, Zenon
    <3> QED
      BY <3>1, <3>2, <3>5
  <2>13. n - 1 = k * before(n) + ((n - 1) % k) /\ m - 1 = k * before(m) + ((m - 1) % k)
    BY <1>1, <2>2, <2>3
  <2>14. n - 1 = m - 1
    BY <2>11, <2>12, <2>13
  <2> QED
    BY <2>2, <2>3, <2>14
<1> QED
  BY <1>5, <1>6, <1>7

LEMMA LargestFacts ==
  ASSUME NEW n \in Nat, n > 0
  PROVE  /\ Largest(n) \in Amounts /\ Largest(n) \in Nat /\ Largest(n) > 0 /\ Largest(n) <= n
         /\ \A b \in Amounts : b <= n => b <= Largest(n)
<1> DEFINE T == {j \in Nat : 1000 - j \in Amounts /\ 1000 - j <= n}
<1>1. \A a \in Amounts : a \in Nat /\ a > 0 /\ a <= 1000
  BY DEF Amounts
<1>2. 999 \in T
  BY DEF Amounts
<1>3. PICK j \in T : \A i \in T : j <= i
  <2>1. T \in SUBSET Nat
    OBVIOUS
  <2> HIDE DEF T
  <2> QED
    BY <1>2, <2>1, FirstOf
<1>4. PICK a : a = 1000 - j
  OBVIOUS
<1>5. a \in Amounts /\ a <= n
  BY <1>3, <1>4
<1>6. ASSUME NEW b \in Amounts, b <= n PROVE b <= a
  <2>1. 1000 - b \in T
    BY <1>1, <1>6
  <2> QED
    BY <1>1, <1>3, <1>4, <2>1
<1>7. \E e \in Amounts : e <= n /\ \A b \in Amounts : b <= n => b <= e
  BY <1>5, <1>6
<1>8. /\ Largest(n) \in Amounts /\ Largest(n) <= n
      /\ \A b \in Amounts : b <= n => b <= Largest(n)
  BY <1>7 DEF Largest
<1> QED
  BY <1>1, <1>8

LEMMA FewSigns ==
  /\ \A w, x : x \in Sign /\ w = <<x>> => w \in Seq(Sign) /\ Len(w) = 1 /\ w[1] = x
  /\ \A w, x, y : x \in Sign /\ y \in Sign /\ w = <<x, y>> =>
       w \in Seq(Sign) /\ Len(w) = 2 /\ w[1] = x /\ w[2] = y
<1>1. \A w, x : x \in Sign /\ w = <<x>> => w \in Seq(Sign) /\ Len(w) = 1 /\ w[1] = x
  OBVIOUS
<1>2. \A w, x, y : x \in Sign /\ y \in Sign /\ w = <<x, y>> =>
       w \in Seq(Sign) /\ Len(w) = 2 /\ w[1] = x /\ w[2] = y
  OBVIOUS
<1> QED
  BY <1>1, <1>2

(* What the first sign tells of an amount, and what the second one tells. *)
LEMMA NumeralSigns ==
  ASSUME NEW a \in Amounts
  PROVE  /\ Numeral(a) \in Seq(Sign) /\ Len(Numeral(a)) \in {1, 2}
         /\ Len(Numeral(a)) = 2 <=> a \in {4, 9, 40, 90, 400, 900}
         /\ Numeral(a)[1] = "i" <=> a \in {1, 4, 9}
         /\ Numeral(a)[1] = "v" <=> a = 5
         /\ Numeral(a)[1] = "x" <=> a \in {10, 40, 90}
         /\ Numeral(a)[1] = "l" <=> a = 50
         /\ Numeral(a)[1] = "c" <=> a \in {100, 400, 900}
         /\ Numeral(a)[1] = "d" <=> a = 500
         /\ Numeral(a)[1] = "m" <=> a = 1000
         /\ a = 4 => Numeral(a)[2] = "v"
         /\ a \in {9, 40, 90} =>
              Numeral(a)[2] = IF a = 9 THEN "x" ELSE IF a = 40 THEN "l" ELSE "c"
         /\ a \in {400, 900} => Numeral(a)[2] = IF a = 400 THEN "d" ELSE "m"
<1>1. CASE a = 1
  <2>1. "i" \in Sign
    BY DEF Sign
  <2>2. Numeral(a) = <<"i">>
    BY <1>1 DEF Numeral
  <2>3. Numeral(a) \in Seq(Sign) /\ Len(Numeral(a)) = 1 /\ Numeral(a)[1] = "i"
    BY <2>1, <2>2, FewSigns, Zenon
  <2>4. Len(Numeral(a)) \in {1, 2}
    BY <2>3
  <2>5. a \notin {4, 9, 40, 90, 400, 900}
    BY <1>1
  <2>6. Len(Numeral(a)) # 2
    BY <2>3
  <2> QED
    BY <1>1, <2>3, <2>4, <2>5, <2>6
<1>2. CASE a = 4
  <2>1. "i" \in Sign /\ "v" \in Sign
    BY DEF Sign
  <2>2. Numeral(a) = <<"i", "v">>
    BY <1>2 DEF Numeral
  <2>3. /\ Numeral(a) \in Seq(Sign) /\ Len(Numeral(a)) = 2
        /\ Numeral(a)[1] = "i" /\ Numeral(a)[2] = "v"
    BY <2>1, <2>2, FewSigns, Zenon
  <2>4. Len(Numeral(a)) \in {1, 2}
    BY <2>3
  <2>5. Len(Numeral(a)) = 2 <=> a \in {4, 9, 40, 90, 400, 900}
    BY <1>2, <2>3
  <2> QED
    BY <1>2, <2>3, <2>4, <2>5
<1>3. CASE a = 5
  <2>1. "v" \in Sign
    BY DEF Sign
  <2>2. Numeral(a) = <<"v">>
    BY <1>3 DEF Numeral
  <2>3. Numeral(a) \in Seq(Sign) /\ Len(Numeral(a)) = 1 /\ Numeral(a)[1] = "v"
    BY <2>1, <2>2, FewSigns, Zenon
  <2>4. Len(Numeral(a)) \in {1, 2}
    BY <2>3
  <2>5. a \notin {4, 9, 40, 90, 400, 900}
    BY <1>3
  <2>6. Len(Numeral(a)) # 2
    BY <2>3
  <2> QED
    BY <1>3, <2>3, <2>4, <2>5, <2>6
<1>4. CASE a = 9
  <2>1. "i" \in Sign /\ "x" \in Sign
    BY DEF Sign
  <2>2. Numeral(a) = <<"i", "x">>
    BY <1>4 DEF Numeral
  <2>3. /\ Numeral(a) \in Seq(Sign) /\ Len(Numeral(a)) = 2
        /\ Numeral(a)[1] = "i" /\ Numeral(a)[2] = "x"
    BY <2>1, <2>2, FewSigns, Zenon
  <2>4. Len(Numeral(a)) \in {1, 2}
    BY <2>3
  <2>5. Len(Numeral(a)) = 2 <=> a \in {4, 9, 40, 90, 400, 900}
    BY <1>4, <2>3
  <2> QED
    BY <1>4, <2>3, <2>4, <2>5
<1>5. CASE a = 10
  <2>1. "x" \in Sign
    BY DEF Sign
  <2>2. Numeral(a) = <<"x">>
    BY <1>5 DEF Numeral
  <2>3. Numeral(a) \in Seq(Sign) /\ Len(Numeral(a)) = 1 /\ Numeral(a)[1] = "x"
    BY <2>1, <2>2, FewSigns, Zenon
  <2>4. Len(Numeral(a)) \in {1, 2}
    BY <2>3
  <2>5. a \notin {4, 9, 40, 90, 400, 900}
    BY <1>5
  <2>6. Len(Numeral(a)) # 2
    BY <2>3
  <2> QED
    BY <1>5, <2>3, <2>4, <2>5, <2>6
<1>6. CASE a = 40
  <2>1. "x" \in Sign /\ "l" \in Sign
    BY DEF Sign
  <2>2. Numeral(a) = <<"x", "l">>
    BY <1>6 DEF Numeral
  <2>3. /\ Numeral(a) \in Seq(Sign) /\ Len(Numeral(a)) = 2
        /\ Numeral(a)[1] = "x" /\ Numeral(a)[2] = "l"
    BY <2>1, <2>2, FewSigns, Zenon
  <2>4. Len(Numeral(a)) \in {1, 2}
    BY <2>3
  <2>5. Len(Numeral(a)) = 2 <=> a \in {4, 9, 40, 90, 400, 900}
    BY <1>6, <2>3
  <2> QED
    BY <1>6, <2>3, <2>4, <2>5
<1>7. CASE a = 50
  <2>1. "l" \in Sign
    BY DEF Sign
  <2>2. Numeral(a) = <<"l">>
    BY <1>7 DEF Numeral
  <2>3. Numeral(a) \in Seq(Sign) /\ Len(Numeral(a)) = 1 /\ Numeral(a)[1] = "l"
    BY <2>1, <2>2, FewSigns, Zenon
  <2>4. Len(Numeral(a)) \in {1, 2}
    BY <2>3
  <2>5. a \notin {4, 9, 40, 90, 400, 900}
    BY <1>7
  <2>6. Len(Numeral(a)) # 2
    BY <2>3
  <2> QED
    BY <1>7, <2>3, <2>4, <2>5, <2>6
<1>8. CASE a = 90
  <2>1. "x" \in Sign /\ "c" \in Sign
    BY DEF Sign
  <2>2. Numeral(a) = <<"x", "c">>
    BY <1>8 DEF Numeral
  <2>3. /\ Numeral(a) \in Seq(Sign) /\ Len(Numeral(a)) = 2
        /\ Numeral(a)[1] = "x" /\ Numeral(a)[2] = "c"
    BY <2>1, <2>2, FewSigns, Zenon
  <2>4. Len(Numeral(a)) \in {1, 2}
    BY <2>3
  <2>5. Len(Numeral(a)) = 2 <=> a \in {4, 9, 40, 90, 400, 900}
    BY <1>8, <2>3
  <2> QED
    BY <1>8, <2>3, <2>4, <2>5
<1>9. CASE a = 100
  <2>1. "c" \in Sign
    BY DEF Sign
  <2>2. Numeral(a) = <<"c">>
    BY <1>9 DEF Numeral
  <2>3. Numeral(a) \in Seq(Sign) /\ Len(Numeral(a)) = 1 /\ Numeral(a)[1] = "c"
    BY <2>1, <2>2, FewSigns, Zenon
  <2>4. Len(Numeral(a)) \in {1, 2}
    BY <2>3
  <2>5. a \notin {4, 9, 40, 90, 400, 900}
    BY <1>9
  <2>6. Len(Numeral(a)) # 2
    BY <2>3
  <2> QED
    BY <1>9, <2>3, <2>4, <2>5, <2>6
<1>10. CASE a = 400
  <2>1. "c" \in Sign /\ "d" \in Sign
    BY DEF Sign
  <2>2. Numeral(a) = <<"c", "d">>
    BY <1>10 DEF Numeral
  <2>3. /\ Numeral(a) \in Seq(Sign) /\ Len(Numeral(a)) = 2
        /\ Numeral(a)[1] = "c" /\ Numeral(a)[2] = "d"
    BY <2>1, <2>2, FewSigns, Zenon
  <2>4. Len(Numeral(a)) \in {1, 2}
    BY <2>3
  <2>5. Len(Numeral(a)) = 2 <=> a \in {4, 9, 40, 90, 400, 900}
    BY <1>10, <2>3
  <2> QED
    BY <1>10, <2>3, <2>4, <2>5
<1>11. CASE a = 500
  <2>1. "d" \in Sign
    BY DEF Sign
  <2>2. Numeral(a) = <<"d">>
    BY <1>11 DEF Numeral
  <2>3. Numeral(a) \in Seq(Sign) /\ Len(Numeral(a)) = 1 /\ Numeral(a)[1] = "d"
    BY <2>1, <2>2, FewSigns, Zenon
  <2>4. Len(Numeral(a)) \in {1, 2}
    BY <2>3
  <2>5. a \notin {4, 9, 40, 90, 400, 900}
    BY <1>11
  <2>6. Len(Numeral(a)) # 2
    BY <2>3
  <2> QED
    BY <1>11, <2>3, <2>4, <2>5, <2>6
<1>12. CASE a = 900
  <2>1. "c" \in Sign /\ "m" \in Sign
    BY DEF Sign
  <2>2. Numeral(a) = <<"c", "m">>
    BY <1>12 DEF Numeral
  <2>3. /\ Numeral(a) \in Seq(Sign) /\ Len(Numeral(a)) = 2
        /\ Numeral(a)[1] = "c" /\ Numeral(a)[2] = "m"
    BY <2>1, <2>2, FewSigns, Zenon
  <2>4. Len(Numeral(a)) \in {1, 2}
    BY <2>3
  <2>5. Len(Numeral(a)) = 2 <=> a \in {4, 9, 40, 90, 400, 900}
    BY <1>12, <2>3
  <2> QED
    BY <1>12, <2>3, <2>4, <2>5
<1>13. CASE a = 1000
  <2>1. "m" \in Sign
    BY DEF Sign
  <2>2. Numeral(a) = <<"m">>
    BY <1>13 DEF Numeral
  <2>3. Numeral(a) \in Seq(Sign) /\ Len(Numeral(a)) = 1 /\ Numeral(a)[1] = "m"
    BY <2>1, <2>2, FewSigns, Zenon
  <2>4. Len(Numeral(a)) \in {1, 2}
    BY <2>3
  <2>5. a \notin {4, 9, 40, 90, 400, 900}
    BY <1>13
  <2>6. Len(Numeral(a)) # 2
    BY <2>3
  <2> QED
    BY <1>13, <2>3, <2>4, <2>5, <2>6
<1> QED
  BY <1>1, <1>2, <1>3, <1>4, <1>5, <1>6, <1>7, <1>8, <1>9, <1>10, <1>11, <1>12, <1>13 DEF Amounts

LEMMA RomanEquation ==
  \A n \in Nat : ToRoman[n] =
    IF n = 0 THEN <<>> ELSE Numeral(Largest(n)) \o ToRoman[n - Largest(n)]
<1> DEFINE F(f) == [n \in Nat |-> IF n = 0 THEN <<>>
                                  ELSE Numeral(Largest(n)) \o f[n - Largest(n)]]
           base == [n \in Nat |-> <<>>]
           next == [n \in Nat |-> [s \in Seq(Sign) |->
                      IF n = 0 THEN <<>> ELSE Numeral(Largest(n)) \o s]]
           prev == [n \in Nat |-> IF n = 0 THEN 0 ELSE n - Largest(n)]
<1>1. \A n \in Nat : n # 0 => n - Largest(n) \in Nat /\ n - Largest(n) < n
  BY LargestFacts
<1>2. \A n \in Nat : n # 0 => Numeral(Largest(n)) \in Seq(Sign)
  BY LargestFacts, NumeralSigns
<1>3. <<>> \in Seq(Sign)
  OBVIOUS
<1>4. base \in [Nat -> Seq(Sign)] /\ prev \in [Nat -> Nat]
  BY <1>1, <1>3
<1>5. next \in [Nat -> [Seq(Sign) -> Seq(Sign)]]
  BY <1>2, <1>3, ConcatProperties
<1>6. PICK f \in [Nat -> Seq(Sign)] :
        \A n \in Nat : f[n] = IF prev[n] < n THEN next[n][f[prev[n]]] ELSE base[n]
  <2>1. PICK S : S = Seq(Sign)
    OBVIOUS
  <2>2. PICK b \in [Nat -> S] : b = base
    BY <1>4, <2>1
  <2>3. PICK x \in [Nat -> [S -> S]] : x = next
    BY <1>5, <2>1
  <2>4. PICK p \in [Nat -> Nat] : p = prev
    BY <1>4
  <2>5. PICK g \in [Nat -> S] : Recursive(g, b, x, p)
    BY RecursionExists
  <2> QED
    BY <2>1, <2>2, <2>3, <2>4, <2>5 DEF Recursive
<1>7. ASSUME NEW n \in Nat PROVE f[n] = F(f)[n]
  <2>1. CASE n = 0
    <3>1. ~(prev[n] < n) /\ base[n] = <<>>
      BY <2>1
    <3> QED
      BY <1>6, <2>1, <3>1
  <2>2. CASE n # 0
    <3>1. prev[n] = n - Largest(n) /\ prev[n] \in Nat /\ prev[n] < n
      BY <1>1, <2>2
    <3>2. f[prev[n]] \in Seq(Sign)
      BY <3>1
    <3>3. f[n] = next[n][f[prev[n]]]
      BY <1>6, <3>1
    <3>4. next[n][f[prev[n]]] = Numeral(Largest(n)) \o f[prev[n]]
      BY <2>2, <3>2
    <3> QED
      BY <2>2, <3>1, <3>3, <3>4
  <2> QED
    BY <2>1, <2>2
<1>8. f = F(f)
  BY <1>7
<1>9. ToRoman = CHOOSE g : g = F(g)
  BY DEF ToRoman
<1> HIDE DEF F
<1>10. ToRoman = F(ToRoman)
  BY <1>8, <1>9
<1> QED
  BY <1>10 DEF F

(* How a number in numerals begins. *)
LEMMA RomanStart ==
  /\ ToRoman[0] = <<>>
  /\ \A n \in Nat : ToRoman[n] \in Seq(Sign)
  /\ \A n \in Nat : n # 0 =>
       /\ n - Largest(n) \in Nat /\ n - Largest(n) < n
       /\ ToRoman[n] = Numeral(Largest(n)) \o ToRoman[n - Largest(n)]
       /\ ToRoman[n] # <<>> /\ ToRoman[n][1] = Numeral(Largest(n))[1]
<1> DEFINE T == {n \in Nat : ToRoman[n] \notin Seq(Sign)}
<1>1. ToRoman[0] = <<>> /\ <<>> \in Seq(Sign)
  <2>1. ToRoman[0] = <<>>
    BY RomanEquation, Zenon
  <2> QED
    BY <2>1
<1>2. ASSUME NEW n \in Nat, n # 0
      PROVE  /\ n - Largest(n) \in Nat /\ n - Largest(n) < n
             /\ ToRoman[n] = Numeral(Largest(n)) \o ToRoman[n - Largest(n)]
             /\ Numeral(Largest(n)) \in Seq(Sign) /\ Len(Numeral(Largest(n))) \in {1, 2}
  <2>1. n - Largest(n) \in Nat /\ n - Largest(n) < n /\ Largest(n) \in Amounts
    BY <1>2, LargestFacts
  <2>2. ToRoman[n] = Numeral(Largest(n)) \o ToRoman[n - Largest(n)]
    BY <1>2, RomanEquation
  <2> QED
    BY <2>1, <2>2, NumeralSigns
<1>3. T = {}
  <2> SUFFICES ASSUME T # {} PROVE FALSE
    OBVIOUS
  <2>1. PICK n \in T : \A m \in T : n <= m
    BY FirstOf
  <2>2. n \in Nat /\ n # 0 /\ ToRoman[n] \notin Seq(Sign)
    BY <1>1, <2>1
  <2>3. PICK s \in Seq(Sign) : s = ToRoman[n - Largest(n)]
    BY <1>2, <2>1, <2>2
  <2>4. PICK w \in Seq(Sign) : w = Numeral(Largest(n))
    BY <1>2, <2>2
  <2>5. w \o s \in Seq(Sign)
    BY ConcatProperties
  <2> QED
    BY <1>2, <2>2, <2>3, <2>4, <2>5
<1>4. \A n \in Nat : ToRoman[n] \in Seq(Sign)
  BY <1>3
<1>5. ASSUME NEW n \in Nat, n # 0
      PROVE  ToRoman[n] # <<>> /\ ToRoman[n][1] = Numeral(Largest(n))[1]
  <2>1. PICK s \in Seq(Sign) : s = ToRoman[n - Largest(n)]
    BY <1>2, <1>4, <1>5
  <2>2. PICK w \in Seq(Sign) : w = Numeral(Largest(n)) /\ Len(w) \in {1, 2}
    BY <1>2, <1>5
  <2>3. w \o s # <<>> /\ (w \o s)[1] = w[1]
    BY <2>2, ConcatProperties, EmptySeq
  <2> QED
    BY <1>2, <1>5, <2>1, <2>2, <2>3
<1> QED
  BY <1>1, <1>2, <1>4, <1>5

LEMMA RomanTaken ==
  ASSUME NEW n \in Nat, n # 0, NEW a, a = Largest(n)
  PROVE  /\ ToRoman[n] = Numeral(a) \o ToRoman[n - a] /\ ToRoman[n][1] = Numeral(a)[1]
         /\ n - a \in Nat /\ n - a < n /\ ToRoman[n - a] \in Seq(Sign)
BY RomanStart

(* What follows a power of ten that was taken off is not above it. *)
LEMMA AfterPower ==
  ASSUME NEW n \in Nat, n # 0, Largest(n) \in {1, 10, 100}, n - Largest(n) # 0
  PROVE  Largest(n - Largest(n)) <= Largest(n)
<1>1. PICK a \in {1, 10, 100} : a = Largest(n)
  OBVIOUS
<1>2. 4 * a \in Amounts
  BY DEF Amounts
<1>3. ~(4 * a <= n) /\ a <= n
  BY <1>1, <1>2, LargestFacts
<1>4. PICK r \in Nat : r = n - a /\ r # 0
  BY <1>1, <1>3
<1>5. PICK e \in Amounts : e = Largest(r) /\ e <= r
  BY <1>4, LargestFacts
<1>6. e < 3 * a
  BY <1>3, <1>4, <1>5 DEF Amounts
<1>7. e <= a
  BY <1>6 DEF Amounts
<1> QED
  BY <1>1, <1>4, <1>5, <1>7

(* Numbers that read alike begin with the same amount. *)
LEMMA SameAmount ==
  ASSUME NEW n \in Nat, NEW m \in Nat, n # 0, m # 0, ToRoman[n] = ToRoman[m]
  PROVE  ~(Largest(n) < Largest(m))
<1> SUFFICES ASSUME Largest(n) < Largest(m) PROVE FALSE
  OBVIOUS
<1>1. PICK a \in Amounts : a = Largest(n)
  BY LargestFacts
<1>2. PICK b \in Amounts : b = Largest(m)
  BY LargestFacts
<1>3. Numeral(a)[1] = Numeral(b)[1] /\ a < b
  <2>1. ToRoman[n][1] = Numeral(a)[1]
    BY <1>1, RomanTaken
  <2>2. ToRoman[m][1] = Numeral(b)[1]
    BY <1>2, RomanTaken
  <2> QED
    BY <1>1, <1>2, <2>1, <2>2
<1>4. \/ a \in {1, 4} /\ b \in {4, 9}
      \/ a \in {10, 40} /\ b \in {40, 90}
      \/ a \in {100, 400} /\ b \in {400, 900}
  <2>1. CASE a \in {1, 4, 9}
    <3>1. b \in {1, 4, 9}
      BY <1>3, <2>1, NumeralSigns
    <3> QED
      BY <1>3, <2>1, <3>1
  <2>2. CASE a \in {10, 40, 90}
    <3>1. b \in {10, 40, 90}
      BY <1>3, <2>2, NumeralSigns
    <3> QED
      BY <1>3, <2>2, <3>1
  <2>3. CASE a \in {100, 400, 900}
    <3>1. b \in {100, 400, 900}
      BY <1>3, <2>3, NumeralSigns
    <3> QED
      BY <1>3, <2>3, <3>1
  <2>4. CASE a \in {5, 50, 500, 1000}
    <3>1. a = b
      BY <1>3, <2>4, NumeralSigns
    <3> QED
      BY <1>3, <3>1 DEF Amounts
  <2> QED
    BY <2>1, <2>2, <2>3, <2>4 DEF Amounts
<1>5. PICK s \in Seq(Sign) : s = ToRoman[n - a]
  BY <1>1, RomanStart
<1>6. PICK t \in Seq(Sign) : t = ToRoman[m - b]
  BY <1>2, RomanStart
<1>7. PICK v \in Seq(Sign) : v = Numeral(a)
  BY NumeralSigns
<1>8. PICK w \in Seq(Sign) : w = Numeral(b)
  BY NumeralSigns
<1>9. v \o s = w \o t
  <2>1. ToRoman[n] = v \o s
    BY <1>1, <1>5, <1>7, RomanTaken
  <2>2. ToRoman[m] = w \o t
    BY <1>2, <1>6, <1>8, RomanTaken
  <2> QED
    BY <2>1, <2>2
<1>10. Len(w) = 2
  BY <1>4, <1>8, NumeralSigns
<1>11. Len(w \o t) >= 2 /\ (w \o t)[2] = w[2]
  <2>1. Len(t) \in Nat /\ 2 \in 1..(Len(w) + Len(t)) /\ 2 <= Len(w)
    BY <1>10
  <2>2. Len(w \o t) = Len(w) + Len(t)
    BY ConcatProperties
  <2>3. \A i \in 1..(Len(w) + Len(t)) :
          (w \o t)[i] = IF i <= Len(w) THEN w[i] ELSE t[i - Len(w)]
    BY ConcatProperties
  <2> HIDE <1>10
  <2> QED
    BY <2>1, <2>2, <2>3
<1>12. CASE a \in {4, 40, 400}
  <2>1. Len(v) = 2
    BY <1>7, <1>12, NumeralSigns
  <2>2. (v \o s)[2] = v[2]
    <3>1. Len(s) \in Nat /\ 2 \in 1..(Len(v) + Len(s)) /\ 2 <= Len(v)
      BY <2>1
    <3>2. \A i \in 1..(Len(v) + Len(s)) :
            (v \o s)[i] = IF i <= Len(v) THEN v[i] ELSE s[i - Len(v)]
      BY ConcatProperties
    <3> HIDE <2>1
    <3> QED
      BY <3>1, <3>2
  <2>3. v[2] = w[2]
    BY <1>9, <1>11, <2>2
  <2> QED
    BY <1>3, <1>4, <1>7, <1>8, <1>12, <2>3, NumeralSigns
<1>13. CASE a \in {1, 10, 100}
  <2>1. Len(v) = 1
    BY <1>7, <1>13, NumeralSigns
  <2>2. s # <<>>
    <3>1. Len(v \o s) = Len(v) + Len(s)
      BY ConcatProperties
    <3>2. s = <<>> => Len(s) = 0
      OBVIOUS
    <3> QED
      BY <1>9, <1>11, <2>1, <3>1, <3>2
  <2>3. n - a \in Nat /\ n - a # 0
    BY <1>1, <1>5, <2>2, RomanStart
  <2>4. (v \o s)[2] = s[1]
    <3>1. Len(s) \in Nat /\ Len(s) > 0
      BY <2>2, EmptySeq
    <3>2. 2 \in 1..(Len(v) + Len(s)) /\ ~(2 <= Len(v)) /\ 2 - Len(v) = 1
      BY <2>1, <3>1
    <3>3. (v \o s)[2] = IF 2 <= Len(v) THEN v[2] ELSE s[2 - Len(v)]
      BY <3>2, ConcatProperties
    <3> QED
      BY <3>2, <3>3
  <2>5. PICK e \in Amounts : e = Largest(n - a) /\ e <= a
    BY <1>1, <1>13, <2>3, AfterPower, LargestFacts
  <2>6. s[1] = Numeral(e)[1]
    BY <1>5, <2>3, <2>5, RomanStart
  <2>7. w[2] = Numeral(e)[1]
    BY <1>9, <1>11, <2>4, <2>6
  <2> QED
    <3>0. /\ \A x \in Amounts : x <= 1 => x = 1
          /\ \A x \in Amounts : x <= 10 => x \in {1, 4, 5, 9, 10}
          /\ \A x \in Amounts : x <= 100 => x \in {1, 4, 5, 9, 10, 40, 50, 90, 100}
      BY DEF Amounts
    <3>1. CASE a = 1
      <4>0. b \in {4, 9}
        BY <1>4, <3>1
      <4>1. e = 1
        BY <2>5, <3>0, <3>1
      <4> QED
        BY <1>8, <2>7, <4>0, <4>1, NumeralSigns
    <3>2. CASE a = 10
      <4>0. b \in {40, 90}
        BY <1>4, <3>2
      <4>1. e \in {1, 4, 5, 9, 10}
        BY <2>5, <3>0, <3>2
      <4> QED
        BY <1>8, <2>7, <4>0, <4>1, NumeralSigns
    <3>3. CASE a = 100
      <4>0. b \in {400, 900}
        BY <1>4, <3>3
      <4>1. e \in {1, 4, 5, 9, 10, 40, 50, 90, 100}
        BY <2>5, <3>0, <3>3
      <4>2. w[2] \in {"d", "m"}
        BY <1>8, <4>0, NumeralSigns
      <4> QED
        BY <2>7, <4>1, <4>2, NumeralSigns
    <3> QED
      BY <1>13, <3>1, <3>2, <3>3
<1> QED
  BY <1>4, <1>12, <1>13

LEMMA RomanDiffers ==
  /\ \A n \in Nat : ToRoman[n] \in Seq(Sign) /\ (n # 0 => ToRoman[n] # <<>>)
  /\ \A n, m \in Nat : ToRoman[n] = ToRoman[m] => n = m
<1> DEFINE D == {n \in Nat : \E m \in Nat : ToRoman[n] = ToRoman[m] /\ n # m}
<1>1. D = {}
  <2> SUFFICES ASSUME D # {} PROVE FALSE
    OBVIOUS
  <2>1. PICK n \in D : \A m \in D : n <= m
    BY FirstOf
  <2>2. PICK m \in Nat : ToRoman[n] = ToRoman[m] /\ n # m
    BY <2>1
  <2>3. n \in Nat /\ n # 0 /\ m # 0
    BY <2>1, <2>2, RomanStart
  <2>4. /\ Largest(n) \in Amounts /\ Largest(m) \in Amounts
        /\ Largest(n) \in Nat /\ Largest(m) \in Nat
    BY <2>2, <2>3, LargestFacts
  <2>5. PICK a \in Nat : a = Largest(n) /\ a = Largest(m) /\ a \in Amounts
    BY <2>2, <2>3, <2>4, SameAmount
  <2>6. PICK s \in Seq(Sign) : s = ToRoman[n - a]
    BY <2>3, <2>5, RomanStart
  <2>7. PICK t \in Seq(Sign) : t = ToRoman[m - a]
    BY <2>2, <2>3, <2>5, RomanStart
  <2>8. PICK w \in Seq(Sign) : w = Numeral(a)
    BY <2>5, NumeralSigns
  <2>9. w \o s = w \o t
    <3>1. ToRoman[n] = w \o s
      BY <2>3, <2>5, <2>6, <2>8, RomanTaken
    <3>2. ToRoman[m] = w \o t
      BY <2>2, <2>3, <2>5, <2>7, <2>8, RomanTaken
    <3> QED
      BY <2>2, <3>1, <3>2
  <2>10. s = t
    BY <2>9, ConcatSimplifications
  <2>11. n - a \in Nat /\ n - a < n /\ m - a \in Nat
    BY <2>2, <2>3, <2>5, RomanStart
  <2>12. n - a \notin D
    BY <2>1, <2>3, <2>11
  <2>13. n - a = m - a
    BY <2>6, <2>7, <2>10, <2>11, <2>12
  <2> QED
    BY <2>2, <2>3, <2>5, <2>13
<1> QED
  BY <1>1, RomanStart

(* In every style counters are written in signs, and differently. *)
LEMMA CounterParts ==
  ASSUME NEW style \in Style
  PROVE  /\ \A n \in Nat : n # 0 =>
              FormatCounter(n, style) \in Seq(Sign) /\ FormatCounter(n, style) # <<>>
         /\ \A n, m \in Nat : FormatCounter(n, style) = FormatCounter(m, style) => n = m
<1>1. CASE style.kind = "decimal"
  <2>1. \A n : FormatCounter(n, style) = ToDecimal[n]
    BY <1>1 DEF FormatCounter
  <2> QED
    BY <2>1, DecimalDiffers
<1>2. CASE style.kind = "alpha"
  <2>1. \A n : FormatCounter(n, style) = ToAlpha[n]
    BY <1>2 DEF FormatCounter
  <2> QED
    BY <2>1, AlphaDiffers
<1>3. CASE style.kind = "roman"
  <2>1. \A n : FormatCounter(n, style) = ToRoman[n]
    BY <1>3 DEF FormatCounter
  <2> QED
    BY <2>1, RomanDiffers
<1> QED
  BY <1>1, <1>2, <1>3 DEF Style

Mark == Sign \union {"."}

LEMMA NoDot == "." \notin Sign /\ "." \in Mark /\ Seq(Sign) \subseteq Seq(Mark)
BY NumberingAssumption DEF Sign, Mark

LEMMA NoLaterDot ==
  ASSUME NEW p \in Seq(Mark), NEW q \in Seq(Mark), NEW x \in Seq(Sign), NEW y \in Seq(Sign),
         Len(p) > 0, p[Len(p)] = ".", p \o x = q \o y
  PROVE  Len(p) <= Len(q)
<1> SUFFICES ASSUME ~(Len(p) <= Len(q)) PROVE FALSE
  OBVIOUS
<1>1. x \in Seq(Mark) /\ y \in Seq(Mark)
  BY NoDot
<1>2. Len(p) \in Nat /\ Len(q) \in Nat /\ Len(x) \in Nat /\ Len(y) \in Nat
  OBVIOUS
<1>3. Len(p) + Len(x) = Len(q) + Len(y)
  BY <1>1, ConcatProperties
<1>4. PICK k \in Nat : k = Len(p)
  BY <1>2
<1>5. k \in 1..(Len(p) + Len(x)) /\ k \in 1..(Len(q) + Len(y))
  BY <1>2, <1>3, <1>4
<1>6. (p \o x)[k] = IF k <= Len(p) THEN p[k] ELSE x[k - Len(p)]
  BY <1>1, <1>5, ConcatProperties
<1>7. (q \o y)[k] = IF k <= Len(q) THEN q[k] ELSE y[k - Len(q)]
  BY <1>1, <1>5, ConcatProperties
<1>8. y[k - Len(q)] = "."
  BY <1>4, <1>6, <1>7
<1>9. k - Len(q) \in 1..Len(y)
  BY <1>2, <1>4, <1>5
<1>10. y[k - Len(q)] \in Sign
  BY <1>9, ElementOfSeq
<1> QED
  BY <1>8, <1>10, NoDot

Joint(s, x) == s \o <<".">> \o x

(* The last dot of a label is where its last part begins. *)
LEMMA LastDot ==
  ASSUME NEW a \in Seq(Mark), NEW b \in Seq(Mark), NEW x \in Seq(Sign), NEW y \in Seq(Sign),
         Joint(a, x) = Joint(b, y)
  PROVE  a = b /\ x = y
<1>0. <<".">> \in Seq(Mark) /\ Len(<<".">>) = 1 /\ <<".">>[1] = "."
  BY NoDot
<1>1. PICK dot \in Seq(Mark) : dot = <<".">> /\ Len(dot) = 1 /\ dot[1] = "."
  BY <1>0
<1>2. ASSUME NEW s \in Seq(Mark)
      PROVE  s \o dot \in Seq(Mark) /\ Len(s \o dot) = Len(s) + 1 /\ (s \o dot)[Len(s) + 1] = "."
  <2>1. Len(s) + 1 \in 1..(Len(s) + Len(dot)) /\ ~(Len(s) + 1 <= Len(s))
    BY <1>1
  <2>2. (s \o dot)[Len(s) + 1] = dot[(Len(s) + 1) - Len(s)]
    BY <2>1, ConcatProperties
  <2> QED
    BY <1>1, <2>2, ConcatProperties
<1>3. PICK p \in Seq(Mark) : p = a \o dot /\ Len(p) > 0 /\ p[Len(p)] = "."
  <2>1. PICK s \in Seq(Mark) : s = a \o dot /\ Len(s) = Len(a) + 1 /\ s[Len(a) + 1] = "."
    BY <1>2
  <2>2. Len(s) > 0 /\ s[Len(s)] = "."
    BY <2>1
  <2> QED
    BY <2>1, <2>2, Zenon
<1>4. PICK q \in Seq(Mark) : q = b \o dot /\ Len(q) > 0 /\ q[Len(q)] = "."
  <2>1. PICK s \in Seq(Mark) : s = b \o dot /\ Len(s) = Len(b) + 1 /\ s[Len(b) + 1] = "."
    BY <1>2
  <2>2. Len(s) > 0 /\ s[Len(s)] = "."
    BY <2>1
  <2> QED
    BY <2>1, <2>2, Zenon
<1>5. p \o x = q \o y
  BY <1>1, <1>3, <1>4 DEF Joint
<1>6. Len(p) = Len(q)
  <2>1. Len(p) <= Len(q)
    BY <1>3, <1>5, NoLaterDot
  <2>2. Len(q) <= Len(p)
    BY <1>4, <1>5, NoLaterDot
  <2> QED
    BY <2>1, <2>2
<1>7. x \in Seq(Mark) /\ y \in Seq(Mark)
  BY NoDot
<1>8. \A i \in 1..Len(p) : p[i] = q[i]
  <2>1. ASSUME NEW i \in 1..Len(p) PROVE p[i] = q[i]
    <3>1. i \in 1..(Len(p) + Len(x)) /\ i \in 1..(Len(q) + Len(y)) /\ i <= Len(p) /\ i <= Len(q)
      BY <1>6, <1>7
    <3>2. (p \o x)[i] = p[i]
      BY <1>7, <3>1, ConcatProperties
    <3>3. (q \o y)[i] = q[i]
      BY <1>7, <3>1, ConcatProperties
    <3> QED
      BY <1>5, <3>2, <3>3
  <2> QED
    BY <2>1
<1>9. p = q
  BY <1>6, <1>8, SeqEqual
<1>10. a = b
  BY <1>3, <1>4, <1>9, ConcatSimplifications
<1>11. x = y
  BY <1>5, <1>7, <1>9, ConcatSimplifications
<1> QED
  BY <1>10, <1>11

Upwards(parts, f) ==
  f = [d \in DOMAIN parts |-> IF d = 1 THEN parts[1] ELSE Joint(f[d - 1], parts[d])]

LEMMA UpwardsExists ==
  ASSUME NEW parts \in Seq(Seq(Sign))
  PROVE  \E f : Upwards(parts, f)
<1> DEFINE base == [n \in Nat |-> IF n \in DOMAIN parts THEN parts[n] ELSE <<>>]
           next == [n \in Nat |-> [s \in Seq(Mark) |->
                      IF n \in DOMAIN parts THEN Joint(s, parts[n]) ELSE <<>>]]
           prev == [n \in Nat |-> IF n <= 1 THEN n ELSE n - 1]
<1>1. /\ <<>> \in Seq(Mark) /\ <<".">> \in Seq(Mark)
      /\ \A n \in DOMAIN parts : parts[n] \in Seq(Mark) /\ n \in Nat /\ n > 0
  <2>1. \A n \in DOMAIN parts : parts[n] \in Seq(Sign) /\ n \in Nat /\ n > 0
    OBVIOUS
  <2> QED
    BY <2>1, NoDot
<1>0. \A d \in DOMAIN parts : d # 1 => d \in Nat /\ d > 1 /\ d - 1 \in DOMAIN parts
  OBVIOUS
<1>p. \A n \in Nat : n > 1 => n - 1 \in Nat /\ prev[n] = n - 1 /\ prev[n] < n
  OBVIOUS
<1>2. base \in [Nat -> Seq(Mark)] /\ prev \in [Nat -> Nat]
  BY <1>1
<1>3. next \in [Nat -> [Seq(Mark) -> Seq(Mark)]]
  <2>1. ASSUME NEW n \in DOMAIN parts, NEW s \in Seq(Mark)
        PROVE  Joint(s, parts[n]) \in Seq(Mark)
    <3>1. s \o <<".">> \in Seq(Mark)
      BY <1>1, ConcatProperties
    <3> QED
      BY <1>1, <3>1, ConcatProperties DEF Joint
  <2> QED
    BY <1>1, <2>1
<1>4. PICK f \in [Nat -> Seq(Mark)] :
        \A n \in Nat : f[n] = IF prev[n] < n THEN next[n][f[prev[n]]] ELSE base[n]
  <2>1. PICK S : S = Seq(Mark)
    OBVIOUS
  <2>2. PICK b \in [Nat -> S] : b = base
    BY <1>2, <2>1
  <2>3. PICK x \in [Nat -> [S -> S]] : x = next
    BY <1>3, <2>1
  <2>4. PICK p \in [Nat -> Nat] : p = prev
    BY <1>2
  <2>5. PICK g \in [Nat -> S] : Recursive(g, b, x, p)
    BY RecursionExists
  <2> QED
    BY <2>1, <2>2, <2>3, <2>4, <2>5 DEF Recursive
<1> DEFINE g == [d \in DOMAIN parts |-> f[d]]
<1>5. ASSUME NEW d \in DOMAIN parts
      PROVE  g[d] = IF d = 1 THEN parts[1] ELSE Joint(g[d - 1], parts[d])
  <2>1. CASE d = 1
    <3>1. ~(prev[d] < d) /\ d \in Nat
      BY <2>1
    <3>2. f[d] = base[d]
      BY <1>4, <3>1
    <3> QED
      BY <2>1, <3>1, <3>2
  <2>2. CASE d # 1
    <3>1. d \in Nat /\ d - 1 \in Nat /\ d - 1 \in DOMAIN parts /\ prev[d] = d - 1 /\ prev[d] < d
      <4>1. d \in Nat /\ d > 1 /\ d - 1 \in DOMAIN parts
        BY <1>0, <2>2
      <4>2. d - 1 \in Nat /\ prev[d] = d - 1 /\ prev[d] < d
        BY <1>p, <4>1, Zenon
      <4> QED
        BY <4>1, <4>2
    <3>2. f[d] = next[d][f[d - 1]] /\ f[d - 1] \in Seq(Mark)
      BY <1>4, <3>1
    <3>3. f[d] = Joint(f[d - 1], parts[d])
      BY <3>1, <3>2
    <3> QED
      BY <2>2, <3>1, <3>3
  <2> QED
    BY <2>1, <2>2
<1>6. Upwards(parts, g)
  BY <1>5 DEF Upwards
<1> QED
  BY <1>6

LEMMA DottedUpwards ==
  ASSUME NEW parts \in Seq(Seq(Sign))
  PROVE  \E f : Upwards(parts, f) /\ Dotted(parts) = f[Len(parts)]
<1> DEFINE F(f) == [d \in DOMAIN parts |->
                      IF d = 1 THEN parts[1] ELSE Joint(f[d - 1], parts[d])]
<1>1. PICK f : f = F(f)
  BY UpwardsExists DEF Upwards
<1>2. PICK g : g = CHOOSE h : h = F(h)
  OBVIOUS
<1>3. Dotted(parts) = g[Len(parts)]
  BY <1>2 DEF Dotted, Joint
<1>4. g = F(g)
  <2> HIDE DEF F
  <2> QED
    BY <1>1, <1>2
<1> QED
  BY <1>3, <1>4 DEF Upwards

LEMMA UpwardsType ==
  ASSUME NEW parts \in Seq(Seq(Sign)), NEW f, Upwards(parts, f)
  PROVE  /\ \A d \in DOMAIN parts : f[d] \in Seq(Mark)
         /\ 1 \in DOMAIN parts => f[1] = parts[1]
         /\ \A d \in DOMAIN parts : d # 1 =>
              d - 1 \in DOMAIN parts /\ f[d] = Joint(f[d - 1], parts[d])
<1>1. \A d \in DOMAIN parts : parts[d] \in Seq(Mark) /\ d \in Nat /\ d > 0
  <2>1. \A d \in DOMAIN parts : parts[d] \in Seq(Sign) /\ d \in Nat /\ d > 0
    OBVIOUS
  <2> QED
    BY <2>1, NoDot
<1>2. \A d \in DOMAIN parts : d # 1 => d - 1 \in DOMAIN parts /\ d - 1 < d
  OBVIOUS
<1>3. \A d \in DOMAIN parts :
        f[d] = IF d = 1 THEN parts[1] ELSE Joint(f[d - 1], parts[d])
  BY DEF Upwards
<1> DEFINE T == {d \in DOMAIN parts : f[d] \notin Seq(Mark)}
<1>4. T = {}
  <2> SUFFICES ASSUME T # {} PROVE FALSE
    OBVIOUS
  <2>1. T \in SUBSET Nat
    BY <1>1
  <2>2. PICK d \in T : \A e \in T : d <= e
    BY <2>1, FirstOf
  <2>3. d \in DOMAIN parts /\ f[d] \notin Seq(Mark)
    BY <2>2
  <2>4. d # 1
    BY <1>1, <1>3, <2>3
  <2>5. PICK s \in Seq(Mark) : s = f[d - 1]
    BY <1>1, <1>2, <2>2, <2>3, <2>4
  <2>6. PICK w \in Seq(Mark) : w = parts[d]
    BY <1>1, <2>3
  <2>7. <<".">> \in Seq(Mark)
    BY NoDot
  <2>8. s \o <<".">> \in Seq(Mark)
    BY <2>7, ConcatProperties
  <2>9. Joint(s, w) \in Seq(Mark)
    BY <2>8, ConcatProperties DEF Joint
  <2> QED
    BY <1>3, <2>3, <2>4, <2>5, <2>6, <2>9
<1> QED
  BY <1>2, <1>3, <1>4

TakenApart(p, q, f, g) ==
  \A i \in DOMAIN p, j \in DOMAIN q :
    f[i] = g[j] => i = j /\ \A l \in 1..i : p[l] = q[l]

(* What is joined with dots can be taken apart again. *)
LEMMA DottedDiffers ==
  ASSUME NEW p \in Seq(Seq(Sign)), NEW q \in Seq(Seq(Sign)), NEW f, NEW g,
         Upwards(p, f), Upwards(q, g)
  PROVE  TakenApart(p, q, f, g)
<1>1. \A d \in DOMAIN p : p[d] \in Seq(Sign) /\ d \in Nat /\ d > 0
  OBVIOUS
<1>2. \A d \in DOMAIN q : q[d] \in Seq(Sign) /\ d \in Nat /\ d > 0
  OBVIOUS
<1>3. ASSUME NEW s \in Seq(Mark), NEW x \in Seq(Sign), NEW y \in Seq(Sign),
             y = Joint(s, x)
      PROVE  FALSE
  <2>0. <<".">> \in Seq(Mark) /\ Len(<<".">>) = 1 /\ <<".">>[1] = "."
    BY NoDot
  <2>1. PICK dot \in Seq(Mark) : dot = <<".">> /\ Len(dot) = 1 /\ dot[1] = "."
    BY <2>0
  <2>2. PICK r \in Seq(Mark) : r = s \o dot /\ Len(r) = Len(s) + 1 /\ r[Len(s) + 1] = "."
    <3>1. Len(s) + 1 \in 1..(Len(s) + Len(dot)) /\ ~(Len(s) + 1 <= Len(s))
      BY <2>1
    <3>2. (s \o dot)[Len(s) + 1] = dot[(Len(s) + 1) - Len(s)]
      BY <3>1, ConcatProperties
    <3>3. s \o dot \in Seq(Mark) /\ Len(s \o dot) = Len(s) + 1
      BY <2>1, ConcatProperties
    <3>4. (s \o dot)[Len(s) + 1] = "."
      BY <2>1, <3>2
    <3> QED
      BY <3>3, <3>4, Zenon
  <2>3. Len(r) <= Len(<<>>)
    <3>1. <<>> \in Seq(Mark) /\ <<>> \o y = y
      BY NoDot, ConcatEmptySeq
    <3>2. r \o x = <<>> \o y /\ Len(r) > 0 /\ r[Len(r)] = "."
      BY <1>3, <2>1, <2>2, <3>1 DEF Joint
    <3> QED
      BY <3>1, <3>2, NoLaterDot
  <2> QED
    BY <2>2, <2>3
<1> DEFINE Apart(i) == \E j \in DOMAIN q : f[i] = g[j] /\ ~(i = j /\ \A l \in 1..i : p[l] = q[l])
           T == {i \in DOMAIN p : Apart(i)}
<1>4. T = {}
  <2> SUFFICES ASSUME T # {} PROVE FALSE
    OBVIOUS
  <2>1. T \in SUBSET Nat
    BY <1>1
  <2>2. PICK i \in T : \A k \in T : i <= k
    <3> HIDE DEF T
    <3> QED
      BY <2>1, FirstOf
  <2>3. i \in DOMAIN p /\ i \in Nat /\ i > 0
    BY <1>1, <2>2
  <2>4. PICK j \in DOMAIN q : f[i] = g[j] /\ ~(i = j /\ \A l \in 1..i : p[l] = q[l])
    BY <2>2
  <2>5. CASE i = 1 /\ j = 1
    <3>1. p[1] = q[1]
      BY <2>3, <2>4, <2>5, UpwardsType
    <3>2. \A l \in 1..i : l = 1
      BY <2>5
    <3> QED
      BY <2>4, <2>5, <3>1, <3>2
  <2>6. CASE i = 1 /\ j # 1
    <3>1. p[1] = Joint(g[j - 1], q[j]) /\ g[j - 1] \in Seq(Mark)
      BY <2>3, <2>4, <2>6, UpwardsType
    <3>2. p[1] \in Seq(Sign) /\ q[j] \in Seq(Sign)
      BY <1>1, <1>2, <2>3, <2>4, <2>6
    <3> QED
      BY <1>3, <3>1, <3>2
  <2>7. CASE i # 1 /\ j = 1
    <3>1. q[1] = Joint(f[i - 1], p[i]) /\ f[i - 1] \in Seq(Mark)
      BY <2>3, <2>4, <2>7, UpwardsType
    <3>2. q[1] \in Seq(Sign) /\ p[i] \in Seq(Sign)
      BY <1>1, <1>2, <2>3, <2>4, <2>7
    <3> QED
      BY <1>3, <3>1, <3>2
  <2>8. CASE i # 1 /\ j # 1
    <3>1. f[i] = Joint(f[i - 1], p[i]) /\ i - 1 \in DOMAIN p /\ f[i - 1] \in Seq(Mark)
      BY <2>3, <2>8, UpwardsType
    <3>2. g[j] = Joint(g[j - 1], q[j]) /\ j - 1 \in DOMAIN q /\ g[j - 1] \in Seq(Mark)
      BY <2>4, <2>8, UpwardsType
    <3>3. p[i] \in Seq(Sign) /\ q[j] \in Seq(Sign)
      BY <1>1, <1>2, <2>3, <2>4
    <3>4. f[i - 1] = g[j - 1] /\ p[i] = q[j]
      <4>1. PICK a \in Seq(Mark) : a = f[i - 1]
        BY <3>1
      <4>2. PICK b \in Seq(Mark) : b = g[j - 1]
        BY <3>2
      <4>3. PICK x \in Seq(Sign) : x = p[i]
        BY <3>3
      <4>4. PICK y \in Seq(Sign) : y = q[j]
        BY <3>3
      <4>6. Joint(a, x) = Joint(b, y)
        BY <2>4, <3>1, <3>2, <4>1, <4>2, <4>3, <4>4
      <4>7. a = b /\ x = y
        BY <4>6, LastDot
      <4> QED
        BY <4>1, <4>2, <4>3, <4>4, <4>7
    <3>5. i - 1 \notin T
      <4>1. ~(i <= i - 1)
        BY <2>3
      <4> QED
        BY <2>2, <4>1, Zenon
    <3>6. ~Apart(i - 1)
      BY <3>1, <3>5
    <3>7. i - 1 = j - 1 /\ \A l \in 1..(i - 1) : p[l] = q[l]
      BY <3>2, <3>4, <3>6
    <3>8. i = j
      BY <1>2, <2>3, <2>4, <3>7
    <3>9. \A l \in 1..i : l \in 1..(i - 1) \/ l = i
      BY <2>3
    <3> QED
      BY <2>4, <3>4, <3>7, <3>8, <3>9
  <2> QED
    BY <2>5, <2>6, <2>7, <2>8
<1> QED
  BY <1>4 DEF TakenApart

(* The parts of a label, and the styles they are written in. *)
LEMMA StyleFacts ==
  ASSUME NEW styles \in Seq(Style), styles # <<>>, NEW d \in Nat, d > 0
  PROVE  StyleFor(styles, d) \in Style
<1>1. Len(styles) \in Nat /\ Len(styles) > 0 /\ \A n \in 1..Len(styles) : styles[n] \in Style
  BY EmptySeq
<1> QED
  BY <1>1 DEF StyleFor

Parts(styles, counters) ==
  [d \in DOMAIN counters |-> FormatCounter(counters[d], StyleFor(styles, d))]

LEMMA PartsFacts ==
  ASSUME NEW styles \in Seq(Style), styles # <<>>, NEW c \in Seq(Nat \ {0})
  PROVE  /\ Parts(styles, c) \in Seq(Seq(Sign)) /\ Len(Parts(styles, c)) = Len(c)
         /\ \A d \in DOMAIN c : Parts(styles, c)[d] \in Seq(Sign) /\ Parts(styles, c)[d] # <<>>
<1>1. ASSUME NEW d \in DOMAIN c
      PROVE  /\ FormatCounter(c[d], StyleFor(styles, d)) \in Seq(Sign)
             /\ FormatCounter(c[d], StyleFor(styles, d)) # <<>>
  <2>1. d \in Nat /\ d > 0 /\ c[d] \in Nat /\ c[d] # 0
    OBVIOUS
  <2>2. PICK style \in Style : style = StyleFor(styles, d)
    BY <2>1, StyleFacts
  <2> QED
    BY <2>1, <2>2, CounterParts
<1>2. \A d \in DOMAIN c : Parts(styles, c)[d] \in Seq(Sign) /\ Parts(styles, c)[d] # <<>>
  BY <1>1 DEF Parts
<1>3. PICK p : p = Parts(styles, c)
  OBVIOUS
<1>4. PICK k \in Nat : k = Len(c) /\ DOMAIN c = 1..k /\ DOMAIN p = 1..k
  BY <1>3 DEF Parts
<1>5. p \in [1..k -> Seq(Sign)]
  BY <1>2, <1>3, <1>4 DEF Parts
<1>6. p \in Seq(Seq(Sign)) /\ Len(p) = k
  BY <1>5
<1> QED
  BY <1>2, <1>3, <1>4, <1>6

(* Parts that agree are those of the same counters. *)
LEMMA PartsDiffer ==
  ASSUME NEW styles \in Seq(Style), styles # <<>>,
         NEW c \in Seq(Nat \ {0}), NEW e \in Seq(Nat \ {0}), Len(c) = Len(e),
         \A d \in 1..Len(c) : Parts(styles, c)[d] = Parts(styles, e)[d]
  PROVE  c = e
<1>1. ASSUME NEW d \in 1..Len(c) PROVE c[d] = e[d]
  <2>1. d \in Nat /\ d > 0 /\ c[d] \in Nat /\ e[d] \in Nat /\ d \in DOMAIN c /\ d \in DOMAIN e
    OBVIOUS
  <2>2. PICK style \in Style : style = StyleFor(styles, d)
    BY <2>1, StyleFacts
  <2>3. FormatCounter(c[d], style) = FormatCounter(e[d], style)
    BY <2>1, <2>2 DEF Parts
  <2> QED
    BY <2>1, <2>3, CounterParts
<1> QED
  BY <1>1, SeqEqual

(* Under the legal scheme labels that print alike are labels of the same
   counters, in any choice of styles and at any depth (Numberer.label,
   format_counter): no mixture of digits, letters and numerals, no overflow of
   the alphabet and no missing final period makes one label of two lines. *)
THEOREM LabelsDiffer ==
  ASSUME NEW chosen \in Seq(Style),
         NEW c \in Seq(Nat \ {0}), NEW e \in Seq(Nat \ {0}), c # <<>>, e # <<>>,
         Label("legal", chosen, c) = Label("legal", chosen, e)
  PROVE  c = e
<1>1. PICK styles \in Seq(Style) :
        styles # <<>> /\ styles = IF chosen = <<>> THEN DefaultStyles("legal") ELSE chosen
  <2>1. Decimal \in Style
    BY DEF Decimal, Style
  <2>2. DefaultStyles("legal") = <<Decimal>>
    BY DEF DefaultStyles
  <2>3. PICK style \in Style : style = Decimal
    BY <2>1
  <2>4. <<style>> \in Seq(Style) /\ <<style>> # <<>>
    OBVIOUS
  <2> QED
    BY <2>2, <2>3, <2>4
<1>2. PICK p \in Seq(Seq(Sign)) : p = Parts(styles, c) /\ Len(p) = Len(c)
  BY <1>1, PartsFacts
<1>3. PICK q \in Seq(Seq(Sign)) : q = Parts(styles, e) /\ Len(q) = Len(e)
  BY <1>1, PartsFacts
<1>4. /\ Label("legal", chosen, c) = IF Len(c) = 1 THEN Append(p[1], ".") ELSE Dotted(p)
      /\ Label("legal", chosen, e) = IF Len(e) = 1 THEN Append(q[1], ".") ELSE Dotted(q)
  BY <1>1, <1>2, <1>3 DEF Label, Parts
<1>5. /\ Len(c) \in Nat /\ Len(c) > 0 /\ DOMAIN c = 1..Len(c) /\ DOMAIN p = 1..Len(c)
      /\ Len(e) \in Nat /\ Len(e) > 0 /\ DOMAIN e = 1..Len(e) /\ DOMAIN q = 1..Len(e)
  BY <1>2, <1>3, EmptySeq
<1>6. /\ \A d \in 1..Len(c) : p[d] \in Seq(Sign) /\ p[d] # <<>>
      /\ \A d \in 1..Len(e) : q[d] \in Seq(Sign) /\ q[d] # <<>>
  BY <1>1, <1>2, <1>3, <1>5, PartsFacts
<1>7. PICK f : Upwards(p, f) /\ Dotted(p) = f[Len(p)]
  BY DottedUpwards
<1>8. PICK g : Upwards(q, g) /\ Dotted(q) = g[Len(q)]
  BY DottedUpwards
<1>9. ASSUME NEW x \in Seq(Sign) PROVE Append(x, ".") = Joint(x, <<>>) /\ x \in Seq(Mark)
  <2>1. x \in Seq(Mark) /\ "." \in Mark /\ <<>> \in Seq(Mark)
    BY NoDot
  <2>2. PICK w \in Seq(Mark) : w = Append(x, ".")
    <3>1. PICK z \in Seq(Mark) : z = x
      BY <2>1
    <3>2. PICK dot \in Mark : dot = "."
      BY <2>1
    <3>3. Append(z, dot) \in Seq(Mark)
      OBVIOUS
    <3> QED
      BY <3>1, <3>2, <3>3
  <2>3. w = x \o <<".">>
    BY <2>1, <2>2, AppendIsConcat
  <2>4. w \o <<>> = w
    BY ConcatEmptySeq
  <2> QED
    BY <2>1, <2>2, <2>3, <2>4 DEF Joint
<1>10. <<>> \in Seq(Sign)
  OBVIOUS
<1>11. CASE Len(c) = 1 /\ Len(e) = 1
  <2>1. PICK x \in Seq(Sign) : x = p[1]
    BY <1>6, <1>11
  <2>2. PICK y \in Seq(Sign) : y = q[1]
    BY <1>6, <1>11
  <2>3. Joint(x, <<>>) = Joint(y, <<>>)
    BY <1>4, <1>9, <1>11, <2>1, <2>2
  <2>4. x = y
    BY <1>9, <1>10, <2>3, LastDot
  <2>5. \A d \in 1..Len(c) : d = 1
    BY <1>11
  <2>6. \A d \in 1..Len(c) : Parts(styles, c)[d] = Parts(styles, e)[d]
    BY <1>2, <1>3, <2>1, <2>2, <2>4, <2>5
  <2> QED
    BY <1>1, <1>11, <2>6, PartsDiffer
<1>12. ASSUME NEW x \in Seq(Sign), NEW r \in Seq(Seq(Sign)), NEW h, NEW k \in DOMAIN r,
              Upwards(r, h), k # 1, r[k] # <<>>, Joint(x, <<>>) = h[k]
       PROVE  FALSE
  <2>1. k - 1 \in DOMAIN r /\ h[k] = Joint(h[k - 1], r[k])
    BY <1>12, UpwardsType
  <2>2. PICK b \in Seq(Mark) : b = h[k - 1]
    BY <1>12, <2>1, UpwardsType
  <2>3. PICK y \in Seq(Sign) : y = r[k]
    OBVIOUS
  <2>4. PICK z \in Seq(Sign) : z = <<>>
    BY <1>10
  <2>5. PICK a \in Seq(Mark) : a = x
    BY <1>9
  <2>6. Joint(a, z) = Joint(b, y)
    BY <1>12, <2>1, <2>2, <2>3, <2>4, <2>5
  <2>7. z = y
    BY <2>6, LastDot
  <2> QED
    BY <1>12, <2>3, <2>4, <2>7
<1>13. CASE Len(c) = 1 /\ Len(e) # 1
  <2>1. PICK x \in Seq(Sign) : x = p[1]
    BY <1>6, <1>13
  <2>2. PICK k \in DOMAIN q : k = Len(e) /\ k # 1
    <3>1. Len(e) \in 1..Len(e) /\ Len(e) # 1
      BY <1>5, <1>13
    <3> QED
      BY <1>5, <3>1, Zenon
  <2>3. q[k] # <<>>
    BY <1>5, <1>6, <2>2
  <2>4. Joint(x, <<>>) = g[k]
    BY <1>3, <1>4, <1>8, <1>9, <1>13, <2>1, <2>2
  <2> QED
    BY <1>8, <1>12, <2>2, <2>3, <2>4
<1>14. CASE Len(c) # 1 /\ Len(e) = 1
  <2>1. PICK x \in Seq(Sign) : x = q[1]
    BY <1>6, <1>14
  <2>2. PICK k \in DOMAIN p : k = Len(c) /\ k # 1
    <3>1. Len(c) \in 1..Len(c) /\ Len(c) # 1
      BY <1>5, <1>14
    <3> QED
      BY <1>5, <3>1, Zenon
  <2>3. p[k] # <<>>
    BY <1>5, <1>6, <2>2
  <2>4. Joint(x, <<>>) = f[k]
    BY <1>2, <1>4, <1>7, <1>9, <1>14, <2>1, <2>2
  <2> QED
    BY <1>7, <1>12, <2>2, <2>3, <2>4
<1>15. CASE Len(c) # 1 /\ Len(e) # 1
  <2>1. f[Len(p)] = g[Len(q)]
    BY <1>4, <1>7, <1>8, <1>15
  <2>2. PICK i \in DOMAIN p : i = Len(p)
    <3>1. Len(c) \in 1..Len(c)
      BY <1>5
    <3> QED
      BY <1>2, <1>5, <3>1, Zenon
  <2>3. PICK j \in DOMAIN q : j = Len(q)
    <3>1. Len(e) \in 1..Len(e)
      BY <1>5
    <3> QED
      BY <1>3, <1>5, <3>1, Zenon
  <2>4. f[i] = g[j]
    BY <2>1, <2>2, <2>3
  <2>5. i = j /\ \A d \in 1..i : p[d] = q[d]
    <3>1. \A m \in DOMAIN p, n \in DOMAIN q :
            f[m] = g[n] => m = n /\ \A d \in 1..m : p[d] = q[d]
      <4>1. Upwards(p, f) /\ Upwards(q, g) /\ p \in Seq(Seq(Sign)) /\ q \in Seq(Seq(Sign))
        BY <1>7, <1>8
      <4>2. TakenApart(p, q, f, g)
        BY <4>1, DottedDiffers
      <4> QED
        BY <4>2 DEF TakenApart
    <3> QED
      BY <2>4, <3>1, Zenon
  <2>6. Len(c) = Len(e)
    BY <1>2, <1>3, <2>2, <2>3, <2>5
  <2>7. \A d \in 1..Len(c) : Parts(styles, c)[d] = Parts(styles, e)[d]
    BY <1>2, <1>3, <2>2, <2>3, <2>5
  <2> QED
    BY <1>1, <2>6, <2>7, PartsDiffer
<1> QED
  BY <1>11, <1>13, <1>14, <1>15

(* Counters are positive. *)
LEMMA CountersPositive ==
  ASSUME NEW lines \in Lines, NEW n \in DOMAIN lines
  PROVE  Counters(lines)[n] \in Seq(Nat \ {0}) /\ Counters(lines)[n] # <<>>
<1>0. PICK path : path = Counters(lines)
  OBVIOUS
<1>1. \A k \in DOMAIN lines :
        /\ path[k] \in Seq(Nat) /\ Len(path[k]) > 0
        /\ lines[k].parent = 0 => path[k] = <<Rank(lines, k)>>
        /\ lines[k].parent # 0 => path[k] = Append(path[lines[k].parent], Rank(lines, k))
  BY <1>0, CountersType, Zenon
<1> DEFINE T == {k \in DOMAIN lines : path[k] \notin Seq(Nat \ {0})}
<1>2. T = {}
  <2> SUFFICES ASSUME T # {} PROVE FALSE
    OBVIOUS
  <2>0. T \in SUBSET Nat
    BY LineFacts
  <2>1. PICK k \in T : \A m \in T : k <= m
    BY <2>0, FirstOf
  <2>2. /\ k \in DOMAIN lines /\ k \in Nat /\ path[k] \notin Seq(Nat \ {0})
        /\ lines[k].parent \in Nat /\ lines[k].parent < k
        /\ lines[k].parent # 0 => lines[k].parent \in DOMAIN lines
    BY <2>1, LineFacts
  <2>3. PICK r \in Nat \ {0} : r = Rank(lines, k)
    BY <2>2, RankFacts
  <2>4. CASE lines[k].parent = 0
    <3>1. path[k] = <<r>>
      BY <1>1, <2>2, <2>3, <2>4
    <3>2. <<r>> \in Seq(Nat \ {0})
      OBVIOUS
    <3> QED
      BY <2>2, <3>1, <3>2
  <2>5. CASE lines[k].parent # 0
    <3>1. PICK p \in DOMAIN lines : p = lines[k].parent /\ p < k
      BY <2>2, <2>5
    <3>2. ~(k <= p)
      BY <2>2, <3>1
    <3>3. p \notin T
      BY <2>1, <3>2, Zenon
    <3>4. PICK s \in Seq(Nat \ {0}) : s = path[p]
      BY <3>3
    <3>5. path[k] = Append(s, r)
      BY <1>1, <2>2, <2>3, <2>5, <3>1, <3>4
    <3>6. Append(s, r) \in Seq(Nat \ {0})
      OBVIOUS
    <3> QED
      BY <2>2, <3>5, <3>6
  <2> QED
    BY <2>4, <2>5
<1>3. path[n] \in Seq(Nat \ {0}) /\ path[n] # <<>>
  <2>1. path[n] \in Seq(Nat \ {0})
    BY <1>2
  <2>2. path[n] # <<>>
    BY <1>1
  <2> QED
    BY <2>1, <2>2
<1> QED
  BY <1>0, <1>3

-----------------------------------------------------------------------------
(* The order of the page, and copies. *)

(* The first difference orders the counters: the comparison is total. *)
LEMMA AheadOrder ==
  /\ \A p \in Seq(Nat) : ~Ahead(p, p)
  /\ \A p, q, r \in Seq(Nat) : Ahead(p, q) /\ Ahead(q, r) => Ahead(p, r)
  /\ \A p, q \in Seq(Nat) : p = q \/ Ahead(p, q) \/ Ahead(q, p)
<1>0. \A s \in Seq(Nat) :
        Len(s) \in Nat /\ DOMAIN s = 1..Len(s) /\ \A j \in 1..Len(s) : s[j] \in Nat
  OBVIOUS
<1>1. ASSUME NEW p \in Seq(Nat), Ahead(p, p) PROVE FALSE
  BY <1>1 DEF Ahead
<1>2. ASSUME NEW p \in Seq(Nat), NEW q \in Seq(Nat), NEW r \in Seq(Nat), Ahead(p, q), Ahead(q, r)
      PROVE  Ahead(p, r)
  <2>1. PICK i \in DOMAIN q : /\ i <= Len(p) + 1 /\ \A j \in 1..(i - 1) : p[j] = q[j]
                              /\ i <= Len(p) => p[i] < q[i]
    BY <1>2 DEF Ahead
  <2>2. PICK k \in DOMAIN r : /\ k <= Len(q) + 1 /\ \A j \in 1..(k - 1) : q[j] = r[j]
                              /\ k <= Len(q) => q[k] < r[k]
    BY <1>2 DEF Ahead
  <2>3. /\ Len(p) \in Nat /\ Len(q) \in Nat /\ Len(r) \in Nat
        /\ i \in 1..Len(q) /\ k \in 1..Len(r)
        /\ DOMAIN p = 1..Len(p) /\ DOMAIN q = 1..Len(q) /\ DOMAIN r = 1..Len(r)
        /\ \A j \in 1..Len(p) : p[j] \in Nat
        /\ \A j \in 1..Len(q) : q[j] \in Nat
        /\ \A j \in 1..Len(r) : r[j] \in Nat
    BY <1>0
  <2>4. CASE i < k
    <3>1. i \in DOMAIN r /\ i \in 1..(k - 1)
      BY <2>3, <2>4
    <3>2. q[i] = r[i] /\ \A j \in 1..(i - 1) : p[j] = r[j]
      BY <2>1, <2>2, <2>3, <2>4, <3>1
    <3> QED
      BY <2>1, <3>1, <3>2 DEF Ahead
  <2>5. CASE k < i
    <3>0. k \in 1..(i - 1) /\ k <= Len(p) /\ k <= Len(q)
      <4>1. PICK P \in Nat : P = Len(p)
        BY <2>3
      <4>2. PICK Q \in Nat : Q = Len(q)
        BY <2>3
      <4>3. i \in Nat /\ k \in Nat /\ k > 0 /\ i <= P + 1 /\ i <= Q
        BY <2>1, <2>3, <4>1, <4>2
      <4>4. k \in 1..(i - 1) /\ k <= P /\ k <= Q
        BY <2>5, <4>3
      <4> QED
        BY <4>1, <4>2, <4>4
    <3>1. p[k] = q[k] /\ \A j \in 1..(k - 1) : p[j] = r[j]
      <4>1. \A j \in 1..(k - 1) : j \in 1..(i - 1)
        BY <2>3, <2>5
      <4> QED
        BY <2>1, <2>2, <3>0, <4>1
    <3>2. k <= Len(p) + 1 /\ p[k] < r[k]
      BY <2>2, <2>3, <3>0, <3>1
    <3> QED
      BY <2>2, <3>1, <3>2 DEF Ahead
  <2>6. CASE i = k
    <3>1. \A j \in 1..(k - 1) : p[j] = r[j]
      BY <2>1, <2>2, <2>3, <2>6
    <3>2. k <= Len(p) + 1 /\ (k <= Len(p) => p[k] < r[k])
      BY <2>1, <2>2, <2>3, <2>6
    <3> QED
      BY <2>2, <3>1, <3>2 DEF Ahead
  <2> QED
    BY <2>3, <2>4, <2>5, <2>6
<1>3. ASSUME NEW p \in Seq(Nat), NEW q \in Seq(Nat), p # q
      PROVE  Ahead(p, q) \/ Ahead(q, p)
  <2> DEFINE D == {k \in Nat : k > 0 /\ (k = Len(p) + 1 \/ k = Len(q) + 1 \/ p[k] # q[k])}
  <2>1. /\ Len(p) \in Nat /\ Len(q) \in Nat
        /\ DOMAIN p = 1..Len(p) /\ DOMAIN q = 1..Len(q)
        /\ \A j \in 1..Len(p) : p[j] \in Nat
        /\ \A j \in 1..Len(q) : q[j] \in Nat
    OBVIOUS
  <2>2. Len(p) + 1 \in D /\ D \in SUBSET Nat
    BY <2>1
  <2>3. PICK k \in D : \A j \in D : k <= j
    BY <2>2, FirstOf
  <2>4. k \in Nat /\ k > 0 /\ k <= Len(p) + 1 /\ k <= Len(q) + 1
    BY <2>1, <2>3
  <2>5. ASSUME NEW j \in 1..(k - 1) PROVE p[j] = q[j]
    <3>1. j \in Nat /\ j > 0 /\ j # Len(p) + 1 /\ j # Len(q) + 1 /\ j \notin D
      BY <2>1, <2>3, <2>4
    <3> QED
      BY <3>1
  <2>6. CASE k = Len(p) + 1 /\ k = Len(q) + 1
    BY <1>3, <2>1, <2>5, <2>6
  <2>7. CASE k = Len(p) + 1 /\ k # Len(q) + 1
    <3>1. k \in DOMAIN q /\ k <= Len(p) + 1 /\ ~(k <= Len(p))
      BY <2>1, <2>4, <2>7
    <3> QED
      BY <2>5, <3>1 DEF Ahead
  <2>8. CASE k # Len(p) + 1 /\ k = Len(q) + 1
    <3>1. k \in DOMAIN p /\ k <= Len(q) + 1 /\ ~(k <= Len(q))
      BY <2>1, <2>4, <2>8
    <3> QED
      BY <2>5, <3>1 DEF Ahead
  <2>9. CASE k # Len(p) + 1 /\ k # Len(q) + 1
    <3>0. k \in 1..Len(p) /\ k \in 1..Len(q)
      BY <2>1, <2>4, <2>9
    <3>1. k \in 1..Len(p) /\ k \in 1..Len(q) /\ p[k] # q[k]
      BY <2>3, <2>9, <3>0
    <3>2. p[k] < q[k] \/ q[k] < p[k]
      BY <2>1, <3>1
    <3> QED
      BY <2>1, <2>4, <2>5, <3>1, <3>2 DEF Ahead
  <2> QED
    BY <2>6, <2>7, <2>8, <2>9
<1> QED
  BY <1>1, <1>2, <1>3

(* A choice of lines and an order for them that can be copied: each at most
   once, and below a line that was copied before. *)
Arrangement(lines, order) ==
  /\ \E N \in Nat : DOMAIN order = 1..N
  /\ \A k \in DOMAIN order : order[k] \in DOMAIN lines
  /\ \A j, k \in DOMAIN order : order[j] = order[k] => j = k
  /\ \A k \in DOMAIN order :
       lines[order[k]].parent # 0 =>
         \E j \in DOMAIN order : j < k /\ order[j] = lines[order[k]].parent

(* Whatever strict order puts parents before their children can be copied. *)
LEMMA ListedArrangement ==
  ASSUME NEW lines \in Lines, NEW before, DOMAIN before \subseteq DOMAIN lines,
         StrictOrder(before),
         \A n \in DOMAIN before :
           lines[n].parent # 0 => lines[n].parent \in before[n]
  PROVE  Arrangement(lines, Listed(before))
<1> DEFINE order == Listed(before)
<1>1. IsFiniteSet(DOMAIN before)
  BY LineFacts, FS_Subset
<1>2. /\ Cardinality(DOMAIN before) \in Nat
      /\ DOMAIN order = 1..Cardinality(DOMAIN before)
      /\ \A k \in DOMAIN order : order[k] \in DOMAIN before
      /\ \A n \in DOMAIN before : \E k \in DOMAIN order : order[k] = n
      /\ \A j, k \in DOMAIN order : order[j] \in before[order[k]] <=> j < k
  BY <1>1, ListedOrder
<1> HIDE DEF order
<1>3. ASSUME NEW j \in DOMAIN order, NEW k \in DOMAIN order, order[j] = order[k] PROVE j = k
  <2>1. order[j] \notin before[order[k]] /\ order[k] \notin before[order[j]]
    BY <1>2, <1>3 DEF StrictOrder
  <2> QED
    BY <1>2, <2>1
<1>4. ASSUME NEW k \in DOMAIN order, lines[order[k]].parent # 0
      PROVE  \E j \in DOMAIN order : j < k /\ order[j] = lines[order[k]].parent
  <2>1. lines[order[k]].parent \in before[order[k]]
    BY <1>2, <1>4
  <2>2. lines[order[k]].parent \in DOMAIN before
    BY <1>2, <2>1 DEF StrictOrder
  <2>3. PICK j \in DOMAIN order : order[j] = lines[order[k]].parent
    BY <1>2, <2>2
  <2>4. j < k
    BY <1>2, <2>1, <2>3
  <2> QED
    BY <2>3, <2>4
<1> QED
  BY <1>2, <1>3, <1>4 DEF Arrangement, order

LEMMA CountersAhead ==
  ASSUME NEW lines \in Lines
  PROVE  StrictOrder([n \in DOMAIN lines |->
                        {m \in DOMAIN lines : Ahead(Counters(lines)[m], Counters(lines)[n])}])
<1>1. PICK path : path = Counters(lines)
  OBVIOUS
<1>2. ASSUME NEW n \in DOMAIN lines PROVE path[n] \in Seq(Nat)
  BY <1>1, CountersType, Zenon
<1>3. \A n, m \in DOMAIN lines : path[n] = path[m] => n = m
  BY <1>1, CountersDiffer
<1> DEFINE before == [n \in DOMAIN lines |-> {m \in DOMAIN lines : Ahead(path[m], path[n])}]
<1>4. \A n \in DOMAIN lines : n \notin before[n]
  BY <1>2, AheadOrder
<1>5. \A n, m \in DOMAIN lines : m \in before[n] => before[m] \subseteq before[n]
  BY <1>2, AheadOrder
<1>6. \A n, m \in DOMAIN lines : n = m \/ n \in before[m] \/ m \in before[n]
  BY <1>2, <1>3, AheadOrder
<1> QED
  BY <1>1, <1>4, <1>5, <1>6 DEF StrictOrder

(* A line is ahead of those that hang on it. *)
LEMMA ParentAhead ==
  ASSUME NEW lines \in Lines, NEW n \in DOMAIN lines, lines[n].parent # 0
  PROVE  /\ lines[n].parent \in DOMAIN lines
         /\ Ahead(Counters(lines)[lines[n].parent], Counters(lines)[n])
<1>1. lines[n].parent \in DOMAIN lines
  BY LineFacts
<1>2. PICK p \in Seq(Nat) : p = Counters(lines)[lines[n].parent]
  BY <1>1, CountersType
<1>3. PICK r \in Nat : r = Rank(lines, n)
  BY RankFacts
<1>4. Counters(lines)[n] = Append(p, r)
  BY <1>2, <1>3, CountersType
<1>5. Len(p) + 1 \in DOMAIN Append(p, r) /\ Len(p) \in Nat
  OBVIOUS
<1>6. \A j \in 1..Len(p) : p[j] = Append(p, r)[j]
  OBVIOUS
<1>7. Ahead(p, Append(p, r))
  BY <1>5, <1>6 DEF Ahead
<1> QED
  BY <1>1, <1>2, <1>4, <1>7

(* _copy_items() copies every line once, and a parent before its children. *)
LEMMA PageArrangement ==
  ASSUME NEW lines \in Lines
  PROVE  /\ Arrangement(lines, PageOrder(lines))
         /\ DOMAIN PageOrder(lines) = DOMAIN lines
         /\ \A n \in DOMAIN lines : \E k \in DOMAIN lines : PageOrder(lines)[k] = n
<1> DEFINE before == [n \in DOMAIN lines |->
                        {m \in DOMAIN lines : Ahead(Counters(lines)[m], Counters(lines)[n])}]
<1>1. StrictOrder(before)
  BY CountersAhead
<1>2. PageOrder(lines) = Listed(before)
  BY DEF PageOrder
<1>3. \A n \in DOMAIN lines : lines[n].parent # 0 => lines[n].parent \in before[n]
  BY ParentAhead
<1>4. DOMAIN before = DOMAIN lines
  OBVIOUS
<1> HIDE DEF before
<1>5. Arrangement(lines, Listed(before))
  BY <1>1, <1>3, <1>4, ListedArrangement
<1>6. /\ DOMAIN Listed(before) = 1..Cardinality(DOMAIN lines)
      /\ \A n \in DOMAIN lines : \E k \in DOMAIN Listed(before) : Listed(before)[k] = n
  BY <1>1, <1>4, LineFacts, ListedOrder
<1>7. Cardinality(DOMAIN lines) = Len(lines)
  <2>1. Len(lines) \in Nat /\ DOMAIN lines = 1..Len(lines)
    BY LineFacts
  <2>2. PICK N \in Nat : N = Len(lines)
    BY <2>1
  <2>3. Cardinality(1..N) = N
    BY FS_Interval
  <2> QED
    BY <2>1, <2>2, <2>3
<1> QED
  BY <1>2, <1>5, <1>6, <1>7, LineFacts

(* What a copy keeps of its lines: everything but the parent, which is the copy
   of the parent (_copy_items). *)
LEMMA ArrangedFacts ==
  ASSUME NEW lines \in Lines, NEW order, Arrangement(lines, order)
  PROVE  /\ Arranged(lines, order) \in Lines
         /\ DOMAIN Arranged(lines, order) = DOMAIN order
         /\ \A k \in DOMAIN order :
              LET copy == Arranged(lines, order)[k]
              IN /\ copy \in LineRecord
                 /\ order[k] \in DOMAIN lines /\ lines[order[k]] \in LineRecord
                 /\ copy.pos = lines[order[k]].pos /\ copy.text = lines[order[k]].text
                 /\ copy.code = lines[order[k]].code /\ copy.source = lines[order[k]].source
                 /\ lines[order[k]].parent = 0 => copy.parent = 0
                 /\ lines[order[k]].parent # 0 =>
                      /\ copy.parent \in DOMAIN order /\ copy.parent < k
                      /\ order[copy.parent] = lines[order[k]].parent
<1>1. PICK N \in Nat : DOMAIN order = 1..N
  BY DEF Arrangement
<1>2. \A k \in DOMAIN order : order[k] \in DOMAIN lines
  BY DEF Arrangement
<1> DEFINE copy == Arranged(lines, order)
           up(k) == IF lines[order[k]].parent = 0 THEN 0 ELSE Place(order, lines[order[k]].parent)
<1>3. DOMAIN copy = DOMAIN order
  BY DEF Arranged
<1>4. ASSUME NEW k \in DOMAIN order, lines[order[k]].parent # 0
      PROVE  up(k) \in DOMAIN order /\ up(k) < k /\ order[up(k)] = lines[order[k]].parent
  <2>1. PICK j \in DOMAIN order : j < k /\ order[j] = lines[order[k]].parent
    BY <1>4 DEF Arrangement
  <2>2. Place(order, lines[order[k]].parent) \in DOMAIN order
        /\ order[Place(order, lines[order[k]].parent)] = lines[order[k]].parent
    BY <2>1 DEF Place
  <2>3. Place(order, lines[order[k]].parent) = j
    BY <2>1, <2>2 DEF Arrangement
  <2> QED
    BY <1>4, <2>1, <2>2, <2>3
<1>5. ASSUME NEW k \in DOMAIN order
      PROVE  /\ lines[order[k]] \in LineRecord /\ up(k) \in Nat /\ up(k) < k
             /\ copy[k] = [lines[order[k]] EXCEPT !.parent = up(k)]
  <2>1. lines[order[k]] \in LineRecord
    BY <1>2, LineFacts
  <2>2. up(k) \in Nat /\ up(k) < k
    BY <1>1, <1>4
  <2>3. copy[k] = [lines[order[k]] EXCEPT !.parent = up(k)]
    BY DEF Arranged
  <2> QED
    BY <2>1, <2>2, <2>3
<1> HIDE DEF copy, up
<1>6. ASSUME NEW k \in DOMAIN order
      PROVE  /\ copy[k] \in LineRecord /\ copy[k].parent = up(k)
             /\ copy[k].pos = lines[order[k]].pos /\ copy[k].text = lines[order[k]].text
             /\ copy[k].code = lines[order[k]].code /\ copy[k].source = lines[order[k]].source
  BY <1>5 DEF LineRecord
<1>7. copy \in Seq(LineRecord)
  <2>1. copy = [k \in 1..N |-> copy[k]]
    BY <1>1, <1>3 DEF copy, Arranged
  <2> QED
    BY <1>1, <1>6, <2>1
<1>8. copy \in Lines
  BY <1>3, <1>5, <1>6, <1>7 DEF Lines, ParentsFirst
<1> QED
  BY <1>2, <1>3, <1>4, <1>5, <1>6, <1>8 DEF copy, up

(* A copy reads like its original: at each place the line of the page order,
   under the same counters, when no two siblings share a position
   (_copy_items, Numberer.walk). *)
THEOREM CopyCounters ==
  ASSUME NEW lines \in Lines, ~HasTies(lines)
  PROVE  \A k \in DOMAIN lines :
           Counters(CopyItems(lines))[k] = Counters(lines)[PageOrder(lines)[k]]
<1>1. PICK order : order = PageOrder(lines)
  OBVIOUS
<1>2. /\ Arrangement(lines, order) /\ DOMAIN order = DOMAIN lines
      /\ \A n \in DOMAIN lines : \E k \in DOMAIN lines : order[k] = n
      /\ \A j, k \in DOMAIN order : order[j] = order[k] => j = k
      /\ \A k \in DOMAIN order : order[k] \in DOMAIN lines
  BY <1>1, PageArrangement DEF Arrangement
<1>3. PICK copy : copy = CopyItems(lines)
  OBVIOUS
<1>4. copy = Arranged(lines, order)
  BY <1>1, <1>3 DEF CopyItems
<1>5. copy \in Lines /\ DOMAIN copy = DOMAIN lines
  BY <1>2, <1>4, ArrangedFacts
<1>6. ASSUME NEW k \in DOMAIN lines
      PROVE  /\ copy[k].pos = lines[order[k]].pos
             /\ lines[order[k]].parent = 0 => copy[k].parent = 0
             /\ lines[order[k]].parent # 0 =>
                  /\ copy[k].parent \in DOMAIN lines /\ copy[k].parent < k
                  /\ order[copy[k].parent] = lines[order[k]].parent
  BY <1>2, <1>4, ArrangedFacts
<1>7. 0 \notin DOMAIN lines
  BY LineFacts
<1>8. \A j, k \in DOMAIN lines :
        copy[j].parent = copy[k].parent <=> lines[order[j]].parent = lines[order[k]].parent
  BY <1>2, <1>6, <1>7
<1>9. ASSUME NEW j \in DOMAIN lines, NEW k \in DOMAIN lines
      PROVE  j \in UpTo(copy, k) <=> order[j] \in UpTo(lines, order[k])
  <2>1. order[j] \in DOMAIN lines /\ order[k] \in DOMAIN lines /\ j \in Nat /\ k \in Nat
    BY <1>2, LineFacts
  <2>2. /\ lines[order[j]].pos \in Nat /\ lines[order[k]].pos \in Nat
        /\ order[j] \in Nat /\ order[k] \in Nat
    BY <2>1, LineFacts
  <2>3. lines[order[j]].parent = lines[order[k]].parent
        /\ lines[order[j]].pos = lines[order[k]].pos => j = k
    BY <1>2, <2>1 DEF HasTies
  <2> QED
    BY <1>5, <1>6, <1>8, <2>1, <2>2, <2>3 DEF UpTo, Peers
<1>10. ASSUME NEW k \in DOMAIN lines
       PROVE  Rank(copy, k) = Rank(lines, order[k])
  <2> DEFINE f == [j \in UpTo(copy, k) |-> order[j]]
  <2>1. /\ UpTo(copy, k) \subseteq DOMAIN lines
        /\ UpTo(lines, order[k]) \subseteq DOMAIN lines
    BY <1>5 DEF UpTo, Peers
  <2>2. f \in Bijection(UpTo(copy, k), UpTo(lines, order[k]))
    <3>1. f \in [UpTo(copy, k) -> UpTo(lines, order[k])]
      BY <1>9, <2>1
    <3>2. \A i, j \in UpTo(copy, k) : f[i] = f[j] => i = j
      BY <1>2, <2>1
    <3>3. ASSUME NEW n \in UpTo(lines, order[k])
          PROVE  \E j \in UpTo(copy, k) : f[j] = n
      <4>1. PICK j \in DOMAIN lines : order[j] = n
        BY <1>2, <2>1
      <4>2. j \in UpTo(copy, k)
        BY <1>9, <4>1
      <4> QED
        BY <4>1, <4>2
    <3> QED
      BY <3>1, <3>2, <3>3 DEF Bijection, Injection, Surjection, IsInjective
  <2>3. IsFiniteSet(UpTo(copy, k))
    BY <2>1, LineFacts, FS_Subset
  <2> QED
    BY <2>2, <2>3, FS_Bijection DEF ExistsBijection, Rank
<1>11. PICK path : path = Counters(lines)
  OBVIOUS
<1>12. PICK copied : copied = Counters(copy)
  OBVIOUS
<1> DEFINE T == {k \in DOMAIN lines : copied[k] # path[order[k]]}
<1>13. T = {}
  <2> SUFFICES ASSUME T # {} PROVE FALSE
    OBVIOUS
  <2>1. T \in SUBSET Nat
    <3>1. PICK L \in Nat : DOMAIN lines = 1..L
      BY LineFacts
    <3> QED
      BY <3>1
  <2>2. PICK k \in T : \A j \in T : k <= j
    BY <2>1, FirstOf
  <2>3. k \in DOMAIN lines /\ k \in Nat /\ order[k] \in DOMAIN lines /\ copied[k] # path[order[k]]
    <3>1. k \in DOMAIN lines /\ copied[k] # path[order[k]]
      BY <2>2
    <3>2. k \in Nat
      BY <2>1, <2>2
    <3>3. order[k] \in DOMAIN lines
      BY <1>2, <3>1
    <3> QED
      BY <3>1, <3>2, <3>3
  <2>4. /\ copy[k].parent = 0 => copied[k] = <<Rank(copy, k)>>
        /\ copy[k].parent # 0 => copied[k] = Append(copied[copy[k].parent], Rank(copy, k))
    BY <1>5, <1>12, <2>3, CountersType, Zenon
  <2>5. /\ lines[order[k]].parent = 0 => path[order[k]] = <<Rank(lines, order[k])>>
        /\ lines[order[k]].parent # 0 =>
             path[order[k]] = Append(path[lines[order[k]].parent], Rank(lines, order[k]))
    BY <1>11, <2>3, CountersType, Zenon
  <2>6. CASE lines[order[k]].parent = 0
    BY <1>6, <1>10, <2>3, <2>4, <2>5, <2>6, Zenon
  <2>7. CASE lines[order[k]].parent # 0
    <3>1. /\ copy[k].parent \in DOMAIN lines /\ copy[k].parent < k /\ copy[k].parent # 0
          /\ order[copy[k].parent] = lines[order[k]].parent
      BY <1>6, <1>7, <2>3, <2>7
    <3>2. copy[k].parent \notin T
      BY <2>1, <2>2, <2>3, <3>1, LineFacts
    <3>3. copied[copy[k].parent] = path[lines[order[k]].parent]
      BY <3>1, <3>2
    <3> QED
      BY <1>10, <2>3, <2>4, <2>5, <2>7, <3>1, <3>3, Zenon
  <2> QED
    BY <2>6, <2>7
<1> QED
  BY <1>1, <1>3, <1>11, <1>12, <1>13

(* Numbers in the order of their size. *)
LEMMA NumberOrder ==
  ASSUME NEW I \in SUBSET Nat
  PROVE  StrictOrder([n \in I |-> {m \in I : m < n}])
<1> DEFINE before == [n \in I |-> {m \in I : m < n}]
<1>1. \A n \in I : before[n] \subseteq I /\ n \notin before[n]
  OBVIOUS
<1>2. ASSUME NEW n \in I, NEW m \in before[n], NEW k \in before[m] PROVE k \in before[n]
  <2>1. k < m /\ m < n /\ k \in I /\ m \in I
    OBVIOUS
  <2> QED
    BY <2>1
<1>3. \A n, m \in I : n = m \/ n \in before[m] \/ m \in before[n]
  OBVIOUS
<1> QED
  BY <1>1, <1>2, <1>3 DEF StrictOrder

(* What is deleted with a line is all that hangs below it, so what is left is a
   forest. *)
LEMMA WithoutArrangement ==
  ASSUME NEW lines \in Lines, NEW n \in DOMAIN lines
  PROVE  Arrangement(lines, InOrder(DOMAIN lines \ Branch(lines, n)))
<1> DEFINE kept == DOMAIN lines \ Branch(lines, n)
           before == [m \in kept |-> {j \in kept : j < m}]
<1>1. PICK path : path = Counters(lines)
  OBVIOUS
<1>2. ASSUME NEW m \in kept, lines[m].parent # 0 PROVE lines[m].parent \in kept
  <2>1. lines[m].parent \in DOMAIN lines /\ m \in DOMAIN lines
    BY <1>2, LineFacts
  <2> SUFFICES ASSUME lines[m].parent \in Branch(lines, n) PROVE m \in Branch(lines, n)
    BY <2>1
  <2>2. PICK s \in Seq(Nat) : s = path[n]
    BY <1>1, CountersType
  <2>3. PICK p \in Seq(Nat) : p = path[lines[m].parent]
    BY <1>1, <2>1, CountersType
  <2>4. PICK r \in Nat : r = Rank(lines, m)
    BY <2>1, RankFacts
  <2>5. path[m] = Append(p, r)
    BY <1>1, <1>2, <2>1, <2>3, <2>4, CountersType, Zenon
  <2>6. Len(s) <= Len(p) /\ SubSeq(s, 1, Len(s)) = SubSeq(p, 1, Len(s))
    BY <1>1, <2>2, <2>3 DEF Branch, IsPrefix
  <2>7. Len(s) <= Len(Append(p, r)) /\ Len(s) \in Nat /\ Len(p) \in Nat
    BY <2>6
  <2>8. SubSeq(Append(p, r), 1, Len(s)) = SubSeq(p, 1, Len(s))
    BY <2>6, <2>7
  <2> QED
    BY <1>1, <2>1, <2>2, <2>5, <2>6, <2>7, <2>8 DEF Branch, IsPrefix
<1>3. kept \in SUBSET Nat /\ kept \subseteq DOMAIN lines
  BY LineFacts
<1>4. StrictOrder(before)
  BY <1>3, NumberOrder
<1>5. \A m \in kept : lines[m].parent # 0 => lines[m].parent \in before[m]
  BY <1>2, LineFacts
<1> HIDE DEF kept
<1>6. DOMAIN before = kept
  OBVIOUS
<1>7. Arrangement(lines, Listed(before))
  BY <1>3, <1>4, <1>5, <1>6, ListedArrangement
<1> QED
  BY <1>7 DEF InOrder, kept

(* Lines appended to others keep their order and their parents. *)
LEMMA AppendedFacts ==
  ASSUME NEW lines \in Lines, NEW more \in Lines
  PROVE  /\ Append2(lines, more) \in Lines
         /\ \A n \in DOMAIN Append2(lines, more) :
              LET line == Append2(lines, more)[n]
              IN \/ n \in DOMAIN lines /\ line = lines[n]
                 \/ \E m \in DOMAIN more :
                      line.code = more[m].code /\ line.source = more[m].source
         /\ \A n \in DOMAIN lines :
              n \in DOMAIN Append2(lines, more) /\ Append2(lines, more)[n] = lines[n]
<1>1. PICK L \in Nat : L = Len(lines)
  BY LineFacts
<1> DEFINE tail == [n \in DOMAIN more |->
                      [more[n] EXCEPT !.parent = IF @ = 0 THEN 0 ELSE @ + L]]
           all == lines \o tail
<1>2. Append2(lines, more) = all
  BY <1>1 DEF Append2
<1>3. ASSUME NEW n \in DOMAIN more
      PROVE  /\ tail[n] \in LineRecord
             /\ tail[n].parent = IF more[n].parent = 0 THEN 0 ELSE more[n].parent + L
             /\ tail[n].code = more[n].code /\ tail[n].source = more[n].source
  <2>1. more[n] \in LineRecord /\ more[n].parent \in Nat
    BY LineFacts
  <2> QED
    BY <2>1 DEF LineRecord
<1>4. tail \in Seq(LineRecord) /\ Len(tail) = Len(more) /\ lines \in Seq(LineRecord)
  <2>1. Len(more) \in Nat /\ DOMAIN more = 1..Len(more)
    BY LineFacts
  <2>2. tail \in [1..Len(more) -> LineRecord]
    BY <1>3, <2>1
  <2> HIDE DEF tail
  <2> QED
    BY <2>1, <2>2 DEF Lines
<1> HIDE DEF tail
<1>5. all \in Seq(LineRecord) /\ Len(all) = L + Len(more) /\ Len(more) \in Nat
  <2>1. Len(more) \in Nat
    BY LineFacts
  <2>2. lines \o tail \in Seq(LineRecord) /\ Len(lines \o tail) = Len(lines) + Len(tail)
    BY <1>4, ConcatProperties
  <2> QED
    BY <1>1, <1>4, <2>1, <2>2
<1>6. \A n \in 1..L : all[n] = lines[n]
  BY <1>1, <1>4
<1>7. ASSUME NEW n \in DOMAIN all, n > L
      PROVE  n - L \in DOMAIN more /\ all[n] = tail[n - L]
  BY <1>1, <1>4, <1>5, <1>7, LineFacts
<1>8. ASSUME NEW n \in DOMAIN all PROVE all[n].parent < n
  <2>1. n \in Nat
    BY <1>5
  <2>2. CASE n <= L
    BY <1>1, <1>5, <1>6, <2>1, <2>2, LineFacts
  <2>3. CASE n > L
    <3>1. PICK m \in DOMAIN more : m = n - L /\ all[n] = tail[m]
      BY <1>7, <2>3
    <3>2. more[m].parent \in Nat /\ more[m].parent < m /\ m \in Nat
      BY LineFacts
    <3> QED
      BY <1>3, <2>1, <2>3, <3>1, <3>2
  <2> QED
    BY <2>1, <2>2, <2>3
<1>9. DOMAIN lines = 1..L /\ DOMAIN lines \subseteq DOMAIN all
  BY <1>1, <1>5, LineFacts
<1>10. \A n \in DOMAIN all : n \in DOMAIN lines \/ n > L
  BY <1>5, <1>9
<1> HIDE DEF all
<1> QED
  <2>1. all \in Lines
    BY <1>5, <1>8 DEF Lines, ParentsFirst
  <2>2. \A n \in DOMAIN lines : n \in DOMAIN all /\ all[n] = lines[n]
    BY <1>6, <1>9
  <2>3. ASSUME NEW n \in DOMAIN all
        PROVE  \/ n \in DOMAIN lines /\ all[n] = lines[n]
               \/ \E m \in DOMAIN more :
                    all[n].code = more[m].code /\ all[n].source = more[m].source
    BY <1>3, <1>7, <1>10, <2>2
  <2> QED
    BY <1>2, <2>1, <2>2, <2>3

LEMMA InOrderFacts ==
  ASSUME NEW N \in Nat, NEW I \in SUBSET (1..N)
  PROVE  /\ Cardinality(I) \in Nat
         /\ DOMAIN InOrder(I) = 1..Cardinality(I)
         /\ \A k \in DOMAIN InOrder(I) : InOrder(I)[k] \in I
         /\ \A n \in I : \E k \in DOMAIN InOrder(I) : InOrder(I)[k] = n
<1> DEFINE before == [n \in I |-> {m \in I : m < n}]
<1>1. I \in SUBSET Nat
  OBVIOUS
<1>2. IsFiniteSet(I)
  <2>1. IsFiniteSet(1..N)
    BY FS_Interval
  <2> QED
    BY <2>1, FS_Subset
<1>3. StrictOrder(before) /\ DOMAIN before = I
  BY <1>1, NumberOrder
<1> QED
  BY <1>2, <1>3, ListedOrder DEF InOrder

\* The last occurrences of what is in S.
Chosen(ids, S) ==
  {n \in DOMAIN ids : ids[n] \in S /\ \A m \in DOMAIN ids : ids[m] = ids[n] => m <= n}

LEMMA ChosenInOrder ==
  ASSUME NEW S, NEW T, NEW ids \in Seq(T)
  PROVE  LET I == Chosen(ids, S)
         IN /\ Picked(ids, S) = [k \in DOMAIN InOrder(I) |-> ids[InOrder(I)[k]]]
            /\ Cardinality(I) \in Nat
            /\ DOMAIN InOrder(I) = 1..Cardinality(I)
            /\ \A k \in DOMAIN InOrder(I) : InOrder(I)[k] \in I
            /\ \A n \in I : \E k \in DOMAIN InOrder(I) : InOrder(I)[k] = n
<1>1. PICK L \in Nat : DOMAIN ids = 1..L
  OBVIOUS
<1>2. PICK I \in SUBSET (1..L) : I = Chosen(ids, S)
  BY <1>1 DEF Chosen
<1>3. Picked(ids, S) = [k \in DOMAIN InOrder(I) |-> ids[InOrder(I)[k]]]
  BY <1>2 DEF Picked, Chosen
<1> QED
  BY <1>2, <1>3, InOrderFacts

(* Only what is in S is picked, and nothing of it is left out. *)
LEMMA PickedFacts ==
  ASSUME NEW S, NEW T, NEW ids \in Seq(T)
  PROVE  Picked(ids, S) \in Seq(T \intersect S)
<1>1. PICK I : I = Chosen(ids, S)
  OBVIOUS
<1>2. \A n \in I : ids[n] \in T \intersect S
  BY <1>1 DEF Chosen
<1>3. PICK M \in Nat : M = Cardinality(I)
  BY <1>1, ChosenInOrder
<1>4. Picked(ids, S) \in [1..M -> T \intersect S]
  BY <1>1, <1>2, <1>3, ChosenInOrder
<1> QED
  BY <1>4

LEMMA PickedMembers ==
  ASSUME NEW S, NEW T, NEW ids \in Seq(T), NEW s \in S, NEW n \in DOMAIN ids, ids[n] = s
  PROVE  \E k \in DOMAIN Picked(ids, S) : Picked(ids, S)[k] = s
<1>1. DOMAIN ids = 1..Len(ids) /\ Len(ids) \in Nat
  OBVIOUS
<1> DEFINE Later == {Len(ids) - m : m \in {m \in DOMAIN ids : ids[m] = s}}
<1>2. Later \in SUBSET Nat /\ Later # {}
  BY <1>1
<1>3. PICK d \in Later : \A e \in Later : d <= e
  BY <1>2, FirstOf
<1>4. PICK m \in DOMAIN ids : ids[m] = s /\ d = Len(ids) - m
  BY <1>3
<1>5. ASSUME NEW j \in DOMAIN ids, ids[j] = ids[m] PROVE j <= m
  <2>1. Len(ids) - j \in Later
    BY <1>4, <1>5
  <2>2. Len(ids) - m <= Len(ids) - j
    BY <1>3, <1>4, <2>1
  <2> QED
    BY <1>1, <2>2
<1>6. m \in Chosen(ids, S)
  BY <1>4, <1>5 DEF Chosen
<1>7. PICK at : at = InOrder(Chosen(ids, S))
  OBVIOUS
<1>8. Picked(ids, S) = [k \in DOMAIN at |-> ids[at[k]]] /\ \E k \in DOMAIN at : at[k] = m
  BY <1>6, <1>7, ChosenInOrder
<1> QED
  BY <1>4, <1>8

-----------------------------------------------------------------------------
(* What may stand in a document. *)

OwnSource(o, source) ==
  source # Null => (IF source \in Specs THEN SpecOwner[source] ELSE ClauseOwner[source]) \in {Null, o}

(* Lines of a section of organization o: made from its rows or shipped ones,
   and outside the summary none that claims a specification section. *)
GoodLines(o, key, lines) ==
  /\ lines \in Lines
  /\ \A n \in DOMAIN lines : /\ OwnSource(o, lines[n].source)
                             /\ key # "summary" => lines[n].code = Null

GoodDocument(x) ==
  /\ x \in Document
  /\ x.project # Null => ProjectOrg[x.project] = x.org
  /\ x.package # Null => PackageOrg[x.package] = x.org
  /\ \A key \in Keys : GoodLines(x.org, key, x.lines[key])

CodesOf(lines) == {lines[n].code : n \in DOMAIN lines} \ {Null}

DefaultCodes(o, div) == {row[s].code : s \in Defaults(o, div)}

(* The summary is printed and names the sections of the default choice. *)
StandardDocument(x) ==
  x.on["summary"] /\ CodesOf(x.lines["summary"]) = DefaultCodes(x.org, x.div)

ExhibitInv ==
  /\ doc \in [Docs -> Document \union {Null}]
  /\ \A d \in Docs : doc[d] # Null => GoodDocument(doc[d])
  /\ \A t \in Templates : template[t] # Null =>
       template[t].on \in [Keys -> BOOLEAN] /\ template[t].lines \in [Keys -> Lines]
  /\ template = [t \in Templates |-> template[t]]
  /\ row \in [Specs -> SpecRow \union {Null}]
  /\ \A d \in standard : d \in Docs /\ doc[d] # Null /\ StandardDocument(doc[d])

LEMMA NoNull ==
  /\ Null \notin Document /\ Null \notin SpecRow /\ Null \notin Specs
  /\ Null \notin LibraryClauses /\ Null \notin Codes /\ Null \notin Projects /\ Null \notin Packages
  /\ Null \notin Docs
  /\ Specs \intersect LibraryClauses = {}
  /\ "summary" \in Keys /\ "exclusions" \in Keys
BY ExhibitsAssumption

-----------------------------------------------------------------------------
(* Lines stay good. *)

LEMMA EmptyGood ==
  ASSUME NEW o, NEW key PROVE GoodLines(o, key, <<>>) /\ <<>> \in Lines
BY DEF GoodLines, Lines, ParentsFirst

LEMMA ArrangedGood ==
  ASSUME NEW o, NEW key, NEW lines, GoodLines(o, key, lines), NEW order, Arrangement(lines, order)
  PROVE  GoodLines(o, key, Arranged(lines, order))
<1>1. lines \in Lines
  BY DEF GoodLines
<1>2. PICK copy : copy = Arranged(lines, order)
  OBVIOUS
<1>3. copy \in Lines /\ DOMAIN copy = DOMAIN order
  BY <1>1, <1>2, ArrangedFacts
<1>4. ASSUME NEW k \in DOMAIN order
      PROVE  /\ order[k] \in DOMAIN lines
             /\ copy[k].code = lines[order[k]].code /\ copy[k].source = lines[order[k]].source
  BY <1>1, <1>2, ArrangedFacts
<1> QED
  BY <1>2, <1>3, <1>4 DEF GoodLines

LEMMA CopyGood ==
  ASSUME NEW o, NEW key, NEW lines, GoodLines(o, key, lines)
  PROVE  GoodLines(o, key, CopyItems(lines))
<1>1. lines \in Lines
  BY DEF GoodLines
<1> QED
  BY <1>1, PageArrangement, ArrangedGood DEF CopyItems

LEMMA WithoutGood ==
  ASSUME NEW o, NEW key, NEW lines, GoodLines(o, key, lines), NEW n \in DOMAIN lines
  PROVE  GoodLines(o, key, Without(lines, n))
<1>1. lines \in Lines
  BY DEF GoodLines
<1> QED
  BY <1>1, WithoutArrangement, ArrangedGood DEF Without

LEMMA AppendedGood ==
  ASSUME NEW o, NEW key, NEW lines, GoodLines(o, key, lines), NEW more, GoodLines(o, key, more)
  PROVE  GoodLines(o, key, Append2(lines, more))
<1>1. lines \in Lines /\ more \in Lines
  BY DEF GoodLines
<1>2. PICK all : all = Append2(lines, more)
  OBVIOUS
<1>3. all \in Lines
  BY <1>1, <1>2, AppendedFacts
<1>4. ASSUME NEW n \in DOMAIN all
      PROVE  \/ n \in DOMAIN lines /\ all[n] = lines[n]
             \/ \E m \in DOMAIN more :
                  all[n].code = more[m].code /\ all[n].source = more[m].source
  BY <1>1, <1>2, AppendedFacts
<1> QED
  BY <1>2, <1>3, <1>4 DEF GoodLines

(* A typed line hangs on a line of its section and claims nothing. *)
LEMMA TypedGood ==
  ASSUME NEW o, NEW key, NEW lines, GoodLines(o, key, lines),
         NEW parent \in {0} \union DOMAIN lines, NEW pos \in Nat, NEW w \in Typed
  PROVE  LET all == Append(lines, Line(parent, pos, <<"typed", w>>, "custom"))
         IN GoodLines(o, key, all) /\ CodesOf(all) = CodesOf(lines)
<1>1. lines \in Lines
  BY DEF GoodLines
<1>2. /\ Len(lines) \in Nat /\ DOMAIN lines = 1..Len(lines)
      /\ \A n \in DOMAIN lines : lines[n] \in LineRecord /\ lines[n].parent < n
  BY <1>1, LineFacts
<1>3. PICK line \in LineRecord :
        line = Line(parent, pos, <<"typed", w>>, "custom")
        /\ line.parent = parent /\ line.code = Null /\ line.source = Null
  <2>1. parent \in Nat /\ <<"typed", w>> \in Text
    BY <1>2 DEF Text
  <2>2. Line(parent, pos, <<"typed", w>>, "custom") \in LineRecord
    BY <2>1 DEF Line, LineRecord
  <2> QED
    BY <2>2 DEF Line
<1>4. lines \in Seq(LineRecord)
  BY <1>1 DEF Lines
<1>5. PICK all : all = Append(lines, line)
  OBVIOUS
<1>6. /\ all \in Seq(LineRecord) /\ DOMAIN all = 1..(Len(lines) + 1)
      /\ \A n \in DOMAIN lines : all[n] = lines[n]
      /\ all[Len(lines) + 1] = line
  BY <1>2, <1>4, <1>5
<1>7. \A n \in DOMAIN all : n \in DOMAIN lines \/ n = Len(lines) + 1
  BY <1>2, <1>6
<1>8. all \in Lines
  <2>1. \A n \in DOMAIN all : all[n].parent < n
    BY <1>2, <1>3, <1>6, <1>7
  <2> QED
    BY <1>6, <2>1 DEF Lines, ParentsFirst
<1>9. GoodLines(o, key, all)
  BY <1>3, <1>6, <1>7, <1>8 DEF GoodLines, OwnSource
<1>10. CodesOf(all) = CodesOf(lines)
  <2>1. ASSUME NEW c \in CodesOf(all) PROVE c \in CodesOf(lines)
    BY <1>3, <1>6, <1>7, <2>1 DEF CodesOf
  <2>2. ASSUME NEW c \in CodesOf(lines) PROVE c \in CodesOf(all)
    BY <1>2, <1>6 DEF CodesOf
  <2> QED
    BY <2>1, <2>2
<1> QED
  BY <1>3, <1>5, <1>9, <1>10

(* What a line is about stays with it when its text is edited. *)
LEMMA RetypedGood ==
  ASSUME NEW o, NEW key, NEW lines, GoodLines(o, key, lines),
         NEW n \in DOMAIN lines, NEW w \in Typed
  PROVE  LET all == [lines EXCEPT ![n] = WithText(lines[n], w)]
         IN GoodLines(o, key, all) /\ CodesOf(all) = CodesOf(lines)
<1>1. lines \in Lines /\ lines \in Seq(LineRecord)
  BY DEF GoodLines, Lines
<1>2. PICK line : line = WithText(lines[n], w)
  OBVIOUS
<1>3. /\ line \in LineRecord /\ line.parent = lines[n].parent
      /\ line.code = lines[n].code /\ line.source = lines[n].source
  <2>1. lines[n] \in LineRecord /\ <<"typed", w>> \in Text
    BY <1>1 DEF Text
  <2> QED
    BY <1>2, <2>1 DEF WithText, LineRecord
<1>4. PICK all : all = [lines EXCEPT ![n] = line]
  OBVIOUS
<1>5. /\ all \in Seq(LineRecord) /\ DOMAIN all = DOMAIN lines /\ all[n] = line
      /\ \A m \in DOMAIN lines : m # n => all[m] = lines[m]
  BY <1>1, <1>3, <1>4, ExceptSeq
<1>6. \A m \in DOMAIN lines : /\ all[m].parent = lines[m].parent
                              /\ all[m].code = lines[m].code /\ all[m].source = lines[m].source
  BY <1>3, <1>5
<1>7. all \in Lines
  BY <1>1, <1>5, <1>6 DEF Lines, ParentsFirst
<1>8. GoodLines(o, key, all)
  BY <1>5, <1>6, <1>7 DEF GoodLines
<1>9. CodesOf(all) = CodesOf(lines)
  BY <1>5, <1>6 DEF CodesOf
<1> QED
  BY <1>2, <1>4, <1>8, <1>9

(* After the last of the siblings there is room. *)
LEMMA LargestPosition ==
  ASSUME NEW lines \in Lines, NEW I \in SUBSET DOMAIN lines, I # {}
  PROVE  \E p \in {lines[n].pos : n \in I} : \A q \in {lines[n].pos : n \in I} : q <= p
<1>0. PICK L \in Nat : L = Len(lines)
  BY LineFacts
<1> DEFINE T == {k \in 0..L : ~\E b \in Nat : \A n \in 1..k : lines[n].pos <= b}
<1>1. DOMAIN lines = 1..L /\ \A n \in DOMAIN lines : lines[n].pos \in Nat
  BY <1>0, LineFacts
<1>2. T = {}
  <2> SUFFICES ASSUME T # {} PROVE FALSE
    OBVIOUS
  <2>1. T \in SUBSET Nat
    BY <1>1
  <2>2. PICK k \in T : \A m \in T : k <= m
    BY <2>1, FirstOf
  <2>3. k \in 0..L /\ ~\E b \in Nat : \A n \in 1..k : lines[n].pos <= b
    BY <2>2
  <2>4. k # 0
    BY <2>3
  <2>5. k - 1 \in 0..L /\ k \in DOMAIN lines /\ ~(k <= k - 1)
    BY <1>1, <2>3, <2>4
  <2>6. PICK b \in Nat : \A n \in 1..(k - 1) : lines[n].pos <= b
    BY <2>2, <2>5
  <2>7. PICK c \in Nat : c = lines[k].pos
    BY <1>1, <2>5
  <2>8. \A n \in 1..k : n \in 1..(k - 1) \/ n = k
    BY <2>3
  <2>9. \A n \in 1..k : n \in DOMAIN lines
    BY <1>1, <2>3
  <2>10. ASSUME NEW n \in 1..k PROVE lines[n].pos <= b + c
    <3>1. PICK p \in Nat : p = lines[n].pos
      BY <1>1, <2>9
    <3>2. p <= b \/ p = c
      BY <2>6, <2>7, <2>8, <3>1
    <3>3. p <= b + c
      BY <3>2
    <3> QED
      BY <3>1, <3>3
  <2>11. b + c \in Nat
    OBVIOUS
  <2> QED
    BY <2>3, <2>10, <2>11
<1>3. PICK b \in Nat : \A n \in DOMAIN lines : lines[n].pos <= b
  <2>1. L \in 0..L
    OBVIOUS
  <2>2. L \notin T
    <3> HIDE DEF T
    <3> QED
      BY <1>2
  <2> QED
    BY <1>1, <2>1, <2>2
<1> DEFINE D == {b - lines[n].pos : n \in I}
<1>4. D \in SUBSET Nat /\ D # {}
  BY <1>1, <1>3
<1>5. PICK e \in D : \A f \in D : e <= f
  BY <1>4, FirstOf
<1>6. PICK n \in I : e = b - lines[n].pos
  BY <1>5
<1>7. ASSUME NEW m \in I PROVE lines[m].pos <= lines[n].pos
  <2>1. b - lines[n].pos <= b - lines[m].pos
    BY <1>5, <1>6
  <2> QED
    BY <1>1, <2>1
<1> QED
  BY <1>7

-----------------------------------------------------------------------------
(* What the builder puts together. *)

LEMMA Joined ==
  ASSUME NEW S, NEW s \in Seq(S), NEW t \in Seq(S)
  PROVE  /\ s \o t \in Seq(S)
         /\ \A n \in DOMAIN (s \o t) :
              \/ n \in DOMAIN s /\ (s \o t)[n] = s[n]
              \/ \E m \in DOMAIN t : n = Len(s) + m /\ (s \o t)[n] = t[m]
         /\ \A n \in DOMAIN s : n \in DOMAIN (s \o t) /\ (s \o t)[n] = s[n]
         /\ \A m \in DOMAIN t : Len(s) + m \in DOMAIN (s \o t) /\ (s \o t)[Len(s) + m] = t[m]
<1>1. PICK L \in Nat : L = Len(s)
  OBVIOUS
<1>2. PICK M \in Nat : M = Len(t)
  OBVIOUS
<1>3. DOMAIN s = 1..L /\ DOMAIN t = 1..M
  BY <1>1, <1>2
<1>4. PICK all \in Seq(S) : all = s \o t
  BY ConcatProperties
<1>5. DOMAIN all = 1..(L + M)
  <2>1. Len(all) = L + M
    BY <1>1, <1>2, <1>4, ConcatProperties
  <2> QED
    BY <2>1
<1>6. \A i \in 1..(L + M) : all[i] = IF i <= L THEN s[i] ELSE t[i - L]
  BY <1>1, <1>2, <1>4, ConcatProperties
<1>7. ASSUME NEW n \in DOMAIN all
      PROVE  \/ n \in DOMAIN s /\ all[n] = s[n]
             \/ \E m \in DOMAIN t : n = L + m /\ all[n] = t[m]
  <2>1. CASE n <= L
    BY <1>3, <1>5, <1>6, <2>1
  <2>2. CASE n > L
    <3>1. n \in 1..(L + M) /\ n \in Nat /\ ~(n <= L)
      BY <1>5, <2>2
    <3>2. n - L \in 1..M /\ n = L + (n - L)
      BY <2>2, <3>1
    <3>3. all[n] = t[n - L]
      BY <1>6, <3>1
    <3> QED
      BY <1>3, <3>2, <3>3
  <2> QED
    BY <1>5, <2>1, <2>2
<1>8. \A n \in DOMAIN s : n \in DOMAIN all /\ all[n] = s[n]
  BY <1>3, <1>5, <1>6
<1>9. ASSUME NEW m \in DOMAIN t PROVE L + m \in DOMAIN all /\ all[L + m] = t[m]
  <2>1. m \in 1..M /\ L + m \in 1..(L + M) /\ ~(L + m <= L) /\ (L + m) - L = m
    BY <1>3
  <2> QED
    BY <1>5, <1>6, <2>1
<1> QED
  BY <1>1, <1>4, <1>7, <1>8, <1>9

VisibleClauses(o) == {c \in LibraryClauses : Visible(o, c)}

LEMMA ClauseLinesFacts ==
  ASSUME NEW o, NEW first \in Nat, NEW clauses \in Seq(VisibleClauses(o))
  PROVE  /\ ClauseLines(clauses, first) \in Seq(LineRecord)
         /\ \A n \in DOMAIN ClauseLines(clauses, first) :
              LET line == ClauseLines(clauses, first)[n]
              IN line.parent = 0 /\ line.code = Null /\ OwnSource(o, line.source)
<1>1. PICK N \in Nat : DOMAIN clauses = 1..N /\ \A n \in 1..N : clauses[n] \in VisibleClauses(o)
  OBVIOUS
<1>2. PICK lines : lines = ClauseLines(clauses, first)
  OBVIOUS
<1>3. ASSUME NEW n \in 1..N
      PROVE  /\ lines[n] \in LineRecord
             /\ lines[n].parent = 0 /\ lines[n].code = Null /\ lines[n].source = clauses[n]
  <2>1. clauses[n] \in LibraryClauses
    BY <1>1 DEF VisibleClauses
  <2>2. first + n - 1 \in Nat
    OBVIOUS
  <2>3. <<"clause", clauses[n]>> \in Text
    BY <2>1 DEF Text
  <2>4. lines[n] = [Line(0, first + n - 1, <<"clause", clauses[n]>>, "clause")
                      EXCEPT !.source = clauses[n]]
    BY <1>1, <1>2 DEF ClauseLines
  <2> HIDE <2>3
  <2>5. PICK p \in Nat : p = first + n - 1
    BY <2>2
  <2>6. PICK x \in Text : x = <<"clause", clauses[n]>>
    BY <2>3
  <2> QED
    BY <2>1, <2>4, <2>5, <2>6 DEF Line, LineRecord
<1>4. lines = [n \in 1..N |-> lines[n]]
  BY <1>1, <1>2 DEF ClauseLines
<1>5. lines \in Seq(LineRecord) /\ DOMAIN lines = 1..N
  BY <1>3, <1>4
<1>6. ASSUME NEW n \in 1..N PROVE OwnSource(o, clauses[n])
  <2>1. clauses[n] \in LibraryClauses /\ Visible(o, clauses[n])
    BY <1>1 DEF VisibleClauses
  <2>2. clauses[n] \notin Specs
    BY <2>1, NoNull
  <2> QED
    BY <2>1, <2>2 DEF OwnSource, Visible
<1> QED
  BY <1>2, <1>3, <1>5, <1>6

LEMMA SpecLinesFacts ==
  ASSUME row \in [Specs -> SpecRow \union {Null}], NEW o, NEW specs \in Seq(Seen(o))
  PROVE  /\ SpecLines(specs) \in Seq(LineRecord) /\ DOMAIN SpecLines(specs) = DOMAIN specs
         /\ \A n \in DOMAIN specs :
              LET line == SpecLines(specs)[n]
              IN /\ line.parent = 3 /\ OwnSource(o, line.source)
                 /\ line.code = row[specs[n]].code /\ line.code # Null
<1>1. PICK N \in Nat : DOMAIN specs = 1..N /\ \A n \in 1..N : specs[n] \in Seen(o)
  OBVIOUS
<1>2. PICK lines : lines = SpecLines(specs)
  OBVIOUS
<1>3. ASSUME NEW n \in 1..N
      PROVE  /\ lines[n] \in LineRecord /\ lines[n].parent = 3
             /\ lines[n].code = row[specs[n]].code /\ lines[n].source = specs[n]
             /\ row[specs[n]].code \in Codes
  <2>1. specs[n] \in Specs /\ row[specs[n]] # Null
    BY <1>1 DEF Seen
  <2>2. row[specs[n]] \in SpecRow
    BY <2>1
  <2>3. PICK c \in Codes : c = row[specs[n]].code
    BY <2>2 DEF SpecRow
  <2>4. PICK p \in Nat : p = n - 1
    OBVIOUS
  <2>5. PICK x \in Text : x = <<"spec", c>>
    BY DEF Text
  <2>6. lines[n] = [Line(3, p, x, "spec_section") EXCEPT !.code = c, !.source = specs[n]]
    BY <1>1, <1>2, <2>3, <2>4, <2>5 DEF SpecLines
  <2>7. lines[n] = [parent |-> 3, pos |-> p, text |-> x, role |-> "spec_section",
                    code |-> c, source |-> specs[n]]
    BY <2>6 DEF Line
  <2>8. lines[n] \in LineRecord
    <3>1. PICK s \in Specs : s = specs[n]
      BY <2>1
    <3>2. [parent |-> 3, pos |-> p, text |-> x, role |-> "spec_section", code |-> c,
           source |-> s] \in LineRecord
      BY DEF LineRecord
    <3> QED
      BY <2>7, <3>1, <3>2
  <2> QED
    BY <2>3, <2>7, <2>8
<1>4. lines = [n \in 1..N |-> lines[n]]
  BY <1>1, <1>2 DEF SpecLines
<1>5. lines \in Seq(LineRecord) /\ DOMAIN lines = 1..N
  BY <1>3, <1>4
<1>6. ASSUME NEW n \in 1..N PROVE OwnSource(o, specs[n])
  <2>1. specs[n] \in Specs /\ SpecOwner[specs[n]] \in {o, Null}
    BY <1>1 DEF Seen
  <2> QED
    BY <2>1 DEF OwnSource
<1> QED
  BY <1>1, <1>2, <1>3, <1>5, <1>6, NoNull

NamedCodes(specs) == {row[specs[n]].code : n \in DOMAIN specs}

(* The summary claims the chosen sections and no others (_build_summary_items). *)
LEMMA SummaryFacts ==
  ASSUME row \in [Specs -> SpecRow \union {Null}], NEW o, NEW div \in Divs \union {Null},
         NEW specs \in Seq(Seen(o)), NEW clauses \in Seq(VisibleClauses(o))
  PROVE  /\ GoodLines(o, "summary", SummaryLines(div, specs, clauses))
         /\ CodesOf(SummaryLines(div, specs, clauses)) = NamedCodes(specs)
<1>1. PICK a \in LineRecord : a = Line(0, 0, <<"lead", div>>, "summary_lead")
  <2>1. <<"lead", div>> \in Text
    BY DEF Text
  <2> QED
    BY <2>1 DEF Line, LineRecord
<1>2. PICK b \in LineRecord : b = Line(0, 1, <<"means", div>>, "summary_means_and_methods")
  <2>1. <<"means", div>> \in Text
    BY DEF Text
  <2> QED
    BY <2>1 DEF Line, LineRecord
<1>3. PICK c \in LineRecord : c = Line(0, 2, <<"sections", div>>, "spec_list")
  <2>1. <<"sections", div>> \in Text
    BY DEF Text
  <2> QED
    BY <2>1 DEF Line, LineRecord
<1>4. \A line \in {a, b, c} : line.parent = 0 /\ line.code = Null /\ line.source = Null
  BY <1>1, <1>2, <1>3 DEF Line
<1>5. OwnSource(o, Null)
  BY DEF OwnSource
<1>6. CASE specs = <<>>
  <2>1. PICK more \in Seq(LineRecord) : more = ClauseLines(clauses, 2)
    BY ClauseLinesFacts
  <2>2. \A n \in DOMAIN more : more[n].parent = 0 /\ more[n].code = Null /\ OwnSource(o, more[n].source)
    BY <2>1, ClauseLinesFacts
  <2>3. <<a, b>> \in Seq(LineRecord) /\ \A n \in DOMAIN <<a, b>> : <<a, b>>[n] \in {a, b, c}
    OBVIOUS
  <2>4. PICK all \in Seq(LineRecord) : all = <<a, b>> \o more
    BY <2>3, Joined
  <2>5. \A n \in DOMAIN all : (\E m \in DOMAIN <<a, b>> : all[n] = <<a, b>>[m])
                              \/ \E m \in DOMAIN more : all[n] = more[m]
    <3>1. PICK start \in Seq(LineRecord) : start = <<a, b>>
      BY <2>3
    <3>2. all = start \o more
      BY <2>4, <3>1
    <3>3. \A n \in DOMAIN all : \/ n \in DOMAIN start /\ all[n] = start[n]
                                \/ \E m \in DOMAIN more : n = Len(start) + m /\ all[n] = more[m]
      BY <3>2, Joined
    <3> QED
      BY <3>1, <3>3
  <2>6. ASSUME NEW n \in DOMAIN all
        PROVE  all[n].parent < n /\ all[n].code = Null /\ OwnSource(o, all[n].source)
    <3>1. all[n].parent = 0 /\ all[n].code = Null /\ OwnSource(o, all[n].source)
      BY <1>4, <1>5, <2>2, <2>3, <2>5
    <3>2. n \in Nat /\ 0 < n
      OBVIOUS
    <3> QED
      BY <3>1, <3>2
  <2>7. SummaryLines(div, specs, clauses) = all
    BY <1>1, <1>2, <1>6, <2>1, <2>4 DEF SummaryLines
  <2>8. GoodLines(o, "summary", all)
    BY <2>6 DEF GoodLines, Lines, ParentsFirst
  <2>9. CodesOf(all) = {} /\ DOMAIN specs = {}
    BY <1>6, <2>6 DEF CodesOf
  <2> QED
    BY <2>7, <2>8, <2>9 DEF NamedCodes
<1>7. CASE specs # <<>>
  <2>1. PICK more \in Seq(LineRecord) : more = ClauseLines(clauses, 3)
    BY ClauseLinesFacts
  <2>2. \A n \in DOMAIN more : more[n].parent = 0 /\ more[n].code = Null /\ OwnSource(o, more[n].source)
    BY <2>1, ClauseLinesFacts
  <2>3. PICK named \in Seq(LineRecord) : named = SpecLines(specs)
    BY SpecLinesFacts
  <2>4. /\ DOMAIN named = DOMAIN specs
        /\ \A n \in DOMAIN named : /\ named[n].parent = 3 /\ OwnSource(o, named[n].source)
                                   /\ named[n].code = row[specs[n]].code /\ named[n].code # Null
    BY <2>3, SpecLinesFacts
  <2>5. PICK head \in Seq(LineRecord) : head = <<a, b>> \o <<c>>
    <3>1. <<a, b>> \in Seq(LineRecord) /\ <<c>> \in Seq(LineRecord)
      OBVIOUS
    <3> QED
      BY <3>1, Joined
  <2>6. Len(head) = 3 /\ \A n \in DOMAIN head : head[n] \in {a, b, c}
    BY <2>5
  <2>7. PICK part \in Seq(LineRecord) : part = head \o named
    BY Joined
  <2>8. /\ \A n \in DOMAIN part : \/ \E m \in DOMAIN head : part[n] = head[m]
                                  \/ n > 3 /\ \E m \in DOMAIN named : part[n] = named[m]
        /\ \A m \in DOMAIN named : \E n \in DOMAIN part : part[n] = named[m]
    <3>0. /\ \A n \in DOMAIN part : 
               \/ n \in DOMAIN head /\ part[n] = head[n]
               \/ \E m \in DOMAIN named : n = Len(head) + m /\ part[n] = named[m]
          /\ \A m \in DOMAIN named : Len(head) + m \in DOMAIN part /\ part[Len(head) + m] = named[m]
      BY <2>7, Joined
    <3>1. ASSUME NEW n \in DOMAIN part, ~\E m \in DOMAIN head : part[n] = head[m]
          PROVE  n > 3 /\ \E m \in DOMAIN named : part[n] = named[m]
      <4>1. PICK m \in DOMAIN named : n = Len(head) + m /\ part[n] = named[m]
        BY <3>0, <3>1
      <4>2. m \in Nat /\ m > 0
        OBVIOUS
      <4> QED
        BY <2>6, <4>1, <4>2
    <3>2. \A m \in DOMAIN named : \E n \in DOMAIN part : part[n] = named[m]
      BY <3>0
    <3> QED
      BY <3>1, <3>2
  <2>9. PICK all \in Seq(LineRecord) : all = part \o more
    BY Joined
  <2>10. /\ \A n \in DOMAIN all : \/ n \in DOMAIN part /\ all[n] = part[n]
                                  \/ \E m \in DOMAIN more : all[n] = more[m]
         /\ \A n \in DOMAIN part : n \in DOMAIN all /\ all[n] = part[n]
    BY <2>9, Joined
  <2>11. ASSUME NEW n \in DOMAIN all
         PROVE  /\ all[n].parent < n /\ OwnSource(o, all[n].source)
                /\ all[n].code = Null \/ \E m \in DOMAIN named : all[n].code = named[m].code
    <3>1. n \in Nat /\ 0 < n
      OBVIOUS
    <3>2. CASE \E m \in DOMAIN more : all[n] = more[m]
      BY <2>2, <3>1, <3>2
    <3>3. CASE n \in DOMAIN part /\ all[n] = part[n]
      <4>1. CASE \E m \in DOMAIN head : part[n] = head[m]
        BY <1>4, <1>5, <2>6, <3>1, <3>3, <4>1
      <4>2. CASE n > 3 /\ \E m \in DOMAIN named : part[n] = named[m]
        BY <2>4, <3>1, <3>3, <4>2
      <4> QED
        BY <2>8, <3>3, <4>1, <4>2
    <3> QED
      BY <2>10, <3>2, <3>3
  <2>12. SummaryLines(div, specs, clauses) = all
    BY <1>1, <1>2, <1>3, <1>7, <2>1, <2>3, <2>5, <2>7, <2>9 DEF SummaryLines
  <2>13. GoodLines(o, "summary", all)
    BY <2>11 DEF GoodLines, Lines, ParentsFirst
  <2>14. CodesOf(all) = {named[n].code : n \in DOMAIN named}
    <3>1. ASSUME NEW m \in DOMAIN named PROVE named[m].code \in CodesOf(all)
      BY <2>4, <2>8, <2>10 DEF CodesOf
    <3>2. ASSUME NEW x \in CodesOf(all) PROVE \E m \in DOMAIN named : x = named[m].code
      BY <2>11 DEF CodesOf
    <3> QED
      BY <3>1, <3>2
  <2>15. {named[n].code : n \in DOMAIN named} = {row[specs[n]].code : n \in DOMAIN specs}
    <3>1. ASSUME NEW n \in DOMAIN named
          PROVE  named[n].code \in {row[specs[m]].code : m \in DOMAIN specs}
      BY <2>4
    <3>2. ASSUME NEW n \in DOMAIN specs
          PROVE  row[specs[n]].code \in {named[m].code : m \in DOMAIN named}
      BY <2>4
    <3> QED
      BY <3>1, <3>2
  <2> QED
    BY <2>12, <2>13, <2>14, <2>15 DEF NamedCodes
<1> QED
  BY <1>6, <1>7

-----------------------------------------------------------------------------
(* What is built is good. *)

LEMMA SmallerRange ==
  ASSUME NEW S, NEW T, S \subseteq T, NEW s \in Seq(S)
  PROVE  s \in Seq(T)
OBVIOUS

LEMMA LiteralFacts ==
  ASSUME NEW o, NEW key, NEW lines \in Lines
  PROVE  GoodLines(o, key, LiteralLines(lines)) /\ CodesOf(LiteralLines(lines)) = {}
<1>1. PICK L \in Nat : DOMAIN lines = 1..L
  BY LineFacts
<1>2. PICK all : all = LiteralLines(lines)
  OBVIOUS
<1>3. ASSUME NEW n \in 1..L
      PROVE  /\ all[n] \in LineRecord /\ all[n].parent < n
             /\ all[n].code = Null /\ all[n].source = Null
  <2>1. /\ lines[n] \in LineRecord /\ lines[n].parent < n
    BY <1>1, LineFacts
  <2>2. PICK par \in Nat : par = lines[n].parent
    BY <2>1 DEF LineRecord
  <2>3. PICK pos \in Nat : pos = lines[n].pos
    BY <2>1 DEF LineRecord
  <2>4. PICK x \in Text : x = lines[n].text
    BY <2>1 DEF LineRecord
  <2>5. all[n] = [parent |-> par, pos |-> pos, text |-> x, role |-> "template",
                  code |-> Null, source |-> Null]
    BY <1>1, <1>2, <2>2, <2>3, <2>4 DEF LiteralLines, Line
  <2>6. all[n] \in LineRecord
    BY <2>5 DEF LineRecord
  <2> QED
    BY <2>1, <2>2, <2>5, <2>6
<1>4. all = [n \in 1..L |-> all[n]]
  BY <1>1, <1>2 DEF LiteralLines
<1>5. all \in Seq(LineRecord) /\ DOMAIN all = 1..L
  BY <1>3, <1>4
<1>6. GoodLines(o, key, all)
  BY <1>3, <1>5 DEF GoodLines, Lines, ParentsFirst, OwnSource
<1>7. CodesOf(all) = {}
  BY <1>3, <1>5 DEF CodesOf
<1> QED
  BY <1>2, <1>6, <1>7

(* Saved language claims nothing (Line without a specification section). *)
LEMMA AppendedCodes ==
  ASSUME NEW lines \in Lines, NEW more \in Lines, CodesOf(more) = {}
  PROVE  CodesOf(Append2(lines, more)) = CodesOf(lines)
<1>1. PICK all : all = Append2(lines, more)
  OBVIOUS
<1>2. ASSUME NEW n \in DOMAIN all
      PROVE  \/ n \in DOMAIN lines /\ all[n] = lines[n]
             \/ \E m \in DOMAIN more : all[n].code = more[m].code
  BY <1>1, AppendedFacts
<1>3. \A n \in DOMAIN lines : n \in DOMAIN all /\ all[n] = lines[n]
  BY <1>1, AppendedFacts
<1>4. \A m \in DOMAIN more : more[m].code = Null
  BY DEF CodesOf
<1>5. ASSUME NEW c \in CodesOf(all) PROVE c \in CodesOf(lines)
  BY <1>2, <1>4, <1>5 DEF CodesOf
<1>6. ASSUME NEW c \in CodesOf(lines) PROVE c \in CodesOf(all)
  BY <1>3, <1>6 DEF CodesOf
<1> QED
  BY <1>1, <1>5, <1>6

LEMMA LoadedTemplate ==
  ASSUME ExhibitInv, NEW o, NEW t \in Templates \union {Null}
  PROVE  /\ LoadTemplate(o, t).on # Null => LoadTemplate(o, t).on \in [Keys -> BOOLEAN]
         /\ LoadTemplate(o, t).lines \in [Keys -> Lines]
<1>1. <<>> \in Lines
  BY EmptyGood
<1>2. CASE t # Null /\ template[t] # Null /\ template[t].org = o
  BY <1>2 DEF LoadTemplate, ExhibitInv
<1>3. CASE ~(t # Null /\ template[t] # Null /\ template[t].org = o)
  <2>1. LoadTemplate(o, t) = NoTemplate
    BY <1>3 DEF LoadTemplate
  <2> QED
    BY <1>1, <2>1 DEF NoTemplate
<1> QED
  BY <1>2, <1>3

ClausesOf(o, clauseIds, key) ==
  Picked(GetClauses(o, clauseIds), {c \in LibraryClauses : ClauseSection[c] = key})

GeneratedLines(o, div, clauseIds, specIds, key) ==
  IF key = "summary"
  THEN SummaryLines(div, GetSpecSections(o, specIds), ClausesOf(o, clauseIds, key))
  ELSE ClauseLines(ClausesOf(o, clauseIds, key), 0)

LEMMA ChosenFacts ==
  ASSUME NEW o, NEW clauseIds \in Seq(LibraryClauses), NEW specIds \in Seq(Specs), NEW key
  PROVE  /\ ClausesOf(o, clauseIds, key) \in Seq(VisibleClauses(o))
         /\ GetSpecSections(o, specIds) \in Seq(Seen(o))
<1>1. GetClauses(o, clauseIds) \in Seq(VisibleClauses(o))
  <2>1. GetClauses(o, clauseIds) \in Seq(LibraryClauses \intersect VisibleClauses(o))
    BY PickedFacts DEF GetClauses, VisibleClauses
  <2> QED
    BY <2>1, SmallerRange
<1>2. ClausesOf(o, clauseIds, key) \in Seq(VisibleClauses(o))
  <2>1. ClausesOf(o, clauseIds, key)
          \in Seq(VisibleClauses(o) \intersect {c \in LibraryClauses : ClauseSection[c] = key})
    BY <1>1, PickedFacts DEF ClausesOf
  <2> QED
    BY <2>1, SmallerRange
<1>3. GetSpecSections(o, specIds) \in Seq(Specs \intersect Seen(o))
  BY PickedFacts DEF GetSpecSections
<1> QED
  BY <1>2, <1>3, SmallerRange

LEMMA GeneratedGood ==
  ASSUME ExhibitInv, NEW o, NEW div \in Divs \union {Null},
         NEW clauseIds \in Seq(LibraryClauses), NEW specIds \in Seq(Specs), NEW key
  PROVE  /\ GoodLines(o, key, GeneratedLines(o, div, clauseIds, specIds, key))
         /\ key = "summary" =>
              CodesOf(GeneratedLines(o, div, clauseIds, specIds, key))
                = NamedCodes(GetSpecSections(o, specIds))
<1>1. PICK clauses \in Seq(VisibleClauses(o)) : clauses = ClausesOf(o, clauseIds, key)
  BY ChosenFacts
<1>2. PICK specs \in Seq(Seen(o)) : specs = GetSpecSections(o, specIds)
  BY ChosenFacts
<1>3. row \in [Specs -> SpecRow \union {Null}]
  BY DEF ExhibitInv
<1>4. CASE key = "summary"
  <2>1. GeneratedLines(o, div, clauseIds, specIds, key) = SummaryLines(div, specs, clauses)
    BY <1>1, <1>2, <1>4 DEF GeneratedLines
  <2>2. PICK lines : lines = SummaryLines(div, specs, clauses)
    OBVIOUS
  <2>3. /\ GoodLines(o, "summary", lines)
        /\ CodesOf(lines) = NamedCodes(specs)
    <3>1. GoodLines(o, "summary", SummaryLines(div, specs, clauses))
      BY <1>3, SummaryFacts
    <3>2. CodesOf(SummaryLines(div, specs, clauses)) = NamedCodes(specs)
      BY <1>3, SummaryFacts, Zenon
    <3> QED
      BY <2>2, <3>1, <3>2, Zenon
  <2>4. GeneratedLines(o, div, clauseIds, specIds, key) = lines
    BY <2>1, <2>2
  <2> QED
    BY <1>2, <1>4, <2>3, <2>4, Zenon
<1>5. CASE key # "summary"
  <2>1. PICK all : all = ClauseLines(clauses, 0)
    OBVIOUS
  <2>2. GeneratedLines(o, div, clauseIds, specIds, key) = all
    BY <1>1, <1>5, <2>1 DEF GeneratedLines
  <2>3. /\ all \in Seq(LineRecord)
        /\ \A n \in DOMAIN all : all[n].parent = 0 /\ all[n].code = Null /\ OwnSource(o, all[n].source)
    <3>1. 0 \in Nat
      OBVIOUS
    <3> QED
      BY <2>1, <3>1, ClauseLinesFacts
  <2>4. \A n \in DOMAIN all : all[n].parent < n
    BY <2>3
  <2> QED
    BY <1>5, <2>2, <2>3, <2>4 DEF GoodLines, Lines, ParentsFirst
<1> QED
  BY <1>4, <1>5

LEMMA BuiltLines ==
  ASSUME NEW o, NEW draft, NEW clauseIds, NEW specIds, NEW key \in Keys
  PROVE  Built(o, draft, clauseIds, specIds).lines[key]
           = Append2(GeneratedLines(o, draft.div, clauseIds, specIds, key),
                     LiteralLines(LoadTemplate(o, draft.template).lines[key]))
BY DEF Built, GeneratedLines, ClausesOf

(* Whatever ids a request names, what it builds is its organization's own. *)
LEMMA BuiltGood ==
  ASSUME ExhibitInv, NEW o \in Orgs, NEW draft \in Drafts,
         NEW clauseIds \in Seq(LibraryClauses), NEW specIds \in Seq(Specs)
  PROVE  GoodDocument(Built(o, draft, clauseIds, specIds))
<1>1. PICK x : x = Built(o, draft, clauseIds, specIds)
  OBVIOUS
<1>2. draft \in Draft
  BY ExhibitsAssumption
<1>3. PICK div \in Divs \union {Null} : div = draft.div
  BY <1>2 DEF Draft
<1>4. PICK t \in Templates \union {Null} : t = draft.template
  BY <1>2 DEF Draft
<1>5. ASSUME NEW key \in Keys PROVE GoodLines(o, key, x.lines[key])
  <2>1. PICK lines : lines = GeneratedLines(o, div, clauseIds, specIds, key) /\ GoodLines(o, key, lines)
    BY GeneratedGood
  <2>2. PICK saved \in Lines : saved = LoadTemplate(o, t).lines[key]
    BY LoadedTemplate
  <2>3. PICK more : more = LiteralLines(saved) /\ GoodLines(o, key, more)
    BY LiteralFacts
  <2>4. x.lines[key] = Append2(lines, more)
    BY <1>1, <1>3, <1>4, <2>1, <2>2, <2>3, BuiltLines
  <2> QED
    BY <2>1, <2>3, <2>4, AppendedGood
<1>6. x.lines \in [Keys -> Lines]
  <2>1. x.lines = [key \in Keys |-> x.lines[key]]
    BY <1>1 DEF Built
  <2>2. \A key \in Keys : x.lines[key] \in Lines
    BY <1>5 DEF GoodLines
  <2> QED
    BY <2>1, <2>2
<1>7. x.on \in [Keys -> BOOLEAN]
  BY <1>1 DEF Built
<1>8. PICK project \in Projects \union {Null} :
        project = Own(o, draft.project, ProjectOrg) /\ (project # Null => ProjectOrg[project] = o)
  BY <1>2 DEF Draft, Own
<1>9. PICK package \in Packages \union {Null} :
        package = Own(o, draft.package, PackageOrg) /\ (package # Null => PackageOrg[package] = o)
  BY <1>2 DEF Draft, Own
<1>10. PICK scheme \in Scheme : scheme = draft.scheme
  BY <1>2 DEF Draft
<1>11. x = [org |-> o, project |-> project, package |-> package, div |-> div, scheme |-> scheme,
            styles |-> <<>>, archived |-> FALSE, like |-> Null, on |-> x.on, lines |-> x.lines]
  BY <1>1, <1>3, <1>8, <1>9, <1>10 DEF Built
<1>12. <<>> \in Seq(Style)
  OBVIOUS
<1>13. x \in Document
  <2>1. PICK on \in [Keys -> BOOLEAN] : on = x.on
    BY <1>7
  <2>2. PICK lines \in [Keys -> Lines] : lines = x.lines
    BY <1>6
  <2>3. PICK styles \in Seq(Style) : styles = <<>>
    BY <1>12
  <2>4. x = [org |-> o, project |-> project, package |-> package, div |-> div, scheme |-> scheme,
             styles |-> styles, archived |-> FALSE, like |-> Null, on |-> on, lines |-> lines]
    BY <1>11, <2>1, <2>2, <2>3
  <2> QED
    BY <2>4 DEF Document
<1>14. x.org = o /\ x.project = project /\ x.package = package
  BY <1>11
<1> QED
  BY <1>1, <1>5, <1>8, <1>9, <1>13, <1>14 DEF GoodDocument

-----------------------------------------------------------------------------
(* The default choice. *)

LEMMA PickedInOrder ==
  ASSUME NEW S, S \subseteq Specs
  PROVE  /\ Picked(SpecOrder, S) \in Seq(S)
         /\ \A s \in S : \E k \in DOMAIN Picked(SpecOrder, S) : Picked(SpecOrder, S)[k] = s
<1>1. SpecOrder \in Seq(Specs) /\ \A s \in Specs : \E n \in DOMAIN SpecOrder : SpecOrder[n] = s
  BY ExhibitsAssumption
<1>2. Picked(SpecOrder, S) \in Seq(Specs \intersect S)
  BY <1>1, PickedFacts
<1>3. ASSUME NEW s \in S PROVE \E k \in DOMAIN Picked(SpecOrder, S) : Picked(SpecOrder, S)[k] = s
  <2>1. PICK n \in DOMAIN SpecOrder : SpecOrder[n] = s
    BY <1>1
  <2> QED
    BY <1>1, <2>1, PickedMembers
<1> QED
  BY <1>1, <1>2, <1>3, SmallerRange

LEMMA DefaultSpecsFacts ==
  ASSUME NEW o, NEW div
  PROVE  /\ DefaultSpecs(o, div) \in Seq(Defaults(o, div))
         /\ \A s \in Defaults(o, div) :
              \E k \in DOMAIN DefaultSpecs(o, div) : DefaultSpecs(o, div)[k] = s
<1>1. PICK all \in SUBSET Specs : all = Defaults(o, div)
  BY DEF Defaults, Seen
<1>2. PICK own \in SUBSET all : own = {s \in all : row[s].div = div}
  OBVIOUS
<1>3. PICK universal \in SUBSET all : universal = {s \in all \ own : row[s].universal}
  OBVIOUS
<1>4. PICK others \in SUBSET all : others = all \ (own \union universal)
  OBVIOUS
<1>12. ASSUME NEW S \in SUBSET all
       PROVE  /\ Picked(SpecOrder, S) \in Seq(all)
              /\ \A s \in S : \E k \in DOMAIN Picked(SpecOrder, S) : Picked(SpecOrder, S)[k] = s
  <2>1. S \subseteq Specs /\ S \subseteq all
    OBVIOUS
  <2>2. Picked(SpecOrder, S) \in Seq(S)
    BY <2>1, PickedInOrder
  <2>3. Picked(SpecOrder, S) \in Seq(all)
    BY <2>1, <2>2, SmallerRange
  <2> QED
    BY <2>1, <2>3, PickedInOrder, Zenon
<1>5. PICK a \in Seq(all) : a = Picked(SpecOrder, own) /\ \A s \in own : \E k \in DOMAIN a : a[k] = s
  BY <1>12
<1>6. PICK b \in Seq(all) :
        b = Picked(SpecOrder, universal) /\ \A s \in universal : \E k \in DOMAIN b : b[k] = s
  BY <1>12
<1>7. PICK c \in Seq(all) :
        c = Picked(SpecOrder, others) /\ \A s \in others : \E k \in DOMAIN c : c[k] = s
  BY <1>12
<1>8. PICK ab \in Seq(all) : ab = a \o b
  BY Joined
<1>9. PICK abc \in Seq(all) : abc = ab \o c
  BY Joined
<1>10. DefaultSpecs(o, div) = abc
  BY <1>1, <1>2, <1>3, <1>4, <1>5, <1>6, <1>7, <1>8, <1>9 DEF DefaultSpecs
<1>11. ASSUME NEW s \in all PROVE \E k \in DOMAIN abc : abc[k] = s
  <2>1. s \in own \/ s \in universal \/ s \in others
    BY <1>4
  <2>2. ASSUME NEW k \in DOMAIN ab, ab[k] = s PROVE \E n \in DOMAIN abc : abc[n] = s
    <3>1. k \in DOMAIN (ab \o c) /\ (ab \o c)[k] = ab[k]
      BY Joined
    <3> QED
      BY <1>9, <2>2, <3>1
  <2>3. CASE s \in own
    <3>1. PICK n \in DOMAIN a : a[n] = s
      BY <1>5, <2>3
    <3>2. n \in DOMAIN (a \o b) /\ (a \o b)[n] = a[n]
      BY Joined
    <3> QED
      BY <1>8, <2>2, <3>1, <3>2
  <2>4. CASE s \in universal
    <3>1. PICK m \in DOMAIN b : b[m] = s
      BY <1>6, <2>4
    <3>2. Len(a) + m \in DOMAIN (a \o b) /\ (a \o b)[Len(a) + m] = b[m]
      BY Joined
    <3> QED
      BY <1>8, <2>2, <3>1, <3>2
  <2>5. CASE s \in others
    <3>1. PICK m \in DOMAIN c : c[m] = s
      BY <1>7, <2>5
    <3>2. Len(ab) + m \in DOMAIN (ab \o c) /\ (ab \o c)[Len(ab) + m] = c[m]
      BY Joined
    <3> QED
      BY <1>9, <3>1, <3>2
  <2> QED
    BY <2>1, <2>3, <2>4, <2>5
<1> QED
  BY <1>1, <1>10, <1>11

LEMMA DefaultClausesType ==
  ASSUME NEW o, NEW div PROVE DefaultClauses(o, div) \in Seq(LibraryClauses)
<1>1. ClauseOrder \in Seq(LibraryClauses)
  BY ExhibitsAssumption
<1>2. DefaultClauses(o, div)
        \in Seq(LibraryClauses \intersect
                  {c \in LibraryClauses : /\ Visible(o, c) /\ ClauseDefault[c]
                                          /\ ClauseDiv[c] \in {div, Null}})
  BY <1>1, PickedFacts DEF DefaultClauses
<1> QED
  BY <1>2, SmallerRange

(* Generated from the defaults, a summary names each of them. *)
LEMMA StandardBuilt ==
  ASSUME ExhibitInv, NEW o \in Orgs, NEW draft \in Drafts, NEW clauseIds \in Seq(LibraryClauses)
  PROVE  LET x == Built(o, draft, clauseIds, DefaultSpecs(o, draft.div))
         IN x.on["summary"] => StandardDocument(x)
<1>1. draft \in Draft
  BY ExhibitsAssumption
<1>2. PICK div \in Divs \union {Null} : div = draft.div
  BY <1>1 DEF Draft
<1>3. PICK t \in Templates \union {Null} : t = draft.template
  BY <1>1 DEF Draft
<1>4. Defaults(o, div) \subseteq Seen(o) /\ Defaults(o, div) \subseteq Specs
  BY DEF Defaults, Seen
<1>5. PICK ids : ids = DefaultSpecs(o, div)
  OBVIOUS
<1>6. /\ ids \in Seq(Defaults(o, div)) /\ ids \in Seq(Specs)
      /\ \A s \in Defaults(o, div) : \E k \in DOMAIN ids : ids[k] = s
  BY <1>4, <1>5, DefaultSpecsFacts, SmallerRange
<1>7. PICK specs : specs = GetSpecSections(o, ids)
  OBVIOUS
<1>8. specs \in Seq(Defaults(o, div) \intersect Seen(o))
  BY <1>6, <1>7, PickedFacts DEF GetSpecSections
<1>9. \A n \in DOMAIN ids : ids[n] \in Seen(o) => \E k \in DOMAIN specs : specs[k] = ids[n]
  <2>1. specs = Picked(ids, Seen(o))
    BY <1>7 DEF GetSpecSections
  <2>2. ids \in Seq(Specs)
    BY <1>6
  <2>3. \A n \in DOMAIN ids :
          ids[n] \in Seen(o) => \E k \in DOMAIN Picked(ids, Seen(o)) : Picked(ids, Seen(o))[k] = ids[n]
    BY <2>2, PickedMembers
  <2> QED
    BY <2>1, <2>3
<1>10. NamedCodes(specs) = DefaultCodes(o, div)
  <2>1. ASSUME NEW n \in DOMAIN specs PROVE row[specs[n]].code \in DefaultCodes(o, div)
    <3>1. specs[n] \in Defaults(o, div)
      BY <1>8
    <3> QED
      BY <3>1 DEF DefaultCodes
  <2>2. ASSUME NEW s \in Defaults(o, div) PROVE \E n \in DOMAIN specs : specs[n] = s
    BY <1>4, <1>6, <1>9
  <2> QED
    BY <2>1, <2>2 DEF DefaultCodes, NamedCodes
<1>11. PICK x : x = Built(o, draft, clauseIds, ids)
  OBVIOUS
<1>12. "summary" \in Keys
  BY NoNull
<1>13. PICK lines :
         /\ lines = GeneratedLines(o, div, clauseIds, ids, "summary")
         /\ lines \in Lines
         /\ CodesOf(lines) = NamedCodes(specs)
  <2>1. GoodLines(o, "summary", GeneratedLines(o, div, clauseIds, ids, "summary"))
    BY <1>6, GeneratedGood
  <2>2. CodesOf(GeneratedLines(o, div, clauseIds, ids, "summary"))
          = NamedCodes(specs)
    <3>1. CodesOf(GeneratedLines(o, div, clauseIds, ids, "summary"))
            = NamedCodes(GetSpecSections(o, ids))
      BY <1>6, GeneratedGood, Zenon
    <3> QED
      BY <1>7, <3>1, Zenon
  <2> QED
    BY <2>1, <2>2 DEF GoodLines
<1>14. PICK saved \in Lines : saved = LoadTemplate(o, t).lines["summary"]
  BY <1>12, LoadedTemplate
<1>15. PICK more : more = LiteralLines(saved) /\ more \in Lines /\ CodesOf(more) = {}
  BY LiteralFacts DEF GoodLines
<1>16. x.lines["summary"] = Append2(lines, more)
  BY <1>2, <1>3, <1>11, <1>12, <1>13, <1>14, <1>15, BuiltLines
<1>17. CodesOf(x.lines["summary"]) = DefaultCodes(o, div)
  BY <1>10, <1>13, <1>15, <1>16, AppendedCodes
<1>18. x.org = o /\ x.div = div
  BY <1>2, <1>11 DEF Built
<1> QED
  BY <1>2, <1>5, <1>11, <1>17, <1>18 DEF StandardDocument

-----------------------------------------------------------------------------
(* Requests keep documents good. *)

LEMMA DocumentWritten ==
  ASSUME ExhibitInv, NEW d \in Docs, NEW x, GoodDocument(x),
         doc' = [doc EXCEPT ![d] = x], template' = template, row' = row,
         standard' \subseteq standard \union {d}, d \in standard' => StandardDocument(x)
  PROVE  ExhibitInv'
<1>1. doc' \in [Docs -> Document \union {Null}]
  BY DEF ExhibitInv, GoodDocument
<1>2. \A e \in Docs : doc'[e] = IF e = d THEN x ELSE doc[e]
  BY DEF ExhibitInv
<1>3. \A e \in Docs : doc'[e] # Null => GoodDocument(doc'[e])
  BY <1>2 DEF ExhibitInv
<1>4. ASSUME NEW e \in standard'
      PROVE  e \in Docs /\ doc'[e] # Null /\ StandardDocument(doc[e])'
  <2>1. x # Null
    BY NoNull DEF GoodDocument
  <2>2. e \in Docs /\ doc'[e] # Null /\ StandardDocument(doc'[e])
    BY <1>2, <2>1 DEF ExhibitInv
  <2> QED
    BY <2>2 DEF StandardDocument, DefaultCodes, Defaults, Seen
<1> QED
  BY <1>1, <1>3, <1>4 DEF ExhibitInv

LEMMA SectionWritten ==
  ASSUME ExhibitInv, NEW d \in Docs, doc[d] # Null, NEW key \in Keys,
         NEW all, GoodLines(doc[d].org, key, all)
  PROVE  LET x == [doc[d] EXCEPT !.lines[key] = all]
         IN /\ GoodDocument(x)
            /\ CodesOf(all) = CodesOf(doc[d].lines[key]) /\ StandardDocument(doc[d])
                 => StandardDocument(x)
<1>1. PICK x : x = [doc[d] EXCEPT !.lines[key] = all]
  OBVIOUS
<1>2. doc[d] \in Document /\ GoodDocument(doc[d])
  BY DEF ExhibitInv
<1>3. PICK lines \in [Keys -> Lines] : lines = [doc[d].lines EXCEPT ![key] = all]
  BY <1>2 DEF Document, GoodLines
<1>4. x = [doc[d] EXCEPT !.lines = lines]
  BY <1>1, <1>3
<1>5. x \in Document
  BY <1>2, <1>4 DEF Document
<1>6. /\ x.org = doc[d].org /\ x.project = doc[d].project /\ x.package = doc[d].package
      /\ x.div = doc[d].div /\ x.on = doc[d].on /\ x.lines = lines
  BY <1>2, <1>4 DEF Document
<1>7. \A k \in Keys : lines[k] = IF k = key THEN all ELSE doc[d].lines[k]
  BY <1>2, <1>3 DEF Document
<1>8. GoodDocument(x)
  BY <1>2, <1>5, <1>6, <1>7 DEF GoodDocument
<1>9. CodesOf(all) = CodesOf(doc[d].lines[key]) /\ StandardDocument(doc[d]) => StandardDocument(x)
  BY <1>6, <1>7, NoNull DEF StandardDocument
<1> QED
  BY <1>1, <1>8, <1>9

LEMMA CreateScopeGood ==
  ASSUME ExhibitInv, NEW o \in Orgs, NEW d \in Docs, CreateScope(o, d)
  PROVE  ExhibitInv'
<1>1. PICK draft \in Drafts, useDefaults \in BOOLEAN :
        LET clauses == IF useDefaults \/ draft.clauses = <<>> THEN DefaultClauses(o, draft.div)
                       ELSE draft.clauses
            specs == IF useDefaults \/ draft.specs = <<>> THEN DefaultSpecs(o, draft.div)
                     ELSE draft.specs
        IN /\ doc' = [doc EXCEPT ![d] = Built(o, draft, clauses, specs)]
           /\ standard' = IF useDefaults /\ doc'[d].on["summary"] THEN standard \union {d}
                          ELSE standard
  BY DEF CreateScope
<1>2. draft \in Draft
  BY ExhibitsAssumption
<1>3. Defaults(o, draft.div) \subseteq Specs
  BY DEF Defaults, Seen
<1>4. DefaultSpecs(o, draft.div) \in Seq(Specs)
  BY <1>3, DefaultSpecsFacts, SmallerRange
<1>5. PICK clauses \in Seq(LibraryClauses) :
        clauses = IF useDefaults \/ draft.clauses = <<>> THEN DefaultClauses(o, draft.div)
                  ELSE draft.clauses
  BY <1>2, DefaultClausesType DEF Draft
<1>6. PICK specs \in Seq(Specs) :
        specs = IF useDefaults \/ draft.specs = <<>> THEN DefaultSpecs(o, draft.div)
                ELSE draft.specs
  BY <1>2, <1>4 DEF Draft
<1>7. PICK x : x = Built(o, draft, clauses, specs)
  OBVIOUS
<1>8. doc' = [doc EXCEPT ![d] = x]
  BY <1>1, <1>5, <1>6, <1>7
<1>9. doc'[d] = x
  BY <1>8 DEF ExhibitInv
<1>10. standard' = IF useDefaults /\ x.on["summary"] THEN standard \union {d} ELSE standard
  BY <1>1, <1>9
<1>11. GoodDocument(x)
  BY <1>7, BuiltGood
<1>12. useDefaults /\ x.on["summary"] => StandardDocument(x)
  <2>1. useDefaults => specs = DefaultSpecs(o, draft.div)
    BY <1>6
  <2> QED
    BY <1>7, <2>1, StandardBuilt
<1>13. d \notin standard /\ doc[d] = Null /\ template' = template /\ row' = row
  BY DEF CreateScope, ExhibitInv
<1> QED
  BY <1>8, <1>10, <1>11, <1>12, <1>13, DocumentWritten

LEMMA SelectClausesGood ==
  ASSUME ExhibitInv, NEW o \in Orgs, NEW d \in Docs, SelectClauses(o, d)
  PROVE  ExhibitInv'
<1>1. PICK draft \in Drafts : doc' = [doc EXCEPT ![d] = Built(o, draft, draft.clauses, draft.specs)]
  BY DEF SelectClauses
<1>2. draft.clauses \in Seq(LibraryClauses) /\ draft.specs \in Seq(Specs)
  BY ExhibitsAssumption DEF Draft
<1>3. PICK x : x = Built(o, draft, draft.clauses, draft.specs)
  OBVIOUS
<1>4. GoodDocument(x)
  BY <1>2, <1>3, BuiltGood
<1>5. doc' = [doc EXCEPT ![d] = x]
  BY <1>1, <1>3
<1>6. d \notin standard /\ template' = template /\ row' = row /\ standard' = standard
  BY DEF SelectClauses, ExhibitInv
<1> QED
  BY <1>4, <1>5, <1>6, DocumentWritten

LEMMA NextAfterType ==
  ASSUME NEW lines \in Lines, NEW I \in SUBSET DOMAIN lines
  PROVE  NextAfter({lines[n].pos : n \in I}) \in Nat
<1>2. PICK taken : taken = {lines[n].pos : n \in I}
  OBVIOUS
<1>3. NextAfter(taken) = IF taken = {} THEN 0 ELSE 1 + CHOOSE p \in taken : \A q \in taken : q <= p
  BY DEF NextAfter
<1>4. ASSUME taken # {}
      PROVE  (CHOOSE p \in taken : \A q \in taken : q <= p) \in Nat
  <2>1. I # {}
    BY <1>2, <1>4
  <2>2. \E p \in taken : \A q \in taken : q <= p
    BY <1>2, <2>1, LargestPosition
  <2>3. (CHOOSE p \in taken : \A q \in taken : q <= p) \in taken
    BY <2>2
  <2>4. taken \subseteq Nat
    BY <1>2, LineFacts
  <2> QED
    BY <2>3, <2>4
<1>5. PICK last : last = CHOOSE p \in taken : \A q \in taken : q <= p
  OBVIOUS
<1>6. NextAfter(taken) = IF taken = {} THEN 0 ELSE 1 + last
  BY <1>3, <1>5
<1>7. taken # {} => last \in Nat
  BY <1>4, <1>5
<1> QED
  BY <1>2, <1>6, <1>7

LEMMA NextPosType ==
  ASSUME NEW lines \in Lines, NEW parent PROVE NextPos(lines, parent) \in Nat
<1>1. PICK I \in SUBSET DOMAIN lines : I = {m \in DOMAIN lines : lines[m].parent = parent}
  OBVIOUS
<1>2. NextAfter({lines[n].pos : n \in I}) \in Nat
  BY NextAfterType
<1> QED
  BY <1>1, <1>2 DEF NextPos

LEMMA AddItemGood ==
  ASSUME ExhibitInv, NEW d \in Docs, AddItem(d)
  PROVE  ExhibitInv'
<1>1. PICK key \in Keys, w \in Typed : \E parent \in {0} \union DOMAIN doc[d].lines[key] :
        doc' = [doc EXCEPT ![d].lines[key] =
                  Append(@, Line(parent, NextPos(@, parent), <<"typed", w>>, "custom"))]
  BY DEF AddItem
<1>2. doc[d] # Null /\ doc[d] \in Document /\ GoodDocument(doc[d])
  BY DEF AddItem, Unlocked, ExhibitInv
<1>3. PICK lines \in Lines : lines = doc[d].lines[key] /\ GoodLines(doc[d].org, key, lines)
  BY <1>2 DEF GoodDocument, Document
<1>4. PICK parent \in {0} \union DOMAIN lines :
        doc' = [doc EXCEPT ![d].lines[key] =
                  Append(@, Line(parent, NextPos(@, parent), <<"typed", w>>, "custom"))]
  BY <1>1, <1>3
<1>5. PICK pos \in Nat : pos = NextPos(lines, parent)
  BY NextPosType
<1>8. PICK all : all = Append(lines, Line(parent, pos, <<"typed", w>>, "custom"))
  OBVIOUS
<1>9. GoodLines(doc[d].org, key, all) /\ CodesOf(all) = CodesOf(lines)
  BY <1>3, <1>8, TypedGood
<1>10. doc' = [doc EXCEPT ![d].lines[key] = all]
  BY <1>3, <1>4, <1>5, <1>8
<1>11. PICK x : x = [doc[d] EXCEPT !.lines[key] = all]
  OBVIOUS
<1>12. doc' = [doc EXCEPT ![d] = x]
  BY <1>10, <1>11
<1>13. GoodDocument(x) /\ (StandardDocument(doc[d]) => StandardDocument(x))
  BY <1>2, <1>3, <1>9, <1>11, SectionWritten
<1>14. template' = template /\ row' = row /\ standard' = standard
  BY DEF AddItem
<1>15. d \in standard => StandardDocument(doc[d])
  BY DEF ExhibitInv
<1> QED
  BY <1>12, <1>13, <1>14, <1>15, DocumentWritten

(* Clauses that an author adds are the organization's or shipped ones. *)
LEMMA MoreClausesFacts ==
  ASSUME NEW d, NEW key, NEW o, o = doc[d].org, NEW lines \in Lines, lines = doc[d].lines[key],
         NEW ids \in Seq(LibraryClauses)
  PROVE  GoodLines(o, key, MoreClauses(d, key, ids)) /\ CodesOf(MoreClauses(d, key, ids)) = {}
<1>1. PICK first \in Nat : first = NextAfter({lines[n].pos : n \in DOMAIN lines})
  BY NextAfterType
<1>2. PICK there : there = {lines[n].source : n \in DOMAIN lines}
  OBVIOUS
<1>3. PICK offered \in Seq(VisibleClauses(o)) : offered = GetClauses(o, ids)
  <2>1. GetClauses(o, ids) \in Seq(LibraryClauses \intersect VisibleClauses(o))
    BY PickedFacts DEF GetClauses, VisibleClauses
  <2> QED
    BY <2>1, SmallerRange
<1>4. PICK clauses \in Seq(VisibleClauses(o)) : clauses = Picked(offered, LibraryClauses \ there)
  <2>1. Picked(offered, LibraryClauses \ there) \in Seq(VisibleClauses(o) \intersect (LibraryClauses \ there))
    BY PickedFacts
  <2> QED
    BY <2>1, SmallerRange
<1>5. PICK all : all = ClauseLines(clauses, first)
  OBVIOUS
<1>6. MoreClauses(d, key, ids) = all
  BY <1>1, <1>2, <1>3, <1>4, <1>5 DEF MoreClauses
<1>7. /\ all \in Seq(LineRecord)
      /\ \A n \in DOMAIN all : all[n].parent = 0 /\ all[n].code = Null /\ OwnSource(o, all[n].source)
  BY <1>5, ClauseLinesFacts
<1>8. \A n \in DOMAIN all : all[n].parent < n
  BY <1>7
<1>9. GoodLines(o, key, all)
  BY <1>7, <1>8 DEF GoodLines, Lines, ParentsFirst
<1>10. CodesOf(all) = {}
  BY <1>7 DEF CodesOf
<1> QED
  BY <1>6, <1>9, <1>10

LEMMA AddClausesGood ==
  ASSUME ExhibitInv, NEW d \in Docs, AddClauses(d)
  PROVE  ExhibitInv'
<1>1. PICK key \in Keys, ids \in Selections :
        doc' = [doc EXCEPT ![d].lines[key] = Append2(@, MoreClauses(d, key, ids))]
  BY DEF AddClauses
<1>2. doc[d] # Null /\ doc[d] \in Document /\ GoodDocument(doc[d])
  BY DEF AddClauses, Unlocked, ExhibitInv
<1>3. PICK lines \in Lines : lines = doc[d].lines[key] /\ GoodLines(doc[d].org, key, lines)
  BY <1>2 DEF GoodDocument, Document
<1>4. ids \in Seq(LibraryClauses)
  BY ExhibitsAssumption
<1>5. PICK more : more = MoreClauses(d, key, ids)
  OBVIOUS
<1>6. GoodLines(doc[d].org, key, more) /\ CodesOf(more) = {}
  BY <1>3, <1>4, <1>5, MoreClausesFacts
<1>7. PICK all : all = Append2(lines, more)
  OBVIOUS
<1>8. GoodLines(doc[d].org, key, all)
  BY <1>3, <1>6, <1>7, AppendedGood
<1>9. CodesOf(all) = CodesOf(lines)
  <2>1. more \in Lines
    BY <1>6 DEF GoodLines
  <2> QED
    BY <1>6, <1>7, <2>1, AppendedCodes
<1>10. PICK x : x = [doc[d] EXCEPT !.lines[key] = all]
  OBVIOUS
<1>11. doc' = [doc EXCEPT ![d] = x]
  BY <1>1, <1>3, <1>5, <1>7, <1>10
<1>12. GoodDocument(x) /\ (StandardDocument(doc[d]) => StandardDocument(x))
  BY <1>2, <1>3, <1>8, <1>9, <1>10, SectionWritten
<1>13. template' = template /\ row' = row /\ standard' = standard
  BY DEF AddClauses
<1>14. d \in standard => StandardDocument(doc[d])
  BY DEF ExhibitInv
<1> QED
  BY <1>11, <1>12, <1>13, <1>14, DocumentWritten

(* A section that is put in order has the lines it had, as a forest. *)
LEMMA ReorderedGood ==
  ASSUME NEW o, NEW key, NEW lines, GoodLines(o, key, lines),
         NEW order \in Seq(OrderEntry), WholeSection(lines, order)
  PROVE  GoodLines(o, key, Reordered(lines, order)) /\ CodesOf(Reordered(lines, order)) = CodesOf(lines)
<1>1. lines \in Lines
  BY DEF GoodLines
<1>2. PICK N \in Nat : DOMAIN order = 1..N /\ \A n \in 1..N : order[n] \in OrderEntry
  OBVIOUS
<1>3. /\ \A n \in 1..N : order[n].line \in DOMAIN lines
      /\ \A n \in 1..N : order[n].below \in Nat /\ order[n].below < n
      /\ \A m \in DOMAIN lines : \E n \in 1..N : order[n].line = m
  <2>1. \A n \in 1..N : order[n].below \in Nat
    BY <1>2 DEF OrderEntry
  <2> QED
    BY <1>2, <2>1 DEF WholeSection
<1>4. PICK all : all = Reordered(lines, order)
  OBVIOUS
<1>5. ASSUME NEW n \in 1..N
      PROVE  /\ all[n] \in LineRecord /\ all[n].parent = order[n].below
             /\ all[n].code = lines[order[n].line].code
             /\ all[n].source = lines[order[n].line].source
  <2>1. PICK p : p = Cardinality({m \in 1..(n - 1) : order[m].below = order[n].below})
    OBVIOUS
  <2>2. p \in Nat
    <3>1. IsFiniteSet(1..(n - 1))
      BY FS_Interval
    <3>2. IsFiniteSet({m \in 1..(n - 1) : order[m].below = order[n].below})
      BY <3>1, FS_Subset
    <3> QED
      BY <2>1, <3>2, FS_CardinalityType
  <2>3. PICK below \in Nat : below = order[n].below
    BY <1>3
  <2>4. PICK line \in LineRecord : line = lines[order[n].line]
    BY <1>1, <1>3, LineFacts
  <2>5. all[n] = [line EXCEPT !.parent = below, !.pos = p]
    BY <1>2, <1>4, <2>1, <2>3, <2>4 DEF Reordered
  <2> QED
    BY <2>2, <2>3, <2>4, <2>5 DEF LineRecord
<1>6. all \in Seq(LineRecord) /\ DOMAIN all = 1..N
  <2>1. all = [n \in 1..N |-> all[n]]
    BY <1>2, <1>4 DEF Reordered
  <2> QED
    BY <1>5, <2>1
<1>7. all \in Lines
  BY <1>3, <1>5, <1>6 DEF Lines, ParentsFirst
<1>8. GoodLines(o, key, all)
  BY <1>3, <1>5, <1>6, <1>7 DEF GoodLines
<1>9. CodesOf(all) = CodesOf(lines)
  <2>1. ASSUME NEW c \in CodesOf(all) PROVE c \in CodesOf(lines)
    <3>1. c # Null /\ \E n \in 1..N : all[n].code = c
      BY <1>6, <2>1 DEF CodesOf
    <3>2. PICK n \in 1..N : all[n].code = c
      BY <3>1
    <3>3. lines[order[n].line].code = c /\ order[n].line \in DOMAIN lines
      BY <1>3, <1>5, <3>2
    <3> QED
      BY <3>1, <3>3 DEF CodesOf
  <2>2. ASSUME NEW c \in CodesOf(lines) PROVE c \in CodesOf(all)
    <3>1. c # Null /\ \E m \in DOMAIN lines : lines[m].code = c
      BY <2>2 DEF CodesOf
    <3>2. PICK m \in DOMAIN lines : lines[m].code = c
      BY <3>1
    <3>3. PICK n \in 1..N : order[n].line = m
      BY <1>3, <3>2
    <3>4. all[n].code = c
      BY <1>5, <3>2, <3>3
    <3> QED
      BY <1>6, <3>1, <3>4 DEF CodesOf
  <2> QED
    BY <2>1, <2>2
<1> QED
  BY <1>4, <1>8, <1>9

LEMMA ReorderItemsGood ==
  ASSUME ExhibitInv, NEW d \in Docs, ReorderItems(d)
  PROVE  ExhibitInv'
<1>1. PICK key \in Keys, order \in Orders :
        /\ WholeSection(doc[d].lines[key], order)
        /\ doc' = [doc EXCEPT ![d].lines[key] = Reordered(@, order)]
  BY DEF ReorderItems
<1>2. doc[d] # Null /\ doc[d] \in Document /\ GoodDocument(doc[d])
  BY DEF ReorderItems, Unlocked, ExhibitInv
<1>3. PICK lines \in Lines : lines = doc[d].lines[key] /\ GoodLines(doc[d].org, key, lines)
  BY <1>2 DEF GoodDocument, Document
<1>4. order \in Seq(OrderEntry)
  BY ExhibitsAssumption
<1>5. PICK all : all = Reordered(lines, order)
  OBVIOUS
<1>6. GoodLines(doc[d].org, key, all) /\ CodesOf(all) = CodesOf(lines)
  BY <1>1, <1>3, <1>4, <1>5, ReorderedGood
<1>7. PICK x : x = [doc[d] EXCEPT !.lines[key] = all]
  OBVIOUS
<1>8. doc' = [doc EXCEPT ![d] = x]
  BY <1>1, <1>3, <1>5, <1>7
<1>9. GoodDocument(x) /\ (StandardDocument(doc[d]) => StandardDocument(x))
  BY <1>2, <1>3, <1>6, <1>7, SectionWritten
<1>10. template' = template /\ row' = row /\ standard' = standard
  BY DEF ReorderItems
<1>11. d \in standard => StandardDocument(doc[d])
  BY DEF ExhibitInv
<1> QED
  BY <1>8, <1>9, <1>10, <1>11, DocumentWritten

LEMMA UpdateItemGood ==
  ASSUME ExhibitInv, NEW d \in Docs, UpdateItem(d)
  PROVE  ExhibitInv'
<1>0. PICK key \in Keys, w \in Typed : \E n \in DOMAIN doc[d].lines[key] :
        doc' = [doc EXCEPT ![d].lines[key][n] = WithText(@, w)]
  BY DEF UpdateItem
<1>1. PICK n \in DOMAIN doc[d].lines[key] :
        doc' = [doc EXCEPT ![d].lines[key][n] = WithText(@, w)]
  BY <1>0
<1>2. doc[d] # Null /\ doc[d] \in Document /\ GoodDocument(doc[d])
  BY DEF UpdateItem, Unlocked, ExhibitInv
<1>3. PICK lines \in Lines : lines = doc[d].lines[key] /\ GoodLines(doc[d].org, key, lines)
  BY <1>2 DEF GoodDocument, Document
<1>4. PICK all : all = [lines EXCEPT ![n] = WithText(lines[n], w)]
  OBVIOUS
<1>5. GoodLines(doc[d].org, key, all) /\ CodesOf(all) = CodesOf(lines)
  BY <1>1, <1>3, <1>4, RetypedGood
<1>6. PICK x : x = [doc[d] EXCEPT !.lines[key] = all]
  OBVIOUS
<1>7. doc' = [doc EXCEPT ![d] = x]
  BY <1>1, <1>3, <1>4, <1>6
<1>8. GoodDocument(x) /\ (StandardDocument(doc[d]) => StandardDocument(x))
  BY <1>2, <1>3, <1>5, <1>6, SectionWritten
<1>9. template' = template /\ row' = row /\ standard' = standard
  BY DEF UpdateItem
<1>10. d \in standard => StandardDocument(doc[d])
  BY DEF ExhibitInv
<1> QED
  BY <1>7, <1>8, <1>9, <1>10, DocumentWritten

LEMMA DeleteItemGood ==
  ASSUME ExhibitInv, NEW d \in Docs, DeleteItem(d)
  PROVE  ExhibitInv'
<1>0. PICK key \in Keys : \E n \in DOMAIN doc[d].lines[key] :
        doc' = [doc EXCEPT ![d].lines[key] = Without(@, n)]
  BY DEF DeleteItem
<1>1. PICK n \in DOMAIN doc[d].lines[key] :
        doc' = [doc EXCEPT ![d].lines[key] = Without(@, n)]
  BY <1>0
<1>2. doc[d] # Null /\ doc[d] \in Document /\ GoodDocument(doc[d])
  BY DEF DeleteItem, Unlocked, ExhibitInv
<1>3. PICK lines \in Lines : lines = doc[d].lines[key] /\ GoodLines(doc[d].org, key, lines)
  BY <1>2 DEF GoodDocument, Document
<1>4. PICK all : all = Without(lines, n)
  OBVIOUS
<1>5. GoodLines(doc[d].org, key, all)
  BY <1>1, <1>3, <1>4, WithoutGood
<1>6. PICK x : x = [doc[d] EXCEPT !.lines[key] = all]
  OBVIOUS
<1>7. doc' = [doc EXCEPT ![d] = x]
  BY <1>1, <1>3, <1>4, <1>6
<1>8. GoodDocument(x)
  BY <1>2, <1>5, <1>6, SectionWritten
<1>9. template' = template /\ row' = row /\ standard' = standard \ {d}
  BY DEF DeleteItem
<1> QED
  BY <1>7, <1>8, <1>9, DocumentWritten

LEMMA ToggleSectionGood ==
  ASSUME ExhibitInv, NEW d \in Docs, ToggleSection(d)
  PROVE  ExhibitInv'
<1>1. PICK key \in Keys : /\ doc' = [doc EXCEPT ![d].on[key] = ~@]
                          /\ standard' = IF key = "summary" THEN standard \ {d} ELSE standard
  BY DEF ToggleSection
<1>2. doc[d] # Null /\ doc[d] \in Document /\ GoodDocument(doc[d])
  BY DEF ToggleSection, Unlocked, ExhibitInv
<1>3. PICK on \in [Keys -> BOOLEAN] : on = [doc[d].on EXCEPT ![key] = ~@]
  BY <1>2 DEF Document
<1>4. PICK x : x = [doc[d] EXCEPT !.on = on]
  OBVIOUS
<1>5. doc' = [doc EXCEPT ![d] = x]
  BY <1>1, <1>3, <1>4
<1>6. x \in Document
  BY <1>2, <1>4 DEF Document
<1>7. /\ x.org = doc[d].org /\ x.project = doc[d].project /\ x.package = doc[d].package
      /\ x.div = doc[d].div /\ x.lines = doc[d].lines /\ x.on = on
  BY <1>2, <1>4 DEF Document
<1>8. GoodDocument(x)
  BY <1>2, <1>6, <1>7 DEF GoodDocument
<1>9. ASSUME key # "summary", StandardDocument(doc[d]) PROVE StandardDocument(x)
  <2>1. on["summary"] = doc[d].on["summary"]
    BY <1>2, <1>3, <1>9, NoNull DEF Document
  <2> QED
    BY <1>7, <1>9, <2>1 DEF StandardDocument
<1>10. template' = template /\ row' = row
  BY DEF ToggleSection
<1>11. d \in standard => StandardDocument(doc[d])
  BY DEF ExhibitInv
<1>12. standard' \subseteq standard \union {d} /\ (d \in standard' => StandardDocument(x))
  BY <1>1, <1>9, <1>11
<1> QED
  BY <1>5, <1>8, <1>10, <1>12, DocumentWritten

LEMMA SettingsGood ==
  ASSUME ExhibitInv, NEW d \in Docs, Settings(d)
  PROVE  ExhibitInv'
<1>1. PICK form \in Forms :
        /\ form.project # Null => ProjectOrg[form.project] = doc[d].org
        /\ form.package # Null => PackageOrg[form.package] = doc[d].org
        /\ doc' = [doc EXCEPT ![d] =
                     [@ EXCEPT !.project = form.project, !.package = form.package,
                               !.div = form.div, !.scheme = form.scheme, !.styles = form.styles]]
        /\ standard' = IF form.div = doc[d].div THEN standard ELSE standard \ {d}
  BY DEF Settings
<1>2. form \in Form
  BY ExhibitsAssumption
<1>3. doc[d] # Null /\ doc[d] \in Document /\ GoodDocument(doc[d])
  BY DEF Settings, Unlocked, ExhibitInv
<1>4. PICK x : x = [doc[d] EXCEPT !.project = form.project, !.package = form.package,
                                  !.div = form.div, !.scheme = form.scheme,
                                  !.styles = form.styles]
  OBVIOUS
<1>5. doc' = [doc EXCEPT ![d] = x]
  BY <1>1, <1>4
<1>6. x \in Document
  BY <1>2, <1>3, <1>4 DEF Document, Form
<1>7. /\ x.org = doc[d].org /\ x.project = form.project /\ x.package = form.package
      /\ x.div = form.div /\ x.lines = doc[d].lines /\ x.on = doc[d].on
  BY <1>3, <1>4 DEF Document
<1>8. GoodDocument(x)
  BY <1>1, <1>3, <1>6, <1>7 DEF GoodDocument
<1>9. form.div = doc[d].div /\ StandardDocument(doc[d]) => StandardDocument(x)
  BY <1>7 DEF StandardDocument
<1>10. template' = template /\ row' = row
  BY DEF Settings
<1>11. d \in standard => StandardDocument(doc[d])
  BY DEF ExhibitInv
<1>12. standard' \subseteq standard \union {d} /\ (d \in standard' => StandardDocument(x))
  BY <1>1, <1>9, <1>11
<1> QED
  BY <1>5, <1>8, <1>10, <1>12, DocumentWritten

LEMMA ArchiveGood ==
  ASSUME ExhibitInv, NEW d \in Docs, Archive(d)
  PROVE  ExhibitInv'
<1>1. doc[d] # Null /\ doc[d] \in Document /\ GoodDocument(doc[d])
  BY DEF Archive, ExhibitInv
<1>2. PICK x : x = [doc[d] EXCEPT !.archived = TRUE]
  OBVIOUS
<1>3. doc' = [doc EXCEPT ![d] = x]
  BY <1>2 DEF Archive
<1>4. x \in Document
  BY <1>1, <1>2 DEF Document
<1>5. /\ x.org = doc[d].org /\ x.project = doc[d].project /\ x.package = doc[d].package
      /\ x.div = doc[d].div /\ x.lines = doc[d].lines /\ x.on = doc[d].on
  BY <1>1, <1>2 DEF Document
<1>6. GoodDocument(x) /\ (StandardDocument(doc[d]) => StandardDocument(x))
  BY <1>1, <1>4, <1>5 DEF GoodDocument, StandardDocument
<1>7. template' = template /\ row' = row /\ standard' = standard
  BY DEF Archive
<1>8. d \in standard => StandardDocument(doc[d])
  BY DEF ExhibitInv
<1> QED
  BY <1>3, <1>6, <1>7, <1>8, DocumentWritten

LEMMA DuplicateGood ==
  ASSUME ExhibitInv, NEW s \in Docs, NEW d \in Docs, DuplicateScope(s, d)
  PROVE  ExhibitInv'
<1>1. doc[s] # Null /\ doc[s] \in Document /\ GoodDocument(doc[s])
  BY DEF DuplicateScope, ExhibitInv
<1>2. PICK lines : lines = CopySections(doc[s].lines)
  OBVIOUS
<1>3. \A key \in Keys : lines[key] = CopyItems(doc[s].lines[key])
  BY <1>2 DEF CopySections
<1>4. ASSUME NEW key \in Keys PROVE GoodLines(doc[s].org, key, lines[key])
  BY <1>1, <1>3, CopyGood DEF GoodDocument
<1>5. lines \in [Keys -> Lines]
  <2>1. lines = [key \in Keys |-> lines[key]]
    BY <1>2 DEF CopySections
  <2> QED
    BY <1>4, <2>1 DEF GoodLines
<1>6. PICK x : x = [doc[s] EXCEPT !.archived = FALSE, !.like = s, !.lines = lines]
  OBVIOUS
<1>7. doc' = [doc EXCEPT ![d] = x]
  BY <1>2, <1>6 DEF DuplicateScope
<1>8. x \in Document
  BY <1>1, <1>5, <1>6 DEF Document
<1>9. /\ x.org = doc[s].org /\ x.project = doc[s].project /\ x.package = doc[s].package
      /\ x.lines = lines
  BY <1>1, <1>6 DEF Document
<1>10. GoodDocument(x)
  BY <1>1, <1>4, <1>8, <1>9 DEF GoodDocument
<1>11. d \notin standard /\ template' = template /\ row' = row /\ standard' = standard
  BY DEF DuplicateScope, ExhibitInv
<1> QED
  BY <1>7, <1>10, <1>11, DocumentWritten

LEMMA SaveAsTemplateGood ==
  ASSUME ExhibitInv, NEW d \in Docs, NEW t \in Templates, SaveAsTemplate(d, t)
  PROVE  ExhibitInv'
<1>1. doc[d] # Null /\ doc[d] \in Document /\ GoodDocument(doc[d])
  BY DEF SaveAsTemplate, ExhibitInv
<1>2. PICK lines : lines = CopySections(doc[d].lines)
  OBVIOUS
<1>3. lines \in [Keys -> Lines]
  <2>1. lines = [key \in Keys |-> CopyItems(doc[d].lines[key])]
    BY <1>2 DEF CopySections
  <2>2. \A key \in Keys : CopyItems(doc[d].lines[key]) \in Lines
    BY <1>1, CopyGood DEF GoodDocument, GoodLines
  <2> QED
    BY <2>1, <2>2
<1>4. PICK x : x = [org |-> doc[d].org, div |-> doc[d].div, on |-> doc[d].on, lines |-> lines,
                    source |-> Printed(doc[d])]
  OBVIOUS
<1>5. x.on \in [Keys -> BOOLEAN] /\ x.lines \in [Keys -> Lines]
  BY <1>1, <1>3, <1>4 DEF Document
<1>6. template' = [template EXCEPT ![t] = x]
  BY <1>2, <1>4 DEF SaveAsTemplate
<1>7. /\ template' = [u \in Templates |-> template'[u]]
      /\ \A u \in Templates : template'[u] = IF u = t THEN x ELSE template[u]
  <2>1. template = [u \in Templates |-> template[u]]
    BY DEF ExhibitInv
  <2> QED
    BY <1>6, <2>1
<1>8. \A u \in Templates : template'[u] # Null =>
        template'[u].on \in [Keys -> BOOLEAN] /\ template'[u].lines \in [Keys -> Lines]
  BY <1>5, <1>7 DEF ExhibitInv
<1>9. doc' = doc /\ row' = row /\ standard' = standard
  BY DEF SaveAsTemplate
<1>10. ASSUME NEW e \in standard' PROVE e \in Docs /\ doc'[e] # Null /\ StandardDocument(doc[e])'
  <2>1. e \in Docs /\ doc'[e] # Null /\ StandardDocument(doc'[e])
    BY <1>9 DEF ExhibitInv
  <2> QED
    BY <1>9, <2>1 DEF StandardDocument, DefaultCodes, Defaults, Seen
<1> QED
  BY <1>7, <1>8, <1>9, <1>10 DEF ExhibitInv

(* What an organization does to its own sections changes the default choice of
   no other. *)
LEMMA ChangeCatalogueGood ==
  ASSUME ExhibitInv, NEW s \in Specs, ChangeCatalogue(s)
  PROVE  ExhibitInv'
<1>1. PICK r \in NewRows \union {Null} : row' = [row EXCEPT ![s] = r]
  BY DEF ChangeCatalogue
<1>2. r \in SpecRow \union {Null}
  BY ExhibitsAssumption
<1>3. row' \in [Specs -> SpecRow \union {Null}]
  BY <1>1, <1>2 DEF ExhibitInv
<1>4. \A u \in Specs : u # s => row'[u] = row[u]
  BY <1>1 DEF ExhibitInv
<1>5. doc' = doc /\ template' = template /\ SpecOwner[s] # Null
      /\ standard' = {d \in standard : doc[d].org # SpecOwner[s]}
  BY DEF ChangeCatalogue
<1>6. ASSUME NEW e \in standard' PROVE e \in Docs /\ doc'[e] # Null /\ StandardDocument(doc[e])'
  <2>1. e \in Docs /\ doc[e] # Null /\ StandardDocument(doc[e]) /\ doc[e].org # SpecOwner[s]
    BY <1>5 DEF ExhibitInv
  <2>2. PICK o : o = doc[e].org
    OBVIOUS
  <2>3. PICK div : div = doc[e].div
    OBVIOUS
  <2>4. {u \in Specs : row'[u] # Null /\ SpecOwner[u] \in {o, Null}} = Seen(o) /\ s \notin Seen(o)
    BY <1>4, <1>5, <2>1, <2>2 DEF Seen
  <2>5. {u \in Seen(o) : row'[u].active /\ row'[u].default /\ AppliesTo(row'[u], div)}
          = Defaults(o, div)
    BY <1>4, <2>4 DEF Defaults, Seen
  <2>6. {row'[u].code : u \in Defaults(o, div)} = DefaultCodes(o, div)
    BY <1>4, <2>4 DEF Defaults, DefaultCodes, Seen
  <2>7. DefaultCodes(doc[e].org, doc[e].div)' = DefaultCodes(o, div)
    BY <1>5, <2>2, <2>3, <2>4, <2>5, <2>6 DEF DefaultCodes, Defaults, Seen
  <2> QED
    BY <1>5, <2>1, <2>2, <2>3, <2>7 DEF StandardDocument
<1> QED
  BY <1>3, <1>5, <1>6 DEF ExhibitInv

-----------------------------------------------------------------------------
(* The theorems about documents. *)

LEMMA ExhibitInvInit == ExhibitInit => ExhibitInv
BY ExhibitsAssumption DEF ExhibitInit, ExhibitInv

LEMMA ExhibitInvNext == ExhibitInv /\ [ExhibitNext]_exhibitVars => ExhibitInv'
<1> SUFFICES ASSUME ExhibitInv, [ExhibitNext]_exhibitVars PROVE ExhibitInv'
  OBVIOUS
<1>1. CASE UNCHANGED exhibitVars
  <2>1. doc' = doc /\ template' = template /\ row' = row /\ standard' = standard
    BY <1>1 DEF exhibitVars
  <2>2. ASSUME NEW e \in standard' PROVE e \in Docs /\ doc'[e] # Null /\ StandardDocument(doc[e])'
    <3>1. e \in Docs /\ doc'[e] # Null /\ StandardDocument(doc'[e])
      BY <2>1 DEF ExhibitInv
    <3> QED
      BY <2>1, <3>1 DEF StandardDocument, DefaultCodes, Defaults, Seen
  <2> QED
    BY <2>1, <2>2 DEF ExhibitInv
<1>2. ASSUME NEW o \in Orgs, NEW d \in Docs, CreateScope(o, d) \/ SelectClauses(o, d)
      PROVE  ExhibitInv'
  BY <1>2, CreateScopeGood, SelectClausesGood
<1>3. ASSUME NEW d \in Docs,
             \/ AddItem(d) \/ AddClauses(d) \/ ReorderItems(d) \/ UpdateItem(d)
             \/ DeleteItem(d) \/ ToggleSection(d) \/ Settings(d) \/ Archive(d)
      PROVE  ExhibitInv'
  BY <1>3, AddItemGood, AddClausesGood, ReorderItemsGood, UpdateItemGood,
     DeleteItemGood, ToggleSectionGood, SettingsGood, ArchiveGood
<1>4. ASSUME NEW s \in Docs, NEW d \in Docs, DuplicateScope(s, d) PROVE ExhibitInv'
  BY <1>4, DuplicateGood
<1>5. ASSUME NEW d \in Docs, NEW t \in Templates, SaveAsTemplate(d, t) PROVE ExhibitInv'
  BY <1>5, SaveAsTemplateGood
<1>6. ASSUME NEW s \in Specs, ChangeCatalogue(s) PROVE ExhibitInv'
  BY <1>6, ChangeCatalogueGood
<1> QED
  BY <1>1, <1>2, <1>3, <1>4, <1>5, <1>6 DEF ExhibitNext

(* Documents stay good, and those counted as generated from the defaults claim
   the default choice of their division as it is in the catalogue now. *)
THEOREM ExhibitInductive == ExhibitSpec => []ExhibitInv
BY ExhibitInvInit, ExhibitInvNext, PTL DEF ExhibitSpec

(* Every section of every document and template is a sequence of lines that hang
   on earlier ones, whatever requests build, edit, copy and delete. *)
THEOREM ExhibitTypesCorrect == ExhibitSpec => []ExhibitTypeOK
<1>1. ExhibitInv => ExhibitTypeOK
  BY DEF ExhibitInv, ExhibitTypeOK
<1> QED
  BY <1>1, ExhibitInductive, PTL

(* Whatever ids a request names, no scope is about a project or bid package of
   another organization or has a line made from its library, and no edit, copy
   or saved template brings one in (build_scope, get_clauses, get_spec_sections,
   load_template, update_settings). *)
THEOREM ContentStaysOwn == ExhibitSpec => []ContentIsOwn
<1>1. ExhibitInv => ContentIsOwn
  BY DEF ExhibitInv, ContentIsOwn, GoodDocument, GoodLines, OwnSource
<1> QED
  BY <1>1, ExhibitInductive, PTL

-----------------------------------------------------------------------------
(* The report looks at nothing but the scopes that count. *)

LEMMA ReportAgrees ==
  ASSUME NEW docs, NEW a, NEW b, NEW rows, NEW packages, \A d \in docs : a[d] = b[d]
  PROVE  Report(docs, a, rows, packages) = Report(docs, b, rows, packages)
<1>1. \A c : ClaimedBy(docs, a, c) = ClaimedBy(docs, b, c)
  BY DEF ClaimedBy
<1>2. DivisionsPresent(docs, a) = DivisionsPresent(docs, b)
  <2>1. {a[d].div : d \in docs} = {b[d].div : d \in docs}
    OBVIOUS
  <2> QED
    BY <2>1 DEF DivisionsPresent
<1>3. \A r : Expected(docs, a, r) = Expected(docs, b, r)
  BY <1>2 DEF Expected
<1>4. \A c, r : Status(docs, a, c, r) = Status(docs, b, c, r)
  BY <1>1, <1>3 DEF Status
<1>5. \A c : Statuses(docs, a, rows, c) = Statuses(docs, b, rows, c)
  BY <1>4 DEF Statuses
<1>6. Redirects(docs, a) = Redirects(docs, b)
  BY <1>2 DEF Redirects
<1>7. {a[d].package : d \in docs} = {b[d].package : d \in docs}
  OBVIOUS
<1> QED
  BY <1>5, <1>6, <1>7 DEF Report

LEMMA OthersStep == [ExhibitNext]_exhibitVars =>
  \A p \in Projects :
    row' = row /\ (\A d \in Docs : doc'[d] # doc[d] => d \notin ProjectDocs(p) \union ProjectDocs(p)')
      => AnalyseProject(p)' = AnalyseProject(p)
<1> SUFFICES ASSUME NEW p \in Projects, row' = row,
                    \A d \in Docs : doc'[d] # doc[d] => d \notin ProjectDocs(p) \union ProjectDocs(p)'
             PROVE  AnalyseProject(p)' = AnalyseProject(p)
  OBVIOUS
<1>1. PICK docs : docs = ProjectDocs(p)
  OBVIOUS
<1>2. ProjectDocs(p)' = docs
  BY <1>1 DEF ProjectDocs
<1>3. \A d \in docs : doc'[d] = doc[d]
  BY <1>1 DEF ProjectDocs
<1>4. PICK packages : packages = {k \in Packages : PackageProject[k] = p}
  OBVIOUS
<1>5. Report(docs, doc', row, packages) = Report(docs, doc, row, packages)
  BY <1>3, ReportAgrees
<1> QED
  BY <1>1, <1>2, <1>4, <1>5 DEF AnalyseProject

-----------------------------------------------------------------------------
(* What a scope claims. *)

LEMMA ClaimedForm ==
  ASSUME NEW x \in Document, NEW c
  PROVE  c \in ClaimedCodes(x) <=>
           /\ c # Null
           /\ \E key \in Keys : x.on[key] /\ \E n \in DOMAIN x.lines[key] : x.lines[key][n].code = c
<1>1. DOMAIN x.lines = Keys
  BY DEF Document
<1>2. ASSUME c \in ClaimedCodes(x)
      PROVE  /\ c # Null
             /\ \E key \in Keys : x.on[key] /\ \E n \in DOMAIN x.lines[key] : x.lines[key][n].code = c
  <2>1. PICK at \in Shown(x) : c = x.lines[at[1]][at[2]].code
    BY <1>2 DEF ClaimedCodes
  <2>2. PICK key \in Keys : x.on[key] /\ at \in {key} \X DOMAIN x.lines[key]
    BY <1>1, <2>1 DEF Shown
  <2>3. at[1] = key /\ at[2] \in DOMAIN x.lines[key]
    BY <2>2
  <2> QED
    BY <1>2, <2>1, <2>2, <2>3 DEF ClaimedCodes
<1>3. ASSUME c # Null, NEW key \in Keys, x.on[key], NEW n \in DOMAIN x.lines[key],
             x.lines[key][n].code = c
      PROVE  c \in ClaimedCodes(x)
  <2>1. <<key, n>> \in {key} \X DOMAIN x.lines[key]
    OBVIOUS
  <2>2. <<key, n>> \in Shown(x)
    BY <1>1, <1>3, <2>1 DEF Shown
  <2>3. x.lines[<<key, n>>[1]][<<key, n>>[2]].code = c
    BY <1>3
  <2> QED
    BY <1>3, <2>2, <2>3 DEF ClaimedCodes
<1> QED
  BY <1>2, <1>3

LEMMA StandardClaims ==
  ASSUME NEW x, GoodDocument(x), StandardDocument(x), NEW c \in Codes
  PROVE  c \in ClaimedCodes(x) <=> c \in DefaultCodes(x.org, x.div)
<1>1. x \in Document /\ c # Null /\ "summary" \in Keys /\ x.on["summary"]
  BY NoNull DEF GoodDocument, StandardDocument
<1>2. \A key \in Keys : key # "summary" => \A n \in DOMAIN x.lines[key] : x.lines[key][n].code = Null
  BY DEF GoodDocument, GoodLines
<1>3. c \in ClaimedCodes(x) <=> c \in CodesOf(x.lines["summary"])
  BY <1>1, <1>2, ClaimedForm DEF CodesOf
<1> QED
  BY <1>3 DEF StandardDocument

LEMMA StatusFacts ==
  ASSUME NEW docs, NEW a, NEW c, NEW r
  PROVE  /\ Status(docs, a, c, r) = "gap" => ClaimedBy(docs, a, c) = {} /\ Expected(docs, a, r)
         /\ Status(docs, a, c, r) = "overlap" =>
              /\ ClaimedBy(docs, a, c) # {} /\ Cardinality(ClaimedBy(docs, a, c)) # 1
              /\ r # Null => ~r.universal /\ r.related = {}
<1> DEFINE claimers == ClaimedBy(docs, a, c)
           expected == Expected(docs, a, r)
           procedural == IF r = Null THEN DivisionOf[c] \in Procedural
                         ELSE r.universal \/ r.div \in Procedural
<1>1. Status(docs, a, c, r)
        = CASE claimers = {} /\ expected  -> "gap"
            [] claimers = {} /\ ~expected -> "unlisted"
            [] claimers # {} /\ (Cardinality(claimers) = 1 \/ procedural) -> "covered"
            [] OTHER -> IF r # Null /\ r.related # {} THEN "shared" ELSE "overlap"
  BY DEF Status
<1>2. r # Null /\ r.universal => procedural
  OBVIOUS
<1> HIDE DEF claimers, expected, procedural
<1>3. CASE claimers = {} /\ expected
  <2>1. Status(docs, a, c, r) = "gap"
    BY <1>1, <1>3
  <2> QED
    BY <1>3, <2>1 DEF claimers, expected
<1>4. CASE claimers = {} /\ ~expected
  <2>1. Status(docs, a, c, r) = "unlisted"
    BY <1>1, <1>4
  <2> QED
    BY <2>1
<1>5. CASE claimers # {} /\ (Cardinality(claimers) = 1 \/ procedural)
  <2>1. Status(docs, a, c, r) = "covered"
    BY <1>1, <1>5
  <2> QED
    BY <2>1
<1>6. CASE claimers # {} /\ ~(Cardinality(claimers) = 1 \/ procedural)
  <2>1. Status(docs, a, c, r) = IF r # Null /\ r.related # {} THEN "shared" ELSE "overlap"
    BY <1>1, <1>6
  <2> QED
    BY <1>2, <1>6, <2>1 DEF claimers
<1> QED
  BY <1>3, <1>4, <1>5, <1>6

LEMMA TwoMembers ==
  ASSUME NEW S, S # {}, Cardinality(S) # 1
  PROVE  \E d, e \in S : d # e
<1>1. PICK d \in S : TRUE
  OBVIOUS
<1>2. S # {d}
  BY FS_Singleton
<1> QED
  BY <1>1, <1>2

LEMMA KnownFacts ==
  ASSUME NEW c, NEW s \in Known(row, c), Null \notin Specs
  PROVE  \/ s = Null /\ \A u \in Specs : ~(row[u] # Null /\ row[u].active /\ row[u].code = c)
         \/ s # Null /\ s \in Specs /\ row[s] # Null /\ row[s].active /\ row[s].code = c
BY DEF Known

(* The default choice of a division names what a report expects of it, and a row
   that two divisions choose is universal or related to others. *)
LEMMA CleanReport == ExhibitInv => DefaultsReportClean
<1> SUFFICES ASSUME ExhibitInv, NEW p \in Projects, ProjectDocs(p) \subseteq standard,
                    NEW c \in Codes, Known(row, c) \subseteq Seen(ProjectOrg[p]) \union {Null}
             PROVE  /\ "gap" \notin AnalyseProject(p).sections[c]
                    /\ \/ "overlap" \notin AnalyseProject(p).sections[c]
                       \/ \E d, e \in ProjectDocs(p) : d # e /\ doc[d].div = doc[e].div
                       \/ \E r, s \in Seen(ProjectOrg[p]) :
                            r # s /\ row[r].code = c /\ row[s].code = c
  BY DEF DefaultsReportClean
<1>1. PICK docs : docs = ProjectDocs(p)
  OBVIOUS
<1>2. PICK o : o = ProjectOrg[p]
  OBVIOUS
<1>3. AnalyseProject(p).sections[c]
        = {Status(docs, doc, c, IF s = Null THEN Null ELSE row[s]) : s \in Known(row, c)}
  BY <1>1 DEF AnalyseProject, Report, Statuses
<1>4. ASSUME NEW d \in docs
      PROVE  /\ d \in Docs /\ doc[d] # Null /\ GoodDocument(doc[d]) /\ StandardDocument(doc[d])
             /\ doc[d].org = o
  <2>1. d \in standard /\ d \in Docs /\ doc[d] # Null /\ doc[d].project = p
    BY <1>1 DEF ProjectDocs
  <2>2. GoodDocument(doc[d]) /\ StandardDocument(doc[d])
    BY <2>1 DEF ExhibitInv
  <2> QED
    BY <1>2, <2>1, <2>2, NoNull DEF GoodDocument
<1>5. \A d \in docs : c \in ClaimedCodes(doc[d]) <=> c \in DefaultCodes(o, doc[d].div)
  BY <1>4, StandardClaims
<1>6. ASSUME NEW s \in Known(row, c), NEW r, r = IF s = Null THEN Null ELSE row[s]
      PROVE  /\ Status(docs, doc, c, r) # "gap"
             /\ \/ Status(docs, doc, c, r) # "overlap"
                \/ \E d, e \in docs : d # e /\ doc[d].div = doc[e].div
                \/ \E u, v \in Seen(o) : u # v /\ row[u].code = c /\ row[v].code = c
  <2>1. \/ s = Null /\ \A u \in Specs : ~(row[u] # Null /\ row[u].active /\ row[u].code = c)
        \/ s # Null /\ s \in Specs /\ row[s] # Null /\ row[s].active /\ row[s].code = c
    BY KnownFacts, NoNull
  <2>2. s # Null => s \in Seen(o)
    BY <1>2
  <2>3. ASSUME Status(docs, doc, c, r) = "gap" PROVE FALSE
    <3>1. ClaimedBy(docs, doc, c) = {} /\ Expected(docs, doc, r)
      BY <2>3, StatusFacts
    <3>2. PICK d \in docs : doc[d].div # Null /\ AppliesTo(r, doc[d].div)
      BY <3>1 DEF Expected, DivisionsPresent
    <3>3. s # Null /\ r = row[s] /\ r.default
      BY <1>6, <3>1 DEF Expected
    <3>4. s \in Defaults(o, doc[d].div)
      BY <2>1, <2>2, <3>2, <3>3 DEF Defaults
    <3>5. c \in DefaultCodes(o, doc[d].div)
      BY <2>1, <3>3, <3>4 DEF DefaultCodes
    <3>6. d \in ClaimedBy(docs, doc, c)
      BY <1>5, <3>5 DEF ClaimedBy
    <3> QED
      BY <3>1, <3>6
  <2>4. ASSUME Status(docs, doc, c, r) = "overlap",
               ~\E d, e \in docs : d # e /\ doc[d].div = doc[e].div
        PROVE  \E u, v \in Seen(o) : u # v /\ row[u].code = c /\ row[v].code = c
    <3>1. /\ ClaimedBy(docs, doc, c) # {} /\ Cardinality(ClaimedBy(docs, doc, c)) # 1
          /\ r # Null => ~r.universal /\ r.related = {}
      BY <2>4, StatusFacts
    <3>2. PICK d \in ClaimedBy(docs, doc, c) : \E e \in ClaimedBy(docs, doc, c) : d # e
      BY <3>1, TwoMembers
    <3>3. PICK e \in ClaimedBy(docs, doc, c) : d # e
      BY <3>2
    <3>4. /\ d \in docs /\ e \in docs /\ doc[d].div # doc[e].div
          /\ c \in DefaultCodes(o, doc[d].div) /\ c \in DefaultCodes(o, doc[e].div)
      BY <1>5, <2>4, <3>3 DEF ClaimedBy
    <3>5. PICK u \in Defaults(o, doc[d].div) : row[u].code = c
      BY <3>4 DEF DefaultCodes
    <3>6. PICK v \in Defaults(o, doc[e].div) : row[v].code = c
      BY <3>4 DEF DefaultCodes
    <3>7. /\ u \in Seen(o) /\ row[u].active /\ AppliesTo(row[u], doc[d].div)
          /\ v \in Seen(o) /\ AppliesTo(row[v], doc[e].div)
          /\ u \in Specs /\ row[u] # Null
      BY DEF Defaults, Seen
    <3>8. s # Null /\ s \in Seen(o) /\ row[s].code = c /\ r = row[s]
      BY <1>6, <2>1, <2>2, <3>5, <3>7
    <3>9. ~(u = s /\ v = s)
      <4> SUFFICES ASSUME u = s, v = s PROVE FALSE
        OBVIOUS
      <4>1. r # Null /\ ~r.universal /\ r.related = {}
        BY <3>1, <3>7, <3>8
      <4>2. doc[d].div \in {r.div} /\ doc[e].div \in {r.div}
        BY <3>7, <3>8, <4>1 DEF AppliesTo
      <4> QED
        BY <3>4, <4>2
    <3> QED
      BY <3>5, <3>6, <3>7, <3>8, <3>9
  <2> QED
    BY <2>3, <2>4
<1>7. "gap" \notin AnalyseProject(p).sections[c]
  BY <1>3, <1>6
<1>8. ASSUME "overlap" \in AnalyseProject(p).sections[c]
      PROVE  \/ \E d, e \in docs : d # e /\ doc[d].div = doc[e].div
             \/ \E u, v \in Seen(o) : u # v /\ row[u].code = c /\ row[v].code = c
  <2>1. PICK s \in Known(row, c) :
          Status(docs, doc, c, IF s = Null THEN Null ELSE row[s]) = "overlap"
    BY <1>3, <1>8
  <2> QED
    BY <1>6, <2>1
<1> QED
  BY <1>1, <1>2, <1>7, <1>8

-----------------------------------------------------------------------------
(* A duplicate. *)

NumberedLine(number, x, counters, text) ==
  [section |-> number, counters |-> counters, label |-> Label(x.scheme, x.styles, counters),
   text |-> text]

LEMMA PageForm ==
  ASSUME NEW x \in Document, NEW key \in Keys
  PROVE  Page(x, key) =
           {NumberedLine(SectionNumber(x, key), x, Counters(x.lines[key])[n], x.lines[key][n].text) :
              n \in DOMAIN x.lines[key]}
<1>1. PICK lines \in Lines : lines = x.lines[key]
  BY DEF Document
<1>2. PICK counters : counters = Counters(lines)
  OBVIOUS
<1>3. DOMAIN counters = DOMAIN lines
  BY <1>2, CountersWalk
<1>4. Labels(x, key) = [n \in DOMAIN lines |-> Label(x.scheme, x.styles, counters[n])]
  BY <1>1, <1>2, <1>3 DEF Labels
<1>5. PICK number : number = SectionNumber(x, key)
  OBVIOUS
<1>6. Page(x, key) = {[section |-> number, counters |-> counters[n], label |-> Labels(x, key)[n],
                       text |-> lines[n].text] : n \in DOMAIN lines}
  BY <1>1, <1>2, <1>5 DEF Page
<1>7. ASSUME NEW n \in DOMAIN lines
      PROVE  [section |-> number, counters |-> counters[n], label |-> Labels(x, key)[n],
              text |-> lines[n].text] = NumberedLine(number, x, counters[n], lines[n].text)
  BY <1>4 DEF NumberedLine
<1>8. Page(x, key) = {NumberedLine(number, x, counters[n], lines[n].text) : n \in DOMAIN lines}
  BY <1>6, <1>7
<1> QED
  BY <1>1, <1>2, <1>5, <1>8

LEMMA EmptyLines ==
  ASSUME NEW lines \in Lines PROVE lines = <<>> <=> DOMAIN lines = {}
<1>1. PICK L \in Nat : L = Len(lines) /\ DOMAIN lines = 1..L
  BY LineFacts
<1>2. lines \in Seq(LineRecord)
  BY DEF Lines
<1>3. CASE L = 0
  BY <1>1, <1>2, <1>3, EmptySeq
<1>4. CASE L > 0
  <2>1. 1 \in DOMAIN lines
    BY <1>1, <1>4
  <2>2. lines # <<>>
    BY <1>1, <1>4
  <2> QED
    BY <2>1, <2>2
<1> QED
  BY <1>3, <1>4

LEMMA CopySectionFacts ==
  ASSUME NEW lines \in Lines, ~HasTies(lines)
  PROVE  LET copy == CopyItems(lines) IN
         /\ copy \in Lines
         /\ copy = <<>> <=> lines = <<>>
         /\ \A k \in DOMAIN copy : \E n \in DOMAIN lines :
              /\ Counters(copy)[k] = Counters(lines)[n]
              /\ copy[k].text = lines[n].text /\ copy[k].code = lines[n].code
         /\ \A n \in DOMAIN lines : \E k \in DOMAIN copy :
              /\ Counters(copy)[k] = Counters(lines)[n]
              /\ copy[k].text = lines[n].text /\ copy[k].code = lines[n].code
<1>1. PICK order : order = PageOrder(lines)
  OBVIOUS
<1>2. PICK copy : copy = CopyItems(lines)
  OBVIOUS
<1>3. /\ Arrangement(lines, order) /\ DOMAIN order = DOMAIN lines
      /\ \A n \in DOMAIN lines : \E k \in DOMAIN lines : order[k] = n
  BY <1>1, PageArrangement
<1>4. copy = Arranged(lines, order)
  BY <1>1, <1>2 DEF CopyItems
<1>5. copy \in Lines /\ DOMAIN copy = DOMAIN lines
  BY <1>3, <1>4, ArrangedFacts
<1>6. ASSUME NEW k \in DOMAIN lines
      PROVE  /\ order[k] \in DOMAIN lines
             /\ copy[k].text = lines[order[k]].text /\ copy[k].code = lines[order[k]].code
  BY <1>3, <1>4, ArrangedFacts
<1>7. \A k \in DOMAIN lines : Counters(copy)[k] = Counters(lines)[order[k]]
  BY <1>1, <1>2, CopyCounters
<1>8. copy = <<>> <=> lines = <<>>
  BY <1>5, EmptyLines
<1>9. \A k \in DOMAIN copy : \E n \in DOMAIN lines :
        /\ Counters(copy)[k] = Counters(lines)[n]
        /\ copy[k].text = lines[n].text /\ copy[k].code = lines[n].code
  BY <1>5, <1>6, <1>7
<1>10. \A n \in DOMAIN lines : \E k \in DOMAIN copy :
         /\ Counters(copy)[k] = Counters(lines)[n]
         /\ copy[k].text = lines[n].text /\ copy[k].code = lines[n].code
  BY <1>3, <1>5, <1>6, <1>7
<1> QED
  BY <1>2, <1>5, <1>8, <1>9, <1>10

\* A copy of x in all that the page shows.
Copied(x, y) ==
  /\ y.on = x.on /\ y.scheme = x.scheme /\ y.styles = x.styles
  /\ y.lines = CopySections(x.lines)

LEMMA CopyPage ==
  ASSUME NEW x \in Document, NEW y \in Document, Copied(x, y),
         \A key \in Keys : ~HasTies(x.lines[key]), NEW key \in Keys
  PROVE  Page(y, key) = Page(x, key)
<1>1. \A k \in Keys : y.lines[k] = CopyItems(x.lines[k]) /\ x.lines[k] \in Lines
  BY DEF Copied, CopySections, Document
<1>2. \A k \in Keys : y.lines[k] = <<>> <=> x.lines[k] = <<>>
  BY <1>1, CopySectionFacts
<1>3. \A n \in DOMAIN KeyOrder : KeyOrder[n] \in Keys
  BY DEF Keys
<1>4. SectionNumber(y, key) = SectionNumber(x, key)
  <2>1. PICK at : at = CHOOSE n \in DOMAIN KeyOrder : KeyOrder[n] = key
    OBVIOUS
  <2>2. at \in DOMAIN KeyOrder /\ DOMAIN KeyOrder = 1..Len(KeyOrder) /\ Len(KeyOrder) \in Nat
    <3>1. KeyOrder \in Seq(Keys) /\ \E n \in DOMAIN KeyOrder : KeyOrder[n] = key
      BY ExhibitsAssumption DEF Keys
    <3> QED
      BY <2>1, <3>1
  <2>3. \A n \in 1..at : n \in DOMAIN KeyOrder
    BY <2>2
  <2>4. \A n \in 1..at : /\ y.on[KeyOrder[n]] = x.on[KeyOrder[n]]
                         /\ y.lines[KeyOrder[n]] = <<>> <=> x.lines[KeyOrder[n]] = <<>>
    BY <1>2, <1>3, <2>3 DEF Copied
  <2>5. {n \in 1..at : y.on[KeyOrder[n]]
                       /\ (KeyOrder[n] \in Prose \/ y.lines[KeyOrder[n]] # <<>>)}
          = {n \in 1..at : x.on[KeyOrder[n]]
                           /\ (KeyOrder[n] \in Prose \/ x.lines[KeyOrder[n]] # <<>>)}
    BY <2>4
  <2> QED
    BY <2>1, <2>5 DEF SectionNumber
<1>5. PICK number : number = SectionNumber(x, key)
  OBVIOUS
<1>6. \A counters, text : NumberedLine(number, y, counters, text) = NumberedLine(number, x, counters, text)
  BY DEF NumberedLine, Copied
<1>7. PICK lines \in Lines : lines = x.lines[key] /\ ~HasTies(lines)
  BY <1>1
<1>8. PICK copy \in Lines : copy = CopyItems(lines)
  BY <1>7, CopySectionFacts
<1>9. Page(x, key) = {NumberedLine(number, x, Counters(lines)[n], lines[n].text) : n \in DOMAIN lines}
  BY <1>5, <1>7, PageForm
<1>10. Page(y, key) = {NumberedLine(number, x, Counters(copy)[n], copy[n].text) : n \in DOMAIN copy}
  <2>1. Page(y, key) = {NumberedLine(number, y, Counters(copy)[n], copy[n].text) : n \in DOMAIN copy}
    BY <1>1, <1>4, <1>5, <1>7, <1>8, PageForm
  <2> QED
    BY <1>6, <2>1
<1>11. \A k \in DOMAIN copy : \E n \in DOMAIN lines :
         Counters(copy)[k] = Counters(lines)[n] /\ copy[k].text = lines[n].text
  BY <1>7, <1>8, CopySectionFacts
<1>12. \A n \in DOMAIN lines : \E k \in DOMAIN copy :
         Counters(copy)[k] = Counters(lines)[n] /\ copy[k].text = lines[n].text
  BY <1>7, <1>8, CopySectionFacts
<1> QED
  BY <1>9, <1>10, <1>11, <1>12

LEMMA CopyAlike ==
  ASSUME NEW x \in Document, NEW y \in Document, Copied(x, y),
         \A key \in Keys : ~HasTies(x.lines[key])
  PROVE  Printed(y) = Printed(x) /\ ClaimedCodes(y) = ClaimedCodes(x)
<1>1. Printed(y) = Printed(x)
  <2>1. \A key \in Keys : Page(y, key) = Page(x, key)
    BY CopyPage
  <2>2. y.on = x.on
    BY DEF Copied
  <2> QED
    BY <2>1, <2>2 DEF Printed
<1>2. ASSUME NEW c PROVE c \in ClaimedCodes(y) <=> c \in ClaimedCodes(x)
  <2>1. ASSUME NEW key \in Keys
        PROVE  (\E n \in DOMAIN y.lines[key] : y.lines[key][n].code = c)
                 <=> \E n \in DOMAIN x.lines[key] : x.lines[key][n].code = c
    <3>1. PICK lines \in Lines : lines = x.lines[key] /\ ~HasTies(lines)
      BY DEF Document
    <3>2. PICK copy : copy = CopyItems(lines)
      OBVIOUS
    <3>3. y.lines[key] = copy
      BY <3>1, <3>2 DEF Copied, CopySections
    <3>4. \A k \in DOMAIN copy : \E n \in DOMAIN lines : copy[k].code = lines[n].code
      BY <3>1, <3>2, CopySectionFacts
    <3>5. \A n \in DOMAIN lines : \E k \in DOMAIN copy : copy[k].code = lines[n].code
      BY <3>1, <3>2, CopySectionFacts
    <3> QED
      BY <3>1, <3>3, <3>4, <3>5
  <2>2. y.on = x.on
    BY DEF Copied
  <2> QED
    BY <2>1, <2>2, ClaimedForm
<1> QED
  BY <1>1, <1>2

LEMMA CopyStep == ExhibitInv /\ ExhibitInv' /\ [ExhibitNext]_exhibitVars =>
  \A s, d \in Docs :
    /\ doc[d] = Null /\ doc'[d] # Null /\ doc'[d].like = s
    /\ \A key \in Keys : ~HasTies(doc[s].lines[key])
    =>
      /\ Printed(doc[d])' = Printed(doc[s])
      /\ ClaimedCodes(doc[d])' = ClaimedCodes(doc[s])
<1> SUFFICES ASSUME ExhibitInv, ExhibitInv', [ExhibitNext]_exhibitVars, NEW s \in Docs, NEW d \in Docs,
                    doc[d] = Null, doc'[d] # Null, doc'[d].like = s,
                    \A key \in Keys : ~HasTies(doc[s].lines[key])
             PROVE  /\ Printed(doc[d])' = Printed(doc[s])
                    /\ ClaimedCodes(doc[d])' = ClaimedCodes(doc[s])
  OBVIOUS
<1>1. doc \in [Docs -> Document \union {Null}] /\ doc' \in [Docs -> Document \union {Null}]
      /\ doc'[d] \in Document /\ s # Null
  BY NoNull DEF ExhibitInv
<1>2. \A e \in Docs : (\E x : doc' = [doc EXCEPT ![e] = x]) /\ doc[e] # Null => e # d /\ doc'[d] = Null
  BY <1>1
<1>3. DuplicateScope(s, d)
  <2>1. \A o, e : CreateScope(o, e) /\ e \in Docs => FALSE
    <3> SUFFICES ASSUME NEW o, NEW e \in Docs, CreateScope(o, e) PROVE FALSE
      OBVIOUS
    <3>0. PICK draft \in Drafts, useDefaults \in BOOLEAN :
            LET clauses == IF useDefaults \/ draft.clauses = <<>> THEN DefaultClauses(o, draft.div)
                           ELSE draft.clauses
                specs == IF useDefaults \/ draft.specs = <<>> THEN DefaultSpecs(o, draft.div)
                         ELSE draft.specs
            IN doc' = [doc EXCEPT ![e] = Built(o, draft, clauses, specs)]
      BY DEF CreateScope
    <3>3. PICK clauses : clauses = IF useDefaults \/ draft.clauses = <<>>
                                   THEN DefaultClauses(o, draft.div) ELSE draft.clauses
      OBVIOUS
    <3>4. PICK specs : specs = IF useDefaults \/ draft.specs = <<>>
                               THEN DefaultSpecs(o, draft.div) ELSE draft.specs
      OBVIOUS
    <3>1. doc' = [doc EXCEPT ![e] = Built(o, draft, clauses, specs)]
      BY <3>0, <3>3, <3>4
    <3>2. e = d /\ doc'[d] = Built(o, draft, clauses, specs)
      BY <1>1, <3>1
    <3> QED
      BY <1>1, <3>2 DEF Built
  <2>2. \A o, e : SelectClauses(o, e) /\ e \in Docs => FALSE
    <3> SUFFICES ASSUME NEW o, NEW e \in Docs, SelectClauses(o, e) PROVE FALSE
      OBVIOUS
    <3>1. PICK draft, clauses, specs : doc' = [doc EXCEPT ![e] = Built(o, draft, clauses, specs)]
      BY DEF SelectClauses
    <3>2. e = d /\ doc'[d] = Built(o, draft, clauses, specs)
      BY <1>1, <3>1
    <3> QED
      BY <1>1, <3>2 DEF Built
  <2>3. ASSUME NEW e \in Docs,
               \/ AddItem(e) \/ AddClauses(e) \/ ReorderItems(e) \/ UpdateItem(e)
               \/ DeleteItem(e) \/ ToggleSection(e) \/ Settings(e) \/ Archive(e)
        PROVE  FALSE
    <3>1. doc[e] # Null
      BY <2>3 DEF AddItem, AddClauses, ReorderItems, UpdateItem, DeleteItem, ToggleSection,
                  Settings, Archive, Unlocked
    <3>2. CASE AddItem(e)
      BY <1>2, <3>1, <3>2 DEF AddItem
    <3>3. CASE UpdateItem(e)
      BY <1>2, <3>1, <3>3 DEF UpdateItem
    <3>4. CASE DeleteItem(e)
      BY <1>2, <3>1, <3>4 DEF DeleteItem
    <3>5. CASE ToggleSection(e)
      BY <1>2, <3>1, <3>5 DEF ToggleSection
    <3>6. CASE Settings(e)
      BY <1>2, <3>1, <3>6 DEF Settings
    <3>7. CASE Archive(e)
      BY <1>2, <3>1, <3>7 DEF Archive
    <3>8. CASE AddClauses(e)
      BY <1>2, <3>1, <3>8 DEF AddClauses
    <3>9. CASE ReorderItems(e)
      BY <1>2, <3>1, <3>9 DEF ReorderItems
    <3> QED
      BY <2>3, <3>2, <3>3, <3>4, <3>5, <3>6, <3>7, <3>8, <3>9
  <2>4. ASSUME NEW r \in Docs, NEW e \in Docs, DuplicateScope(r, e) PROVE r = s /\ e = d
    <3>1. doc' = [doc EXCEPT ![e] = [doc[r] EXCEPT !.archived = FALSE, !.like = r,
                                                   !.lines = CopySections(doc[r].lines)]]
          /\ doc[r] # Null
      BY <2>4 DEF DuplicateScope
    <3>2. e = d
      BY <1>1, <3>1
    <3>3. doc[r] \in Document
      BY <1>1, <3>1
    <3>4. doc'[d].like = r
      BY <1>1, <3>1, <3>2, <3>3 DEF Document
    <3> QED
      BY <3>2, <3>4
  <2>5. ASSUME NEW e \in Docs, NEW t \in Templates, SaveAsTemplate(e, t) PROVE FALSE
    BY <2>5 DEF SaveAsTemplate
  <2>6. ASSUME NEW u \in Specs, ChangeCatalogue(u) PROVE FALSE
    BY <2>6 DEF ChangeCatalogue
  <2>7. ~UNCHANGED exhibitVars
    BY DEF exhibitVars
  <2> QED
    BY <2>1, <2>2, <2>3, <2>4, <2>5, <2>6, <2>7 DEF ExhibitNext
<1>4. doc[s] # Null /\ doc[s] \in Document
  BY <1>1, <1>3 DEF DuplicateScope
<1>5. doc'[d] = [doc[s] EXCEPT !.archived = FALSE, !.like = s, !.lines = CopySections(doc[s].lines)]
  BY <1>1, <1>3 DEF DuplicateScope
<1>6. Copied(doc[s], doc'[d])
  BY <1>4, <1>5 DEF Copied, Document
<1>7. Printed(doc'[d]) = Printed(doc[s]) /\ ClaimedCodes(doc'[d]) = ClaimedCodes(doc[s])
  BY <1>1, <1>4, <1>6, CopyAlike
<1> QED
  BY <1>7

(* Scopes generated from the defaults, retyped or archived at will, leave their
   project without a gap, and without an overlap but for the reasons the
   property names (default_spec_section_ids, analyse_project). *)
THEOREM ReportsAreClean == ExhibitSpec => []DefaultsReportClean
BY CleanReport, ExhibitInductive, PTL

(* No step on scopes that do not count for a project changes its report
   (analyse_project). *)
THEOREM OthersDoNotCount == ExhibitSpec => OthersDocumentsDoNotCount
BY OthersStep, PTL DEF ExhibitSpec, OthersDocumentsDoNotCount

(* A duplicate prints as its original and claims the same sections when positions
   decide the original's order, however deep its outline and in whatever order
   its items were inserted (duplicate_scope, _copy_items). *)
THEOREM DuplicatesReadAlike == ExhibitSpec => CopyReadsAlike
BY CopyStep, ExhibitInvNext, ExhibitInductive, PTL DEF ExhibitSpec, CopyReadsAlike

(* In every document of every organization, however it was generated, edited,
   copied or cut, two lines of a section under the legal scheme never carry the
   same label (Numberer.label, Numberer.walk). *)
THEOREM LabelsDistinguish == ExhibitSpec => []LabelsPointAtOne
<1>1. ExhibitInv => LabelsPointAtOne
  <2> SUFFICES ASSUME ExhibitInv, NEW d \in Docs, doc[d] # Null, doc[d].scheme = "legal",
                      NEW key \in Keys,
                      NEW n \in DOMAIN Labels(doc[d], key), NEW m \in DOMAIN Labels(doc[d], key),
                      Labels(doc[d], key)[n] = Labels(doc[d], key)[m]
               PROVE  n = m
    BY DEF LabelsPointAtOne
  <2>1. doc[d] \in Document
    BY DEF ExhibitInv, GoodDocument
  <2>2. PICK lines \in Lines : lines = doc[d].lines[key]
    BY <2>1 DEF Document
  <2>3. PICK chosen \in Seq(Style) : chosen = doc[d].styles
    BY <2>1 DEF Document
  <2>4. PICK counters : counters = Counters(lines)
    OBVIOUS
  <2>5. DOMAIN counters = DOMAIN lines
    BY <2>4, CountersWalk
  <2>6. Labels(doc[d], key) = [k \in DOMAIN counters |-> Label("legal", chosen, counters[k])]
    BY <2>2, <2>3, <2>4 DEF Labels
  <2>7. n \in DOMAIN lines /\ m \in DOMAIN lines
    BY <2>5, <2>6
  <2>8. Label("legal", chosen, counters[n]) = Label("legal", chosen, counters[m])
    BY <2>5, <2>6, <2>7
  <2>9. PICK c \in Seq(Nat \ {0}) : c = counters[n] /\ c # <<>>
    BY <2>4, <2>7, CountersPositive
  <2>10. PICK e \in Seq(Nat \ {0}) : e = counters[m] /\ e # <<>>
    BY <2>4, <2>7, CountersPositive
  <2>11. c = e
    BY <2>8, <2>9, <2>10, LabelsDiffer
  <2> QED
    BY <2>4, <2>7, <2>9, <2>10, <2>11, CountersDiffer
<1> QED
  BY <1>1, ExhibitInductive, PTL
=============================================================================
