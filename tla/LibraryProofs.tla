----------------------------- MODULE LibraryProofs -----------------------------
(***************************************************************************)
(* Theorems about Library, for any number of organizations, rows, releases *)
(* and overlapping requests and seedings.                                  *)
(*                                                                         *)
(* All three promises rest on who may write which row: a request writes a  *)
(* row of its organization (Own), a seeding the shipped ones, which nobody *)
(* deletes (Seeing).                                                       *)
(***************************************************************************)
EXTENDS Library, TLAPS

(* Shipped rows are those with a key; only a copy has a twin. *)
Sorted(y) ==
  /\ y.state # "live" => y.key = None
  /\ y.state = "live" => (y.owner = None <=> y.key # None)
  /\ y.twin # None => y.state = "live" /\ y.owner # None

Asking(x) ==
  /\ x.org = None <=> x.op \in {"idle", "seed"}
  /\ x.op \in {"create", "copy"} => x.to.state = "live" /\ x.to.owner = x.org /\ x.to.key = None
  /\ x.op = "create" => x.to.twin = None
  /\ x.op = "hide" => x.id \in Rows

(* What a request may write is a row of its organization, or gone. *)
Own(x, f) ==
  x.op \in {"edit", "activate", "delete"} =>
    /\ x.id \in Rows /\ f[x.id].state # "never"
    /\ f[x.id].state = "live" => f[x.id].owner = x.org

(* What a seeding has seen is still there, and says what it said or what the
   release of the seeding says, unless another release overlapped. *)
Seeing(x, f) ==
  x.op = "seed" =>
    /\ x.of \in Releases
    /\ \A i \in Rows : x.seen[i].state = "live" =>
         LET k == x.seen[i].key
         IN /\ k \in Keys /\ f[i].state = "live" /\ f[i].key = k
            /\ x.seen[i].active => f[i].active
            /\ \/ x.over \/ f[i].text = x.seen[i].text
               \/ Shipped[x.of][k] # None /\ f[i].text = Shipped[x.of][k]

(* The unique constraint on the keys. *)
KeysUnique(f) ==
  \A i, j \in Rows : f[i].key # None /\ f[i].key = f[j].key => i = j

CopiedHidden(f, hid, sh) ==
  \A i \in Rows : f[i].twin # None =>
    f[i].twin \in hid[f[i].owner] \/ f[i].twin \in sh[f[i].owner]

Lands(f, r) ==
  r # None =>
    \A k \in Keys : Shipped[r][k] # None =>
      \E i \in Rows : f[i].key = k /\ f[i].active /\ f[i].text = Shipped[r][k]

Kept(f, hid, x, r, sh) ==
  /\ \A i \in Rows : Sorted(f[i])
  /\ \A s \in Sessions : Asking(x[s]) /\ Own(x[s], f) /\ Seeing(x[s], f)
  /\ KeysUnique(f) /\ CopiedHidden(f, hid, sh) /\ Lands(f, r)

IInv == TypeOK /\ Kept(row, hidden, ses, release, shown)

-----------------------------------------------------------------------------
(* Rows and sessions. *)

LEMMA Nones ==
  /\ None \notin Orgs /\ None \notin Rows /\ None \notin Keys /\ None \notin Texts
  /\ None \notin Releases
BY LibraryAssumption

LEMMA NoRowTyped ==
  /\ NoRow \in Row /\ NoRow.state = "never" /\ NoRow.key = None /\ NoRow.twin = None
  /\ NoRow.owner = None /\ Sorted(NoRow)
BY DEF NoRow, Row, Sorted

LEMMA GoneTyped ==
  /\ Gone \in Row /\ Gone.state = "gone" /\ Gone.key = None /\ Gone.twin = None
  /\ Sorted(Gone)
BY DEF Gone, NoRow, Row, Sorted

LEMMA IdleTyped ==
  /\ Idle \in Session /\ Idle.op = "idle" /\ Idle.org = None
  /\ Idle.seen = NoRows /\ NoRows \in [Rows -> Row]
  /\ Asking(Idle) /\ \A f : Own(Idle, f) /\ Seeing(Idle, f)
<1>1. NoRows \in [Rows -> Row]
  BY NoRowTyped DEF NoRows
<1>2. Idle \in Session /\ Idle.op = "idle" /\ Idle.org = None /\ Idle.seen = NoRows
  BY <1>1, NoRowTyped DEF Idle, Session
<1> QED BY <1>1, <1>2 DEF Asking, Own, Seeing

LEMMA RowTyped ==
  ASSUME NEW y \in Row
  PROVE  /\ y.state \in {"never", "live", "gone"} /\ y.owner \in Orgs \union {None}
         /\ y.key \in Keys \union {None} /\ y.text \in Texts \union {None}
         /\ y.active \in BOOLEAN /\ y.twin \in Rows \union {None}
         /\ y.kind \in {"clause", "section", "template"}
BY DEF Row

LEMMA SessionTyped ==
  ASSUME NEW x \in Session
  PROVE  /\ x.org \in Orgs \union {None} /\ x.id \in Rows \union {None}
         /\ x.seen \in [Rows -> Row] /\ x.to \in Row /\ x.of \in Releases \union {None}
         /\ x.update \in BOOLEAN /\ x.over \in BOOLEAN
BY DEF Session

LEMMA FormTyped ==
  ASSUME NEW o \in Orgs, NEW kind \in {"clause", "section", "template"},
         NEW text \in Texts, NEW active \in BOOLEAN
  PROVE  LET y == Form(o, kind, text, active)
         IN /\ y \in Row /\ y.state = "live" /\ y.owner = o /\ y.key = None
            /\ y.twin = None
BY DEF Form, Row

-----------------------------------------------------------------------------
(* Steps. *)

(* A request or a seeding that has read what there is. *)
LEMMA SubmitStep ==
  ASSUME IInv, NEW s \in Sessions, NEW y \in Session, Submit(s, y),
         Asking(y), Own(y, row), Seeing(y, row)
  PROVE  IInv'
<1>1. /\ ses' = [ses EXCEPT ![s] = y] /\ UNCHANGED <<row, hidden, release, shown>>
      /\ ses \in [Sessions -> Session]
  BY DEF Submit, IInv, TypeOK
<1>2. ses' \in [Sessions -> Session] /\ \A t \in Sessions : ses'[t] = y \/ ses'[t] = ses[t]
  BY <1>1
<1>3. TypeOK'
  BY <1>1, <1>2 DEF IInv, TypeOK
<1>4. Kept(row, hidden, ses', release, shown)
  BY <1>2 DEF IInv, Kept
<1>5. Kept(row', hidden', ses', release', shown')
  BY <1>1, <1>4
<1> QED BY <1>3, <1>5 DEF IInv

LEMMA CreationStep ==
  ASSUME IInv, NEW s \in Sessions, NEW o \in Orgs,
         NEW kind \in {"clause", "section", "template"},
         NEW text \in Texts, NEW active \in BOOLEAN,
         Submit(s, Creation(o, kind, text, active))
  PROVE  IInv'
<1> DEFINE f == Form(o, kind, text, active)
           i == Idle
           y == [i EXCEPT !.op = "create", !.org = o, !.to = f]
<1>1. f \in Row /\ f.state = "live" /\ f.owner = o /\ f.key = None /\ f.twin = None
  BY FormTyped
<1>2. Submit(s, y) /\ i \in Session
  BY IdleTyped DEF Creation
<1> HIDE DEF f, i
<1>3. y \in Session
  BY <1>1, <1>2 DEF Session
<1>4. y.op = "create" /\ y.org = o /\ y.to = f
  BY <1>1, <1>2 DEF Session
<1> HIDE DEF y
<1>5. Asking(y) /\ Own(y, row) /\ Seeing(y, row)
  BY <1>1, <1>4, Nones DEF Asking, Own, Seeing
<1> QED BY <1>2, <1>3, <1>5, SubmitStep

LEMMA CopyClauseStep ==
  ASSUME IInv, NEW s \in Sessions, NEW o \in Orgs, NEW c \in Rows, NEW text \in Texts,
         CopyClause(s, o, c, text)
  PROVE  IInv'
<1> DEFINE f == Form(o, "clause", text, TRUE)
           twin == IF System(c) THEN c ELSE None
           g == [f EXCEPT !.twin = twin]
           i == Idle
           y == [i EXCEPT !.op = "copy", !.org = o, !.id = c, !.to = g]
<1>1. f \in Row /\ f.state = "live" /\ f.owner = o /\ f.key = None
  BY FormTyped
<1>2. twin \in Rows \union {None}
  OBVIOUS
<1>3. Submit(s, y) /\ i \in Session
  BY IdleTyped DEF CopyClause
<1> HIDE DEF f, twin, i
<1>4. g \in Row /\ g.state = "live" /\ g.owner = o /\ g.key = None
  BY <1>1, <1>2 DEF Row
<1> HIDE DEF g
<1>5. y \in Session
  BY <1>3, <1>4 DEF Session
<1>6. y.op = "copy" /\ y.org = o /\ y.to = g
  BY <1>3, <1>4 DEF Session
<1> HIDE DEF y
<1>7. Asking(y) /\ Own(y, row) /\ Seeing(y, row)
  BY <1>4, <1>6, Nones DEF Asking, Own, Seeing
<1> QED BY <1>3, <1>5, <1>7, SubmitStep

(* A form about one row that was read. *)
LEMMA AboutStep ==
  ASSUME IInv, NEW s \in Sessions, NEW o \in Orgs, NEW c \in Readable(o),
         NEW op \in {"edit", "activate", "delete", "hide", "restore"},
         op \in {"edit", "activate", "delete"} => ~System(c),
         NEW seen \in [Rows -> Row], NEW to \in Row,
         Submit(s, [Idle EXCEPT !.op = op, !.org = o, !.id = c, !.seen = seen, !.to = to])
  PROVE  IInv'
<1> DEFINE i == Idle
           y == [i EXCEPT !.op = op, !.org = o, !.id = c, !.seen = seen, !.to = to]
<1>1. Submit(s, y) /\ i \in Session
  BY IdleTyped
<1>2. c \in Rows /\ row[c].state = "live" /\ row[c].owner \in {o, None}
  BY DEF Readable, Live
<1> HIDE DEF i
<1>3. y \in Session
  <2> DEFINE z == [i EXCEPT !.op = op]
  <2>1. z \in Session
    BY <1>1 DEF Session
  <2>2. y = [z EXCEPT !.org = o, !.id = c, !.seen = seen, !.to = to]
    BY <1>1 DEF Session
  <2> HIDE DEF z
  <2> QED BY <1>2, <2>1, <2>2 DEF Session
<1>4. y.op = op /\ y.org = o /\ y.id = c
  BY <1>1 DEF Session
<1> HIDE DEF y
<1>5. Asking(y) /\ Own(y, row) /\ Seeing(y, row)
  BY <1>2, <1>4, Nones DEF Asking, Own, Seeing, System
<1> QED BY <1>1, <1>3, <1>5, SubmitStep

LEMMA OnlyTyped ==
  ASSUME TypeOK, NEW I \in SUBSET Rows
  PROVE  /\ Only(I) \in [Rows -> Row]
         /\ \A i \in Rows : Only(I)[i] = IF i \in I THEN row[i] ELSE NoRow
BY NoRowTyped DEF Only, TypeOK

LEMMA EditStep ==
  ASSUME IInv, NEW s \in Sessions, NEW o \in Orgs, NEW c \in Rows, NEW text \in Texts,
         NEW active \in BOOLEAN, Edit(s, o, c, text, active)
  PROVE  IInv'
<1> DEFINE seen == Only({c})
           to == [row[c] EXCEPT !.text = text, !.active = active]
<1>1. seen \in [Rows -> Row] /\ row[c] \in Row
  BY OnlyTyped DEF IInv, TypeOK
<1>2. to \in Row
  BY <1>1 DEF Row
<1>3. Submit(s, [Idle EXCEPT !.op = "edit", !.org = o, !.id = c, !.seen = seen, !.to = to])
      /\ c \in Readable(o) /\ ~System(c)
  BY DEF Edit
<1> HIDE DEF seen, to
<1> QED BY <1>1, <1>2, <1>3, AboutStep

LEMMA ToggleStep ==
  ASSUME IInv, NEW s \in Sessions, NEW o \in Orgs, NEW c \in Rows, ToggleSuppression(s, o, c)
  PROVE  IInv'
<1> DEFINE seen == Only({c})
           to == [row[c] EXCEPT !.active = ~@]
           op == Toggle(o, c)
<1>1. seen \in [Rows -> Row] /\ row[c] \in Row
  BY OnlyTyped DEF IInv, TypeOK
<1>2. to \in Row
  BY <1>1 DEF Row
<1>3. op \in {"activate", "hide", "restore"} /\ (op = "activate" => ~System(c))
  BY DEF Toggle
<1>4. Submit(s, [Idle EXCEPT !.op = op, !.org = o, !.id = c, !.seen = seen, !.to = to])
      /\ c \in Readable(o)
  BY DEF ToggleSuppression
<1> HIDE DEF seen, to, op
<1> QED BY <1>1, <1>2, <1>3, <1>4, AboutStep

LEMMA DeleteStep ==
  ASSUME IInv, NEW s \in Sessions, NEW o \in Orgs, NEW c \in Rows, Delete(s, o, c)
  PROVE  IInv'
<1> DEFINE i == Idle
           seen == i.seen
           to == i.to
<1>1. i \in Session /\ seen \in [Rows -> Row] /\ to \in Row
  BY IdleTyped, SessionTyped
<1>2. Submit(s, [i EXCEPT !.op = "delete", !.org = o, !.id = c]) /\ c \in Readable(o) /\ ~System(c)
  BY DEF Delete
<1> HIDE DEF i
<1>3. [i EXCEPT !.op = "delete", !.org = o, !.id = c]
        = [i EXCEPT !.op = "delete", !.org = o, !.id = c, !.seen = seen, !.to = to]
  BY <1>1 DEF Session
<1> DEFINE op == "delete"
<1>4. op \in {"edit", "activate", "delete", "hide", "restore"}
  OBVIOUS
<1>5. Submit(s, [i EXCEPT !.op = op, !.org = o, !.id = c, !.seen = seen, !.to = to])
  BY <1>2, <1>3
<1> HIDE DEF seen, to, op
<1> QED BY <1>1, <1>2, <1>4, <1>5, AboutStep DEF i

LEMMA SeedStep ==
  ASSUME IInv, NEW s \in Sessions, NEW r \in Releases, NEW update \in BOOLEAN,
         SeedLibrary(s, r, update)
  PROVE  IInv'
<1> DEFINE I == {j \in Live : row[j].key # None}
           seen == Only(I)
           i == Idle
           y == [i EXCEPT !.op = "seed", !.of = r, !.update = update, !.seen = seen]
<1>1. I \in SUBSET Rows /\ row \in [Rows -> Row] /\ TypeOK
  BY DEF IInv, TypeOK, Live
<1>2. seen \in [Rows -> Row] /\ \A j \in Rows : seen[j] = IF j \in I THEN row[j] ELSE NoRow
  BY <1>1, OnlyTyped
<1>3. Submit(s, y) /\ i \in Session /\ i.org = None
  BY IdleTyped DEF SeedLibrary
<1> HIDE DEF seen, i
<1>4. y \in Session
  BY <1>2, <1>3 DEF Session
<1>5. y.op = "seed" /\ y.of = r /\ y.seen = seen /\ y.org = None
  BY <1>2, <1>3 DEF Session
<1> HIDE DEF y
<1>6. \A j \in Rows : seen[j].state = "live" =>
        seen[j] = row[j] /\ row[j].key \in Keys /\ row[j].state = "live"
  <2> SUFFICES ASSUME NEW j \in Rows, seen[j].state = "live"
               PROVE  seen[j] = row[j] /\ row[j].key \in Keys /\ row[j].state = "live"
    OBVIOUS
  <2>1. NoRow.state # "live" /\ (j \in I \/ seen[j] = NoRow)
    BY <1>2, NoRowTyped
  <2>2. j \in I
    <3> HIDE DEF I
    <3> QED BY <2>1
  <2>3. row[j].key \in Keys
    BY <1>1, <2>2, RowTyped
  <2> QED BY <1>2, <2>2, <2>3
<1>7. Asking(y) /\ Own(y, row) /\ Seeing(y, row)
  BY <1>5, <1>6 DEF Asking, Own, Seeing
<1> QED BY <1>3, <1>4, <1>7, SubmitStep

(* A session is over; nothing that the others have read of depends on it. *)
LEMMA FinishStep ==
  ASSUME IInv, NEW s \in Sessions, Finish(s)
  PROVE  /\ ses' \in [Sessions -> Session] /\ ses'[s] = Idle
         /\ \A t \in Sessions : ses'[t] = Idle \/ ses'[t] = ses[t]
BY IdleTyped DEF IInv, TypeOK, Finish

(* A request writes one row, which is not a shipped one. *)
LEMMA WriteStep ==
  ASSUME IInv, NEW s \in Sessions, Finish(s), NEW c \in Rows, NEW y \in Row,
         row' = [row EXCEPT ![c] = y], Sorted(y), y.key = None, row[c].key = None,
         y.state # "never",
         row[c].state # "never" /\ y.state = "live" =>
           row[c].state = "live" /\ y.owner = row[c].owner,
         hidden' \in [Orgs -> SUBSET Rows], shown' \in [Orgs -> SUBSET Rows],
         CopiedHidden(row', hidden', shown'), UNCHANGED release
  PROVE  IInv'
<1>1. /\ row \in [Rows -> Row] /\ row' \in [Rows -> Row] /\ row'[c] = y
      /\ \A i \in Rows \ {c} : row'[i] = row[i]
  BY DEF IInv, TypeOK
<1>2. TypeOK'
  BY <1>1, FinishStep DEF IInv, TypeOK
<1>3. \A i \in Rows : Sorted(row'[i])
  BY <1>1 DEF IInv, Kept
<1>4. \A t \in Sessions : Asking(ses'[t]) /\ Own(ses'[t], row') /\ Seeing(ses'[t], row')
  <2> SUFFICES ASSUME NEW t \in Sessions
               PROVE  Asking(ses'[t]) /\ Own(ses'[t], row') /\ Seeing(ses'[t], row')
    OBVIOUS
  <2>1. CASE ses'[t] = Idle
    BY <2>1, IdleTyped
  <2>2. CASE ses'[t] = ses[t]
    <3> DEFINE x == ses[t]
    <3>1. Asking(x) /\ Own(x, row) /\ Seeing(x, row)
      BY DEF IInv, Kept
    <3> HIDE DEF x
    <3>2. Own(x, row')
      BY <1>1, <3>1 DEF Own
    <3>3. Seeing(x, row')
      BY <1>1, <3>1, Nones DEF Seeing
    <3> QED BY <2>2, <3>1, <3>2, <3>3 DEF x
  <2> QED BY <2>1, <2>2, FinishStep
<1>5. KeysUnique(row')
  BY <1>1 DEF IInv, Kept, KeysUnique
<1>6. Lands(row', release)
  <2> SUFFICES ASSUME release # None, NEW k \in Keys, Shipped[release][k] # None
               PROVE  \E i \in Rows : /\ row'[i].key = k /\ row'[i].active
                                      /\ row'[i].text = Shipped[release][k]
    BY DEF Lands
  <2>1. PICK i \in Rows : row[i].key = k /\ row[i].active /\ row[i].text = Shipped[release][k]
    BY DEF IInv, Kept, Lands
  <2>2. i # c
    BY <2>1, Nones
  <2> QED BY <1>1, <2>1, <2>2
<1>7. Kept(row', hidden', ses', release', shown')
  BY <1>3, <1>4, <1>5, <1>6 DEF Kept
<1> QED BY <1>2, <1>7 DEF IInv

(* The row of a request: its own, or not there any more. *)
LEMMA OwnRow ==
  ASSUME IInv, NEW s \in Sessions, ses[s].op \in {"edit", "activate", "delete"}
  PROVE  /\ ses[s].id \in Rows /\ ses[s].org \in Orgs /\ row[ses[s].id] \in Row
         /\ row[ses[s].id].key = None /\ row[ses[s].id].state # "never"
         /\ row[ses[s].id].state = "live" => row[ses[s].id].owner = ses[s].org
<1> DEFINE x == ses[s]
           y == row[x.id]
<1>1. x \in Session /\ Own(x, row) /\ Asking(x)
  BY DEF IInv, TypeOK, Kept
<1>2. x.id \in Rows /\ x.org \in Orgs
  BY <1>1, SessionTyped DEF Own, Asking
<1>3. y \in Row /\ Sorted(y)
  BY <1>2 DEF IInv, TypeOK, Kept
<1>4. y.state # "never" /\ (y.state = "live" => y.owner = x.org)
  BY <1>1 DEF Own
<1> HIDE DEF x, y
<1>5. y.key = None
  BY <1>2, <1>3, <1>4, Nones, RowTyped DEF Sorted
<1> QED BY <1>2, <1>3, <1>4, <1>5 DEF x, y

(* An insertion has a place for its row. *)
LEMMA FreshRow ==
  ASSUME IInv, NEW c \in Fresh
  PROVE  c \in Rows /\ row[c].state = "never" /\ row[c].key = None /\ row[c].twin = None
BY DEF IInv, Kept, Fresh, Sorted

LEMMA NewRow ==
  ASSUME IInv, NEW s \in Sessions, ses[s].op \in {"create", "copy"}
  PROVE  /\ ses[s].org \in Orgs /\ ses[s].to \in Row /\ ses[s].to.state = "live"
         /\ ses[s].to.owner = ses[s].org /\ ses[s].to.key = None
         /\ ses[s].to.twin \in Rows \union {None} /\ Sorted(ses[s].to)
         /\ ses[s].op = "create" => ses[s].to.twin = None
<1> DEFINE x == ses[s]
<1>1. x \in Session /\ Asking(x)
  BY DEF IInv, TypeOK, Kept
<1>2. x.org \in Orgs /\ x.to \in Row
  BY <1>1, SessionTyped DEF Asking
<1> QED BY <1>1, <1>2, RowTyped, Nones DEF Asking, Sorted

LEMMA CommitCreateStep ==
  ASSUME IInv, NEW s \in Sessions, CommitCreate(s)
  PROVE  IInv'
<1> DEFINE y == ses[s].to
<1>1. PICK c \in Fresh : row' = [row EXCEPT ![c] = y]
  BY DEF CommitCreate
<1>2. /\ y \in Row /\ y.state = "live" /\ y.key = None /\ y.twin = None /\ Sorted(y)
      /\ Finish(s) /\ UNCHANGED <<hidden, release, shown>>
  BY NewRow DEF CommitCreate
<1> HIDE DEF y
<1>3. CopiedHidden(row', hidden', shown')
  BY <1>1, <1>2, FreshRow DEF IInv, TypeOK, Kept, CopiedHidden
<1>4. hidden' \in [Orgs -> SUBSET Rows] /\ shown' \in [Orgs -> SUBSET Rows]
  BY <1>2 DEF IInv, TypeOK
<1> QED BY <1>1, <1>2, <1>3, <1>4, FreshRow, WriteStep

LEMMA CommitCopyStep ==
  ASSUME IInv, NEW s \in Sessions, CommitCopy(s)
  PROVE  IInv'
<1> DEFINE y == ses[s].to
           o == ses[s].org
<1>1. PICK c \in Fresh : row' = [row EXCEPT ![c] = y]
  BY DEF CommitCopy
<1>2. /\ y \in Row /\ y.state = "live" /\ y.key = None /\ y.twin \in Rows \union {None}
      /\ Sorted(y) /\ y.owner = o /\ o \in Orgs /\ Finish(s) /\ UNCHANGED release
      /\ hidden' = [hidden EXCEPT ![o] = @ \union ({y.twin} \ {None})]
      /\ shown' = [shown EXCEPT ![o] = @ \ {y.twin}]
  BY NewRow DEF CommitCopy
<1> HIDE DEF y, o
<1>3. /\ hidden \in [Orgs -> SUBSET Rows] /\ shown \in [Orgs -> SUBSET Rows]
      /\ row \in [Rows -> Row] /\ CopiedHidden(row, hidden, shown)
      /\ \A i \in Rows : Sorted(row[i])
  BY DEF IInv, TypeOK, Kept
<1>4. hidden' \in [Orgs -> SUBSET Rows] /\ shown' \in [Orgs -> SUBSET Rows]
  BY <1>2, <1>3
<1>5. CopiedHidden(row', hidden', shown')
  <2> SUFFICES ASSUME NEW i \in Rows, row'[i].twin # None
               PROVE  \/ row'[i].twin \in hidden'[row'[i].owner]
                      \/ row'[i].twin \in shown'[row'[i].owner]
    BY DEF CopiedHidden
  <2>1. CASE i = c
    BY <1>1, <1>2, <1>3, <2>1, FreshRow
  <2>2. CASE i # c
    <3>1. row'[i] = row[i] /\ row[i].owner \in Orgs
      BY <1>1, <1>3, <2>2, RowTyped DEF Sorted
    <3>2. row[i].twin \in hidden[row[i].owner] \/ row[i].twin \in shown[row[i].owner]
      BY <1>3, <3>1 DEF CopiedHidden
    <3> QED BY <1>2, <1>3, <3>1, <3>2
  <2> QED BY <2>1, <2>2
<1> QED BY <1>1, <1>2, <1>4, <1>5, FreshRow, WriteStep

(* A request writes a row it has read. *)
LEMMA MergedTyped ==
  ASSUME IInv, NEW s \in Sessions, ses[s].op \in {"edit", "activate"}
  PROVE  LET c == ses[s].id
             y == Merged(ses[s], c)
         IN /\ y \in Row /\ y.state = row[c].state /\ y.owner = row[c].owner
            /\ y.key = row[c].key /\ y.twin = row[c].twin /\ (Sorted(row[c]) => Sorted(y))
<1> DEFINE x == ses[s]
           c == x.id
           z == row[c]
           text == IF x.to.text # x.seen[c].text THEN x.to.text ELSE z.text
           active == IF x.to.active # x.seen[c].active THEN x.to.active ELSE z.active
           y == Merged(x, c)
<1>1. x \in Session /\ z \in Row /\ x.to \in Row
  BY OwnRow, SessionTyped DEF IInv, TypeOK
<1>2. text \in Texts \union {None} /\ active \in BOOLEAN
  BY <1>1, RowTyped
<1>3. y = [z EXCEPT !.text = text, !.active = active]
  BY <1>1 DEF Merged, Row
<1> HIDE DEF z, text, active, y
<1>4. /\ y \in Row /\ y.state = z.state /\ y.owner = z.owner /\ y.key = z.key
      /\ y.twin = z.twin
  BY <1>1, <1>2, <1>3 DEF Row
<1> QED BY <1>4 DEF Sorted, y, z

(* The rows do not change. *)
LEMMA SameStep ==
  ASSUME IInv, NEW s \in Sessions, Finish(s), row' = row, UNCHANGED release,
         hidden' \in [Orgs -> SUBSET Rows], shown' \in [Orgs -> SUBSET Rows],
         CopiedHidden(row, hidden', shown')
  PROVE  IInv'
<1>1. TypeOK'
  BY FinishStep DEF IInv, TypeOK
<1>2. \A t \in Sessions : Asking(ses'[t]) /\ Own(ses'[t], row) /\ Seeing(ses'[t], row)
  BY FinishStep, IdleTyped DEF IInv, Kept
<1>3. Kept(row, hidden', ses', release, shown')
  BY <1>2 DEF IInv, Kept
<1>4. Kept(row', hidden', ses', release', shown')
  BY <1>3
<1> QED BY <1>1, <1>4 DEF IInv

LEMMA CommitEditStep ==
  ASSUME IInv, NEW s \in Sessions, CommitEdit(s)
  PROVE  IInv'
<1> DEFINE x == ses[s]
           c == x.id
           y == Merged(x, c)
<1>1. /\ x.op \in {"edit", "activate"} /\ Finish(s) /\ UNCHANGED <<hidden, release, shown>>
      /\ Changed(x) \subseteq Live
      /\ row' = [i \in Rows |-> IF i \in Changed(x) THEN Merged(x, i) ELSE row[i]]
  BY DEF CommitEdit
<1>2. Changed(x) \subseteq {c}
  BY DEF Changed
<1>3. /\ hidden' \in [Orgs -> SUBSET Rows] /\ shown' \in [Orgs -> SUBSET Rows]
      /\ row \in [Rows -> Row] /\ CopiedHidden(row, hidden, shown)
  BY <1>1 DEF IInv, TypeOK, Kept
<1>4. CASE c \in Changed(x)
  <2>1. c \in Rows /\ row[c].state = "live" /\ row[c].key = None
    BY <1>1, <1>4, OwnRow DEF Live
  <2>2. row' = [row EXCEPT ![c] = y]
    BY <1>1, <1>2, <1>3, <1>4
  <2>3. /\ y \in Row /\ y.state = row[c].state /\ y.owner = row[c].owner
        /\ y.key = row[c].key /\ y.twin = row[c].twin /\ Sorted(y)
    BY <1>1, <2>1, MergedTyped DEF IInv, Kept
  <2> HIDE DEF y, c
  <2>4. CopiedHidden(row', hidden', shown')
    BY <1>1, <1>3, <2>1, <2>2, <2>3 DEF CopiedHidden
  <2> QED BY <1>1, <1>3, <2>1, <2>2, <2>3, <2>4, WriteStep
<1>5. CASE c \notin Changed(x)
  <2>1. row' = row
    BY <1>1, <1>2, <1>3, <1>5
  <2> QED BY <1>1, <1>3, <2>1, SameStep
<1> QED BY <1>4, <1>5

LEMMA CommitHideStep ==
  ASSUME IInv, NEW s \in Sessions, CommitHide(s)
  PROVE  IInv'
<1> DEFINE o == ses[s].org
           c == ses[s].id
<1>1. /\ ses[s] \in Session /\ Asking(ses[s]) /\ ses[s].op = "hide" /\ Finish(s)
      /\ hidden' = [hidden EXCEPT ![o] = @ \union {c}] /\ UNCHANGED <<row, release, shown>>
      /\ hidden \in [Orgs -> SUBSET Rows] /\ shown \in [Orgs -> SUBSET Rows]
      /\ row \in [Rows -> Row] /\ CopiedHidden(row, hidden, shown)
      /\ \A i \in Rows : Sorted(row[i])
  BY DEF CommitHide, IInv, TypeOK, Kept
<1>2. o \in Orgs /\ c \in Rows
  BY <1>1, SessionTyped DEF Asking
<1> HIDE DEF o, c
<1>3. hidden' \in [Orgs -> SUBSET Rows] /\ \A p \in Orgs : hidden[p] \subseteq hidden'[p]
  BY <1>1, <1>2
<1>4. \A i \in Rows : row[i].twin # None => row[i].owner \in Orgs
  BY <1>1, RowTyped DEF Sorted
<1>5. CopiedHidden(row, hidden', shown')
  BY <1>1, <1>3, <1>4 DEF CopiedHidden
<1> QED BY <1>1, <1>3, <1>5, SameStep

LEMMA CommitRestoreStep ==
  ASSUME IInv, NEW s \in Sessions, CommitRestore(s)
  PROVE  IInv'
<1> DEFINE o == ses[s].org
           c == ses[s].id
<1>1. /\ ses[s] \in Session /\ Asking(ses[s]) /\ ses[s].op = "restore"
      /\ hidden' = [hidden EXCEPT ![o] = @ \ {c}]
      /\ shown' = [shown EXCEPT ![o] = @ \union ({c} \ {None})]
      /\ ses' = [t \in Sessions |->
                   IF t = s THEN Idle
                   ELSE IF ses[t].op = "restore" /\ ses[t].org = o /\ ses[t].id = c
                        THEN [ses[t] EXCEPT !.id = None] ELSE ses[t]]
      /\ UNCHANGED <<row, release>>
      /\ hidden \in [Orgs -> SUBSET Rows] /\ shown \in [Orgs -> SUBSET Rows]
      /\ row \in [Rows -> Row] /\ CopiedHidden(row, hidden, shown)
      /\ \A i \in Rows : Sorted(row[i])
  BY DEF CommitRestore, IInv, TypeOK, Kept
<1>2. o \in Orgs /\ c \in Rows \union {None}
  BY <1>1, SessionTyped DEF Asking
<1> HIDE DEF o, c
<1>3. hidden' \in [Orgs -> SUBSET Rows] /\ shown' \in [Orgs -> SUBSET Rows]
  BY <1>1, <1>2
<1>4. \A i \in Rows : row[i].twin # None => row[i].owner \in Orgs
  BY <1>1, RowTyped DEF Sorted
<1>5. CopiedHidden(row, hidden', shown')
  BY <1>1, <1>2, <1>4 DEF CopiedHidden
<1>6. \A t \in Sessions : /\ ses'[t] \in Session /\ Asking(ses'[t]) /\ Own(ses'[t], row)
                          /\ Seeing(ses'[t], row)
  <2> SUFFICES ASSUME NEW t \in Sessions
               PROVE  /\ ses'[t] \in Session /\ Asking(ses'[t]) /\ Own(ses'[t], row)
                      /\ Seeing(ses'[t], row)
    OBVIOUS
  <2>1. CASE ses'[t] = Idle
    BY <2>1, IdleTyped
  <2>2. CASE ses'[t] = ses[t]
    BY <2>2 DEF IInv, TypeOK, Kept
  <2>3. CASE ses[t].op = "restore" /\ ses'[t] = [ses[t] EXCEPT !.id = None]
    <3> DEFINE x == ses[t]
               y == ses'[t]
    <3>1. x \in Session /\ Asking(x)
      BY DEF IInv, TypeOK, Kept
    <3>2. x.op = "restore" /\ y = [x EXCEPT !.id = None]
      BY <2>3
    <3> HIDE DEF x, y
    <3>3. y \in Session /\ y.op = "restore" /\ y.org = x.org
      BY <3>1, <3>2 DEF Session
    <3>4. Asking(y) /\ Own(y, row) /\ Seeing(y, row)
      BY <3>1, <3>2, <3>3 DEF Asking, Own, Seeing
    <3> QED BY <3>3, <3>4 DEF y
  <2> QED BY <1>1, <2>1, <2>2, <2>3
<1>7. TypeOK'
  BY <1>1, <1>3, <1>6 DEF IInv, TypeOK
<1>8. Kept(row, hidden', ses', release, shown')
  BY <1>5, <1>6 DEF IInv, Kept
<1>9. Kept(row', hidden', ses', release', shown')
  BY <1>1, <1>8
<1> QED BY <1>7, <1>9 DEF IInv

LEMMA CommitDeleteStep ==
  ASSUME IInv, NEW s \in Sessions, CommitDelete(s)
  PROVE  IInv'
<1> DEFINE c == ses[s].id
<1>1. /\ row' = [row EXCEPT ![c] = Gone] /\ Finish(s) /\ UNCHANGED <<hidden, release, shown>>
      /\ c \in Rows /\ row[c].key = None
  BY OwnRow DEF CommitDelete
<1>2. /\ hidden' \in [Orgs -> SUBSET Rows] /\ shown' \in [Orgs -> SUBSET Rows]
      /\ row \in [Rows -> Row] /\ CopiedHidden(row, hidden, shown)
  BY <1>1 DEF IInv, TypeOK, Kept
<1> HIDE DEF c
<1>3. CopiedHidden(row', hidden', shown')
  BY <1>1, <1>2, GoneTyped DEF CopiedHidden
<1> QED BY <1>1, <1>2, <1>3, GoneTyped, WriteStep

LEMMA RollbackStep ==
  ASSUME IInv, NEW s \in Sessions, Rollback(s)
  PROVE  IInv'
BY SameStep DEF Rollback, IInv, TypeOK, Kept

-----------------------------------------------------------------------------
(* A seeding. *)

LEMMA ShippedTyped ==
  ASSUME NEW r \in Releases, NEW k \in Keys, Shipped[r][k] # None
  PROVE  LET y == ShippedRow(r, k)
         IN /\ y \in Row /\ y.state = "live" /\ y.owner = None /\ y.key = k
            /\ y.text = Shipped[r][k] /\ y.active /\ y.twin = None /\ Sorted(y)
<1>1. Shipped[r][k] \in Texts /\ k # None
  BY LibraryAssumption
<1>2. LET y == ShippedRow(r, k)
      IN /\ y \in Row /\ y.state = "live" /\ y.owner = None /\ y.key = k
         /\ y.text = Shipped[r][k] /\ y.active /\ y.twin = None
  BY <1>1 DEF ShippedRow, Row
<1> QED BY <1>1, <1>2 DEF Sorted

(* What a seeding makes of a row: as it was, or as the release says. *)
LEMMA RefreshedTyped ==
  ASSUME IInv, NEW s \in Sessions, ses[s].op = "seed", NEW i \in Rows
  PROVE  LET x == ses[s]
             k == x.seen[i].key
             y == Refreshed(x, i)
         IN /\ y \in Row /\ y.state = row[i].state /\ y.owner = row[i].owner
            /\ y.key = row[i].key /\ y.twin = row[i].twin /\ Sorted(y)
            /\ row[i].active => y.active
            /\ y # row[i] => /\ x.update /\ x.seen[i].state = "live" /\ k \in Keys
                             /\ row[i].key = k /\ Shipped[x.of][k] # None
            /\ \/ y.text = row[i].text
               \/ y # row[i] /\ y.text = Shipped[x.of][k]
            /\ ~x.over /\ x.update /\ x.seen[i].state = "live" /\ Shipped[x.of][k] # None =>
                 y.active /\ y.text = Shipped[x.of][k]
<1> DEFINE x == ses[s]
           z == row[i]
           w == x.seen[i]
           k == w.key
           y == Refreshed(x, i)
           here == x.update /\ w.state = "live" /\ Shipped[x.of][k] # None
           text == IF w.text # Shipped[x.of][k] THEN Shipped[x.of][k] ELSE z.text
           active == IF ~w.active THEN TRUE ELSE z.active
           u == [z EXCEPT !.text = text, !.active = active]
<1>1. x \in Session /\ z \in Row /\ w \in Row /\ Sorted(z) /\ Seeing(x, row) /\ x.of \in Releases
  <2>1. x \in Session /\ z \in Row /\ Sorted(z) /\ Seeing(x, row)
    BY DEF IInv, TypeOK, Kept
  <2> QED BY <2>1, SessionTyped DEF Seeing
<1>2. w.state = "live" =>
        /\ k \in Keys /\ z.key = k
        /\ w.active => z.active
        /\ x.over \/ z.text = w.text \/ (Shipped[x.of][k] # None /\ z.text = Shipped[x.of][k])
  BY <1>1 DEF Seeing
<1>3. y = IF here THEN u ELSE z
  BY <1>1 DEF Refreshed, Row
<1> HIDE DEF x, z, w, y
<1>4. ASSUME here
      PROVE  /\ u \in Row /\ u.state = z.state /\ u.owner = z.owner /\ u.key = z.key
             /\ u.twin = z.twin /\ u.text = text /\ u.active = active
  <2>1. text \in Texts \union {None}
    BY <1>1, <1>2, <1>4, LibraryAssumption, RowTyped
  <2>2. active \in BOOLEAN
    BY <1>1, RowTyped
  <2> HIDE DEF text, active
  <2> QED BY <1>1, <2>1, <2>2 DEF Row
<1>5. ASSUME here
      PROVE  /\ y \in Row /\ y.state = z.state /\ y.owner = z.owner /\ y.key = z.key
             /\ y.twin = z.twin /\ y.text = text /\ y.active = active
  BY <1>3, <1>4, <1>5
<1>6. ~here => y = z
  BY <1>3
<1> HIDE DEF u
<1>7. y \in Row /\ y.state = z.state /\ y.owner = z.owner /\ y.key = z.key /\ y.twin = z.twin
  BY <1>1, <1>5, <1>6
<1>8. Sorted(y)
  BY <1>1, <1>7 DEF Sorted
<1>9. z.active => y.active
  BY <1>5, <1>6
<1>10. y # z => x.update /\ w.state = "live" /\ k \in Keys /\ z.key = k /\ Shipped[x.of][k] # None
  BY <1>2, <1>6
<1>11. y.text = z.text \/ (y # z /\ y.text = Shipped[x.of][k])
  BY <1>5, <1>6
<1>12. ~x.over /\ here => y.active /\ y.text = Shipped[x.of][k]
  BY <1>2, <1>5
<1> QED BY <1>7, <1>8, <1>9, <1>10, <1>11, <1>12 DEF x, z, w, y

(* Where the rows of a seeding come from: new ones and those that were there. *)
LEMMA Seeded ==
  ASSUME IInv, NEW s \in Sessions, CommitSeed(s)
  PROVE  \E at \in [Lacking(ses[s]) -> Fresh] :
           /\ \A j, k \in Lacking(ses[s]) : at[j] = at[k] => j = k
           /\ \A k \in Lacking(ses[s]) :
                row[at[k]].state = "never" /\ row'[at[k]] = ShippedRow(ses[s].of, k)
           /\ \A i \in Rows : \/ \E k \in Lacking(ses[s]) : at[k] = i
                              \/ row'[i] = Refreshed(ses[s], i)
           /\ row' = [i \in Rows |-> row'[i]]
<1> DEFINE x == ses[s]
           new == Lacking(x)
<1>1. PICK at \in [new -> Fresh] :
        /\ \A j, k \in new : at[j] = at[k] => j = k
        /\ row' = [i \in Rows |-> IF \E k \in new : at[k] = i
                                  THEN ShippedRow(x.of, CHOOSE k \in new : at[k] = i)
                                  ELSE Refreshed(x, i)]
  BY DEF CommitSeed
<1> HIDE DEF new, x
<1>2. ASSUME NEW k \in new
      PROVE  row[at[k]].state = "never" /\ row'[at[k]] = ShippedRow(x.of, k)
  <2>1. at[k] \in Rows /\ row[at[k]].state = "never"
    BY DEF Fresh
  <2>2. (CHOOSE j \in new : at[j] = at[k]) = k
    BY <1>1
  <2>3. row'[at[k]] = ShippedRow(x.of, CHOOSE j \in new : at[j] = at[k])
    BY <1>1, <2>1
  <2> QED BY <2>1, <2>2, <2>3
<1>3. \A i \in Rows : (\E k \in new : at[k] = i) \/ row'[i] = Refreshed(x, i)
  BY <1>1
<1>4. row' = [i \in Rows |-> row'[i]]
  BY <1>1
<1> QED BY <1>1, <1>2, <1>3, <1>4 DEF new, x

LEMMA CommitSeedStep ==
  ASSUME IInv, NEW s \in Sessions, CommitSeed(s)
  PROVE  IInv'
<1> DEFINE x == ses[s]
           new == Lacking(x)
<1>1. /\ x \in Session /\ x.op = "seed" /\ x.of \in Releases /\ Seeing(x, row)
      /\ \A k \in new : k \in Keys /\ Shipped[x.of][k] # None /\ WithKey(row, k) = {}
      /\ release' = (IF x.over \/ (~x.update /\ release # x.of) THEN None ELSE x.of)
      /\ ses' = [t \in Sessions |->
                   IF t = s THEN Idle
                   ELSE IF ses[t].op = "seed" /\ ses[t].of # x.of THEN [ses[t] EXCEPT !.over = TRUE]
                   ELSE ses[t]]
      /\ UNCHANGED <<hidden, shown>>
  BY DEF CommitSeed, Lacking, IInv, TypeOK, Kept, Seeing
<1>2. PICK at \in [new -> Fresh] :
        /\ \A j, k \in new : at[j] = at[k] => j = k
        /\ \A k \in new : row[at[k]].state = "never" /\ row'[at[k]] = ShippedRow(x.of, k)
        /\ \A i \in Rows : (\E k \in new : at[k] = i) \/ row'[i] = Refreshed(x, i)
        /\ row' = [i \in Rows |-> row'[i]]
  BY Seeded
<1>3. /\ row \in [Rows -> Row] /\ \A i \in Rows : row[i] \in Row /\ Sorted(row[i])
      /\ KeysUnique(row) /\ CopiedHidden(row, hidden, shown) /\ Lands(row, release)
  BY DEF IInv, TypeOK, Kept
<1>4. ASSUME NEW k \in new
      PROVE  LET y == row'[at[k]]
             IN /\ at[k] \in Rows /\ y \in Row /\ y.state = "live" /\ y.owner = None /\ y.key = k
                /\ y.text = Shipped[x.of][k] /\ y.active /\ y.twin = None /\ Sorted(y)
  BY <1>1, <1>2, ShippedTyped DEF Fresh
<1>5. ASSUME NEW i \in Rows, \A k \in new : at[k] # i
      PROVE  LET k == x.seen[i].key
                 y == row'[i]
             IN /\ y \in Row /\ y.state = row[i].state /\ y.owner = row[i].owner
                /\ y.key = row[i].key /\ y.twin = row[i].twin /\ Sorted(y)
                /\ row[i].active => y.active
                /\ y # row[i] => /\ x.update /\ x.seen[i].state = "live" /\ k \in Keys
                                 /\ row[i].key = k /\ Shipped[x.of][k] # None
                /\ \/ y.text = row[i].text
                   \/ y # row[i] /\ y.text = Shipped[x.of][k]
                /\ ~x.over /\ x.update /\ x.seen[i].state = "live" /\ Shipped[x.of][k] # None =>
                     y.active /\ y.text = Shipped[x.of][k]
  <2>1. row'[i] = Refreshed(x, i)
    BY <1>2, <1>5
  <2> QED BY <1>1, <2>1, RefreshedTyped
<1> HIDE DEF x, new
(* A row that was there keeps its identity. *)
<1>6. ASSUME NEW i \in Rows, row[i].state # "never"
      PROVE  \A k \in new : at[k] # i
  BY <1>2, <1>6
<1>7. \A i \in Rows : row'[i] \in Row /\ Sorted(row'[i])
  BY <1>4, <1>5
<1>8. row' \in [Rows -> Row]
  BY <1>2, <1>7
<1>9. KeysUnique(row')
  <2> SUFFICES ASSUME NEW i \in Rows, NEW j \in Rows, row'[i].key # None,
                      row'[i].key = row'[j].key
               PROVE  i = j
    BY DEF KeysUnique
  <2>1. ASSUME NEW k \in new, NEW h \in Rows, \A n \in new : at[n] # h
        PROVE  row'[h].key # k
    <3>1. row[h].key # k
      BY <1>1, <1>3, Nones DEF WithKey, Sorted
    <3> QED BY <1>5, <2>1, <3>1
  <2>2. CASE (\E k \in new : at[k] = i) /\ (\E k \in new : at[k] = j)
    BY <1>4, <2>2
  <2>3. CASE (\E k \in new : at[k] = i) /\ ~(\E k \in new : at[k] = j)
    BY <1>4, <2>1, <2>3
  <2>4. CASE ~(\E k \in new : at[k] = i) /\ (\E k \in new : at[k] = j)
    BY <1>4, <2>1, <2>4
  <2>5. CASE ~(\E k \in new : at[k] = i) /\ ~(\E k \in new : at[k] = j)
    BY <1>3, <1>5, <2>5 DEF KeysUnique
  <2> QED BY <2>2, <2>3, <2>4, <2>5
<1>10. CopiedHidden(row', hidden', shown')
  BY <1>1, <1>3, <1>4, <1>5 DEF CopiedHidden
<1>11. \A t \in Sessions : /\ ses'[t] \in Session /\ Asking(ses'[t]) /\ Own(ses'[t], row')
                           /\ Seeing(ses'[t], row')
  <2> SUFFICES ASSUME NEW t \in Sessions
               PROVE  /\ ses'[t] \in Session /\ Asking(ses'[t]) /\ Own(ses'[t], row')
                      /\ Seeing(ses'[t], row')
    OBVIOUS
  <2> DEFINE z == ses[t]
             y == ses'[t]
  <2>1. CASE ses'[t] = Idle
    BY <2>1, IdleTyped
  <2>2. CASE t # s
    <3>1. z \in Session /\ Asking(z) /\ Own(z, row) /\ Seeing(z, row)
      BY DEF IInv, TypeOK, Kept
    <3>2. y = (IF z.op = "seed" /\ z.of # x.of THEN [z EXCEPT !.over = TRUE] ELSE z)
      BY <1>1, <2>2
    <3> HIDE DEF y, z
    <3>3. /\ y \in Session /\ y.op = z.op /\ y.org = z.org /\ y.id = z.id /\ y.to = z.to
          /\ y.of = z.of /\ y.seen = z.seen /\ (y.over \/ y.over = z.over)
          /\ (y.op = "seed" /\ ~y.over => y.of = x.of)
      BY <3>1, <3>2 DEF Session
    <3>4. Asking(y)
      BY <3>1, <3>3 DEF Asking
    <3>5. Own(y, row')
      BY <1>5, <1>6, <3>1, <3>3 DEF Own
    <3>6. Seeing(y, row')
      <4> SUFFICES ASSUME y.op = "seed", NEW i \in Rows, y.seen[i].state = "live"
                   PROVE  LET k == y.seen[i].key
                          IN /\ k \in Keys /\ row'[i].state = "live" /\ row'[i].key = k
                             /\ y.seen[i].active => row'[i].active
                             /\ \/ y.over \/ row'[i].text = y.seen[i].text
                                \/ Shipped[y.of][k] # None /\ row'[i].text = Shipped[y.of][k]
        BY <3>1, <3>3 DEF Seeing
      <4> DEFINE k == y.seen[i].key
      <4>1. /\ k \in Keys /\ row[i].state = "live" /\ row[i].key = k
            /\ y.seen[i].active => row[i].active
            /\ \/ y.over \/ row[i].text = y.seen[i].text
               \/ Shipped[y.of][k] # None /\ row[i].text = Shipped[y.of][k]
        BY <3>1, <3>3 DEF Seeing
      <4>2. \A n \in new : at[n] # i
        BY <1>6, <4>1
      <4> DEFINE v == row'[i]
      <4>3. /\ v.state = row[i].state /\ v.key = row[i].key
            /\ row[i].active => v.active
            /\ v # row[i] => row[i].key = x.seen[i].key /\ Shipped[x.of][x.seen[i].key] # None
            /\ v.text = row[i].text \/ (v # row[i] /\ v.text = Shipped[x.of][x.seen[i].key])
        BY <1>5, <4>2
      <4> HIDE DEF k, v
      <4> QED BY <3>3, <4>1, <4>3 DEF k, v
    <3> QED BY <3>3, <3>4, <3>5, <3>6 DEF y
  <2> QED BY <1>1, <2>1, <2>2
<1>12. Lands(row', release')
  <2> SUFFICES ASSUME release' # None, NEW k \in Keys, Shipped[release'][k] # None
               PROVE  \E i \in Rows : /\ row'[i].key = k /\ row'[i].active
                                      /\ row'[i].text = Shipped[release'][k]
    BY DEF Lands
  <2>1. release' = x.of /\ ~x.over /\ (x.update \/ release = x.of)
    BY <1>1
  <2>2. CASE k \in new
    BY <1>4, <2>1, <2>2
  <2>3. CASE k \notin new /\ x.update
    <3>1. WithKey(x.seen, k) # {}
      BY <2>1, <2>3 DEF new, Lacking
    <3>2. PICK i \in Rows : x.seen[i].state = "live" /\ x.seen[i].key = k
      BY <3>1 DEF WithKey
    <3>3. row[i].state = "live" /\ row[i].key = k
      BY <1>1, <3>2 DEF Seeing
    <3>4. \A n \in new : at[n] # i
      BY <1>6, <3>3
    <3>5. row'[i].key = k /\ row'[i].active /\ row'[i].text = Shipped[x.of][k]
      BY <1>5, <2>1, <2>3, <3>2, <3>3, <3>4
    <3> QED BY <2>1, <3>5
  <2>4. CASE ~x.update
    <3>1. release = x.of
      BY <2>1, <2>4
    <3>2. PICK i \in Rows : row[i].key = k /\ row[i].active /\ row[i].text = Shipped[x.of][k]
      BY <1>1, <1>3, <2>1, <3>1, Nones DEF Lands
    <3>3. row[i].state = "live"
      BY <1>3, <3>2, Nones DEF Sorted
    <3>4. row'[i] = row[i]
      BY <1>5, <1>6, <2>4, <3>3
    <3> QED BY <2>1, <3>2, <3>4
  <2> QED BY <2>2, <2>3, <2>4
<1>13. TypeOK'
  BY <1>1, <1>8, <1>11 DEF IInv, TypeOK
<1>14. Kept(row', hidden', ses', release', shown')
  BY <1>7, <1>9, <1>10, <1>11, <1>12 DEF Kept
<1> QED BY <1>13, <1>14 DEF IInv

-----------------------------------------------------------------------------
(* The specification. *)

LEMMA InitHolds == Init => IInv
<1> SUFFICES ASSUME Init PROVE IInv
  OBVIOUS
<1>1. \A i \in Rows : row[i] = NoRow
  BY DEF Init, NoRows
<1>2. TypeOK
  BY IdleTyped DEF Init, TypeOK
<1>3. Kept(row, hidden, ses, release, shown)
  BY <1>1, NoRowTyped, IdleTyped DEF Init, Kept, KeysUnique, CopiedHidden, Lands
<1> QED BY <1>2, <1>3 DEF IInv

(* What a session does: it reads, or it commits, or it is over. *)
LEMMA NextHolds == IInv /\ [Next]_vars => IInv'
<1> SUFFICES ASSUME IInv, [Next]_vars PROVE IInv'
  OBVIOUS
<1>1. ASSUME NEW s \in Sessions, NEW o \in Orgs, NEW text \in Texts, NEW active \in BOOLEAN,
             \/ CreateClause(s, o, text, active) \/ CreateSpecSection(s, o, text, active)
             \/ SaveAsTemplate(s, o, text)
      PROVE  IInv'
  BY <1>1, CreationStep DEF CreateClause, CreateSpecSection, SaveAsTemplate
<1>2. ASSUME NEW s \in Sessions, NEW o \in Orgs, NEW i \in Rows,
             \/ \E text \in Texts : CopyClause(s, o, i, text)
             \/ \E text \in Texts, active \in BOOLEAN :
                  \/ EditClause(s, o, i, text, active)
                  \/ EditSpecSection(s, o, i, text, active)
                  \/ EditTemplate(s, o, i, text, active)
             \/ ToggleSuppression(s, o, i)
             \/ DeleteClause(s, o, i) \/ DeleteSpecSection(s, o, i) \/ DeleteTemplate(s, o, i)
      PROVE  IInv'
  BY <1>2, CopyClauseStep, EditStep, ToggleStep, DeleteStep
     DEF EditClause, EditSpecSection, EditTemplate, DeleteClause, DeleteSpecSection,
         DeleteTemplate
<1>3. ASSUME NEW s \in Sessions, \E r \in Releases, update \in BOOLEAN : SeedLibrary(s, r, update)
      PROVE  IInv'
  BY <1>3, SeedStep
<1>4. ASSUME NEW s \in Sessions,
             \/ CommitCreate(s) \/ CommitCopy(s) \/ CommitEdit(s) \/ CommitHide(s)
             \/ CommitRestore(s) \/ CommitDelete(s) \/ CommitSeed(s) \/ Rollback(s)
      PROVE  IInv'
  BY <1>4, CommitCreateStep, CommitCopyStep, CommitEditStep, CommitHideStep,
     CommitRestoreStep, CommitDeleteStep, CommitSeedStep, RollbackStep
<1>5. CASE UNCHANGED vars
  BY <1>5 DEF vars, IInv, TypeOK, Kept
<1> QED BY <1>1, <1>2, <1>3, <1>4, <1>5 DEF Next

LEMMA Inductive == Spec => []IInv
BY InitHolds, NextHolds, PTL DEF Spec

\* Every reachable state has its type: forms, commits and seedings write rows
\* (services/library.py, services/seeding.py, blueprints/library/routes.py).
THEOREM TypeCorrect == Spec => []TypeOK
<1>1. IInv => TypeOK
  BY DEF IInv
<1> QED BY <1>1, Inductive, PTL

\* After a seeding that no other release overlapped, what the release ships is
\* there once, as shipped and active, whatever editors do at the same time
\* (seed_library): they never reach a shipped row.
THEOREM ReleaseLands == Spec => []AsReleased
<1>1. IInv => AsReleased
  <2> SUFFICES ASSUME IInv, release # None, NEW k \in Keys, Shipped[release][k] # None
               PROVE  \E i \in Rows : /\ WithKey(row, k) = {i} /\ System(i) /\ row[i].active
                                      /\ row[i].text = Shipped[release][k]
    BY DEF AsReleased
  <2>1. PICK i \in Rows : row[i].key = k /\ row[i].active /\ row[i].text = Shipped[release][k]
    BY DEF IInv, Kept, Lands
  <2>2. Sorted(row[i]) /\ KeysUnique(row)
    BY DEF IInv, Kept
  <2>3. row[i].state = "live" /\ row[i].owner = None
    BY <2>1, <2>2, Nones DEF Sorted, IInv, TypeOK, Row
  <2>4. WithKey(row, k) = {i}
    BY <2>1, <2>2, <2>3, Nones DEF WithKey, KeysUnique
  <2> QED BY <2>1, <2>3, <2>4 DEF System
<1> QED BY <1>1, Inductive, PTL

\* An organization is never offered a clause of its own and the shipped one it was
\* copied from, unless it restored the latter (copy_clause, toggle_suppression).
THEOREM NoTwins == Spec => []TwinsHidden
<1>1. IInv => TwinsHidden
  BY DEF IInv, Kept, CopiedHidden, TwinsHidden, Available, Readable, Live
<1> QED BY <1>1, Inductive, PTL

(* What an organization is offered depends on the rows it can read. *)
LEMMA SameOffer ==
  ASSUME NEW o \in Orgs, hidden'[o] = hidden[o],
         \A i \in Rows : \/ row'[i] = row[i]
                         \/ i \notin Readable(o) /\ i \notin Readable(o)'
  PROVE  Offered(o)' = Offered(o)
<1>1. \A i \in Rows : (i \in Available(o)) = (i \in Available(o)')
  BY DEF Available, Readable, Live
<1>2. Available(o) \subseteq Rows /\ Available(o)' \subseteq Rows
  BY DEF Available, Readable, Live
<1>3. Available(o)' = Available(o)
  BY <1>1, <1>2
<1>4. \A i \in Available(o) : row'[i] = row[i]
  BY <1>2, <1>3 DEF Available
<1> QED BY <1>3, <1>4 DEF Offered

\* A request of one organization changes nothing in what another is offered,
\* for any reading it acts on ("Nobody else is affected", toggle_suppression,
\* copy_clause): it writes rows and suppressions of its own organization only.
THEOREM NobodyElse == Spec => OthersUnaffected
<1>1. IInv /\ [Next]_vars =>
        [\A s \in Sessions, o \in Orgs :
           ses[s].org \notin {o, None} /\ ses'[s] # ses[s] => Offered(o)' = Offered(o)]_vars
  <2> SUFFICES ASSUME IInv, Next, NEW s \in Sessions, NEW o \in Orgs,
                      ses[s].org \notin {o, None}, ses'[s] # ses[s]
               PROVE  Offered(o)' = Offered(o)
    OBVIOUS
  <2>1. /\ row \in [Rows -> Row] /\ hidden \in [Orgs -> SUBSET Rows]
        /\ ses \in [Sessions -> Session] /\ ses[s] \in Session /\ Asking(ses[s])
        /\ ses[s].org \in Orgs /\ ses[s].op \notin {"idle", "seed"}
    BY SessionTyped DEF IInv, TypeOK, Kept, Asking
  <2>2. ASSUME NEW t \in Sessions, NEW y, Submit(t, y) PROVE FALSE
    <3>1. ses' = [ses EXCEPT ![t] = y] /\ ses[t] = Idle
      BY <2>2 DEF Submit
    <3>2. t # s
      BY <2>1, <3>1, IdleTyped
    <3> QED BY <2>1, <3>1, <3>2
  <2>3. ASSUME NEW t \in Sessions, Finish(t) PROVE t = s
    BY <2>1, <2>3 DEF Finish
  <2>4. ASSUME NEW t \in Sessions, NEW p \in Orgs,
               \/ \E text \in Texts, active \in BOOLEAN :
                    CreateClause(t, p, text, active) \/ CreateSpecSection(t, p, text, active)
               \/ \E text \in Texts : SaveAsTemplate(t, p, text)
        PROVE  FALSE
    BY <2>2, <2>4 DEF CreateClause, CreateSpecSection, SaveAsTemplate
  <2>5. ASSUME NEW t \in Sessions, NEW p \in Orgs, NEW i \in Rows,
               \/ \E text \in Texts : CopyClause(t, p, i, text)
               \/ \E text \in Texts, active \in BOOLEAN :
                    \/ EditClause(t, p, i, text, active)
                    \/ EditSpecSection(t, p, i, text, active)
                    \/ EditTemplate(t, p, i, text, active)
               \/ ToggleSuppression(t, p, i)
               \/ DeleteClause(t, p, i) \/ DeleteSpecSection(t, p, i) \/ DeleteTemplate(t, p, i)
        PROVE  FALSE
    BY <2>2, <2>5 DEF CopyClause, EditClause, EditSpecSection, EditTemplate, Edit,
         ToggleSuppression, DeleteClause, DeleteSpecSection, DeleteTemplate, Delete
  <2>6. ASSUME NEW t \in Sessions,
               \E r \in Releases, update \in BOOLEAN : SeedLibrary(t, r, update)
        PROVE  FALSE
    BY <2>2, <2>6 DEF SeedLibrary
  <2>7. ASSUME NEW t \in Sessions, CommitCreate(t) PROVE Offered(o)' = Offered(o)
    <3>1. PICK c \in Fresh : row' = [row EXCEPT ![c] = ses[s].to]
      BY <2>3, <2>7 DEF CommitCreate
    <3>2. ses[s].to.owner = ses[s].org /\ hidden' = hidden
      BY <2>3, <2>7, NewRow DEF CommitCreate
    <3>3. \A i \in Rows : row'[i] = row[i] \/ (i \notin Readable(o) /\ i \notin Readable(o)')
      BY <2>1, <3>1, <3>2, FreshRow DEF Readable, Live
    <3> QED BY <3>2, <3>3, SameOffer
  <2>8. ASSUME NEW t \in Sessions, CommitCopy(t) PROVE Offered(o)' = Offered(o)
    <3>1. PICK c \in Fresh : row' = [row EXCEPT ![c] = ses[s].to]
      BY <2>3, <2>8 DEF CommitCopy
    <3>2. ses[s].to.owner = ses[s].org
      BY <2>3, <2>8, NewRow DEF CommitCopy
    <3>3. hidden'[o] = hidden[o]
      BY <2>1, <2>3, <2>8 DEF CommitCopy
    <3>4. \A i \in Rows : row'[i] = row[i] \/ (i \notin Readable(o) /\ i \notin Readable(o)')
      BY <2>1, <3>1, <3>2, FreshRow DEF Readable, Live
    <3> QED BY <3>3, <3>4, SameOffer
  <2>9. ASSUME NEW t \in Sessions, CommitEdit(t) PROVE Offered(o)' = Offered(o)
    <3> DEFINE x == ses[s]
               c == x.id
    <3>1. /\ x.op \in {"edit", "activate"} /\ hidden' = hidden
          /\ row' = [i \in Rows |-> IF i \in Changed(x) THEN Merged(x, i) ELSE row[i]]
      BY <2>3, <2>9 DEF CommitEdit
    <3>2. /\ Merged(x, c).state = row[c].state /\ Merged(x, c).owner = row[c].owner
          /\ row[c].state = "live" => row[c].owner = x.org
      BY <3>1, MergedTyped, OwnRow
    <3>3. \A i \in Rows : row'[i] = row[i] \/ (i = c /\ row'[i] = Merged(x, i))
      BY <3>1 DEF Changed
    <3> HIDE DEF c
    <3>4. \A i \in Rows : row'[i] = row[i] \/ (i \notin Readable(o) /\ i \notin Readable(o)')
      BY <2>1, <3>2, <3>3 DEF Readable, Live
    <3> QED BY <3>1, <3>4, SameOffer
  <2>10. ASSUME NEW t \in Sessions, CommitDelete(t) PROVE Offered(o)' = Offered(o)
    <3> DEFINE c == ses[s].id
    <3>1. row' = [row EXCEPT ![c] = Gone] /\ hidden' = hidden
      BY <2>3, <2>10 DEF CommitDelete
    <3>2. row[c].state = "live" => row[c].owner = ses[s].org
      BY <2>3, <2>10, OwnRow DEF CommitDelete
    <3> HIDE DEF c
    <3>3. \A i \in Rows : row'[i] = row[i] \/ (i \notin Readable(o) /\ i \notin Readable(o)')
      BY <2>1, <3>1, <3>2, GoneTyped DEF Readable, Live
    <3> QED BY <3>1, <3>3, SameOffer
  <2>11. ASSUME NEW t \in Sessions, CommitHide(t) \/ Rollback(t) PROVE Offered(o)' = Offered(o)
    <3>1. row' = row /\ hidden'[o] = hidden[o]
      BY <2>1, <2>3, <2>11 DEF CommitHide, Rollback
    <3> QED BY <3>1, SameOffer
  <2>12. ASSUME NEW t \in Sessions, CommitRestore(t) PROVE Offered(o)' = Offered(o)
    <3>1. /\ row' = row /\ hidden' = [hidden EXCEPT ![ses[t].org] = @ \ {ses[t].id}]
          /\ s = t \/ ses[s].org = ses[t].org
      BY <2>1, <2>12 DEF CommitRestore
    <3>2. hidden'[o] = hidden[o]
      BY <2>1, <3>1
    <3> QED BY <3>1, <3>2, SameOffer
  <2>13. ASSUME NEW t \in Sessions, CommitSeed(t) PROVE FALSE
    <3>1. ses'[s] = IF s = t THEN Idle
                    ELSE IF ses[s].op = "seed" /\ ses[s].of # ses[t].of
                         THEN [ses[s] EXCEPT !.over = TRUE] ELSE ses[s]
      BY <2>13 DEF CommitSeed
    <3> QED BY <2>1, <2>13, <3>1 DEF CommitSeed
  <2> QED BY <2>4, <2>5, <2>6, <2>7, <2>8, <2>9, <2>10, <2>11, <2>12, <2>13 DEF Next
<1> QED BY <1>1, Inductive, PTL DEF Spec, OthersUnaffected
=============================================================================
