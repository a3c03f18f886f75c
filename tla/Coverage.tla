-------------------------------- MODULE Coverage -------------------------------
(***************************************************************************)
(* The coverage report of a project (services/coverage.py): which          *)
(* specification sections are claimed by none of its scopes, by one, or by *)
(* several, and which exclusions hand work to a division without a scope.  *)
(*                                                                         *)
(* `docs` is the set of names of the project's scopes that count, `doc`    *)
(* the table they are looked up in, `row` the catalogue.                   *)
(***************************************************************************)
EXTENDS Naturals, Sequences, FiniteSets

CONSTANTS
  Divs,         (* divisions                                               *)
  Procedural,   (* those whose sections every trade carries: 00 and 01     *)
  Codes,        (* specification section numbers                           *)
  DivisionOf,   (* the division a number begins with                       *)
  Specs,        (* rows of the catalogue of specification sections         *)
  SpecOwner,    (* their organizations, or Null for the shipped ones       *)
  Mentions,     (* the divisions that a text names                         *)
  Null

SpecRow ==
  [code : Codes, div : Divs, related : SUBSET Divs, universal : BOOLEAN, default : BOOLEAN,
   active : BOOLEAN]

AppliesTo(r, div) ==
  r.universal \/ (div # Null /\ div \in {r.div} \union r.related)

\* Lines by section and place.
Shown(d) == UNION {{key} \X DOMAIN d.lines[key] : key \in {k \in DOMAIN d.lines : d.on[k]}}

\* A line that names no section of the library claims none.
ClaimedCodes(d) ==
  {d.lines[at[1]][at[2]].code : at \in Shown(d)} \ {Null}

ClaimedBy(docs, doc, c) == {d \in docs : c \in ClaimedCodes(doc[d])}

DivisionsPresent(docs, doc) == {doc[d].div : d \in docs} \ {Null}

\* The rows that may stand for a number: an organization's before a shipped one,
\* whichever of several the database returns first.
Known(row, c) ==
  LET rows == {s \in Specs : row[s] # Null /\ row[s].active /\ row[s].code = c}
      own == {s \in rows : SpecOwner[s] # Null}
  IN IF own # {} THEN own ELSE IF rows # {} THEN rows ELSE {Null}

Expected(docs, doc, r) ==
  r # Null /\ r.default /\ \E div \in DivisionsPresent(docs, doc) : AppliesTo(r, div)

Status(docs, doc, c, r) ==
  LET by == ClaimedBy(docs, doc, c)
      procedural == IF r = Null THEN DivisionOf[c] \in Procedural
                    ELSE r.universal \/ r.div \in Procedural
  IN CASE by = {} /\ Expected(docs, doc, r)  -> "gap"
       [] by = {} /\ ~Expected(docs, doc, r) -> "unlisted"
       [] by # {} /\ (Cardinality(by) = 1 \/ procedural) -> "covered"
       [] OTHER -> IF r # Null /\ r.related # {} THEN "shared" ELSE "overlap"

\* What the report may say of a number.
Statuses(docs, doc, row, c) ==
  {Status(docs, doc, c, IF s = Null THEN Null ELSE row[s]) : s \in Known(row, c)}

\* Exclusions that assign work to a division without a scope, once per scope.
Redirects(docs, doc) ==
  LET absent == Divs \ DivisionsPresent(docs, doc)
      Named(d) == IF doc[d].on["exclusions"]
                  THEN UNION {Mentions[doc[d].lines["exclusions"][n].text] :
                                n \in DOMAIN doc[d].lines["exclusions"]}
                  ELSE {}
  IN UNION {{d} \X (Named(d) \intersect absent) : d \in docs}

\* Mutant: a scope of any project serves a bid package.
ReportElsewhere(docs, doc, row, packages) ==
  [sections  |-> [c \in Codes |-> Statuses(docs, doc, row, c)],
   redirects |-> Redirects(docs, doc),
   packages  |-> packages \ {doc[d].package : d \in {e \in DOMAIN doc : doc[e] # Null}}]

\* What the report says of a project with these scopes and bid packages.
Report(docs, doc, row, packages) ==
  [sections  |-> [c \in Codes |-> Statuses(docs, doc, row, c)],
   redirects |-> Redirects(docs, doc),
   packages  |-> packages \ {doc[d].package : d \in docs}]
=============================================================================
