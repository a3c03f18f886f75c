-------------------------------- MODULE Exhibits -------------------------------
(***************************************************************************)
(* Scope documents from their generation to the page and to the coverage   *)
(* report: the builder (services/scope_builder.py), the outline numbers    *)
(* (services/numbering.py, services/renderers/html.py), the project report *)
(* (services/coverage.py), and the routes that call them.                  *)
(*                                                                         *)
(* The clause library and the projects are fixed here, the catalogue of    *)
(* specification sections changes.  Of the thirteen sections of an exhibit *)
(* the itemized ones of KeyOrder stand for all; a trade is named after its *)
(* division.  Each request is one step: Library, ItemTree and              *)
(* ScopeLifecycle are about those that overlap.  A locked scope is an      *)
(* archived one.                                                           *)
(***************************************************************************)
EXTENDS Naturals, Sequences, FiniteSets, Outline, Numbering, Coverage

CONSTANTS
  Orgs, Docs, Templates,
  ProjectOrg, PackageOrg,          (* owners, by project and bid package   *)
  PackageProject,
  ClauseOrder,                     (* clauses in the order of the library  *)
  ClauseOwner, ClauseSection, ClauseDiv, ClauseDefault,
  Hidden,                          (* <<organization, clause>>             *)
  SpecOrder,                       (* specification rows in that order     *)
  ShippedRows,                     (* the catalogue at the start           *)
  NewRows,                         (* what organizations may make of theirs*)
  KeyOrder,                        (* keys of the sections, in print order *)
  OffByDefault, Prose,             (* keys of those off, with a lead       *)
  Drafts, Forms, Typed,            (* what authors ask for and type,       *)
  Selections, Orders,              (* the clauses they add, the sections
                                      they put in order                    *)
  MaxEdits                         (* bound: requests after the generation *)

VARIABLES
  doc,       (* tables scopes, scope_sections and scope_items              *)
  template,  (* table scope_templates                                      *)
  row,       (* table spec_sections                                        *)
  edits,     (* bound                                                      *)
  standard   (* history: the scopes generated from the defaults, whose
                specification lines, summary and division are untouched and
                whose organization has not changed its catalogue since     *)

exhibitVars == <<doc, template, row, edits, standard>>

Projects == DOMAIN ProjectOrg
Packages == DOMAIN PackageOrg
LibraryClauses == {ClauseOrder[n] : n \in DOMAIN ClauseOrder}
Keys == {KeyOrder[n] : n \in DOMAIN KeyOrder}

Text ==
  ({"lead", "means", "sections"} \X (Divs \union {Null})) \union ({"clause"} \X LibraryClauses)
    \union ({"spec"} \X Codes) \union ({"typed"} \X Typed)

\* Positions are in tens; `source` is the library row the line was made from.
LineRecord ==
  [parent : Nat, pos : Nat, text : Text,
   role : {"summary_lead", "summary_means_and_methods", "spec_list", "spec_section", "clause",
           "template", "custom"},
   code : Codes \union {Null}, source : LibraryClauses \union Specs \union {Null}]

Line(parent, pos, text, role) ==
  [parent |-> parent, pos |-> pos, text |-> text, role |-> role, code |-> Null, source |-> Null]

\* A forest: its places are numbered so that parents come before their children, as
\* they do when lines are inserted and as ReorderItems() numbers them again.
ParentsFirst(lines) == \A n \in DOMAIN lines : lines[n].parent < n

Lines == {lines \in Seq(LineRecord) : ParentsFirst(lines)}

Scheme == {"legal", "outline"}

Document ==
  [org : Orgs, project : Projects \union {Null}, package : Packages \union {Null},
   div : Divs \union {Null}, scheme : Scheme, styles : Seq(Style), archived : BOOLEAN,
   like : Docs \union {Null}, on : [Keys -> BOOLEAN], lines : [Keys -> Lines]]

Draft ==
  [project : Projects \union {Null}, package : Packages \union {Null}, div : Divs \union {Null},
   clauses : Seq(LibraryClauses), specs : Seq(Specs), sections : (SUBSET Keys) \union {Null},
   template : Templates \union {Null}, scheme : Scheme]

Form ==
  [project : Projects \union {Null}, package : Packages \union {Null}, div : Divs \union {Null},
   scheme : Scheme, styles : Seq(Style)]

\* An entry of a reordered section: the line that goes here, and the place of the
\* entry that it goes below, or 0.
OrderEntry == [line : Nat \ {0}, below : Nat]

ASSUME ExhibitsAssumption ==
  /\ ProjectOrg \in [Projects -> Orgs] /\ PackageOrg \in [Packages -> Orgs]
  /\ ClauseOrder \in Seq(LibraryClauses) /\ SpecOrder \in Seq(Specs) /\ KeyOrder \in Seq(Keys)
  /\ Specs \subseteq {SpecOrder[n] : n \in DOMAIN SpecOrder}
  /\ {"summary", "exclusions"} \subseteq Keys
  /\ ShippedRows \in [Specs -> SpecRow \union {Null}] /\ NewRows \subseteq SpecRow
  /\ Drafts \subseteq Draft /\ Forms \subseteq Form
  /\ Selections \subseteq Seq(LibraryClauses) /\ Orders \subseteq Seq(OrderEntry)
  /\ Specs \intersect LibraryClauses = {}
  /\ Null \notin Document \union SpecRow \union Specs \union LibraryClauses \union Codes
                 \union Projects \union Packages \union Docs

-----------------------------------------------------------------------------
(* The page. *)

\* Enabled sections with content are numbered in a row.
SectionNumber(d, key) ==
  LET at == CHOOSE n \in DOMAIN KeyOrder : KeyOrder[n] = key
  IN Cardinality({n \in 1..at : /\ d.on[KeyOrder[n]]
                                /\ KeyOrder[n] \in Prose \/ d.lines[KeyOrder[n]] # <<>>})

\* A section is numbered on its own.
Labels(d, key) ==
  LET counters == Counters(d.lines[key])
  IN [n \in DOMAIN counters |-> Label(d.scheme, d.styles, counters[n])]

\* The numbered lines of a section that every renderer prints.
Page(d, key) ==
  LET counters == Counters(d.lines[key])
      labels == Labels(d, key)
      number == SectionNumber(d, key)
  IN {[section |-> number, counters |-> counters[n], label |-> labels[n],
       text |-> d.lines[key][n].text] : n \in DOMAIN d.lines[key]}

Printed(d) == UNION {Page(d, key) : key \in {k \in Keys : d.on[k]}}

-----------------------------------------------------------------------------
(* What the library offers. *)

Visible(o, c) == ClauseOwner[c] \in {o, Null} /\ <<o, c>> \notin Hidden

\* Clauses of the form that the organization may use.
GetClauses(o, ids) == Picked(ids, {c \in LibraryClauses : Visible(o, c)})

\* Mutant: ids are trusted.
GetSpecSectionsAny(o, ids) == Picked(ids, {s \in Specs : row[s] # Null})

\* Sections of the organization's library.
Seen(o) == {s \in Specs : row[s] # Null /\ SpecOwner[s] \in {o, Null}}

GetSpecSections(o, ids) == Picked(ids, Seen(o))

DefaultClauses(o, div) ==
  Picked(ClauseOrder, {c \in LibraryClauses : /\ Visible(o, c) /\ ClauseDefault[c]
                                              /\ ClauseDiv[c] \in {div, Null}})

\* Mutant: only the sections that live in the division.
DefaultsHome(o, div) ==
  {s \in Seen(o) : row[s].active /\ row[s].default /\ (row[s].universal \/ row[s].div = div)}

Defaults(o, div) ==
  {s \in Seen(o) : row[s].active /\ row[s].default /\ AppliesTo(row[s], div)}

\* The division's own sections first, then the universal ones, then the others.
DefaultSpecs(o, div) ==
  LET own == {s \in Defaults(o, div) : row[s].div = div}
      universal == {s \in Defaults(o, div) \ own : row[s].universal}
      others == Defaults(o, div) \ (own \union universal)
  IN Picked(SpecOrder, own) \o Picked(SpecOrder, universal) \o Picked(SpecOrder, others)

-----------------------------------------------------------------------------
(* The builder. *)

ClauseLines(clauses, first) ==
  [n \in DOMAIN clauses |->
     [Line(0, first + n - 1, <<"clause", clauses[n]>>, "clause") EXCEPT !.source = clauses[n]]]

SpecLines(specs) ==
  [n \in DOMAIN specs |->
     [Line(3, n - 1, <<"spec", row[specs[n]].code>>, "spec_section")
        EXCEPT !.code = row[specs[n]].code, !.source = specs[n]]]

\* Two standard items, the list of specification sections, further clauses.
SummaryLines(div, specs, clauses) ==
  LET lead == <<Line(0, 0, <<"lead", div>>, "summary_lead"),
                Line(0, 1, <<"means", div>>, "summary_means_and_methods")>>
      list == <<Line(0, 2, <<"sections", div>>, "spec_list")>>
  IN IF specs = <<>> THEN lead \o ClauseLines(clauses, 2)
     ELSE lead \o list \o SpecLines(specs) \o ClauseLines(clauses, 3)

\* Saved language keeps its wording and its positions and nothing else.
LiteralLines(lines) ==
  [n \in DOMAIN lines |-> Line(lines[n].parent, lines[n].pos, lines[n].text, "template")]

NoTemplate ==
  [org |-> Null, div |-> Null, on |-> Null, lines |-> [key \in Keys |-> <<>>], source |-> Null]

LoadTemplate(o, t) ==
  IF t # Null /\ template[t] # Null /\ template[t].org = o THEN template[t] ELSE NoTemplate

Own(o, id, owner) == IF id # Null /\ owner[id] = o THEN id ELSE Null

\* The document of a draft, for the clauses and sections that were chosen.
Built(o, draft, clauseIds, specIds) ==
  LET clauses == GetClauses(o, clauseIds)
      specs == GetSpecSections(o, specIds)
      t == LoadTemplate(o, draft.template)
      For(key) == Picked(clauses, {c \in LibraryClauses : ClauseSection[c] = key})
      Generated(key) == IF key = "summary" THEN SummaryLines(draft.div, specs, For(key))
                        ELSE ClauseLines(For(key), 0)
  IN [org |-> o,
      project |-> Own(o, draft.project, ProjectOrg),
      package |-> Own(o, draft.package, PackageOrg),
      div |-> draft.div, scheme |-> draft.scheme, styles |-> <<>>, archived |-> FALSE,
      like |-> Null,
      on |-> [key \in Keys |->
                \/ IF draft.sections # Null THEN key \in draft.sections
                   ELSE IF t.on # Null THEN t.on[key] ELSE key \notin OffByDefault
                \/ For(key) # <<>>],
      lines |-> [key \in Keys |-> Append2(Generated(key), LiteralLines(t.lines[key]))]]

-----------------------------------------------------------------------------
(* The coverage report. *)

\* The scopes that count for a project's report.
ProjectDocs(p) == {d \in Docs : doc[d] # Null /\ doc[d].project = p /\ ~doc[d].archived}

AnalyseProject(p) ==
  Report(ProjectDocs(p), doc, row, {k \in Packages : PackageProject[k] = p})

-----------------------------------------------------------------------------
(* Requests. *)

ExhibitInit ==
  /\ doc = [d \in Docs |-> Null]
  /\ template = [t \in Templates |-> Null]
  /\ row = ShippedRows
  /\ edits = 0
  /\ standard = {}

Edited == edits < MaxEdits /\ edits' = edits + 1

\* POST /api/v1/scopes: what is not chosen, or all on request, is the default.
CreateScope(o, d) ==
  /\ doc[d] = Null
  /\ \E draft \in Drafts, useDefaults \in BOOLEAN :
       LET clauses == IF useDefaults \/ draft.clauses = <<>> THEN DefaultClauses(o, draft.div)
                      ELSE draft.clauses
           specs == IF useDefaults \/ draft.specs = <<>> THEN DefaultSpecs(o, draft.div)
                    ELSE draft.specs
       IN /\ doc' = [doc EXCEPT ![d] = Built(o, draft, clauses, specs)]
          /\ standard' = IF useDefaults /\ doc'[d].on["summary"] THEN standard \union {d}
                         ELSE standard
  /\ UNCHANGED <<template, row, edits>>

\* The wizard posts what the author left selected, as the page showed it.
SelectClauses(o, d) ==
  /\ doc[d] = Null
  /\ \E draft \in Drafts :
       doc' = [doc EXCEPT ![d] = Built(o, draft, draft.clauses, draft.specs)]
  /\ UNCHANGED <<template, row, edits, standard>>

Unlocked(d) == doc[d] # Null /\ ~doc[d].archived

NextAfter(taken) == IF taken = {} THEN 0 ELSE 1 + CHOOSE p \in taken : \A q \in taken : q <= p

\* After the last of the siblings.
NextPos(lines, parent) ==
  NextAfter({lines[n].pos : n \in {m \in DOMAIN lines : lines[m].parent = parent}})

AddItem(d) ==
  /\ Edited /\ Unlocked(d)
  /\ \E key \in Keys, w \in Typed : \E parent \in {0} \union DOMAIN doc[d].lines[key] :
       doc' = [doc EXCEPT ![d].lines[key] =
                 Append(@, Line(parent, NextPos(@, parent), <<"typed", w>>, "custom"))]
  /\ UNCHANGED <<template, row, standard>>

\* Clauses that the section has lines of are left out; the others go after all its
\* lines, however deep the last of them is.
MoreClauses(d, key, ids) ==
  LET lines == doc[d].lines[key]
      there == {lines[n].source : n \in DOMAIN lines}
  IN ClauseLines(Picked(GetClauses(doc[d].org, ids), LibraryClauses \ there),
                 NextAfter({lines[n].pos : n \in DOMAIN lines}))

AddClauses(d) ==
  /\ Edited /\ Unlocked(d)
  /\ \E key \in Keys, ids \in Selections :
       doc' = [doc EXCEPT ![d].lines[key] = Append2(@, MoreClauses(d, key, ids))]
  /\ UNCHANGED <<template, row, standard>>

\* The payload has each line of the section once, below an entry before its own.
WholeSection(lines, order) ==
  /\ Len(order) = Len(lines) /\ {order[n].line : n \in DOMAIN order} = DOMAIN lines
  /\ \A n \in DOMAIN order : order[n].below < n

\* The lines below one parent are counted as they come.
Reordered(lines, order) ==
  [n \in DOMAIN order |->
     [lines[order[n].line] EXCEPT
        !.parent = order[n].below,
        !.pos = Cardinality({m \in 1..(n - 1) : order[m].below = order[n].below})]]

\* The editor page sends whole sections; payloads that name a part of one, or a
\* circle, are ItemTree's.  No two positions are equal afterwards, so that it does
\* not matter which order the places of the lines are in, but for parents first.
ReorderItems(d) ==
  /\ Edited /\ Unlocked(d)
  /\ \E key \in Keys, order \in Orders :
       /\ WholeSection(doc[d].lines[key], order)
       /\ doc' = [doc EXCEPT ![d].lines[key] = Reordered(@, order)]
  /\ UNCHANGED <<template, row, standard>>

\* What the line is about stays with it.
WithText(line, w) == [line EXCEPT !.text = <<"typed", w>>]

UpdateItem(d) ==
  /\ Edited /\ Unlocked(d)
  /\ \E key \in Keys, w \in Typed : \E n \in DOMAIN doc[d].lines[key] :
       doc' = [doc EXCEPT ![d].lines[key][n] = WithText(@, w)]
  /\ UNCHANGED <<template, row, standard>>

\* The lines below it go with it.
DeleteItem(d) ==
  /\ Edited /\ Unlocked(d)
  /\ \E key \in Keys : \E n \in DOMAIN doc[d].lines[key] :
       doc' = [doc EXCEPT ![d].lines[key] = Without(@, n)]
  /\ standard' = standard \ {d}
  /\ UNCHANGED <<template, row>>

ToggleSection(d) ==
  /\ Edited /\ Unlocked(d)
  /\ \E key \in Keys :
       /\ doc' = [doc EXCEPT ![d].on[key] = ~@]
       /\ standard' = IF key = "summary" THEN standard \ {d} ELSE standard
  /\ UNCHANGED <<template, row>>

\* The form offers the organization's own projects and bid packages.
Settings(d) ==
  /\ Edited /\ Unlocked(d)
  /\ \E form \in Forms :
       /\ form.project # Null => ProjectOrg[form.project] = doc[d].org
       /\ form.package # Null => PackageOrg[form.package] = doc[d].org
       /\ doc' = [doc EXCEPT ![d] =
                    [@ EXCEPT !.project = form.project, !.package = form.package, !.div = form.div,
                              !.scheme = form.scheme, !.styles = form.styles]]
       /\ standard' = IF form.div = doc[d].div THEN standard ELSE standard \ {d}
  /\ UNCHANGED <<template, row>>

Archive(d) ==
  /\ Edited /\ doc[d] # Null
  /\ doc' = [doc EXCEPT ![d].archived = TRUE]
  /\ UNCHANGED <<template, row, standard>>

CopySections(lines) == [key \in Keys |-> CopyItems(lines[key])]

\* `like` is a history: the scope it is a duplicate of.
DuplicateScope(s, d) ==
  /\ doc[s] # Null /\ doc[d] = Null
  /\ doc' = [doc EXCEPT ![d] =
               [doc[s] EXCEPT !.archived = FALSE, !.like = s, !.lines = CopySections(doc[s].lines)]]
  /\ UNCHANGED <<template, row, edits, standard>>

\* `source` is a history: the scope as it printed.
SaveAsTemplate(d, t) ==
  /\ Edited /\ doc[d] # Null /\ template[t] = Null
  /\ template' = [template EXCEPT ![t] =
                    [org |-> doc[d].org, div |-> doc[d].div, on |-> doc[d].on,
                     lines |-> CopySections(doc[d].lines), source |-> Printed(doc[d])]]
  /\ UNCHANGED <<doc, row, standard>>

\* An organization inserts, edits or deletes a section of its own.
ChangeCatalogue(s) ==
  /\ Edited /\ SpecOwner[s] # Null
  /\ \E r \in NewRows \union {Null} : r # row[s] /\ row' = [row EXCEPT ![s] = r]
  /\ standard' = {d \in standard : doc[d].org # SpecOwner[s]}
  /\ UNCHANGED <<doc, template>>

ExhibitNext ==
  \/ \E o \in Orgs, d \in Docs : CreateScope(o, d) \/ SelectClauses(o, d)
  \/ \E d \in Docs : \/ AddItem(d) \/ AddClauses(d) \/ ReorderItems(d) \/ UpdateItem(d)
                     \/ DeleteItem(d) \/ ToggleSection(d) \/ Settings(d) \/ Archive(d)
  \/ \E s, d \in Docs : DuplicateScope(s, d)
  \/ \E d \in Docs, t \in Templates : SaveAsTemplate(d, t)
  \/ \E s \in Specs : ChangeCatalogue(s)

ExhibitSpec == ExhibitInit /\ [][ExhibitNext]_exhibitVars

-----------------------------------------------------------------------------
(* Properties. *)

\* Documents and templates keep their shape.  In every section, generated, edited,
\* copied, cut or made from a template, a line hangs below one that was inserted
\* before it: the lines are a forest (add_item, _copy_items, _build_sections).
ExhibitTypeOK ==
  /\ doc \in [Docs -> Document \union {Null}]
  /\ \A t \in Templates : template[t] # Null =>
       template[t].on \in [Keys -> BOOLEAN] /\ template[t].lines \in [Keys -> Lines]
  /\ row \in [Specs -> SpecRow \union {Null}]
  /\ standard \subseteq {d \in Docs : doc[d] # Null}

\* Whatever ids a request names, a scope is about its organization's own project
\* and bid package, and its lines were made from clauses and sections that are
\* shipped or the organization's own (build_scope, get_clauses, get_spec_sections).
ContentIsOwn ==
  \A d \in Docs : doc[d] # Null =>
    /\ doc[d].project # Null => ProjectOrg[doc[d].project] = doc[d].org
    /\ doc[d].package # Null => PackageOrg[doc[d].package] = doc[d].org
    /\ \A key \in Keys : \A n \in DOMAIN doc[d].lines[key] :
         LET source == doc[d].lines[key][n].source
         IN source # Null =>
              (IF source \in Specs THEN SpecOwner[source] ELSE ClauseOwner[source])
                \in {Null, doc[d].org}

\* Scopes generated from the defaults do not accuse themselves, whatever is
\* retyped or archived later: a project with no others has no gap, and no overlap
\* when each has its own division and each section one row, save where the row of
\* another organization decides (default_spec_section_ids, analyse_project).
DefaultsReportClean ==
  \A p \in Projects :
    LET docs == ProjectDocs(p)
        seen == Seen(ProjectOrg[p])
    IN docs \subseteq standard =>
         \A c \in Codes : Known(row, c) \subseteq seen \union {Null} =>
           /\ "gap" \notin AnalyseProject(p).sections[c]
           /\ \/ "overlap" \notin AnalyseProject(p).sections[c]
              \/ \E d, e \in docs : d # e /\ doc[d].div = doc[e].div
              \/ \E r, s \in seen : r # s /\ row[r].code = c /\ row[s].code = c

\* In a section under the legal scheme no two lines carry the same label, in any
\* choice of styles (Numberer.label, Numberer.walk).
LabelsPointAtOne ==
  \A d \in Docs : doc[d] # Null /\ doc[d].scheme = "legal" =>
    \A key \in Keys :
      LET labels == Labels(doc[d], key)
      IN \A n, m \in DOMAIN labels : n # m => labels[n] # labels[m]

\* A duplicate prints as its original does and claims the same sections, unless
\* the order of the original is not determined (duplicate_scope, _copy_items).
CopyReadsAlike ==
  [][\A s, d \in Docs :
       /\ doc[d] = Null /\ doc'[d] # Null /\ doc'[d].like = s
       /\ \A key \in Keys : ~HasTies(doc[s].lines[key])
       =>
         /\ Printed(doc[d])' = Printed(doc[s])
         /\ ClaimedCodes(doc[d])' = ClaimedCodes(doc[s])]_exhibitVars

\* What happens to scopes that are neither before nor after among those of a
\* project that count leaves its report alone (analyse_project).
OthersDocumentsDoNotCount ==
  [][\A p \in Projects :
       row' = row /\ (\A d \in Docs : doc'[d] # doc[d] => d \notin ProjectDocs(p) \union ProjectDocs(p)')
         => AnalyseProject(p)' = AnalyseProject(p)]_exhibitVars

\* models/organization.py: "if a query does not filter on organization_id it is a
\* bug".  No organization's report depends on the catalogue of another.
TenantBoundary ==
  [][\A p \in Projects :
       doc' = doc /\ (\A s \in Specs : row'[s] # row[s] => SpecOwner[s] # ProjectOrg[p])
         => AnalyseProject(p)' = AnalyseProject(p)]_exhibitVars

\* models/template.py: a template is there "so a company's standard Division 26
\* exhibit can be produced identically every time".
TemplateReproduces ==
  [][\A d \in Docs, t \in Templates : \A draft \in Drafts :
       /\ doc[d] = Null /\ template[t] # Null
       /\ draft.template = t /\ draft.div = template[t].div /\ draft.sections = Null
       /\ draft.clauses = <<>> /\ draft.specs = <<>>
       /\ doc' = [doc EXCEPT ![d] = Built(template[t].org, draft, <<>>, <<>>)]
       => Printed(doc[d])' = template[t].source]_exhibitVars
=============================================================================
