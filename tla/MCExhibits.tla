------------------------------- MODULE MCExhibits ------------------------------
(* Scope documents on small instances.  Organization A has two projects, B one;
   firestopping is carried by sprinklers too; A's form names what is B's. *)
EXTENDS Exhibits, TLC

CONSTANTS A, B, d1, d2, t1, shown, office, other, package, foreign,
          fire, pipes, closeout, ofA, ofB

MCProjectOrg == shown :> A @@ office :> A @@ other :> B
MCPackageOrg == package :> A @@ foreign :> B
MCPackageProject == package :> shown @@ foreign :> other

MCDivs == {"01", "07", "21"}
MCProcedural == {"01"}
MCCodes == {"017700", "078413", "211313"}
MCDivisionOf == "017700" :> "01" @@ "078413" :> "07" @@ "211313" :> "21"

MCClauseOrder == <<"notFirestopping", "allowance", "secret">>
MCClauseOwner == "notFirestopping" :> Null @@ "allowance" :> A @@ "secret" :> B
MCClauseSection ==
  "notFirestopping" :> "exclusions" @@ "allowance" :> "allowances" @@ "secret" :> "exclusions"
MCClauseDiv == "notFirestopping" :> "21" @@ "allowance" :> Null @@ "secret" :> Null
MCClauseDefault == "notFirestopping" :> TRUE @@ "allowance" :> FALSE @@ "secret" :> TRUE
MCHidden == {}

Section(code, div, related, universal, default) ==
  [code |-> code, div |-> div, related |-> related, universal |-> universal,
   default |-> default, active |-> TRUE]

MCSpecOrder == <<fire, pipes, closeout, ofA, ofB>>
MCSpecOwner == fire :> Null @@ pipes :> Null @@ closeout :> Null @@ ofA :> A @@ ofB :> B
MCShippedRows ==
  fire :> Section("078413", "07", {"21"}, FALSE, TRUE) @@
  pipes :> Section("211313", "21", {}, FALSE, TRUE) @@
  closeout :> Section("017700", "01", {}, TRUE, TRUE) @@ ofA :> Null @@ ofB :> Null
MCNewRows == {Section("211313", "21", {}, FALSE, FALSE), Section("078413", "07", {}, FALSE, TRUE)}

MCAlphabet == <<"a", "b">>
MCKeyOrder == <<"summary", "exclusions", "allowances">>
MCOffByDefault == {"allowances"}
MCProse == {"exclusions"}
MCTyped == {"by the Division 07 Subcontractor"}
MCMentions ==
  [text \in {"clause", "lead", "means", "sections", "spec", "typed"} \X
            (MCDivs \union {Null} \union MCCodes \union MCTyped
              \union {"notFirestopping", "allowance", "secret"}) |->
     IF text[2] \in {"notFirestopping", "by the Division 07 Subcontractor"} THEN {"07"} ELSE {}]

DraftOf(project, div, clauses, specs) ==
  [project |-> project, package |-> package, div |-> div, clauses |-> clauses, specs |-> specs,
   sections |-> Null, template |-> Null, scheme |-> "legal"]

MCDrafts ==
  {DraftOf(shown, "21", <<>>, <<>>),
   DraftOf(shown, "07", <<"allowance">>, <<fire>>),
   [DraftOf(other, "07", <<"secret">>, <<ofB, pipes>>) EXCEPT !.sections = {"exclusions"}],
   [DraftOf(shown, "21", <<>>, <<>>) EXCEPT !.template = t1, !.package = foreign,
                                          !.scheme = "outline"]}

Look(project, div, kind) ==
  [project |-> project, package |-> Null, div |-> div, scheme |-> "legal",
   styles |-> <<[kind |-> kind, paren |-> FALSE]>>]

MCSelections == {<<"notFirestopping", "allowance", "secret">>, <<"allowance">>}

(* Entries as pairs of the line and the place that it goes below.  Two lines change
   places or one goes below the other; the list of specification sections moves to
   the front with one line below it or in another order, or its lines go below each
   other; payloads go through the page or level by level. *)
Ordered(pairs) == [n \in DOMAIN pairs |-> [line |-> pairs[n][1], below |-> pairs[n][2]]]

MCOrders ==
  {Ordered(pairs) : pairs \in
     {<<<<2, 0>>, <<1, 0>>>>,
      <<<<1, 0>>, <<2, 1>>>>,
      <<<<2, 0>>, <<1, 1>>>>,
      <<<<3, 0>>, <<1, 0>>, <<4, 1>>, <<2, 1>>>>,
      <<<<2, 0>>, <<3, 0>>, <<1, 0>>, <<5, 2>>, <<4, 2>>>>,
      <<<<1, 0>>, <<3, 0>>, <<6, 2>>, <<4, 2>>, <<5, 4>>, <<2, 0>>>>,
      <<<<2, 0>>, <<3, 0>>, <<1, 0>>, <<6, 2>>, <<4, 2>>, <<5, 2>>>>,
      <<<<3, 0>>, <<7, 0>>, <<1, 0>>, <<2, 0>>, <<6, 1>>, <<4, 5>>, <<5, 1>>>>}}

MCForms == {Look(office, "07", "alpha")}

(* The documents are numbered as they appear and the first one is edited; B
   writes those of its project.  Lines are typed into a section, below the list of
   specification sections and below added lines. *)
Bounded ==
  /\ doc[d2] # Null => doc[d1] # Null
  /\ \A d \in Docs : doc[d] # Null /\ doc[d].org = B => doc[d].project = other

FirstEdited ==
  /\ doc[d2] # Null => doc'[d2] = doc[d2]
  /\ doc[d1] # Null => \A key \in Keys :
       Len(doc'[d1].lines[key]) > Len(doc[d1].lines[key]) =>
         LET p == Last(doc'[d1].lines[key]).parent
         IN p = 0 \/ doc[d1].lines[key][p].role \in {"spec_list", "custom"}
=============================================================================
