------------------------------ MODULE PlanText ------------------------------
(***************************************************************************)
(* What the adapter makes of a plan the model wrote as text                *)
(* (thread/features/plan/parse.rs).  A text is a sequence of lines, and a  *)
(* line is the class the parser's predicates put it in:                    *)
(*                                                                         *)
(*   entries, with their status:   box, bullet, number                     *)
(*   headings:                     steps ("## Steps"), plan, heading       *)
(*   plain lines:                  stepsLine ("Steps:"), intro, options,   *)
(*                                 prose                                   *)
(*   planBullet: an entry whose words name the plan, as an intro does      *)
(***************************************************************************)
EXTENDS Naturals, Sequences, SequencesExt

Line(k) == [k |-> k, status |-> "pending"]
Box(status) == [k |-> "box", status |-> status]

Headings == {"steps", "plan", "heading"}

\* parse_plan_entry_from_line
EntryKinds == {"box", "bullet", "planBullet", "number"}

\* line_looks_like_steps_section_title
SectionTitles == {"steps", "stepsLine"}

\* heading_looks_like_plan and line_looks_like_plan_intro: the words of the
\* plan, in a heading or in a line that ends in a colon or a full stop.
NamesPlan == {"steps", "plan"}
Intros == {"stepsLine", "intro", "planBullet"}

Has(text, kinds) == \E n \in DOMAIN text : text[n].k \in kinds

(* The entries of the first section that is titled as the steps: they end  *)
(* at the next heading or, once there is one, at the first other line.     *)
StepsSection(text) ==
  IF ~Has(text, SectionTitles) THEN << >>
  ELSE LET from == CHOOSE n \in DOMAIN text :
                     /\ text[n].k \in SectionTitles
                     /\ \A m \in 1 .. n - 1 : text[m].k \notin SectionTitles
           Ends(n) ==
             \/ text[n].k \in Headings \ SectionTitles
             \/ /\ text[n].k \notin EntryKinds \cup SectionTitles
                /\ \E m \in from .. n - 1 : text[m].k \in EntryKinds
           to == CHOOSE n \in from .. Len(text) :
                   /\ \A m \in from + 1 .. n : ~Ends(m)
                   /\ n = Len(text) \/ Ends(n + 1)
       IN SelectSeq(SubSeq(text, from, to), LAMBDA l : l.k \in EntryKinds)

(* Every entry of the text.  The words of a plan make a line an intro,     *)
(* before it can be an entry.                                              *)
ListEntries(text) == SelectSeq(text, LAMBDA l : l.k \in EntryKinds \ Intros)

(* plan_from_text_with_mode: itemText, when the text is that of a plan     *)
(* item in a turn in plan mode.                                            *)
ListIsPlan(text, itemText) ==
  LET entries == ListEntries(text)
      boxes == Has(text, {"box"})
      other == Has(text, {"heading", "stepsLine", "intro", "planBullet", "options", "prose"})
  IN /\ entries # << >>
     /\ itemText /\ Has(text, Headings) => boxes
     /\ \/ boxes \/ Has(text, NamesPlan) \/ Has(text, Intros)
        \/ /\ itemText /\ ~other /\ ~Has(text, {"options"})
           /\ Len(entries) >= 2
           /\ Has(text, {"bullet"})

PlanOf(text, itemText) ==
  IF itemText /\ StepsSection(text) # << >> THEN StepsSection(text)
  ELSE IF ListIsPlan(text, itemText) THEN ListEntries(text) ELSE << >>
=============================================================================
