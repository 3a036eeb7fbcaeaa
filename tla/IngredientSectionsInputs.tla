----------------------- MODULE IngredientSectionsInputs -----------------------
(***************************************************************************)
(* The calls of IngredientSections over bounded inputs: each is an initial     *)
(* state.                                                                     *)
(***************************************************************************)
EXTENDS IngredientSections

CONSTANTS MaxItems, Amounts, MaxUnnamed \* bounds: entries of a section, their amounts, entries lost in translation

SectionsAssumption == MaxItems \in Nat \ {0} /\ MaxUnnamed \in Nat /\ Amounts \subseteq Nat

VARIABLES
  raw,    \* sections the model answered
  unnamed \* ingredients that the translation leaves without a name

\* Sections in the k-th place; an id names its entry.
Sections(k) ==
  [title : Titles,
   items : UNION {{[i \in 1..n |-> [id |-> (k - 1) * MaxItems + i, word |-> w[i], amount |-> a[i]]] :
                     w \in [1..n -> Words], a \in [1..n -> Amounts]} : n \in 0..MaxItems}]

Init ==
  /\ raw \in {<<s>> : s \in Sections(1)} \cup {<<s, t>> : s \in Sections(1), t \in Sections(2)}
  /\ unnamed \in {ids \in SUBSET {entry.id : entry \in ToSet(Items(raw))} : Cardinality(ids) <= MaxUnnamed}
Next == UNCHANGED <<raw, unnamed>>
Spec == Init /\ [][Next]_<<raw, unnamed>>

Ids(sections) == {entry.id : entry \in ToSet(Items(sections))}
Given == ToSet(Items(raw))
Foods == {entry \in Given : entry.word # "nameless" /\ (entry.word \in Titles => entry.amount # None)}

\* No ingredient is lost or doubled on the way through headings, markers and
\* empty sections; only when all there is looks like a heading is it kept as it is.
NoIngredientLost ==
  LET sections == Usable(raw) IN
  /\ Foods # {} => Ids(sections) = {entry.id : entry \in Foods}
  /\ Len(Items(sections)) = Cardinality(Ids(sections))
  /\ \A k \in DOMAIN sections : sections[k].items # << >>

\* What must be bought keeps the order of the post, and all that is optional stands
\* together behind it, in its own order.
OptionalComesLast ==
  LET sections == Usable(raw)
      optional == {k \in DOMAIN sections : sections[k].title = "optional"}
      Rising(items) == \A i, j \in DOMAIN items : i < j => items[i].id < items[j].id
  IN  Foods # {} =>
        /\ optional \subseteq {Len(sections)}
        /\ Rising(Items(SelectSeq(sections, LAMBDA section : section.title # "optional")))
        /\ \A k \in optional : Rising(sections[k].items)
        /\ \A k \in DOMAIN sections \ optional : \A i \in DOMAIN sections[k].items :
             \A entry \in Given : entry.id = sections[k].items[i].id => ~Marked(entry)

\* A recipe that is translated word by word keeps its sections: its own titles and
\* its ingredients without an amount are not taken for headings the second time.
TranslationKeepsSections == Translated(Usable(raw), {}) = Usable(raw)

\* Each ingredient of a translation has the amount it had.  Amounts are restored by
\* position: behind an ingredient that the model left without a name, each gets the
\* amount of the one before it.
TranslationKeepsQuantities ==
  LET recipe == Usable(raw)
      after == Items(Translated(recipe, unnamed))
  IN  \A i \in DOMAIN after, j \in DOMAIN Items(recipe) :
        after[i].id = Items(recipe)[j].id => after[i].amount = Items(recipe)[j].amount
=============================================================================
