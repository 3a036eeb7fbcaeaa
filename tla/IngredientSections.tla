-------------------------- MODULE IngredientSections --------------------------
(***************************************************************************)
(* How the list of ingredients that the model answers becomes the sections of *)
(* a recipe, and how a translation gets its quantities back                   *)
(* (app/recipe_builder.py).                                                   *)
(*                                                                         *)
(* An entry has an id, a word - what its name looks like - and an amount.  A  *)
(* title is an entry too: a heading without an amount.                        *)
(***************************************************************************)
EXTENDS Integers, SequencesExt

None == 0
Taste == -1  \* to_taste_quantity

Titles == {"generic", "optional", "heading"}
Words == Titles \cup {"food", "marked", "nameless"}

\* Faulty: what has an amount may be a heading.
LooksLikeTitle(entry) == entry.word \in Titles

\* "For the sauce", "Optional:", "Ingredients": a name that titles what follows.
LooksLikeSectionHeading(entry) == entry.word \in Titles /\ entry.amount = None

\* "(optional)" behind a name, or a name that is nothing else.
Marked(entry) == entry.word \in {"marked", "optional"}

\* Faulty: what is optional is kept where it stands.
NotOptional(all, p, head) == FALSE

Optional(all, p, head) == all[head].word = "optional" \/ Marked(all[p])

\* Without its marker, and with an amount.
Cleaned(entry) ==
  [entry EXCEPT !.word = IF @ = "marked" THEN "food" ELSE @,
                !.amount = IF @ = None THEN Taste ELSE @]

Flat(sections) ==
  FlattenSeq([k \in DOMAIN sections |->
    <<[id |-> 0, word |-> sections[k].title, amount |-> None]>> \o sections[k].items])

\* power_up_ingredient_sections
Powered(sections) ==
  LET all == Flat(sections)
      heads == {p \in DOMAIN all : LooksLikeSectionHeading(all[p])}
      HeadOf(p) == CHOOSE h \in heads : h <= p /\ \A g \in heads : g <= p => g <= h
      Entries(Belongs(_)) ==
        LET at == SelectSeq([p \in DOMAIN all |-> p], LAMBDA p : p \notin heads /\ Belongs(p))
        IN  [i \in DOMAIN at |-> Cleaned(all[at[i]])]
      Own(h) == Entries(LAMBDA p : HeadOf(p) = h /\ ~Optional(all, p, h))
      titled == SelectSeq([p \in DOMAIN all |-> p], LAMBDA h : h \in heads /\ Own(h) # << >>)
      aside == Entries(LAMBDA p : Optional(all, p, HeadOf(p)))
      rebuilt == [i \in DOMAIN titled |-> [title |-> all[titled[i]].word, items |-> Own(titled[i])]]
                   \o (IF aside = << >> THEN << >> ELSE <<[title |-> "optional", items |-> aside]>>)
  IN  IF rebuilt = << >> THEN sections ELSE rebuilt

\* _usable_ingredient_sections: what has no name is dropped, and a section with nothing else.
Usable(raw) ==
  LET named == [k \in DOMAIN raw |-> [raw[k] EXCEPT !.items = SelectSeq(@, LAMBDA entry : entry.word # "nameless")]]
  IN  Powered(SelectSeq(named, LAMBDA section : section.items # << >>))

Items(sections) == FlattenSeq([k \in DOMAIN sections |-> sections[k].items])

\* Faulty: the position starts again with each section.
PlacesOfSection(sections, k) == 0

PlacesBefore(sections, k) == Len(Items(SubSeq(sections, 1, k - 1)))

\* _restore_quantity_and_density: the amounts of the source, by position.
Restored(source, translated) ==
  LET Amount(entry, n) == IF n <= Len(Items(source)) THEN Items(source)[n].amount ELSE entry.amount
  IN  [k \in DOMAIN translated |->
        [translated[k] EXCEPT !.items =
           [i \in DOMAIN @ |-> [@[i] EXCEPT !.amount = Amount(@, PlacesBefore(translated, k) + i)]]]]

\* The translating model may leave an ingredient without a name: translate_recipe drops it.
Translated(recipe, unnamed) ==
  LET named == [k \in DOMAIN recipe |-> [recipe[k] EXCEPT !.items = SelectSeq(@, LAMBDA entry : entry.id \notin unnamed)]]
  IN  Powered(Restored(recipe, named))
=============================================================================
