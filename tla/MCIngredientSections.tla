------------------------- MODULE MCIngredientSections -------------------------
(* Bounded inputs of IngredientSections for TLC. *)
EXTENDS IngredientSectionsInputs

NoneOrOne == {0, 1}
OneOrTwo == {1, 2}
=============================================================================
