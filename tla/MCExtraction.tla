---------------------------- MODULE MCExtraction ----------------------------
(***************************************************************************)
(* One extraction run (ExtractionCascade) and the pure functions it relies    *)
(* on, each called with every input of a bounded set: the choice of frames    *)
(* (FrameSelection) and the sections of the ingredient list                   *)
(* (IngredientSections).  A behaviour is a run, or one call.                  *)
(***************************************************************************)
EXTENDS ExtractionCascade

VARIABLES part, input, raw, unnamed

OneCent == {1}

\* Videos of 1.6 to 600 seconds; up to five thumbnails of four shades.
Frames == INSTANCE FrameSelectionInputs WITH
  MaxTotal <- 12, MaxLimit <- 8, Durations <- {800 * i : i \in 2..750}, MaxFrames <- 32,
  Hashes <- 0..3, MaxThumbs <- 5, Threshold <- 1

\* Two sections of two entries, with an amount or without.
Ingredients == INSTANCE IngredientSectionsInputs WITH
  MaxItems <- 2, Amounts <- {0, 1}, MaxUnnamed <- 0

ASSUME InstancesAssumption == Frames!FrameAssumption /\ Ingredients!SectionsAssumption

NoInput == << >>
NoSections == raw = << >> /\ unnamed = {}

EveryInit ==
  /\ Init
  /\ \/ part = "run" /\ input = NoInput /\ NoSections
     \/ part = "frames" /\ Frames!Init /\ NoSections
     \/ part = "ingredients" /\ input = NoInput /\ Ingredients!Init

EveryNext ==
  /\ UNCHANGED part
  /\ \/ part = "run" /\ Next /\ UNCHANGED <<input, raw, unnamed>>
     \/ part = "frames" /\ Frames!Next /\ UNCHANGED <<vars, raw, unnamed>>
     \/ part = "ingredients" /\ Ingredients!Next /\ UNCHANGED <<vars, input>>

EverySpec == EveryInit /\ [][EveryNext]_<<part, vars, input, raw, unnamed>>

\* The frames that are looked at stand for the whole video (app/extract.py:180): the first
\* pass spreads evenly from the first frame to the last, sample times leave no gap of two
\* intervals, and a frame is dropped only for one like it that is kept.
FramesCoverVideo ==
  part = "frames" =>
    Frames!SpreadReachesBothEnds /\ Frames!SamplesCoverVideo /\ Frames!NoSceneIsLost

\* No ingredient is lost, doubled or moved to another section on the way through headings,
\* markers of optional entries and translations (app/recipe_builder.py).
IngredientsStayInPlace ==
  part = "ingredients" =>
    Ingredients!NoIngredientLost /\ Ingredients!OptionalComesLast
      /\ Ingredients!TranslationKeepsSections
=============================================================================
