------------------------- MODULE FrameSelectionInputs -------------------------
(***************************************************************************)
(* The calls of FrameSelection over bounded inputs: each is an initial state.  *)
(***************************************************************************)
EXTENDS FrameSelection

CONSTANTS
  MaxTotal, MaxLimit,   \* bounds: frames found, frames of the first pass
  Durations, MaxFrames, \* video lengths in ms (the code takes at least a second) and their samples
  Hashes, MaxThumbs, Threshold \* thumbnails: their hashes, how many, DHASH_HAMMING_THRESHOLD

FrameAssumption ==
  /\ {MaxTotal, MaxLimit, MaxFrames, MaxThumbs} \subseteq Nat \ {0} /\ Threshold \in Nat
  /\ Hashes \subseteq Nat
  /\ \A d \in Durations : d \in Nat /\ d >= 1000 /\ d % (25 * MaxFrames) = 0 \* no rounding

VARIABLE input \* what one call is given

Spreads == [call : {"spread"}, total : 1..MaxTotal, limit : 1..MaxLimit]
Samples == [call : {"samples"}, duration : Durations, frames : {MaxFrames}]
Thumbs == {[call |-> "thumbs", hashes |-> h] : h \in UNION {[1..n -> Hashes] : n \in 1..MaxThumbs}}

Init == input \in Spreads \cup Samples \cup Thumbs
Next == UNCHANGED input
Spec == Init /\ [][Next]_input

\* The first pass takes as many frames as it may, in order, none twice, the first and the
\* last of the video among them, and leaves gaps that differ by at most one frame - whatever
\* the rounding of halves does to neighbours.
SpreadReachesBothEnds ==
  input.call = "spread" =>
    LET s == SpreadIndexes(input.total, input.limit)
        gaps == {s[i + 1] - s[i] : i \in 1..Len(s) - 1}
    IN  /\ Len(s) = Min({input.total, input.limit})
        /\ s[1] = 0 /\ (Len(s) > 1 => s[Len(s)] = input.total - 1)
        /\ \A g \in gaps : g >= 1 /\ \A h \in gaps : g - h <= 1

\* "Return ordered timestamps covering sequential on-screen ingredient cards"
\* (app/extract.py:180): the samples rise, stay inside the video, and no part of it as long
\* as two intervals goes unseen, its end included.
SamplesCoverVideo ==
  input.call = "samples" =>
    LET s == SampleTimes(input.duration, input.frames)
        stops == Append(s, input.duration)
    IN  /\ s # << >> /\ Len(s) <= input.frames /\ s[1] <= 1200
        /\ \A i \in 1..Len(s) :
             /\ stops[i] < stops[i + 1]
             /\ stops[i + 1] - stops[i] < 2 * Interval(input.duration, input.frames)
        /\ input.duration - Last(s) <= Interval(input.duration, input.frames)

\* A frame is dropped only if it looks like one that was kept, however slowly the picture
\* changes: a card that fades in over many similar frames is kept in the end.
NoSceneIsLost ==
  input.call = "thumbs" =>
    LET kept == UniqueFrames(input.hashes, Threshold) IN
    \A i \in DOMAIN input.hashes :
      \E k \in ToSet(kept) : k <= i /\ Distance(input.hashes[k], input.hashes[i]) <= Threshold
=============================================================================
