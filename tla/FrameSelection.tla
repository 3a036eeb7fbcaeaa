---------------------------- MODULE FrameSelection ----------------------------
(***************************************************************************)
(* Which frames of a video are looked at (app/extract.py): frames that        *)
(* differ from the one kept before, sample times where no thumbnails could    *)
(* be made, and the spread of the first vision pass.  Times are milliseconds. *)
(* A thumbnail's hash is a number, the Hamming distance their difference.     *)
(***************************************************************************)
EXTENDS Naturals, Integers, Sequences, FiniteSets, SequencesExt, FiniteSetsExt

-----------------------------------------------------------------------------
(* select_spread_frame_indexes *)

\* int(round(p / q)): halves go to the even neighbour.
Rounded(p, q) ==
  LET below == p \div q twice == 2 * (p % q)
  IN  IF twice < q \/ (twice = q /\ below % 2 = 0) THEN below ELSE below + 1

\* Faulty: as many steps as picks.
PickShort(i, total, limit) == Rounded(i * (total - 1), limit)

\* The i-th of the evenly spaced indexes.
Pick(i, total, limit) == Rounded(i * (total - 1), limit - 1)

\* The number in S that has n below it.
AtRank(S, n) == CHOOSE i \in S : Cardinality({j \in S : j < i}) = n

\* The numbers in S in order.
Ordered(S) == [k \in 1..Cardinality(S) |-> AtRank(S, k - 1)]

\* The indexes of the first pass, from 0, in order; the smallest free ones fill up where two
\* picks coincide.
SpreadIndexes(total, limit) ==
  IF total <= limit THEN [i \in 1..total |-> i - 1]
  ELSE IF limit = 1 THEN <<0>>
  ELSE LET picks == {Pick(i, total, limit) : i \in 0..limit - 1}
           free == Ordered((0..total - 1) \ picks)
           filled == picks \cup ToSet(SubSeq(free, 1, limit - Cardinality(picks)))
       IN  SubSeq(Ordered(filled), 1, limit)

-----------------------------------------------------------------------------
(* overlay_sample_times *)

\* overlay_frame_interval: at least a second and a half.
Interval(duration, frames) ==
  LET even == duration \div frames IN IF even < 1500 THEN 1500 ELSE even

\* The first sample: 8 % into the video, 0.2 to 1.2 seconds.
FirstTime(duration) ==
  LET share == (duration * 8) \div 100 IN
  IF share < 200 THEN 200 ELSE IF share > 1200 THEN 1200 ELSE share

\* The samples an interval apart that end 0.12 seconds before the video.
Regular(duration, frames) ==
  LET t(i) == FirstTime(duration) + (i - 1) * Interval(duration, frames)
  IN  [i \in 1..Cardinality({i \in 1..frames : t(i) < duration - 120}) |-> t(i)]

\* Faulty: the last sample never moves to the end of the video.
WithLastMissing(times, duration, frames) == times

\* One more sample near the end; the last one moves there if there are enough.
WithLast(times, duration, frames) ==
  LET last == duration - 350 gap == last - Last(times)
      far == gap * 100 > Interval(duration, frames) * 45 \/ -gap * 100 > Interval(duration, frames) * 45
  IN  IF ~far THEN times
      ELSE IF Len(times) < frames THEN Append(times, last)
      ELSE [times EXCEPT ![Len(times)] = last]

\* No later than 0.05 seconds before the end, and 0.2 seconds apart.
Distinct(times, duration) ==
  FoldLeft(LAMBDA out, t :
             LET clipped == IF t > duration - 50 THEN duration - 50 ELSE t IN
             IF out = << >> \/ clipped - Last(out) > 200 \/ Last(out) - clipped > 200
             THEN Append(out, clipped) ELSE out,
           << >>, times)

SampleTimes(duration, frames) ==
  Distinct(WithLast(Regular(duration, frames), duration, frames), duration)

-----------------------------------------------------------------------------
(* _unique_frame_times *)

Distance(a, b) == IF a > b THEN a - b ELSE b - a

\* Faulty: a frame is compared with the one before it, kept or not.
ComparedPrevious(hashes, kept, i) == hashes[i - 1]

\* The hash a frame is compared with: that of the frame kept last.
Compared(hashes, kept, i) == hashes[Last(kept)]

\* Positions of the frames that differ from the one kept before.
UniqueFrames(hashes, threshold) ==
  FoldLeft(LAMBDA kept, i :
             IF kept = << >> THEN <<i>>
             ELSE IF Distance(Compared(hashes, kept, i), hashes[i]) > threshold THEN Append(kept, i)
             ELSE kept,
           << >>, [i \in DOMAIN hashes |-> i])
=============================================================================
