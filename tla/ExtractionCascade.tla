-------------------------- MODULE ExtractionCascade --------------------------
(***************************************************************************)
(* One extraction run (_run_extract_job in app/pipeline.py): what it reads of *)
(* a post, in which order it pays for more evidence - caption, speech, images *)
(* - when it stops, what it bills and what it leaves behind.                  *)
(*                                                                         *)
(* A photo post goes through its caption and its slides, a video through its  *)
(* caption and subtitles, its speech and its frames.  Evidence is the set of  *)
(* pieces that were read; linked are those that say "recipe in bio".  What    *)
(* sites and models answer is chosen at each step.                            *)
(***************************************************************************)
EXTENDS FrameSelection

CONSTANTS
  MaxSlides,                  \* MAX_CAROUSEL_SLIDES, which is what one post can have
  VideoFrames,                \* bound: distinct frames of a video
  MaxVisionFrames, FirstPass, VisionBatch, \* max_vision_frames, first_vision_pass_frames, _VISION_BATCH
  MaxJobCost, OcrCents,       \* max_job_cost_cents, cost_ocr_cents_per_slide
  TextCents, SpeechCents, ImageCents \* what a chat call, a transcription, an image may cost

ASSUME CascadeAssumption ==
  /\ {MaxSlides, VideoFrames, MaxVisionFrames, FirstPass, VisionBatch, OcrCents} \subseteq Nat \ {0}
  /\ MaxJobCost \in Nat /\ TextCents \cup SpeechCents \subseteq Nat /\ ImageCents \subseteq 0..OcrCents

VARIABLES
  pc,
  post,     \* kind of the post, its caption and the number of its slides
  read,     \* evidence that was read
  linked,   \* evidence that points to the creator's bio
  cents,    \* JobCostMeter.cents
  reason,   \* reject_reasons: the last one, or "none"
  recipe,   \* evidence the recipe is built from; {} while there is none
  slide,    \* next slide
  unread,   \* slides that could not be read
  frames,   \* batches of frames to look at
  dirs,     \* temporary directories
  job,      \* status and error of the job, and the costs that were recorded
  attempts, \* history: calls of models that were tried, for text, speech and images
  sent      \* history: frames that were sent, in order

vars == <<pc, post, read, linked, cents, reason, recipe, slide, unread, frames, dirs, job, attempts, sent>>

Captions == {"none", "thin", "food", "other", "bio"}
NoPost == [kind |-> "none", caption |-> "none", slides |-> 0]
NewJob == [status |-> "processing", error |-> "none", bills |-> << >>]
NoAttempt == [text |-> 0, speech |-> 0, image |-> 0]

Init ==
  /\ pc = "start" /\ post = NoPost
  /\ read = {} /\ linked = {} /\ recipe = {} /\ unread = {} /\ dirs = {}
  /\ cents = 0 /\ reason = "none" /\ slide = 1
  /\ frames = << >> /\ sent = << >> /\ job = NewJob /\ attempts = NoAttempt

Goto(step) == pc' = step /\ UNCHANGED job

\* An ExtractError, already as the error the job will show (_safe_job_error).
Raise(error) == pc' = "except" /\ job' = [job EXCEPT !.error = error]

-----------------------------------------------------------------------------
(* build_recipe: one question to the model, asked at most twice *)

\* Answers of one request; a rate limit is not retried, nor is an answer that is no object.
Asked ==
  {<<a>> : a \in {"limited", "no object", "answer"}}
    \cup ({"error", "unusable"} \X {"limited", "error", "unusable", "no object", "answer"})

\* The answers that cost money.
Paid(asked) == Cardinality({i \in DOMAIN asked : asked[i] \notin {"limited", "error"}})

Drafts == [sections : BOOLEAN, steps : BOOLEAN, confident : BOOLEAN, valid : BOOLEAN,
           gaps : {"none", "ingredients", "method", "other"}]

\* What becomes of a draft; only gaps that block cooking are gaps.
Verdict(d) ==
  IF ~d.sections THEN IF d.steps THEN "recipe_no_ingredients" ELSE "recipe_undetermined"
  ELSE IF ~d.steps THEN "recipe_no_method"
  ELSE IF ~d.confident \/ ~d.valid \/ d.gaps = "other" THEN "recipe_incomplete"
  ELSE IF d.gaps = "ingredients" THEN "recipe_no_ingredients"
  ELSE IF d.gaps = "method" THEN "recipe_no_method" ELSE "recipe"

\* How a question may end, with its tries and the answers that cost money.
Endings ==
  LET Ending(a, v) == [tries |-> Len(a), paid |-> Paid(a), verdict |-> v] IN
  {Ending(a, Verdict(d)) : a \in {s \in Asked : Last(s) = "answer"}, d \in Drafts}
    \cup {Ending(a, "extraction_retryable") : a \in {s \in Asked : Last(s) # "answer"}}

\* Too much text in images: it raises before any question.
TooLarge == [tries |-> 0, paid |-> 0, verdict |-> "source_bound"]

Raised(end) == end.verdict \in {"extraction_retryable", "source_bound"}

\* The model is asked with all that was read; end says how that went.
Ask(end) ==
  /\ \E c \in TextCents : cents' = cents + end.paid * c
  /\ attempts' = [attempts EXCEPT !.text = @ + end.tries]
  /\ recipe' = IF end.verdict = "recipe" THEN read ELSE recipe
  /\ reason' = IF end.verdict = "recipe" \/ Raised(end) THEN reason ELSE end.verdict

-----------------------------------------------------------------------------
(* What the post says itself *)

\* maintenance_mode: the job stays as it is.
Paused ==
  /\ pc = "start" /\ Goto("done")
  /\ UNCHANGED <<post, read, linked, cents, reason, recipe, slide, unread, frames, dirs, attempts, sent>>

\* No platform, a carousel that is not whole, a video too long, a site that does not answer.
FetchFails ==
  /\ pc = "start"
  /\ \E e \in {"unsupported_url", "incomplete_carousel", "video_too_long", "extraction_retryable"} : Raise(e)
  /\ UNCHANGED <<post, read, linked, cents, reason, recipe, slide, unread, frames, dirs, attempts, sent>>

\* reject_link_in_bio and reject_clearly_non_recipe, before anything is paid.
Gate(caption, subtitlesLink, next) ==
  IF caption = "bio" \/ subtitlesLink THEN Raise("link_in_bio")
  ELSE IF caption = "other" THEN Raise("recipe_undetermined")
  ELSE Goto(next)

FetchSlides ==
  /\ pc = "start"
  /\ \E caption \in Captions, n \in 1..MaxSlides :
       /\ post' = [kind |-> "photo", caption |-> caption, slides |-> n]
       /\ read' = {"caption"} \ (IF caption = "none" THEN {"caption"} ELSE {})
       /\ Gate(caption, FALSE, IF caption = "none" THEN "slide" ELSE "caption")
  /\ UNCHANGED <<linked, cents, reason, recipe, slide, unread, frames, dirs, attempts, sent>>

FetchVideo ==
  /\ pc = "start"
  /\ \E caption \in Captions, subtitles \in SUBSET {"subtitles"}, link \in BOOLEAN :
       /\ link => subtitles # {}
       /\ post' = [kind |-> "video", caption |-> caption, slides |-> 0]
       /\ read' = subtitles \cup (IF caption = "none" THEN {} ELSE {"caption"})
       /\ Gate(caption, link, "caption")
  /\ UNCHANGED <<linked, cents, reason, recipe, slide, unread, frames, dirs, attempts, sent>>

\* Stage 1: a model that sees no recipe in the words of a video ends it.
AskCaption ==
  /\ pc = "caption"
  /\ IF read = {} THEN Goto("audio") /\ UNCHANGED <<cents, attempts, recipe, reason>>
     ELSE \E end \in Endings :
       /\ Ask(end)
       /\ IF Raised(end) THEN Raise(end.verdict)
          ELSE IF post.kind = "photo" THEN Goto("slide")
          ELSE IF end.verdict = "recipe" THEN Goto("cover")
          ELSE IF end.verdict = "recipe_undetermined" THEN Raise(end.verdict)
          ELSE Goto("audio")
  /\ UNCHANGED <<post, read, linked, slide, unread, frames, dirs, sent>>

-----------------------------------------------------------------------------
(* Slides of a photo post *)

\* Faulty: slides are read on although the recipe is complete.
MoreSlidesAlways == slide <= post.slides

MoreSlides == recipe = {} /\ slide <= post.slides

\* Faulty: the slide after one that could not be read is left out as well.
AfterUnreadSkips == slide + 2

AfterUnread == slide + 1

\* ocr_one_slide: the image may be gone, the model may fail, its answer may be of no use.
ReadSlide ==
  /\ pc = "slide" /\ MoreSlides
  /\ \E got \in {"gone", "error", "unusable", "text", "link"}, c \in ImageCents :
       /\ attempts' = IF got = "gone" THEN attempts ELSE [attempts EXCEPT !.image = @ + 1]
       /\ cents' = IF got \in {"gone", "error"} THEN cents ELSE cents + c
       /\ IF got \in {"text", "link"}
          THEN /\ read' = read \cup {"slides"} /\ UNCHANGED <<slide, unread>>
               /\ linked' = linked \cup (IF got = "link" THEN {"slides"} ELSE {})
               /\ IF got = "link" THEN Raise("link_in_bio") ELSE Goto("ask slides")
          ELSE /\ unread' = unread \cup {slide} /\ slide' = AfterUnread
               /\ Goto("slide") /\ UNCHANGED <<read, linked>>
  /\ UNCHANGED <<post, reason, recipe, frames, dirs, sent>>

AskSlides ==
  /\ pc = "ask slides"
  /\ \E end \in Endings \cup {TooLarge} :
       Ask(end) /\ IF Raised(end) THEN Raise(end.verdict) ELSE Goto("slide")
  /\ slide' = slide + 1
  /\ UNCHANGED <<post, read, linked, unread, frames, dirs, sent>>

EndSlides ==
  /\ pc = "slide" /\ ~MoreSlides
  /\ IF recipe # {} THEN Goto("persist")
     ELSE IF unread # {} THEN Raise("incomplete_carousel")
     ELSE Raise(IF reason = "none" THEN "recipe_incomplete" ELSE reason)
  /\ UNCHANGED <<post, read, linked, cents, reason, recipe, slide, unread, frames, dirs, attempts, sent>>
-----------------------------------------------------------------------------
(* Speech and frames of a video *)

\* download_audio: a failure is as good as a video without sound.
Audio ==
  /\ pc = "audio"
  /\ \/ dirs' = dirs \cup {"audio"} /\ Goto("stt")
     \/ UNCHANGED dirs /\ Goto("vision")
  /\ UNCHANGED <<post, read, linked, cents, reason, recipe, slide, unread, frames, attempts, sent>>

\* rotate_transcript: an empty transcription is paid, a failed one is not.
Transcribe ==
  /\ pc = "stt"
  /\ attempts' = [attempts EXCEPT !.speech = @ + 1]
  /\ \/ Goto("vision") /\ UNCHANGED <<cents, read, linked>>
     \/ \E c \in SpeechCents, heard \in {"nothing", "text", "link"} :
          /\ cents' = cents + c
          /\ read' = read \cup (IF heard = "nothing" THEN {} ELSE {"speech"})
          /\ linked' = linked \cup (IF heard = "link" THEN {"speech"} ELSE {})
          /\ Goto(IF heard = "nothing" THEN "vision" ELSE "spoken")
  /\ UNCHANGED <<post, reason, recipe, slide, unread, frames, dirs, sent>>

\* An exception of this question is caught: the run goes on to the frames.
AskSpoken ==
  /\ pc = "spoken"
  /\ \E end \in Endings : Ask(end) /\ Goto(IF end.verdict = "recipe" THEN "cover" ELSE "vision")
  /\ UNCHANGED <<post, read, linked, slide, unread, frames, dirs, sent>>

\* What is left of the budget, in frames of the estimated price.
LeftFor == IF cents < MaxJobCost THEN (MaxJobCost - cents) \div OcrCents ELSE 0

\* Faulty: the budget is the only bound.
CapOfBudget == Max({1, LeftFor})

\* At least one frame, which _vision_incremental_build may still refuse.
Cap == Max({1, Min({LeftFor, MaxVisionFrames})})

Chunks(s) == [k \in 1..((Len(s) + VisionBatch - 1) \div VisionBatch) |->
                SubSeq(s, (k - 1) * VisionBatch + 1, Min({k * VisionBatch, Len(s)}))]

FirstPaths(n) == SpreadIndexes(n, Min({FirstPass, n}))

\* Faulty: the second pass goes over all the frames.
BatchesOverAll(n) == <<FirstPaths(n)>> \o Chunks([i \in 1..n |-> i - 1])

\* _vision_incremental_build: frames spread over the video first, then those between.
Batches(n) == <<FirstPaths(n)>> \o Chunks(Ordered((0..n - 1) \ Range(FirstPaths(n))))

\* Faulty: only the post's own words are looked at.
PointsInPost == linked \cap {"caption", "subtitles"} # {}

PointsToBio == linked # {}

Vision ==
  /\ pc = "vision"
  /\ \/ PointsToBio /\ Raise("link_in_bio") /\ UNCHANGED <<frames, dirs>>
     \/ ~PointsToBio /\ Goto("judge") /\ UNCHANGED <<frames, dirs>>
     \/ /\ ~PointsToBio /\ Goto("frames") /\ dirs' = dirs \cup {"frames"}
        /\ \E n \in 1..Min({VideoFrames, Cap}) : frames' = Batches(n)
  /\ UNCHANGED <<post, read, linked, cents, reason, recipe, slide, unread, attempts, sent>>

\* Faulty: the price of one frame is compared, whatever the batch has.
AffordableOne(batch) == cents + OcrCents <= MaxJobCost

Affordable(batch) == cents + Len(batch) * OcrCents <= MaxJobCost

\* run_batch: a batch the budget cannot pay is skipped, a failed one is as good as an empty one.
Look ==
  /\ pc = "frames" /\ Goto("ask frames")
  /\ LET batch == Head(frames) IN
     \/ ~Affordable(batch) /\ UNCHANGED <<attempts, sent, cents, read>>
     \/ /\ Affordable(batch)
        /\ attempts' = [attempts EXCEPT !.image = @ + Len(batch)]
        /\ sent' = sent \o batch
        /\ \/ UNCHANGED <<cents, read>>
           \/ \E c \in ImageCents, text \in SUBSET {"frames"} :
                cents' = cents + Len(batch) * c /\ read' = read \cup text
  /\ UNCHANGED <<post, linked, reason, recipe, slide, unread, frames, dirs>>

\* An exception of this question ends the look, and what the frames told is given up.
AskFrames ==
  /\ pc = "ask frames"
  /\ frames' = Tail(frames)
  /\ LET more == IF Len(frames) = 1 THEN "judge" ELSE "frames" IN
     IF read = {} THEN Goto(more) /\ UNCHANGED <<cents, attempts, recipe, reason, read>>
     ELSE \E end \in Endings \cup {TooLarge} :
       /\ Ask(end)
       /\ read' = IF Raised(end) THEN read \ {"frames"} ELSE read
       /\ Goto(IF end.verdict = "recipe" THEN "cover" ELSE IF Raised(end) THEN "judge" ELSE more)
  /\ UNCHANGED <<post, linked, slide, unread, dirs, sent>>

Judge ==
  /\ pc = "judge"
  /\ Raise(IF read = {} THEN "recipe_undetermined" ELSE IF reason = "none" THEN "recipe_incomplete" ELSE reason)
  /\ UNCHANGED <<post, read, linked, cents, reason, recipe, slide, unread, frames, dirs, attempts, sent>>

\* Faulty: frames of which none is good enough are fetched again.
AfterCoverAgain == "cover"

AfterCover == "persist"

\* choose_video_cover_url: the first frames are fetched and removed; no failure reaches the run.
Cover ==
  /\ pc = "cover"
  /\ IF "cover" \in dirs THEN dirs' = dirs \ {"cover"} /\ Goto(AfterCover)
     ELSE \/ dirs' = dirs \cup {"cover"} /\ Goto("cover")
          \/ UNCHANGED dirs /\ Goto("persist")
  /\ UNCHANGED <<post, read, linked, cents, reason, recipe, slide, unread, frames, attempts, sent>>

-----------------------------------------------------------------------------
(* How the run ends *)

\* Faulty: what the run cost is only known when it succeeds.
BilledToSuccess(status) == IF status = "completed" THEN cents ELSE 0

Billed(status) == cents

\* The status is written first; a record of usage or of the ledger that fails is not noticed.
Bill(records, status) ==
  job' = [job EXCEPT !.status = IF "job" \in records THEN status ELSE @,
                     !.bills = [record \in records |-> Billed(status)]]

Persist ==
  /\ pc = "persist" /\ pc' = "finally"
  /\ \E lost \in SUBSET {"usage", "ledger"} : Bill({"job", "usage", "ledger"} \ lost, "completed")
  /\ UNCHANGED <<post, read, linked, cents, reason, recipe, slide, unread, frames, dirs, attempts, sent>>

\* Any other exception, of the database or of a library: no stage but speech and cover catches it.
Breaks ==
  /\ pc \in {"start", "caption", "slide", "ask slides", "audio", "vision", "frames", "ask frames", "persist"}
  /\ Raise("extraction_retryable")
  /\ UNCHANGED <<post, read, linked, cents, reason, recipe, slide, unread, frames, dirs, attempts, sent>>

Except ==
  /\ pc = "except" /\ pc' = "finally"
  /\ \E lost \in SUBSET {"job", "usage", "ledger"} :
       Bill(({"job", "ledger"} \cup (IF cents > 0 THEN {"usage"} ELSE {})) \ lost, "failed")
  /\ UNCHANGED <<post, read, linked, cents, reason, recipe, slide, unread, frames, dirs, attempts, sent>>

\* Faulty: only a run that succeeded removes its frames.
KeptOnFailure == IF recipe = {} THEN {"frames"} ELSE {}

Kept == {}

Finally ==
  /\ pc = "finally" /\ Goto("done")
  /\ dirs' = dirs \cap Kept
  /\ UNCHANGED <<post, read, linked, cents, reason, recipe, slide, unread, frames, attempts, sent>>

Next ==
  \/ Paused \/ FetchFails \/ FetchSlides \/ FetchVideo \/ AskCaption
  \/ ReadSlide \/ AskSlides \/ EndSlides
  \/ Audio \/ Transcribe \/ AskSpoken \/ Vision \/ Look \/ AskFrames \/ Judge \/ Cover
  \/ Persist \/ Breaks \/ Except \/ Finally

Spec == Init /\ [][Next]_vars

\* Downloads and requests have time limits, so a step of the run always returns.
FairSpec == Spec /\ WF_vars(Next)

-----------------------------------------------------------------------------
(* Properties *)

\* Every variable keeps its type along a run of _run_extract_job.
TypeOK ==
  /\ pc \in {"start", "caption", "slide", "ask slides", "audio", "stt", "spoken", "vision", "frames",
             "ask frames", "judge", "cover", "persist", "except", "finally", "done"}
  /\ post.caption \in Captions /\ post.slides \in 0..MaxSlides
  /\ read \subseteq {"caption", "subtitles", "speech", "frames", "slides"}
  /\ linked \subseteq read /\ recipe \subseteq read /\ unread \subseteq 1..post.slides
  /\ cents \in Nat /\ slide \in 1..(post.slides + 1)
  /\ dirs \subseteq {"audio", "frames", "cover"}
  /\ job.status \in {"processing", "completed", "failed"}

\* Whatever stage a run ends in, the job, the usage event and the ledger record
\* the same amount: all that its calls cost (settle_spend and record_usage of
\* both branches of the except clause, and of the success path).
BillsAgree == \A record \in DOMAIN job.bills : job.bills[record] = cents

\* Once a recipe is complete nothing more is paid for: no stage, slide or batch
\* after the question that answered it.
NothingAfterRecipe == [][recipe # {} => attempts' = attempts]_vars

\* A frame is sent to the model at most once, although the second pass goes over
\* the whole video again.
FramesSentOnce == \A i, j \in DOMAIN sent : sent[i] = sent[j] => i = j

\* A run that has read "recipe in bio", be it in speech, sends no image any more.
NoImagesAfterLink == [][linked # {} => attempts'.image = attempts.image]_vars

\* What one run may call is bounded by its post: two tries for each question,
\* and a question for the caption, one for speech, one for each batch or slide.
CallsBounded ==
  /\ attempts.image <= IF post.kind = "photo" THEN post.slides ELSE Min({VideoFrames, MaxVisionFrames})
  /\ attempts.text <= 2 * (1 + (IF post.kind = "photo" THEN post.slides ELSE 1 + Len(Batches(Min({VideoFrames, MaxVisionFrames})))))
  /\ attempts.speech <= 1

\* While images cost no more than their estimate, no batch of frames takes a run
\* over max_job_cost_cents, whatever caption and speech have cost before it.
ImagesWithinBudget ==
  [][post.kind = "video" /\ attempts'.image > attempts.image => cents' <= MaxJobCost]_vars

\* A run that has ended leaves no temporary directory, whichever stage failed.
NoFilesLeft == pc = "done" => dirs = {}

\* Every run comes to its end, though slides are skipped and batches fail.
RunEnds == <>(pc = "done")

\* A carousel of which a slide could not be read gives no recipe: the post is
\* reported as incomplete.  The code stops at the first complete recipe instead.
NoSilentPartialCarousel == job.status = "completed" => unread = {}

\* A run that tried to read images is charged for it, though the call failed.
\* The code records the price only once the model has answered.
AttemptedOcrIsCharged ==
  \A record \in DOMAIN job.bills : attempts.image > 0 => job.bills[record] > 0
=============================================================================
