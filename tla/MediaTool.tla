----------------------------- MODULE MediaTool -----------------------------
(***************************************************************************)
(* The worker decodes a private recording three ways: ffprobe validates a  *)
(* finished upload, ffmpeg cuts a review frame and ffmpeg extracts the     *)
(* audio that is transcribed question by question.  Each time a child      *)
(* process is fed plaintext while its ciphertext is still being read and   *)
(* authenticated, so storage, the child, its timers and (for audio) the    *)
(* provider deadline race each other.                                      *)
(***************************************************************************)
EXTENDS Naturals, Sequences, FiniteSetsExt

CONSTANTS Blocks,     \* framed records of the recording
          Limit,      \* chunks of output the decoder may produce
          Recorded,   \* the manifest's duration, in quarter seconds
          Decoded,    \* the decoded durations that occur
          Intervals,  \* the question intervals, <<start, end>>: in order, without
                      \* overlap, within the manifest's duration
          None

VARIABLES
  tool,      \* the decoder this call runs
  boundary,  \* the deadline that comes first: "provider" or "tool"
  clock,     \* what has passed: nothing, the tool's timeout, the provider's
  child,     \* the process: state, exit code, reads its stdin, output, timer
  outcome,   \* the promise of the child's result
  observed,  \* someone waits for that promise
  input,     \* the pipeline still writes to stdin, and the error it swallowed
  blocks,    \* records authenticated and handed over
  failure,   \* the audio fence's authoritative error
  held,      \* plaintext buffers of the audio call not overwritten yet
  decoded,   \* the duration of the decoded audio, in quarter seconds
  clips,     \* the question clips transcribed
  pc, error  \* where the call is, and what it threw

vars == <<tool, boundary, clock, child, outcome, observed, input, blocks,
          failure, held, decoded, clips, pc, error>>
callVars == <<tool, boundary>>
childVars == <<child, outcome, observed>>

Tools == {"ffprobe", "frame", "audio"}
Errors == {"deadline", "terminal", "tool", "storage", "integrity", "stdin",
           "review", "provider"}

TypeOK ==
  /\ tool \in Tools /\ boundary \in {"provider", "tool"}
  /\ clock \in {"early", "due", "late"}
  /\ child \in [state: {"none", "running", "exited", "closed"}, code: {0, 1},
                reads: BOOLEAN, out: 0..(Limit + 1), timedOut: BOOLEAN]
  /\ outcome \in {"pending", "fulfilled", "rejected"}
  /\ observed \in BOOLEAN
  /\ input \in [accepting: BOOLEAN, closed: BOOLEAN]
  /\ blocks \in 0..Blocks
  /\ failure \in {None, "deadline", "terminal"}
  /\ held \subseteq {"output", "pcm"}
  /\ decoded \in Decoded \cup {0}
  /\ clips \in Seq([start: Nat, end: Nat]) /\ Len(clips) <= Len(Intervals)
  /\ pc \in {"start", "opening", "reading", "writing", "waiting", "failing",
             "asking", "settled", "crashed"}
  /\ error \in {None, "ok"} \cup Errors

Init ==
  /\ tool \in Tools /\ boundary \in {"provider", "tool"}
  /\ tool # "audio" => boundary = "tool"
  /\ clock = "early"
  /\ child = [state |-> "none", code |-> 0, reads |-> TRUE, out |-> 0,
              timedOut |-> FALSE]
  /\ outcome = "pending" /\ observed = FALSE
  /\ input = [accepting |-> TRUE, closed |-> FALSE]
  /\ blocks = 0 /\ failure = None /\ held = {} /\ decoded = 0 /\ clips = <<>>
  /\ pc = "start" /\ error = None

----------------------------------------------------------------------------
(* The child process, and the promise of its result. *)

\* kill("SIGKILL") reaches a running child only.
Killed(c) == IF c.state = "running"
             THEN [c EXCEPT !.state = "exited", !.code = 1] ELSE c

\* When the audio call is past its fence: an error that was set, or the
\* provider's deadline when it is looked at.
Failure == IF tool # "audio" THEN None
           ELSE IF failure # None THEN failure
           ELSE IF clock = "late" THEN "deadline" ELSE None

TooLarge == child.out > Limit

\* What the child printed decodes: one VP8 and one Opus stream with packets
\* (ffprobe), a bounded JPEG (frame), at least one sample (audio).
Decodes == child.out > 0

\* A rejection nobody waits for ends the worker process.
Unobserved ==
  pc' = IF outcome' = "rejected" /\ ~observed THEN "crashed" ELSE pc

SpawnFails ==
  /\ child.state = "running" /\ child.out = 0 /\ blocks = 0
  /\ child' = [child EXCEPT !.state = "closed", !.code = 1, !.reads = FALSE]
  /\ outcome' = "rejected"
  /\ input' = [input EXCEPT !.accepting =
                 IF observed /\ tool # "ffprobe" THEN FALSE ELSE @]
  /\ held' = held \ {"output"}
  /\ Unobserved
  /\ UNCHANGED <<callVars, clock, observed, blocks, failure, decoded, clips, error>>

\* One chunk of output; the chunk beyond the limit kills the child.
Output ==
  /\ child.state \in {"running", "exited"} /\ ~TooLarge
  /\ LET c == [child EXCEPT !.out = @ + 1]
     IN child' = IF c.out > Limit THEN Killed(c) ELSE c
  /\ UNCHANGED <<callVars, clock, outcome, observed, input, blocks, failure,
                 held, decoded, clips, pc, error>>

\* The child may stop reading before the recording ends: it has its frame.
StopsReading ==
  /\ child.state = "running" /\ child.reads
  /\ child' = [child EXCEPT !.reads = FALSE]
  /\ UNCHANGED <<callVars, clock, outcome, observed, input, blocks, failure,
                 held, decoded, clips, pc, error>>

Exit ==
  /\ child.state = "running"
  /\ \E code \in {0, 1} :
       child' = [child EXCEPT !.state = "exited", !.code = code, !.reads = FALSE]
  /\ UNCHANGED <<callVars, clock, outcome, observed, input, blocks, failure,
                 held, decoded, clips, pc, error>>

\* The close event settles the result.
Close ==
  /\ child.state = "exited"
  /\ child' = [child EXCEPT !.state = "closed", !.reads = FALSE]
  /\ \E decodes \in {Decodes, FALSE} :
       /\ tool = "audio" => decodes = Decodes
       /\ outcome' = IF child.code = 0 /\ ~TooLarge /\ ~child.timedOut /\ decodes
                     THEN "fulfilled" ELSE "rejected"
  /\ input' = [input EXCEPT !.accepting =
                 IF observed /\ tool # "ffprobe" THEN FALSE ELSE @]
  /\ held' = (held \ {"output"}) \cup
             IF tool = "audio" /\ outcome' = "fulfilled" THEN {"pcm"} ELSE {}
  /\ Unobserved
  /\ UNCHANGED <<callVars, clock, observed, blocks, failure, decoded, clips, error>>

----------------------------------------------------------------------------
(* Time. *)

Tick ==
  /\ pc # "start"
  /\ \/ clock = "early" /\ clock' = IF boundary = "provider" THEN "late" ELSE "due"
     \/ clock = "due" /\ tool = "audio" /\ clock' = "late"
  /\ UNCHANGED <<callVars, childVars, input, blocks, failure, held, decoded, clips, pc,
                 error>>

\* expire(): the first error stays, the child is killed; the ciphertext is
\* cancelled, which a stalled read sees (Cancelled).
FenceTimer ==
  /\ tool = "audio" /\ pc \notin {"start", "asking", "settled", "crashed"}
  /\ clock # "early" /\ failure = None
  /\ failure' = IF boundary = "provider" THEN "deadline" ELSE "terminal"
  /\ child' = Killed(child)
  /\ UNCHANGED <<callVars, clock, outcome, observed, input, blocks, held, decoded, clips,
                 pc, error>>

\* The child's own timer.  The audio fence's was set first, for the same
\* time, so it has run.  Only the audio result remembers that it fired.
ChildTimer ==
  /\ child.state \in {"running", "exited"} /\ clock # "early" /\ ~child.timedOut
  /\ tool = "audio" => failure # None
  /\ child' = [Killed(child) EXCEPT !.timedOut = (tool = "audio")]
  /\ tool # "audio" => child.state = "running"
  /\ UNCHANGED <<callVars, clock, outcome, observed, input, blocks, failure,
                 held, decoded, clips, pc, error>>

----------------------------------------------------------------------------
(* The call. *)

\* An audio source that is not bound to its manifest or comes too late starts
\* no child.
Refusals == {"terminal", "deadline"}

Running == [child EXCEPT !.state = "running"]

\* ffprobe has opened the object by now; the other two start their child
\* first.  The pipelines of ffprobe and audio observe the result at once,
\* that of the frame when the object is open.
Start ==
  /\ pc = "start"
  /\ \/ child' = Running
        /\ pc' = (IF tool = "ffprobe" THEN "reading" ELSE "opening")
        /\ observed' = (tool # "frame")
        /\ held' = (IF tool = "audio" THEN {"output"} ELSE {})
        /\ UNCHANGED error
     \/ tool = "audio" /\ pc' = "settled" /\ error' \in Refusals
        /\ UNCHANGED <<child, observed, held>>
  /\ UNCHANGED <<callVars, clock, outcome, input, blocks, failure, decoded, clips>>

\* The writer throws: the pipeline kills the child and waits for its result.
Throw(e) ==
  /\ pc' = "failing" /\ error' = e /\ child' = Killed(child)
  /\ UNCHANGED failure

\* assertProviderActive: past the fence, its error is set and thrown.
Expire == /\ pc' = "failing" /\ error' = Failure /\ child' = Killed(child)
          /\ failure' = Failure

Opens ==
  /\ pc = "opening"
  /\ observed' = TRUE
  /\ IF Failure = None
     THEN pc' = "reading" /\ UNCHANGED <<child, failure, error>>
     ELSE Expire
  /\ input' = [input EXCEPT !.accepting = @ /\ outcome = "pending"]
  /\ UNCHANGED <<callVars, clock, outcome, blocks, held, decoded, clips>>

\* A frame's child runs on when storage does not open the object.
OpenFails ==
  /\ pc = "opening"
  /\ IF tool = "frame"
     THEN pc' = "settled" /\ error' = "storage" /\ UNCHANGED <<child, failure>>
     ELSE Throw("storage")
  /\ UNCHANGED <<callVars, clock, outcome, observed, input, blocks, held, decoded, clips>>

\* Faulty variant: the reading stops when the decoder has had enough.
ReadsUntilTaken ==
  /\ pc = "reading" /\ blocks < Blocks
  /\ IF Failure # None THEN Expire
     ELSE /\ pc' = (IF input.accepting THEN "writing" ELSE "waiting")
          /\ UNCHANGED <<child, failure, error>>
  /\ UNCHANGED <<callVars, clock, outcome, observed, input, blocks, held,
                 decoded, clips>>

\* The next record authenticates.  A decoder that needs no more of it does
\* not stop the reading.
Reads ==
  /\ pc = "reading" /\ blocks < Blocks
  /\ IF Failure # None THEN Expire /\ UNCHANGED blocks
     ELSE /\ IF input.accepting
             THEN pc' = "writing" /\ UNCHANGED blocks
             ELSE blocks' = blocks + 1 /\ UNCHANGED pc
          /\ UNCHANGED <<child, failure, error>>
  /\ UNCHANGED <<callVars, clock, outcome, observed, input, held, decoded, clips>>

\* A record or the end of the object contradicts the manifest, or the
\* stream breaks.
ReadFails ==
  /\ pc = "reading"
  /\ \E e \in {"integrity", "storage"} : Throw(e)
  /\ UNCHANGED <<callVars, clock, outcome, observed, input, blocks, held, decoded, clips>>

\* Faulty variant: the cancellation is bound to the first block only.
CancelledBeforeData ==
  /\ pc = "reading" /\ failure # None /\ blocks = 0
  /\ Expire
  /\ UNCHANGED <<callVars, clock, outcome, observed, input, blocks, held,
                 decoded, clips>>

\* The cancelled ciphertext ends a read that would never return.
Cancelled ==
  /\ pc = "reading" /\ failure # None
  /\ Expire
  /\ UNCHANGED <<callVars, clock, outcome, observed, input, blocks, held, decoded, clips>>

\* stdin took the block, or the child no longer reads.  Frame and audio
\* swallow a closed stdin and go on reading; ffprobe does not.
Writes ==
  /\ pc = "writing"
  /\ child.state = "running" /\ child.reads
  /\ IF Failure = None
     THEN pc' = "reading" /\ blocks' = blocks + 1 /\ UNCHANGED <<child, failure, error>>
     ELSE Expire /\ UNCHANGED blocks
  /\ UNCHANGED <<callVars, clock, outcome, observed, input, held, decoded, clips>>

WriteFails ==
  /\ pc = "writing" /\ ~(child.state = "running" /\ child.reads)
  /\ IF tool = "ffprobe" THEN Throw("stdin") /\ UNCHANGED <<input, blocks>>
     ELSE /\ input' = [accepting |-> FALSE, closed |-> TRUE]
          /\ IF Failure = None
             THEN pc' = "reading" /\ blocks' = blocks + 1
                  /\ UNCHANGED <<child, failure, error>>
             ELSE Expire /\ UNCHANGED blocks
  /\ UNCHANGED <<callVars, clock, outcome, observed, held, decoded, clips>>

WriteBreaks ==
  /\ pc = "writing" /\ Throw("stdin")
  /\ UNCHANGED <<callVars, clock, outcome, observed, input, blocks, held, decoded, clips>>

\* The object ended where the manifest says: stdin ends, the result is due.
EndsWhole ==
  /\ pc = "reading" /\ blocks = Blocks
  /\ IF Failure = None
     THEN pc' = "waiting" /\ UNCHANGED <<child, failure, error>>
     ELSE Expire
  /\ UNCHANGED <<callVars, clock, outcome, observed, input, blocks, held, decoded, clips>>

\* The fence's error replaces whatever it caused.
Settle(e) == /\ pc' = "settled"
             /\ error' = IF failure # None THEN failure ELSE e

Result ==
  /\ pc = "waiting" /\ outcome # "pending"
  /\ IF outcome = "rejected"
     THEN Settle(IF tool = "audio" THEN "terminal" ELSE "tool")
          /\ UNCHANGED <<failure, held, decoded>>
     ELSE /\ failure' = Failure
          /\ IF tool = "audio" /\ Failure = None
             THEN pc' = "asking" /\ decoded' \in Decoded /\ UNCHANGED <<error, held>>
             ELSE /\ pc' = "settled" /\ held' = {} /\ UNCHANGED decoded
                  /\ error' = IF Failure = None THEN "ok" ELSE Failure
  /\ UNCHANGED <<callVars, clock, childVars, input, blocks, clips>>

\* Faulty variant: the call ends without waiting for the child it killed.
FailsAtOnce ==
  /\ pc = "failing"
  /\ Settle(error) /\ held' = held \ {"pcm"}
  /\ UNCHANGED <<callVars, clock, childVars, input, blocks, failure, decoded, clips>>

\* A result that arrives after the writer failed is overwritten.
Fails ==
  /\ pc = "failing" /\ outcome # "pending"
  /\ Settle(error) /\ held' = held \ {"pcm"}
  /\ UNCHANGED <<callVars, clock, childVars, input, blocks, failure, decoded, clips>>

----------------------------------------------------------------------------
(* Transcription of the decoded audio, one stored interval at a time. *)

\* In quarter seconds: 1500 ms at most, 500 ms at least, else a tenth.
AllowedDrift == Min({6, Max({2, Recorded \div 10})})

Drift(d) == IF d > Recorded THEN d - Recorded ELSE Recorded - d

\* A clip may end up to 250 ms after the decoded audio.
ClipEnd(end, d) == IF end > d /\ end - d <= 1 THEN d ELSE end

\* A question's clip lies in the decoded audio.
Available(i) ==
  LET end == ClipEnd(Intervals[i][2], decoded)
  IN end <= decoded /\ Intervals[i][1] < end

\* A transcript of another clip, model or language goes to review, an error
\* of the call keeps its own disposition.
Unanswered == {"review", "provider"}

Assembled == Len(clips) = Len(Intervals)

\* The next question: a decoded duration off the manifest's, the provider's
\* deadline or a missing clip ends the call, as does a call that fails or is
\* answered for another clip.  Whatever ends it, the audio is overwritten.
AskEnds(e) == /\ pc' = "settled" /\ error' = e /\ held' = {} /\ UNCHANGED clips

Ask ==
  /\ pc = "asking"
  /\ LET i == Len(clips) + 1
     IN IF Drift(decoded) > AllowedDrift THEN AskEnds("review")
        ELSE IF Assembled THEN AskEnds("ok")
        ELSE IF clock = "late" THEN AskEnds("deadline")
        ELSE IF ~Available(i) THEN AskEnds("review")
        ELSE \/ /\ clips' = Append(clips, [start |-> Intervals[i][1],
                                     end |-> ClipEnd(Intervals[i][2], decoded)])
                /\ UNCHANGED <<held, pc, error>>
             \/ \E e \in Unanswered : AskEnds(e)
  /\ UNCHANGED <<callVars, clock, childVars, input, blocks, failure, decoded>>

----------------------------------------------------------------------------
Next ==
  \/ Start \/ Opens \/ OpenFails \/ Reads \/ ReadFails \/ Cancelled
  \/ Writes \/ WriteFails \/ WriteBreaks \/ EndsWhole \/ Result \/ Fails \/ Ask
  \/ SpawnFails \/ Output \/ StopsReading \/ Exit \/ Close
  \/ Tick \/ FenceTimer \/ ChildTimer

\* Timers fire, a dead child's close event and the callbacks of a closed pipe
\* and a cancelled stream arrive.  Storage need not answer: a read that never
\* returns is a behaviour.
Fairness ==
  /\ WF_vars(Tick) /\ WF_vars(FenceTimer) /\ WF_vars(ChildTimer)
  /\ WF_vars(Close) /\ WF_vars(Cancelled) /\ WF_vars(WriteFails)
  /\ WF_vars(Result) /\ WF_vars(Fails)

Spec == Init /\ [][Next]_vars /\ Fairness

----------------------------------------------------------------------------
\* A decoded result is used only when the whole recording was authenticated,
\* even though the child may have had enough of it earlier
\* (runFrameExtractorPipeline, runAudioExtractorPipeline, runFfprobePipeline).
AuthenticatedBeforeUse ==
  pc = "asking" \/ error = "ok" =>
    blocks = Blocks /\ child.state = "closed" /\ child.code = 0 /\ ~TooLarge

\* A call that has returned or thrown has left no child running, except that
\* of a frame whose object was not opened (extractFrameWithFfmpeg starts it
\* first; its own timer ends it).
NoChildOutlivesItsCall ==
  pc = "settled" /\ child.state \notin {"none", "closed"} =>
    tool = "frame" /\ error = "storage"

\* A child that fails before anyone waits for it ends the worker: that is only
\* so for a frame whose object is still being opened or was not opened
\* (runFfprobePipeline: "becoming an unhandled process-level rejection").
RejectionsAreObserved ==
  pc = "crashed" => tool = "frame" /\ blocks = 0 /\ error \in {None, "storage"}

\* The fence's error is what the audio call throws, whatever the kill caused;
\* when the provider's deadline comes first a timeout is never terminal
\* (createAudioExtractionDeadlineFence).
FenceIsAuthoritative ==
  pc = "settled" =>
    /\ failure # None => error = failure
    /\ boundary = "provider" /\ (failure # None \/ child.timedOut) => error = "deadline"

\* No decoded audio is left in memory, not even that of a child which ended
\* well after its recording turned out false (extractPcm, fill(0)).
AudioIsOverwritten == pc = "settled" => held = {}

\* A transcript has one clip for each stored interval, in order, without
\* overlap, at most 250 ms short of it (clampQuestionClipEndByte).
TranscriptIsWhole ==
  tool = "audio" /\ error = "ok" =>
    /\ Len(clips) = Len(Intervals)
    /\ \A i \in DOMAIN clips :
         /\ clips[i].start = Intervals[i][1]
         /\ clips[i].start < clips[i].end /\ clips[i].end <= decoded
         /\ clips[i].end \in {Intervals[i][2] - 1, Intervals[i][2]}

\* Whatever storage does, a child that was started ends (its timers).
ChildEnds == child.state = "running" ~> child.state = "closed"

\* Once its object is open, an audio extraction ends although the stream may
\* stall (expire, cancellableCiphertextStream).
AudioExtractionEnds ==
  tool = "audio" /\ pc \in {"reading", "writing", "waiting", "failing"}
    ~> pc \in {"asking", "settled"}

\* What a decoder call gives back, throws and leaves in memory, however its
\* timers, its child and the storage stream fall together (media-finalize.ts,
\* frame-selection.ts, audio-transcription.ts).
DecoderInv ==
  /\ TypeOK
  /\ AuthenticatedBeforeUse
  /\ FenceIsAuthoritative
  /\ AudioIsOverwritten
  /\ TranscriptIsWhole

\* A failing call waits for the child it killed and observes its rejection;
\* the exceptions are those of a frame whose object does not open
\* (frame-selection.ts extractFrameWithFfmpeg).
FailureIsContained == NoChildOutlivesItsCall /\ RejectionsAreObserved

\* Children end, and audio calls with them (the timers of startFfprobe and
\* its siblings, cancellableCiphertextStream).
DecodingEnds == ChildEnds /\ AudioExtractionEnds
=============================================================================
