--------------------------- MODULE MCRecording ---------------------------
(***************************************************************************)
(* An attempt's recording: its upload and acceptance (AttemptEvidence) and *)
(* the child processes that decode it (MediaTool).  They share no state    *)
(* here, so a behaviour takes the steps of one of them.                    *)
(***************************************************************************)
EXTENDS AttemptEvidence, Sequences

CONSTANTS Blocks, Limit, Recorded, Decoded, Intervals

VARIABLES part, tool, boundary, clock, child, outcome, observed, input, blocks,
          failure, held, decoded, clips, pc, error

decoderVars == <<tool, boundary, clock, child, outcome, observed, input, blocks,
                 failure, held, decoded, clips, pc, error>>

Decoder == INSTANCE MediaTool

\* Durations and interval ends are stored as non-negative integers
\* (recording_manifests, attempt_answers).
ASSUME RecordingAssumption ==
  /\ Blocks \in Nat /\ Limit \in Nat /\ Recorded \in Nat /\ Decoded \subseteq Nat
  /\ Intervals \in Seq(Nat \X Nat)
ASSUME ErrorsAssumption == None \notin Decoder!Errors \cup {"ok"}

\* The instance: a recording of two records and 10 seconds, decoded up to 1.25
\* seconds off; two adjacent questions.
TwoQuestions == <<<<0, 20>>, <<20, 40>>>>

PartInit == /\ part \in {"attempt", "decoder"}
            /\ Init /\ Decoder!Init
            /\ part = "decoder" \/ tool = "ffprobe"
            /\ part = "attempt" \/ open

PartNext ==
  \/ part = "attempt" /\ Next /\ UNCHANGED <<part, decoderVars>>
  \/ part = "decoder" /\ Decoder!Next /\ UNCHANGED <<part, vars>>

\* No fair action of either part is enabled before the part's first step.
PartSpec == /\ PartInit /\ [][PartNext]_<<part, vars, decoderVars>>
            /\ Fairness /\ Decoder!Fairness

\* What a decoder call gives back, throws and leaves in memory (MediaTool;
\* media-finalize.ts, frame-selection.ts, audio-transcription.ts).
DecoderInv == Decoder!DecoderInv

\* A failing call waits for its child and observes it (MediaTool;
\* runFfprobePipeline and its siblings).
FailureIsContained == Decoder!FailureIsContained

\* Children and audio calls end (MediaTool; the timers and
\* cancellableCiphertextStream).
DecodingEnds == Decoder!DecodingEnds
=============================================================================
