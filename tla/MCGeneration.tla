---------------------------- MODULE MCGeneration ----------------------------
(***************************************************************************)
(* The generation of questions and feedback: the bounding of the pull      *)
(* request they are about (ContextBudget) and the jobs that produce them   *)
(* (SemanticGeneration).  They share no state here, so a behaviour takes   *)
(* the steps of one of them.                                               *)
(***************************************************************************)
EXTENDS SemanticGeneration, Sequences

CONSTANTS Sources, MaxFiles, MaxHunks, MaxTotal, MaxFile, MaxTitle, MaxBody,
          MaxExclusions, LineLimit, Escape, Frame, FileCost, AnchorCost,
          ExclusionCost, HitCost

VARIABLES part, source, phase, file, hunk, title, body, kept, remaining,
          fileBytes, patchBytes, exclusions, hits, context

boundVars == <<source, phase, file, hunk, title, body, kept, remaining,
               fileBytes, patchBytes, exclusions, hits, context>>

\* Hunks of one and of three bytes, and one that only deletes a comment.
Hunk == {[bytes |-> 1, lines |-> 1], [bytes |-> 3, lines |-> 2],
         [bytes |-> 1, lines |-> 0]}
TextFile == {[kind |-> "text", hunks |-> h] :
                h \in {<<a>> : a \in Hunk} \cup (Hunk \X Hunk)}
Other(k) == [kind |-> k, hunks |-> <<>>]
\* Up to three files, of which two can be selected.
Files == {<<f>> : f \in TextFile} \cup (TextFile \X TextFile)
           \cup ({Other("no_patch"), Other("generated")} \X TextFile
                   \X {Other("malformed_patch")})
PullRequests == [title : {1, 3}, body : {0, 4}, files : Files]

Bounding == INSTANCE ContextBudget

\* Limits and costs are natural numbers, a title's limit is within that of the
\* whole, and the empty material fits (GenerationContextLimitsV1Schema).
ASSUME LimitsAssumption ==
  /\ {MaxFiles, MaxHunks, MaxTotal, MaxFile, MaxTitle, MaxBody, MaxExclusions,
      LineLimit, Escape, Frame, FileCost, AnchorCost, ExclusionCost, HitCost}
       \subseteq Nat
  /\ MaxTitle <= MaxTotal
  /\ Bounding!EnvelopeFits

\* A hunk has a header at least (parsePatchHunks).
HunkRow == [bytes : Nat \ {0}, lines : Nat]
SourceRow == [title : Nat, body : Nat,
              files : Seq([kind : STRING, hunks : Seq(HunkRow)])]
ASSUME SourcesAssumption == \A s \in Sources : s \in SourceRow

\* One pull request stands still beside the jobs.
Smallest == [title |-> 1, body |-> 0,
             files |-> <<[kind |-> "text",
                          hunks |-> <<[bytes |-> 1, lines |-> 1]>>]>>]

PartInit == /\ part \in {"jobs", "bounding"}
            /\ Init /\ Bounding!Init
            /\ part = "jobs" => source = Smallest
            /\ part = "bounding" => storable

PartNext ==
  \/ part = "jobs" /\ Next /\ UNCHANGED <<part, boundVars>>
  \/ part = "bounding" /\ Bounding!Next /\ UNCHANGED <<part, vars>>

\* The jobs are scheduled fairly, once they are the part that runs.
PartSpec == /\ PartInit /\ [][PartNext]_<<part, vars, boundVars>>
            /\ part = "jobs" => Fairness

\* What the provider is shown of a pull request (ContextBudget, ContextInv;
\* generation-context.ts).
ContextInv == Bounding!ContextInv
=============================================================================
