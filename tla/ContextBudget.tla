--------------------------- MODULE ContextBudget ---------------------------
(***************************************************************************)
(* What of a pull request reaches the question provider: the hunks that    *)
(* buildBoundedRevisionSourceV1 selects under its budgets, the loop that   *)
(* takes hunks away until a context can be built from the rest, and the    *)
(* trimming of that context's provider material                            *)
(* (packages/analysis/src/generation-context.ts, analyze.ts).              *)
(*                                                                         *)
(* Texts are sizes.  A file is named by its place in path order.  No       *)
(* caller passes excerpts, so the material has none.                       *)
(***************************************************************************)
EXTENDS Integers, Sequences, FiniteSets, FiniteSetsExt

CONSTANTS
    Sources,        \* pull requests: [title, body, files], a file [kind, hunks],
                    \* a hunk [bytes, lines]
    MaxFiles, MaxHunks, MaxTotal, MaxFile, MaxTitle, MaxBody,  \* limits
    MaxExclusions,  \* longest list of exclusions the schema accepts
    LineLimit,      \* changed lines the analyzer accepts
    Escape,         \* bytes of JSON of one byte of a patch
    Frame, FileCost, AnchorCost, ExclusionCost, HitCost  \* JSON of the rest

Hits == {"file_count", "hunk_count", "file_bytes", "total_bytes",
         "title_bytes", "body_bytes", "source_patch_unavailable"}

\* Without any text the material fits: the schema's least limit is 1024 bytes.
EnvelopeFits == Frame + HitCost * Cardinality(Hits) <= MaxTotal

VARIABLES
    source,
    phase,      \* "start", "selecting", "fitting", "accepted", "refused"
    file, hunk, \* the loop's file and hunk
    title, body,
    kept,       \* BoundedRevisionSourceV1.files: the hunks of each
    remaining, fileBytes, patchBytes,   \* the loop's counters
    exclusions, \* the paths excluded, each as often as it is listed
    hits,       \* limitsHit
    context     \* the provider material of an accepted source

vars == <<source, phase, file, hunk, title, body, kept, remaining, fileBytes,
          patchBytes, exclusions, hits, context>>

Least(a, b) == IF a < b THEN a ELSE b

\* The sum of a sequence of numbers.
Total(numbers) ==
  LET total[n \in 0 .. Len(numbers)] ==
        IF n = 0 THEN 0 ELSE total[n - 1] + numbers[n]
  IN total[Len(numbers)]

\* Hunks are joined by newlines.
Bytes(hunks) == IF hunks = <<>> THEN 0
                ELSE Total([h \in DOMAIN hunks |-> hunks[h].bytes])
                       + Len(hunks) - 1
Lines(hunks) == Total([h \in DOMAIN hunks |-> hunks[h].lines])
HunksOf(files) == Total([f \in DOMAIN files |-> Len(files[f])])
BytesOf(files) == Total([f \in DOMAIN files |-> Bytes(files[f])])

Selected == Least(MaxFiles, Len(source.files))
NoContext == [title |-> 0, body |-> 0, exclusions |-> 0, hits |-> {}]
------------------------------------------------------------------------------
(* buildBoundedRevisionSourceV1.                                           *)

Init ==
    /\ source \in Sources
    /\ phase = "start"
    /\ file = 1 /\ hunk = 1
    /\ title = 0 /\ body = 0
    /\ kept = <<>>
    /\ remaining = 0 /\ fileBytes = 0 /\ patchBytes = 0
    /\ exclusions = [f \in DOMAIN source.files |-> 0]
    /\ hits = {}
    /\ context = NoContext

\* Title and body are cut to their limits; files beyond the limit are listed.
Start ==
    /\ phase = "start" /\ phase' = "selecting"
    /\ title' = Least(source.title, MaxTitle)
    /\ LET room == MaxTotal - title'
           limit == Least(MaxBody, room)
       IN /\ body' = Least(source.body, limit)
          /\ remaining' = room - body'
          /\ exclusions' = [f \in DOMAIN source.files |->
                               IF f > MaxFiles THEN 1 ELSE 0]
          /\ hits' =
               {h \in Hits :
                  \/ h = "title_bytes" /\ title' < source.title
                  \/ h = "body_bytes" /\ body' < source.body
                  \/ /\ h = "total_bytes" /\ body' < source.body
                     /\ limit < Least(MaxBody, source.body)
                  \/ h = "file_count" /\ Len(source.files) > MaxFiles
                  \/ /\ h = "source_patch_unavailable"
                     /\ \E f \in DOMAIN source.files :
                           source.files[f].kind = "no_patch"}
    /\ UNCHANGED <<source, file, hunk, kept, fileBytes, patchBytes, context>>

Selecting == phase = "selecting" /\ file <= Selected

\* Only text with hunks can be included; the rest is listed with a reason.
Skip ==
    /\ Selecting /\ source.files[file].kind # "text"
    /\ kept' = Append(kept, <<>>)
    /\ exclusions' = [exclusions EXCEPT ![file] = @ + 1]
    /\ file' = file + 1
    /\ UNCHANGED <<source, phase, hunk, title, body, remaining, fileBytes,
                   patchBytes, hits, context>>

AtHunk == /\ Selecting /\ source.files[file].kind = "text"
          /\ hunk <= Len(source.files[file].hunks)

\* With the newline before it, unless it is the file's first.
NextBytes == source.files[file].hunks[hunk].bytes + (IF hunk = 1 THEN 0 ELSE 1)

\* The budget that the next hunk would exceed, in the order they are tried.
Exceeded ==
    IF HunksOf(kept) + hunk > MaxHunks THEN {"hunk_count"}
    ELSE IF fileBytes + NextBytes > MaxFile THEN {"file_bytes"}
    ELSE IF NextBytes > remaining THEN {"total_bytes"}
    ELSE {}

Include ==
    /\ AtHunk /\ Exceeded = {}
    /\ fileBytes' = fileBytes + NextBytes
    /\ patchBytes' = patchBytes + NextBytes
    /\ remaining' = remaining - NextBytes
    /\ hunk' = hunk + 1
    /\ UNCHANGED <<source, phase, file, title, body, kept, exclusions, hits,
                   context>>

\* The file ends at its last hunk, or at the first that exceeds a budget.
EndFile ==
    /\ Selecting /\ source.files[file].kind = "text"
    /\ \/ /\ hunk > Len(source.files[file].hunks)
          /\ UNCHANGED <<exclusions, hits>>
       \/ /\ AtHunk /\ Exceeded # {}
          /\ exclusions' = [exclusions EXCEPT ![file] = @ + 1]
          /\ hits' = hits \cup Exceeded
    /\ kept' = Append(kept, SubSeq(source.files[file].hunks, 1, hunk - 1))
    /\ file' = file + 1 /\ hunk' = 1 /\ fileBytes' = 0
    /\ UNCHANGED <<source, phase, title, body, remaining, patchBytes, context>>

\* BoundedRevisionSourceV1Schema: the counter and the budgets agree with the
\* content.
WellFormed(files, counted, listed) ==
    /\ counted = BytesOf(files)
    /\ HunksOf(files) <= MaxHunks
    /\ \A f \in DOMAIN files : Bytes(files[f]) <= MaxFile
    /\ title + body + counted <= MaxTotal
    /\ Total(listed) <= MaxExclusions

Finish ==
    /\ phase = "selecting" /\ file > Selected
    /\ phase' = IF WellFormed(kept, patchBytes, exclusions)
                THEN "fitting" ELSE "refused"
    /\ UNCHANGED <<source, file, hunk, title, body, kept, remaining, fileBytes,
                   patchBytes, exclusions, hits, context>>
------------------------------------------------------------------------------
(* buildGenerationContextV1, on the analysis of the selected hunks.        *)

\* analyzePullRequestPatch stops at the file that exceeds the line limit.
Analyzed ==
    {f \in DOMAIN kept :
        Total([g \in 1 .. f |-> Lines(kept[g])]) <= LineLimit}

\* A hunk has an anchor if a line changed; "---" and "+++" do not count.
\* The material has the files with an anchor.
Anchors(f) == {h \in DOMAIN kept[f] : kept[f][h].lines > 0}
Shown == {f \in Analyzed : Anchors(f) # {}}

\* GenerationContextV1Schema: the bytes of the source are those of the files.
CoversSource ==
    patchBytes = Total([f \in DOMAIN kept |->
                          IF f \in Shown THEN Bytes(kept[f]) ELSE 0])

\* The JSON of the files in the material.
FilesSize ==
    Total([f \in DOMAIN kept |->
             IF f \in Shown THEN FileCost + Escape * Bytes(kept[f])
                                    + AnchorCost * Cardinality(Anchors(f))
             ELSE 0])

\* The material, as [title, body, exclusions (how many), hits], with the files.
Size(m) ==
    Frame + m.title + m.body + ExclusionCost * m.exclusions
      + HitCost * Cardinality(m.hits) + FilesSize
Fits(m) == Size(m) <= MaxTotal

\* As much of a list or a text as fits, none if nothing does.
Largest(room) == Max({0} \cup room)

\* Exclusions go first, from the end, then the body's end, then the title's.
Trim(m) ==
    LET listed == [m EXCEPT !.exclusions =
                Largest({k \in 0 .. @ : Fits([m EXCEPT !.exclusions = k])})]
        bodied == [listed EXCEPT !.body =
                Largest({k \in 0 .. @ : Fits([listed EXCEPT !.body = k])})]
    IN [bodied EXCEPT !.title =
                Largest({k \in 0 .. @ : Fits([bodied EXCEPT !.title = k])})]

Marked(m) == [m EXCEPT !.hits = @ \cup {"total_bytes"}]

\* Faulty variant: a trimming leaves no marker.
FitUnmarked(m) == Trim(m)

\* The marker of a trimming takes room too, so the trimming is repeated.
Fit(m) ==
    LET once == Trim(m) IN
    IF once = m \/ "total_bytes" \in m.hits THEN once ELSE Trim(Marked(once))

Material == Fit([title |-> title, body |-> body,
                 exclusions |-> Total(exclusions), hits |-> hits])
Builds == CoversSource /\ Fits(Material)
------------------------------------------------------------------------------
(* fitBoundedSourceToProviderEnvelope.                                     *)

Accept ==
    /\ phase = "fitting" /\ Builds
    /\ phase' = "accepted"
    /\ context' = Material
    /\ UNCHANGED <<source, file, hunk, title, body, kept, remaining, fileBytes,
                   patchBytes, exclusions, hits>>

Texts == {f \in DOMAIN kept : kept[f] # <<>>}

\* removeLastBoundedHunk: without its last hunk.
Without(f) == SubSeq(kept[f], 1, Len(kept[f]) - 1)

\* Otherwise the last hunk of the last text file goes, and the rest is tried.
Reduce ==
    /\ phase = "fitting" /\ ~Builds
    /\ IF Texts = {}
       THEN /\ phase' = "refused"
            /\ UNCHANGED <<kept, patchBytes, exclusions, hits>>
       ELSE LET f == Max(Texts) IN
            /\ kept' = [kept EXCEPT ![f] = Without(f)]
            /\ exclusions' = [exclusions EXCEPT ![f] = @ + 1]
            /\ patchBytes' = BytesOf(kept')
            /\ hits' = hits \cup {"total_bytes"}
            /\ phase' = IF WellFormed(kept', patchBytes', exclusions')
                        THEN "fitting" ELSE "refused"
    /\ UNCHANGED <<source, file, hunk, title, body, remaining, fileBytes,
                   context>>

Next == Start \/ Skip \/ Include \/ EndFile \/ Finish \/ Accept \/ Reduce

Spec == Init /\ [][Next]_vars
------------------------------------------------------------------------------
(* Properties.                                                             *)

TypeOK ==
    /\ source \in Sources
    /\ phase \in {"start", "selecting", "fitting", "accepted", "refused"}
    /\ file \in 1 .. Selected + 1 /\ hunk \in Nat
    /\ {title, body, remaining, fileBytes, patchBytes} \subseteq 0 .. MaxTotal
    /\ Len(kept) <= Selected
    /\ DOMAIN exclusions = DOMAIN source.files
    /\ hits \subseteq Hits /\ context.hits \subseteq Hits

\* No pull request is too large to be prepared: budgets, separators and
\* markers add up, and only an overlong list of exclusions refuses a source
\* (removeLastBoundedHunk adds one for each hunk it takes).
BoundingRefusesNothing ==
    phase = "refused" => Total(exclusions) > MaxExclusions

Complete(f) == f <= Len(kept) /\ kept[f] = source.files[f].hunks
                 /\ source.files[f].kind = "text"

\* The provider is told of what it does not see: a file with anything left out
\* is listed, or a limit says that something is missing; likewise title and
\* body (limitsHit and exclusions of fitGenerationProviderMaterial).
NothingVanishesSilently ==
    phase = "accepted" =>
      /\ \/ "total_bytes" \in context.hits
         \/ /\ context.exclusions = Total(exclusions)
            /\ \A f \in DOMAIN source.files :
                  Complete(f) \/ exclusions[f] > 0
      /\ context.title < source.title
           => context.hits \cap {"title_bytes", "total_bytes"} # {}
      /\ context.body < source.body
           => context.hits \cap {"body_bytes", "total_bytes"} # {}

\* What is shown of a file is its beginning, without a gap in between.
PatchHasNoGap ==
    \A f \in DOMAIN kept :
       kept[f] = SubSeq(source.files[f].hunks, 1, Len(kept[f]))

\* The analysis stored with an accepted source has read every file of it: the
\* analyzer's own line limit is never what cuts the anchors.
AnalysisIsComplete ==
    phase = "accepted" => \A f \in Texts : f \in Analyzed /\ Anchors(f) # {}

\* Budgets, markers and schema agree about what the provider is shown, and an
\* acceptable pull request is not refused (generation-context.ts
\* buildBoundedRevisionSourceV1, fitBoundedSourceToProviderEnvelope,
\* fitGenerationProviderMaterial).
ContextInv ==
    /\ TypeOK
    /\ BoundingRefusesNothing
    /\ NothingVanishesSilently
    /\ PatchHasNoGap
    /\ AnalysisIsComplete
=============================================================================
