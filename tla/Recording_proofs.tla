-------------------------- MODULE Recording_proofs --------------------------
(***************************************************************************)
(* Proofs about an attempt's recording: AttemptEvidence for any set of     *)
(* upload requests and any number of deliveries of the media job, and      *)
(* MediaTool for any recording, output limit and question intervals.       *)
(***************************************************************************)
EXTENDS MCRecording, SequenceTheorems, TLAPS

USE EvidenceNoneAssumption, MaxMediaRunsAssumption

-----------------------------------------------------------------------------
(* The inductive invariant.                                                *)

\* A live attempt belongs to the head, private evidence to an open one.
LiveIsCurrent ==
    /\ status \in Live => current
    /\ status \in {"processing", "review_required"} => open

\* A request owns its multipart until it has answered; the session names the
\* multipart of one that has.
MultipartHasOneOwner ==
    /\ \A u \in Requests : start[u] = "created" => store[u] = "open"
    /\ owner # None => start[owner] = "done"
    /\ upload = "active" => store[owner] = "open"
    /\ upload = "pending_finalization" /\ runs = 0 => store[owner] = "open"

\* Who clears a multipart has reserved its session, which never comes back.
ClearingIsReserved ==
    abort = "clear" \/ expiry = "clear" => upload \in {"aborting", "failed"}

\* The media handler and its recording come after an accepted upload.
MediaFollowsUpload ==
    /\ media # "idle" =>
         /\ runs >= 1
         /\ upload \in {"pending_finalization", "completed", "failed"}
    /\ upload = "completed" => runs >= 1
    /\ media = "valid" => store[owner] = "object"
    /\ recording => runs >= 1 /\ upload \in {"completed", "failed"}
    /\ status = "review_required" => recording

\* Until the media job is delivered again: a recording ends its only run, and
\* evidence is destroyed for dead attempts only.
FirstRunIsConsistent ==
    runs <= 1 =>
        /\ recording => media = "idle" /\ store[owner] = "object"
        /\ material = "destroyed" \/ upload = "failed" => status \notin Live

\* An upload starts with the phone's wrapping material.
UploadHasMaterial == \A u \in Requests : start[u] # "idle" => material # "none"

\* The inductive invariant.
IInv ==
    /\ TypeOK
    /\ UploadFitsStatus
    /\ LiveIsCurrent
    /\ MultipartHasOneOwner
    /\ ClearingIsReserved
    /\ MediaFollowsUpload
    /\ FirstRunIsConsistent
    /\ UploadHasMaterial

\* A new attempt has no upload, no job and no evidence.
LEMMA InitIInv == Init => IInv
<1> SUFFICES ASSUME Init PROVE IInv
  OBVIOUS
<1>1. TypeOK
  <2>1. status \in Live /\ upload \in UploadStates /\ runs \in 0..MaxMediaRuns
    BY DEF Init, Live, Abortable, UploadStates
  <2> QED
    BY <2>1 DEF Init, TypeOK
<1>2. UploadFitsStatus /\ LiveIsCurrent
  BY DEF Init, UploadFitsStatus, LiveIsCurrent
<1>3. MultipartHasOneOwner /\ ClearingIsReserved /\ MediaFollowsUpload
  BY DEF Init, MultipartHasOneOwner, ClearingIsReserved, MediaFollowsUpload
<1>4. FirstRunIsConsistent /\ UploadHasMaterial
  BY DEF Init, FirstRunIsConsistent, UploadHasMaterial
<1> QED
  BY <1>1, <1>2, <1>3, <1>4 DEF IInv

\* What the run checks follows: accepted bytes stay intact, and a review has its
\* recording behind it (upload-finalization.ts, attempt-lifecycle.ts).
LEMMA EvidenceOfIInv == IInv => EvidenceInv
  BY DEF IInv, EvidenceInv, TypeOK, UploadFitsStatus, AcceptedUploadIsIntact,
      EvidenceBehindReview, MultipartHasOneOwner, MediaFollowsUpload,
      FirstRunIsConsistent, UploadHasMaterial, Live

\* Every transaction of the upload routes, the abort, the expiry job and the media
\* job preserves it, in any order (upload-finalization.ts, attempt-lifecycle.ts,
\* attempt-expiry.ts, media-finalize.ts).
LEMMA StepIInv == IInv /\ [Next]_vars => IInv'
<1> SUFFICES ASSUME IInv, [Next]_vars PROVE IInv'
  OBVIOUS
<1> USE DEF IInv, TypeOK, UploadFitsStatus, LiveIsCurrent, MultipartHasOneOwner,
    ClearingIsReserved, MediaFollowsUpload, FirstRunIsConsistent,
    UploadHasMaterial, Live, Abortable, Terminal, UploadStates, attemptVars,
    evidenceVars, mediaVars, expiryVars
<1>1. ASSUME NEW c \in BOOLEAN, NEW o \in BOOLEAN, ProcessSnapshot(c, o)
      PROVE  IInv'
  BY <1>1 DEF ProcessSnapshot
<1>2. CASE DeadlinePasses
  BY <1>2 DEF DeadlinePasses
<1>3. CASE ExchangeRead
  BY <1>3 DEF ExchangeRead
<1>4. CASE ExchangeCommit
  BY <1>4 DEF ExchangeCommit
<1>5. CASE StartAttempt
  BY <1>5 DEF StartAttempt
<1>6. ASSUME NEW u \in Requests, UploadAuthorize(u)
      PROVE  IInv'
  BY <1>6 DEF UploadAuthorize
<1>7. ASSUME NEW u \in Requests, UploadCreateMultipart(u)
      PROVE  IInv'
  BY <1>7 DEF UploadCreateMultipart
<1>8. ASSUME NEW u \in Requests, UploadCommit(u)
      PROVE  IInv'
  BY <1>8 DEF UploadCommit, StillUploadable
<1>9. ASSUME NEW u \in Requests, UploadReject(u)
      PROVE  IInv'
  BY <1>9 DEF UploadReject
<1>10. CASE FinalizeUpload
  BY <1>10 DEF FinalizeUpload
<1>11. CASE FinalizeReplay
  BY <1>11 DEF FinalizeReplay
<1>12. CASE AbortReserve
  BY <1>12 DEF AbortReserve, UploadAbortable, ReserveUpload, AfterReserve
<1>13. CASE AbortClear
  BY <1>13 DEF AbortClear, ClearStore
<1>14. CASE AbortCommit
  BY <1>14 DEF AbortCommit, DestroyIncompleteEvidence
<1>15. CASE AbortDies
  BY <1>15 DEF AbortDies
<1>16. CASE ExpiryReserve
  BY <1>16 DEF ExpiryReserve, UploadAbortable, ReserveUpload, AfterReserve,
      CleanupOnly, Expirable
<1>17. CASE ExpiryClear
  BY <1>17 DEF ExpiryClear, ClearStore
<1>18. CASE ExpiryCommit
  BY <1>18 DEF ExpiryCommit, DestroyIncompleteEvidence, CleanupOnly, Expirable
<1>19. CASE ExpiryFails
  BY <1>19 DEF ExpiryFails
<1>20. CASE ExpirySweep
  BY <1>20 DEF ExpirySweep
<1>21. CASE MediaLoad
  <2>1. runs' \in 0..MaxMediaRuns /\ runs' >= 1 /\ (runs' <= 1 => runs = 0)
    BY <1>21 DEF MediaLoad
  <2>2. completed' \in BOOLEAN
    <3>1. completed' = (MediaAuthorized /\ upload = "completed")
      BY <1>21 DEF MediaLoad
    <3> QED
      BY <3>1, Zenon
  <2>3. (media' = "loaded" /\ MediaAuthorized) \/ media' = "idle"
    BY <1>21 DEF MediaLoad
  <2>4. UNCHANGED <<attemptVars, evidenceVars, exchange, start, abort, expiryVars>>
        /\ mediaJob' = FALSE
    BY <1>21 DEF MediaLoad
  <2>5. TypeOK'
    <3>1. mediaJob' \in BOOLEAN /\ media' \in {"idle", "loaded"}
      BY <2>3, <2>4
    <3>2. UNCHANGED <<status, current, open, due, material, upload, owner, store,
                      recording, exchange, start, abort, expiryJob, expiry>>
      BY <2>4
    <3> QED
      BY <2>1, <2>2, <3>1, <3>2
  <2>6. UploadFitsStatus' /\ LiveIsCurrent' /\ MultipartHasOneOwner'
        /\ ClearingIsReserved' /\ UploadHasMaterial'
    BY <2>1, <2>4
  <2>7. MediaFollowsUpload' /\ FirstRunIsConsistent'
    BY <2>1, <2>3, <2>4 DEF MediaAuthorized
  <2> QED
    BY <2>5, <2>6, <2>7
<1>22. CASE MediaComplete
  BY <1>22 DEF MediaComplete
<1>23. CASE MediaValidate
  BY <1>23 DEF MediaValidate
<1>24. CASE MediaPersist
  BY <1>24 DEF MediaPersist, MediaAuthorized
<1>25. CASE MediaError
  BY <1>25 DEF MediaError
<1>26. CASE MediaDiscard
  BY <1>26 DEF MediaDiscard
<1>27. CASE MediaReject
  BY <1>27 DEF MediaReject
<1>28. CASE MediaCrash
  BY <1>28 DEF MediaCrash
<1>29. ASSUME NEW to \in {"review_required", "technical_retry"}, PipelineEnds(to)
       PROVE  IInv'
  BY <1>29 DEF PipelineEnds, Transition
<1>30. ASSUME NEW to \in {"passed", "retry_required", "technical_retry"},
              DecideReview(to)
       PROVE  IInv'
  BY <1>30 DEF DecideReview, Transition
<1>31. CASE UNCHANGED vars
  BY <1>31 DEF vars
<1> QED
  BY <1>1, <1>2, <1>3, <1>4, <1>5, <1>6, <1>7, <1>8, <1>9, <1>10, <1>11, <1>12,
      <1>13, <1>14, <1>15, <1>16, <1>17, <1>18, <1>19, <1>20, <1>21, <1>22, <1>23,
      <1>24, <1>25, <1>26, <1>27, <1>28, <1>29, <1>30, <1>31 DEF Next

\* For any upload requests: the status of an attempt, its session row, multipart
\* and key material agree; an accepted upload keeps its multipart until the media
\* job runs; and while that job ran once, what a maintainer reviews exists
\* (upload-finalization.ts, attempt-lifecycle.ts, attempt-expiry.ts).
THEOREM EvidenceInvariant == Spec => []EvidenceInv
  BY InitIInv, StepIInv, EvidenceOfIInv, PTL DEF Spec

-----------------------------------------------------------------------------
(* The decoder: its inductive invariant.                                   *)

\* A result is there when the child has closed, and good only when it is whole.
ResultFollowsChild ==
    /\ outcome = "pending" <=> child.state # "closed"
    /\ outcome = "fulfilled" =>
         child.code = 0 /\ ~Decoder!TooLarge /\ ~child.timedOut
    /\ child.state = "none" => pc \in {"start", "settled"}
    /\ pc = "start" => child.state = "none" /\ child.code = 0 /\ ~child.timedOut

\* The call asks for the result only after the whole recording.
CallFollowsRecording ==
    /\ pc \in {"start", "opening"} => blocks = 0 /\ error = None
    /\ pc = "writing" => blocks < Blocks
    /\ pc = "waiting" => blocks = Blocks
    /\ pc = "asking" =>
         tool = "audio" /\ failure = None /\ outcome = "fulfilled" /\ blocks = Blocks
    /\ error = "ok" => pc = "settled" /\ outcome = "fulfilled" /\ blocks = Blocks
    /\ pc = "failing" => error # None

\* Only an audio call has a fence, and who is killed by it knows its error.
FenceIsAudio ==
    /\ failure # None => tool = "audio"
    /\ child.timedOut => failure # None
    /\ boundary = "provider" => tool = "audio" /\ failure \in {None, "deadline"}
                                /\ clock # "due"
    /\ pc = "start" => failure = None

\* What is in memory is the running child's output or the result's audio.
MemoryFollowsResult ==
    /\ held # {} => tool = "audio"
    /\ "output" \in held => outcome = "pending"
    /\ "pcm" \in held => outcome = "fulfilled"
    /\ pc = "start" => held = {}

\* Until its object is open nobody waits for the frame's child.
WhoObserves ==
    /\ ~observed /\ child.state # "none" =>
         tool = "frame" /\ pc \in {"opening", "settled", "crashed"}
    /\ tool = "frame" /\ ~observed =>
         blocks = 0 /\ error \in {None, "storage"}
    /\ pc = "settled" /\ ~observed /\ child.state # "none" => error = "storage"

\* Each clip transcribed so far is one stored interval, inside the decoded audio.
ClipsAreCut ==
    /\ clips # <<>> => pc \in {"asking", "settled"} /\ tool = "audio"
    /\ \A i \in DOMAIN clips :
         /\ clips[i].start = Intervals[i][1]
         /\ clips[i].start < clips[i].end /\ clips[i].end <= decoded
         /\ clips[i].end \in {Intervals[i][2] - 1, Intervals[i][2]}
    /\ tool = "audio" /\ error = "ok" => Len(clips) = Len(Intervals)

\* The inductive invariant of the decoder.
DecoderIInv ==
    /\ Decoder!TypeOK
    /\ ResultFollowsChild
    /\ CallFollowsRecording
    /\ FenceIsAudio
    /\ MemoryFollowsResult
    /\ WhoObserves
    /\ ClipsAreCut
    /\ Decoder!FenceIsAuthoritative
    /\ Decoder!AudioIsOverwritten
    /\ Decoder!FailureIsContained

\* TypeOK in three parts.
ChildType ==
  child \in [state: {"none", "running", "exited", "closed"}, code: {0, 1},
             reads: BOOLEAN, out: 0..(Limit + 1), timedOut: BOOLEAN]
TimeType ==
  /\ tool \in Decoder!Tools /\ boundary \in {"provider", "tool"}
  /\ clock \in {"early", "due", "late"}
  /\ outcome \in {"pending", "fulfilled", "rejected"}
  /\ observed \in BOOLEAN
  /\ input \in [accepting: BOOLEAN, closed: BOOLEAN]
  /\ blocks \in 0..Blocks
DataType ==
  /\ failure \in {None, "deadline", "terminal"}
  /\ held \subseteq {"output", "pcm"}
  /\ decoded \in Decoded \cup {0}
PcType ==
  /\ pc \in {"start", "opening", "reading", "writing", "waiting", "failing",
             "asking", "settled", "crashed"}
  /\ error \in {None, "ok"} \cup Decoder!Errors
CallType == TimeType /\ DataType /\ PcType
ClipsType ==
  clips \in Seq([start: Nat, end: Nat]) /\ Len(clips) <= Len(Intervals)

\* The parts together are the type invariant of MediaTool.
LEMMA Types == Decoder!TypeOK <=> ChildType /\ CallType /\ ClipsType
  BY DEF Decoder!TypeOK, ChildType, CallType, TimeType, DataType, PcType, ClipsType

\* A call begins with no child, no error and nothing in memory (MediaTool).
LEMMA DecoderInit == Decoder!Init => DecoderIInv
<1> SUFFICES ASSUME Decoder!Init PROVE DecoderIInv
  OBVIOUS
<1> USE RecordingAssumption, ErrorsAssumption DEF Decoder!Init
<1>1. Decoder!TypeOK
  <2>1. ChildType
    BY DEF ChildType
  <2>2. CallType
    <3>1. TimeType
      <4>1. tool \in Decoder!Tools /\ boundary \in {"provider", "tool"}
        BY DEF Decoder!Tools
      <4>2. blocks \in 0..Blocks
        OBVIOUS
      <4> QED
        BY <4>1, <4>2 DEF TimeType
    <3>2. DataType
      BY DEF DataType
    <3>3. PcType
      BY DEF PcType
    <3> QED
      BY <3>1, <3>2, <3>3 DEF CallType
  <2>3. ClipsType
    BY DEF ClipsType
  <2> QED
    BY <2>1, <2>2, <2>3, Types
<1>2. ResultFollowsChild /\ CallFollowsRecording /\ FenceIsAudio
  BY DEF ResultFollowsChild, CallFollowsRecording, FenceIsAudio, Decoder!TooLarge
<1>3. MemoryFollowsResult /\ WhoObserves
  BY DEF MemoryFollowsResult, WhoObserves
<1>4. ClipsAreCut
  BY DEF ClipsAreCut, Decoder!Errors
<1>5. Decoder!FenceIsAuthoritative /\ Decoder!AudioIsOverwritten /\ Decoder!FailureIsContained
  BY DEF Decoder!FenceIsAuthoritative, Decoder!AudioIsOverwritten,
      Decoder!FailureIsContained, Decoder!NoChildOutlivesItsCall,
      Decoder!RejectionsAreObserved
<1> QED
  BY <1>1, <1>2, <1>3, <1>4, <1>5 DEF DecoderIInv

\* What the run checks follows: only a whole authenticated recording is used, and a
\* transcript has every stored interval (audio-transcription.ts).
LEMMA DecoderMeans == DecoderIInv => Decoder!DecoderInv
<1> SUFFICES ASSUME DecoderIInv PROVE Decoder!DecoderInv
  OBVIOUS
<1> USE RecordingAssumption, ErrorsAssumption DEF DecoderIInv
<1>1. Decoder!AuthenticatedBeforeUse
  BY Types DEF CallType, PcType, ResultFollowsChild, CallFollowsRecording,
      Decoder!AuthenticatedBeforeUse
<1>2. Decoder!TranscriptIsWhole
  BY DEF ClipsAreCut, Decoder!TranscriptIsWhole
<1> QED
  BY <1>1, <1>2 DEF Decoder!DecoderInv

\* The call begins: its child starts, its object opens or does not.
Beginning == Decoder!Start \/ Decoder!Opens \/ Decoder!OpenFails
\* The ciphertext arrives, breaks or is cancelled.
Reading == Decoder!Reads \/ Decoder!ReadFails \/ Decoder!Cancelled
\* A record is written to the child, or the recording has ended.
Writing == Decoder!Writes \/ Decoder!WriteFails \/ Decoder!WriteBreaks \/ Decoder!EndsWhole
\* The result is there and the call ends, or transcribes.
Ending == Decoder!Result \/ Decoder!Fails \/ Decoder!Ask
\* What the child process does.
Child == Decoder!SpawnFails \/ Decoder!Output \/ Decoder!StopsReading \/ Decoder!Exit \/ Decoder!Close
\* Time and the timers.
Timers == Decoder!Tick \/ Decoder!FenceTimer \/ Decoder!ChildTimer

\* A step of the decoder is a step of one of its parts (MediaTool).
LEMMA NextParts ==
    Decoder!Next => Beginning \/ Reading \/ Writing \/ Ending \/ Child \/ Timers
  BY DEF Decoder!Next, Beginning, Reading, Writing, Ending, Child, Timers

\* The child's record keeps its type (MediaTool).
LEMMA ChildStep ==
    ASSUME ChildType, CallType, [Decoder!Next]_(Decoder!vars)
    PROVE  ChildType'
<1>0. Beginning \/ Reading \/ Writing \/ Ending \/ Child \/ Timers \/ UNCHANGED Decoder!vars
  BY NextParts
<1> USE RecordingAssumption, ErrorsAssumption DEF ChildType, CallType, TimeType,
    DataType, PcType, Decoder!Tools, Decoder!Errors, Decoder!TooLarge,
    Decoder!AskEnds, Decoder!callVars, Decoder!childVars, Decoder!Failure,
    Decoder!Killed, Decoder!Throw, Decoder!Expire, Decoder!Settle,
    Decoder!Unobserved, Decoder!Refusals, Decoder!Running, Decoder!Decodes
<1>1. CASE Beginning
  BY <1>1 DEF Beginning, Decoder!Start, Decoder!Opens, Decoder!OpenFails
<1>2. CASE Reading
  BY <1>2 DEF Reading, Decoder!Reads, Decoder!ReadFails, Decoder!Cancelled
<1>3. CASE Writing
  BY <1>3 DEF Writing, Decoder!Writes, Decoder!WriteFails, Decoder!WriteBreaks,
      Decoder!EndsWhole
<1>4. CASE Ending
  BY <1>4 DEF Ending, Decoder!Result, Decoder!Fails, Decoder!Ask
<1>5. CASE Child
  <2>1. CASE Decoder!Output
    <3> DEFINE c == [child EXCEPT !.out = @ + 1]
    <3>1. child.out + 1 \in 0..(Limit + 1)
      BY <2>1 DEF Decoder!Output
    <3>2. c \in [state: {"none", "running", "exited", "closed"}, code: {0, 1},
                reads: BOOLEAN, out: 0..(Limit + 1), timedOut: BOOLEAN]
      BY <3>1
    <3>3. child' = Decoder!Killed(c) \/ child' = c
      BY <2>1 DEF Decoder!Output
    <3> HIDE DEF c
    <3> QED
      BY <3>2, <3>3
  <2>2. CASE Decoder!SpawnFails \/ Decoder!StopsReading \/ Decoder!Exit \/ Decoder!Close
    BY <2>2 DEF Decoder!SpawnFails, Decoder!StopsReading, Decoder!Exit, Decoder!Close
  <2> QED
    BY <1>5, <2>1, <2>2 DEF Child
<1>6. CASE Timers
  BY <1>6 DEF Timers, Decoder!Tick, Decoder!FenceTimer, Decoder!ChildTimer
<1>7. CASE UNCHANGED Decoder!vars
  BY <1>7 DEF Decoder!vars
<1> QED
  BY <1>0, <1>1, <1>2, <1>3, <1>4, <1>5, <1>6, <1>7

\* The call's own data keep theirs; a record is handed over only while one is left.
LEMMA TimeStep ==
    ASSUME ChildType, CallType, CallFollowsRecording, [Decoder!Next]_(Decoder!vars)
    PROVE  TimeType'
<1>0. Beginning \/ Reading \/ Writing \/ Ending \/ Child \/ Timers \/ UNCHANGED Decoder!vars
  BY NextParts
<1> USE RecordingAssumption, ErrorsAssumption DEF ChildType, CallType, TimeType,
    DataType, PcType, Decoder!Tools, Decoder!Errors, Decoder!TooLarge,
    Decoder!AskEnds, CallFollowsRecording, Decoder!callVars, Decoder!childVars,
    Decoder!Failure, Decoder!Killed, Decoder!Throw, Decoder!Expire, Decoder!Settle,
    Decoder!Unobserved, Decoder!Refusals, Decoder!Running, Decoder!Decodes
<1>1. CASE Beginning
  BY <1>1 DEF Beginning, Decoder!Start, Decoder!Opens, Decoder!OpenFails
<1>2. CASE Reading
  BY <1>2 DEF Reading, Decoder!Reads, Decoder!ReadFails, Decoder!Cancelled
<1>3. CASE Writing
  <2>1. blocks' \in 0..Blocks
    BY <1>3 DEF Writing, Decoder!Writes, Decoder!WriteFails, Decoder!WriteBreaks,
        Decoder!EndsWhole
  <2>2. input' = input \/ input' = [accepting |-> FALSE, closed |-> TRUE]
    BY <1>3 DEF Writing, Decoder!Writes, Decoder!WriteFails, Decoder!WriteBreaks,
        Decoder!EndsWhole
  <2>3. input' \in [accepting: BOOLEAN, closed: BOOLEAN]
    <3>1. CASE input' = input
      BY <3>1, Zenon
    <3>2. CASE input' = [accepting |-> FALSE, closed |-> TRUE]
      <4>1. [accepting |-> FALSE, closed |-> TRUE] \in [accepting: BOOLEAN, closed: BOOLEAN]
        OBVIOUS
      <4> QED
        BY <3>2, <4>1, Zenon
    <3> QED
      BY <2>2, <3>1, <3>2
  <2>4. UNCHANGED <<tool, boundary, clock, outcome>> /\ observed' = observed
    BY <1>3 DEF Writing, Decoder!Writes, Decoder!WriteFails, Decoder!WriteBreaks,
        Decoder!EndsWhole
  <2> QED
    BY <2>1, <2>3, <2>4
<1>4. CASE Ending
  BY <1>4 DEF Ending, Decoder!Result, Decoder!Fails, Decoder!Ask
<1>5. CASE Child
  BY <1>5 DEF Child, Decoder!SpawnFails, Decoder!Output, Decoder!StopsReading,
      Decoder!Exit, Decoder!Close
<1>6. CASE Timers
  BY <1>6 DEF Timers, Decoder!Tick, Decoder!FenceTimer, Decoder!ChildTimer
<1>7. CASE UNCHANGED Decoder!vars
  BY <1>7 DEF Decoder!vars
<1> QED
  BY <1>0, <1>1, <1>2, <1>3, <1>4, <1>5, <1>6, <1>7

\* So do the fence's error, the buffers and the decoded duration.
LEMMA DataStep ==
    ASSUME ChildType, CallType, [Decoder!Next]_(Decoder!vars)
    PROVE  DataType'
<1>0. Beginning \/ Reading \/ Writing \/ Ending \/ Child \/ Timers \/ UNCHANGED Decoder!vars
  BY NextParts
<1> USE RecordingAssumption, ErrorsAssumption DEF ChildType, CallType, TimeType,
    DataType, PcType, Decoder!Tools, Decoder!Errors, Decoder!TooLarge,
    Decoder!AskEnds, Decoder!callVars, Decoder!childVars, Decoder!Failure,
    Decoder!Killed, Decoder!Throw, Decoder!Expire, Decoder!Settle,
    Decoder!Unobserved, Decoder!Refusals, Decoder!Running, Decoder!Decodes
<1>1. CASE Beginning
  BY <1>1 DEF Beginning, Decoder!Start, Decoder!Opens, Decoder!OpenFails
<1>2. CASE Reading
  BY <1>2 DEF Reading, Decoder!Reads, Decoder!ReadFails, Decoder!Cancelled
<1>3. CASE Writing
  BY <1>3 DEF Writing, Decoder!Writes, Decoder!WriteFails, Decoder!WriteBreaks,
      Decoder!EndsWhole
<1>4. CASE Ending
  BY <1>4 DEF Ending, Decoder!Result, Decoder!Fails, Decoder!Ask
<1>5. CASE Child
  BY <1>5 DEF Child, Decoder!SpawnFails, Decoder!Output, Decoder!StopsReading,
      Decoder!Exit, Decoder!Close
<1>6. CASE Timers
  BY <1>6 DEF Timers, Decoder!Tick, Decoder!FenceTimer, Decoder!ChildTimer
<1>7. CASE UNCHANGED Decoder!vars
  BY <1>7 DEF Decoder!vars
<1> QED
  BY <1>0, <1>1, <1>2, <1>3, <1>4, <1>5, <1>6, <1>7

\* So does where the call is and what it threw.
LEMMA PcStep ==
    ASSUME ChildType, CallType, [Decoder!Next]_(Decoder!vars)
    PROVE  PcType'
<1>0. Beginning \/ Reading \/ Writing \/ Ending \/ Child \/ Timers \/ UNCHANGED Decoder!vars
  BY NextParts
<1> USE RecordingAssumption, ErrorsAssumption DEF ChildType, CallType, TimeType,
    DataType, PcType, Decoder!Tools, Decoder!Errors, Decoder!TooLarge,
    Decoder!AskEnds, Decoder!Unanswered, Decoder!callVars, Decoder!childVars,
    Decoder!Failure, Decoder!Killed, Decoder!Throw, Decoder!Expire, Decoder!Settle,
    Decoder!Unobserved, Decoder!Refusals, Decoder!Running, Decoder!Decodes
<1>1. CASE Beginning
  BY <1>1 DEF Beginning, Decoder!Start, Decoder!Opens, Decoder!OpenFails
<1>2. CASE Reading
  BY <1>2 DEF Reading, Decoder!Reads, Decoder!ReadFails, Decoder!Cancelled
<1>3. CASE Writing
  BY <1>3 DEF Writing, Decoder!Writes, Decoder!WriteFails, Decoder!WriteBreaks,
      Decoder!EndsWhole
<1>4. CASE Ending
  BY <1>4 DEF Ending, Decoder!Result, Decoder!Fails, Decoder!Ask
<1>5. CASE Child
  BY <1>5 DEF Child, Decoder!SpawnFails, Decoder!Output, Decoder!StopsReading,
      Decoder!Exit, Decoder!Close
<1>6. CASE Timers
  BY <1>6 DEF Timers, Decoder!Tick, Decoder!FenceTimer, Decoder!ChildTimer
<1>7. CASE UNCHANGED Decoder!vars
  BY <1>7 DEF Decoder!vars
<1> QED
  BY <1>0, <1>1, <1>2, <1>3, <1>4, <1>5, <1>6, <1>7

\* The child's close event and nothing else settles its result (startFfprobe,
\* startFfmpeg and the close handlers).
LEMMA ResultFollowsChildStep ==
    ASSUME ChildType, CallType, ResultFollowsChild,
           [Decoder!Next]_(Decoder!vars)
    PROVE  ResultFollowsChild'
<1>0. Beginning \/ Reading \/ Writing \/ Ending \/ Child \/ Timers \/ UNCHANGED Decoder!vars
  BY NextParts
<1> USE RecordingAssumption, ErrorsAssumption DEF ChildType, CallType, TimeType,
    DataType, PcType, Decoder!Tools, Decoder!Errors, Decoder!TooLarge,
    Decoder!AskEnds, ResultFollowsChild, Decoder!callVars, Decoder!childVars,
    Decoder!Failure, Decoder!Killed, Decoder!Throw, Decoder!Expire, Decoder!Settle,
    Decoder!Unobserved, Decoder!Refusals, Decoder!Running, Decoder!Decodes
<1>1. CASE Beginning
  BY <1>1 DEF Beginning, Decoder!Start, Decoder!Opens, Decoder!OpenFails
<1>2. CASE Reading
  BY <1>2 DEF Reading, Decoder!Reads, Decoder!ReadFails, Decoder!Cancelled
<1>3. CASE Writing
  BY <1>3 DEF Writing, Decoder!Writes, Decoder!WriteFails, Decoder!WriteBreaks,
      Decoder!EndsWhole
<1>4. CASE Ending
  BY <1>4 DEF Ending, Decoder!Result, Decoder!Fails, Decoder!Ask
<1>5. CASE Child
  BY <1>5 DEF Child, Decoder!SpawnFails, Decoder!Output, Decoder!StopsReading,
      Decoder!Exit, Decoder!Close
<1>6. CASE Timers
  BY <1>6 DEF Timers, Decoder!Tick, Decoder!FenceTimer, Decoder!ChildTimer
<1>7. CASE UNCHANGED Decoder!vars
  BY <1>7 DEF Decoder!vars
<1> QED
  BY <1>0, <1>1, <1>2, <1>3, <1>4, <1>5, <1>6, <1>7

\* No call waits for a result, or uses it, before the whole recording has been
\* read and authenticated (runFrameExtractorPipeline and its siblings).
LEMMA CallFollowsRecordingStep ==
    ASSUME ChildType, CallType, ResultFollowsChild, CallFollowsRecording, FenceIsAudio,
           [Decoder!Next]_(Decoder!vars)
    PROVE  CallFollowsRecording'
<1>0. Beginning \/ Reading \/ Writing \/ Ending \/ Child \/ Timers \/ UNCHANGED Decoder!vars
  BY NextParts
<1> USE RecordingAssumption, ErrorsAssumption DEF ChildType, CallType, TimeType,
    DataType, PcType, Decoder!Tools, Decoder!Errors, Decoder!TooLarge,
    Decoder!AskEnds, ResultFollowsChild, CallFollowsRecording, FenceIsAudio,
    Decoder!callVars, Decoder!childVars, Decoder!Failure, Decoder!Killed,
    Decoder!Throw, Decoder!Expire, Decoder!Settle, Decoder!Unobserved,
    Decoder!Refusals, Decoder!Running, Decoder!Decodes
<1>1. CASE Beginning
  BY <1>1 DEF Beginning, Decoder!Start, Decoder!Opens, Decoder!OpenFails
<1>2. CASE Reading
  <2>1. CASE Decoder!Cancelled
    <3>1. pc' = "failing" /\ error' = failure /\ failure # None
      BY <2>1 DEF Decoder!Cancelled, FenceIsAudio
    <3>2. failure # "ok"
      OBVIOUS
    <3> QED
      BY <3>1, <3>2
  <2>2. CASE Decoder!Reads \/ Decoder!ReadFails
    BY <2>2 DEF Decoder!Reads, Decoder!ReadFails
  <2> QED
    BY <1>2, <2>1, <2>2 DEF Reading
<1>3. CASE Writing
  BY <1>3 DEF Writing, Decoder!Writes, Decoder!WriteFails, Decoder!WriteBreaks,
      Decoder!EndsWhole
<1>4. CASE Ending
  BY <1>4 DEF Ending, Decoder!Result, Decoder!Fails, Decoder!Ask
<1>5. CASE Child
  BY <1>5 DEF Child, Decoder!SpawnFails, Decoder!Output, Decoder!StopsReading,
      Decoder!Exit, Decoder!Close
<1>6. CASE Timers
  BY <1>6 DEF Timers, Decoder!Tick, Decoder!FenceTimer, Decoder!ChildTimer
<1>7. CASE UNCHANGED Decoder!vars
  BY <1>7 DEF Decoder!vars
<1> QED
  BY <1>0, <1>1, <1>2, <1>3, <1>4, <1>5, <1>6, <1>7

\* The fence's first error stays, and the provider's deadline is never turned
\* into another (createAudioExtractionDeadlineFence).
LEMMA FenceIsAudioStep ==
    ASSUME ChildType, CallType, ResultFollowsChild, FenceIsAudio,
           [Decoder!Next]_(Decoder!vars)
    PROVE  FenceIsAudio'
<1>0. Beginning \/ Reading \/ Writing \/ Ending \/ Child \/ Timers \/ UNCHANGED Decoder!vars
  BY NextParts
<1> USE RecordingAssumption, ErrorsAssumption DEF ChildType, CallType, TimeType,
    DataType, PcType, Decoder!Tools, Decoder!Errors, Decoder!TooLarge,
    Decoder!AskEnds, ResultFollowsChild, FenceIsAudio, Decoder!callVars,
    Decoder!childVars, Decoder!Failure, Decoder!Killed, Decoder!Throw,
    Decoder!Expire, Decoder!Settle, Decoder!Unobserved, Decoder!Refusals,
    Decoder!Running, Decoder!Decodes
<1>1. CASE Beginning
  BY <1>1 DEF Beginning, Decoder!Start, Decoder!Opens, Decoder!OpenFails
<1>2. CASE Reading
  BY <1>2 DEF Reading, Decoder!Reads, Decoder!ReadFails, Decoder!Cancelled
<1>3. CASE Writing
  BY <1>3 DEF Writing, Decoder!Writes, Decoder!WriteFails, Decoder!WriteBreaks,
      Decoder!EndsWhole
<1>4. CASE Ending
  BY <1>4 DEF Ending, Decoder!Result, Decoder!Fails, Decoder!Ask
<1>5. CASE Child
  BY <1>5 DEF Child, Decoder!SpawnFails, Decoder!Output, Decoder!StopsReading,
      Decoder!Exit, Decoder!Close
<1>6. CASE Timers
  BY <1>6 DEF Timers, Decoder!Tick, Decoder!FenceTimer, Decoder!ChildTimer
<1>7. CASE UNCHANGED Decoder!vars
  BY <1>7 DEF Decoder!vars
<1> QED
  BY <1>0, <1>1, <1>2, <1>3, <1>4, <1>5, <1>6, <1>7

\* Buffers belong to a running audio child or to its good result (extractPcm).
LEMMA MemoryFollowsResultStep ==
    ASSUME ChildType, CallType, ResultFollowsChild, CallFollowsRecording,
        MemoryFollowsResult,
           [Decoder!Next]_(Decoder!vars)
    PROVE  MemoryFollowsResult'
<1>0. Beginning \/ Reading \/ Writing \/ Ending \/ Child \/ Timers \/ UNCHANGED Decoder!vars
  BY NextParts
<1> USE RecordingAssumption, ErrorsAssumption DEF ChildType, CallType, TimeType,
    DataType, PcType, Decoder!Tools, Decoder!Errors, Decoder!TooLarge,
    Decoder!AskEnds, ResultFollowsChild, CallFollowsRecording, MemoryFollowsResult,
    Decoder!callVars, Decoder!childVars, Decoder!Failure, Decoder!Killed,
    Decoder!Throw, Decoder!Expire, Decoder!Settle, Decoder!Unobserved,
    Decoder!Refusals, Decoder!Running, Decoder!Decodes
<1>1. CASE Beginning
  BY <1>1 DEF Beginning, Decoder!Start, Decoder!Opens, Decoder!OpenFails
<1>2. CASE Reading
  BY <1>2 DEF Reading, Decoder!Reads, Decoder!ReadFails, Decoder!Cancelled
<1>3. CASE Writing
  BY <1>3 DEF Writing, Decoder!Writes, Decoder!WriteFails, Decoder!WriteBreaks,
      Decoder!EndsWhole
<1>4. CASE Ending
  BY <1>4 DEF Ending, Decoder!Result, Decoder!Fails, Decoder!Ask
<1>5. CASE Child
  BY <1>5 DEF Child, Decoder!SpawnFails, Decoder!Output, Decoder!StopsReading,
      Decoder!Exit, Decoder!Close
<1>6. CASE Timers
  BY <1>6 DEF Timers, Decoder!Tick, Decoder!FenceTimer, Decoder!ChildTimer
<1>7. CASE UNCHANGED Decoder!vars
  BY <1>7 DEF Decoder!vars
<1> QED
  BY <1>0, <1>1, <1>2, <1>3, <1>4, <1>5, <1>6, <1>7

\* The frame's child alone may run before anyone waits for its result
\* (extractFrameWithFfmpeg).
LEMMA WhoObservesStep ==
    ASSUME ChildType, CallType, ResultFollowsChild, CallFollowsRecording, WhoObserves,
           [Decoder!Next]_(Decoder!vars)
    PROVE  WhoObserves'
<1>0. Beginning \/ Reading \/ Writing \/ Ending \/ Child \/ Timers \/ UNCHANGED Decoder!vars
  BY NextParts
<1> USE RecordingAssumption, ErrorsAssumption DEF ChildType, CallType, TimeType,
    DataType, PcType, Decoder!Tools, Decoder!Errors, Decoder!TooLarge,
    Decoder!AskEnds, ResultFollowsChild, CallFollowsRecording, WhoObserves,
    Decoder!callVars, Decoder!childVars, Decoder!Failure, Decoder!Killed,
    Decoder!Throw, Decoder!Expire, Decoder!Settle, Decoder!Unobserved,
    Decoder!Refusals, Decoder!Running, Decoder!Decodes
<1>1. CASE Beginning
  BY <1>1 DEF Beginning, Decoder!Start, Decoder!Opens, Decoder!OpenFails
<1>2. CASE Reading
  BY <1>2 DEF Reading, Decoder!Reads, Decoder!ReadFails, Decoder!Cancelled
<1>3. CASE Writing
  BY <1>3 DEF Writing, Decoder!Writes, Decoder!WriteFails, Decoder!WriteBreaks,
      Decoder!EndsWhole
<1>4. CASE Ending
  BY <1>4 DEF Ending, Decoder!Result, Decoder!Fails, Decoder!Ask
<1>5. CASE Child
  BY <1>5 DEF Child, Decoder!SpawnFails, Decoder!Output, Decoder!StopsReading,
      Decoder!Exit, Decoder!Close
<1>6. CASE Timers
  BY <1>6 DEF Timers, Decoder!Tick, Decoder!FenceTimer, Decoder!ChildTimer
<1>7. CASE UNCHANGED Decoder!vars
  BY <1>7 DEF Decoder!vars
<1> QED
  BY <1>0, <1>1, <1>2, <1>3, <1>4, <1>5, <1>6, <1>7

\* Whatever a killed child answers, the call throws the fence's error
\* (assertProviderActive, expire).
LEMMA FenceIsAuthoritativeStep ==
    ASSUME ChildType, CallType, ResultFollowsChild, CallFollowsRecording,
        FenceIsAudio, Decoder!FailureIsContained, Decoder!FenceIsAuthoritative,
           [Decoder!Next]_(Decoder!vars)
    PROVE  Decoder!FenceIsAuthoritative'
<1>0. Beginning \/ Reading \/ Writing \/ Ending \/ Child \/ Timers \/ UNCHANGED Decoder!vars
  BY NextParts
<1> USE RecordingAssumption, ErrorsAssumption DEF ChildType, CallType, TimeType,
    DataType, PcType, Decoder!Tools, Decoder!Errors, Decoder!TooLarge,
    Decoder!AskEnds, ResultFollowsChild, CallFollowsRecording, FenceIsAudio,
    Decoder!FailureIsContained, Decoder!FenceIsAuthoritative,
    Decoder!NoChildOutlivesItsCall, Decoder!RejectionsAreObserved,
    Decoder!callVars, Decoder!childVars, Decoder!Failure, Decoder!Killed,
    Decoder!Throw, Decoder!Expire, Decoder!Settle, Decoder!Unobserved,
    Decoder!Refusals, Decoder!Running, Decoder!Decodes
<1>1. CASE Beginning
  BY <1>1 DEF Beginning, Decoder!Start, Decoder!Opens, Decoder!OpenFails
<1>2. CASE Reading
  BY <1>2 DEF Reading, Decoder!Reads, Decoder!ReadFails, Decoder!Cancelled
<1>3. CASE Writing
  BY <1>3 DEF Writing, Decoder!Writes, Decoder!WriteFails, Decoder!WriteBreaks,
      Decoder!EndsWhole
<1>4. CASE Ending
  BY <1>4 DEF Ending, Decoder!Result, Decoder!Fails, Decoder!Ask
<1>5. CASE Child
  BY <1>5 DEF Child, Decoder!SpawnFails, Decoder!Output, Decoder!StopsReading,
      Decoder!Exit, Decoder!Close
<1>6. CASE Timers
  BY <1>6 DEF Timers, Decoder!Tick, Decoder!FenceTimer, Decoder!ChildTimer
<1>7. CASE UNCHANGED Decoder!vars
  BY <1>7 DEF Decoder!vars
<1> QED
  BY <1>0, <1>1, <1>2, <1>3, <1>4, <1>5, <1>6, <1>7

\* Every way out of an audio call overwrites its buffers (extractPcm, fill(0)).
LEMMA AudioIsOverwrittenStep ==
    ASSUME ChildType, CallType, ResultFollowsChild, CallFollowsRecording,
        MemoryFollowsResult, Decoder!FailureIsContained,
        Decoder!AudioIsOverwritten,
           [Decoder!Next]_(Decoder!vars)
    PROVE  Decoder!AudioIsOverwritten'
<1>0. Beginning \/ Reading \/ Writing \/ Ending \/ Child \/ Timers \/ UNCHANGED Decoder!vars
  BY NextParts
<1> USE RecordingAssumption, ErrorsAssumption DEF ChildType, CallType, TimeType,
    DataType, PcType, Decoder!Tools, Decoder!Errors, Decoder!TooLarge,
    Decoder!AskEnds, ResultFollowsChild, CallFollowsRecording, MemoryFollowsResult,
    Decoder!FailureIsContained, Decoder!AudioIsOverwritten,
    Decoder!NoChildOutlivesItsCall, Decoder!RejectionsAreObserved,
    Decoder!callVars, Decoder!childVars, Decoder!Failure, Decoder!Killed,
    Decoder!Throw, Decoder!Expire, Decoder!Settle, Decoder!Unobserved,
    Decoder!Refusals, Decoder!Running, Decoder!Decodes
<1>1. CASE Beginning
  BY <1>1 DEF Beginning, Decoder!Start, Decoder!Opens, Decoder!OpenFails
<1>2. CASE Reading
  BY <1>2 DEF Reading, Decoder!Reads, Decoder!ReadFails, Decoder!Cancelled
<1>3. CASE Writing
  BY <1>3 DEF Writing, Decoder!Writes, Decoder!WriteFails, Decoder!WriteBreaks,
      Decoder!EndsWhole
<1>4. CASE Ending
  <2>1. CASE Decoder!Result
    <3>1. outcome = "rejected" => held = {}
      OBVIOUS
    <3> QED
      BY <2>1, <3>1 DEF Decoder!Result
  <2>2. CASE Decoder!Fails
    BY <2>2 DEF Decoder!Fails
  <2>3. CASE Decoder!Ask
    BY <2>3 DEF Decoder!Ask
  <2> QED
    BY <1>4, <2>1, <2>2, <2>3 DEF Ending
<1>5. CASE Child
  BY <1>5 DEF Child, Decoder!SpawnFails, Decoder!Output, Decoder!StopsReading,
      Decoder!Exit, Decoder!Close
<1>6. CASE Timers
  BY <1>6 DEF Timers, Decoder!Tick, Decoder!FenceTimer, Decoder!ChildTimer
<1>7. CASE UNCHANGED Decoder!vars
  BY <1>7 DEF Decoder!vars
<1> QED
  BY <1>0, <1>1, <1>2, <1>3, <1>4, <1>5, <1>6, <1>7

\* A failing call has waited for its child and observed it (runFfprobePipeline).
LEMMA FailureIsContainedStep ==
    ASSUME ChildType, CallType, ResultFollowsChild, CallFollowsRecording,
        WhoObserves, Decoder!FailureIsContained,
           [Decoder!Next]_(Decoder!vars)
    PROVE  Decoder!FailureIsContained'
<1>0. Beginning \/ Reading \/ Writing \/ Ending \/ Child \/ Timers \/ UNCHANGED Decoder!vars
  BY NextParts
<1> USE RecordingAssumption, ErrorsAssumption DEF ChildType, CallType, TimeType,
    DataType, PcType, Decoder!Tools, Decoder!Errors, Decoder!TooLarge,
    Decoder!AskEnds, ResultFollowsChild, CallFollowsRecording, WhoObserves,
    Decoder!FailureIsContained, Decoder!NoChildOutlivesItsCall,
    Decoder!RejectionsAreObserved, Decoder!callVars, Decoder!childVars,
    Decoder!Failure, Decoder!Killed, Decoder!Throw, Decoder!Expire, Decoder!Settle,
    Decoder!Unobserved, Decoder!Refusals, Decoder!Running, Decoder!Decodes
<1>1. CASE Beginning
  BY <1>1 DEF Beginning, Decoder!Start, Decoder!Opens, Decoder!OpenFails
<1>2. CASE Reading
  BY <1>2 DEF Reading, Decoder!Reads, Decoder!ReadFails, Decoder!Cancelled
<1>3. CASE Writing
  BY <1>3 DEF Writing, Decoder!Writes, Decoder!WriteFails, Decoder!WriteBreaks,
      Decoder!EndsWhole
<1>4. CASE Ending
  BY <1>4 DEF Ending, Decoder!Result, Decoder!Fails, Decoder!Ask
<1>5. CASE Child
  BY <1>5 DEF Child, Decoder!SpawnFails, Decoder!Output, Decoder!StopsReading,
      Decoder!Exit, Decoder!Close
<1>6. CASE Timers
  BY <1>6 DEF Timers, Decoder!Tick, Decoder!FenceTimer, Decoder!ChildTimer
<1>7. CASE UNCHANGED Decoder!vars
  BY <1>7 DEF Decoder!vars
<1> QED
  BY <1>0, <1>1, <1>2, <1>3, <1>4, <1>5, <1>6, <1>7

\* A clip is cut at its stored interval, at most 250 ms short of it
\* (clampQuestionClipEndByte).
LEMMA AskStep ==
    ASSUME ChildType, CallType, ClipsType, CallFollowsRecording, ClipsAreCut,
        Decoder!Ask
    PROVE  ClipsType' /\ ClipsAreCut'
<1> USE RecordingAssumption, ErrorsAssumption
<1>1. pc = "asking" /\ tool = "audio" /\ UNCHANGED <<tool, decoded>> /\ decoded \in Nat
      /\ error # "ok"
  BY DEF Decoder!Ask, Decoder!callVars, CallFollowsRecording, CallType, DataType
<1>2. CASE clips' = clips /\ pc' = "settled" /\ (error' = "ok" => Len(clips) = Len(Intervals))
  BY <1>1, <1>2 DEF ClipsType, ClipsAreCut
<1> DEFINE i == Len(clips) + 1
           clip == [start |-> Intervals[i][1], end |-> Decoder!ClipEnd(Intervals[i][2], decoded)]
<1>3. CASE /\ Len(clips) # Len(Intervals)
           /\ Decoder!Available(i)
           /\ clips' = Append(clips, clip)
           /\ UNCHANGED <<pc, error>>
  <2>1. i \in 1..Len(Intervals) /\ Len(clips) \in Nat
    BY <1>3 DEF ClipsType
  <2>2. Intervals[i] \in Nat \X Nat
    BY <2>1
  <2>3. Intervals[i][1] \in Nat /\ Intervals[i][2] \in Nat
    BY <2>2
  <2> DEFINE s == Intervals[i][1]
             e == Intervals[i][2]
             x == Decoder!ClipEnd(e, decoded)
  <2>4. x \in Nat /\ x \in {e - 1, e} /\ x <= decoded /\ s < x
    <3>1. x <= decoded /\ s < x
      BY <1>3 DEF Decoder!Available
    <3>2. s \in Nat /\ e \in Nat
      BY <2>3
    <3> HIDE DEF s, e
    <3>3. x \in Nat /\ x \in {e - 1, e}
      BY <1>1, <3>2 DEF Decoder!ClipEnd
    <3> QED
      BY <3>1, <3>3
  <2>5. clip \in [start: Nat, end: Nat] /\ clip.start = s /\ clip.end = x
    BY <2>3, <2>4
  <2>6. /\ Len(clips') = i /\ clips'[i] = clip
        /\ \A k \in 1..Len(clips) : clips'[k] = clips[k]
        /\ clips' \in Seq([start: Nat, end: Nat])
    <3> HIDE DEF clip
    <3> QED
      BY <1>3, <2>1, <2>5 DEF ClipsType
  <2>7. ClipsType'
    BY <2>1, <2>6 DEF ClipsType
  <2> HIDE DEF clip, x, s, e
  <2>8. ASSUME NEW k \in DOMAIN clips'
        PROVE  /\ clips'[k].start = Intervals[k][1]
               /\ clips'[k].start < clips'[k].end /\ clips'[k].end <= decoded
               /\ clips'[k].end \in {Intervals[k][2] - 1, Intervals[k][2]}
    <3>1. k \in 1..Len(clips) \/ k = i
      BY <2>1, <2>6, <2>7 DEF ClipsType
    <3>2. CASE k \in 1..Len(clips)
      <4>1. k \in DOMAIN clips /\ clips'[k] = clips[k]
        BY <3>2, <2>6, LenProperties DEF ClipsType
      <4>2. /\ clips[k].start = Intervals[k][1]
            /\ clips[k].start < clips[k].end /\ clips[k].end <= decoded
            /\ clips[k].end \in {Intervals[k][2] - 1, Intervals[k][2]}
        BY <4>1 DEF ClipsAreCut
      <4> QED
        BY <4>1, <4>2
    <3>3. CASE k = i
      BY <3>3, <2>4, <2>5, <2>6 DEF s, e
    <3> QED
      BY <3>1, <3>2, <3>3
  <2> QED
    BY <1>1, <1>3, <2>7, <2>8 DEF ClipsAreCut
<1>4. QED
  BY <1>1, <1>2, <1>3 DEF Decoder!Ask, Decoder!AskEnds, Decoder!Assembled,
      Decoder!Unanswered

\* Nothing but the next question of an audio call adds a clip (transcribeQuestion,
\* audio-transcription.ts).
LEMMA ClipsStep ==
    ASSUME ChildType, CallType, ClipsType, ResultFollowsChild, CallFollowsRecording,
           WhoObserves, ClipsAreCut, [Decoder!Next]_(Decoder!vars)
    PROVE  ClipsType' /\ ClipsAreCut'
<1>1. CASE Decoder!Ask
  BY <1>1, AskStep
<1>2. CASE ~Decoder!Ask
  <2>1. clips' = clips /\ tool' = tool
    BY <1>2 DEF Decoder!Next, Decoder!vars, Decoder!Start, Decoder!Opens,
        Decoder!OpenFails, Decoder!Reads, Decoder!ReadFails, Decoder!Cancelled,
        Decoder!Writes, Decoder!WriteFails, Decoder!WriteBreaks, Decoder!EndsWhole,
        Decoder!Result, Decoder!Fails, Decoder!SpawnFails, Decoder!Output,
        Decoder!StopsReading, Decoder!Exit, Decoder!Close, Decoder!Tick,
        Decoder!FenceTimer, Decoder!ChildTimer, Decoder!callVars
  <2>2. decoded' = decoded \/ clips = <<>>
    BY <1>2 DEF Decoder!Next, Decoder!vars, Decoder!Start, Decoder!Opens,
        Decoder!OpenFails, Decoder!Reads, Decoder!ReadFails, Decoder!Cancelled,
        Decoder!Writes, Decoder!WriteFails, Decoder!WriteBreaks, Decoder!EndsWhole,
        Decoder!Result, Decoder!Fails, Decoder!SpawnFails, Decoder!Output,
        Decoder!StopsReading, Decoder!Exit, Decoder!Close, Decoder!Tick,
        Decoder!FenceTimer, Decoder!ChildTimer, ClipsAreCut
  <2>3. clips # <<>> => pc' \in {"asking", "settled"}
    BY <1>2 DEF Decoder!Next, Decoder!vars, Decoder!Start, Decoder!Opens,
        Decoder!OpenFails, Decoder!Reads, Decoder!ReadFails, Decoder!Cancelled,
        Decoder!Writes, Decoder!WriteFails, Decoder!WriteBreaks, Decoder!EndsWhole,
        Decoder!Result, Decoder!Fails, Decoder!SpawnFails, Decoder!Output,
        Decoder!StopsReading, Decoder!Exit, Decoder!Close, Decoder!Tick,
        Decoder!FenceTimer, Decoder!ChildTimer, ClipsAreCut, Decoder!Unobserved,
        WhoObserves
  <2>4. tool = "audio" /\ error' = "ok" => error = "ok"
    <3>1. \A e : Decoder!Settle(e) => error' = failure \/ error' = e
      BY DEF Decoder!Settle
    <3> QED
    BY <1>2, <3>1, ErrorsAssumption DEF Decoder!Next, Decoder!vars, Decoder!Start,
        Decoder!Opens, Decoder!OpenFails, Decoder!Reads, Decoder!ReadFails,
        Decoder!Cancelled, Decoder!Writes, Decoder!WriteFails, Decoder!WriteBreaks,
        Decoder!EndsWhole, Decoder!Result, Decoder!Fails, Decoder!SpawnFails,
        Decoder!Output, Decoder!StopsReading, Decoder!Exit, Decoder!Close,
        Decoder!Tick, Decoder!FenceTimer, Decoder!ChildTimer, Decoder!Throw,
        Decoder!Expire, Decoder!Settle, Decoder!Failure, Decoder!Refusals,
        CallType, DataType, CallFollowsRecording
  <2> QED
    BY <2>1, <2>2, <2>3, <2>4 DEF ClipsType, ClipsAreCut
<1> QED
  BY <1>1, <1>2

\* Every step of storage, child, timers and call preserves the invariant
\* (media-finalize.ts, frame-selection.ts, audio-transcription.ts).
LEMMA DecoderStep == DecoderIInv /\ [Decoder!Next]_(Decoder!vars) => DecoderIInv'
<1> SUFFICES ASSUME DecoderIInv, [Decoder!Next]_(Decoder!vars) PROVE DecoderIInv'
  OBVIOUS
<1> USE DEF DecoderIInv
<1>0. ChildType /\ CallType /\ ClipsType
  BY Types
<1>1. ChildType' /\ TimeType' /\ DataType' /\ PcType'
  BY <1>0, ChildStep, TimeStep, DataStep, PcStep
<1>2. ClipsType' /\ ClipsAreCut'
  BY <1>0, ClipsStep
<1>3. Decoder!TypeOK'
  BY <1>1, <1>2 DEF Decoder!TypeOK, ChildType, TimeType, DataType, PcType, ClipsType
<1>4. ResultFollowsChild' /\ CallFollowsRecording' /\ FenceIsAudio'
  BY <1>0, ResultFollowsChildStep, CallFollowsRecordingStep, FenceIsAudioStep
<1>5. MemoryFollowsResult' /\ WhoObserves'
  BY <1>0, MemoryFollowsResultStep, WhoObservesStep
<1>6. Decoder!FenceIsAuthoritative' /\ Decoder!AudioIsOverwritten' /\ Decoder!FailureIsContained'
  BY <1>0, FenceIsAuthoritativeStep, AudioIsOverwrittenStep, FailureIsContainedStep
<1> QED
  BY <1>2, <1>3, <1>4, <1>5, <1>6

\* A step of a recording's behaviour is one of the decoder, or leaves it alone.
LEMMA PartIsDecoder == [PartNext]_<<part, vars, decoderVars>> => [Decoder!Next]_(Decoder!vars)
  BY DEF PartNext, decoderVars, Decoder!vars

\* However storage, child, timers and deadline fall together: nothing unauthenticated
\* is used, the fence's error is what the call throws, no audio stays in memory and a
\* transcript is whole (audio-transcription.ts, frame-selection.ts, media-finalize.ts).
THEOREM DecoderInvariant == PartSpec => []DecoderInv
<1>1. PartInit => DecoderIInv
  BY DecoderInit DEF PartInit
<1>2. DecoderIInv /\ [PartNext]_<<part, vars, decoderVars>> => DecoderIInv'
  BY PartIsDecoder, DecoderStep
<1>3. DecoderIInv => DecoderInv
  BY DecoderMeans DEF DecoderInv
<1> QED
  BY <1>1, <1>2, <1>3, PTL DEF PartSpec

\* A call that failed has waited for its child and taken its rejection, but for a
\* frame whose object did not open (runFfprobePipeline, extractFrameWithFfmpeg).
THEOREM FailuresContained == PartSpec => []FailureIsContained
<1>1. PartInit => DecoderIInv
  BY DecoderInit DEF PartInit
<1>2. DecoderIInv /\ [PartNext]_<<part, vars, decoderVars>> => DecoderIInv'
  BY PartIsDecoder, DecoderStep
<1>3. DecoderIInv => FailureIsContained
  BY DEF DecoderIInv, FailureIsContained
<1> QED
  BY <1>1, <1>2, <1>3, PTL DEF PartSpec
=============================================================================
