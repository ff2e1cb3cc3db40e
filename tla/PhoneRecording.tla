--------------------------- MODULE PhoneRecording ---------------------------
(***************************************************************************)
(* One take on the phone.  The media recorder emits blobs; a queue         *)
(* encrypts each under a nonce made of its chunk index, packs the records  *)
(* into parts of one size and uploads the parts; when the recorder has     *)
(* stopped and the queue is empty, a manifest of all of it is finalized.   *)
(* Whatever goes wrong ends in a technical abort, and a button that        *)
(* repeats it and asks for another attempt.  At the other end the worker   *)
(* reads the object back and releases plaintext record by record.  Any     *)
(* answer may be lost, and a request may reach the server after the phone  *)
(* has given it up.                                                        *)
(***************************************************************************)
EXTENDS Naturals, Sequences, SequencesExt

CONSTANTS MaxBlobs,   \* bound: blobs of the take
          Sizes,      \* sizes of an encrypted blob, in cells
          Target,     \* MULTIPART_TARGET_BYTES, in cells
          Limit,      \* maximumUploadBytes, in cells
          Questions,  \* questions of the plan
          MaxRead,    \* bound: cells one read of the object returns
          None

VARIABLES
  blobs,     \* sizes of the blobs emitted (history)
  recorder,  \* MediaRecorder.state, and "stopping" until its stop event
  answered, timely,  \* question intervals, all before the stop event
  aborted, failed,   \* abortedRef, pipelineError
  next, index,       \* blobs taken from the queue; chunkIndex
  chunks,    \* chunks of the manifest
  packer,    \* records packed and the cells that wait for a part
  outbox,    \* parts packed and not yet uploaded
  parts,     \* parts of the manifest, with their receipts
  upload,    \* the request of uploadPart that is awaited
  main,      \* where beginRecording and the recovery button are
  pressed,   \* the recovery button was pressed
  stray,     \* requests the phone gave up that are still on their way
  exposed,   \* cells that left the device (history)
  srv,       \* attempt, upload session, parts and ledger, as stored
  reader     \* the worker's read of the object

camera == <<blobs, recorder, answered, timely>>
pipeline == <<next, index, chunks, packer, outbox, parts, upload, exposed>>
control == <<aborted, failed, main, pressed>>
vars == <<camera, pipeline, control, stray, srv, reader>>

Uploads == {"url", "put", "complete"}
Asks == {"start", "uploads", "finalize", "abort", "finishAbort", "retry"}
MainStates == Asks \cup {"take", "drain", "finish", "recover", "polling",
                         "uploaded", "left", "replaced"}
Statuses == {"ready", "active", "uploading", "processing", "review_required",
             "technical_retry", "retry_required", "expired", "invalidated"}
\* Every part but the last of a take has the target's size.
MaxParts == Limit \div Target + 1

TypeOK ==
  /\ Len(blobs) <= MaxBlobs /\ \A i \in 1 .. Len(blobs) : blobs[i] \in Sizes
  /\ recorder \in {"off", "on", "stopping"}
  /\ answered \in 0 .. Questions
  /\ {timely, aborted, failed, pressed} \subseteq BOOLEAN
  /\ next \in 0 .. Len(blobs) /\ index \in 0 .. next
  /\ Len(chunks) <= next /\ packer.count \in 0 .. next
  /\ Len(parts) <= MaxParts
  /\ upload \in Uploads \cup {None} /\ main \in MainStates
  /\ \A m \in stray : m.kind \in Uploads \cup Asks
  /\ srv.attempt \in Statuses
  /\ srv.session \in {None, "active", "pending", "aborting", "failed"}
  /\ reader.pc \in {"idle", "reading", "ok", "failed"}

Init ==
  /\ blobs = <<>> /\ recorder = "off" /\ answered = 0 /\ timely = TRUE
  /\ aborted = FALSE /\ failed = FALSE /\ next = 0 /\ index = 0
  /\ chunks = <<>> /\ packer = [count |-> 0, staged |-> <<>>]
  /\ outbox = <<>> /\ parts = <<>> /\ upload = None
  /\ main = "start" /\ pressed = FALSE /\ stray = {} /\ exposed = {}
  /\ srv = [attempt |-> "ready", current |-> TRUE, session |-> None,
            store |-> [n \in 1 .. MaxParts |-> None], ledger |-> <<>>,
            accepted |-> None, refused |-> FALSE]
  /\ reader = [pc |-> "idle", got |-> <<>>, released |-> <<>>]

----------------------------------------------------------------------------
(* The camera. *)

Data == \E size \in Sizes :
  /\ recorder \in {"on", "stopping"} /\ Len(blobs) < MaxBlobs
  /\ blobs' = Append(blobs, size)
  /\ UNCHANGED <<recorder, answered, timely, pipeline, control, stray, srv,
                 reader>>

\* nextQuestion: the last one stops the recorder.  The page shows the
\* questions until the upload phase, also after the recorder has stopped.
Answer ==
  /\ main \in {"take", "drain"} /\ answered < Questions
  /\ answered' = answered + 1
  /\ timely' = (timely /\ main = "take")
  /\ recorder' = IF answered' = Questions /\ recorder = "on" THEN "stopping"
                 ELSE recorder
  /\ UNCHANGED <<blobs, pipeline, control, stray, srv, reader>>

\* Visibility lost, a track ended, the time is over; or the browser stops by
\* itself, and the ended events of the tracks find it inactive.
Interrupt ==
  /\ recorder = "on"
  /\ recorder' = "stopping"
  /\ aborted' \in {TRUE, aborted}
  /\ UNCHANGED <<blobs, answered, timely, pipeline, failed, main, pressed,
                 stray, srv, reader>>

\* The error event rejects "stopped": the abort does not wait for the queue.
RecorderError ==
  /\ recorder = "on" /\ main = "take"
  /\ recorder' = "stopping" /\ aborted' = TRUE /\ main' = "abort"
  /\ UNCHANGED <<blobs, answered, timely, pipeline, failed, pressed, stray,
                 srv, reader>>

Stop ==
  /\ recorder = "stopping"
  /\ recorder' = "off"
  /\ main' = IF main = "take" THEN "drain" ELSE main
  /\ UNCHANGED <<blobs, answered, timely, pipeline, aborted, failed, pressed,
                 stray, srv, reader>>

----------------------------------------------------------------------------
(* The queue. *)

\* The cells of an encrypted blob; the chunk index is all that varies in the
\* nonce.
Record(blob, i) == [k \in 1 .. blobs[blob] |-> <<blob, i, k>>]
ObjectOf(list) ==
  FlattenSeq([i \in 1 .. Len(list) |-> Record(list[i].blob, list[i].index)])

Nonce(cell) == cell[2]

\* The queue goes on in the background after its errors, until the page goes.
Alive == main # "replaced"

\* An error of the queue is remembered and stops the recorder; the main
\* thread's own uploads fail into the abort.
Breaks ==
  /\ IF main = "finish"
     THEN main' = "abort" /\ UNCHANGED <<aborted, failed>>
     ELSE failed' = TRUE /\ aborted' = TRUE /\ UNCHANGED main
  /\ recorder' = IF recorder = "on" THEN "stopping" ELSE recorder
  /\ UNCHANGED <<blobs, answered, timely, pressed>>

\* MultipartRecordPacker.push: records come in order, without a gap.
InOrder == packer.count = index

\* The first n parts of the staged cells.
Cut(staged, n) ==
  [p \in 1 .. n |-> SubSeq(staged, (p - 1) * Target + 1, p * Target)]

\* processBlob up to the uploads.  Encryption fails before anything changes;
\* the digest of a part fails when its cells have left the staging buffer.
ProcessBlob ==
  LET blob == next + 1
      record == Record(blob, index)
      staged == packer.staged \o record
      whole == Len(staged) \div Target
      listed == Append(chunks, [index |-> index, blob |-> blob]) IN
  /\ Alive /\ next < Len(blobs) /\ outbox = <<>> /\ upload = None
  /\ main \notin {"finish", "finalize"}
  /\ next' = blob
  /\ UNCHANGED <<parts, upload, exposed, stray, srv, reader>>
  /\ \/ /\ UNCHANGED <<index, chunks, packer, outbox>> /\ Breaks
     \/ /\ Len(ObjectOf(chunks)) + Len(record) > Limit
        /\ UNCHANGED <<index, chunks, packer, outbox>> /\ Breaks
     \/ /\ Len(ObjectOf(chunks)) + Len(record) <= Limit
        /\ chunks' = listed
        /\ \/ /\ ~InOrder
              /\ UNCHANGED <<index, packer, outbox>> /\ Breaks
           \/ /\ InOrder /\ whole > 0
              /\ packer' = [count |-> packer.count + 1,
                            staged |-> SubSeq(staged, Target + 1, Len(staged))]
              /\ UNCHANGED <<index, outbox>> /\ Breaks
           \/ /\ InOrder
              /\ packer' = [count |-> packer.count + 1, staged |->
                   SubSeq(staged, whole * Target + 1, Len(staged))]
              /\ outbox' = Cut(staged, whole)
              /\ index' = index + 1
              /\ UNCHANGED <<camera, control>>

----------------------------------------------------------------------------
(* The server. *)

Uploadable == srv.attempt = "uploading" /\ srv.session = "active" /\ srv.current

\* FinalizeRecordingSchema: chunks and parts cover the same bytes.
WellFormed(manifest) ==
  /\ manifest.chunks # <<>>
  /\ \A i \in 1 .. Len(manifest.chunks) : manifest.chunks[i].index = i - 1
  /\ Len(ObjectOf(manifest.chunks)) = Len(FlattenSeq(manifest.parts))
  /\ \A n \in 1 .. Len(manifest.parts) - 1 : Len(manifest.parts[n]) = Target

\* verifyProviderPartList and the ledger's comparison.
Stored(list) ==
  /\ \A n \in 1 .. MaxParts :
       srv.store[n] = IF n <= Len(list) THEN list[n] ELSE None
  /\ srv.ledger = list

Progressed == {"processing", "review_required"}
Abortable == {"ready", "active", "uploading"}
Retryable == {"technical_retry", "retry_required", "expired"}

\* Whether the server does what a request asks for.  The unlocked reads of
\* part-complete are repeated under the lock, but for the provider's list,
\* which for one part number can only show the bytes its URL was signed for.
Grants(m) ==
  CASE m.kind = "start" -> srv.attempt = "ready" /\ srv.current
    [] m.kind = "uploads" -> srv.attempt = "active" /\ srv.current
    [] m.kind = "url" -> Uploadable /\ m.n = Len(srv.ledger) + 1
         /\ Len(FlattenSeq(srv.ledger)) + Len(m.part) <= Limit
    [] m.kind = "put" -> srv.session \notin {None, "failed"}
    [] m.kind = "complete" ->
         /\ Uploadable
         /\ \/ m.n = Len(srv.ledger) + 1 /\ srv.store[m.n] = m.part
            \/ m.n <= Len(srv.ledger) /\ srv.ledger[m.n] = m.part
    [] m.kind = "finalize" ->
         \/ /\ Uploadable /\ WellFormed(m) /\ Stored(m.parts)
            /\ m.intervals = Questions
         \/ srv.attempt = "processing" /\ srv.accepted = m
    [] m.kind = "abort" -> srv.attempt \in Abortable /\ srv.current
    [] m.kind = "finishAbort" -> /\ srv.attempt # "technical_retry"
                                 /\ ~srv.current \/ srv.attempt \in Abortable
    [] m.kind = "retry" -> srv.attempt \in Retryable /\ srv.current

Served(m) ==
  IF ~Grants(m) THEN srv ELSE
  CASE m.kind = "start" -> [srv EXCEPT !.attempt = "active"]
    [] m.kind = "uploads" -> [srv EXCEPT !.attempt = "uploading",
                                         !.session = "active"]
    [] m.kind = "put" -> [srv EXCEPT !.store[m.n] = m.part]
    [] m.kind = "complete" /\ m.n > Len(srv.ledger) ->
         [srv EXCEPT !.ledger = Append(@, m.part)]
    [] m.kind = "finalize" -> [srv EXCEPT !.attempt = "processing",
                                 !.session = "pending", !.accepted = m]
    [] m.kind = "abort" -> [srv EXCEPT !.session =
         IF @ = "active" THEN "aborting" ELSE @]
    [] m.kind = "finishAbort" -> [srv EXCEPT !.session =
         IF @ = None THEN None ELSE "failed",
         !.attempt = IF srv.current THEN "technical_retry"
                     ELSE IF @ \in Abortable THEN "invalidated" ELSE @]
    [] OTHER -> srv

\* What the abort answers, at once or when it has cleaned up.
Verdict(m) ==
  IF srv.attempt = "technical_retry" THEN "technical_retry" ELSE
  CASE m.kind = "abort" /\ srv.attempt \in Progressed -> "already_progressed"
    [] m.kind = "finishAbort" /\ ~srv.current -> "invalidated"
    [] /\ m.kind = "finishAbort" /\ srv.current
       /\ srv.attempt \in Abortable -> "technical_retry"
    [] m.kind = "abort" /\ Grants(m) -> "reserved"
    [] OTHER -> "conflict"

----------------------------------------------------------------------------
(* Requests. *)

Part(kind) == [kind |-> kind, n |-> Len(parts) + 1, part |-> Head(outbox)]
Manifest == [kind |-> "finalize", chunks |-> chunks, parts |-> parts,
             intervals |-> answered]
Manifests == [kind : {"finalize"}, chunks : Seq([index : Nat, blob : Nat]),
              parts : Seq(Seq(Nat \X Nat \X Nat)), intervals : Nat]
Ask(kind) == IF kind = "finalize" THEN Manifest ELSE [kind |-> kind]

\* uploadPart: the URL, the bytes, the acknowledgement.
BeginPart ==
  /\ Alive /\ outbox # <<>> /\ upload = None
  /\ upload' = "url"
  /\ UNCHANGED <<camera, next, index, chunks, packer, outbox, parts, exposed,
                 control, stray, srv, reader>>

PartAnswered ==
  /\ Alive /\ upload # None
  /\ srv' = Served(Part(upload))
  /\ exposed' = IF upload = "put"
             THEN exposed \cup {Head(outbox)[k] : k \in 1 .. Len(Head(outbox))}
             ELSE exposed
  /\ IF ~Grants(Part(upload))
     THEN /\ outbox' = <<>> /\ upload' = None /\ Breaks
          /\ UNCHANGED parts
     ELSE /\ UNCHANGED <<camera, control>>
          /\ IF upload = "complete"
             THEN /\ parts' = Append(parts, Head(outbox))
                  /\ outbox' = Tail(outbox) /\ upload' = None
             ELSE /\ upload' = IF upload = "url" THEN "put" ELSE "complete"
                  /\ UNCHANGED <<parts, outbox>>
  /\ UNCHANGED <<next, index, chunks, packer, stray, reader>>

\* The connection breaks: the request is lost, under way, or served.
PartBroken ==
  /\ Alive /\ upload # None
  /\ exposed' = IF upload = "put"
             THEN exposed \cup {Head(outbox)[k] : k \in 1 .. Len(Head(outbox))}
             ELSE exposed
  /\ \/ UNCHANGED <<stray, srv>>
     \/ stray' = stray \cup {Part(upload)} /\ UNCHANGED srv
     \/ srv' = Served(Part(upload)) /\ UNCHANGED stray
  /\ outbox' = <<>> /\ upload' = None /\ Breaks
  /\ UNCHANGED <<next, index, chunks, packer, parts, reader>>

Lands(m) ==
  /\ srv' = Served(m) /\ stray' = stray \ {m}
  /\ UNCHANGED <<camera, pipeline, control, reader>>

\* What the phone does next when a request of the main thread was served.
After(verdict) ==
  CASE main = "start" -> "uploads"
    [] main = "uploads" -> "take"
    [] main = "finalize" -> "polling"
    [] main = "retry" -> "replaced"
    [] main \in {"abort", "finishAbort"} ->
         CASE verdict = "reserved" -> "finishAbort"
           [] verdict = "already_progressed" -> "uploaded"
           [] verdict = "invalidated" -> "left"
           [] verdict = "technical_retry" ->
                IF pressed THEN "retry" ELSE "recover"

AfterFailure ==
  IF main \in {"start", "uploads", "finalize"} THEN "abort" ELSE "recover"

Answered ==
  /\ main \in Asks
  /\ srv' = Served(Ask(main))
  /\ LET verdict == Verdict(Ask(main))
         ok == IF main \in {"abort", "finishAbort"} THEN verdict # "conflict"
               ELSE Grants(Ask(main)) IN
     /\ main' = IF ok THEN After(verdict) ELSE AfterFailure
     /\ recorder' = IF main' = "take" THEN "on" ELSE recorder
  /\ UNCHANGED <<blobs, answered, timely, pipeline, aborted, failed, pressed,
                 stray, reader>>

\* finishAbort goes on at the server when the phone has gone.
Broken ==
  /\ main \in Asks
  /\ main' = AfterFailure
  /\ \/ main # "finishAbort" /\ UNCHANGED <<stray, srv>>
     \/ stray' = stray \cup {Ask(main)} /\ UNCHANGED srv
     \/ srv' = Served(Ask(main)) /\ UNCHANGED stray
  /\ UNCHANGED <<camera, pipeline, aborted, failed, pressed, reader>>

----------------------------------------------------------------------------
(* The main thread. *)

\* Faulty variant: the end of the take does not wait for the queue.
NotDrained == upload = None

\* "await queue".
Drained == next = Len(blobs) /\ outbox = <<>> /\ upload = None

\* finalizeProofQuestionIntervalsV1: each question once, within the take.
IntervalsValid == answered = Questions /\ timely

\* packer.finish hands out what is staged; a failed digest, an empty take or
\* an incomplete one is an error.
FinishTake ==
  /\ main = "drain" /\ Drained
  /\ \/ /\ ~failed /\ ~aborted /\ IntervalsValid /\ packer.count > 0
        /\ main' = "finish"
        /\ outbox' = IF packer.staged = <<>> THEN <<>> ELSE <<packer.staged>>
        /\ packer' = [packer EXCEPT !.staged = <<>>]
     \/ main' = "abort" /\ UNCHANGED <<outbox, packer>>
  /\ UNCHANGED <<camera, next, index, chunks, parts, upload, exposed, aborted,
                 failed, pressed, stray, srv, reader>>

BuildManifest ==
  /\ main = "finish" /\ outbox = <<>> /\ upload = None
  /\ main' = IF WellFormed(Manifest) THEN "finalize" ELSE "abort"
  /\ UNCHANGED <<camera, pipeline, aborted, failed, pressed, stray, srv,
                 reader>>

\* recoverTechnicalFailure.
PressRecover ==
  /\ main = "recover"
  /\ main' = "abort" /\ pressed' = TRUE
  /\ UNCHANGED <<camera, pipeline, aborted, failed, stray, srv, reader>>

\* waitForPostUploadStatus.
Poll ==
  /\ main = "polling" /\ srv.attempt # "processing"
  /\ main' = IF srv.attempt \in Retryable THEN "recover" ELSE "left"
  /\ UNCHANGED <<camera, pipeline, aborted, failed, pressed, stray, srv,
                 reader>>

----------------------------------------------------------------------------
(* Meanwhile at the server. *)

Supersede ==
  /\ srv.current
  /\ srv' = [srv EXCEPT !.current = FALSE,
       !.attempt = IF @ \in Abortable \cup Progressed THEN "invalidated"
                   ELSE @]
  /\ UNCHANGED <<camera, pipeline, control, stray, reader>>

ExpireAttempt ==
  /\ srv.attempt \in Abortable
  /\ srv' = [srv EXCEPT !.attempt = "expired"]
  /\ UNCHANGED <<camera, pipeline, control, stray, reader>>

----------------------------------------------------------------------------
(* The worker's reader. *)

Whole == FlattenSeq(srv.accepted.parts)
Listed == srv.accepted.chunks

StartRead ==
  /\ srv.attempt = "processing" /\ reader.pc = "idle"
  /\ reader' = [reader EXCEPT !.pc = "reading"]
  /\ UNCHANGED <<camera, pipeline, control, stray, srv>>

\* The parts that end within the cells read so far have their hash.
PartsAgree(got) ==
  /\ Len(got) <= Len(Whole)
  /\ \A n \in 1 .. Len(srv.accepted.parts) :
       LET end == Len(FlattenSeq(SubSeq(srv.accepted.parts, 1, n)))
           first == end - Len(srv.accepted.parts[n]) + 1 IN
       end <= Len(got) =>
         SubSeq(got, first, end) = srv.accepted.parts[n]

\* The records that are complete, and those in front of the first that is
\* not the manifest's.
EndOf(i) == Len(ObjectOf(SubSeq(Listed, 1, i)))
Complete(got) == {i \in 1 .. Len(Listed) : EndOf(i) <= Len(got)}
Genuine(got) ==
  {i \in Complete(got) :
     \A j \in 1 .. i :
       SubSeq(got, EndOf(j - 1) + 1, EndOf(j)) =
         Record(Listed[j].blob, Listed[j].index)}

\* Storage returns the next cells, whole or garbled, or more than there are.
ReadMore == \E n \in 1 .. MaxRead, good \in BOOLEAN :
  LET from == Len(reader.got)
      read == [k \in 1 .. n |-> IF good /\ from + k <= Len(Whole)
                                THEN Whole[from + k] ELSE None]
      got == reader.got \o read IN
  /\ reader.pc = "reading"
  /\ reader' =
       IF ~PartsAgree(got) THEN [reader EXCEPT !.pc = "failed"]
       ELSE [pc |-> IF Genuine(got) = Complete(got) THEN "reading"
                    ELSE "failed",
             got |-> got,
             released |-> [i \in Genuine(got) |-> Listed[i].blob]]
  /\ UNCHANGED <<camera, pipeline, control, stray, srv>>

\* Faulty variant: a stream that ends after some record is a recording.
EndsAtRecord == \E i \in 1 .. Len(Listed) : Len(reader.got) = EndOf(i)

\* The stream ends where the manifest does.
EndsWhole == Len(reader.got) = Len(Whole)

EndRead ==
  /\ reader.pc = "reading"
  /\ reader' = [reader EXCEPT !.pc = IF EndsWhole THEN "ok" ELSE "failed"]
  /\ UNCHANGED <<camera, pipeline, control, stray, srv>>

\* The job settles the attempt by what it read and what the media tools say,
\* a maintainer may ask for another.
Settle ==
  /\ \/ /\ srv.attempt = "processing" /\ reader.pc = "ok"
        /\ srv' = [srv EXCEPT !.attempt = "review_required"]
     \/ /\ srv.attempt = "processing" /\ reader.pc \in {"ok", "failed"}
        /\ srv' = [srv EXCEPT !.attempt = "technical_retry",
                              !.session = "failed", !.refused = TRUE]
     \/ /\ srv.attempt = "review_required"
        /\ srv' = [srv EXCEPT !.attempt = "retry_required", !.refused = TRUE]
  /\ UNCHANGED <<camera, pipeline, control, stray, reader>>

Next ==
  \/ Data \/ Answer \/ Interrupt \/ RecorderError \/ Stop
  \/ ProcessBlob \/ BeginPart \/ PartAnswered \/ PartBroken
  \/ \E m \in stray : Lands(m)
  \/ Answered \/ Broken
  \/ FinishTake \/ BuildManifest \/ PressRecover \/ Poll
  \/ Supersede \/ ExpireAttempt
  \/ StartRead \/ ReadMore \/ EndRead \/ Settle

Spec == Init /\ [][Next]_vars

----------------------------------------------------------------------------
(* Properties. *)

\* Two plaintexts never leave the device under one nonce, although a blob
\* that failed leaves its chunk index to the next one (processBlob,
\* MultipartRecordPacker.push).
NonceIsUsedOnce ==
  \A c, d \in exposed : Nonce(c) = Nonce(d) => c[1] = d[1]

\* What the server accepts is the whole take, in order: every blob the
\* recorder emitted and every question, although errors, interruptions and
\* the last blobs race the end of the recording (recordEncryptAndUpload).
AcceptedIsTheTake ==
  srv.accepted # None =>
    /\ FlattenSeq(srv.accepted.parts) =
         FlattenSeq([i \in 1 .. Len(blobs) |-> Record(i, i - 1)])
    /\ srv.accepted.intervals = Questions /\ ~failed /\ timely

\* The phone says the recording is uploaded only when the server has it, and
\* moves on to another attempt only when the server has no recording of this
\* one or has refused it, whichever answers were lost (beginRecording,
\* recoverTechnicalFailure, abortAttemptForTechnicalRetry).
PhoneTellsTheTruth ==
  /\ main \in {"polling", "uploaded"} => srv.accepted # None
  /\ main = "replaced" => srv.accepted = None \/ srv.refused

\* The worker releases the blobs of the take in order, and reports success
\* for all of them, whatever storage returns (streamDecryptedRecording).
ReleasedIsRecorded ==
  /\ \A i \in DOMAIN reader.released : reader.released[i] = i
  /\ reader.pc = "ok" => Len(reader.released) = Len(blobs)

\* The take reaches the server whole, encrypted under fresh nonces, and the
\* phone knows it (proof.tsx, multipart.ts, part-complete/route.ts).
PhoneInv ==
  /\ TypeOK
  /\ NonceIsUsedOnce
  /\ AcceptedIsTheTake
  /\ PhoneTellsTheTruth
=============================================================================
