------------------------------ MODULE MCRemote ------------------------------
(***************************************************************************)
(* One run for the parts that talk to each other over connections that     *)
(* break: the provider calls, the GitHub adapters, and the phone with its  *)
(* recording.  They share no state, so a behaviour takes the steps of one  *)
(* of them.                                                                *)
(***************************************************************************)
EXTENDS Integers, Sequences, FiniteSets, TLC

CONSTANTS
  Deadline, MaxAttempts, IdleLimit, Backoff, RetryAfters, Reserve, MinPrimary,
  MaxLate,
  Calls, Heads, Bases, MaxMoves, MaxMints, Pages,
  MaxBlobs, Sizes, Target, Limit, Questions, MaxRead,
  None

\* Durations and counts are natural numbers, at least one attempt is made
\* (resolvePolicy), and None is no outcome and no answer.
ASSUME DurationsAssumption ==
  /\ {Deadline, IdleLimit, Backoff, Reserve, MinPrimary, MaxLate} \subseteq Nat
  /\ MaxAttempts \in Nat \ {0}
  /\ RetryAfters \subseteq Nat
  /\ None \notin {"generated", "repaired", "primary", "fallback", "nobody"}

\* The reserve leaves the first provider some time; no blob is empty.
ASSUME TimeAssumption == MinPrimary + Reserve <= Deadline
ASSUME SizeAssumption == \A s \in Sizes : s > 0

VARIABLES part,
  setup, now, pc, phase, side, invocation, begun, limit, attempt, last,
  code, sent, reported, answeredBy, producer, candidate, outcome,
  edition, moves, mint, cached, pending, refreshing, gen, comments, late,
  excused, call,
  blobs, recorder, answered, timely, aborted, failed, next, index, chunks,
  packer, outbox, parts, upload, main, pressed, stray, exposed, srv, reader

providerVars == <<setup, now, pc, phase, side, invocation, begun, limit,
                  attempt, last, code, sent, reported, answeredBy, producer,
                  candidate, outcome>>
githubVars == <<edition, moves, mint, cached, pending, refreshing, gen,
                comments, late, excused, call>>
phoneVars == <<blobs, recorder, answered, timely, aborted, failed, next,
               index, chunks, packer, outbox, parts, upload, main, pressed,
               stray, exposed, srv, reader>>
vars == <<part, providerVars, githubVars, phoneVars>>

Provider == INSTANCE RemoteCall
Github == INSTANCE GithubClient

\* A snapshot has a page at least, and None is no token, edition, comment or
\* kind of call.
ASSUME GithubAssumption ==
  /\ Pages \in Nat \ {0} /\ MaxMoves \in Nat /\ MaxMints \in Nat
  /\ None \notin (1 .. MaxMints) \cup Github!Editions
                  \cup Github!CommentIds \cup Github!Kinds

Phone == INSTANCE PhoneRecording

\* Blobs, limits and questions are counted, a part has a size, and None is no
\* manifest.
ASSUME PhoneAssumption ==
  /\ {MaxBlobs, Limit, Questions, MaxRead} \subseteq Nat
  /\ Target \in Nat \ {0}
  /\ Sizes \subseteq Nat
  /\ None \notin Phone!Manifests

\* Only the provider part needs every kind of call and every late start.
Init ==
  /\ part \in {"provider", "github", "phone"}
  /\ Provider!Init /\ Github!Init /\ Phone!Init
  /\ part # "provider" => setup.kind = "github" /\ now = 0

Next ==
  \/ /\ part = "provider" /\ Provider!Next
     /\ UNCHANGED <<part, githubVars, phoneVars>>
  \/ /\ part = "github" /\ Github!Next
     /\ UNCHANGED <<part, providerVars, phoneVars>>
  \/ /\ part = "phone" /\ Phone!Next
     /\ UNCHANGED <<part, providerVars, githubVars>>

Spec == Init /\ [][Next]_vars

\* Adapter calls, heads and bases are interchangeable.
Symmetry == Permutations(Calls) \cup Permutations(Heads)
              \cup Permutations(Bases)

\* The promises of a provider call (RemoteCall; hetzner-semantic.ts,
\* hetzner-multimodal.ts, semantic-generation.ts).
ProviderInv == Provider!ProviderInv

\* A provider call behaves as DeadlineCall promises: no request after the
\* deadline, a hop that finds its reserve, one answer in time, of the provider
\* asked last (reserveTransportFallbackDeadline, attachAnsweredBy,
\* invokeWithOneRepair).
Call == INSTANCE DeadlineCall WITH
          clock <- now, asked <- side, since <- begun, requests <- sent,
          answer <- Provider!AnswerOf, MostRequests <- 4 * MaxAttempts
CallSpec == Call!Spec

\* Tokens, snapshots and comments under concurrent calls (GithubClient;
\* app-auth.ts, pull-request.ts, pull-request-comment.ts).
GithubInv == Github!GithubInv

\* The take reaches the server whole and the phone knows it (PhoneRecording;
\* proof.tsx, multipart.ts).
PhoneInv == Phone!PhoneInv

\* The worker releases the take, in order and to its end
\* (streamDecryptedRecording).
ReleasedIsRecorded == Phone!ReleasedIsRecorded
=============================================================================
