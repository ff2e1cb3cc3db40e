---------------------------- MODULE GithubClient ----------------------------
(***************************************************************************)
(* The worker's GitHub adapters of one repository and one pull request:    *)
(* the cache of installation tokens that concurrent calls share, the reads *)
(* of the pull request (a head, or a snapshot read page by page), and the  *)
(* upsert of the App's comment.  GitHub moves the pull request, revokes    *)
(* tokens and applies writes whose answer was lost.                        *)
(***************************************************************************)
EXTENDS Naturals, Sequences, FiniteSets

CONSTANTS Calls,     \* the adapter calls
          Heads, Bases,
          MaxMoves,  \* bound: moves of the pull request
          MaxMints,  \* bound: installation tokens minted
          Pages,     \* pages of changed files
          None

VARIABLES
  edition,     \* the pull request's head and base at GitHub
  moves,       \* how often it moved (history)
  mint,        \* the tokens minted, with the generation they began in
  cached,      \* cached, pending, refreshing and generations of the key
  pending,
  refreshing,
  gen,
  comments,    \* the App's comments on the pull request
  late,        \* creates GitHub has yet to apply after their answer was lost
  excused,     \* two upserts overlapped or a create landed late (history)
  call

vars == <<edition, moves, mint, cached, pending, refreshing, gen,
          comments, late, excused, call>>
cache == <<mint, cached, pending, refreshing, gen>>
world == <<edition, moves, comments, late, excused>>

Editions == Heads \X Bases
Minted == 1 .. Len(mint)
\* load, getCurrentHead, and the upsert of the comment.
Kinds == {"load", "head", "comment"}
Ended == {"done", "failed"}
CommentIds == Calls \X (1 .. 2)

TypeOK ==
  /\ edition \in Editions /\ moves \in 0 .. MaxMoves
  /\ Len(mint) \in 0 .. MaxMints
  /\ \A i \in Minted : mint[i] \in
       [st: {"running", "live", "aged", "revoked", "failed"}, gen: Nat]
  /\ {cached, pending, refreshing} \subseteq Minted \cup {None}
  /\ gen \in Nat
  /\ comments \in SUBSET [id: CommentIds, text: Editions]
  /\ late \in SUBSET [id: CommentIds, text: Editions]
  /\ excused \in BOOLEAN
  /\ call \in [Calls ->
       [pc: {"idle", "minting", "initial", "pages", "final", "head", "find",
             "write"} \cup Ended,
        kind: Kinds \cup {None}, fresh: BOOLEAN, expected: Editions \cup {None},
        token: Minted \cup {None}, own: Minted \cup {None},
        since: Nat, rejected: Minted \cup {None},
        seen: Editions \cup {None},
        pages: UNION {[1 .. n -> Editions] : n \in 0 .. Pages},
        at: 0 .. MaxMoves,
        existing: CommentIds \cup {None}, writes: 0 .. 1]]

Idle == [pc |-> "idle", kind |-> None, fresh |-> FALSE, expected |-> None,
         token |-> None, own |-> None, since |-> 0, rejected |-> None,
         seen |-> None, pages |-> <<>>, at |-> 0, existing |-> None,
         writes |-> 0]

Init ==
  /\ edition \in Editions /\ moves = 0
  /\ mint = <<>> /\ cached = None /\ pending = None /\ refreshing = None
  /\ gen = 0
  /\ comments = {} /\ late = {} /\ excused = FALSE
  /\ call = [c \in Calls |-> Idle]

At(c, pc) == call[c].pc = pc
Failed == [Idle EXCEPT !.pc = "failed"]
Done == [Idle EXCEPT !.pc = "done"]

----------------------------------------------------------------------------
(* The token cache. *)

\* Where a call goes once it holds its token.  The upsert asks twice: for its
\* own client and inside getCurrentHead.
Granted(rec) ==
  CASE rec.kind = "load" -> "initial"
    [] rec.kind = "comment" /\ rec.own = None -> "find"
    [] OTHER -> "head"

\* get: the cached token unless it is about to expire, else the mint under
\* way, else a new mint in the present generation.  "held" is the cache.
Usable(held) == held # None /\ mint[held].st # "aged"

Get(c, rec, held) ==
  \/ /\ Usable(held)
     /\ call' = [call EXCEPT ![c] =
          [rec EXCEPT !.token = held, !.pc = Granted(rec)]]
     /\ cached' = held
     /\ UNCHANGED <<mint, pending, refreshing, gen>>
  \/ /\ ~Usable(held)
     /\ pending # None
     /\ call' = [call EXCEPT ![c] =
          [rec EXCEPT !.token = pending, !.pc = "minting"]]
     /\ cached' = held
     /\ UNCHANGED <<mint, pending, refreshing, gen>>
  \/ /\ ~Usable(held)
     /\ pending = None
     /\ Len(mint) < MaxMints
     /\ mint' = Append(mint, [st |-> "running", gen |-> gen])
     /\ pending' = Len(mint) + 1
     /\ call' = [call EXCEPT ![c] =
          [rec EXCEPT !.token = Len(mint) + 1, !.pc = "minting"]]
     /\ cached' = held
     /\ UNCHANGED <<refreshing, gen>>

\* What getFresh keeps of a mint under way when it opens a generation.
PendingAfterRefresh == None

\* getFresh: joins the refresh under way, or opens a generation and mints.
\* The get it ends in finds no cached token and nothing pending.
GetFresh(c, rec) ==
  \/ /\ refreshing # None
     /\ call' = [call EXCEPT ![c] = [rec EXCEPT !.token = refreshing,
                                     !.since = gen, !.pc = "minting"]]
     /\ UNCHANGED cache
  \/ /\ refreshing = None
     /\ gen' = gen + 1
     /\ cached' = None
     /\ LET m == IF PendingAfterRefresh = None THEN Len(mint) + 1
                 ELSE PendingAfterRefresh IN
        /\ m <= MaxMints
        /\ mint' = IF m \in Minted THEN mint
                   ELSE Append(mint, [st |-> "running", gen |-> gen + 1])
        /\ pending' = m /\ refreshing' = m
        /\ call' = [call EXCEPT ![c] = [rec EXCEPT !.token = m,
                                        !.since = gen + 1, !.pc = "minting"]]

\* Faulty variant: every mint is cached.
MayCacheAny(m) == TRUE

\* Only a mint of the present generation is cached.
MayCache(m) == mint[m].gen = gen

Waiting(m) == {c \in Calls : At(c, "minting") /\ call[c].token = m}
Cleared(slot, m) == IF slot = m THEN None ELSE slot

MintSettles(m) ==
  /\ mint[m].st = "running"
  /\ pending' = Cleared(pending, m)
  /\ refreshing' = Cleared(refreshing, m)
  /\ \/ /\ mint' = [mint EXCEPT ![m].st = "live"]
        /\ cached' = IF MayCache(m) THEN m ELSE cached
        /\ call' = [c \in Calls |-> IF c \in Waiting(m)
             THEN [call[c] EXCEPT !.pc = Granted(call[c])] ELSE call[c]]
     \/ /\ mint' = [mint EXCEPT ![m].st = "failed"]
        /\ call' = [c \in Calls |-> IF c \in Waiting(m)
             THEN Failed ELSE call[c]]
        /\ UNCHANGED cached
  /\ UNCHANGED <<gen, world>>

\* The cache after invalidate, which leaves a mint under way alone.
Invalidated == None

----------------------------------------------------------------------------
(* The pull request's reads, and the comment. *)

Upserting ==
  {d \in Calls : call[d].kind = "comment" /\ call[d].pc \notin Ended}

\* A snapshot is asked for by its head, a comment names head and base.
Expectations(kind) ==
  CASE kind = "load" -> Heads \X {edition[2]}
    [] kind = "comment" -> Editions
    [] kind = "head" -> {None}

Start(c) == \E kind \in Kinds, fresh \in BOOLEAN :
  /\ At(c, "idle")
  /\ kind = "comment" => ~fresh
  /\ \E expected \in Expectations(kind) :
       LET rec == [call[c] EXCEPT !.kind = kind, !.fresh = fresh,
                                  !.expected = expected] IN
       IF fresh THEN GetFresh(c, rec) ELSE Get(c, rec, cached)
  /\ excused' = (excused \/ (kind = "comment" /\ Upserting # {}))
  /\ UNCHANGED <<edition, moves, comments, late>>

\* The token the request at hand carries: the upsert lists and writes with
\* its own client, and reads the head through the other adapter's.
Carried(c) == IF At(c, "write") THEN call[c].own ELSE call[c].token
Authorized(c) == mint[Carried(c)].st # "revoked"
Requesting(c) ==
  call[c].pc \in {"initial", "pages", "final", "head", "find", "write"}

\* 401: the cached token is dropped whichever it is; a read starts over once
\* with get, the upsert's own requests do not.
Unauthorized(c) ==
  /\ Requesting(c) /\ ~Authorized(c)
  /\ LET again == /\ call[c].rejected = None
                  /\ call[c].pc \notin {"find", "write"} IN
     \/ /\ again
        /\ Get(c, [call[c] EXCEPT !.rejected = call[c].token,
                   !.seen = None, !.pages = <<>>], Invalidated)
     \/ /\ ~again
        /\ cached' = Invalidated
        /\ call' = [call EXCEPT ![c] = Failed]
        /\ UNCHANGED <<mint, pending, refreshing, gen>>
  /\ UNCHANGED world

\* Any other failure of a request, or an answer that does not parse, ends
\* the call.
Fails(c) ==
  /\ Requesting(c) /\ Authorized(c) /\ ~At(c, "write")
  /\ call' = [call EXCEPT ![c] = Failed]
  /\ UNCHANGED <<cache, world>>

\* The first read binds the head only: the base it finds is the snapshot's.
ReadInitial(c) ==
  /\ At(c, "initial") /\ Authorized(c)
  /\ call' = [call EXCEPT ![c] =
       IF edition[1] = call[c].expected[1]
       THEN [@ EXCEPT !.pc = "pages", !.seen = edition, !.at = moves]
       ELSE Failed]
  /\ UNCHANGED <<cache, world>>

\* GitHub serves each page from the pull request as it then is.
ReadPage(c) ==
  /\ At(c, "pages") /\ Authorized(c)
  /\ call' = [call EXCEPT
       ![c].pages = Append(@, edition),
       ![c].pc = IF Len(call[c].pages) + 1 = Pages THEN "final" ELSE "pages"]
  /\ UNCHANGED <<cache, world>>

\* sameSnapshotMetadata.
SameEdition(c) == edition = call[c].seen

ReadFinal(c) ==
  /\ At(c, "final") /\ Authorized(c)
  /\ call' = [call EXCEPT ![c] =
       IF SameEdition(c)
       THEN [Done EXCEPT !.kind = "load", !.seen = call[c].seen,
                      !.pages = call[c].pages, !.at = call[c].at]
       ELSE Failed]
  /\ UNCHANGED <<cache, world>>

\* getCurrentHead: on its own, or as the upsert's assertCurrentHead.
ReadHead(c) ==
  /\ At(c, "head") /\ Authorized(c)
  /\ call' = [call EXCEPT ![c] =
       CASE call[c].kind = "head" -> Done
         [] call[c].kind = "comment" /\ edition = call[c].expected ->
              [@ EXCEPT !.pc = "write"]
         [] OTHER -> Failed]
  /\ UNCHANGED <<cache, world>>

\* findExisting refuses to choose between two comments of the App.  The head
\* is then read with a token of its own.
Find(c) ==
  /\ At(c, "find") /\ Authorized(c)
  /\ \/ /\ Cardinality(comments) > 1
        /\ call' = [call EXCEPT ![c] = Failed]
        /\ UNCHANGED cache
     \/ /\ Cardinality(comments) <= 1
        /\ Get(c, [call[c] EXCEPT !.own = call[c].token,
                   !.existing = IF comments = {} THEN None
                     ELSE (CHOOSE k \in comments : TRUE).id], cached)
  /\ UNCHANGED world

\* executeWrite sends once: a lost answer ends the upsert as ambiguous.
AfterLostAnswer(c) == Failed

Text(c) == call[c].expected
UpToDate(c) ==
  \E k \in comments : k.id = call[c].existing /\ k.text = Text(c)
Applied(c) ==
  IF call[c].existing = None
  THEN comments \cup {[id |-> <<c, call[c].writes + 1>>, text |-> Text(c)]}
  ELSE {IF k.id = call[c].existing THEN [k EXCEPT !.text = Text(c)] ELSE k :
          k \in comments}

Write(c) ==
  /\ At(c, "write")
  /\ \/ /\ UpToDate(c)
        /\ call' = [call EXCEPT ![c] = Done]
        /\ UNCHANGED <<comments, late>>
     \/ /\ ~UpToDate(c) /\ Authorized(c)
        /\ \/ /\ comments' = Applied(c)
              /\ call' = [call EXCEPT ![c] = Done]
              /\ UNCHANGED late
           \/ /\ call' = [call EXCEPT ![c] = Failed]
              /\ UNCHANGED <<comments, late>>
           \/ /\ call' = [call EXCEPT ![c] = AfterLostAnswer(c)]
              /\ \/ comments' = Applied(c) /\ UNCHANGED late
                 \/ UNCHANGED <<comments, late>>
                 \/ /\ call[c].existing = None
                    /\ late' = late \cup (Applied(c) \ comments)
                    /\ UNCHANGED comments
  /\ UNCHANGED <<cache, edition, moves, excused>>

----------------------------------------------------------------------------
(* GitHub. *)

Moves == \E e \in Editions \ {edition} :
  /\ moves < MaxMoves
  /\ edition' = e /\ moves' = moves + 1
  /\ UNCHANGED <<cache, comments, late, excused, call>>

Ages(m) == \E st \in {"aged", "revoked"} :
  /\ mint[m].st = "live"
  /\ mint' = [mint EXCEPT ![m].st = st]
  /\ UNCHANGED <<cached, pending, refreshing, gen, call, world>>

Lands(k) ==
  /\ comments' = comments \cup {k} /\ late' = late \ {k}
  /\ excused' = TRUE
  /\ UNCHANGED <<cache, edition, moves, call>>

Next ==
  \/ \E c \in Calls : \/ Start(c) \/ Unauthorized(c) \/ Fails(c)
                      \/ ReadInitial(c) \/ ReadPage(c) \/ ReadFinal(c)
                      \/ ReadHead(c) \/ Find(c) \/ Write(c)
  \/ \E m \in Minted : MintSettles(m) \/ Ages(m)
  \/ \E k \in late : Lands(k)
  \/ Moves

Spec == Init /\ [][Next]_vars

----------------------------------------------------------------------------
(* Properties. *)

\* A token minted before a forced refresh is not served from the cache after
\* it, however late its mint settles (the generation check of get).
CachedIsCurrent == cached # None => mint[cached].gen = gen

\* A call that asked for fresh authorization begins with a token of the
\* generation its refresh opened or joined (getFresh deletes what is pending).
FreshUsesFresh ==
  \A c \in Calls :
    call[c].fresh /\ call[c].token # None /\ call[c].rejected = None =>
      mint[call[c].token].gen >= call[c].since

\* After a 401 the second try carries another token, whatever the other
\* calls did to the cache in between (invalidate).
RetryUsesAnotherToken ==
  \A c \in Calls : call[c].rejected # None => call[c].token # call[c].rejected

\* A snapshot whose pages come from another edition than its metadata was
\* read across a move away and back (loadWithAuthorization's second read).
SnapshotIsOneEdition ==
  \A c \in Calls : call[c].kind = "load" /\ At(c, "done") =>
    \/ \A i \in 1 .. Len(call[c].pages) : call[c].pages[i] = call[c].seen
    \/ moves >= call[c].at + 2

\* The App has two comments only after two upserts overlapped or a create
\* landed after its upsert gave up (findExisting, executeWrite's one attempt).
OneTimelineComment == Cardinality(comments) > 1 => excused

\* Tokens, snapshots and comments, whatever concurrent calls and a moving pull
\* request do (app-auth.ts, pull-request.ts, pull-request-comment.ts).
GithubInv ==
  /\ TypeOK
  /\ CachedIsCurrent
  /\ FreshUsesFresh
  /\ RetryUsesAnotherToken
  /\ SnapshotIsOneEdition
  /\ OneTimelineComment
=============================================================================
