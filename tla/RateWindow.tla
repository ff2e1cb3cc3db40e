----------------------------- MODULE RateWindow -----------------------------
(***************************************************************************)
(* A sliding-window limit kept in a table, as two components implement it: *)
(* "oauth_start" (consumeOAuthStartRateLimit) reads the clock before it    *)
(* waits for its advisory lock, "web_request" (reserveWebRequestRateLimit) *)
(* reads it under the lock.  Both count a subject's events and everyone's, *)
(* delete expired events first and answer a refusal with a delay.          *)
(***************************************************************************)
EXTENDS Integers, FiniteSets

CONSTANTS Starts,     \* the requests it limits
          Subjects,
          Window, Retention,
          SubjectMax, GlobalMax,
          MaxLag,     \* how long a request may wait for the lock
          MaxTime,
          None

VARIABLES limiter,   \* the component: "oauth_start" or "web_request"
          clock,
          events,    \* the rows of the table
          admitted,  \* every event ever admitted
          request    \* the requests under way

vars == <<limiter, clock, events, admitted, request>>

Event == [by: Starts, subject: Subjects, at: 0..MaxTime]

TypeOK ==
  /\ limiter \in {"oauth_start", "web_request"}
  /\ clock \in 0..MaxTime
  /\ events \subseteq Event /\ admitted \subseteq Event
  /\ request \in [Starts ->
       [pc: {"idle", "waiting", "locked", "deciding", "done"},
        subject: Subjects \cup {None}, arrived: 0..MaxTime, now: 0..MaxTime,
        ok: BOOLEAN, retry: 0..Window]]

Idle == [pc |-> "idle", subject |-> None, arrived |-> 0, now |-> 0,
         ok |-> FALSE, retry |-> 0]

Init ==
  /\ limiter \in {"oauth_start", "web_request"}
  /\ clock = 0 /\ events = {} /\ admitted = {}
  /\ request = [r \in Starts |-> Idle]

At(r, pc) == request[r].pc = pc

Arrive(r, s) ==
  /\ At(r, "idle")
  /\ request' = [request EXCEPT ![r].pc = "waiting", ![r].subject = s,
                                ![r].arrived = clock, ![r].now = clock]
  /\ UNCHANGED <<limiter, clock, events, admitted>>

\* Faulty variant: no advisory lock.
NeverHeld == FALSE

\* pg_advisory_xact_lock, held until the transaction ends.
Held == \E r \in Starts : At(r, "locked") \/ At(r, "deciding")

Lock(r) ==
  /\ At(r, "waiting") /\ ~Held
  /\ request' = [request EXCEPT ![r].pc = "locked"]
  /\ UNCHANGED <<limiter, clock, events, admitted>>

\* The DELETE compares with the request's own clock; only the web limiter's
\* moves while it waits.
ClockOf(r) == IF limiter = "web_request" THEN clock ELSE request[r].arrived

Expired(now) == {e \in events : e.at + Retention <= now}

Recent(es, now) ==
  {e \in es : IF limiter = "web_request" THEN e.at > now - Window
              ELSE e.at >= now - Window}

OfSubject(es, s) == {e \in es : e.subject = s}
Oldest(es) == CHOOSE t \in {e.at : e \in es} : \A e \in es : t <= e.at
Larger(a, b) == IF a >= b THEN a ELSE b
Smaller(a, b) == IF a <= b THEN a ELSE b

\* Seconds until the exceeded quota frees a place, clamped to 1..Window.  The
\* web limiter takes the later of the two, the OAuth limiter the client's.
RetryAfter(mine, all, now) ==
  LET subjectFree == IF Cardinality(mine) >= SubjectMax
                     THEN Oldest(mine) + Window ELSE now
      globalFree == IF Cardinality(all) >= GlobalMax
                    THEN Oldest(all) + Window ELSE now
      free == IF limiter = "web_request" THEN Larger(subjectFree, globalFree)
              ELSE IF Cardinality(mine) >= SubjectMax THEN subjectFree
              ELSE globalFree
  IN Larger(1, Smaller(Window, free - now))

\* One statement deletes, the next counts and inserts; both are invisible to
\* others until the transaction commits.
Decide(r) ==
  LET now == ClockOf(r)
      all == Recent(events, now)
      mine == OfSubject(all, request[r].subject)
      ok == Cardinality(mine) < SubjectMax /\ Cardinality(all) < GlobalMax IN
  /\ At(r, "locked")
  /\ request' = [request EXCEPT ![r].pc = "deciding", ![r].now = now,
                   ![r].ok = ok,
                   ![r].retry = IF ok THEN 0 ELSE RetryAfter(mine, all, now)]
  /\ UNCHANGED <<limiter, clock, events, admitted>>

\* A refusal commits the cleanup too.
Commit(r) ==
  LET e == [by |-> r, subject |-> request[r].subject, at |-> request[r].now]
      new == IF request[r].ok THEN {e} ELSE {} IN
  /\ At(r, "deciding")
  /\ events' = (events \ Expired(request[r].now)) \cup new
  /\ admitted' = admitted \cup new
  /\ request' = [request EXCEPT ![r] = [Idle EXCEPT !.pc = "done"]]
  /\ UNCHANGED <<limiter, clock>>

\* The connection fails: nothing of the transaction remains.
Rollback(r) ==
  /\ request[r].pc \in {"waiting", "locked", "deciding"}
  /\ request' = [request EXCEPT ![r] = [Idle EXCEPT !.pc = "done"]]
  /\ UNCHANGED <<limiter, clock, events, admitted>>

\* Time passes; no request is kept waiting longer than MaxLag.
Tick ==
  /\ clock < MaxTime
  /\ \A r \in Starts : request[r].pc \in {"waiting", "locked", "deciding"}
       => clock - request[r].arrived < MaxLag
  /\ clock' = clock + 1
  /\ UNCHANGED <<limiter, events, admitted, request>>

Next ==
  \/ \E r \in Starts :
       \/ \E s \in Subjects : Arrive(r, s)
       \/ Lock(r) \/ Decide(r) \/ Commit(r) \/ Rollback(r)
  \/ Tick

Spec == Init /\ [][Next]_vars

----------------------------------------------------------------------------
(* Properties. *)

\* No window of the configured length ever holds more admissions than the
\* quotas, of one subject or of all, in whatever order concurrent requests
\* with different clocks obtain the lock.
WindowHolds ==
  \A t \in {e.at : e \in admitted} :
    LET inside == {e \in admitted : e.at <= t /\ e.at > t - Window} IN
    /\ Cardinality(inside) <= GlobalMax
    /\ \A s \in Subjects : Cardinality(OfSubject(inside, s)) <= SubjectMax

\* Who comes back after the delay that the web limiter's refusal names is
\* admitted, unless somebody else took the place.
RetryAfterIsHonest ==
  limiter = "web_request" =>
    \A r \in Starts : At(r, "deciding") /\ ~request[r].ok =>
      LET then == Recent(events, request[r].now + request[r].retry) IN
      /\ Cardinality(then) < GlobalMax
      /\ Cardinality(OfSubject(then, request[r].subject)) < SubjectMax

\* The quotas hold and the delay that is told is right, although requests
\* take their clock before they wait for the lock (oauth-start-protection.ts,
\* request-rate-limit.ts).
WindowInv == TypeOK /\ WindowHolds /\ RetryAfterIsHonest
=============================================================================
