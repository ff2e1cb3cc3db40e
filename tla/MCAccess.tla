------------------------------ MODULE MCAccess ------------------------------
(***************************************************************************)
(* One run for the parts that admit people and requests.  They share no    *)
(* state, so a behaviour takes the steps of one of them.                   *)
(***************************************************************************)
EXTENDS Integers, FiniteSets, TLC

CONSTANTS Flows, Calls, Handoffs, Phones, Author, Users, ActiveLimit,
          MaxWithdrawals, Starts, Subjects, Window, Retention,
          SubjectMax, GlobalMax, MaxLag, MaxTime, None

ASSUME AuthorAssumption == Author \in Users
\* Names of different things differ.
ASSUME AccessNamesAssumption ==
  /\ None \notin Users \cup Flows \cup Handoffs \cup Calls \cup Phones
  /\ Calls \cap Phones = {} /\ Flows \cap Handoffs = {}

ASSUME MaxWithdrawalsAssumption == MaxWithdrawals \in Nat

\* Times are whole, quotas admit somebody, and rows outlive the window and the
\* longest wait for the lock (RATE_LIMIT_RETENTION_MS, retentionSeconds).
ASSUME WindowAssumption ==
  /\ Window \in Nat \ {0} /\ Retention \in Nat /\ MaxLag \in Nat /\ MaxTime \in Nat
  /\ Window + MaxLag < Retention
  /\ SubjectMax \in Nat \ {0} /\ GlobalMax \in Nat \ {0}

VARIABLES part,
  active, withdrawn, current, flow, session, handoff, jar, call,
  exchange,
  limiter, clock, events, admitted, start

loginVars == <<active, withdrawn, current, flow, session, handoff, jar,
               call, exchange>>
windowVars == <<limiter, clock, events, admitted, start>>

Login == INSTANCE BrowserAccess
Limit == INSTANCE RateWindow WITH request <- start

Init == /\ part \in {"login", "window"}
        /\ Login!Init /\ Limit!Init
        /\ part = "login" => limiter = "oauth_start"

Next ==
  \/ part = "login" /\ Login!Next /\ UNCHANGED <<part, windowVars>>
  \/ part = "window" /\ Limit!Next /\ UNCHANGED <<part, loginVars>>

Spec == Init /\ [][Next]_<<part, loginVars, windowVars>>

\* Logins, callbacks, exchanges and limited requests are interchangeable.
Symmetry == Permutations(Flows) \cup Permutations(Calls)
              \cup Permutations(Phones) \cup Permutations(Starts)
              \cup Permutations(Subjects)

\* The sessions that concurrent logins, exchanges and withdrawals leave
\* (BrowserAccess; github-oauth-production.ts, handoff.ts).
LoginInv == Login!LoginInv

\* A session appears only for who may have it at that moment (rotateSession).
RotationIsAuthorized == Login!RotationIsAuthorized

\* Quotas and delays of both limiters (RateWindow;
\* consumeOAuthStartRateLimit, reserveWebRequestRateLimit).
WindowInv == Limit!WindowInv
=============================================================================
