---------------------------- MODULE DeadlineCall ----------------------------
(***************************************************************************)
(* What its caller may rely on when a provider is asked under a deadline,  *)
(* without saying how it is asked: so many requests at most, none of them  *)
(* sent or still open after the deadline; the second provider gets its     *)
(* share of the time before it is asked; the answer comes in time, is that *)
(* of the provider asked last, and stays what it is.                       *)
(*                                                                         *)
(* `RemoteCall` is shown to implement this specification: TLC checks it on *)
(* a small instance (`MCRemote`), `Remote_proofs` proves it.               *)
(***************************************************************************)
EXTENDS Integers

CONSTANTS Deadline,             \* when the answer is needed
          MaxLate,              \* how late a sleeper wakes up
          Reserve, MinPrimary,  \* what is kept back for the second provider
          MostRequests, None

VARIABLES
  clock,
  asked,     \* the provider whose turn it is
  since,     \* when the turn of the first began
  requests,  \* all that were sent
  answer     \* who answered (None while nobody has given up)

vars == <<clock, asked, since, requests, answer>>

Init ==
  /\ clock \in 0..Deadline /\ since = clock
  /\ asked = "primary" /\ requests = 0 /\ answer = None

Open == answer = None
InTime == clock < Deadline

\* The first provider is asked, for the first time or for a repair.
Begin ==
  /\ Open /\ InTime
  /\ asked' = "primary" /\ since' = clock
  /\ UNCHANGED <<clock, requests, answer>>

\* A request is sent in time and over in time.
Ask ==
  /\ Open /\ InTime /\ requests < MostRequests
  /\ requests' = requests + 1
  /\ clock' \in clock..Deadline
  /\ UNCHANGED <<asked, since, answer>>

\* Only a sleeper that wakes up late is past the deadline.
Wait ==
  /\ Open /\ InTime
  /\ clock' \in clock..(Deadline + MaxLate)
  /\ UNCHANGED <<asked, since, requests, answer>>

\* The reserve, or all that the first provider's minimum leaves of it.
Share ==
  IF Reserve < Deadline - since - MinPrimary THEN Reserve
  ELSE Deadline - since - MinPrimary

HandOver ==
  /\ Open /\ asked = "primary" /\ Deadline - clock >= Share - MaxLate
  /\ asked' = "fallback"
  /\ UNCHANGED <<clock, since, requests, answer>>

Answer ==
  /\ Open /\ requests > 0 /\ clock <= Deadline
  /\ answer' = asked
  /\ UNCHANGED <<clock, asked, since, requests>>

GiveUp ==
  /\ Open
  /\ answer' = "nobody"
  /\ UNCHANGED <<clock, asked, since, requests>>

Next == Begin \/ Ask \/ Wait \/ HandOver \/ Answer \/ GiveUp

Spec == Init /\ [][Next]_vars
=============================================================================
