------------------------------ MODULE ProofGate ------------------------------
(***************************************************************************)
(* What the whole system promises about one pull request, without saying   *)
(* how: GitHub may merge only what `requiredCheckSatisfiesMergeGate` lets  *)
(* through, and that is at most the head revision of an open pull request  *)
(* for which a maintainer has confirmed understanding.                     *)
(*                                                                         *)
(* `ProofLifecycle` is shown to implement this specification: TLC checks   *)
(* it on small instances, `ProofLifecycle_proofs` proves it.               *)
(***************************************************************************)
CONSTANTS Revisions, None

VARIABLES
    head,       \* the revision GitHub reported last (None before the first)
    open,       \* the pull request is open
    confirmed,  \* revisions a maintainer confirmed
    green       \* revisions whose check lets GitHub merge

vars == <<head, open, confirmed, green>>

Init ==
    /\ head = None
    /\ open = TRUE
    /\ confirmed = {}
    /\ green = {}

\* GitHub reports head r of an open (o) or closed pull request.
Report(r, o) ==
    /\ head' = r
    /\ open' = o
    /\ green' = IF o /\ r \in confirmed THEN {r} ELSE {}
    /\ UNCHANGED confirmed

\* A maintainer confirms the head of the open pull request.
Confirm ==
    /\ open
    /\ head # None
    /\ confirmed' = confirmed \cup {head}
    /\ green' = {head}
    /\ UNCHANGED <<head, open>>

\* The gate may be lowered at any time, never raised in any other way.
Lower ==
    /\ green' = {}
    /\ UNCHANGED <<head, open, confirmed>>

Next ==
    \/ \E r \in Revisions, o \in BOOLEAN : Report(r, o)
    \/ Confirm
    \/ Lower

Spec == Init /\ [][Next]_vars
=============================================================================
