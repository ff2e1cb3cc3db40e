-------------------------- MODULE MCGithubControl --------------------------
EXTENDS GithubControl, TLC
CONSTANTS a, b, p
Lifecycle(kind, i) == [kind |-> kind, from |-> i]
(* A transfer to b; b suspended and back while it is a candidate; the App     *)
(* installed afresh on every repository of b; a transfer to b while b is      *)
(* suspended and back.                                                        *)
Transfer == {Lifecycle("added", b), Lifecycle("deleted", a)}
Pause == {Lifecycle("suspend", b), Lifecycle("unsuspend", b)}
MCSent == { Transfer, {Lifecycle("added", b)} \cup Pause,
            {Lifecycle("created", b), Lifecycle("removed", a)} }

MCEvents == UNION MCSent
MCFrom == p :> b
============================================================================
