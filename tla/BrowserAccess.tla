--------------------------- MODULE BrowserAccess ---------------------------
(***************************************************************************)
(* How a browser and a phone obtain a session.  The browser starts a       *)
(* GitHub login (a flow), GitHub redirects it to the callback, and the     *)
(* callback consumes the flow, asks GitHub who the user is and rotates the *)
(* browser's session.  A contributor's session hands off to a phone        *)
(* through a one-use token.  A webhook that withdraws the repository       *)
(* revokes its sessions while any of this is under way.                    *)
(*                                                                         *)
(* One repository, one pull request revision with one attempt, one         *)
(* browser whose tabs share their cookies.  Time is abstracted to the      *)
(* expiry of a flow.                                                       *)
(***************************************************************************)
EXTENDS Naturals, FiniteSets

CONSTANTS Flows,        \* the logins the browser starts
          Calls,        \* the callback requests it sends, reloads included
          Handoffs,     \* the handoff tokens it asks for
          Phones,       \* the exchanges phones send, retries included
          Author,       \* the GitHub user who wrote the pull request
          Users,        \* the users who may answer GitHub's login page
          ActiveLimit,  \* OAUTH_FLOW_REPOSITORY_ACTIVE_LIMIT
          MaxWithdrawals,
          None

VARIABLES
  active,    \* repository and installation are both active
  withdrawn, \* how often access was withdrawn
  current,   \* the revision is current and its pull request open
  flow,      \* github_oauth_flows
  session,   \* auth_sessions, named by the call or exchange that issues it
  handoff,   \* handoff_tokens
  jar,       \* the browser's cookies
  call,      \* the callback requests under way
  exchange   \* the handoff exchanges under way

vars == <<active, withdrawn, current, flow, session, handoff, jar,
          call, exchange>>

Purposes == {"contributor_login", "maintainer_reauth", "maintainer_identify"}
Issuers == Calls \cup Phones

NoFlow == [state |-> "none", purpose |-> None]
NoSession == [state |-> "none", user |-> None, role |-> None, from |-> None]
EmptyJar == [session |-> None, token |-> None, flow |-> None]

Live(s) == s # None /\ session[s].state = "live"

TypeOK ==
  /\ active \in BOOLEAN /\ current \in BOOLEAN
  /\ withdrawn \in 0..MaxWithdrawals
  /\ flow \in [Flows -> [state: {"none", "open", "expired", "consumed"},
                         purpose: Purposes \cup {None}]]
  /\ session \in [Issuers ->
       [state: {"none", "live", "revoked"}, user: Users \cup {None},
        role: {"author", "maintainer", None},
        from: Flows \cup Handoffs \cup {None}]]
  /\ handoff \in [Handoffs -> [state: {"none", "open", "consumed"},
                               desktop: Issuers \cup {None}]]
  /\ jar \in [session: Issuers \cup {None}, token: Issuers \cup {None},
              flow: Flows \cup {None}]
  /\ call \in [Calls ->
       [pc: {"idle", "peeked", "consumed", "known", "authorized", "issued",
             "identified", "failed", "done"},
        flow: Flows \cup {None}, cookie: Flows \cup {None},
        replaces: Issuers \cup {None}, user: Users \cup {None}]]
  /\ exchange \in [Phones -> [pc: {"idle", "checked", "done"},
                              handoff: Handoffs \cup {None}]]

Init ==
  /\ active = TRUE /\ withdrawn = 0 /\ current = TRUE
  /\ flow = [f \in Flows |-> NoFlow]
  /\ session = [i \in Issuers |-> NoSession]
  /\ handoff = [h \in Handoffs |-> [state |-> "none", desktop |-> None]]
  /\ jar = EmptyJar
  /\ call = [c \in Calls |-> [pc |-> "idle", flow |-> None, cookie |-> None,
                              replaces |-> None, user |-> None]]
  /\ exchange = [p \in Phones |-> [pc |-> "idle", handoff |-> None]]

----------------------------------------------------------------------------
(* Starting a login. *)

OpenFlows == {f \in Flows : flow[f].state = "open"}

\* Counted and inserted in one transaction under an advisory lock.
WithinQuota == Cardinality(OpenFlows) < ActiveLimit

\* resolveProductionStartBinding: what the return path is bound to must still
\* be there.  Identification is bound to nothing.
Bindable(purpose) ==
  \/ purpose = "maintainer_identify"
  \/ purpose = "maintainer_reauth" /\ active
  \/ purpose = "contributor_login" /\ active /\ current

Start(f, purpose) ==
  /\ flow[f].state = "none"
  /\ Bindable(purpose)
  /\ WithinQuota
  /\ flow' = [flow EXCEPT ![f] = [state |-> "open", purpose |-> purpose]]
  /\ jar' = [jar EXCEPT !.flow = f]
  /\ UNCHANGED <<active, withdrawn, current, session, handoff, call, exchange>>

\* After STATE_TTL_MS a flow neither counts nor can be consumed; the next
\* start deletes its row.
FlowExpires(f) ==
  /\ flow[f].state = "open"
  /\ flow' = [flow EXCEPT ![f].state = "expired"]
  /\ UNCHANGED <<active, withdrawn, current, session, handoff, jar, call,
                 exchange>>

----------------------------------------------------------------------------
(* The callback. *)

\* Both peekActiveStateRedirect and the UPDATE that consumes the flow ask this.
Consumable(f) ==
  /\ flow[f].state = "open"
  /\ flow[f].purpose = "maintainer_identify" \/ active

\* GitHub redirects a tab back with the state of its own flow; the cookies are
\* the browser's at that moment.
Arrive(c, f) ==
  /\ call[c].pc = "idle" /\ flow[f].state # "none"
  /\ call' = [call EXCEPT ![c] =
       [pc |-> IF jar.flow # None /\ Consumable(f) THEN "peeked" ELSE "failed",
        flow |-> f, cookie |-> jar.flow, replaces |-> jar.session,
        user |-> None]]
  /\ UNCHANGED <<active, withdrawn, current, flow, session, handoff,
                 jar, exchange>>

\* The sealed cookie must name the state GitHub returned.
Consume(c) ==
  LET f == call[c].flow
      accepted == call[c].cookie = f /\ Consumable(f) IN
  /\ call[c].pc = "peeked"
  /\ flow' = IF accepted THEN [flow EXCEPT ![f].state = "consumed"] ELSE flow
  /\ call' = [call EXCEPT ![c].pc = IF accepted THEN "consumed" ELSE "failed"]
  /\ UNCHANGED <<active, withdrawn, current, session, handoff, jar,
                 exchange>>

\* GitHub names the user, or refuses the code, or does not answer in time.
GithubAnswers == Users \cup {None}

\* exchangeCode, then getUser.
AskGithub(c) ==
  /\ call[c].pc = "consumed"
  /\ \E u \in GithubAnswers :
       call' = [call EXCEPT ![c].user = u,
                            ![c].pc = IF u = None THEN "failed" ELSE "known"]
  /\ UNCHANGED <<active, withdrawn, current, flow, session, handoff,
                 jar, exchange>>

Identifies(c) == flow[call[c].flow].purpose = "maintainer_identify"

\* Identification issues no session: it lists what the user may review, page
\* by page, and hands the list to the browser sealed.
Identify(c) ==
  /\ call[c].pc = "known" /\ Identifies(c)
  /\ \E pc \in {"identified", "failed"} :
       call' = [call EXCEPT ![c].pc = pc]
  /\ UNCHANGED <<active, withdrawn, current, flow, session, handoff, jar,
                 exchange>>

Role(f) == IF flow[f].purpose = "contributor_login" THEN "author"
           ELSE "maintainer"

MayRotate(f, u) ==
  /\ active
  /\ flow[f].purpose = "contributor_login" => current /\ u = Author

\* authorizeSessionRotation: reads the binding FOR SHARE in the transaction
\* that goes on to issue the session.
Authorize(c) ==
  /\ call[c].pc = "known" /\ ~Identifies(c)
  /\ call' = [call EXCEPT ![c].pc =
                IF MayRotate(call[c].flow, call[c].user)
                THEN "authorized" ELSE "failed"]
  /\ UNCHANGED <<active, withdrawn, current, flow, session, handoff,
                 jar, exchange>>

Revoked(ss, dead) ==
  [i \in Issuers |-> IF i \in dead /\ ss[i].state = "live"
                     THEN [ss[i] EXCEPT !.state = "revoked"] ELSE ss[i]]

\* The rest of the transaction: the session the request carried is revoked,
\* its successor inserted, and the locks are released.
Rotate(c) ==
  /\ call[c].pc = "authorized"
  /\ session' = [Revoked(session, {call[c].replaces}) EXCEPT ![c] =
                   [state |-> "live", user |-> call[c].user,
                    role |-> Role(call[c].flow), from |-> call[c].flow]]
  /\ call' = [call EXCEPT ![c].pc = "issued"]
  /\ UNCHANGED <<active, withdrawn, current, flow, handoff, jar,
                 exchange>>

\* The response reaches the browser, which applies its Set-Cookie headers;
\* a user who left the page never sees it.
Cookies(c) ==
  CASE call[c].pc = "issued" ->
         [session |-> c, token |-> c, flow |-> None]
    [] call[c].pc \in {"identified", "failed"} ->
         [jar EXCEPT !.token = None, !.flow = None]

Respond(c) ==
  /\ call[c].pc \in {"issued", "identified", "failed"}
  /\ jar' = Cookies(c)
  /\ call' = [call EXCEPT ![c].pc = "done"]
  /\ UNCHANGED <<active, withdrawn, current, flow, session, handoff,
                 exchange>>

\* The revocation must find a live session: a browser whose session is dead
\* keeps its cookies.
Logout ==
  /\ jar.session = None \/ Live(jar.session)
  /\ session' = Revoked(session, {jar.session})
  /\ jar' = EmptyJar
  /\ UNCHANGED <<active, withdrawn, current, flow, handoff, call,
                 exchange>>

----------------------------------------------------------------------------
(* The handoff to a phone. *)

\* requireSession: a live session, whose repository is active right now.
Authenticated(s) == Live(s) /\ active

CreateHandoff(h) ==
  /\ handoff[h].state = "none"
  /\ Authenticated(jar.session) /\ session[jar.session].role = "author"
  /\ session[jar.session].user = Author
  /\ current
  /\ handoff' = [g \in Handoffs |->
       IF g = h THEN [state |-> "open", desktop |-> jar.session]
       ELSE IF handoff[g].state = "open"
            THEN [handoff[g] EXCEPT !.state = "consumed"] ELSE handoff[g]]
  /\ UNCHANGED <<active, withdrawn, current, flow, session, jar, call,
                 exchange>>

\* exchangeHandoff, up to its last check, which also asks the attempt's
\* status and several deadlines and so may always refuse.  The token's row is
\* locked until the transaction ends; nothing else it read is.
Exchangeable(h) ==
  handoff[h].state = "open" /\ Live(handoff[h].desktop) /\ current

CheckExchange(p, h) ==
  /\ exchange[p].pc = "idle" /\ handoff[h].state # "none"
  /\ \A q \in Phones : exchange[q] # [pc |-> "checked", handoff |-> h]
  /\ \E pc \in {"done"} \cup (IF Exchangeable(h) THEN {"checked"} ELSE {}) :
       exchange' = [exchange EXCEPT ![p] = [pc |-> pc, handoff |-> h]]
  /\ UNCHANGED <<active, withdrawn, current, flow, session, handoff, jar, call>>

CompleteExchange(p) ==
  LET h == exchange[p].handoff IN
  /\ exchange[p].pc = "checked"
  /\ handoff' = [handoff EXCEPT ![h].state = "consumed"]
  /\ session' = [session EXCEPT ![p] = [state |-> "live", user |-> Author,
                                        role |-> "author", from |-> h]]
  /\ exchange' = [exchange EXCEPT ![p].pc = "done"]
  /\ UNCHANGED <<active, withdrawn, current, flow, jar, call>>

----------------------------------------------------------------------------
(* The world around: webhooks, pushes and the attempt's own progress. *)

\* Faulty variant: authorizeSessionRotation reads without FOR SHARE.
NeverLocked == FALSE

Locked == \E c \in Calls : call[c].pc = "authorized"
RevisionLocked ==
  \E c \in Calls : /\ call[c].pc = "authorized"
                   /\ flow[call[c].flow].purpose = "contributor_login"

\* Suspension, removal or deletion updates the repository's row, then revokes
\* its sessions, in one transaction.
Withdraw ==
  /\ active /\ ~Locked /\ withdrawn < MaxWithdrawals
  /\ active' = FALSE /\ withdrawn' = withdrawn + 1
  /\ session' = Revoked(session, Issuers)
  /\ UNCHANGED <<current, flow, handoff, jar, call, exchange>>

Restore ==
  /\ ~active /\ ~Locked
  /\ active' = TRUE
  /\ UNCHANGED <<withdrawn, current, flow, session, handoff, jar, call,
                 exchange>>

Supersede ==
  /\ current /\ ~RevisionLocked
  /\ current' = FALSE
  /\ UNCHANGED <<active, withdrawn, flow, session, handoff, jar, call,
                 exchange>>

Next ==
  \/ \E f \in Flows : \/ \E purpose \in Purposes : Start(f, purpose)
                      \/ FlowExpires(f)
  \/ \E c \in Calls : \/ \E f \in Flows : Arrive(c, f)
                      \/ Consume(c) \/ AskGithub(c) \/ Identify(c)
                      \/ Authorize(c)
                      \/ Rotate(c) \/ Respond(c)
  \/ Logout
  \/ \E h \in Handoffs : CreateHandoff(h)
  \/ \E p \in Phones : \/ \E h \in Handoffs : CheckExchange(p, h)
                       \/ CompleteExchange(p)
  \/ Withdraw \/ Restore \/ Supersede

Spec == Init /\ [][Next]_vars

----------------------------------------------------------------------------
(* Properties. *)

\* A login or a handoff token yields at most one session, however many
\* callbacks and exchanges present it at once (consume, exchangeHandoff).
OneSessionPerGrant ==
  \A i, j \in Issuers :
    session[i].from # None /\ session[i].from = session[j].from => i = j

\* While the repository is withdrawn no session that a login issued is alive:
\* a rotation cannot slip in behind the revocation (FOR SHARE in
\* authorizeSessionRotation, revokeSessionsForInstallation).
WithdrawalEndsLogins ==
  ~active => \A c \in Calls : ~Live(c)

\* A rotation issues a session only for a repository that is active and, to a
\* contributor, only to the author of the current revision, at the moment the
\* session appears and not merely when its flow was consumed.
RotationIsAuthorized ==
  [][\A c \in Calls :
       session[c].state = "none" /\ session'[c].state = "live" =>
         MayRotate(call[c].flow, session'[c].user)]_vars

\* The user-token cookie is sealed to the session beside it, whatever order
\* the responses of concurrent tabs arrive in (handleGithubOAuthCallback).
TokenOpensItsSession == jar.token # None => jar.token = jar.session

\* The sessions that concurrent callbacks, exchanges, logouts and withdrawals
\* leave behind (github-oauth-production.ts, handoff.ts,
\* github-oauth-routes.ts).
LoginInv ==
  /\ TypeOK
  /\ OneSessionPerGrant
  /\ WithdrawalEndsLogins
  /\ TokenOpensItsSession
=============================================================================
