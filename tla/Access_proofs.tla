--------------------------- MODULE Access_proofs ---------------------------
(***************************************************************************)
(* Proofs about who is admitted: BrowserAccess for any number of logins,   *)
(* callbacks, handoffs, exchanges and withdrawals, and RateWindow for any  *)
(* quotas, window, retention and wait for the lock that it covers.         *)
(***************************************************************************)
EXTENDS MCAccess, FiniteSetTheorems, WellFoundedInduction, TLAPS

-----------------------------------------------------------------------------
(* Logins and handoffs: the inductive invariant.                           *)

\* A call that consumed its flow, until it fails.
Consumed(c) ==
  \/ call[c].pc \in {"consumed", "known", "authorized", "issued", "identified"}
  \/ session[c].from # None

\* A flow is consumed by one call, which alone may have a session from it.
FlowHasOneCall ==
  /\ \A c \in Calls : call[c].pc # "idle" =>
       call[c].flow \in Flows /\ flow[call[c].flow].state # "none"
  /\ \A c \in Calls : Consumed(c) => flow[call[c].flow].state = "consumed"
  /\ \A c, d \in Calls :
       Consumed(c) /\ Consumed(d) /\ call[c].flow = call[d].flow => c = d
  /\ \A c \in Calls : session[c].from # None =>
       session[c].from = call[c].flow /\ call[c].pc \in {"issued", "done"}
  /\ \A c \in Calls : session[c].state = "live" => session[c].from # None

\* A phone that passed the checks of its exchange.
Exchanging(p) == exchange[p].pc = "checked" \/ session[p].from # None

\* A handoff token is exchanged once.
HandoffHasOnePhone ==
  /\ \A p \in Phones : exchange[p].pc # "idle" => exchange[p].handoff \in Handoffs
  /\ \A p, q \in Phones :
       Exchanging(p) /\ Exchanging(q) /\ exchange[p].handoff = exchange[q].handoff => p = q
  /\ \A p \in Phones : session[p].from # None =>
       /\ session[p].from = exchange[p].handoff /\ exchange[p].pc = "done"
       /\ handoff[exchange[p].handoff].state = "consumed"
  /\ \A p \in Phones : exchange[p].pc = "checked" =>
       handoff[exchange[p].handoff].state # "none"

\* The rows an authorized rotation has read stay as they are.
AuthorizedIsLocked ==
  /\ \A c \in Calls : call[c].pc \in {"known", "authorized"} => call[c].user \in Users
  /\ \A c \in Calls : call[c].pc = "authorized" => Login!MayRotate(call[c].flow, call[c].user)

\* What every step keeps: the promises of LoginInv and what the rows that
\* callbacks and exchanges have read say about each other.
LoginIInv ==
  /\ Login!TypeOK
  /\ FlowHasOneCall
  /\ HandoffHasOnePhone
  /\ AuthorizedIsLocked
  /\ Login!WithdrawalEndsLogins
  /\ Login!TokenOpensItsSession

\* The type invariant, variable by variable.
AccessType == active \in BOOLEAN /\ current \in BOOLEAN /\ withdrawn \in 0..MaxWithdrawals
FlowRow == [state: {"none", "open", "expired", "consumed"},
            purpose: Login!Purposes \cup {None}]
FlowType == flow \in [Flows -> FlowRow]
SessionRow == [state: {"none", "live", "revoked"}, user: Users \cup {None},
               role: {"author", "maintainer", None},
               from: Flows \cup Handoffs \cup {None}]
SessionType == session \in [Login!Issuers -> SessionRow]
HandoffRow == [state: {"none", "open", "consumed"}, desktop: Login!Issuers \cup {None}]
HandoffType == handoff \in [Handoffs -> HandoffRow]
JarType == jar \in [session: Login!Issuers \cup {None}, token: Login!Issuers \cup {None},
              flow: Flows \cup {None}]
CallRow == [pc: {"idle", "peeked", "consumed", "known", "authorized", "issued",
                 "identified", "failed", "done"},
            flow: Flows \cup {None}, cookie: Flows \cup {None},
            replaces: Login!Issuers \cup {None}, user: Users \cup {None}]
CallType == call \in [Calls -> CallRow]
ExchangeType == exchange \in [Phones -> [pc: {"idle", "checked", "done"},
                              handoff: Handoffs \cup {None}]]

\* The type invariant is the conjunction of its parts (BrowserAccess).
LEMMA LoginTypes == Login!TypeOK <=> /\ AccessType /\ FlowType /\ SessionType /\ HandoffType
                          /\ JarType /\ CallType /\ ExchangeType
  BY DEF Login!TypeOK, AccessType, FlowType, SessionType, HandoffType, JarType,
      CallType, ExchangeType, FlowRow, SessionRow, HandoffRow, CallRow

\* A flow's state may change alone.
LEMMA FlowRows ==
    ASSUME FlowType, NEW f \in Flows, NEW s \in {"open", "expired", "consumed"},
           flow' = [flow EXCEPT ![f].state = s]
    PROVE  FlowType'
<1>1. [flow[f] EXCEPT !.state = s] \in FlowRow
  BY DEF FlowType, FlowRow
<1> QED
  BY <1>1 DEF FlowType

\* A call's place may change alone.
LEMMA CallRows ==
    ASSUME CallType, NEW c \in Calls,
           NEW s \in {"consumed", "authorized", "issued", "identified", "failed", "done"},
           call' = [call EXCEPT ![c].pc = s]
    PROVE  CallType'
<1>1. [call[c] EXCEPT !.pc = s] \in CallRow
  BY DEF CallType, CallRow
<1> QED
  BY <1>1 DEF CallType

\* Withdrawal, restoration and a push keep the repository's flags in their types.
LEMMA AccessStep ==
    ASSUME AccessType, [Login!Next]_(Login!vars)
    PROVE  AccessType'
<1> USE AuthorAssumption, AccessNamesAssumption, MaxWithdrawalsAssumption DEF AccessType
<1>1. ASSUME Login!Withdraw PROVE AccessType'
  <2>1. withdrawn' \in 0..MaxWithdrawals
    BY <1>1 DEF Login!Withdraw
  <2>2. active' = FALSE /\ current' = current
    BY <1>1 DEF Login!Withdraw
  <2> QED
    BY <2>1, <2>2
<1>2. ASSUME Login!Restore PROVE AccessType'
  BY <1>2 DEF Login!Restore, Login!Locked
<1>3. ASSUME Login!Supersede PROVE AccessType'
  BY <1>3 DEF Login!Supersede, Login!RevisionLocked
<1>4. CASE UNCHANGED <<active, withdrawn, current>>
  BY <1>4
<1>5. \/ UNCHANGED <<active, withdrawn, current>>
      \/ Login!Withdraw
      \/ Login!Restore
      \/ Login!Supersede
  BY DEF Login!Next, Login!vars, Login!Start, Login!FlowExpires, Login!Arrive,
      Login!Consume, Login!AskGithub, Login!Identify, Login!Authorize,
      Login!Rotate, Login!Respond, Login!Logout, Login!CreateHandoff,
      Login!CheckExchange, Login!CompleteExchange
<1> QED
  BY <1>1, <1>2, <1>3, <1>4, <1>5

\* Starting, expiring and consuming a flow keep github_oauth_flows in its type.
LEMMA FlowStep ==
    ASSUME FlowType, CallType, FlowHasOneCall, [Login!Next]_(Login!vars)
    PROVE  FlowType'
<1> USE AuthorAssumption, AccessNamesAssumption,
    MaxWithdrawalsAssumption DEF Login!Purposes
<1>1. ASSUME NEW f \in Flows, NEW purpose \in Login!Purposes, Login!Start(f, purpose)
      PROVE FlowType'
  BY <1>1 DEF Login!Start, FlowType, FlowRow
<1>2. ASSUME NEW f \in Flows, Login!FlowExpires(f) PROVE FlowType'
  BY <1>2, FlowRows DEF Login!FlowExpires
<1>3. ASSUME NEW c \in Calls, Login!Consume(c) PROVE FlowType'
  <2>1. call[c].flow \in Flows
    BY <1>3 DEF FlowHasOneCall, Login!Consume
  <2>2. flow' = flow \/ flow' = [flow EXCEPT ![call[c].flow].state = "consumed"]
    BY <1>3 DEF Login!Consume
  <2> QED
    BY <2>1, <2>2, FlowRows DEF FlowType
<1>4. CASE UNCHANGED <<flow>>
  BY <1>4 DEF FlowType
<1>5. \/ UNCHANGED <<flow>>
      \/ (\E f \in Flows, purpose \in Login!Purposes : Login!Start(f, purpose))
      \/ (\E f \in Flows : Login!FlowExpires(f))
      \/ (\E c \in Calls : Login!Consume(c))
  BY DEF Login!Next, Login!vars, Login!Arrive, Login!AskGithub, Login!Identify,
      Login!Authorize, Login!Rotate, Login!Respond, Login!Logout,
      Login!CreateHandoff, Login!CheckExchange, Login!CompleteExchange,
      Login!Withdraw, Login!Restore, Login!Supersede
<1> QED
  BY <1>1, <1>2, <1>3, <1>4, <1>5

\* Rotation, logout, exchange and revocation keep auth_sessions in its type.
LEMMA SessionStep ==
    ASSUME SessionType, CallType, ExchangeType, FlowHasOneCall,
           HandoffHasOnePhone, AuthorizedIsLocked, [Login!Next]_(Login!vars)
    PROVE  SessionType'
<1> USE AuthorAssumption, AccessNamesAssumption,
    MaxWithdrawalsAssumption DEF Login!Issuers, SessionType
<1>1. ASSUME NEW c \in Calls, Login!Rotate(c) PROVE SessionType'
  <2> DEFINE row == [state |-> "live", user |-> call[c].user,
                     role |-> Login!Role(call[c].flow), from |-> call[c].flow]
             rest == Login!Revoked(session, {call[c].replaces})
  <2>1. row \in SessionRow
    BY <1>1 DEF Login!Rotate, FlowHasOneCall, AuthorizedIsLocked, Login!Role, SessionRow
  <2>2. rest \in [Login!Issuers -> SessionRow]
    BY DEF Login!Revoked, SessionRow
  <2>3. session' = [rest EXCEPT ![c] = row]
    BY <1>1 DEF Login!Rotate
  <2> HIDE DEF row, rest
  <2> QED
    BY <2>1, <2>2, <2>3
<1>2. ASSUME Login!Logout PROVE SessionType'
  BY <1>2 DEF Login!Logout, Login!Revoked, SessionRow
<1>3. ASSUME NEW p \in Phones, Login!CompleteExchange(p) PROVE SessionType'
  BY <1>3 DEF Login!CompleteExchange, HandoffHasOnePhone, SessionRow
<1>4. ASSUME Login!Withdraw PROVE SessionType'
  BY <1>4 DEF Login!Withdraw, Login!Revoked, SessionRow
<1>5. CASE UNCHANGED <<session>>
  BY <1>5
<1>6. \/ UNCHANGED <<session>>
      \/ (\E c \in Calls : Login!Rotate(c))
      \/ Login!Logout
      \/ (\E p \in Phones : Login!CompleteExchange(p))
      \/ Login!Withdraw
  BY DEF Login!Next, Login!vars, Login!Start, Login!FlowExpires, Login!Arrive,
      Login!Consume, Login!AskGithub, Login!Identify, Login!Authorize,
      Login!Respond, Login!CreateHandoff, Login!CheckExchange, Login!Restore,
      Login!Supersede
<1> QED
  BY <1>1, <1>2, <1>3, <1>4, <1>5, <1>6

\* Creating and exchanging a handoff keep handoff_tokens in its type.
LEMMA HandoffStep ==
    ASSUME HandoffType, JarType, ExchangeType, HandoffHasOnePhone, [Login!Next]_(Login!vars)
    PROVE  HandoffType'
<1> USE AuthorAssumption, AccessNamesAssumption,
    MaxWithdrawalsAssumption DEF HandoffType, HandoffRow, JarType, Login!Issuers
<1>1. ASSUME NEW h \in Handoffs, Login!CreateHandoff(h) PROVE HandoffType'
  BY <1>1 DEF Login!CreateHandoff, Login!Authenticated, Login!Live
<1>2. ASSUME NEW p \in Phones, Login!CompleteExchange(p) PROVE HandoffType'
  <2> DEFINE h == exchange[p].handoff
  <2>1. h \in Handoffs /\ handoff' = [handoff EXCEPT ![h].state = "consumed"]
    BY <1>2 DEF HandoffHasOnePhone, Login!CompleteExchange
  <2>2. [handoff[h] EXCEPT !.state = "consumed"] \in HandoffRow
    BY <2>1
  <2> HIDE DEF h, HandoffRow
  <2> QED
    BY <2>1, <2>2
<1>3. CASE UNCHANGED <<handoff>>
  BY <1>3
<1>4. \/ UNCHANGED <<handoff>>
      \/ (\E h \in Handoffs : Login!CreateHandoff(h))
      \/ (\E p \in Phones : Login!CompleteExchange(p))
  BY DEF Login!Next, Login!vars, Login!Start, Login!FlowExpires, Login!Arrive,
      Login!Consume, Login!AskGithub, Login!Identify, Login!Authorize,
      Login!Rotate, Login!Respond, Login!Logout, Login!CheckExchange,
      Login!Withdraw, Login!Restore, Login!Supersede
<1> QED
  BY <1>1, <1>2, <1>3, <1>4

\* Every response leaves cookies that name sessions or nothing.
LEMMA JarStep ==
    ASSUME JarType, CallType, [Login!Next]_(Login!vars)
    PROVE  JarType'
<1> USE AuthorAssumption, AccessNamesAssumption,
    MaxWithdrawalsAssumption DEF JarType, CallType, CallRow, Login!Issuers,
    Login!EmptyJar
<1>1. ASSUME NEW f \in Flows, NEW purpose \in Login!Purposes, Login!Start(f, purpose)
      PROVE JarType'
  BY <1>1 DEF Login!Start, Login!Bindable
<1>2. ASSUME NEW c \in Calls, Login!Respond(c) PROVE JarType'
  BY <1>2 DEF Login!Respond, Login!Cookies
<1>3. ASSUME Login!Logout PROVE JarType'
  BY <1>3 DEF Login!Logout, Login!Revoked, Login!Live
<1>4. CASE UNCHANGED <<jar>>
  BY <1>4
<1>5. \/ UNCHANGED <<jar>>
      \/ (\E f \in Flows, purpose \in Login!Purposes : Login!Start(f, purpose))
      \/ (\E c \in Calls : Login!Respond(c))
      \/ Login!Logout
  BY DEF Login!Next, Login!vars, Login!FlowExpires, Login!Arrive, Login!Consume,
      Login!AskGithub, Login!Identify, Login!Authorize, Login!Rotate,
      Login!CreateHandoff, Login!CheckExchange, Login!CompleteExchange,
      Login!Withdraw, Login!Restore, Login!Supersede
<1> QED
  BY <1>1, <1>2, <1>3, <1>4, <1>5

\* A callback's own state keeps its type along every path it can end on.
LEMMA CallStep ==
    ASSUME JarType, CallType, FlowType, [Login!Next]_(Login!vars)
    PROVE  CallType'
<1> USE AuthorAssumption, AccessNamesAssumption,
    MaxWithdrawalsAssumption DEF Login!Issuers
<1>1. ASSUME NEW c \in Calls, NEW f \in Flows, Login!Arrive(c, f) PROVE CallType'
  BY <1>1 DEF Login!Arrive, CallType, CallRow, JarType
<1>2. ASSUME NEW c \in Calls, Login!Consume(c) PROVE CallType'
  <2>1. \E s \in {"consumed", "authorized", "issued", "identified", "failed", "done"} :
         call' = [call EXCEPT ![c].pc = s]
    BY <1>2 DEF Login!Consume
  <2> QED
    BY <2>1, CallRows
<1>3. ASSUME NEW c \in Calls, Login!AskGithub(c) PROVE CallType'
  BY <1>3 DEF Login!AskGithub, Login!GithubAnswers, CallType, CallRow
<1>4. ASSUME NEW c \in Calls, Login!Identify(c) PROVE CallType'
  <2>1. \E s \in {"consumed", "authorized", "issued", "identified", "failed", "done"} :
         call' = [call EXCEPT ![c].pc = s]
    BY <1>4 DEF Login!Identify
  <2> QED
    BY <2>1, CallRows
<1>5. ASSUME NEW c \in Calls, Login!Authorize(c) PROVE CallType'
  <2>1. \E s \in {"consumed", "authorized", "issued", "identified", "failed", "done"} :
         call' = [call EXCEPT ![c].pc = s]
    BY <1>5 DEF Login!Authorize
  <2> QED
    BY <2>1, CallRows
<1>6. ASSUME NEW c \in Calls, Login!Rotate(c) PROVE CallType'
  <2>1. \E s \in {"consumed", "authorized", "issued", "identified", "failed", "done"} :
         call' = [call EXCEPT ![c].pc = s]
    BY <1>6 DEF Login!Rotate
  <2> QED
    BY <2>1, CallRows
<1>7. ASSUME NEW c \in Calls, Login!Respond(c) PROVE CallType'
  <2>1. \E s \in {"consumed", "authorized", "issued", "identified", "failed", "done"} :
         call' = [call EXCEPT ![c].pc = s]
    BY <1>7 DEF Login!Respond
  <2> QED
    BY <2>1, CallRows
<1>8. CASE UNCHANGED <<call>>
  BY <1>8 DEF CallType
<1>9. \/ UNCHANGED <<call>>
      \/ (\E c \in Calls, f \in Flows : Login!Arrive(c, f))
      \/ (\E c \in Calls : Login!Consume(c))
      \/ (\E c \in Calls : Login!AskGithub(c))
      \/ (\E c \in Calls : Login!Identify(c))
      \/ (\E c \in Calls : Login!Authorize(c))
      \/ (\E c \in Calls : Login!Rotate(c))
      \/ (\E c \in Calls : Login!Respond(c))
  BY DEF Login!Next, Login!vars, Login!Start, Login!FlowExpires, Login!Logout,
      Login!CreateHandoff, Login!CheckExchange, Login!CompleteExchange,
      Login!Withdraw, Login!Restore, Login!Supersede
<1> QED
  BY <1>1, <1>2, <1>3, <1>4, <1>5, <1>6, <1>7, <1>8, <1>9

\* An exchange's own state keeps its type (exchangeHandoff).
LEMMA ExchangeStep ==
    ASSUME ExchangeType, [Login!Next]_(Login!vars)
    PROVE  ExchangeType'
<1> USE AuthorAssumption, AccessNamesAssumption,
    MaxWithdrawalsAssumption DEF ExchangeType
<1>1. ASSUME NEW p \in Phones, NEW h \in Handoffs, Login!CheckExchange(p, h)
      PROVE ExchangeType'
  BY <1>1 DEF Login!CheckExchange, Login!Exchangeable
<1>2. ASSUME NEW p \in Phones, Login!CompleteExchange(p) PROVE ExchangeType'
  BY <1>2 DEF Login!CompleteExchange
<1>3. CASE UNCHANGED <<exchange>>
  BY <1>3
<1>4. \/ UNCHANGED <<exchange>>
      \/ (\E p \in Phones, h \in Handoffs : Login!CheckExchange(p, h))
      \/ (\E p \in Phones : Login!CompleteExchange(p))
  BY DEF Login!Next, Login!vars, Login!Start, Login!FlowExpires, Login!Arrive,
      Login!Consume, Login!AskGithub, Login!Identify, Login!Authorize,
      Login!Rotate, Login!Respond, Login!Logout, Login!CreateHandoff,
      Login!Withdraw, Login!Restore, Login!Supersede
<1> QED
  BY <1>1, <1>2, <1>3, <1>4

\* The UPDATE that consumes a flow finds it open once: no second call may go on
\* to issue a session from it.
LEMMA FlowHasOneCallStep ==
    ASSUME FlowType, SessionType, CallType, FlowHasOneCall, [Login!Next]_(Login!vars)
    PROVE  FlowHasOneCall'
<1> USE AuthorAssumption, AccessNamesAssumption,
    MaxWithdrawalsAssumption DEF FlowType, SessionType, CallType, FlowRow,
    SessionRow, CallRow, FlowHasOneCall, Consumed, Login!Issuers
<1>1. ASSUME NEW f \in Flows, NEW purpose \in Login!Purposes, Login!Start(f, purpose)
      PROVE FlowHasOneCall'
  BY <1>1 DEF Login!Start, Login!Bindable
<1>2. ASSUME NEW f \in Flows, Login!FlowExpires(f) PROVE FlowHasOneCall'
  BY <1>2 DEF Login!FlowExpires
<1>3. ASSUME NEW c \in Calls, NEW f \in Flows, Login!Arrive(c, f) PROVE FlowHasOneCall'
  BY <1>3 DEF Login!Arrive, Login!Consumable
<1>4. ASSUME NEW c \in Calls, Login!Consume(c) PROVE FlowHasOneCall'
  BY <1>4 DEF Login!Consume, Login!Consumable
<1>5. ASSUME NEW c \in Calls, Login!AskGithub(c) PROVE FlowHasOneCall'
  BY <1>5 DEF Login!AskGithub, Login!GithubAnswers
<1>6. ASSUME NEW c \in Calls, Login!Identify(c) PROVE FlowHasOneCall'
  BY <1>6 DEF Login!Identify
<1>7. ASSUME NEW c \in Calls, Login!Authorize(c) PROVE FlowHasOneCall'
  BY <1>7 DEF Login!Authorize, Login!Identifies
<1>8. ASSUME NEW c \in Calls, Login!Rotate(c) PROVE FlowHasOneCall'
  <2>1. /\ \A d \in Calls : d # c =>
             /\ session'[d].from = session[d].from /\ call'[d] = call[d]
             /\ session'[d].state = "live" => session[d].state = "live"
        /\ session'[c].from = call[c].flow /\ call'[c].flow = call[c].flow
        /\ call[c].pc = "authorized" /\ call'[c].pc = "issued" /\ flow' = flow
    BY <1>8 DEF Login!Rotate, Login!Revoked
  <2> HIDE DEF FlowType, SessionType, FlowRow, SessionRow, CallRow
  <2> QED
    BY <2>1
<1>9. ASSUME NEW c \in Calls, Login!Respond(c) PROVE FlowHasOneCall'
  BY <1>9 DEF Login!Respond, Login!Cookies
<1>10. ASSUME Login!Logout PROVE FlowHasOneCall'
  BY <1>10 DEF Login!Logout, Login!Revoked, Login!Live
<1>11. ASSUME NEW p \in Phones, Login!CompleteExchange(p) PROVE FlowHasOneCall'
  BY <1>11 DEF Login!CompleteExchange
<1>12. ASSUME Login!Withdraw PROVE FlowHasOneCall'
  BY <1>12 DEF Login!Withdraw, Login!Revoked, Login!Locked
<1>13. CASE UNCHANGED <<flow, call, session>>
  BY <1>13
<1>14. \/ UNCHANGED <<flow, call, session>>
       \/ (\E f \in Flows, purpose \in Login!Purposes : Login!Start(f, purpose))
       \/ (\E f \in Flows : Login!FlowExpires(f))
       \/ (\E c \in Calls, f \in Flows : Login!Arrive(c, f))
       \/ (\E c \in Calls : Login!Consume(c))
       \/ (\E c \in Calls : Login!AskGithub(c))
       \/ (\E c \in Calls : Login!Identify(c))
       \/ (\E c \in Calls : Login!Authorize(c))
       \/ (\E c \in Calls : Login!Rotate(c))
       \/ (\E c \in Calls : Login!Respond(c))
       \/ Login!Logout
       \/ (\E p \in Phones : Login!CompleteExchange(p))
       \/ Login!Withdraw
  BY DEF Login!Next, Login!vars, Login!CreateHandoff, Login!CheckExchange,
      Login!Restore, Login!Supersede
<1> QED
  BY <1>1, <1>2, <1>3, <1>4, <1>5, <1>6, <1>7, <1>8, <1>9, <1>10, <1>11, <1>12,
      <1>13, <1>14

\* The token's row is locked from the last check to the commit: no second phone
\* passes the checks of the same token.
LEMMA HandoffHasOnePhoneStep ==
    ASSUME SessionType, HandoffType, ExchangeType, HandoffHasOnePhone, [Login!Next]_(Login!vars)
    PROVE  HandoffHasOnePhone'
<1> USE AuthorAssumption, AccessNamesAssumption,
    MaxWithdrawalsAssumption DEF SessionType, HandoffType, ExchangeType,
    SessionRow, HandoffRow, HandoffHasOnePhone, Exchanging, Login!Issuers
<1>1. ASSUME NEW c \in Calls, Login!Rotate(c) PROVE HandoffHasOnePhone'
  <2>1. /\ \A p \in Phones : session'[p].from = session[p].from
        /\ UNCHANGED <<exchange, handoff>>
    BY <1>1 DEF Login!Rotate, Login!Revoked
  <2> QED
    BY <2>1
<1>2. ASSUME Login!Logout PROVE HandoffHasOnePhone'
  BY <1>2 DEF Login!Logout, Login!Revoked, Login!Live
<1>3. ASSUME NEW h \in Handoffs, Login!CreateHandoff(h) PROVE HandoffHasOnePhone'
  BY <1>3 DEF Login!CreateHandoff, Login!Authenticated, Login!Live
<1>4. ASSUME NEW p \in Phones, NEW h \in Handoffs, Login!CheckExchange(p, h)
      PROVE HandoffHasOnePhone'
  BY <1>4 DEF Login!CheckExchange, Login!Exchangeable
<1>5. ASSUME NEW p \in Phones, Login!CompleteExchange(p) PROVE HandoffHasOnePhone'
  BY <1>5 DEF Login!CompleteExchange
<1>6. ASSUME Login!Withdraw PROVE HandoffHasOnePhone'
  BY <1>6 DEF Login!Withdraw, Login!Revoked, Login!Locked
<1>7. CASE UNCHANGED <<handoff, exchange, session>>
  BY <1>7
<1>8. \/ UNCHANGED <<handoff, exchange, session>>
      \/ (\E c \in Calls : Login!Rotate(c))
      \/ Login!Logout
      \/ (\E h \in Handoffs : Login!CreateHandoff(h))
      \/ (\E p \in Phones, h \in Handoffs : Login!CheckExchange(p, h))
      \/ (\E p \in Phones : Login!CompleteExchange(p))
      \/ Login!Withdraw
  BY DEF Login!Next, Login!vars, Login!Start, Login!FlowExpires, Login!Arrive,
      Login!Consume, Login!AskGithub, Login!Identify, Login!Authorize,
      Login!Respond, Login!Restore, Login!Supersede
<1> QED
  BY <1>1, <1>2, <1>3, <1>4, <1>5, <1>6, <1>7, <1>8

\* What authorizeSessionRotation read FOR SHARE is still true when the session
\* is inserted: no webhook or push got in between.
LEMMA AuthorizedIsLockedStep ==
    ASSUME FlowType, CallType, FlowHasOneCall, AuthorizedIsLocked, [Login!Next]_(Login!vars)
    PROVE  AuthorizedIsLocked'
<1> USE AuthorAssumption, AccessNamesAssumption,
    MaxWithdrawalsAssumption DEF FlowType, CallType, FlowRow, CallRow,
    FlowHasOneCall, Consumed, AuthorizedIsLocked, Login!MayRotate
<1>1. ASSUME NEW f \in Flows, NEW purpose \in Login!Purposes, Login!Start(f, purpose)
      PROVE AuthorizedIsLocked'
  BY <1>1 DEF Login!Start, Login!Bindable
<1>2. ASSUME NEW f \in Flows, Login!FlowExpires(f) PROVE AuthorizedIsLocked'
  BY <1>2 DEF Login!FlowExpires
<1>3. ASSUME NEW c \in Calls, NEW f \in Flows, Login!Arrive(c, f)
      PROVE AuthorizedIsLocked'
  BY <1>3 DEF Login!Arrive, Login!Consumable
<1>4. ASSUME NEW c \in Calls, Login!Consume(c) PROVE AuthorizedIsLocked'
  BY <1>4 DEF Login!Consume, Login!Consumable
<1>5. ASSUME NEW c \in Calls, Login!AskGithub(c) PROVE AuthorizedIsLocked'
  BY <1>5 DEF Login!AskGithub, Login!GithubAnswers
<1>6. ASSUME NEW c \in Calls, Login!Identify(c) PROVE AuthorizedIsLocked'
  BY <1>6 DEF Login!Identify
<1>7. ASSUME NEW c \in Calls, Login!Authorize(c) PROVE AuthorizedIsLocked'
  <2>1. /\ \A d \in Calls : d # c => call'[d] = call[d]
        /\ call'[c].flow = call[c].flow /\ call'[c].user = call[c].user
        /\ call'[c].pc = "authorized" => Login!MayRotate(call[c].flow, call[c].user)
        /\ call[c].pc = "known" /\ UNCHANGED <<active, current, flow>>
    BY <1>7 DEF Login!Authorize
  <2> QED
    BY <2>1
<1>8. ASSUME NEW c \in Calls, Login!Rotate(c) PROVE AuthorizedIsLocked'
  BY <1>8 DEF Login!Rotate, Login!Role, Login!Revoked
<1>9. ASSUME NEW c \in Calls, Login!Respond(c) PROVE AuthorizedIsLocked'
  BY <1>9 DEF Login!Respond, Login!Cookies
<1>10. ASSUME Login!Withdraw PROVE AuthorizedIsLocked'
  BY <1>10 DEF Login!Withdraw, Login!Revoked, Login!Locked
<1>11. ASSUME Login!Restore PROVE AuthorizedIsLocked'
  BY <1>11 DEF Login!Restore, Login!Locked
<1>12. ASSUME Login!Supersede PROVE AuthorizedIsLocked'
  BY <1>12 DEF Login!Supersede, Login!RevisionLocked
<1>13. CASE UNCHANGED <<active, current, flow, call>>
  BY <1>13
<1>14. \/ UNCHANGED <<active, current, flow, call>>
       \/ (\E f \in Flows, purpose \in Login!Purposes : Login!Start(f, purpose))
       \/ (\E f \in Flows : Login!FlowExpires(f))
       \/ (\E c \in Calls, f \in Flows : Login!Arrive(c, f))
       \/ (\E c \in Calls : Login!Consume(c))
       \/ (\E c \in Calls : Login!AskGithub(c))
       \/ (\E c \in Calls : Login!Identify(c))
       \/ (\E c \in Calls : Login!Authorize(c))
       \/ (\E c \in Calls : Login!Rotate(c))
       \/ (\E c \in Calls : Login!Respond(c))
       \/ Login!Withdraw
       \/ Login!Restore
       \/ Login!Supersede
  BY DEF Login!Next, Login!vars, Login!Logout, Login!CreateHandoff,
      Login!CheckExchange, Login!CompleteExchange
<1> QED
  BY <1>1, <1>2, <1>3, <1>4, <1>5, <1>6, <1>7, <1>8, <1>9, <1>10, <1>11, <1>12,
      <1>13, <1>14

\* A withdrawal revokes what rotations issued, and none is issued until the
\* repository is restored.
LEMMA WithdrawalStep ==
    ASSUME SessionType, AuthorizedIsLocked, Login!WithdrawalEndsLogins, [Login!Next]_(Login!vars)
    PROVE  Login!WithdrawalEndsLogins'
<1> USE AuthorAssumption, AccessNamesAssumption,
    MaxWithdrawalsAssumption DEF SessionType, SessionRow, AuthorizedIsLocked,
    Login!MayRotate, Login!WithdrawalEndsLogins, Login!Live, Login!Issuers
<1>1. ASSUME NEW c \in Calls, Login!Rotate(c) PROVE Login!WithdrawalEndsLogins'
  BY <1>1 DEF Login!Rotate, Login!Role, Login!Revoked
<1>2. ASSUME Login!Logout PROVE Login!WithdrawalEndsLogins'
  BY <1>2 DEF Login!Logout, Login!Revoked, Login!Live
<1>3. ASSUME NEW p \in Phones, Login!CompleteExchange(p)
      PROVE Login!WithdrawalEndsLogins'
  BY <1>3 DEF Login!CompleteExchange
<1>4. ASSUME Login!Withdraw PROVE Login!WithdrawalEndsLogins'
  BY <1>4 DEF Login!Withdraw, Login!Revoked, Login!Locked
<1>5. ASSUME Login!Restore PROVE Login!WithdrawalEndsLogins'
  BY <1>5 DEF Login!Restore, Login!Locked
<1>6. CASE UNCHANGED <<active, session>>
  BY <1>6
<1>7. \/ UNCHANGED <<active, session>>
      \/ (\E c \in Calls : Login!Rotate(c))
      \/ Login!Logout
      \/ (\E p \in Phones : Login!CompleteExchange(p))
      \/ Login!Withdraw
      \/ Login!Restore
  BY DEF Login!Next, Login!vars, Login!Start, Login!FlowExpires, Login!Arrive,
      Login!Consume, Login!AskGithub, Login!Identify, Login!Authorize,
      Login!Respond, Login!CreateHandoff, Login!CheckExchange, Login!Supersede
<1> QED
  BY <1>1, <1>2, <1>3, <1>4, <1>5, <1>6, <1>7

\* Every response sets or clears the user-token cookie together with the session
\* that seals it.
LEMMA TokenStep ==
    ASSUME JarType, Login!TokenOpensItsSession, [Login!Next]_(Login!vars)
    PROVE  Login!TokenOpensItsSession'
<1> USE AuthorAssumption, AccessNamesAssumption,
    MaxWithdrawalsAssumption DEF JarType, Login!TokenOpensItsSession,
    Login!EmptyJar
<1>1. ASSUME NEW f \in Flows, NEW purpose \in Login!Purposes, Login!Start(f, purpose)
      PROVE Login!TokenOpensItsSession'
  BY <1>1 DEF Login!Start, Login!Bindable
<1>2. ASSUME NEW c \in Calls, Login!Respond(c) PROVE Login!TokenOpensItsSession'
  BY <1>2 DEF Login!Respond, Login!Cookies
<1>3. ASSUME Login!Logout PROVE Login!TokenOpensItsSession'
  BY <1>3 DEF Login!Logout, Login!Revoked, Login!Live
<1>4. CASE UNCHANGED <<jar>>
  BY <1>4
<1>5. \/ UNCHANGED <<jar>>
      \/ (\E f \in Flows, purpose \in Login!Purposes : Login!Start(f, purpose))
      \/ (\E c \in Calls : Login!Respond(c))
      \/ Login!Logout
  BY DEF Login!Next, Login!vars, Login!FlowExpires, Login!Arrive, Login!Consume,
      Login!AskGithub, Login!Identify, Login!Authorize, Login!Rotate,
      Login!CreateHandoff, Login!CheckExchange, Login!CompleteExchange,
      Login!Withdraw, Login!Restore, Login!Supersede
<1> QED
  BY <1>1, <1>2, <1>3, <1>4, <1>5

\* The browser begins without cookies, flows, sessions or handoffs (BrowserAccess).
LEMMA LoginInit == Login!Init => LoginIInv
<1> SUFFICES ASSUME Login!Init PROVE LoginIInv
  OBVIOUS
<1> USE AccessNamesAssumption, MaxWithdrawalsAssumption DEF Login!Init,
    Login!NoFlow, Login!NoSession, Login!EmptyJar
<1>1. AccessType /\ JarType
  BY DEF AccessType, JarType
<1>2. FlowType /\ HandoffType
  BY DEF FlowType, FlowRow, HandoffType, HandoffRow
<1>3. SessionType
  BY DEF SessionType, SessionRow
<1>4. CallType /\ ExchangeType
  BY DEF CallType, CallRow, ExchangeType
<1>5. FlowHasOneCall /\ HandoffHasOnePhone /\ AuthorizedIsLocked
  BY DEF FlowHasOneCall, Consumed, HandoffHasOnePhone, Exchanging,
      AuthorizedIsLocked, Login!Issuers
<1>6. Login!WithdrawalEndsLogins /\ Login!TokenOpensItsSession
  BY DEF Login!WithdrawalEndsLogins, Login!TokenOpensItsSession
<1> QED
  BY <1>1, <1>2, <1>3, <1>4, <1>5, <1>6, LoginTypes DEF LoginIInv

\* Every step of callbacks, exchanges, webhooks and tabs keeps the invariant.
LEMMA LoginStep == LoginIInv /\ [Login!Next]_(Login!vars) => LoginIInv'
<1> SUFFICES ASSUME LoginIInv, [Login!Next]_(Login!vars) PROVE LoginIInv'
  OBVIOUS
<1> USE DEF LoginIInv
<1>1. /\ AccessType /\ FlowType /\ SessionType /\ HandoffType
      /\ JarType /\ CallType /\ ExchangeType
  BY LoginTypes
<1>2. AccessType' /\ FlowType' /\ SessionType' /\ HandoffType'
  BY <1>1, AccessStep, FlowStep, SessionStep, HandoffStep
<1>3. JarType' /\ CallType' /\ ExchangeType'
  BY <1>1, JarStep, CallStep, ExchangeStep
<1>4. Login!TypeOK'
  BY <1>2, <1>3 DEF Login!TypeOK, AccessType, FlowType, SessionType, HandoffType,
      JarType, CallType, ExchangeType, FlowRow, SessionRow, HandoffRow, CallRow
<1>5. FlowHasOneCall' /\ HandoffHasOnePhone'
  BY <1>1, FlowHasOneCallStep, HandoffHasOnePhoneStep
<1>6. AuthorizedIsLocked' /\ Login!WithdrawalEndsLogins' /\ Login!TokenOpensItsSession'
  BY <1>1, AuthorizedIsLockedStep, WithdrawalStep, TokenStep
<1> QED
  BY <1>4, <1>5, <1>6

\* The invariant implies that a grant yields one session, and the rest of LoginInv.
LEMMA LoginMeans == LoginIInv => Login!LoginInv
<1> SUFFICES ASSUME LoginIInv, NEW i \in Login!Issuers, NEW j \in Login!Issuers,
                    session[i].from # None, session[i].from = session[j].from
             PROVE  i = j
  BY DEF LoginIInv, Login!LoginInv, Login!OneSessionPerGrant
<1> USE AccessNamesAssumption DEF LoginIInv, FlowHasOneCall, HandoffHasOnePhone,
    Consumed, Exchanging
<1>1. CASE i \in Calls /\ j \in Calls
  BY <1>1
<1>2. CASE i \in Phones /\ j \in Phones
  BY <1>2
<1>3. \A c \in Calls : session[c].from # None => session[c].from \in Flows
  OBVIOUS
<1>4. \A p \in Phones : session[p].from # None => session[p].from \in Handoffs
  OBVIOUS
<1> QED
  BY <1>1, <1>2, <1>3, <1>4 DEF Login!Issuers

\* A session that appears is one whose rows were read under the locks still held
\* (rotateSession).
LEMMA RotationStep ==
    ASSUME LoginIInv, [Login!Next]_(Login!vars), NEW c \in Calls,
           session[c].state = "none", session'[c].state = "live"
    PROVE  Login!MayRotate(call[c].flow, session'[c].user)
<1> USE AccessNamesAssumption DEF Login!Issuers
<1>1. SessionType /\ CallType /\ AuthorizedIsLocked
  BY LoginTypes DEF LoginIInv
<1>2. ASSUME NEW d \in Calls, Login!Rotate(d)
      PROVE d = c /\ session'[c].user = call[c].user
  BY <1>1, <1>2 DEF Login!Rotate, Login!Revoked, SessionType, SessionRow
<1>3. ASSUME NEW p \in Phones, Login!CompleteExchange(p) PROVE FALSE
  BY <1>1, <1>3 DEF Login!CompleteExchange, SessionType
<1>4. ASSUME Login!Logout \/ Login!Withdraw PROVE FALSE
  BY <1>1, <1>4 DEF Login!Logout, Login!Withdraw, Login!Revoked, SessionType, SessionRow
<1>5. CASE UNCHANGED session
  BY <1>5
<1>6. \/ UNCHANGED session \/ Login!Logout \/ Login!Withdraw
      \/ \E d \in Calls : Login!Rotate(d)
      \/ \E p \in Phones : Login!CompleteExchange(p)
  BY DEF Login!Next, Login!vars, Login!Start, Login!FlowExpires, Login!Arrive,
      Login!Consume, Login!AskGithub, Login!Identify, Login!Authorize,
      Login!Respond, Login!CreateHandoff, Login!CheckExchange, Login!Restore,
      Login!Supersede
<1> QED
  BY <1>1, <1>2, <1>3, <1>4, <1>5, <1>6 DEF AuthorizedIsLocked, Login!Rotate

-----------------------------------------------------------------------------
(* The sliding windows: the inductive invariant.                           *)

\* A request that has begun and not ended.
Working(r) == start[r].pc \in {"waiting", "locked", "deciding"}
\* A request in the transaction, with the advisory lock.
Holds(r) == Limit!At(r, "locked") \/ Limit!At(r, "deciding")

\* The advisory lock admits one transaction at a time.
OneDecides == \A q, r \in Starts : Holds(q) /\ Holds(r) => q = r

\* A request's clock is at most MaxLag behind, and its own "now" lies between.
ClocksAreRecent ==
  \A r \in Starts : Working(r) =>
    /\ start[r].subject \in Subjects
    /\ start[r].arrived <= clock /\ clock - start[r].arrived <= MaxLag
    /\ Limit!At(r, "deciding") => start[r].arrived <= start[r].now /\ start[r].now <= clock

\* No row is in the future, and only rows older than the retention are deleted.
EventsAreKept ==
  /\ IsFiniteSet(admitted) /\ events \subseteq admitted
  /\ \A e \in admitted : e.at <= clock
  /\ \A e \in admitted \ events : e.at + Retention <= clock

\* What a transaction counted is still so when it commits.
DecisionStands ==
  \A r \in Starts : Limit!At(r, "deciding") /\ start[r].ok =>
    LET all == Limit!Recent(events, start[r].now) IN
    /\ Limit!Cardinality(all) < GlobalMax
    /\ Limit!Cardinality(Limit!OfSubject(all, start[r].subject)) < SubjectMax

\* The admissions of the window that ends at t.
Inside(t) == {e \in admitted : e.at <= t /\ e.at > t - Window}

\* WindowHolds for every end of a window, not only the admissions' times.
EveryWindowHolds ==
  \A t \in Int :
    /\ Limit!Cardinality(Inside(t)) <= GlobalMax
    /\ \A s \in Subjects : Limit!Cardinality(Limit!OfSubject(Inside(t), s)) <= SubjectMax

\* What every step keeps.
WindowIInv ==
  /\ Limit!TypeOK
  /\ OneDecides
  /\ ClocksAreRecent
  /\ EventsAreKept
  /\ DecisionStands
  /\ EveryWindowHolds
  /\ Limit!RetryAfterIsHonest

\* The type invariant, the requests apart from the table.
RequestRow == [pc: {"idle", "waiting", "locked", "deciding", "done"},
               subject: Subjects \cup {None}, arrived: 0..MaxTime, now: 0..MaxTime,
               ok: BOOLEAN, retry: 0..Window]
RequestType == start \in [Starts -> RequestRow]
TableType == /\ limiter \in {"oauth_start", "web_request"}
             /\ clock \in 0..MaxTime
             /\ events \subseteq Limit!Event /\ admitted \subseteq Limit!Event

\* The type invariant is the conjunction of its parts (RateWindow).
LEMMA WindowTypes == Limit!TypeOK <=> TableType /\ RequestType
  BY DEF Limit!TypeOK, TableType, RequestType, RequestRow

\* RateWindow's own copy of Cardinality is the library's.
LEMMA SameCount == \A S : Limit!Cardinality(S) = Cardinality(S)
<1>1. \A S : Limit!IsFiniteSet(S) <=> IsFiniteSet(S)
  BY DEF Limit!IsFiniteSet, IsFiniteSet
<1> QED
  BY <1>1 DEF Limit!Cardinality, Cardinality

\* The library's facts about finite sets, for what RateWindow counts.
LEMMA CountIsNatural ==
    ASSUME NEW S, IsFiniteSet(S)
    PROVE  Limit!Cardinality(S) \in Nat
  BY FS_CardinalityType, SameCount

\* Only an empty table counts nothing.
LEMMA CountOfNothing ==
    /\ IsFiniteSet({}) /\ Limit!Cardinality({}) = 0
    /\ \A S : IsFiniteSet(S) => (Limit!Cardinality(S) = 0 <=> S = {})
  BY FS_EmptySet, SameCount

\* An admitted row adds at most one.
LEMMA CountWithOneMore ==
    ASSUME NEW S, NEW x, IsFiniteSet(S)
    PROVE  /\ IsFiniteSet(S \cup {x})
           /\ Limit!Cardinality(S \cup {x}) =
                IF x \in S THEN Limit!Cardinality(S) ELSE Limit!Cardinality(S) + 1
  BY FS_AddElement, SameCount

\* A row that left the window takes one away.
LEMMA CountWithOneLess ==
    ASSUME NEW S, NEW x, IsFiniteSet(S)
    PROVE  /\ IsFiniteSet(S \ {x})
           /\ Limit!Cardinality(S \ {x}) =
                IF x \in S THEN Limit!Cardinality(S) - 1 ELSE Limit!Cardinality(S)
  BY FS_RemoveElement, SameCount

\* A part counts no more than the whole.
LEMMA CountOfPart ==
    ASSUME NEW S, IsFiniteSet(S), NEW T \in SUBSET S
    PROVE  /\ IsFiniteSet(T)
           /\ Limit!Cardinality(T) <= Limit!Cardinality(S)
  BY FS_Subset, SameCount

\* A nonempty set of times has an earliest one.
LEMMA EarliestTime ==
    ASSUME NEW T, T \subseteq Nat, T # {}
    PROVE  \E x \in T : \A y \in T : x <= y
<1> DEFINE R == {s \in Nat \X Nat : s[1] < s[2]}
<1>1. IsWellFoundedOn(R, Nat)
  BY NatLessThanWellFounded, Zenon DEF OpToRel
<1>2. \E x \in T : \A y \in T : ~(<<y, x>> \in R)
  <2> HIDE DEF R
  <2> QED
    BY <1>1, WFMin
<1>3. PICK x \in T : \A y \in T : ~(<<y, x>> \in R)
  BY <1>2
<1>4. ASSUME NEW y \in T PROVE x <= y
  <2>1. ~(<<y, x>> \in R)
    BY <1>3
  <2>2. ~(y < x)
    BY <2>1
  <2> QED
    BY <2>2
<1> QED
  BY <1>4

\* The "oldest" row a refusal's delay is computed from is one of the rows counted.
LEMMA OldestIsThere ==
    ASSUME NEW es, es \subseteq Limit!Event, es # {}
    PROVE  /\ \E e \in es : e.at = Limit!Oldest(es)
           /\ \A e \in es : Limit!Oldest(es) <= e.at
           /\ Limit!Oldest(es) \in Nat
<1> DEFINE T == {e.at : e \in es}
<1>1. T \subseteq Nat /\ T # {}
  BY WindowAssumption DEF Limit!Event
<1>2. PICK x \in T : \A y \in T : x <= y
  BY <1>1, EarliestTime
<1>3. \A e \in es : x <= e.at
  BY <1>2
<1>4. Limit!Oldest(es) \in T /\ \A e \in es : Limit!Oldest(es) <= e.at
  BY <1>2, <1>3 DEF Limit!Oldest
<1> QED
  BY <1>1, <1>4

\* A part of a finite set is finite and counts no more.
LEMMA CountsOfParts ==
    ASSUME NEW S, IsFiniteSet(S), NEW T \in SUBSET S
    PROVE  IsFiniteSet(T) /\ Limit!Cardinality(T) \in Nat /\ Limit!Cardinality(S) \in Nat
           /\ Limit!Cardinality(T) <= Limit!Cardinality(S)
  BY CountOfPart, CountIsNatural

\* A request may change alone.
LEMMA RequestRows ==
    ASSUME RequestType, NEW r \in Starts, NEW row \in RequestRow,
           start' = [start EXCEPT ![r] = row]
    PROVE  RequestType'
  BY DEF RequestType

\* A refusal's delay is clamped to the window (RetryAfter).
LEMMA RetryIsADelay ==
    ASSUME TableType, NEW now \in Nat, NEW mine, mine \subseteq Limit!Event, IsFiniteSet(mine),
           NEW all, all \subseteq Limit!Event, IsFiniteSet(all),
           Limit!Cardinality(mine) >= SubjectMax \/ Limit!Cardinality(all) >= GlobalMax
    PROVE  Limit!RetryAfter(mine, all, now) \in 0..Window
<1>1. Limit!Cardinality(mine) >= SubjectMax => Limit!Oldest(mine) \in Nat
  BY CountOfNothing, OldestIsThere, WindowAssumption
<1>2. Limit!Cardinality(all) >= GlobalMax => Limit!Oldest(all) \in Nat
  BY CountOfNothing, OldestIsThere, WindowAssumption
<1>3. \A free \in Int : Limit!Larger(1, Limit!Smaller(Window, free - now)) \in 0..Window
  BY WindowAssumption DEF Limit!Larger, Limit!Smaller
<1> DEFINE subjectFree == IF Limit!Cardinality(mine) >= SubjectMax
                          THEN Limit!Oldest(mine) + Window ELSE now
           globalFree == IF Limit!Cardinality(all) >= GlobalMax
                         THEN Limit!Oldest(all) + Window ELSE now
           free == IF limiter = "web_request" THEN Limit!Larger(subjectFree, globalFree)
                   ELSE IF Limit!Cardinality(mine) >= SubjectMax THEN subjectFree ELSE globalFree
<1>4. subjectFree \in Int /\ globalFree \in Int
  BY <1>1, <1>2, WindowAssumption
<1>5. free \in Int
  BY <1>4 DEF Limit!Larger
<1>6. Limit!RetryAfter(mine, all, now) = Limit!Larger(1, Limit!Smaller(Window, free - now))
  BY DEF Limit!RetryAfter
<1> HIDE DEF free
<1> QED
  BY <1>3, <1>5, <1>6

\* Either limiter's clock is a time.
LEMMA ClockTypes ==
    ASSUME TableType, RequestType, NEW r \in Starts
    PROVE  Limit!ClockOf(r) \in 0..MaxTime
  BY DEF TableType, RequestType, RequestRow, Limit!ClockOf

\* What is counted are rows, and finitely many.
LEMMA RecentTypes ==
    ASSUME TableType, EventsAreKept, NEW now \in Int, NEW s
    PROVE  /\ Limit!Recent(events, now) \subseteq events
           /\ Limit!Recent(events, now) \subseteq Limit!Event
           /\ IsFiniteSet(Limit!Recent(events, now))
           /\ Limit!OfSubject(Limit!Recent(events, now), s) \subseteq Limit!Event
           /\ IsFiniteSet(Limit!OfSubject(Limit!Recent(events, now), s))
<1>1. Limit!Recent(events, now) \subseteq events
  BY DEF Limit!Recent
<1>2. Limit!OfSubject(Limit!Recent(events, now), s) \subseteq Limit!Recent(events, now)
  BY DEF Limit!OfSubject
<1>3. events \subseteq admitted /\ IsFiniteSet(admitted) /\ events \subseteq Limit!Event
  BY DEF EventsAreKept, TableType
<1> QED
  BY <1>1, <1>2, <1>3, CountOfPart

\* A request keeps its type from arrival to answer.
LEMMA RequestStep ==
    ASSUME TableType, RequestType, EventsAreKept, [Limit!Next]_(Limit!vars)
    PROVE  RequestType'
<1>1. ASSUME NEW r \in Starts, NEW s \in Subjects, Limit!Arrive(r, s) PROVE RequestType'
  <2>1. [start[r] EXCEPT !.pc = "waiting", !.subject = s, !.arrived = clock, !.now = clock]
          \in RequestRow
    BY DEF RequestType, RequestRow, TableType
  <2> QED
    BY <1>1, <2>1, RequestRows DEF Limit!Arrive, RequestType
<1>2. ASSUME NEW r \in Starts, Limit!Lock(r) PROVE RequestType'
  <2>1. [start[r] EXCEPT !.pc = "locked"] \in RequestRow
    BY DEF RequestType, RequestRow
  <2> QED
    BY <1>2, <2>1, RequestRows DEF Limit!Lock, RequestType
<1>3. ASSUME NEW r \in Starts, Limit!Decide(r) PROVE RequestType'
  <2> DEFINE now == Limit!ClockOf(r)
             all == Limit!Recent(events, now)
             mine == Limit!OfSubject(all, start[r].subject)
             ok == Limit!Cardinality(mine) < SubjectMax /\ Limit!Cardinality(all) < GlobalMax
             retry == IF ok THEN 0 ELSE Limit!RetryAfter(mine, all, now)
  <2>1. now \in 0..MaxTime /\ now \in Int
    BY ClockTypes
  <2>2. /\ mine \subseteq Limit!Event /\ IsFiniteSet(mine)
        /\ all \subseteq Limit!Event /\ IsFiniteSet(all)
    BY <2>1, RecentTypes
  <2>3. Limit!Cardinality(mine) \in Nat /\ Limit!Cardinality(all) \in Nat
    BY <2>2, CountIsNatural
  <2>4. ~ok => Limit!Cardinality(mine) >= SubjectMax \/ Limit!Cardinality(all) >= GlobalMax
    BY <2>3, WindowAssumption
  <2>5. now \in Nat
    BY <2>1, WindowAssumption
  <2>6. retry \in 0..Window
    BY <2>2, <2>4, <2>5, RetryIsADelay, WindowAssumption
  <2>7. start' = [start EXCEPT ![r].pc = "deciding", ![r].now = now, ![r].ok = ok,
                                   ![r].retry = retry]
    BY <1>3, Zenon DEF Limit!Decide
  <2>8. ok \in BOOLEAN
    OBVIOUS
  <2> HIDE DEF now, ok, retry
  <2>9. [start[r] EXCEPT !.pc = "deciding", !.now = now, !.ok = ok, !.retry = retry]
          \in RequestRow
    BY <2>1, <2>6, <2>8 DEF RequestType, RequestRow
  <2> QED
    BY <2>7, <2>9 DEF RequestType
<1>4. ASSUME NEW r \in Starts, Limit!Commit(r) \/ Limit!Rollback(r) PROVE RequestType'
  <2>1. [Limit!Idle EXCEPT !.pc = "done"] \in RequestRow
    <3>1. 0 \in 0..MaxTime /\ 0 \in 0..Window
      BY WindowAssumption
    <3>2. Limit!Idle \in RequestRow
      BY <3>1 DEF RequestRow, Limit!Idle
    <3> QED
      BY <3>2 DEF RequestRow
  <2>2. start' = [start EXCEPT ![r] = [Limit!Idle EXCEPT !.pc = "done"]]
    BY <1>4 DEF Limit!Commit, Limit!Rollback
  <2> QED
    BY <2>1, <2>2, RequestRows
<1>5. CASE UNCHANGED start
  BY <1>5 DEF RequestType
<1>6. \/ \E r \in Starts : (\E s \in Subjects : Limit!Arrive(r, s)) \/ Limit!Lock(r) \/ Limit!Decide(r)
                             \/ Limit!Commit(r) \/ Limit!Rollback(r)
      \/ UNCHANGED start
  BY DEF Limit!Next, Limit!vars, Limit!Tick
<1> QED
  BY <1>1, <1>2, <1>3, <1>4, <1>5, <1>6

\* The table keeps its type: a committed row is an event.
LEMMA TableStep ==
    ASSUME TableType, RequestType, ClocksAreRecent, [Limit!Next]_(Limit!vars)
    PROVE  TableType'
<1>1. ASSUME NEW r \in Starts, Limit!Commit(r) PROVE TableType'
  <2> DEFINE e == [by |-> r, subject |-> start[r].subject, at |-> start[r].now]
  <2>1. e \in Limit!Event
    BY <1>1 DEF Limit!Event, RequestType, RequestRow, ClocksAreRecent,
        Limit!Commit, Limit!At, Working
  <2>2. /\ events' \subseteq events \cup {e} /\ admitted' \subseteq admitted \cup {e}
        /\ limiter' = limiter /\ clock' = clock
    BY <1>1, Zenon DEF Limit!Commit
  <2> QED
    BY <2>1, <2>2 DEF TableType
<1>2. CASE Limit!Tick
  BY <1>2, WindowAssumption DEF Limit!Tick, TableType
<1>3. CASE UNCHANGED <<limiter, clock, events, admitted>>
  BY <1>3 DEF TableType
<1>4. \/ \E r \in Starts : Limit!Commit(r)
      \/ Limit!Tick \/ UNCHANGED <<limiter, clock, events, admitted>>
  BY DEF Limit!Next, Limit!vars, Limit!Arrive, Limit!Lock, Limit!Decide, Limit!Rollback
<1> QED
  BY <1>1, <1>2, <1>3, <1>4

\* Nobody takes the advisory lock while it is held.
LEMMA OneDecidesStep ==
    ASSUME RequestType, OneDecides, [Limit!Next]_(Limit!vars)
    PROVE  OneDecides'
<1> USE DEF RequestType, RequestRow, OneDecides, Holds, Limit!At
<1>1. ASSUME NEW r \in Starts, NEW s \in Subjects, Limit!Arrive(r, s) PROVE OneDecides'
  BY <1>1 DEF Limit!Arrive
<1>2. ASSUME NEW r \in Starts, Limit!Lock(r) PROVE OneDecides'
  BY <1>2 DEF Limit!Lock, Limit!Held
<1>3. ASSUME NEW r \in Starts, Limit!Decide(r) PROVE OneDecides'
  <2>1. Limit!At(r, "locked") /\ \A q \in Starts \ {r} : start'[q] = start[q]
    BY <1>3 DEF Limit!Decide
  <2> QED
    BY <2>1
<1>4. ASSUME NEW r \in Starts, Limit!Commit(r) \/ Limit!Rollback(r) PROVE OneDecides'
  <2>1. start' = [start EXCEPT ![r] = [Limit!Idle EXCEPT !.pc = "done"]]
    BY <1>4 DEF Limit!Commit, Limit!Rollback
  <2> QED
    BY <2>1 DEF Limit!Idle
<1>5. CASE UNCHANGED start
  BY <1>5
<1>6. \/ \E r \in Starts : (\E s \in Subjects : Limit!Arrive(r, s)) \/ Limit!Lock(r) \/ Limit!Decide(r)
                             \/ Limit!Commit(r) \/ Limit!Rollback(r)
      \/ UNCHANGED start
  BY DEF Limit!Next, Limit!vars, Limit!Tick
<1> QED
  BY <1>1, <1>2, <1>3, <1>4, <1>5, <1>6

\* Time passes no request by more than MaxLag, whichever clock it decides with.
LEMMA ClocksStep ==
    ASSUME TableType, RequestType, ClocksAreRecent, [Limit!Next]_(Limit!vars)
    PROVE  ClocksAreRecent'
<1> USE WindowAssumption DEF RequestType, RequestRow, ClocksAreRecent, Working,
    Limit!At, TableType
<1>1. ASSUME NEW r \in Starts, NEW s \in Subjects, Limit!Arrive(r, s)
      PROVE ClocksAreRecent'
  BY <1>1 DEF Limit!Arrive
<1>2. ASSUME NEW r \in Starts, Limit!Lock(r) PROVE ClocksAreRecent'
  BY <1>2 DEF Limit!Lock
<1>3. ASSUME NEW r \in Starts, Limit!Decide(r) PROVE ClocksAreRecent'
  <2>1. /\ start[r].pc = "locked" /\ clock' = clock
        /\ start'[r].subject = start[r].subject
        /\ start'[r].arrived = start[r].arrived /\ start'[r].now = Limit!ClockOf(r)
        /\ \A q \in Starts \ {r} : start'[q] = start[q]
    BY <1>3 DEF Limit!Decide
  <2>2. start[r].arrived <= Limit!ClockOf(r) /\ Limit!ClockOf(r) <= clock
    BY <2>1 DEF Limit!ClockOf
  <2> QED
    BY <2>1, <2>2
<1>4. ASSUME NEW r \in Starts, Limit!Commit(r)
    \/ Limit!Rollback(r) PROVE ClocksAreRecent'
  <2>1. start' = [start EXCEPT ![r] = [Limit!Idle EXCEPT !.pc = "done"]] /\ clock' = clock
    BY <1>4 DEF Limit!Commit, Limit!Rollback
  <2> QED
    BY <2>1 DEF Limit!Idle
<1>5. CASE Limit!Tick
  <2>1. ASSUME NEW r \in Starts, Working(r)'
        PROVE  /\ start'[r] = start[r] /\ clock' = clock + 1
               /\ clock - start[r].arrived < MaxLag
    BY <1>5, <2>1 DEF Limit!Tick
  <2> QED
    BY <2>1
<1>6. CASE UNCHANGED <<clock, start>>
  BY <1>6
<1>7. \/ \E r \in Starts : (\E s \in Subjects : Limit!Arrive(r, s)) \/ Limit!Lock(r) \/ Limit!Decide(r)
                             \/ Limit!Commit(r) \/ Limit!Rollback(r)
      \/ Limit!Tick \/ UNCHANGED <<clock, start>>
  BY DEF Limit!Next, Limit!vars
<1> QED
  BY <1>1, <1>2, <1>3, <1>4, <1>5, <1>6, <1>7

\* A commit deletes what expired by its own clock and adds at most its own row.
LEMMA CommitAdds ==
    ASSUME TableType, RequestType, ClocksAreRecent, NEW r \in Starts, Limit!Commit(r)
    PROVE  \E e \in Limit!Event :
             /\ e.at = start[r].now /\ e.subject = start[r].subject
             /\ start[r].now <= clock /\ clock - MaxLag <= start[r].now
             /\ IF start[r].ok
                THEN /\ admitted' = admitted \cup {e}
                     /\ events' = (events \ Limit!Expired(start[r].now)) \cup {e}
                ELSE /\ admitted' = admitted
                     /\ events' = events \ Limit!Expired(start[r].now)
<1> DEFINE e == [by |-> r, subject |-> start[r].subject, at |-> start[r].now]
           new == IF start[r].ok THEN {e} ELSE {}
<1>1. /\ e \in Limit!Event /\ start[r].now <= clock
      /\ start[r].arrived <= start[r].now /\ clock - start[r].arrived <= MaxLag
  BY DEF Limit!Event, TableType, RequestType, RequestRow, ClocksAreRecent,
      Limit!Commit, Limit!At, Working
<1>2. clock - MaxLag <= start[r].now
  BY <1>1, WindowAssumption DEF RequestType, RequestRow, TableType
<1>3. events' = (events \ Limit!Expired(start[r].now)) \cup new /\ admitted' = admitted \cup new
  BY Zenon DEF Limit!Commit
<1>4. e.at = start[r].now /\ e.subject = start[r].subject
  OBVIOUS
<1> HIDE DEF e
<1> QED
  BY <1>1, <1>2, <1>3, <1>4

\* The rows a commit deletes are past the retention.
LEMMA EventsStep ==
    ASSUME TableType, RequestType, ClocksAreRecent, EventsAreKept, [Limit!Next]_(Limit!vars)
    PROVE  EventsAreKept'
<1>1. ASSUME NEW r \in Starts, Limit!Commit(r) PROVE EventsAreKept'
  <2>1. PICK e \in Limit!Event :
             /\ e.at = start[r].now /\ e.subject = start[r].subject
             /\ start[r].now <= clock /\ clock - MaxLag <= start[r].now
             /\ IF start[r].ok
                THEN /\ admitted' = admitted \cup {e}
                     /\ events' = (events \ Limit!Expired(start[r].now)) \cup {e}
                ELSE /\ admitted' = admitted
                     /\ events' = events \ Limit!Expired(start[r].now)
    BY <1>1, CommitAdds
  <2>2. clock' = clock
    BY <1>1 DEF Limit!Commit
  <2>3. IsFiniteSet(admitted') /\ events' \subseteq admitted'
    BY <2>1, CountWithOneMore DEF EventsAreKept
  <2>4. \A x \in admitted' : x.at <= clock'
    BY <2>1, <2>2 DEF EventsAreKept
  <2>5. ASSUME NEW x \in admitted' \ events' PROVE x.at + Retention <= clock'
    <3>1. x \in admitted \ events \/ x \in Limit!Expired(start[r].now)
      BY <2>1, <2>5
    <3>2. CASE x \in admitted \ events
      BY <3>2, <2>2 DEF EventsAreKept
    <3>3. CASE x \in Limit!Expired(start[r].now)
      <4>1. x.at + Retention <= start[r].now /\ x \in Limit!Event
        BY <3>3 DEF Limit!Expired, TableType
      <4> QED
        BY <4>1, <2>1, <2>2, WindowAssumption DEF RequestType, RequestRow,
            TableType, Limit!Event
    <3> QED
      BY <3>1, <3>2, <3>3
  <2> QED
    BY <2>3, <2>4, <2>5 DEF EventsAreKept
<1>2. CASE Limit!Tick
  <2>1. \A e \in admitted : e.at \in Nat
    BY WindowAssumption DEF TableType, Limit!Event
  <2>2. clock' = clock + 1 /\ clock \in Nat /\ admitted' = admitted /\ events' = events
    BY <1>2, WindowAssumption DEF Limit!Tick, TableType
  <2> QED
    BY <2>1, <2>2, WindowAssumption DEF EventsAreKept
<1>3. CASE UNCHANGED <<clock, events, admitted>>
  BY <1>3 DEF EventsAreKept
<1>4. \/ \E r \in Starts : Limit!Commit(r)
      \/ Limit!Tick \/ UNCHANGED <<clock, events, admitted>>
  BY DEF Limit!Next, Limit!vars, Limit!Arrive, Limit!Lock, Limit!Decide, Limit!Rollback
<1> QED
  BY <1>1, <1>2, <1>3, <1>4

\* What DecisionStands says of one request.
Decision(r) ==
  Limit!At(r, "deciding") /\ start[r].ok =>
    LET all == Limit!Recent(events, start[r].now) IN
    /\ Limit!Cardinality(all) < GlobalMax
    /\ Limit!Cardinality(Limit!OfSubject(all, start[r].subject)) < SubjectMax

\* Nobody else's step changes what a decision rests on.
LEMMA DecisionKept ==
    ASSUME NEW q \in Starts, Decision(q), start'[q] = start[q],
           UNCHANGED <<limiter, events>>
    PROVE  Decision(q)'
  BY DEF Decision, Limit!At, Limit!Recent, Limit!OfSubject

\* A decision stands until its transaction ends: only the holder of the lock
\* changes the table.
LEMMA DecisionStep ==
    ASSUME RequestType, OneDecides, DecisionStands, [Limit!Next]_(Limit!vars)
    PROVE  DecisionStands'
<1> SUFFICES ASSUME NEW q \in Starts PROVE Decision(q)'
  BY DEF DecisionStands, Decision
<1>1. Decision(q)
  BY DEF DecisionStands, Decision
<1>2. ASSUME NEW r \in Starts, NEW s \in Subjects, Limit!Arrive(r, s) PROVE Decision(q)'
  <2>1. CASE q = r
    BY <1>2, <2>1 DEF Limit!Arrive, Decision, Limit!At, RequestType
  <2>2. CASE q # r
    <3>1. start'[q] = start[q] /\ UNCHANGED <<limiter, events>>
      BY <1>2, <2>2 DEF Limit!Arrive, RequestType
    <3> QED
      BY <1>1, <3>1, DecisionKept
  <2> QED
    BY <2>1, <2>2
<1>3. ASSUME NEW r \in Starts, Limit!Lock(r) PROVE Decision(q)'
  <2>1. CASE q = r
    BY <1>3, <2>1 DEF Limit!Lock, Decision, Limit!At, RequestType
  <2>2. CASE q # r
    BY <1>1, <1>3, <2>2, DecisionKept DEF Limit!Lock
  <2> QED
    BY <2>1, <2>2
<1>4. ASSUME NEW r \in Starts, Limit!Decide(r) PROVE Decision(q)'
  <2>1. CASE q = r
    <3> DEFINE now == Limit!ClockOf(r)
               all == Limit!Recent(events, now)
               mine == Limit!OfSubject(all, start[r].subject)
               ok == Limit!Cardinality(mine) < SubjectMax /\ Limit!Cardinality(all) < GlobalMax
               retry == IF ok THEN 0 ELSE Limit!RetryAfter(mine, all, now)
    <3>1. start' = [start EXCEPT ![r].pc = "deciding", ![r].now = now, ![r].ok = ok,
                                     ![r].retry = retry]
      BY <1>4, Zenon DEF Limit!Decide
    <3>2. UNCHANGED <<limiter, events>>
      BY <1>4 DEF Limit!Decide
    <3> HIDE DEF now, ok, retry
    <3>3. /\ start'[r].now = now /\ start'[r].ok = ok
          /\ start'[r].subject = start[r].subject
      BY <3>1 DEF RequestType, RequestRow
    <3>4. ok => /\ Limit!Cardinality(Limit!Recent(events, now)) < GlobalMax
                /\ Limit!Cardinality(Limit!OfSubject(Limit!Recent(events, now), start[r].subject)) < SubjectMax
      BY DEF ok
    <3> QED
      BY <2>1, <3>2, <3>3, <3>4 DEF Decision, Limit!Recent, Limit!OfSubject
  <2>2. CASE q # r
    <3>1. start'[q] = start[q] /\ UNCHANGED <<limiter, events>>
      BY <1>4, <2>2 DEF Limit!Decide, RequestType
    <3> QED
      BY <1>1, <3>1, DecisionKept
  <2> QED
    BY <2>1, <2>2
<1>5. ASSUME NEW r \in Starts, Limit!Commit(r) \/ Limit!Rollback(r) PROVE Decision(q)'
  <2>1. start' = [start EXCEPT ![r] = [Limit!Idle EXCEPT !.pc = "done"]]
    BY <1>5 DEF Limit!Commit, Limit!Rollback
  <2>2. CASE q = r
    BY <2>1, <2>2 DEF Decision, Limit!At, RequestType, Limit!Idle
  <2>3. CASE q # r /\ Limit!Rollback(r)
    BY <1>1, <2>1, <2>3, DecisionKept DEF Limit!Rollback
  <2>4. CASE q # r /\ Limit!Commit(r)
    <3>1. ~Limit!At(q, "deciding")
      BY <2>4 DEF Limit!Commit, OneDecides, Holds
    <3> QED
      BY <2>1, <2>4, <3>1 DEF Decision, Limit!At
  <2> QED
    BY <1>5, <2>2, <2>3, <2>4
<1>6. CASE Limit!Tick \/ UNCHANGED Limit!vars
  BY <1>1, <1>6, DecisionKept DEF Limit!Tick, Limit!vars
<1> QED
  BY <1>2, <1>3, <1>4, <1>5, <1>6 DEF Limit!Next

\* One more element than fewer than n are at most n.
LEMMA OneMore ==
    ASSUME NEW S, IsFiniteSet(S), NEW e, NEW T, T \subseteq S \cup {e},
           NEW n \in Nat, Limit!Cardinality(S) < n
    PROVE  Limit!Cardinality(T) <= n
<1> DEFINE U == S \cup {e}
<1>1. /\ IsFiniteSet(U) /\ Limit!Cardinality(S) \in Nat
      /\ Limit!Cardinality(U) = Limit!Cardinality(S) \/ Limit!Cardinality(U) = Limit!Cardinality(S) + 1
  BY CountWithOneMore, CountIsNatural
<1>2. Limit!Cardinality(T) <= Limit!Cardinality(U) /\ Limit!Cardinality(T) \in Nat
  BY <1>1, CountsOfParts
<1> HIDE DEF U
<1> QED
  BY <1>1, <1>2

\* Whatever is in a window with the new row was counted before it was admitted:
\* it is neither deleted yet nor too old for a clock that lags.
LEMMA InsideIsRecent ==
    ASSUME TableType, EventsAreKept, NEW x \in admitted, NEW now \in Int, NEW t \in Int,
           clock - MaxLag <= now, now <= t, x.at > t - Window
    PROVE  x \in Limit!Recent(events, now)
<1>1. x.at \in Nat /\ clock \in Nat
  BY WindowAssumption DEF TableType, Limit!Event
<1>2. x \in events
  BY <1>1, WindowAssumption DEF EventsAreKept
<1>3. x.at > now - Window
  BY <1>1, WindowAssumption
<1>4. x.at >= now - Window
  BY <1>1, <1>3, WindowAssumption
<1> QED
  BY <1>2, <1>3, <1>4 DEF Limit!Recent

\* A commit overfills no window, in whatever order lagging clocks get the lock.
LEMMA WindowStep ==
    ASSUME TableType, RequestType, ClocksAreRecent, EventsAreKept, DecisionStands,
           EveryWindowHolds, [Limit!Next]_(Limit!vars)
    PROVE  EveryWindowHolds'
<1>1. ASSUME NEW r \in Starts, Limit!Commit(r), NEW t \in Int
      PROVE  /\ Limit!Cardinality(Inside(t)') <= GlobalMax
             /\ \A s \in Subjects : Limit!Cardinality(Limit!OfSubject(Inside(t)', s)) <= SubjectMax
  <2>1. PICK e \in Limit!Event :
             /\ e.at = start[r].now /\ e.subject = start[r].subject
             /\ start[r].now <= clock /\ clock - MaxLag <= start[r].now
             /\ IF start[r].ok
                THEN /\ admitted' = admitted \cup {e}
                     /\ events' = (events \ Limit!Expired(start[r].now)) \cup {e}
                ELSE /\ admitted' = admitted
                     /\ events' = events \ Limit!Expired(start[r].now)
    BY <1>1, CommitAdds
  <2> DEFINE now == start[r].now
             all == Limit!Recent(events, now)
  <2>2. now \in Int
    BY WindowAssumption DEF RequestType, RequestRow
  <2>3. CASE /\ start[r].ok /\ now <= t /\ now > t - Window
    <3>1. /\ Limit!Cardinality(all) < GlobalMax
          /\ Limit!Cardinality(Limit!OfSubject(all, e.subject)) < SubjectMax
      BY <1>1, <2>1, <2>3 DEF DecisionStands, Limit!Commit
    <3>2. Inside(t)' \subseteq all \cup {e}
      BY <2>1, <2>2, <2>3, InsideIsRecent DEF Inside
    <3>3. Limit!Cardinality(Inside(t)') <= GlobalMax
      BY <2>2, <3>1, <3>2, OneMore, RecentTypes, WindowAssumption
    <3>4. ASSUME NEW s \in Subjects
          PROVE  Limit!Cardinality(Limit!OfSubject(Inside(t)', s)) <= SubjectMax
      <4>1. CASE s = e.subject
        <5>1. Limit!OfSubject(Inside(t)', s) \subseteq Limit!OfSubject(all, s) \cup {e}
          BY <3>2 DEF Limit!OfSubject
        <5>2. IsFiniteSet(Limit!OfSubject(all, s))
          BY <2>2, RecentTypes
        <5> HIDE DEF all
        <5> QED
          BY <3>1, <4>1, <5>1, <5>2, OneMore, WindowAssumption
      <4>2. CASE s # e.subject
        <5>1. Limit!OfSubject(Inside(t)', s) \subseteq Limit!OfSubject(Inside(t), s)
          BY <2>1, <4>2 DEF Limit!OfSubject, Inside
        <5>2. Limit!OfSubject(Inside(t), s) \subseteq admitted
          BY DEF Limit!OfSubject, Inside
        <5>3. IsFiniteSet(Limit!OfSubject(Inside(t), s))
          BY <5>2, CountOfPart DEF EventsAreKept
        <5>4. Limit!Cardinality(Limit!OfSubject(Inside(t), s)) <= SubjectMax
          BY DEF EveryWindowHolds
        <5> QED
          BY <5>1, <5>3, <5>4, CountsOfParts, WindowAssumption
      <4> QED
        BY <4>1, <4>2
    <3> QED
      BY <3>3, <3>4
  <2>4. CASE ~(/\ start[r].ok /\ now <= t /\ now > t - Window)
    <3>1. Inside(t)' = Inside(t)
      BY <2>1, <2>4 DEF Inside
    <3> QED
      BY <3>1 DEF EveryWindowHolds
  <2> QED
    BY <2>3, <2>4
<1>2. CASE UNCHANGED admitted
  BY <1>2 DEF EveryWindowHolds, Inside, Limit!OfSubject
<1>3. (\E r \in Starts : Limit!Commit(r)) \/ UNCHANGED admitted
  BY DEF Limit!Next, Limit!vars, Limit!Arrive, Limit!Lock, Limit!Decide,
      Limit!Rollback, Limit!Tick
<1>4. CASE \E r \in Starts : Limit!Commit(r)
  <2>1. \A t \in Int :
          /\ Limit!Cardinality(Inside(t)') <= GlobalMax
          /\ \A s \in Subjects : Limit!Cardinality(Limit!OfSubject(Inside(t)', s)) <= SubjectMax
    BY <1>1, <1>4
  <2> QED
    BY <2>1 DEF EveryWindowHolds, Inside, Limit!OfSubject
<1> QED
  BY <1>2, <1>3, <1>4

\* Without its oldest rows a full set is no longer full.
LEMMA WithoutOldest ==
    ASSUME NEW es, es \subseteq Limit!Event, IsFiniteSet(es), NEW n \in Nat \ {0},
           Limit!Cardinality(es) <= n, NEW T, T \subseteq es,
           Limit!Cardinality(es) >= n => \A x \in T : x.at # Limit!Oldest(es)
    PROVE  Limit!Cardinality(T) < n
<1>1. /\ Limit!Cardinality(es) \in Nat /\ Limit!Cardinality(T) \in Nat
      /\ Limit!Cardinality(T) <= Limit!Cardinality(es)
  BY CountsOfParts
<1>2. CASE Limit!Cardinality(es) < n
  BY <1>1, <1>2
<1>3. CASE Limit!Cardinality(es) >= n
  <2>1. es # {}
    BY <1>1, <1>3, CountOfNothing
  <2>2. PICK x \in es : x.at = Limit!Oldest(es)
    BY <2>1, OldestIsThere
  <2>3. T \subseteq es \ {x}
    BY <1>3, <2>2
  <2>4. /\ IsFiniteSet(es \ {x})
        /\ Limit!Cardinality(es \ {x}) = Limit!Cardinality(es) - 1
    BY CountWithOneLess
  <2>5. Limit!Cardinality(T) <= Limit!Cardinality(es \ {x})
    BY <2>3, <2>4, CountsOfParts
  <2> QED
    BY <1>1, <2>4, <2>5
<1> QED
  BY <1>1, <1>2, <1>3

\* What the web limiter counts lies in the window that ends now.
LEMMA RecentIsInside ==
    ASSUME TableType, EventsAreKept, EveryWindowHolds, limiter = "web_request",
           NEW s \in Subjects
    PROVE  /\ Limit!Cardinality(Limit!Recent(events, clock)) <= GlobalMax
           /\ Limit!Cardinality(Limit!OfSubject(Limit!Recent(events, clock), s)) <= SubjectMax
<1>1. clock \in Int
  BY WindowAssumption DEF TableType
<1>2. /\ Limit!Recent(events, clock) \subseteq Inside(clock)
      /\ Limit!OfSubject(Limit!Recent(events, clock), s) \subseteq Limit!OfSubject(Inside(clock), s)
  BY DEF Limit!Recent, Inside, EventsAreKept, Limit!OfSubject
<1>3. Inside(clock) \subseteq admitted /\ Limit!OfSubject(Inside(clock), s) \subseteq admitted
  BY DEF Inside, Limit!OfSubject
<1>4. IsFiniteSet(Inside(clock)) /\ IsFiniteSet(Limit!OfSubject(Inside(clock), s))
  BY <1>3, CountOfPart DEF EventsAreKept
<1>5. /\ Limit!Cardinality(Inside(clock)) <= GlobalMax
      /\ Limit!Cardinality(Limit!OfSubject(Inside(clock), s)) <= SubjectMax
  BY <1>1 DEF EveryWindowHolds
<1>6. Limit!Cardinality(Limit!Recent(events, clock)) <= GlobalMax
  BY <1>2, <1>4, <1>5, CountsOfParts, WindowAssumption
<1>7. Limit!Cardinality(Limit!OfSubject(Limit!Recent(events, clock), s)) <= SubjectMax
  BY <1>2, <1>4, <1>5, CountsOfParts, WindowAssumption
<1> QED
  BY <1>6, <1>7

\* The delay reaches the moment the oldest counted row leaves the window.
LEMMA DelayReachesOldest ==
    ASSUME TableType, limiter = "web_request", NEW now \in Nat,
           NEW mine, mine \subseteq Limit!Event, NEW all, all \subseteq Limit!Event,
           Limit!Cardinality(mine) >= SubjectMax => mine # {},
           Limit!Cardinality(all) >= GlobalMax => all # {},
           \A x \in mine \cup all : x.at <= now
    PROVE  /\ Limit!Cardinality(mine) >= SubjectMax =>
                now + Limit!RetryAfter(mine, all, now) >= Limit!Oldest(mine) + Window
           /\ Limit!Cardinality(all) >= GlobalMax =>
                now + Limit!RetryAfter(mine, all, now) >= Limit!Oldest(all) + Window
           /\ Limit!RetryAfter(mine, all, now) \in Nat
<1> DEFINE subjectFree == IF Limit!Cardinality(mine) >= SubjectMax
                          THEN Limit!Oldest(mine) + Window ELSE now
           globalFree == IF Limit!Cardinality(all) >= GlobalMax
                         THEN Limit!Oldest(all) + Window ELSE now
           free == Limit!Larger(subjectFree, globalFree)
<1>1. Limit!Cardinality(mine) >= SubjectMax => Limit!Oldest(mine) \in Nat /\ Limit!Oldest(mine) <= now
  BY OldestIsThere
<1>2. Limit!Cardinality(all) >= GlobalMax => Limit!Oldest(all) \in Nat /\ Limit!Oldest(all) <= now
  BY OldestIsThere
<1>3. /\ subjectFree \in Int /\ globalFree \in Int
      /\ subjectFree <= now + Window /\ globalFree <= now + Window
  BY <1>1, <1>2, WindowAssumption
<1>4. free \in Int /\ free >= subjectFree /\ free >= globalFree /\ free <= now + Window
  BY <1>3 DEF Limit!Larger
<1>5. Limit!RetryAfter(mine, all, now) = Limit!Larger(1, Limit!Smaller(Window, free - now))
  BY DEF Limit!RetryAfter
<1> HIDE DEF free
<1>6. Limit!RetryAfter(mine, all, now) \in Nat /\ Limit!RetryAfter(mine, all, now) >= free - now
  BY <1>4, <1>5, WindowAssumption DEF Limit!Larger, Limit!Smaller
<1>7. now + Limit!RetryAfter(mine, all, now) >= free
  BY <1>4, <1>6
<1> QED
  BY <1>1, <1>2, <1>3, <1>4, <1>6, <1>7, WindowAssumption

\* What RetryAfterIsHonest says of one request.
Delay(r) ==
  limiter = "web_request" /\ Limit!At(r, "deciding") /\ ~start[r].ok =>
    LET then == Limit!Recent(events, start[r].now + start[r].retry) IN
    /\ Limit!Cardinality(then) < GlobalMax
    /\ Limit!Cardinality(Limit!OfSubject(then, start[r].subject)) < SubjectMax

\* What the web limiter counts: rows younger than the window.
LEMMA WebRecent ==
    ASSUME limiter = "web_request", NEW es, NEW now
    PROVE  Limit!Recent(es, now) = {x \in es : x.at > now - Window}
  BY DEF Limit!Recent

\* After the delay the rows that filled a quota no longer do.
LEMMA DelayIsEnough ==
    ASSUME TableType, EventsAreKept, EveryWindowHolds, limiter = "web_request",
           NEW s \in Subjects, NEW retry,
           retry = Limit!RetryAfter(Limit!OfSubject(Limit!Recent(events, clock), s), Limit!Recent(events, clock), clock)
    PROVE  LET then == Limit!Recent(events, clock + retry) IN
           /\ Limit!Cardinality(then) < GlobalMax
           /\ Limit!Cardinality(Limit!OfSubject(then, s)) < SubjectMax
<1> DEFINE all == Limit!Recent(events, clock)
           mine == Limit!OfSubject(all, s)
           later == clock + retry
           then == Limit!Recent(events, later)
<1>1. clock \in Nat /\ clock \in Int
  BY WindowAssumption DEF TableType
<1>2. /\ all \subseteq Limit!Event /\ IsFiniteSet(all) /\ all \subseteq events
      /\ mine \subseteq Limit!Event /\ IsFiniteSet(mine) /\ mine \subseteq all
  BY <1>1, RecentTypes DEF Limit!OfSubject
<1>3. /\ Limit!Cardinality(all) >= GlobalMax => all # {}
      /\ Limit!Cardinality(mine) >= SubjectMax => mine # {}
  BY <1>2, CountOfNothing, WindowAssumption
<1>4. \A x \in mine \cup all : x.at <= clock
  BY <1>2 DEF EventsAreKept
<1>5. Limit!Cardinality(all) <= GlobalMax /\ Limit!Cardinality(mine) <= SubjectMax
  BY RecentIsInside
<1>6. /\ Limit!Cardinality(mine) >= SubjectMax => clock + retry >= Limit!Oldest(mine) + Window
      /\ Limit!Cardinality(all) >= GlobalMax => clock + retry >= Limit!Oldest(all) + Window
      /\ retry \in Nat
  <2> HIDE DEF all, mine
  <2>1. retry = Limit!RetryAfter(mine, all, clock)
    BY DEF all, mine
  <2> QED
    BY <1>1, <1>2, <1>3, <1>4, <2>1, DelayReachesOldest
<1>7. \A x \in events : x.at \in Nat
  BY WindowAssumption DEF TableType, Limit!Event
<1>8. then \subseteq all /\ Limit!OfSubject(then, s) \subseteq mine
  <2>1. \A x \in events : x.at > later - Window => x.at > clock - Window
    BY <1>1, <1>6, <1>7, WindowAssumption
  <2>2. all = {x \in events : x.at > clock - Window}
    BY WebRecent
  <2>3. then = {x \in events : x.at > later - Window}
    <3> HIDE DEF later
    <3> QED
      BY WebRecent
  <2> HIDE DEF then, all, later
  <2>4. then \subseteq all
    BY <2>1, <2>2, <2>3
  <2> QED
    BY <2>4 DEF Limit!OfSubject
<1>9. \A x \in then : x.at > later - Window /\ x.at \in Nat
  <2> HIDE DEF later
  <2>1. then = {x \in events : x.at > later - Window}
    BY WebRecent
  <2> QED
    BY <1>7, <2>1
<1>10. Limit!Cardinality(all) >= GlobalMax => \A x \in then : x.at # Limit!Oldest(all)
  <2>1. Limit!Cardinality(all) >= GlobalMax => Limit!Oldest(all) \in Nat
    BY <1>2, <1>3, OldestIsThere
  <2> HIDE DEF all, then
  <2> QED
    BY <1>1, <1>6, <1>9, <2>1, WindowAssumption
<1>11. Limit!Cardinality(mine) >= SubjectMax => \A x \in Limit!OfSubject(then, s) : x.at # Limit!Oldest(mine)
  <2>1. Limit!Cardinality(mine) >= SubjectMax => Limit!Oldest(mine) \in Nat
    BY <1>2, <1>3, OldestIsThere
  <2>2. Limit!OfSubject(then, s) \subseteq then
    BY DEF Limit!OfSubject
  <2> HIDE DEF all, mine, then
  <2> QED
    BY <1>1, <1>6, <1>9, <2>1, <2>2, WindowAssumption
<1> HIDE DEF all, mine, then
<1>12. Limit!Cardinality(then) < GlobalMax
  BY <1>2, <1>5, <1>8, <1>10, WithoutOldest, WindowAssumption
<1>13. Limit!Cardinality(Limit!OfSubject(then, s)) < SubjectMax
  BY <1>2, <1>5, <1>8, <1>11, WithoutOldest, WindowAssumption
<1> QED
  BY <1>12, <1>13 DEF then

\* Nobody else's step changes what a delay was computed from.
LEMMA DelayKept ==
    ASSUME NEW q \in Starts, Delay(q), start'[q] = start[q],
           UNCHANGED <<limiter, events>>
    PROVE  Delay(q)'
  BY DEF Delay, Limit!At, Limit!Recent, Limit!OfSubject

\* A delay stays honest until its transaction ends.
LEMMA DelayStep ==
    ASSUME TableType, RequestType, OneDecides, ClocksAreRecent, EventsAreKept,
           EveryWindowHolds, Limit!RetryAfterIsHonest, [Limit!Next]_(Limit!vars)
    PROVE  Limit!RetryAfterIsHonest'
<1> SUFFICES ASSUME NEW q \in Starts PROVE Delay(q)'
  BY DEF Limit!RetryAfterIsHonest, Delay, Limit!At
<1>1. Delay(q)
  BY DEF Limit!RetryAfterIsHonest, Delay
<1>2. ASSUME NEW r \in Starts, NEW s \in Subjects, Limit!Arrive(r, s) PROVE Delay(q)'
  <2>1. CASE q = r
    BY <1>2, <2>1 DEF Limit!Arrive, Delay, Limit!At, RequestType
  <2>2. CASE q # r
    <3>1. start'[q] = start[q] /\ UNCHANGED <<limiter, events>>
      BY <1>2, <2>2 DEF Limit!Arrive, RequestType
    <3> QED
      BY <1>1, <3>1, DelayKept
  <2> QED
    BY <2>1, <2>2
<1>3. ASSUME NEW r \in Starts, Limit!Lock(r) PROVE Delay(q)'
  <2>1. CASE q = r
    BY <1>3, <2>1 DEF Limit!Lock, Delay, Limit!At, RequestType
  <2>2. CASE q # r
    <3>1. start'[q] = start[q] /\ UNCHANGED <<limiter, events>>
      BY <1>3, <2>2 DEF Limit!Lock, RequestType
    <3> QED
      BY <1>1, <3>1, DelayKept
  <2> QED
    BY <2>1, <2>2
<1>4. ASSUME NEW r \in Starts, Limit!Decide(r) PROVE Delay(q)'
  <2>1. CASE q = r
    <3> DEFINE now == Limit!ClockOf(r)
               all == Limit!Recent(events, now)
               mine == Limit!OfSubject(all, start[r].subject)
               ok == Limit!Cardinality(mine) < SubjectMax /\ Limit!Cardinality(all) < GlobalMax
               retry == IF ok THEN 0 ELSE Limit!RetryAfter(mine, all, now)
    <3>1. start' = [start EXCEPT ![r].pc = "deciding", ![r].now = now, ![r].ok = ok,
                                     ![r].retry = retry]
      BY <1>4, Zenon DEF Limit!Decide
    <3>2. UNCHANGED <<limiter, events>> /\ start[r].subject \in Subjects
      BY <1>4 DEF Limit!Decide, ClocksAreRecent, Working, Limit!At
    <3> HIDE DEF ok, retry
    <3>3. /\ start'[r].now = now /\ start'[r].ok = ok /\ start'[r].retry = retry
          /\ start'[r].subject = start[r].subject
      <4> HIDE DEF now
      <4> QED
        BY <3>1 DEF RequestType, RequestRow
    <3>4. ASSUME limiter = "web_request", ~ok
          PROVE  LET then == Limit!Recent(events, now + retry) IN
                 /\ Limit!Cardinality(then) < GlobalMax
                 /\ Limit!Cardinality(Limit!OfSubject(then, start[r].subject)) < SubjectMax
      <4>1. now = clock /\ retry = Limit!RetryAfter(mine, all, now)
        BY <3>4 DEF Limit!ClockOf, retry
      <4> QED
        BY <3>2, <3>4, <4>1, DelayIsEnough
    <3> HIDE DEF now
    <3> QED
      BY <2>1, <3>2, <3>3, <3>4 DEF Delay, Limit!Recent, Limit!OfSubject
  <2>2. CASE q # r
    <3>1. start'[q] = start[q] /\ UNCHANGED <<limiter, events>>
      BY <1>4, <2>2 DEF Limit!Decide, RequestType
    <3> QED
      BY <1>1, <3>1, DelayKept
  <2> QED
    BY <2>1, <2>2
<1>5. ASSUME NEW r \in Starts, Limit!Commit(r) \/ Limit!Rollback(r) PROVE Delay(q)'
  <2>1. start' = [start EXCEPT ![r] = [Limit!Idle EXCEPT !.pc = "done"]]
    BY <1>5 DEF Limit!Commit, Limit!Rollback
  <2>2. CASE q = r
    BY <2>1, <2>2 DEF Delay, Limit!At, RequestType, Limit!Idle
  <2>3. CASE q # r /\ Limit!Rollback(r)
    BY <1>1, <2>1, <2>3, DelayKept DEF Limit!Rollback
  <2>4. CASE q # r /\ Limit!Commit(r)
    <3>1. ~Limit!At(q, "deciding")
      BY <2>4 DEF Limit!Commit, OneDecides, Holds
    <3> QED
      BY <2>1, <2>4, <3>1 DEF Delay, Limit!At
  <2> QED
    BY <1>5, <2>2, <2>3, <2>4
<1>6. CASE Limit!Tick \/ UNCHANGED Limit!vars
  BY <1>1, <1>6, DelayKept DEF Limit!Tick, Limit!vars
<1> QED
  BY <1>2, <1>3, <1>4, <1>5, <1>6 DEF Limit!Next

\* Both limiters begin with an empty table.
LEMMA WindowInit == Limit!Init => WindowIInv
<1> SUFFICES ASSUME Limit!Init PROVE WindowIInv
  OBVIOUS
<1> USE WindowAssumption DEF Limit!Init
<1>1. \A r \in Starts : start[r] = Limit!Idle /\ Limit!Idle.pc = "idle"
  BY DEF Limit!Idle
<1>2. Limit!TypeOK
  <2>1. Limit!Idle \in RequestRow
    <3>1. 0 \in 0..MaxTime /\ 0 \in 0..Window
      OBVIOUS
    <3> QED
      BY <3>1 DEF RequestRow, Limit!Idle
  <2>2. RequestType
    BY <2>1 DEF RequestType
  <2>3. TableType
    BY DEF TableType
  <2> QED
    BY <2>2, <2>3, WindowTypes
<1>3. OneDecides /\ ClocksAreRecent /\ DecisionStands /\ Limit!RetryAfterIsHonest
  BY <1>1 DEF OneDecides, ClocksAreRecent, DecisionStands,
      Limit!RetryAfterIsHonest, Holds, Working, Limit!At
<1>4. EventsAreKept
  BY CountOfNothing DEF EventsAreKept
<1>5. EveryWindowHolds
  <2>1. \A t, s : Inside(t) = {} /\ Limit!OfSubject(Inside(t), s) = {}
    BY DEF Inside, Limit!OfSubject
  <2> QED
    BY <2>1, CountOfNothing DEF EveryWindowHolds
<1> QED
  BY <1>2, <1>3, <1>4, <1>5 DEF WindowIInv

\* Every step of either limiter keeps the invariant.
LEMMA WindowIsInductive == WindowIInv /\ [Limit!Next]_(Limit!vars) => WindowIInv'
<1> SUFFICES ASSUME WindowIInv, [Limit!Next]_(Limit!vars) PROVE WindowIInv'
  OBVIOUS
<1>1. /\ TableType /\ RequestType /\ OneDecides /\ ClocksAreRecent /\ EventsAreKept
      /\ DecisionStands /\ EveryWindowHolds /\ Limit!RetryAfterIsHonest
  BY WindowTypes DEF WindowIInv
<1>2. TableType' /\ RequestType'
  BY <1>1, TableStep, RequestStep
<1>3. Limit!TypeOK'
  BY <1>2 DEF Limit!TypeOK, TableType, RequestType, RequestRow
<1>4. OneDecides' /\ ClocksAreRecent' /\ EventsAreKept'
  BY <1>1, OneDecidesStep, ClocksStep, EventsStep
<1>5. DecisionStands' /\ EveryWindowHolds' /\ Limit!RetryAfterIsHonest'
  BY <1>1, DecisionStep, WindowStep, DelayStep
<1> QED
  BY <1>3, <1>4, <1>5 DEF WindowIInv

\* The invariant implies that no window is overfilled and delays are honest.
LEMMA WindowMeans == WindowIInv => Limit!WindowInv
<1> SUFFICES ASSUME WindowIInv PROVE Limit!WindowHolds
  BY DEF WindowIInv, Limit!WindowInv
<1>1. \A e \in admitted : e.at \in Int
  BY WindowAssumption DEF WindowIInv, Limit!TypeOK, Limit!Event
<1>2. \A t \in {e.at : e \in admitted} : t \in Int
  BY <1>1
<1> QED
  BY <1>2 DEF Limit!WindowHolds, WindowIInv, EveryWindowHolds, Inside

-----------------------------------------------------------------------------
(* The theorems.                                                           *)

\* A step of the composition is one of the login, or leaves it alone.
LEMMA PartIsLogin == [Next]_<<part, loginVars, windowVars>> => [Login!Next]_(Login!vars)
  BY DEF Next, loginVars, Login!vars

\* A step of the composition is one of the limiter, or leaves it alone.
LEMMA PartIsWindow == [Next]_<<part, loginVars, windowVars>> => [Limit!Next]_(Limit!vars)
  BY DEF Next, windowVars, Limit!vars

\* A grant yields at most one session, a withdrawn repository has none that a login
\* issued and the token cookie opens its session, however callbacks, exchanges, tabs
\* and webhooks interleave (github-oauth-production.ts, handoff.ts).
THEOREM LoginInvariant == Spec => []LoginInv
<1>1. Init => LoginIInv
  BY LoginInit DEF Init
<1>2. LoginIInv /\ [Next]_<<part, loginVars, windowVars>> => LoginIInv'
  BY PartIsLogin, LoginStep
<1>3. LoginIInv => LoginInv
  BY LoginMeans DEF LoginInv
<1> QED
  BY <1>1, <1>2, <1>3, PTL DEF Spec

\* A session appears only for who may have it at that moment (rotateSession).
THEOREM RotationAuthorized == Spec => RotationIsAuthorized
<1>1. Init => LoginIInv
  BY LoginInit DEF Init
<1>2. LoginIInv /\ [Next]_<<part, loginVars, windowVars>> => LoginIInv'
  BY PartIsLogin, LoginStep
<1>3. LoginIInv /\ [Next]_<<part, loginVars, windowVars>> =>
        [\A c \in Calls : session[c].state = "none" /\ session'[c].state = "live" =>
           Login!MayRotate(call[c].flow, session'[c].user)]_(Login!vars)
  BY PartIsLogin, RotationStep
<1> QED
  BY <1>1, <1>2, <1>3, PTL DEF Spec, RotationIsAuthorized, Login!RotationIsAuthorized

\* No window holds more admissions than the quotas and the web limiter's delay is
\* right, however requests with different clocks get the lock
\* (consumeOAuthStartRateLimit, reserveWebRequestRateLimit).
THEOREM WindowInvariant == Spec => []WindowInv
<1>1. Init => WindowIInv
  BY WindowInit DEF Init
<1>2. WindowIInv /\ [Next]_<<part, loginVars, windowVars>> => WindowIInv'
  BY PartIsWindow, WindowIsInductive
<1>3. WindowIInv => WindowInv
  BY WindowMeans DEF WindowInv
<1> QED
  BY <1>1, <1>2, <1>3, PTL DEF Spec
=============================================================================
