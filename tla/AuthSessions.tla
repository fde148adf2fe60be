---------------------------- MODULE AuthSessions ----------------------------
(***************************************************************************)
(* Sign-in sessions: the four /auth endpoints over the refresh_sessions    *)
(* table, and the pages of one browser that share one refresh cookie.      *)
(*                                                                         *)
(* A request is handled in one request transaction: the handler reads at   *)
(* READ COMMITTED and only changes the session's pending objects; the      *)
(* commit belongs to get_db_session and runs when the handler has          *)
(* returned.  The declared FastAPI range (>= 0.116, < 1) holds releases    *)
(* that run it before the response is sent and releases that run it        *)
(* afterwards; `responseFirst' is that choice.  Request n mints token n,   *)
(* because new_refresh_token never repeats one.                            *)
(***************************************************************************)
EXTENDS Integers, Sequences, FiniteSets

CONSTANTS Tabs,          \* mounted AuthGuard instances and login forms
          MaxRequests    \* bound: requests sent in one behaviour

ASSUME AuthAssumption == MaxRequests \in Nat \ {0} /\ Tabs # {}

VARIABLES
  sessions,       \* committed refresh_sessions rows by token
  jar,            \* the browser's refresh_token cookie
  page,           \* per tab: what it shows
  requests,       \* every request sent so far, in order
  userActive,     \* users.is_active of the only account
  responseFirst,  \* the response leaves before get_db_session commits
  contested,      \* history: tokens two unsettled requests had in common
  cutOff          \* history: a response was lost or a commit failed

authVars == <<sessions, jar, page, requests, userActive, responseFirst,
              contested, cutOff>>

NoToken == 0
Tokens == 1..MaxRequests
Pages == {"away", "checking", "me", "ready", "login", "signing"}
SessionRow == [family: Tokens, revoked: BOOLEAN, expired: BOOLEAN]
AuthRequest == [tab: Tabs, op: {"login", "refresh", "logout"},
                token: Tokens \cup {NoToken},
                state: {"sent", "handled", "rejected"},
                write: {"pending", "committed", "failed"},
                answered: BOOLEAN]

\* The row of a token that refresh() accepts.
Usable(k) == /\ k \in DOMAIN sessions
             /\ ~sessions[k].revoked
             /\ ~sessions[k].expired

\* A request whose transaction or whose answer is still outstanding.
Settled(r) == r.answered /\ r.write # "pending"
Unsettled == {n \in 1..Len(requests) : ~Settled(requests[n])}

\* The tokens a request stands for: the one it presents and the one it mints.
Touches(n) == {requests[n].token, n} \ {NoToken}

\* The two writes of the handlers: revoked_at on a row, and a new row.
Revoke(rows, k) == IF k \in DOMAIN rows THEN [rows EXCEPT ![k].revoked = TRUE] ELSE rows
Add(rows, k, f) == [i \in DOMAIN rows \cup {k} |->
  IF i = k THEN [family |-> f, revoked |-> FALSE, expired |-> FALSE] ELSE rows[i]]

\* A new browser, or one whose user has signed in with request 1 (a settled
\* request, whose tab nothing reads any more).
AuthInit ==
  /\ \/ sessions = <<>> /\ jar = NoToken /\ requests = <<>>
     \/ /\ sessions = Add(<<>>, 1, 1)
        /\ jar = 1
        /\ requests = <<[tab |-> CHOOSE t \in Tabs : TRUE, op |-> "login", token |-> NoToken,
                        state |-> "handled", write |-> "committed", answered |-> TRUE]>>
  /\ page = [t \in Tabs |-> "away"]
  /\ userActive = TRUE
  /\ responseFirst \in BOOLEAN
  /\ contested = {}
  /\ cutOff = FALSE

\* The browser sends a request with the cookie it holds at that moment.
Send(t, op) ==
  /\ Len(requests) < MaxRequests
  /\ requests' = Append(requests,
        [tab |-> t, op |-> op, token |-> IF op = "login" THEN NoToken ELSE jar,
         state |-> "sent", write |-> "pending", answered |-> FALSE])
  /\ contested' = IF op = "login" THEN contested
                  ELSE contested \cup ({jar} \cap UNION {Touches(n) : n \in Unsettled})
  /\ UNCHANGED <<sessions, jar, userActive, responseFirst, cutOff>>

\* AuthGuard's effect: a guarded page mounts and renews the session.
MountGuard(t) ==
  /\ page[t] \in {"away", "ready"}
  /\ page' = [page EXCEPT ![t] = "checking"]
  /\ Send(t, "refresh")

SubmitLogin(t) ==
  /\ page[t] = "login"
  /\ page' = [page EXCEPT ![t] = "signing"]
  /\ Send(t, "login")

SubmitLogout(t) ==
  /\ page[t] = "ready"
  /\ page' = [page EXCEPT ![t] = "away"]
  /\ Send(t, "logout")

\* refresh() reads the row and the user; what it writes waits for the commit.
HandleRefresh(n) ==
  LET r == requests[n]
  IN /\ r.state = "sent" /\ r.op = "refresh"
     /\ requests' = IF r.token # NoToken /\ Usable(r.token) /\ userActive
          THEN [requests EXCEPT ![n].state = "handled"]
          ELSE [requests EXCEPT ![n].state = "rejected", ![n].write = "failed"]
     /\ UNCHANGED <<sessions, jar, page, userActive, responseFirst, contested, cutOff>>

\* login() with the right password, or with a wrong one.
HandleLogin(n, passwordOk) ==
  /\ requests[n].state = "sent" /\ requests[n].op = "login"
  /\ requests' = IF userActive /\ passwordOk
       THEN [requests EXCEPT ![n].state = "handled"]
       ELSE [requests EXCEPT ![n].state = "rejected", ![n].write = "failed"]
  /\ UNCHANGED <<sessions, jar, page, userActive, responseFirst, contested, cutOff>>

HandleLogout(n) ==
  /\ requests[n].state = "sent" /\ requests[n].op = "logout"
  /\ requests' = [requests EXCEPT ![n].state = "handled"]
  /\ UNCHANGED <<sessions, jar, page, userActive, responseFirst, contested, cutOff>>

\* Mutants: a rotation that revokes the whole family, and one that keeps the
\* old row.
RowsAfterRevokingFamily(n) ==
  LET r == requests[n]
      kin == {k \in DOMAIN sessions : r.op = "refresh" /\ sessions[k].family = sessions[r.token].family}
      cleared == [k \in DOMAIN sessions |-> [sessions[k] EXCEPT !.revoked = @ \/ k \in kin]]
  IN CASE r.op = "login"   -> Add(sessions, n, n)
       [] r.op = "refresh" -> Add(cleared, n, sessions[r.token].family)
       [] r.op = "logout"  -> Revoke(sessions, r.token)

RowsAfterNoRotation(n) ==
  LET r == requests[n]
  IN CASE r.op = "login"   -> Add(sessions, n, n)
       [] r.op = "refresh" -> Add(sessions, n, sessions[r.token].family)
       [] r.op = "logout"  -> Revoke(sessions, r.token)

\* The rows after the request's transaction: login adds the first session of
\* a family, refresh revokes the presented one and adds its successor, logout
\* revokes the presented one if it is there.
RowsAfter(n) ==
  LET r == requests[n]
  IN CASE r.op = "login"   -> Add(sessions, n, n)
       [] r.op = "refresh" -> Add(Revoke(sessions, r.token), n, sessions[r.token].family)
       [] r.op = "logout"  -> Revoke(sessions, r.token)

\* get_db_session commits, unless the database refuses and it rolls back.
\* Bound: a behaviour has at most one fault (this one or a lost response).
CommitRequest(n) ==
  /\ requests[n].state = "handled" /\ requests[n].write = "pending"
  /\ sessions' = RowsAfter(n)
  /\ requests' = [requests EXCEPT ![n].write = "committed"]
  /\ UNCHANGED <<jar, page, userActive, responseFirst, contested, cutOff>>

CommitFails(n) ==
  /\ ~cutOff
  /\ requests[n].state = "handled" /\ requests[n].write = "pending"
  /\ requests' = [requests EXCEPT ![n].write = "failed"]
  /\ cutOff' = TRUE
  /\ UNCHANGED <<sessions, jar, page, userActive, responseFirst, contested>>

\* A successful answer may be on its way to the browser.
Sendable(r) ==
  /\ r.state = "handled"
  /\ r.write = "committed" \/ responseFirst

\* The response reaches the tab: its cookie goes to the jar; the guard goes on
\* with getMe(), the login form goes to the dashboard, an error shows the form.
Deliver(n) ==
  LET r == requests[n]
      ok == Sendable(r)
  IN /\ ~r.answered
     /\ ok \/ r.state = "rejected" \/ r.write = "failed"
     /\ jar' = IF ~ok THEN jar ELSE IF r.op = "logout" THEN NoToken ELSE n
     /\ page' = CASE r.op = "logout"      -> page
                  [] r.op = "login" /\ ok -> [page EXCEPT ![r.tab] = "away"]
                  [] OTHER -> [page EXCEPT ![r.tab] = IF ok THEN "me" ELSE "login"]
     /\ requests' = [requests EXCEPT ![n].answered = TRUE]
     /\ UNCHANGED <<sessions, userActive, responseFirst, contested, cutOff>>

\* The connection breaks: fetch rejects and the catch clause takes over.
LoseResponse(n) ==
  LET r == requests[n]
  IN /\ ~cutOff
     /\ ~r.answered
     /\ r.state # "sent"
     /\ requests' = [requests EXCEPT ![n].answered = TRUE]
     /\ page' = IF r.op = "logout" THEN page ELSE [page EXCEPT ![r.tab] = "login"]
     /\ cutOff' = TRUE
     /\ UNCHANGED <<sessions, jar, userActive, responseFirst, contested>>

\* getMe() with the access token just received: get_current_user looks the
\* account up again.
AnswerMe(t) ==
  /\ page[t] = "me"
  /\ \E shown \in {"ready", "login"} :
       /\ shown = "ready" => userActive
       /\ page' = [page EXCEPT ![t] = shown]
  /\ UNCHANGED <<sessions, jar, requests, userActive, responseFirst, contested, cutOff>>

\* refresh_ttl_days pass for one session; the cookie has the same max_age.
\* That takes days, so no request is open meanwhile.
ExpireSession(k) ==
  /\ Unsettled = {} /\ k \in DOMAIN sessions /\ ~sessions[k].expired
  /\ sessions' = [sessions EXCEPT ![k].expired = TRUE]
  /\ jar' = IF jar = k THEN NoToken ELSE jar
  /\ UNCHANGED <<page, requests, userActive, responseFirst, contested, cutOff>>

\* The account is switched off in the database (no endpoint does it).
DeactivateUser ==
  /\ userActive
  /\ userActive' = FALSE
  /\ UNCHANGED <<sessions, jar, page, requests, responseFirst, contested, cutOff>>

\* The steps of one request, from its arrival to its answer and its commit.
RequestStep(n) ==
  /\ n \in DOMAIN requests
  /\ \/ HandleRefresh(n) \/ HandleLogout(n)
     \/ \E passwordOk \in BOOLEAN : HandleLogin(n, passwordOk)
     \/ CommitRequest(n) \/ CommitFails(n) \/ Deliver(n) \/ LoseResponse(n)

AuthNext ==
  \/ \E t \in Tabs : MountGuard(t) \/ SubmitLogin(t) \/ SubmitLogout(t) \/ AnswerMe(t)
  \/ \E n \in DOMAIN requests : RequestStep(n)
  \/ \E k \in Tokens : ExpireSession(k)
  \/ DeactivateUser

\* What the code's scheduling gives: the server finishes what it has begun,
\* a response arrives or the connection breaks, and the guard asks for /me.
AuthFairness ==
  /\ \A n \in 1..MaxRequests : WF_authVars(RequestStep(n))
  /\ \A t \in Tabs : WF_authVars(AnswerMe(t))

------------------------------------------------------------------------------

AuthTypeOK ==
  /\ DOMAIN sessions \subseteq Tokens
  /\ \A k \in DOMAIN sessions : sessions[k] \in SessionRow
  /\ jar \in Tokens \cup {NoToken}
  /\ page \in [Tabs -> Pages]
  /\ requests \in Seq(AuthRequest) /\ Len(requests) <= MaxRequests
  /\ userActive \in BOOLEAN /\ responseFirst \in BOOLEAN /\ cutOff \in BOOLEAN
  /\ contested \subseteq Tokens

FamilyOf(f) == {k \in DOMAIN sessions : sessions[k].family = f}
Live(f) == {k \in FamilyOf(f) : Usable(k)}

\* Once every request is settled, the shared cookie names a session that
\* refresh() accepts, in whatever order the answers of concurrent rotations
\* reached the browser; only a lost response or a failed commit can leave it
\* with a revoked or an unknown token.
CookieIsUsable ==
  Unsettled = {} /\ ~cutOff /\ jar # NoToken => Usable(jar)

\* Rotation keeps one live session per login.  refresh() checks revoked_at in
\* an earlier statement than it writes it, so the exception is a token that
\* two unsettled requests presented at once.
OneLiveSession ==
  \A f \in Tokens : FamilyOf(f) \cap contested = {} => Cardinality(Live(f)) <= 1

\* After logout() has committed, no session of that login can be refreshed,
\* unless one of its tokens was contested or an answer never reached the
\* browser (logout then presents a token that is revoked already).
LogoutIsFinal ==
  \A n \in 1..Len(requests) :
    LET r == requests[n]
    IN /\ r.op = "logout" /\ r.write = "committed" /\ r.token \in DOMAIN sessions
       /\ ~cutOff
       /\ FamilyOf(sessions[r.token].family) \cap contested = {}
       => Live(sessions[r.token].family) = {}

\* A login has one live session at a time, and none after its logout.
SessionsOfALogin == OneLiveSession /\ LogoutIsFinal

\* AuthGuard always leaves its waiting screen: every mounted page ends up
\* ready or at the login form, also when a response is lost.
GuardSettles ==
  \A t \in Tabs : page[t] = "checking" ~> page[t] \in {"ready", "login"}
=============================================================================
