-------------------------------- MODULE Auth --------------------------------
(***************************************************************************)
(* Accounts and sessions: src/internal/auth.  A registration writes the    *)
(* account and its session in two store calls, a signed-in request reads   *)
(* the session and its account in two, and the cookie of a browser only    *)
(* changes when a reply reaches it, after later requests have been sent.   *)
(*                                                                         *)
(* A browser stands for a person who knows one password; an account keeps  *)
(* the password as the browser that chose it.  Ids and tokens are random:  *)
(* one that was drawn is not drawn again.  Input that is refused before    *)
(* any store call, and a request without a token, change nothing.          *)
(***************************************************************************)
EXTENDS Naturals

CONSTANTS
    Browsers,       \* the persons, each with one cookie jar
    Emails,         \* normalised addresses
    Users,          \* account ids
    Tokens,         \* session tokens, each with its hash
    Requests,       \* requests under way at the same time
    NoToken,        \* an empty cookie
    NoUser,         \* no account: the request has found none yet
    Durable,        \* the stores survive a restart: MySQL, not memory
    MaxFailures     \* bound: how many store calls fail

ASSUME AuthAssumption ==
    /\ Emails # {} /\ NoToken \notin Tokens /\ NoUser \notin Users
    /\ Durable \in BOOLEAN /\ MaxFailures \in Nat

VARIABLES
    accounts,       \* state, email and password of each account
    sessions,       \* state and account of each session
    cookie,         \* the token in each browser's jar
    request,        \* of each request: its operation, the call it makes next
                    \* (at), its sender (by), email, token and account, what its
                    \* reply does to the cookie, and whether its session had
                    \* ended when it was sent (late)
    failures        \* history: the store calls that failed

authVars == <<accounts, sessions, cookie, request, failures>>

AccountStates == {"new", "active", "disabled", "lost"}
SessionStates == {"new", "live", "expired", "revoked", "lost"}

Known(u) == accounts[u].state \in {"active", "disabled"}
SignedIn(t) == sessions[t].state = "live" /\ accounts[sessions[t].user].state = "active"

Waiting == [at |-> "idle"]

AuthInit ==
    /\ accounts = [u \in Users |-> [state |-> "new"]]
    /\ sessions = [t \in Tokens |-> [state |-> "new"]]
    /\ cookie = [b \in Browsers |-> NoToken]
    /\ request = [q \in Requests |-> Waiting]
    /\ failures = 0

-----------------------------------------------------------------------------
(* How a request goes on                                                   *)

At(q, op, place) == request[q].at = place /\ request[q].op = op
GoesTo(q, place) == request' = [request EXCEPT ![q].at = place]
GoesToWith(q, place, u) ==
    request' = [request EXCEPT ![q].at = place, ![q].user = u]
Replies(q, does) == request' = [request EXCEPT ![q].at = "reply", ![q].does = does]

Send(q, b, op, e) ==
    /\ request[q] = Waiting
    /\ op = "private" => cookie[b] # NoToken
    /\ request' = [request EXCEPT ![q] =
           [at |-> "sent", op |-> op, by |-> b, email |-> e, token |-> cookie[b],
            user |-> NoUser, does |-> "keep",
            late |-> cookie[b] # NoToken /\ ~SignedIn(cookie[b])]]
    /\ UNCHANGED <<accounts, sessions, cookie, failures>>

\* Faulty variants, for the sensitivity of the properties: no unique index on
\* the email; a password that is not verified; a cookie that every refusal clears.
NoEmailIndex(e) == FALSE
AnyPassword(u, q) == accounts[u].email = request[q].email
ClearsOnFailure == {"register", "login", "logout", "private"}

EmailTaken(e) == \E u \in Users : Known(u) /\ accounts[u].email = e
Verified(u, q) ==
    accounts[u].email = request[q].email /\ accounts[u].secret = request[q].by
ActiveSession(t) == sessions[t].state = "live"

\* The operations whose reply clears the cookie when a store call failed: a
\* failed Revoke is ignored, a failed lookup leaves the cookie alone.
ClearsCookie == {"logout"}

-----------------------------------------------------------------------------
(* Register and Login                                                      *)

CreateAccount(q) ==
    /\ At(q, "register", "sent")
    /\ IF EmailTaken(request[q].email)
       THEN Replies(q, "keep") /\ UNCHANGED accounts
       ELSE \E u \in Users :
                /\ accounts[u].state = "new"
                /\ accounts' = [accounts EXCEPT ![u] =
                       [state |-> "active", email |-> request[q].email,
                        secret |-> request[q].by]]
                /\ GoesToWith(q, "issue", u)
    /\ UNCHANGED <<sessions, cookie, failures>>

FindAccount(q) ==
    /\ At(q, "login", "sent")
    /\ \/ \E u \in Users : /\ accounts[u].state = "active" /\ Verified(u, q)
                           /\ GoesToWith(q, "issue", u)
       \/ /\ ~\E u \in Users : accounts[u].state = "active" /\ Verified(u, q)
          /\ Replies(q, "keep")
    /\ UNCHANGED <<accounts, sessions, cookie, failures>>

IssueSession(q) ==
    /\ request[q].at = "issue"
    /\ \E t \in Tokens :
           /\ sessions[t].state = "new"
           /\ sessions' = [sessions EXCEPT ![t] =
                               [state |-> "live", user |-> request[q].user]]
           /\ request' = [request EXCEPT ![q].at = "reply", ![q].does = "set",
                                         ![q].token = t]
    /\ UNCHANGED <<accounts, cookie, failures>>

-----------------------------------------------------------------------------
(* Logout, and the session a private request presents                      *)

RevokeSession(q) ==
    /\ At(q, "logout", "sent")
    /\ LET t == request[q].token IN
           sessions' = IF t # NoToken /\ sessions[t].state \in {"live", "expired"}
                       THEN [sessions EXCEPT ![t].state = "revoked"]
                       ELSE sessions
    /\ Replies(q, "clear")
    /\ UNCHANGED <<accounts, cookie, failures>>

ReadSession(q) ==
    /\ At(q, "private", "sent")
    /\ IF ActiveSession(request[q].token)
       THEN GoesToWith(q, "user", sessions[request[q].token].user)
       ELSE Replies(q, "clear")
    /\ UNCHANGED <<accounts, sessions, cookie, failures>>

ReadUser(q) ==
    /\ request[q].at = "user"
    /\ IF accounts[request[q].user].state = "active"
       THEN GoesTo(q, "serve")
       ELSE Replies(q, "keep")
    /\ UNCHANGED <<accounts, sessions, cookie, failures>>

\* The handler behind RequireAuth runs as the user it was given.
Serve(q) ==
    /\ request[q].at = "serve"
    /\ Replies(q, "keep")
    /\ UNCHANGED <<accounts, sessions, cookie, failures>>

-----------------------------------------------------------------------------
(* Replies, failures and the world outside                                 *)

Reply(q) ==
    /\ request[q].at = "reply"
    /\ cookie' = [cookie EXCEPT ![request[q].by] =
                      CASE request[q].does = "keep"  -> @
                        [] request[q].does = "set"   -> request[q].token
                        [] request[q].does = "clear" -> NoToken]
    /\ request' = [request EXCEPT ![q] = Waiting]
    /\ UNCHANGED <<accounts, sessions, failures>>

ReplyLost(q) ==
    /\ request[q].at = "reply"
    /\ request' = [request EXCEPT ![q] = Waiting]
    /\ UNCHANGED <<accounts, sessions, cookie, failures>>

\* A store call without effect; one whose effect stays but whose confirmation
\* is lost ends like a call that succeeds before the next one fails.
AuthStoreFails(q) ==
    /\ request[q].at \in {"sent", "issue", "user"}
    /\ failures < MaxFailures
    /\ failures' = failures + 1
    /\ Replies(q, IF request[q].op \in ClearsCookie THEN "clear" ELSE "keep")
    /\ UNCHANGED <<accounts, sessions, cookie>>

SessionExpires(t) ==
    /\ sessions[t].state = "live"
    /\ sessions' = [sessions EXCEPT ![t].state = "expired"]
    /\ UNCHANGED <<accounts, cookie, request, failures>>

\* No code disables an account; an operator does, in the database.
Disable(u) ==
    /\ Durable /\ accounts[u].state = "active"
    /\ accounts' = [accounts EXCEPT ![u].state = "disabled"]
    /\ UNCHANGED <<sessions, cookie, request, failures>>

Restart ==
    /\ request' = [q \in Requests |-> Waiting]
    /\ IF Durable THEN UNCHANGED <<accounts, sessions>>
       ELSE /\ accounts' = [u \in Users |-> IF Known(u)
                                THEN [accounts[u] EXCEPT !.state = "lost"]
                                ELSE accounts[u]]
            /\ sessions' = [t \in Tokens |-> IF sessions[t].state = "new"
                                THEN sessions[t]
                                ELSE [sessions[t] EXCEPT !.state = "lost"]]
    /\ UNCHANGED <<cookie, failures>>

RequestStep(q) ==
    \/ \E b \in Browsers, e \in Emails, op \in {"register", "login"} : Send(q, b, op, e)
    \/ \E b \in Browsers, op \in {"logout", "private"} :
           Send(q, b, op, CHOOSE e \in Emails : TRUE)
    \/ CreateAccount(q) \/ FindAccount(q) \/ IssueSession(q)
    \/ RevokeSession(q) \/ ReadSession(q) \/ ReadUser(q) \/ Serve(q)
    \/ Reply(q) \/ ReplyLost(q) \/ AuthStoreFails(q)

AuthNext ==
    \/ \E q \in Requests : RequestStep(q)
    \/ \E t \in Tokens : SessionExpires(t)
    \/ \E u \in Users : Disable(u)
    \/ Restart

AuthSpec == AuthInit /\ [][AuthNext]_authVars

-----------------------------------------------------------------------------
(* Properties                                                              *)

Account == [state : {"new"}] \cup
           [state : AccountStates \ {"new"}, email : Emails, secret : Browsers]
Session == [state : {"new"}] \cup [state : SessionStates \ {"new"}, user : Users]
UnderWay ==
    [at : {"sent", "issue", "user", "serve", "reply"},
     op : {"register", "login", "logout", "private"},
     by : Browsers, email : Emails, token : Tokens \cup {NoToken},
     user : Users \cup {NoUser}, does : {"keep", "set", "clear"}, late : BOOLEAN]

\* The shape of the state; and a request has its account and its token before
\* the step that needs them (store.go, mysql_store.go, Service.issueSession).
AuthTypeOK ==
    /\ accounts \in [Users -> Account]
    /\ sessions \in [Tokens -> Session]
    /\ cookie \in [Browsers -> Tokens \cup {NoToken}]
    /\ request \in [Requests -> {Waiting} \cup UnderWay]
    /\ \A q \in Requests : request[q] # Waiting =>
           /\ request[q].at \in {"issue", "user", "serve"} => request[q].user \in Users
           /\ request[q].at = "issue" => request[q].op \in {"register", "login"}
           /\ request[q].at \in {"user", "serve"} => request[q].op = "private"
           /\ request[q].op = "private" \/ request[q].does = "set" =>
                  request[q].token \in Tokens
    /\ failures \in 0 .. MaxFailures

\* However registrations overlap, fail half-way and are repeated, an email has
\* one account, and what Login finds for it is that account
\* (MySQLUserStore.Create, MemoryUserStore.Create).
OneAccountPerEmail ==
    \A u, v \in Users :
        Known(u) /\ Known(v) /\ accounts[u].email = accounts[v].email => u = v

\* A request runs as the account of the person who sent it, and only if its
\* session had not been revoked or expired, nor its account disabled, before it
\* was sent: tokens in cookies, in requests under way and in replies never cross
\* over, whatever is lost, delayed or repeated, and only a request already under
\* way outruns the end of its session (Login, issueSession, Authenticate,
\* Session.Active, SetSessionCookie).
ServedRightly ==
    \A q \in Requests :
        request[q].at = "serve" => /\ accounts[request[q].user].secret = request[q].by
                                   /\ ~request[q].late

\* A browser whose cookie holds a live session loses it to nothing but its own
\* logout and the late reply to a request sent with another cookie: a store
\* that fails signs nobody out (Handler.resolve, Handler.Logout).
KeepsSignedIn ==
    [][\A b \in Browsers :
        cookie'[b] = NoToken /\ cookie[b] # NoToken /\ ActiveSession(cookie[b]) =>
            \E q \in Requests :
                /\ request[q].at = "reply" /\ request[q].by = b
                /\ request'[q] = Waiting
                /\ request[q].op = "logout" \/ request[q].token # cookie[b]]_authVars

=============================================================================
