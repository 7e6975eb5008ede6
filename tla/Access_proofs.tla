---------------------------- MODULE Access_proofs ----------------------------
(***************************************************************************)
(* Who may do what and how often, for any number of persons, accounts,     *)
(* tokens, requests under way and viewers and any limits.  An email has    *)
(* one account, a request runs as the account of the person who sent it,   *)
(* and nothing but a logout or a late reply takes a live session from a    *)
(* browser (Auth); the calls a client may make in a window (RateLimiter);  *)
(* the views counted of a public plan (PublicViews).                       *)
(***************************************************************************)
EXTENDS Auth, RateLimiter, PublicViews, FiniteSetTheorems, TLAPS

-----------------------------------------------------------------------------
(* Accounts and sessions                                                   *)

\* What the parts of a request under way are.
LEMMA UnderWayParts ==
    ASSUME AuthTypeOK, NEW q \in Requests, request[q] # Waiting
    PROVE  /\ request[q] \in UnderWay
           /\ request[q].by \in Browsers /\ request[q].email \in Emails
           /\ request[q].token \in Tokens \cup {NoToken}
           /\ request[q].user \in Users \cup {NoUser}
           /\ request[q].late \in BOOLEAN
  BY DEF AuthTypeOK, UnderWay

LEMMA SteppingIsUnderWay ==
    ASSUME NEW q \in Requests, request[q].at # "idle"
    PROVE  request[q] # Waiting
  BY DEF Waiting

\* A step of an account or a session keeps what it belongs to, and neither is
\* made active again.
AccountsGrow ==
    \A u \in Users : accounts[u].state # "new" =>
        /\ accounts'[u].state # "new"
        /\ accounts'[u].secret = accounts[u].secret
        /\ accounts'[u].email = accounts[u].email
        /\ accounts'[u].state = "active" => accounts[u].state = "active"
SessionsGrow ==
    \A t \in Tokens : sessions[t].state # "new" =>
        /\ sessions'[t].state # "new"
        /\ sessions'[t].user = sessions[t].user
        /\ sessions'[t].state = "live" => sessions[t].state = "live"

LEMMA AccountsStep ==
    ASSUME AuthAssumption, AuthTypeOK, [AuthNext]_authVars
    PROVE  accounts' \in [Users -> Account] /\ AccountsGrow
<1>1. CASE accounts' = accounts
  BY <1>1 DEF AuthTypeOK, AccountsGrow
<1>2. ASSUME NEW q \in Requests, CreateAccount(q), accounts' # accounts
      PROVE  accounts' \in [Users -> Account] /\ AccountsGrow
  <2> DEFINE a == [state |-> "active", email |-> request[q].email, secret |-> request[q].by]
  <2>1. PICK u \in Users : accounts[u].state = "new" /\ accounts' = [accounts EXCEPT ![u] = a]
    BY <1>2 DEF CreateAccount
  <2>2. request[q] # Waiting
    BY <1>2 DEF CreateAccount, At, Waiting
  <2>3. a \in Account
    BY <2>2, UnderWayParts DEF Account, AccountStates
  <2> HIDE DEF a
  <2> QED
    BY <2>1, <2>3 DEF AuthTypeOK, AccountsGrow
<1>3. ASSUME NEW u \in Users, Disable(u)
      PROVE  accounts' \in [Users -> Account] /\ AccountsGrow
  <2> DEFINE a == [accounts[u] EXCEPT !.state = "disabled"]
  <2>1. accounts[u].state = "active" /\ accounts' = [accounts EXCEPT ![u] = a]
    BY <1>3 DEF Disable
  <2>2. /\ a \in Account /\ a.state = "disabled"
        /\ a.email = accounts[u].email /\ a.secret = accounts[u].secret
    BY <2>1 DEF AuthTypeOK, Account, AccountStates
  <2> HIDE DEF a
  <2> QED
    BY <2>1, <2>2 DEF AuthTypeOK, AccountsGrow
<1>4. ASSUME Restart, accounts' # accounts
      PROVE  accounts' \in [Users -> Account] /\ AccountsGrow
  <2>1. accounts' = [u \in Users |-> IF Known(u) THEN [accounts[u] EXCEPT !.state = "lost"]
                                                 ELSE accounts[u]]
    BY <1>4 DEF Restart
  <2>2. ASSUME NEW u \in Users
        PROVE  /\ accounts'[u] \in Account
               /\ accounts[u].state # "new" =>
                    /\ accounts'[u].state # "new"
                    /\ accounts'[u].secret = accounts[u].secret
                    /\ accounts'[u].email = accounts[u].email
                    /\ accounts'[u].state = "active" => accounts[u].state = "active"
    <3>1. CASE Known(u)
      BY <2>1, <3>1 DEF Known, AuthTypeOK, Account, AccountStates
    <3>2. CASE ~Known(u)
      BY <2>1, <3>2 DEF AuthTypeOK
    <3> QED
      BY <3>1, <3>2
  <2> QED
    BY <2>1, <2>2 DEF AccountsGrow
<1> QED
  <2>1. ASSUME NEW q \in Requests, RequestStep(q), ~CreateAccount(q)
        PROVE  accounts' = accounts
    BY <2>1 DEF RequestStep, Send, FindAccount, IssueSession, RevokeSession, ReadSession,
                ReadUser, Serve, Reply, ReplyLost, AuthStoreFails
  <2>2. ASSUME NEW t \in Tokens, SessionExpires(t)
        PROVE  accounts' = accounts
    BY <2>2 DEF SessionExpires
  <2>3. UNCHANGED authVars => accounts' = accounts
    BY DEF authVars
  <2> QED
    BY <1>1, <1>2, <1>3, <1>4, <2>1, <2>2, <2>3 DEF AuthNext

LEMMA SessionsStep ==
    ASSUME AuthAssumption, AuthTypeOK, [AuthNext]_authVars
    PROVE  sessions' \in [Tokens -> Session] /\ SessionsGrow
<1>1. CASE sessions' = sessions
  BY <1>1 DEF AuthTypeOK, SessionsGrow
<1>2. ASSUME NEW q \in Requests, IssueSession(q)
      PROVE  sessions' \in [Tokens -> Session] /\ SessionsGrow
  <2> DEFINE s == [state |-> "live", user |-> request[q].user]
  <2>1. PICK t \in Tokens : sessions[t].state = "new" /\ sessions' = [sessions EXCEPT ![t] = s]
    BY <1>2 DEF IssueSession
  <2>2. request[q] # Waiting
    BY <1>2 DEF IssueSession, Waiting
  <2>3. request[q].user \in Users
    BY <1>2, <2>2 DEF IssueSession, AuthTypeOK
  <2>4. s \in Session
    BY <2>3 DEF Session, SessionStates
  <2> HIDE DEF s
  <2> QED
    BY <2>1, <2>4 DEF AuthTypeOK, SessionsGrow
<1>3. ASSUME NEW t \in Tokens, NEW state \in {"expired", "revoked"}, sessions[t].state # "new",
             sessions' = [sessions EXCEPT ![t].state = state]
      PROVE  sessions' \in [Tokens -> Session] /\ SessionsGrow
  <2> DEFINE s == [sessions[t] EXCEPT !.state = state]
  <2>1. sessions' = [sessions EXCEPT ![t] = s]
    BY <1>3
  <2>2. s \in Session /\ s.state = state /\ s.user = sessions[t].user
    BY <1>3 DEF AuthTypeOK, Session, SessionStates
  <2> HIDE DEF s
  <2> QED
    BY <1>3, <2>1, <2>2 DEF AuthTypeOK, SessionsGrow
<1>4. ASSUME NEW q \in Requests, RevokeSession(q)
      PROVE  sessions' \in [Tokens -> Session] /\ SessionsGrow
  <2>1. request[q].token \in Tokens \cup {NoToken}
    BY <1>4, UnderWayParts DEF RevokeSession, At, Waiting
  <2>2. \/ sessions' = sessions
        \/ /\ request[q].token \in Tokens
           /\ sessions[request[q].token].state # "new"
           /\ sessions' = [sessions EXCEPT ![request[q].token].state = "revoked"]
    BY <1>4, <2>1 DEF RevokeSession
  <2> QED
    BY <1>1, <1>3, <2>2
<1>5. ASSUME NEW t \in Tokens, SessionExpires(t)
      PROVE  sessions' \in [Tokens -> Session] /\ SessionsGrow
  BY <1>3, <1>5 DEF SessionExpires
<1>6. ASSUME Restart, sessions' # sessions
      PROVE  sessions' \in [Tokens -> Session] /\ SessionsGrow
  <2>1. sessions' = [t \in Tokens |-> IF sessions[t].state = "new"
                                      THEN sessions[t]
                                      ELSE [sessions[t] EXCEPT !.state = "lost"]]
    BY <1>6 DEF Restart
  <2>2. ASSUME NEW t \in Tokens
        PROVE  /\ sessions'[t] \in Session
               /\ sessions[t].state # "new" =>
                    /\ sessions'[t].state # "new"
                    /\ sessions'[t].user = sessions[t].user
                    /\ sessions'[t].state = "live" => sessions[t].state = "live"
    <3>1. CASE sessions[t].state = "new"
      BY <2>1, <3>1 DEF AuthTypeOK
    <3>2. CASE sessions[t].state # "new"
      BY <2>1, <3>2 DEF AuthTypeOK, Session, SessionStates
    <3> QED
      BY <3>1, <3>2
  <2> QED
    BY <2>1, <2>2 DEF SessionsGrow
<1> QED
  <2>1. ASSUME NEW q \in Requests, RequestStep(q), ~IssueSession(q), ~RevokeSession(q)
        PROVE  sessions' = sessions
    BY <2>1 DEF RequestStep, Send, CreateAccount, FindAccount, ReadSession,
                ReadUser, Serve, Reply, ReplyLost, AuthStoreFails
  <2>2. ASSUME NEW u \in Users, Disable(u)
        PROVE  sessions' = sessions
    BY <2>2 DEF Disable
  <2>3. UNCHANGED authVars => sessions' = sessions
    BY DEF authVars
  <2> QED
    BY <1>1, <1>2, <1>4, <1>5, <1>6, <2>1, <2>2, <2>3 DEF AuthNext

-----------------------------------------------------------------------------
(* The inductive invariant                                                 *)

\* Token t is of a session of an account of person b.
Owns(b, t) ==
    t \in Tokens => /\ sessions[t].state # "new"
                    /\ accounts[sessions[t].user].state # "new"
                    /\ accounts[sessions[t].user].secret = b

\* A request has what its step needs: the shape part of the invariant.
Fits(r) ==
    r # Waiting =>
        /\ r.at \in {"issue", "user", "serve"} => r.user \in Users
        /\ r.at = "issue" => r.op \in {"register", "login"}
        /\ r.at \in {"user", "serve"} => r.op = "private"
        /\ r.op = "private" \/ r.does = "set" => r.token \in Tokens

\* Its token and its account are its sender's; sent without a session that was
\* good, it will not find one; and a refusal clears only a cookie that is dead.
Rightful(r) ==
    r # Waiting =>
        /\ Owns(r.by, r.token)
        /\ r.at \in {"issue", "user", "serve"} =>
              accounts[r.user].state # "new" /\ accounts[r.user].secret = r.by
        /\ r.op = "private" /\ r.late =>
              /\ r.at = "sent" => ~SignedIn(r.token)
              /\ r.at = "user" => accounts[r.user].state # "active"
              /\ r.at # "serve"
        /\ r.at = "reply" /\ r.does = "clear" /\ r.op # "logout" =>
              r.op = "private" /\ ~ActiveSession(r.token)

AuthInv ==
    /\ AuthTypeOK
    /\ \A b \in Browsers : Owns(b, cookie[b])
    /\ \A q \in Requests : Rightful(request[q])

\* The invariant says what it says of a token for as long as accounts and
\* sessions only grow.
LEMMA OwnsStays ==
    ASSUME AuthTypeOK, AccountsGrow, SessionsGrow, NEW b, NEW t, Owns(b, t)
    PROVE  Owns(b, t)'
<1> SUFFICES ASSUME t \in Tokens PROVE Owns(b, t)'
  BY DEF Owns
<1>1. sessions[t].user \in Users
  BY DEF Owns, AuthTypeOK, Session
<1>2. sessions'[t].state # "new" /\ sessions'[t].user = sessions[t].user
  BY DEF Owns, SessionsGrow
<1> QED
  BY <1>1, <1>2 DEF Owns, AccountsGrow

LEMMA RightfulStays ==
    ASSUME AuthTypeOK, AccountsGrow, SessionsGrow,
           NEW r \in {Waiting} \cup UnderWay, Fits(r), Rightful(r)
    PROVE  Rightful(r)'
<1> SUFFICES ASSUME r # Waiting PROVE Rightful(r)'
  BY DEF Rightful
<1>1. Owns(r.by, r.token)'
  BY OwnsStays DEF Rightful
<1>2. r.at \in {"issue", "user", "serve"} =>
          /\ r.user \in Users
          /\ accounts'[r.user].state # "new" /\ accounts'[r.user].secret = r.by
          /\ accounts'[r.user].state = "active" => accounts[r.user].state = "active"
  BY DEF Rightful, Fits, AccountsGrow
<1>3. ASSUME r.op = "private"
      PROVE  /\ SignedIn(r.token)' => SignedIn(r.token)
             /\ ActiveSession(r.token)' => ActiveSession(r.token)
  <2>1. r.token \in Tokens
    BY <1>3 DEF Fits
  <2>2. /\ sessions[r.token].state # "new"
        /\ sessions[r.token].user \in Users
        /\ accounts[sessions[r.token].user].state # "new"
    BY <2>1 DEF Rightful, Owns, AuthTypeOK, Session
  <2> QED
    BY <2>1, <2>2 DEF AccountsGrow, SessionsGrow, SignedIn, ActiveSession
<1> QED
  BY <1>1, <1>2, <1>3 DEF Rightful

\* A step of a request: what the request becomes.
Becomes(q, r) ==
    /\ r \in {Waiting} \cup UnderWay
    /\ request' = [request EXCEPT ![q] = r]
    /\ Fits(r) /\ Rightful(r)'

LEMMA SendStep ==
    ASSUME AuthAssumption, AuthInv, NEW q \in Requests, NEW b \in Browsers, NEW e \in Emails,
           NEW op \in {"register", "login", "logout", "private"}, Send(q, b, op, e)
    PROVE  \E r : Becomes(q, r)
<1>1. PICK r :
          r = [at |-> "sent", op |-> op, by |-> b, email |-> e, token |-> cookie[b],
               user |-> NoUser, does |-> "keep",
               late |-> cookie[b] # NoToken /\ ~SignedIn(cookie[b])]
  OBVIOUS
<1>2. /\ request' = [request EXCEPT ![q] = r]
      /\ op = "private" => cookie[b] # NoToken
      /\ UNCHANGED <<accounts, sessions>>
  BY <1>1 DEF Send
<1>3. cookie[b] \in Tokens \cup {NoToken} /\ Owns(b, cookie[b])
  BY DEF AuthInv, AuthTypeOK
<1>4. r \in UnderWay
  <2>1. (cookie[b] # NoToken /\ ~SignedIn(cookie[b])) \in BOOLEAN
    OBVIOUS
  <2> QED
    BY <1>1, <1>3, <2>1 DEF UnderWay
<1>5. Fits(r)
  BY <1>1, <1>2, <1>3 DEF Fits
<1>6. Rightful(r)
  BY <1>1, <1>3 DEF Rightful
<1>7. Rightful(r)'
  BY <1>2, <1>6 DEF Rightful, Owns, SignedIn, ActiveSession
<1> QED
  BY <1>2, <1>4, <1>5, <1>7 DEF Becomes

\* A reply, but for the replies which clear the cookie on the way of a refusal.
LEMMA RepliesStep ==
    ASSUME AuthInv, NEW q \in Requests, request[q] # Waiting,
           NEW does \in {"keep", "clear"}, Replies(q, does),
           does = "clear" => \/ request[q].op = "logout"
                             \/ request[q].op = "private" /\ ~ActiveSession(request[q].token),
           AccountsGrow, SessionsGrow
    PROVE  \E r : Becomes(q, r)
<1>1. PICK r : r = [request[q] EXCEPT !.at = "reply", !.does = does]
  OBVIOUS
<1>2. request' = [request EXCEPT ![q] = r]
  BY <1>1 DEF Replies
<1>3. request[q] \in UnderWay
  BY UnderWayParts DEF AuthInv
<1>4. r \in UnderWay
  BY <1>1, <1>3 DEF UnderWay
<1>5. /\ r.at = "reply" /\ r.does = does /\ r.op = request[q].op /\ r.by = request[q].by
      /\ r.token = request[q].token /\ r.late = request[q].late
  BY <1>1, <1>3 DEF UnderWay
<1>6. Fits(r)
  BY <1>5 DEF Fits, AuthInv, AuthTypeOK
<1>7. Rightful(r)
  BY <1>5 DEF Rightful, AuthInv
<1>8. Rightful(r)'
  BY <1>4, <1>6, <1>7, RightfulStays DEF AuthInv
<1> QED
  BY <1>2, <1>4, <1>6, <1>8 DEF Becomes

\* A step to the next call of the same request, with the account it found.
LEMMA GoesToStep ==
    ASSUME AuthInv, NEW q \in Requests, request[q] # Waiting, NEW u \in Users,
           NEW place \in {"issue", "user", "serve"},
           \/ GoesToWith(q, place, u)
           \/ GoesTo(q, place) /\ request[q].user = u,
           place = "issue" => request[q].op \in {"register", "login"},
           place \in {"user", "serve"} => request[q].op = "private",
           accounts'[u].state # "new" /\ accounts'[u].secret = request[q].by,
           request[q].op = "private" /\ request[q].late =>
               place = "user" /\ accounts'[u].state # "active",
           AccountsGrow, SessionsGrow
    PROVE  \E r : Becomes(q, r)
<1>1. request[q] \in UnderWay
  BY UnderWayParts DEF AuthInv
<1>2. PICK r : r = [request[q] EXCEPT !.at = place, !.user = u]
  OBVIOUS
<1>3. request' = [request EXCEPT ![q] = r]
  <2>1. CASE GoesToWith(q, place, u)
    BY <1>2, <2>1 DEF GoesToWith
  <2>2. CASE GoesTo(q, place) /\ request[q].user = u
    <3>1. [request[q] EXCEPT !.at = place] = r
      BY <1>1, <1>2, <2>2 DEF UnderWay
    <3> QED
      BY <2>2, <3>1 DEF GoesTo
  <2> QED
    BY <2>1, <2>2
<1>4. r \in UnderWay
  BY <1>1, <1>2 DEF UnderWay
<1>5. /\ r.at = place /\ r.user = u /\ r.op = request[q].op /\ r.by = request[q].by
      /\ r.token = request[q].token /\ r.late = request[q].late /\ r.does = request[q].does
  BY <1>1, <1>2 DEF UnderWay
<1>6. Fits(r)
  BY <1>5 DEF Fits, AuthInv, AuthTypeOK
<1>7. Owns(r.by, r.token)'
  BY <1>5, OwnsStays DEF Rightful, AuthInv
<1>8. Rightful(r)'
  BY <1>5, <1>7 DEF Rightful
<1> QED
  BY <1>3, <1>4, <1>6, <1>8 DEF Becomes

LEMMA StoreStep ==
    ASSUME AuthAssumption, AuthInv, NEW q \in Requests,
           \/ CreateAccount(q) \/ FindAccount(q) \/ RevokeSession(q) \/ ReadSession(q)
           \/ ReadUser(q) \/ AuthStoreFails(q) \/ Serve(q),
           AccountsGrow, SessionsGrow
    PROVE  \E r : Becomes(q, r)
<1> DEFINE p == request[q]
<1>1. /\ p # Waiting /\ p \in UnderWay
      /\ p.by \in Browsers /\ p.token \in Tokens \cup {NoToken} /\ Rightful(p)
  <2>1. p # Waiting
    BY DEF CreateAccount, FindAccount, RevokeSession, ReadSession, ReadUser,
           AuthStoreFails, Serve, At, Waiting
  <2> QED
    BY <2>1, UnderWayParts DEF AuthInv
<1>2. ASSUME Replies(q, "keep")
      PROVE  \E r : Becomes(q, r)
  BY <1>1, <1>2, RepliesStep
<1>3. CASE CreateAccount(q)
  <2>1. ASSUME NEW u \in Users, accounts[u].state = "new",
               accounts' = [accounts EXCEPT ![u] =
                   [state |-> "active", email |-> p.email, secret |-> p.by]],
               GoesToWith(q, "issue", u)
        PROVE  \E r : Becomes(q, r)
    <3>1. accounts'[u].state # "new" /\ accounts'[u].secret = p.by
      BY <2>1 DEF AuthInv, AuthTypeOK
    <3>2. p.op = "register"
      BY <1>3 DEF CreateAccount, At
    <3> QED
      BY <1>1, <2>1, <3>1, <3>2, GoesToStep
  <2> QED
    BY <1>2, <1>3, <2>1 DEF CreateAccount
<1>4. CASE FindAccount(q)
  <2>1. ASSUME NEW u \in Users, accounts[u].state = "active", Verified(u, q),
               GoesToWith(q, "issue", u)
        PROVE  \E r : Becomes(q, r)
    <3>1. accounts'[u].state # "new" /\ accounts'[u].secret = p.by
      BY <1>4, <2>1 DEF FindAccount, Verified
    <3>2. p.op = "login"
      BY <1>4 DEF FindAccount, At
    <3> QED
      BY <1>1, <2>1, <3>1, <3>2, GoesToStep
  <2> QED
    BY <1>2, <1>4, <2>1 DEF FindAccount
<1>5. CASE RevokeSession(q)
  BY <1>1, <1>5, RepliesStep DEF RevokeSession, At
<1>6. CASE ReadSession(q)
  <2>1. p.op = "private" /\ p.at = "sent" /\ p.token \in Tokens
    BY <1>1, <1>6 DEF ReadSession, At, AuthInv, AuthTypeOK
  <2>2. CASE ActiveSession(p.token)
    <3> DEFINE u == sessions[p.token].user
    <3>1. u \in Users /\ accounts[u].state # "new" /\ accounts[u].secret = p.by
      BY <1>1, <2>1 DEF Rightful, Owns, AuthInv, AuthTypeOK, Session
    <3>2. p.late => accounts[u].state # "active"
      BY <1>1, <2>1, <2>2 DEF Rightful, SignedIn, ActiveSession
    <3>3. GoesToWith(q, "user", u) /\ accounts' = accounts
      BY <1>6, <2>2 DEF ReadSession
    <3> HIDE DEF u
    <3> QED
      BY <1>1, <2>1, <3>1, <3>2, <3>3, GoesToStep
  <2>3. CASE ~ActiveSession(p.token)
    BY <1>1, <1>6, <2>1, <2>3, RepliesStep DEF ReadSession
  <2> QED
    BY <2>2, <2>3
<1>7. CASE ReadUser(q)
  <2>1. p.at = "user" /\ p.op = "private" /\ p.user \in Users
    BY <1>1, <1>7 DEF ReadUser, AuthInv, AuthTypeOK
  <2>2. CASE accounts[p.user].state = "active"
    <3>1. GoesTo(q, "serve") /\ accounts' = accounts
      BY <1>7, <2>2 DEF ReadUser
    <3>2. accounts[p.user].secret = p.by /\ ~p.late
      BY <1>1, <2>1, <2>2 DEF Rightful
    <3> QED
      BY <1>1, <2>1, <2>2, <3>1, <3>2, GoesToStep
  <2>3. CASE accounts[p.user].state # "active"
    BY <1>2, <1>7, <2>3 DEF ReadUser
  <2> QED
    BY <2>2, <2>3
<1>8. CASE AuthStoreFails(q)
  BY <1>1, <1>8, RepliesStep DEF AuthStoreFails, ClearsCookie
<1>9. CASE Serve(q)
  BY <1>2, <1>9 DEF Serve
<1> QED
  BY <1>3, <1>4, <1>5, <1>6, <1>7, <1>8, <1>9

LEMMA IssueStep ==
    ASSUME AuthInv, NEW q \in Requests, IssueSession(q), AccountsGrow, SessionsGrow
    PROVE  \E r : Becomes(q, r)
<1>1. /\ request[q] # Waiting /\ request[q] \in UnderWay /\ Rightful(request[q])
      /\ request[q].user \in Users /\ request[q].op \in {"register", "login"}
  <2>1. request[q] # Waiting
    BY DEF IssueSession, Waiting
  <2> QED
    BY <2>1, UnderWayParts DEF IssueSession, AuthInv, AuthTypeOK
<1>2. PICK t \in Tokens :
          /\ sessions' = [sessions EXCEPT ![t] = [state |-> "live", user |-> request[q].user]]
          /\ request' = [request EXCEPT ![q].at = "reply", ![q].does = "set", ![q].token = t]
          /\ accounts' = accounts
  BY DEF IssueSession
<1>3. PICK r : r = [request[q] EXCEPT !.at = "reply", !.does = "set", !.token = t]
  OBVIOUS
<1>4. request' = [request EXCEPT ![q] = r]
  BY <1>2, <1>3
<1>5. r \in UnderWay
  BY <1>1, <1>3 DEF UnderWay
<1>6. /\ r.at = "reply" /\ r.does = "set" /\ r.token = t
      /\ r.op = request[q].op /\ r.by = request[q].by
  BY <1>1, <1>3 DEF UnderWay
<1>7. Fits(r)
  BY <1>1, <1>6 DEF Fits
<1>8. sessions'[t].state = "live" /\ sessions'[t].user = request[q].user
  BY <1>2 DEF AuthInv, AuthTypeOK
<1>9. /\ accounts'[request[q].user].state # "new"
      /\ accounts'[request[q].user].secret = request[q].by
  BY <1>1, <1>2 DEF Rightful, IssueSession
<1>10. Owns(r.by, r.token)'
  BY <1>6, <1>8, <1>9 DEF Owns
<1>11. Rightful(r)'
  BY <1>1, <1>6, <1>10 DEF Rightful
<1> QED
  BY <1>4, <1>5, <1>7, <1>11 DEF Becomes

LEMMA ReplyStep ==
    ASSUME AuthInv, NEW q \in Requests, Reply(q) \/ ReplyLost(q)
    PROVE  Becomes(q, Waiting)
  BY DEF Reply, ReplyLost, Becomes, Fits, Rightful

LEMMA RequestsStep ==
    ASSUME AuthAssumption, AuthInv, NEW q \in Requests, RequestStep(q)
    PROVE  \E r : Becomes(q, r)
<1>1. AccountsGrow /\ SessionsGrow
  BY AccountsStep, SessionsStep DEF AuthInv, AuthNext
<1>2. (CHOOSE e \in Emails : TRUE) \in Emails
  BY DEF AuthAssumption
<1>3. ASSUME NEW b \in Browsers, NEW e \in Emails,
             NEW op \in {"register", "login", "logout", "private"}, Send(q, b, op, e)
      PROVE  \E r : Becomes(q, r)
  BY <1>3, SendStep
<1> QED
  BY <1>1, <1>2, <1>3, StoreStep, IssueStep, ReplyStep DEF RequestStep

LEMMA CookiesStep ==
    ASSUME AuthAssumption, AuthInv, [AuthNext]_authVars
    PROVE  /\ cookie' \in [Browsers -> Tokens \cup {NoToken}]
           /\ \A b \in Browsers : Owns(b, cookie[b])'
<1>1. AccountsGrow /\ SessionsGrow
  BY AccountsStep, SessionsStep DEF AuthInv
<1>2. CASE cookie' = cookie
  BY <1>1, <1>2, OwnsStays DEF AuthInv, AuthTypeOK
<1>3. ASSUME NEW q \in Requests, Reply(q)
      PROVE  /\ cookie' \in [Browsers -> Tokens \cup {NoToken}]
             /\ \A b \in Browsers : Owns(b, cookie[b])'
  <2>1. request[q] # Waiting
    BY <1>3 DEF Reply, Waiting
  <2>2. /\ request[q].by \in Browsers /\ request[q].token \in Tokens \cup {NoToken}
        /\ request[q].does \in {"keep", "set", "clear"}
        /\ request[q].does = "set" => request[q].token \in Tokens
    BY <2>1, UnderWayParts DEF AuthInv, AuthTypeOK, UnderWay
  <2>3. PICK t : /\ cookie' = [cookie EXCEPT ![request[q].by] = t]
                 /\ t \in {cookie[request[q].by], request[q].token, NoToken}
    BY <1>3, <2>2 DEF Reply
  <2>4. Owns(request[q].by, t)
    BY <2>1, <2>2, <2>3 DEF AuthInv, Rightful, Owns, AuthAssumption
  <2>5. \A b \in Browsers : cookie'[b] = IF b = request[q].by THEN t ELSE cookie[b]
    BY <2>3 DEF AuthInv, AuthTypeOK
  <2>6. \A b \in Browsers : Owns(b, cookie'[b])
    BY <2>4, <2>5 DEF AuthInv
  <2>7. cookie' \in [Browsers -> Tokens \cup {NoToken}]
    BY <2>2, <2>3 DEF AuthInv, AuthTypeOK
  <2>8. accounts' = accounts /\ sessions' = sessions
    BY <1>3 DEF Reply
  <2> QED
    BY <2>6, <2>7, <2>8 DEF Owns
<1> QED
  <2>1. ASSUME NEW q \in Requests, RequestStep(q), ~Reply(q)
        PROVE  cookie' = cookie
    BY <2>1 DEF RequestStep, Send, CreateAccount, FindAccount, IssueSession, RevokeSession,
                ReadSession, ReadUser, Serve, ReplyLost, AuthStoreFails
  <2>2. ASSUME \/ \E t \in Tokens : SessionExpires(t)
               \/ \E u \in Users : Disable(u)
               \/ Restart \/ UNCHANGED authVars
        PROVE  cookie' = cookie
    BY <2>2 DEF SessionExpires, Disable, Restart, authVars
  <2> QED
    BY <1>2, <1>3, <2>1, <2>2 DEF AuthNext

LEMMA AuthInvStep ==
    ASSUME AuthAssumption, AuthInv, [AuthNext]_authVars
    PROVE  AuthInv'
<1>1. AccountsGrow /\ SessionsGrow
  BY AccountsStep, SessionsStep DEF AuthInv
<1>2. /\ accounts' \in [Users -> Account] /\ sessions' \in [Tokens -> Session]
      /\ cookie' \in [Browsers -> Tokens \cup {NoToken}]
      /\ \A b \in Browsers : Owns(b, cookie[b])'
  BY AccountsStep, SessionsStep, CookiesStep DEF AuthInv
<1>3. failures' \in 0 .. MaxFailures
  <2>1. CASE failures' = failures
    BY <2>1 DEF AuthInv, AuthTypeOK
  <2>2. ASSUME NEW q \in Requests, AuthStoreFails(q)
        PROVE  failures' \in 0 .. MaxFailures
    BY <2>2 DEF AuthStoreFails, AuthInv, AuthTypeOK, AuthAssumption
  <2>3. ASSUME NEW q \in Requests, RequestStep(q), ~AuthStoreFails(q)
        PROVE  failures' = failures
    BY <2>3 DEF RequestStep, Send, CreateAccount, FindAccount, IssueSession, RevokeSession,
                ReadSession, ReadUser, Serve, Reply, ReplyLost
  <2>4. ASSUME \/ \E t \in Tokens : SessionExpires(t)
               \/ \E u \in Users : Disable(u)
               \/ Restart \/ UNCHANGED authVars
        PROVE  failures' = failures
    BY <2>4 DEF SessionExpires, Disable, Restart, authVars
  <2> QED
    BY <2>1, <2>2, <2>3, <2>4 DEF AuthNext
<1>4. ASSUME NEW p \in Requests
      PROVE  Fits(request[p])
  BY DEF Fits, AuthInv, AuthTypeOK
<1>5. CASE request' = request
  <2>1. \A p \in Requests : Rightful(request[p])'
    <3>1. ASSUME NEW p \in Requests
          PROVE  Rightful(request[p])'
      <4>1. PICK r : r = request[p]
        OBVIOUS
      <4>2. Rightful(r)'
        BY <1>1, <1>4, <4>1, RightfulStays DEF AuthInv, AuthTypeOK
      <4> QED
        BY <1>5, <4>1, <4>2 DEF Rightful, Owns, SignedIn, ActiveSession
    <3> QED
      BY <3>1
  <2> QED
    BY <1>2, <1>3, <1>5, <2>1 DEF AuthInv, AuthTypeOK
<1>6. ASSUME NEW q \in Requests, RequestStep(q)
      PROVE  AuthInv'
  <2>1. PICK r : Becomes(q, r)
    BY <1>6, RequestsStep
  <2>2. \A p \in Requests : request'[p] = IF p = q THEN r ELSE request[p]
    BY <2>1 DEF Becomes, AuthInv, AuthTypeOK
  <2>3. ASSUME NEW p \in Requests
        PROVE  Rightful(request[p])' /\ Fits(request'[p])
    <3>1. PICK s : s = request'[p]
      OBVIOUS
    <3>2. Rightful(s)' /\ Fits(s)
      <4>1. CASE p = q
        BY <2>1, <2>2, <3>1, <4>1 DEF Becomes
      <4>2. CASE p # q
        <5>1. s = request[p] /\ s \in {Waiting} \cup UnderWay
          BY <2>2, <3>1, <4>2 DEF AuthInv, AuthTypeOK
        <5> QED
          BY <1>1, <1>4, <5>1, RightfulStays DEF AuthInv
      <4> QED
        BY <4>1, <4>2
    <3> QED
      BY <3>1, <3>2 DEF Rightful, Owns, SignedIn, ActiveSession
  <2>4. request' \in [Requests -> {Waiting} \cup UnderWay]
    BY <2>1 DEF Becomes, AuthInv, AuthTypeOK
  <2>5. \A p \in Requests : request'[p] # Waiting =>
           /\ request'[p].at \in {"issue", "user", "serve"} => request'[p].user \in Users
           /\ request'[p].at = "issue" => request'[p].op \in {"register", "login"}
           /\ request'[p].at \in {"user", "serve"} => request'[p].op = "private"
           /\ request'[p].op = "private" \/ request'[p].does = "set" =>
                  request'[p].token \in Tokens
    BY <2>3 DEF Fits
  <2> QED
    BY <1>2, <1>3, <2>3, <2>4, <2>5 DEF AuthInv, AuthTypeOK
<1>7. CASE Restart
  <2>1. \A p \in Requests : request'[p] = Waiting
    BY <1>7 DEF Restart
  <2>2. request' \in [Requests -> {Waiting} \cup UnderWay]
    BY <1>7 DEF Restart
  <2>3. ASSUME NEW p \in Requests
        PROVE  Rightful(request[p])'
    BY <2>1 DEF Rightful
  <2> QED
    BY <1>2, <1>3, <2>1, <2>2, <2>3 DEF AuthInv, AuthTypeOK
<1>8. CASE \/ \E t \in Tokens : SessionExpires(t)
           \/ \E u \in Users : Disable(u)
           \/ UNCHANGED authVars
  BY <1>5, <1>8 DEF SessionExpires, Disable, authVars
<1> QED
  BY <1>6, <1>7, <1>8 DEF AuthNext

LEMMA AuthInvInit == AuthAssumption /\ AuthInit => AuthInv
<1> SUFFICES ASSUME AuthAssumption, AuthInit PROVE AuthInv
  OBVIOUS
<1>1. accounts \in [Users -> Account] /\ sessions \in [Tokens -> Session]
  BY DEF AuthInit, Account, Session
<1>2. /\ request \in [Requests -> {Waiting} \cup UnderWay]
      /\ \A q \in Requests : request[q] = Waiting
  BY DEF AuthInit
<1>3. /\ cookie \in [Browsers -> Tokens \cup {NoToken}]
      /\ \A b \in Browsers : cookie[b] = NoToken
      /\ failures \in 0 .. MaxFailures
  BY DEF AuthInit, AuthAssumption
<1> QED
  BY <1>1, <1>2, <1>3 DEF AuthInv, AuthTypeOK, Owns, Rightful, AuthAssumption

LEMMA AuthInvariant == AuthSpec => []AuthInv
<1>1. AuthInv /\ [AuthNext]_authVars => AuthInv'
  BY AuthInvStep, AuthAssumption
<1>2. AuthInit => AuthInv
  BY AuthInvInit, AuthAssumption
<1> QED
  BY <1>1, <1>2, PTL DEF AuthSpec

-----------------------------------------------------------------------------
(* What it gives                                                           *)

\* The state of accounts, sessions, cookies and requests keeps its shape
\* (MySQLUserStore, MySQLSessionStore and the memory ones).
THEOREM AuthTypeSafety == AuthSpec => []AuthTypeOK
<1>1. AuthInv => AuthTypeOK
  BY DEF AuthInv
<1> QED
  BY <1>1, AuthInvariant, PTL

\* For any number of persons, sessions and requests under way, however they are
\* delayed, repeated, lost or fail: the handler runs as its sender, and never for
\* a request sent without a good session (Service.Authenticate, issueSession).
THEOREM ServesRightly == AuthSpec => []ServedRightly
<1>1. AuthInv => ServedRightly
  <2> SUFFICES ASSUME AuthInv, NEW q \in Requests, request[q].at = "serve"
               PROVE  accounts[request[q].user].secret = request[q].by /\ ~request[q].late
    BY DEF ServedRightly
  <2>1. request[q] # Waiting
    BY DEF Waiting
  <2>2. request[q].op = "private"
    BY <2>1 DEF AuthInv, AuthTypeOK
  <2> QED
    BY <2>1, <2>2 DEF AuthInv, Rightful
<1> QED
  BY <1>1, AuthInvariant, PTL

\* However many registrations race for an email, and whatever fails between the
\* account and its session: it has one account (MySQLUserStore.Create).
THEOREM OneAccount == AuthSpec => []OneAccountPerEmail
<1>1. AuthInit => OneAccountPerEmail
  BY DEF AuthInit, OneAccountPerEmail, Known
<1>2. AuthInv /\ OneAccountPerEmail /\ [AuthNext]_authVars => OneAccountPerEmail'
  <2> SUFFICES ASSUME AuthInv, OneAccountPerEmail, [AuthNext]_authVars
               PROVE  OneAccountPerEmail'
    OBVIOUS
  <2>1. AccountsGrow
    BY AccountsStep, AuthAssumption DEF AuthInv
  <2>2. CASE \A u \in Users : Known(u)' => Known(u)
    <3>1. ASSUME NEW u \in Users, Known(u)'
          PROVE  Known(u) /\ accounts'[u].email = accounts[u].email
      BY <2>1, <2>2, <3>1 DEF AccountsGrow, Known
    <3> QED
      BY <3>1 DEF OneAccountPerEmail
  <2>3. ASSUME NEW q \in Requests, CreateAccount(q), accounts' # accounts
        PROVE  OneAccountPerEmail'
    <3> DEFINE e == request[q].email
    <3>1. PICK u \in Users :
              accounts' = [accounts EXCEPT ![u] =
                  [state |-> "active", email |-> e, secret |-> request[q].by]]
      BY <2>3 DEF CreateAccount
    <3>2. ~EmailTaken(e)
      BY <2>3 DEF CreateAccount
    <3>3. accounts'[u].email = e /\ \A v \in Users \ {u} : accounts'[v] = accounts[v]
      BY <3>1 DEF AuthInv, AuthTypeOK
    <3> HIDE DEF e
    <3>4. ASSUME NEW v \in Users \ {u}, Known(v)'
          PROVE  Known(v) /\ accounts'[v].email = accounts[v].email /\ accounts[v].email # e
      BY <3>2, <3>3, <3>4 DEF Known, EmailTaken
    <3> QED
      BY <3>3, <3>4 DEF OneAccountPerEmail
  <2>4. ASSUME NEW q \in Requests, RequestStep(q), ~CreateAccount(q)
        PROVE  accounts' = accounts
    BY <2>4 DEF RequestStep, Send, FindAccount, IssueSession, RevokeSession, ReadSession,
                ReadUser, Serve, Reply, ReplyLost, AuthStoreFails
  <2>5. CASE accounts' = accounts
    BY <2>2, <2>5 DEF Known
  <2>6. ASSUME NEW u \in Users, Disable(u)
        PROVE  \A v \in Users : Known(v)' => Known(v)
    BY <2>6 DEF Disable, Known, AuthInv, AuthTypeOK
  <2>7. CASE Restart
    <3>1. ASSUME NEW v \in Users, Known(v)'
          PROVE  Known(v)
      BY <2>7, <3>1 DEF Restart, Known, AuthInv, AuthTypeOK
    <3> QED
      BY <2>2, <3>1
  <2>8. CASE (\E t \in Tokens : SessionExpires(t)) \/ UNCHANGED authVars
    BY <2>5, <2>8 DEF SessionExpires, authVars
  <2> QED
    BY <2>2, <2>3, <2>4, <2>5, <2>6, <2>7, <2>8 DEF AuthNext
<1> QED
  BY <1>1, <1>2, AuthInvariant, PTL DEF AuthSpec

\* No failure of a store, no race with a restart and no reply but that of a
\* logout or of a request sent with another cookie signs a browser out
\* (Handler.resolve, Handler.Logout).
THEOREM StaysSignedIn == AuthSpec => KeepsSignedIn
<1> DEFINE Kept(b) ==
       cookie'[b] = NoToken /\ cookie[b] # NoToken /\ ActiveSession(cookie[b]) =>
           \E q \in Requests :
               /\ request[q].at = "reply" /\ request[q].by = b
               /\ request'[q] = Waiting
               /\ request[q].op = "logout" \/ request[q].token # cookie[b]
<1>1. AuthInv /\ [AuthNext]_authVars => [\A b \in Browsers : Kept(b)]_authVars
  <2> SUFFICES ASSUME AuthInv, AuthNext, NEW b \in Browsers,
                      cookie'[b] = NoToken, cookie[b] # NoToken, ActiveSession(cookie[b])
               PROVE  \E q \in Requests :
                          /\ request[q].at = "reply" /\ request[q].by = b
                          /\ request'[q] = Waiting
                          /\ request[q].op = "logout" \/ request[q].token # cookie[b]
    BY DEF Kept
  <2>1. ASSUME NEW q \in Requests, RequestStep(q), ~Reply(q)
        PROVE  cookie' = cookie
    BY <2>1 DEF RequestStep, Send, CreateAccount, FindAccount, IssueSession, RevokeSession,
                ReadSession, ReadUser, Serve, ReplyLost, AuthStoreFails
  <2>2. PICK q \in Requests : Reply(q)
    BY <2>1 DEF AuthNext, SessionExpires, Disable, Restart
  <2>3. request[q] # Waiting /\ request[q].at = "reply"
    BY <2>2 DEF Reply, Waiting
  <2>4. request'[q] = Waiting
    BY <2>2 DEF Reply, AuthInv, AuthTypeOK
  <2>5. request[q].by = b
    BY <2>2, <2>3, UnderWayParts DEF Reply, AuthInv, AuthTypeOK
  <2>6. request[q].does = "clear"
    <3>1. request[q].does = "set" => request[q].token # NoToken
      BY <2>3, AuthAssumption DEF AuthInv, AuthTypeOK, AuthAssumption
    <3>2. request[q].does \in {"keep", "set", "clear"}
      BY <2>3, UnderWayParts DEF AuthInv, UnderWay
    <3> QED
      BY <2>2, <2>5, <3>1, <3>2 DEF Reply, AuthInv, AuthTypeOK
  <2>7. request[q].op = "logout" \/ ~ActiveSession(request[q].token)
    BY <2>3, <2>6 DEF AuthInv, Rightful
  <2> QED
    BY <2>3, <2>4, <2>5, <2>7
<1> QED
  BY <1>1, AuthInvariant, PTL DEF AuthSpec, KeepsSignedIn

-----------------------------------------------------------------------------
(* The rate limiter of a client                                            *)

\* The calls admitted in the bucket, and the first of them.
InBucket == IF count <= Limit THEN count ELSE Limit
BucketStart == admitted[Len(admitted) - InBucket + 1]

\* Calls are admitted in the order of time.
InOrderOfTime ==
    /\ \A i, j \in 1 .. Len(admitted) : i <= j => admitted[i] <= admitted[j]
    /\ \A i \in 1 .. Len(admitted) : admitted[i] <= rateClock

\* The bucket holds the last calls admitted.  It ends a window after its start,
\* later only if the EXPIRE was in trouble; and a call that was admitted Limit
\* calls before it is from a bucket that began a window before it.
BucketFits ==
    /\ count = 0 => admitted = <<>> /\ expiresAt = 0
    /\ expiring => expiresAt = Never
    /\ limiterKind = "memory" => expiresAt # Never
    /\ count > 0 =>
         /\ InBucket <= Len(admitted)
         /\ expiresAt # Never => BucketStart + Window <= expiresAt + Stale
         /\ \A i \in 1 .. Len(admitted) - InBucket + 1 - Limit :
                admitted[i] + Window <= BucketStart + Stale
         /\ ~expireTrouble =>
              /\ expiresAt = Never => expiring /\ rateClock = BucketStart
              /\ expiresAt # Never => expiresAt <= BucketStart + Window

RateInv == RateTypeOK /\ InOrderOfTime /\ BucketFits /\ BurstBound /\ DeniedMeansBusy

\* A new bucket, begun at the time ended or later: the bucket before it began a
\* window earlier.
LEMMA NewBucketStep ==
    ASSUME RateAssumption, RateInv, TakesPlace(1), denied' = Never,
           count > 0 => expiresAt # Never /\ expiresAt <= rateClock
    PROVE  /\ admitted' = Append(admitted, rateClock)
           /\ InBucket' = 1 /\ BucketStart' = rateClock
           /\ InOrderOfTime' /\ BurstBound' /\ DeniedMeansBusy'
           /\ \A i \in 1 .. Len(admitted') - 1 + 1 - Limit :
                  admitted'[i] + Window <= BucketStart' + Stale
<1> USE DEF RateAssumption, RateInv, RateTypeOK
<1>1. /\ admitted' = Append(admitted, rateClock) /\ denied' = Never
      /\ count' = 1 /\ rateClock' = rateClock
  BY DEF TakesPlace, Within
<1>2. /\ Len(admitted') = Len(admitted) + 1
      /\ \A i \in 1 .. Len(admitted) : admitted'[i] = admitted[i]
      /\ admitted'[Len(admitted')] = rateClock
  BY <1>1
<1>3. InBucket' = 1 /\ BucketStart' = rateClock
  BY <1>1, <1>2 DEF InBucket, BucketStart
<1>4. InOrderOfTime'
  BY <1>1, <1>2 DEF InOrderOfTime
<1>5. ASSUME NEW i \in 1 .. Len(admitted') - Limit
      PROVE  admitted'[i] + Window <= rateClock + Stale
  <2>1. i \in 1 .. Len(admitted) /\ admitted'[i] = admitted[i]
    BY <1>2
  <2>2. count > 0
    BY <2>1 DEF BucketFits
  <2>3. i <= Len(admitted) - InBucket + 1 /\ InBucket \in 1 .. Len(admitted)
    BY <1>2, <2>2 DEF InBucket, BucketFits
  <2>4. admitted[i] <= BucketStart /\ admitted[i] \in Nat /\ BucketStart \in Nat
    BY <2>1, <2>3 DEF InOrderOfTime, BucketStart
  <2>5. BucketStart + Window <= expiresAt + Stale /\ expiresAt \in Nat /\ expiresAt <= rateClock
    BY <2>2 DEF BucketFits
  <2> QED
    BY <2>1, <2>4, <2>5
<1>6. BurstBound'
  <2> SUFFICES ASSUME NEW i \in 1 .. Len(admitted'), i + 2 * Limit <= Len(admitted')
               PROVE  admitted'[i + 2 * Limit] + Stale >= admitted'[i] + Window
    BY DEF BurstBound
  <2>1. /\ i \in Nat \ {0} /\ i + 2 * Limit \in Nat \ {0} /\ i <= i + 2 * Limit
        /\ Len(admitted) \in Nat /\ Len(admitted') = Len(admitted) + 1
        /\ i + 2 * Limit = Len(admitted') => i \in 1 .. Len(admitted') - Limit
    BY <1>2
  <2> DEFINE j == i + 2 * Limit
  <2>2. CASE j <= Len(admitted)
    <3>1. i \in 1 .. Len(admitted) /\ j \in 1 .. Len(admitted)
      BY <2>1, <2>2
    <3>2. admitted[j] + Stale >= admitted[i] + Window
      BY <3>1, <2>2 DEF BurstBound
    <3> QED
      BY <3>1, <3>2, <1>2
  <2>3. CASE j = Len(admitted')
    BY <2>1, <2>3, <1>2, <1>5
  <2>4. j <= Len(admitted) \/ j = Len(admitted')
    BY <2>1
  <2> QED
    BY <2>2, <2>3, <2>4
<1> QED
  BY <1>1, <1>2, <1>3, <1>4, <1>5, <1>6 DEF DeniedMeansBusy

\* A call counted in a bucket that has not ended is admitted while there is
\* room, and moves neither the start of the bucket nor its end.
LEMMA SameBucketStep ==
    ASSUME RateAssumption, RateInv, count > 0, TakesPlace(count + 1),
           denied' = Never \/ (~Within(count + 1) /\ denied' = rateClock),
           expireTrouble' = expireTrouble, expiresAt' = expiresAt,
           expireTrouble \/ expiresAt = Never \/ rateClock <= expiresAt + Stale
    PROVE  /\ InOrderOfTime' /\ BurstBound' /\ DeniedMeansBusy'
           /\ BucketStart' = BucketStart
           /\ InBucket' \in 1 .. Len(admitted')
           /\ Len(admitted') - InBucket' = Len(admitted) - InBucket
           /\ \A i \in 1 .. Len(admitted) : admitted'[i] = admitted[i]
<1> USE DEF RateAssumption, RateInv, RateTypeOK
<1>1. /\ InBucket \in 1 .. Len(admitted) /\ Len(admitted) \in Nat
      /\ \A i \in 1 .. Len(admitted) - InBucket + 1 - Limit :
             admitted[i] + Window <= BucketStart + Stale
      /\ BucketStart \in Nat
  BY DEF BucketFits, InBucket, BucketStart
<1>2. count' = count + 1 /\ rateClock' = rateClock
  BY DEF TakesPlace
<1>3. CASE Within(count + 1)
  <2>1. /\ admitted' = Append(admitted, rateClock) /\ denied' = Never
        /\ InBucket = count /\ InBucket' = count + 1 /\ count + 1 <= Limit
    BY <1>2, <1>3 DEF TakesPlace, Within, InBucket
  <2>2. /\ Len(admitted') = Len(admitted) + 1
        /\ \A i \in 1 .. Len(admitted) : admitted'[i] = admitted[i]
        /\ admitted'[Len(admitted')] = rateClock
    BY <2>1
  <2>a. rateClock \in Nat /\ \A i \in 1 .. Len(admitted) : admitted[i] \in Nat
    OBVIOUS
  <2>b. \A i \in Int : i <= Len(admitted') => i <= Len(admitted) \/ i = Len(admitted')
    <3> HIDE DEF RateAssumption, RateInv, RateTypeOK
    <3> QED
      BY <1>1, <2>2
  <2>3. BucketStart' = BucketStart
    BY <1>1, <2>1, <2>2 DEF BucketStart
  <2>4. InOrderOfTime'
    <3>1. \A i \in 1 .. Len(admitted') : admitted'[i] <= rateClock
      BY <2>2, <2>a, <1>1 DEF InOrderOfTime
    <3>2. ASSUME NEW i \in 1 .. Len(admitted'), NEW j \in 1 .. Len(admitted'), i <= j
          PROVE  admitted'[i] <= admitted'[j]
      <4>1. CASE j = Len(admitted')
        BY <3>1, <4>1, <2>2
      <4>2. CASE j \in 1 .. Len(admitted)
        <5>1. i \in 1 .. Len(admitted)
          BY <3>2, <4>2, <1>1, <2>2
        <5>2. admitted[i] <= admitted[j]
          BY <3>2, <4>2, <5>1 DEF InOrderOfTime
        <5> QED
          BY <4>2, <5>1, <5>2, <2>2
      <4>3. j = Len(admitted') \/ j \in 1 .. Len(admitted)
        BY <2>b
      <4> QED
        BY <4>1, <4>2, <4>3
    <3> QED
      BY <3>1, <3>2, <1>2 DEF InOrderOfTime
  <2>5. BucketStart <= rateClock
    BY <1>1 DEF InOrderOfTime, BucketStart
  <2>6. BurstBound'
    <3> SUFFICES ASSUME NEW i \in 1 .. Len(admitted'), NEW j \in Int,
                        j = i + 2 * Limit, j <= Len(admitted')
                 PROVE  admitted'[j] + Stale >= admitted'[i] + Window
      BY DEF BurstBound
    <3>1. /\ i \in Nat \ {0} /\ j \in Nat \ {0} /\ i <= j
          /\ j = Len(admitted') => i \in 1 .. Len(admitted) - InBucket + 1 - Limit
      BY <1>1, <2>1, <2>2
    <3>2. CASE j <= Len(admitted)
      <4>1. i \in 1 .. Len(admitted) /\ j \in 1 .. Len(admitted)
        BY <3>1, <3>2
      <4>2. admitted[j] + Stale >= admitted[i] + Window
        BY <4>1, <3>2 DEF BurstBound
      <4> QED
        BY <4>1, <4>2, <2>2
    <3>3. CASE j = Len(admitted')
      <4>1. i \in 1 .. Len(admitted) - InBucket + 1 - Limit /\ i \in 1 .. Len(admitted)
        BY <1>1, <3>1, <3>3
      <4>2. admitted[i] + Window <= BucketStart + Stale
        BY <1>1, <4>1, Zenon
      <4>3. admitted[i] \in Nat
        BY <4>1
      <4>4. admitted'[j] = rateClock /\ admitted'[i] = admitted[i]
        BY <2>2, <3>3, <4>1
      <4>5. rateClock + Stale >= admitted[i] + Window
        BY <4>2, <4>3, <1>1, <2>5, <2>a
      <4> QED
        BY <4>4, <4>5
    <3>4. j <= Len(admitted) \/ j = Len(admitted')
      BY <2>b
    <3> QED
      BY <3>2, <3>3, <3>4
  <2> QED
    BY <1>1, <1>2, <2>1, <2>2, <2>3, <2>4, <2>6 DEF DeniedMeansBusy
<1>4. CASE ~Within(count + 1)
  <2>1. /\ admitted' = admitted /\ denied' \in {Never, rateClock}
        /\ InBucket = Limit /\ InBucket' = Limit
    BY <1>2, <1>4 DEF TakesPlace, Within, InBucket
  <2>2. BucketStart' = BucketStart
    BY <2>1 DEF BucketStart
  <2>3. InOrderOfTime' /\ BurstBound'
    BY <1>2, <2>1 DEF InOrderOfTime, BurstBound
  <2>4. BucketStart = admitted[Len(admitted) - Limit + 1]
    BY <2>1 DEF BucketStart
  <2>5. expireTrouble \/ BucketStart + Window + Stale >= rateClock
    <3>1. CASE expiresAt = Never
      BY <3>1, <1>1 DEF BucketFits
    <3>2. CASE expiresAt # Never
      BY <3>2, <1>1 DEF BucketFits
    <3> QED
      BY <3>1, <3>2
  <2>6. DeniedMeansBusy'
    BY <1>1, <2>1, <2>4, <2>5 DEF DeniedMeansBusy
  <2> QED
    BY <1>1, <2>1, <2>2, <2>3, <2>6
<1> QED
  BY <1>3, <1>4

\* The answer of Allow goes with the count.
LEMMA Decided ==
    ASSUME NEW n, Decide(n)
    PROVE  TakesPlace(n) /\ (denied' = Never \/ (~Within(n) /\ denied' = rateClock))
<1>1. TakesPlace(n) /\ denied' = (IF Within(n) THEN Never ELSE rateClock)
  BY Zenon DEF Decide
<1>2. Within(n) => denied' = Never
  BY <1>1, Zenon
<1>3. ~Within(n) => denied' = rateClock
  BY <1>1, Zenon
<1> QED
  BY <1>1, <1>2, <1>3, Zenon

LEMMA RateTypeStep ==
    ASSUME RateAssumption, RateTypeOK, [RateNext]_rateVars
    PROVE  RateTypeOK'
<1> USE DEF RateAssumption, RateTypeOK
<1>1. ASSUME NEW n \in Nat, TakesPlace(n)
      PROVE  /\ limiterKind' = limiterKind /\ rateClock' = rateClock /\ count' \in Nat
             /\ admitted' \in Seq(Nat)
  BY <1>1 DEF TakesPlace, Within
<1>a. ASSUME NEW n \in Nat, Decide(n)
      PROVE  TakesPlace(n) /\ denied' \in Nat \cup {Never} /\ incrFaults' = incrFaults
  BY <1>a DEF Decide, Within
<1>b. Incremented \in Nat /\ Gone \in BOOLEAN
  BY DEF Incremented, Gone
<1>2. CASE MemoryAllow
  <2>1. PICK now \in rateClock - Stale .. rateClock :
            /\ now > 0
            /\ Decide(IF BucketEnded(now) THEN 1 ELSE count + 1)
            /\ expiresAt' = ExpiryKept(now)
    BY <1>2 DEF MemoryAllow
  <2> QED
    BY <1>1, <1>a, <1>2, <2>1 DEF MemoryAllow, ExpiryKept
<1>3. CASE RedisIncr
  BY <1>1, <1>a, <1>b, <1>3 DEF RedisIncr
<1>8. CASE RedisIncrFails
  BY <1>1, <1>b, <1>8 DEF RedisIncrFails
<1>4. CASE RedisExpire
  <2>1. expiresAt' \in Nat
    BY <1>4 DEF RedisExpire
  <2>2. expiring' \in BOOLEAN /\ expireTrouble' \in BOOLEAN
    BY <1>4, Zenon DEF RedisExpire
  <2> QED
    BY <1>4, <2>1, <2>2 DEF RedisExpire
<1>6. CASE RedisExpireLost
  BY <1>6 DEF RedisExpireLost
<1>7. CASE UNCHANGED rateVars
  BY <1>7 DEF rateVars
<1>5. CASE RateTick
  <2>1. expireTrouble' \in BOOLEAN
    BY <1>5, Zenon DEF RateTick
  <2> QED
    BY <1>5, <2>1 DEF RateTick
<1> QED
  BY <1>2, <1>3, <1>4, <1>5, <1>6, <1>7, <1>8 DEF RateNext

\* A call counted in memory: the clock it read may be Stale ticks behind.
LEMMA MemoryStep ==
    ASSUME RateAssumption, RateInv, RateTypeOK', MemoryAllow
    PROVE  RateInv'
<1> RateTypeOK
  BY DEF RateInv
<1> USE DEF RateAssumption, RateTypeOK
<1>1. PICK now \in rateClock - Stale .. rateClock :
          /\ now > 0
          /\ Decide(IF BucketEnded(now) THEN 1 ELSE count + 1)
          /\ expiresAt' = ExpiryKept(now)
  BY DEF MemoryAllow
<1>2. /\ limiterKind = "memory" /\ limiterKind' = "memory" /\ expiresAt \in Nat
      /\ expiring' = expiring /\ ~expiring /\ expireTrouble' = expireTrouble
  BY DEF MemoryAllow, Decide, TakesPlace, RateInv, BucketFits
<1>3. CASE BucketEnded(now)
  <2>a. (IF BucketEnded(now) THEN 1 ELSE count + 1) = 1
    BY <1>3
  <2>b. expiresAt' = now + Window /\ expiresAt <= rateClock
    BY <1>1, <1>2, <1>3 DEF BucketEnded, ExpiryKept
  <2>1. TakesPlace(1) /\ denied' = Never
    <3>1. Decide(1)
      BY <1>1, <2>a, Zenon
    <3> QED
      BY <3>1 DEF Decide, Within
  <2>2. /\ admitted' = Append(admitted, rateClock)
        /\ InBucket' = 1 /\ BucketStart' = rateClock
        /\ InOrderOfTime' /\ BurstBound' /\ DeniedMeansBusy'
        /\ \A i \in 1 .. Len(admitted') - 1 + 1 - Limit :
               admitted'[i] + Window <= BucketStart' + Stale
    BY <1>2, <2>1, <2>b, NewBucketStep
  <2>3. count' = 1 /\ InBucket' <= Len(admitted')
    BY <2>1, <2>2 DEF TakesPlace, RateInv
  <2>4. BucketFits'
    BY <1>1, <1>2, <2>b, <2>2, <2>3 DEF BucketFits
  <2> QED
    BY <2>2, <2>4 DEF RateInv
<1>4. CASE ~BucketEnded(now)
  <2>a. (IF BucketEnded(now) THEN 1 ELSE count + 1) = count + 1
    BY <1>4
  <2>b. expiresAt' = expiresAt /\ rateClock <= expiresAt + Stale
    BY <1>1, <1>2, <1>4 DEF BucketEnded, ExpiryKept
  <2>1. /\ TakesPlace(count + 1)
        /\ denied' = Never \/ (~Within(count + 1) /\ denied' = rateClock)
    <3>1. Decide(count + 1)
      BY <1>1, <2>a, Zenon
    <3> QED
      BY <3>1, Decided, Zenon
  <2>2. count > 0
    BY <1>1, <1>4 DEF BucketEnded, RateInv, BucketFits
  <2>3. /\ InOrderOfTime' /\ BurstBound' /\ DeniedMeansBusy'
        /\ BucketStart' = BucketStart
        /\ InBucket' \in 1 .. Len(admitted')
        /\ Len(admitted') - InBucket' = Len(admitted) - InBucket
        /\ \A i \in 1 .. Len(admitted) : admitted'[i] = admitted[i]
    BY <1>2, <2>1, <2>2, <2>b, SameBucketStep
  <2>4. count' = count + 1
    BY <2>1 DEF TakesPlace
  <2>5. BucketFits'
    <3>1. Len(admitted) - InBucket \in Nat /\ Len(admitted) \in Nat /\ InBucket \in Nat
      BY <2>2 DEF BucketFits, RateInv, InBucket
    <3>2. ASSUME NEW i \in 1 .. Len(admitted') - InBucket' + 1 - Limit
          PROVE  admitted'[i] + Window <= BucketStart' + Stale
      <4>1. Len(admitted') - InBucket' + 1 - Limit = Len(admitted) - InBucket + 1 - Limit
        BY <2>3
      <4>2. i \in 1 .. Len(admitted) - InBucket + 1 - Limit
        BY <4>1
      <4>3. i \in 1 .. Len(admitted)
        BY <4>2, <3>1
      <4> QED
        BY <2>2, <2>3, <4>2, <4>3 DEF BucketFits, RateInv
    <3> QED
      BY <1>2, <2>b, <2>2, <2>3, <2>4, <3>2 DEF BucketFits, RateInv
  <2> QED
    BY <2>3, <2>5 DEF RateInv
<1> QED
  BY <1>3, <1>4

\* A call counted in Redis, whether its caller learns of it or not.
LEMMA IncrStep ==
    ASSUME RateAssumption, RateInv, RateTypeOK', RedisIncr \/ RedisIncrFails,
           TakesPlace(Incremented)
    PROVE  RateInv'
<1> RateTypeOK
  BY DEF RateInv
<1> USE DEF RateAssumption, RateTypeOK
<1>1. /\ limiterKind = "redis"
      /\ expiresAt' = IF Gone THEN Never ELSE expiresAt
      /\ denied' = Never \/ (~Within(Incremented) /\ denied' = rateClock)
  <2>1. CASE RedisIncr
    BY <2>1, Decided, Zenon DEF RedisIncr
  <2>2. CASE RedisIncrFails
    <3>1. CASE UNCHANGED <<limiterKind, rateClock, count, expiresAt, expireTrouble, admitted>>
      <4>1. count' = Incremented /\ count' = count
        BY <3>1 DEF TakesPlace
      <4>2. Gone /\ count = 1 /\ Within(1)
        BY <4>1 DEF Incremented, Within
      <4>3. admitted' = Append(admitted, rateClock)
        BY <4>1, <4>2 DEF TakesPlace
      <4>4. Len(admitted') = Len(admitted) + 1
        BY <4>3
      <4> QED
        BY <3>1, <4>4
    <3>2. /\ limiterKind = "redis" /\ denied' = Never
          /\ \/ expiresAt' = IF Gone THEN Never ELSE expiresAt
             \/ UNCHANGED <<limiterKind, rateClock, count, expiresAt, expireTrouble, admitted>>
      BY <2>2, Zenon DEF RedisIncrFails
    <3> QED
      BY <3>1, <3>2, Zenon
  <2> QED
    BY <2>1, <2>2
<1>2. limiterKind' = "redis" /\ rateClock' = rateClock
  BY <1>1 DEF TakesPlace
<1>3. CASE Gone
  <2>1. TakesPlace(1) /\ denied' = Never /\ Incremented = 1
    BY <1>1, <1>3 DEF Incremented, Within
  <2>2. expiresAt' = Never /\ (expiring' \/ expireTrouble')
    <3>1. RedisIncr => expiring'
      BY <1>3, Zenon DEF RedisIncr
    <3>2. count' = 1 /\ Len(admitted') = Len(admitted) + 1
      BY <2>1 DEF TakesPlace, Within
    <3>3. admitted' # admitted
      BY <3>2
    <3>4. RedisIncrFails => expireTrouble'
      BY <1>3, <3>3, Zenon DEF RedisIncrFails
    <3> QED
      BY <1>1, <1>3, <3>1, <3>4, Zenon
  <2>3. /\ admitted' = Append(admitted, rateClock)
        /\ InBucket' = 1 /\ BucketStart' = rateClock
        /\ InOrderOfTime' /\ BurstBound' /\ DeniedMeansBusy'
        /\ \A i \in 1 .. Len(admitted') - 1 + 1 - Limit :
               admitted'[i] + Window <= BucketStart' + Stale
    BY <1>3, <2>1, NewBucketStep DEF Gone
  <2>4. count' = 1 /\ InBucket' <= Len(admitted')
    BY <2>1, <2>3 DEF TakesPlace
  <2>5. BucketFits'
    BY <1>2, <2>2, <2>3, <2>4 DEF BucketFits
  <2> QED
    BY <2>3, <2>5 DEF RateInv
<1>4. CASE ~Gone
  <2>1. /\ TakesPlace(count + 1)
        /\ denied' = Never \/ (~Within(count + 1) /\ denied' = rateClock)
    BY <1>1, <1>4 DEF Incremented
  <2>2. expiresAt' = expiresAt /\ expiring' = expiring /\ expireTrouble' = expireTrouble
    <3>1. expiresAt' = expiresAt
      BY <1>1, <1>4, Zenon
    <3>2. expiring \in BOOLEAN /\ expireTrouble \in BOOLEAN
      OBVIOUS
    <3>3. expiring' = expiring /\ expireTrouble' = expireTrouble
      BY <1>4, <3>2, Zenon DEF RedisIncr, RedisIncrFails
    <3> QED
      BY <3>1, <3>3
  <2>3. count > 0 /\ (expiresAt = Never \/ rateClock <= expiresAt + Stale)
    BY <1>4 DEF RateInv, BucketFits, Gone
  <2>4. /\ InOrderOfTime' /\ BurstBound' /\ DeniedMeansBusy'
        /\ BucketStart' = BucketStart
        /\ InBucket' \in 1 .. Len(admitted')
        /\ Len(admitted') - InBucket' = Len(admitted) - InBucket
        /\ \A i \in 1 .. Len(admitted) : admitted'[i] = admitted[i]
    BY <2>1, <2>2, <2>3, SameBucketStep
  <2>5. count' = count + 1
    BY <2>1 DEF TakesPlace
  <2>6. BucketFits'
    <3>1. Len(admitted) - InBucket \in Nat /\ Len(admitted) \in Nat /\ InBucket \in Nat
      BY <2>3 DEF BucketFits, RateInv, InBucket
    <3>2. ASSUME NEW i \in 1 .. Len(admitted') - InBucket' + 1 - Limit
          PROVE  admitted'[i] + Window <= BucketStart' + Stale
      <4>1. Len(admitted') - InBucket' + 1 - Limit = Len(admitted) - InBucket + 1 - Limit
        BY <2>4
      <4>2. i \in 1 .. Len(admitted) - InBucket + 1 - Limit
        BY <4>1
      <4>3. i \in 1 .. Len(admitted)
        BY <4>2, <3>1
      <4> QED
        BY <2>3, <2>4, <4>2, <4>3 DEF BucketFits, RateInv
    <3> QED
      BY <1>2, <2>2, <2>3, <2>4, <2>5, <3>2 DEF BucketFits, RateInv
  <2> QED
    BY <2>4, <2>6 DEF RateInv
<1> QED
  BY <1>3, <1>4

\* What counts no call of the client.
LEMMA PauseStep ==
    ASSUME RateAssumption, RateInv, RateTypeOK',
           \/ RedisExpire \/ RedisExpireLost \/ RateTick
           \/ /\ RedisIncrFails
              /\ UNCHANGED <<limiterKind, rateClock, count, expiresAt, expireTrouble, admitted>>
    PROVE  RateInv'
<1> RateTypeOK
  BY DEF RateInv
<1> USE DEF RateAssumption, RateTypeOK
<1>1. /\ limiterKind' = limiterKind /\ count' = count
      /\ admitted' = admitted /\ denied' \in {denied, Never}
  BY DEF RedisExpire, RedisExpireLost, RateTick, RedisIncrFails
<1>2. rateClock' >= rateClock /\ rateClock' \in Nat
  BY DEF RedisExpire, RedisExpireLost, RateTick
<1>3. expireTrouble => expireTrouble'
  BY Zenon DEF RedisExpire, RedisExpireLost, RateTick
<1>4. InBucket' = InBucket /\ BucketStart' = BucketStart
  BY <1>1 DEF InBucket, BucketStart
<1>5. InOrderOfTime'
  <2>1. \A i \in 1 .. Len(admitted) : admitted[i] \in Nat
    OBVIOUS
  <2> QED
    BY <1>1, <1>2, <2>1 DEF RateInv, InOrderOfTime
<1>6. BurstBound'
  BY <1>1 DEF RateInv, BurstBound
<1>7. DeniedMeansBusy'
  <2> DEFINE earned(calls, at) ==
                 /\ Len(calls) >= Limit
                 /\ calls[Len(calls) - Limit + 1] + Window + Stale >= at
  <2>1. denied = Never \/ expireTrouble \/ earned(admitted, denied)
    BY Zenon DEF RateInv, DeniedMeansBusy
  <2>2. denied' = denied /\ earned(admitted, denied) => earned(admitted', denied')
    BY <1>1, Zenon
  <2>3. denied' = Never \/ expireTrouble' \/ earned(admitted', denied')
    <3> HIDE DEF earned
    <3>1. denied' = denied \/ denied' = Never
      BY <1>1
    <3> QED
      BY <1>3, <2>1, <2>2, <3>1, Zenon
  <2> QED
    BY <2>3 DEF DeniedMeansBusy
<1>8. count > 0 => BucketStart \in Nat /\ BucketStart <= rateClock
  <2> SUFFICES ASSUME count > 0 PROVE BucketStart \in Nat /\ BucketStart <= rateClock
    OBVIOUS
  <2>1. /\ InBucket \in 1 .. Len(admitted) /\ Len(admitted) \in Nat
        /\ \A i \in 1 .. Len(admitted) : admitted[i] \in Nat /\ admitted[i] <= rateClock
    BY DEF RateInv, BucketFits, InBucket, InOrderOfTime
  <2>2. Len(admitted) - InBucket + 1 \in 1 .. Len(admitted)
    BY <2>1
  <2> QED
    BY <2>1, <2>2 DEF BucketStart
<1>9. CASE RedisExpire
  <2>1. /\ expiring /\ ~expiring' /\ expiresAt' = rateClock + Window /\ expiresAt' \in Nat
        /\ rateClock' = rateClock /\ expireTrouble' = expireTrouble
    BY <1>9 DEF RedisExpire
  <2>2. count > 0
    BY <2>1 DEF RateInv, BucketFits
  <2>3. BucketFits'
    BY <1>1, <1>2, <1>4, <1>8, <2>1, <2>2 DEF RateInv, BucketFits
  <2> QED
    BY <1>4, <1>5, <1>6, <1>7, <2>3 DEF RateInv
<1>10. CASE RedisExpireLost
  <2>1. expireTrouble' /\ ~expiring' /\ expiresAt' = expiresAt
    BY <1>10 DEF RedisExpireLost
  <2>2. BucketFits'
    BY <1>1, <1>2, <1>4, <2>1 DEF RateInv, BucketFits
  <2> QED
    BY <1>4, <1>5, <1>6, <1>7, <2>2 DEF RateInv
<1>11. CASE RateTick
  <2>1. /\ expiring' = expiring /\ expiresAt' = expiresAt
        /\ ~expireTrouble' => ~expireTrouble /\ ~expiring
    BY <1>11 DEF RateTick
  <2>2. BucketFits'
    BY <1>1, <1>2, <1>4, <2>1 DEF RateInv, BucketFits
  <2> QED
    BY <1>4, <1>5, <1>6, <1>7, <2>2 DEF RateInv
<1>12. CASE /\ RedisIncrFails
            /\ UNCHANGED <<limiterKind, rateClock, count, expiresAt, expireTrouble, admitted>>
  <2>1. /\ expiring' = expiring /\ expiresAt' = expiresAt /\ rateClock' = rateClock
        /\ expireTrouble' = expireTrouble /\ expiring \in BOOLEAN /\ expireTrouble \in BOOLEAN
    BY <1>12, Zenon DEF RedisIncrFails
  <2>2. BucketFits'
    BY <1>1, <1>4, <2>1 DEF RateInv, BucketFits
  <2> QED
    BY <1>4, <1>5, <1>6, <1>7, <2>2 DEF RateInv
<1> QED
  BY <1>9, <1>10, <1>11, <1>12

\* For any limit and window, in memory and in Redis, and whichever commands
\* fail, INCR executed or not: the calls that went on fit the bucket (Allow).
THEOREM RateInvariant == RateSpec => []RateInv
<1>1. RateInit => RateInv
  <2> SUFFICES ASSUME RateInit PROVE RateInv
    OBVIOUS
  <2>1. RateTypeOK
    <3>1. admitted \in Seq(Nat)
      BY DEF RateInit
    <3>2. expiring \in BOOLEAN /\ expireTrouble \in BOOLEAN
      BY Zenon DEF RateInit
    <3> QED
      BY <3>1, <3>2 DEF RateInit, RateTypeOK
  <2>2. InOrderOfTime /\ BurstBound
    BY DEF RateInit, InOrderOfTime, BurstBound
  <2>3. BucketFits /\ DeniedMeansBusy
    BY RateAssumption DEF RateAssumption, RateInit, BucketFits, DeniedMeansBusy
  <2> QED
    BY <2>1, <2>2, <2>3 DEF RateInv
<1>2. RateInv /\ [RateNext]_rateVars => RateInv'
  <2> SUFFICES ASSUME RateInv, [RateNext]_rateVars
               PROVE  RateInv'
    OBVIOUS
  <2>1. RateTypeOK'
    BY RateTypeStep, RateAssumption DEF RateInv
  <2>2. CASE UNCHANGED rateVars
    BY <2>2 DEF rateVars, RateInv, RateTypeOK, InOrderOfTime, BucketFits, BurstBound,
                DeniedMeansBusy, InBucket, BucketStart
  <2>3. CASE RedisIncr
    BY <2>1, <2>3, IncrStep, RateAssumption DEF RedisIncr, Decide
  <2>4. CASE RedisIncrFails
    <3>1. \/ TakesPlace(Incremented)
          \/ UNCHANGED <<limiterKind, rateClock, count, expiresAt, expireTrouble, admitted>>
      BY <2>4 DEF RedisIncrFails
    <3> QED
      BY <2>1, <2>4, <3>1, IncrStep, PauseStep, RateAssumption
  <2> QED
    BY <2>1, <2>2, <2>3, <2>4, MemoryStep, PauseStep, RateAssumption DEF RateNext
<1> QED
  BY <1>1, <1>2, PTL DEF RateSpec

\* Windows may meet, but 2 * Limit calls and one more span one, however late the
\* EXPIRE (Allow of both limiters).
THEOREM BurstsAreBounded == RateSpec => []BurstBound
<1>1. RateInv => BurstBound
  BY DEF RateInv
<1> QED
  BY <1>1, RateInvariant, PTL

\* A client is denied only while Limit of its calls went on within the last
\* window, those let through for a lost reply of INCR among them, unless the
\* EXPIRE of the bucket was late, lost or not sent (Allow, CreateTask).
THEOREM DenialsAreEarned == RateSpec => []DeniedMeansBusy
<1>1. RateInv => DeniedMeansBusy
  BY DEF RateInv
<1> QED
  BY <1>1, RateInvariant, PTL

-----------------------------------------------------------------------------
(* The views of a public plan                                              *)

LEMMA ViewTypeStep ==
    ASSUME ViewAssumption, ViewTypeOK, [ViewNext]_viewVars
    PROVE  ViewTypeOK'
<1> USE DEF ViewAssumption, ViewTypeOK
<1>1. ASSUME NEW r \in Reads, NEW v \in Viewers, OpenView(r, v) \/ SaveCopy(r, v)
      PROVE  ViewTypeOK'
  BY <1>1 DEF OpenView, SaveCopy
<1>2. ASSUME NEW r \in Reads, Allow(r)
      PROVE  ViewTypeOK'
  <2> DEFINE v == read[r].of
             now == IF durable THEN viewClock ELSE read[r].now
             full == ~durable /\ Cardinality({w \in Viewers : seen[w] # 0}) > SeenLimit
  <2>1. v \in Viewers /\ now \in Nat
    BY <1>2 DEF Allow
  <2>2. DropExpired(now) \in [Viewers -> Nat]
    BY DEF DropExpired
  <2>3. (IF full THEN DropExpired(now) ELSE seen) \in [Viewers -> Nat]
    BY <2>2
  <2>4. \/ ReadGoes(r, "idle") /\ seen' = seen /\ lastAllowed' = lastAllowed
        \/ /\ ReadGoes(r, "count")
           /\ seen' = [(IF full THEN DropExpired(now) ELSE seen) EXCEPT ![v] = now + TTL]
           /\ lastAllowed' = [lastAllowed EXCEPT ![v] = now]
    BY <1>2 DEF Allow
  <2>5. UNCHANGED <<durable, viewClock, score, events, viewFaults>>
    BY <1>2 DEF Allow
  <2>6. seen' \in [Viewers -> Nat] /\ lastAllowed' \in [Viewers -> Nat]
    <3> HIDE DEF v, now, full
    <3> QED
      BY <2>1, <2>3, <2>4
  <2>7. ASSUME NEW to \in {"idle", "count"}, ReadGoes(r, to)
        PROVE  /\ read' \in [Reads -> [at : {"idle", "allow", "count", "event"},
                                        of : Viewers \cup {NoViewer},
                                        kind : {"view", "save"}, now : Nat]]
               /\ \A q \in Reads : read'[q].at = "allow" => read'[q].of \in Viewers
    BY <2>7 DEF ReadGoes, NotReading
  <2> QED
    BY <2>4, <2>5, <2>6, <2>7
<1>3. ASSUME NEW r \in Reads, Increment(r)
      PROVE  ViewTypeOK'
  <2> DEFINE counted == [score EXCEPT ![read[r].kind] = @ + 1]
  <2>1. /\ score' = [counted EXCEPT !.hot = HotScore(counted, read[r].kind)]
        /\ ReadGoes(r, "event")
        /\ UNCHANGED <<durable, viewClock, seen, lastAllowed, events, viewFaults>>
    BY <1>3 DEF Increment
  <2>2. counted \in [view : Nat, save : Nat, hot : Nat]
    BY DEF ViewTypeOK
  <2>3. HotScore(counted, read[r].kind) \in Nat
    BY <2>2 DEF HotScore, Weight
  <2>4. score' \in [view : Nat, save : Nat, hot : Nat]
    BY <2>1, <2>2, <2>3
  <2> QED
    BY <2>1, <2>4 DEF ReadGoes, NotReading
<1>4. ASSUME NEW r \in Reads, RecordEvent(r) \/ ViewFails(r)
      PROVE  ViewTypeOK'
  BY <1>4 DEF RecordEvent, ViewFails, ReadGoes, NotReading
<1>5. CASE ViewTick \/ UNCHANGED viewVars
  BY <1>5 DEF ViewTick, viewVars
<1> QED
  BY <1>1, <1>2, <1>3, <1>4, <1>5 DEF ViewNext

\* The time a read took is at most Lag behind; and the entry of a viewer holds
\* for TTL from when it was last allowed, unless it was dropped after that.
ReadsAreRecent ==
    \A r \in Reads :
        read[r].at = "allow" => read[r].now <= viewClock /\ viewClock <= read[r].now + Lag
EntryHolds(v) ==
    \/ lastAllowed[v] = 0
    \/ seen[v] = lastAllowed[v] + TTL
    \/ seen[v] = 0 /\ lastAllowed[v] + TTL <= viewClock

ViewInv == ViewTypeOK /\ ReadsAreRecent /\ \A v \in Viewers : EntryHolds(v)

\* What the deduper decides, with the clock it uses.
LEMMA AllowStep ==
    ASSUME ViewAssumption, ViewInv, NEW r \in Reads, Allow(r)
    PROVE  /\ \A v \in Viewers : EntryHolds(v)'
           /\ \A v \in Viewers :
                lastAllowed[v] # 0 /\ lastAllowed'[v] # lastAllowed[v] =>
                    lastAllowed'[v] + Lag >= lastAllowed[v] + TTL
<1> USE DEF ViewAssumption, ViewInv, ViewTypeOK
<1> DEFINE u == read[r].of
           now == IF durable THEN viewClock ELSE read[r].now
           full == ~durable /\ Cardinality({w \in Viewers : seen[w] # 0}) > SeenLimit
           kept == IF full THEN DropExpired(now) ELSE seen
<1>1. /\ u \in Viewers /\ now \in Nat /\ now <= viewClock /\ viewClock <= now + Lag
      /\ viewClock' = viewClock
  BY DEF Allow, ReadsAreRecent
<1>2. \/ seen' = seen /\ lastAllowed' = lastAllowed
      \/ /\ ~(now < seen[u])
         /\ seen' = [kept EXCEPT ![u] = now + TTL]
         /\ lastAllowed' = [lastAllowed EXCEPT ![u] = now]
  BY DEF Allow
<1>3. /\ kept \in [Viewers -> Nat]
      /\ \A v \in Viewers : kept[v] = seen[v] \/ (kept[v] = 0 /\ seen[v] <= now)
  <2>1. DropExpired(now) = [v \in Viewers |-> IF seen[v] <= now THEN 0 ELSE seen[v]]
    BY DEF DropExpired
  <2>2. CASE full
    <3>1. kept = [v \in Viewers |-> IF seen[v] <= now THEN 0 ELSE seen[v]]
      BY <2>1, <2>2, Zenon DEF kept
    <3> HIDE DEF u, now, full, kept
    <3> QED
      BY <1>1, <3>1
  <2>3. CASE ~full
    <3>1. kept = seen
      BY <2>3, Zenon DEF kept
    <3> HIDE DEF u, now, full, kept
    <3> QED
      BY <1>1, <3>1
  <2> QED
    BY <2>2, <2>3
<1> HIDE DEF u, now, full, kept
<1>4. CASE seen' = seen /\ lastAllowed' = lastAllowed
  BY <1>1, <1>4 DEF EntryHolds
<1>5. CASE /\ ~(now < seen[u])
           /\ seen' = [kept EXCEPT ![u] = now + TTL]
           /\ lastAllowed' = [lastAllowed EXCEPT ![u] = now]
  <2>1. seen'[u] = now + TTL /\ lastAllowed'[u] = now
    BY <1>1, <1>3, <1>5
  <2>2. \A v \in Viewers \ {u} : seen'[v] = kept[v] /\ lastAllowed'[v] = lastAllowed[v]
    BY <1>3, <1>5
  <2>3. ASSUME NEW v \in Viewers
        PROVE  EntryHolds(v)'
    BY <1>1, <1>3, <2>1, <2>2 DEF EntryHolds
  <2>4. lastAllowed[u] = 0 \/ now + Lag >= lastAllowed[u] + TTL
    BY <1>1, <1>5 DEF EntryHolds
  <2> QED
    BY <2>1, <2>2, <2>3, <2>4
<1> QED
  BY <1>2, <1>4, <1>5

LEMMA ViewInvStep ==
    ASSUME ViewAssumption, ViewInv, [ViewNext]_viewVars
    PROVE  ViewInv'
<1> USE DEF ViewAssumption, ViewInv
<1>1. ViewTypeOK'
  BY ViewTypeStep
<1> USE DEF ViewTypeOK
<1>2. ReadsAreRecent'
  <2>1. ASSUME NEW r \in Reads, NEW v \in Viewers, OpenView(r, v) \/ SaveCopy(r, v)
        PROVE  ReadsAreRecent'
    BY <2>1 DEF OpenView, SaveCopy, ReadsAreRecent
  <2>2. ASSUME NEW r \in Reads, Allow(r) \/ Increment(r) \/ RecordEvent(r) \/ ViewFails(r)
        PROVE  ReadsAreRecent'
    <3>1. viewClock' = viewClock /\ \E to \in {"idle", "count", "event"} : ReadGoes(r, to)
      BY <2>2 DEF Allow, Increment, RecordEvent, ViewFails
    <3>2. PICK to \in {"idle", "count", "event"} : ReadGoes(r, to)
      BY <3>1
    <3>3. /\ \A q \in Reads \ {r} : read'[q] = read[q]
          /\ read'[r].at # "allow"
      BY <3>2 DEF ReadGoes, NotReading
    <3> QED
      BY <3>1, <3>3 DEF ReadsAreRecent
  <2>3. CASE ViewTick \/ UNCHANGED viewVars
    BY <2>3 DEF ViewTick, viewVars, ReadsAreRecent
  <2> QED
    BY <2>1, <2>2, <2>3 DEF ViewNext
<1>3. ASSUME NEW v \in Viewers
      PROVE  EntryHolds(v)'
  <2>1. CASE \E r \in Reads : Allow(r)
    BY <2>1, AllowStep
  <2>2. CASE UNCHANGED <<seen, lastAllowed>> /\ viewClock' >= viewClock
    <3>1. /\ viewClock \in Nat /\ viewClock' \in Nat /\ lastAllowed[v] \in Nat /\ TTL \in Nat
          /\ seen'[v] = seen[v] /\ lastAllowed'[v] = lastAllowed[v]
      BY <1>1, <2>2
    <3> QED
      BY <2>2, <3>1 DEF EntryHolds
  <2>3. CASE ~(\E r \in Reads : Allow(r))
    <3>1. UNCHANGED <<seen, lastAllowed>> /\ viewClock' >= viewClock
      <4>1. ASSUME NEW r \in Reads, NEW w \in Viewers, OpenView(r, w) \/ SaveCopy(r, w)
            PROVE  UNCHANGED <<seen, lastAllowed, viewClock>>
        BY <4>1 DEF OpenView, SaveCopy
      <4>2. ASSUME NEW r \in Reads, Increment(r) \/ RecordEvent(r) \/ ViewFails(r)
            PROVE  UNCHANGED <<seen, lastAllowed, viewClock>>
        BY <4>2 DEF Increment, RecordEvent, ViewFails
      <4>3. CASE ViewTick \/ UNCHANGED viewVars
        BY <4>3 DEF ViewTick, viewVars
      <4>4. CASE UNCHANGED <<seen, lastAllowed, viewClock>>
        BY <4>4
      <4> QED
        BY <2>3, <4>1, <4>2, <4>3, <4>4 DEF ViewNext
    <3> QED
      BY <2>2, <3>1
  <2> QED
    BY <2>1, <2>3
<1> QED
  BY <1>1, <1>2, <1>3

\* However many viewers there are, whoever's read sweeps the list and however
\* reads overlap, no viewer is allowed twice within the TTL, but for the lag
\* (MemoryPublicViewDeduper.Allow, RedisPublicViewDeduper.Allow).
THEOREM ViewersAllowedOnce == ViewSpec => CountedOncePerTTL
<1>1. ViewInit => ViewInv
  <2> SUFFICES ASSUME ViewInit PROVE ViewInv
    OBVIOUS
  <2>1. ViewTypeOK
    BY ViewAssumption DEF ViewAssumption, ViewInit, ViewTypeOK, NotReading
  <2> QED
    BY <2>1 DEF ViewInit, ViewInv, ReadsAreRecent, EntryHolds, NotReading
<1>2. ViewInv /\ [ViewNext]_viewVars => ViewInv'
  BY ViewInvStep, ViewAssumption
<1>3. ViewInv /\ [ViewNext]_viewVars =>
        [\A v \in Viewers :
            lastAllowed[v] # 0 /\ lastAllowed'[v] # lastAllowed[v] =>
                lastAllowed'[v] + Lag >= lastAllowed[v] + TTL]_viewVars
  <2> SUFFICES ASSUME ViewInv, ViewNext, NEW v \in Viewers, lastAllowed'[v] # lastAllowed[v],
                      lastAllowed[v] # 0
               PROVE  lastAllowed'[v] + Lag >= lastAllowed[v] + TTL
    OBVIOUS
  <2>1. PICK r \in Reads : Allow(r)
    BY DEF ViewNext, OpenView, SaveCopy, Increment, RecordEvent, ViewFails, ViewTick
  <2> QED
    BY <2>1, AllowStep, ViewAssumption
<1> QED
  BY <1>1, <1>2, <1>3, PTL DEF ViewSpec, CountedOncePerTTL

\* Whatever overlaps and fails, a read that asks the deduper asks for a viewer,
\* and the clocks and counters stay numbers (GetPublic, SavePublicAsCopy).
THEOREM ViewTypeCorrect == ViewSpec => []ViewTypeOK
<1>1. ViewInit => ViewTypeOK
  BY ViewAssumption DEF ViewAssumption, ViewInit, ViewTypeOK, NotReading
<1>2. ViewTypeOK /\ [ViewNext]_viewVars => ViewTypeOK'
  BY ViewTypeStep, ViewAssumption
<1> QED
  BY <1>1, <1>2, PTL DEF ViewSpec

\* The audit log, with the reads whose event is still to be written.
AtEvent == {r \in Reads : read[r].at = "event"}
LogInv == ViewTypeOK /\ IsFiniteSet(AtEvent) /\ EventsBackCounts

LEMMA LogInvStep ==
    ASSUME ViewAssumption, LogInv, [ViewNext]_viewVars
    PROVE  LogInv'
<1> USE DEF LogInv
<1>1. ViewTypeOK'
  BY ViewTypeStep
<1> DEFINE counts == score.view + score.save
<1>2. /\ counts \in Nat /\ events \in Nat /\ viewFaults \in Nat
      /\ Cardinality(AtEvent) \in Nat
      /\ events + Cardinality(AtEvent) <= counts
      /\ counts <= events + Cardinality(AtEvent) + viewFaults
  <2>1. Cardinality(AtEvent) \in Nat
    BY FS_CardinalityType
  <2> QED
    BY <2>1, ViewAssumption DEF ViewAssumption, ViewTypeOK, EventsBackCounts, AtEvent
<1>3. ASSUME IsFiniteSet(AtEvent'), Cardinality(AtEvent') \in Nat,
             events' + Cardinality(AtEvent') <= counts',
             counts' <= events' + Cardinality(AtEvent') + viewFaults'
      PROVE  LogInv'
  BY <1>1, <1>3 DEF EventsBackCounts, AtEvent
<1>4. CASE AtEvent' = AtEvent /\ UNCHANGED <<score, events>> /\ viewFaults' \in {viewFaults, viewFaults + 1}
  BY <1>2, <1>3, <1>4
<1>5. ASSUME NEW r \in Reads, Increment(r)
      PROVE  LogInv'
  <2>1. r \notin AtEvent /\ AtEvent' = AtEvent \cup {r}
    BY <1>5 DEF Increment, ReadGoes, AtEvent, ViewTypeOK
  <2>2. IsFiniteSet(AtEvent') /\ Cardinality(AtEvent') = Cardinality(AtEvent) + 1
    BY <2>1, FS_AddElement
  <2>3. counts' = counts + 1
    <3> DEFINE counted == [score EXCEPT ![read[r].kind] = @ + 1]
    <3>1. score' = [counted EXCEPT !.hot = HotScore(counted, read[r].kind)]
      BY <1>5 DEF Increment
    <3>2. read[r].kind \in {"view", "save"} /\ score \in [view : Nat, save : Nat, hot : Nat]
      BY DEF ViewTypeOK
    <3> HIDE DEF counts
    <3>3. score'.view = counted.view /\ score'.save = counted.save
      BY <3>1, <3>2
    <3>4. CASE read[r].kind = "view"
      <4>1. score'.view = score.view + 1 /\ score'.save = score.save
        BY <3>2, <3>3, <3>4
      <4> QED
        BY <3>2, <4>1 DEF counts
    <3>5. CASE read[r].kind = "save"
      <4>1. score'.view = score.view /\ score'.save = score.save + 1
        BY <3>2, <3>3, <3>5
      <4> QED
        BY <3>2, <4>1 DEF counts
    <3> QED
      BY <3>2, <3>4, <3>5
  <2>4. UNCHANGED <<events, viewFaults>>
    BY <1>5 DEF Increment
  <2> HIDE DEF counts
  <2> QED
    BY <1>2, <1>3, <2>2, <2>3, <2>4
<1>6. ASSUME NEW r \in AtEvent, AtEvent' = AtEvent \ {r}, UNCHANGED score,
             \/ events' = events + 1 /\ viewFaults' = viewFaults
             \/ events' = events /\ viewFaults' = viewFaults + 1
      PROVE  LogInv'
  <2>1. IsFiniteSet(AtEvent') /\ Cardinality(AtEvent') = Cardinality(AtEvent) - 1
    BY <1>6, FS_RemoveElement
  <2>2. counts' = counts
    BY <1>6
  <2>3. Cardinality(AtEvent) # 0
    BY <1>6, FS_EmptySet
  <2> HIDE DEF counts
  <2> QED
    BY <1>2, <1>3, <1>6, <2>1, <2>2, <2>3
<1>7. ASSUME NEW r \in Reads, NEW v \in Viewers, OpenView(r, v) \/ SaveCopy(r, v)
      PROVE  LogInv'
  <2>1. AtEvent' = AtEvent
    BY <1>7 DEF OpenView, SaveCopy, AtEvent, ViewTypeOK, NotReading
  <2> QED
    BY <1>4, <1>7, <2>1 DEF OpenView, SaveCopy
<1>8. ASSUME NEW r \in Reads, Allow(r)
      PROVE  LogInv'
  <2>1. AtEvent' = AtEvent
    BY <1>8 DEF Allow, ReadGoes, AtEvent, ViewTypeOK, NotReading
  <2> QED
    BY <1>4, <1>8, <2>1 DEF Allow
<1>9. ASSUME NEW r \in Reads, RecordEvent(r)
      PROVE  LogInv'
  <2>1. r \in AtEvent /\ AtEvent' = AtEvent \ {r}
    BY <1>9 DEF RecordEvent, ReadGoes, AtEvent, ViewTypeOK, NotReading
  <2> QED
    BY <1>6, <1>9, <2>1 DEF RecordEvent
<1>10. ASSUME NEW r \in Reads, ViewFails(r)
       PROVE  LogInv'
  <2>1. CASE read[r].at = "event"
    <3>1. r \in AtEvent /\ AtEvent' = AtEvent \ {r}
      BY <1>10, <2>1 DEF ViewFails, ReadGoes, AtEvent, ViewTypeOK, NotReading
    <3> QED
      BY <1>6, <1>10, <3>1 DEF ViewFails
  <2>2. CASE read[r].at # "event"
    <3>1. AtEvent' = AtEvent
      BY <1>10, <2>2 DEF ViewFails, ReadGoes, AtEvent, ViewTypeOK, NotReading
    <3> QED
      BY <1>4, <1>10, <3>1 DEF ViewFails
  <2> QED
    BY <2>1, <2>2
<1>11. CASE ViewTick \/ UNCHANGED viewVars
  BY <1>4, <1>11 DEF ViewTick, viewVars, AtEvent
<1> QED
  BY <1>5, <1>7, <1>8, <1>9, <1>10, <1>11 DEF ViewNext

\* However reads overlap and wherever they fail, the audit log and the counters
\* differ by no more than the events to be written and the calls that failed
\* (incrementPublicCounter).
THEOREM LogBacksCounts == ViewSpec => []EventsBackCounts
<1>1. ViewInit => LogInv
  <2> SUFFICES ASSUME ViewInit PROVE LogInv
    OBVIOUS
  <2>1. ViewTypeOK
    BY ViewAssumption DEF ViewAssumption, ViewInit, ViewTypeOK, NotReading
  <2>2. AtEvent = {}
    BY DEF ViewInit, AtEvent, NotReading
  <2>3. IsFiniteSet(AtEvent) /\ Cardinality(AtEvent) = 0
    BY <2>2, FS_EmptySet
  <2> QED
    BY <2>1, <2>3 DEF ViewInit, LogInv, EventsBackCounts, AtEvent
<1>2. LogInv /\ [ViewNext]_viewVars => LogInv'
  BY LogInvStep, ViewAssumption
<1>3. LogInv => EventsBackCounts
  BY DEF LogInv
<1> QED
  BY <1>1, <1>2, <1>3, PTL DEF ViewSpec
=============================================================================
