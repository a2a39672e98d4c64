------------------------- MODULE AccessControlProofs ------------------------
(***************************************************************************)
(* What AccessControl guarantees for every set of users, roles, sessions   *)
(* and handlers: its types, that a revocation nobody races with holds,     *)
(* that an admission is current, that a role change ends the sessions its  *)
(* UPDATE could see, and that it implements SessionService.                *)
(***************************************************************************)
EXTENDS AccessControl, TLAPS

-----------------------------------------------------------------------------
(* The inductive invariant *)

\* A session id is used, owned and given out only once it has a row.
RowsInUse ==
    \A s \in Sids :
        /\ owner[s] # None <=> row[s] # "none"
        /\ s \in redis \cup held \cup expired => row[s] # "none"

\* What a handler holds at each of its steps.
HandlerOK(h) ==
    LET q == req[h] IN
    /\ q.pc = "insert" => q.user \in Users
    /\ q.pc \in {"cacheNew", "respond", "revokeRow", "deleteRow"} \/ Authenticating(h)
         => q.sid \in Sids /\ row[q.sid] # "none"
    /\ q.pc = "deleteRow" => Gone(q.sid)
    /\ Authenticating(h) =>
         /\ q.user = owner[q.sid]
         /\ q.op \in {"create", "update", "delete"} => q.body.target \in Users
         /\ q.op \in {"create", "patch"} => q.body.newRole \in Roles
         /\ q.op = "patch" => q.body.newPerms \in Tags
    /\ q.pc \in {"loadRole", "admitted"} => q.role \in Roles
    /\ q.pc \in {"count", "commitDelete", "select", "deleteKeys"} => q.body.target \in Users
    /\ q.pc = "insertUser" => q.body.newRole \in Roles
    /\ q.pc = "commitPerms" => q.body.newPerms \in Tags
    /\ q.pc = "commitUser" => q.body.newRole = None

BaseInv ==
    /\ BaseOK
    /\ RowsInUse
    /\ \A h \in Handlers : HandlerOK(h)

\* The key of a session is in Redis, or about to be written there.
Present(s) == s \in redis \/ Caching(s)

Excused(s) == s \in expired \/ s \in raced

RaceInv ==
    /\ \A s \in Sids : Present(s) => row[s] = "active" \/ Excused(s)
    /\ \A s \in Sids : Present(s) /\ Revoking(s) => Excused(s)
    /\ \A h \in Handlers, s \in Sids :
         Authenticating(h) /\ CameTooLate(h) /\ req[h].sid = s =>
         \/ s \in raced
         \/ req[h].pc \in {"checkCache", "loadSession"} /\ Gone(s) /\ ~Present(s)

\* What the history says once the account, then the role, has been read.
HistInv ==
    \A h \in Handlers :
        /\ req[h].pc \in {"loadRole", "admitted"} =>
             hist[h].wasActive /\ req[h].role \in hist[h].roles
        /\ req[h].pc = "admitted" => <<req[h].role, req[h].perms>> \in hist[h].grants

\* An active session a revocation is about to leave active was committed since
\* its UPDATE.
MissInv ==
    \A h \in Handlers, s \in Sids :
        At(h, "commitRows") /\ owner[s] = req[h].body.target /\ row[s] = "active" =>
            s \in req[h].rows \cup missed[h]

IInv == BaseInv /\ TypeOK /\ RaceInv /\ HistInv /\ MissInv

-----------------------------------------------------------------------------
(* Steps of one handler *)

Others(h) == \A g \in Handlers \ {h} : req'[g] = req[g]

RowsKept ==
    \A s \in Sids : row[s] # "none" =>
        row'[s] # "none" /\ owner'[s] = owner[s] /\ (Gone(s) => Gone(s)')

\* A request that passes the request models has the fields its endpoint reads.
LEMMA CallsOK ==
    ASSUME NEW c \in Calls
    PROVE  /\ c.op \in AllOps /\ c.op # "login" /\ c.body \in Bodies
           /\ c.op \in {"create", "update", "delete"} => c.body.target \in Users
           /\ c.op \in {"create", "patch"} => c.body.newRole \in Roles
           /\ c.op = "patch" => c.body.newPerms \in Tags
  BY CallsAssumption DEF AllCalls, AllOps, Bodies

\* A step that gives a handler a new local state changes that of no other.
LEMMA Become ==
    ASSUME BaseOK, NEW h \in Handlers, NEW q \in Requests, req' = [req EXCEPT ![h] = q]
    PROVE  req' \in [Handlers -> Requests] /\ req'[h] = q /\ Others(h)
  BY DEF BaseOK, Others

\* A handler that answers is idle again, whatever it was doing.
LEMMA RespondFields ==
    ASSUME BaseOK, NEW h \in Handlers, Respond(h)
    PROVE  /\ req' \in [Handlers -> Requests]
           /\ req'[h] = Idle
           /\ Others(h)
           /\ HandlerOK(h)'
<1>1. Idle \in Requests
  BY DEF Idle, Requests, NoBody, Bodies, Steps
<1>2. req' \in [Handlers -> Requests] /\ req'[h] = Idle /\ Others(h)
  BY <1>1 DEF Respond, BaseOK, Others
<1> QED
  BY <1>2 DEF HandlerOK, Idle, Authenticating

\* A handler that goes on to a step keeps everything but its pc.
LEMMA GotoFields ==
    ASSUME BaseOK, NEW h \in Handlers, NEW x \in Steps, Goto(h, x)
    PROVE  /\ req' \in [Handlers -> Requests]
           /\ req'[h] = [req[h] EXCEPT !.pc = x]
           /\ req[h] \in Requests /\ req'[h].pc = x
           /\ req'[h].sid = req[h].sid /\ req'[h].user = req[h].user
           /\ req'[h].op = req[h].op /\ req'[h].body = req[h].body
           /\ req'[h].role = req[h].role /\ req'[h].perms = req[h].perms
           /\ req'[h].keys = req[h].keys
           /\ Others(h)
<1>1. req[h] \in Requests
  BY DEF BaseOK
<1>2. [req[h] EXCEPT !.pc = x] \in Requests
  BY <1>1 DEF Requests
<1>3. req' = [req EXCEPT ![h] = [req[h] EXCEPT !.pc = x]]
  BY DEF Goto
<1>4. req' \in [Handlers -> Requests] /\ req'[h] = [req[h] EXCEPT !.pc = x] /\ Others(h)
  BY <1>2, <1>3 DEF BaseOK, Others
<1> QED
  BY <1>1, <1>4 DEF Requests

\* The invariant after a step, from what the step does to its own handler.
LEMMA Assemble ==
    ASSUME BaseInv, NEW h \in Handlers, Others(h), RowsKept,
           BaseOK', RowsInUse', HandlerOK(h)'
    PROVE  BaseInv'
<1>1. ASSUME NEW g \in Handlers, g # h
      PROVE  HandlerOK(g)'
  BY <1>1 DEF Others, RowsKept, BaseInv, HandlerOK, Authenticating, Gone
<1> QED
  BY <1>1 DEF BaseInv

\* The same for a step that changes no table and no key.
LEMMA Quiet ==
    ASSUME BaseInv, NEW h \in Handlers, Others(h), HandlerOK(h)',
           req' \in [Handlers -> Requests],
           UNCHANGED <<tables, sessionRows, redis, expired, held>>
    PROVE  BaseInv'
<1>1. BaseOK' /\ RowsInUse' /\ RowsKept
  BY DEF BaseInv, BaseOK, RowsInUse, RowsKept, Gone, tables, sessionRows
<1> QED
  BY <1>1, Assemble

-----------------------------------------------------------------------------
(* BaseInv is kept by the steps of login and of get_current_user *)

\* Each action keeps BaseInv; first authenticate.
LEMMA AuthenticateBase ==
    ASSUME BaseInv, NEW h \in Handlers, NEW u \in Users, Authenticate(h, u)
    PROVE  BaseInv'
<1> DEFINE q == [Idle EXCEPT !.op = "login", !.pc = "insert",
                             !.user = u, !.perms = perms[userRole[u]]]
<1>1. q \in Requests /\ q.pc = "insert" /\ q.user = u
  BY DEF Idle, Requests, NoBody, Bodies, Steps, AllOps, BaseInv, BaseOK
<1>2. req' = [req EXCEPT ![h] = q]
  BY DEF Authenticate
<1> HIDE DEF q
<1>3. req' \in [Handlers -> Requests] /\ req'[h] = q /\ Others(h)
  BY <1>1, <1>2 DEF BaseInv, BaseOK, Others
<1>4. HandlerOK(h)'
  BY <1>1, <1>3 DEF HandlerOK, Authenticating
<1> QED
  BY <1>3, <1>4, Quiet DEF Authenticate

\* A request that arrives.
LEMMA ReceiveBase ==
    ASSUME BaseInv, NEW h \in Handlers, Receive(h)
    PROVE  BaseInv'
<1>1. PICK s \in held \ expired, c \in Calls :
        req' = [req EXCEPT ![h] = [Idle EXCEPT !.op = c.op, !.pc = "checkCache",
                                   !.sid = s, !.user = owner[s], !.body = c.body]]
  BY DEF Receive
<1> DEFINE q == [Idle EXCEPT !.op = c.op, !.pc = "checkCache",
                             !.sid = s, !.user = owner[s], !.body = c.body]
<1>2. s \in Sids /\ row[s] # "none" /\ owner[s] \in Users
  BY DEF BaseInv, BaseOK, RowsInUse
<1>3. /\ q \in Requests /\ q.pc = "checkCache" /\ q.sid = s /\ q.user = owner[s]
      /\ q.op = c.op /\ q.body = c.body
  BY <1>2, CallsOK DEF Idle, Requests, NoBody, Bodies, Steps, AllOps
<1> HIDE DEF q
<1>4. req' \in [Handlers -> Requests] /\ req'[h] = q /\ Others(h)
  BY <1>1, <1>3 DEF q, BaseInv, BaseOK, Others
<1>5. UNCHANGED <<row, owner>>
  BY DEF Receive, sessionRows
<1>6. HandlerOK(h)'
  BY <1>2, <1>3, <1>4, <1>5, CallsOK DEF HandlerOK, Authenticating
<1> QED
  BY <1>4, <1>6, Quiet DEF Receive

\* create_session up to its commit: a fresh id gets its row.
LEMMA InsertSessionBase ==
    ASSUME BaseInv, NEW h \in Handlers, InsertSession(h)
    PROVE  BaseInv'
<1>1. PICK s \in Sids :
        /\ row[s] = "none"
        /\ row' = [row EXCEPT ![s] = "active"]
        /\ owner' = [owner EXCEPT ![s] = req[h].user]
        /\ claims' = [claims EXCEPT ![s] = req[h].perms]
        /\ req' = [req EXCEPT ![h].sid = s, ![h].pc = "cacheNew"]
  BY DEF InsertSession
<1>2. req[h] \in Requests /\ req[h].user \in Users /\ req[h].user # None
  BY NoneAssumption DEF InsertSession, At, BaseInv, BaseOK, HandlerOK
<1>3. /\ req' \in [Handlers -> Requests] /\ Others(h)
      /\ req'[h].sid = s /\ req'[h].pc = "cacheNew"
  BY <1>1, <1>2 DEF BaseInv, BaseOK, Others, Requests, Steps
<1>4. BaseOK'
  BY <1>1, <1>2, <1>3 DEF InsertSession, tables, BaseInv, BaseOK, RowStates, Requests
<1>5. RowsInUse' /\ RowsKept
  BY <1>1, <1>2 DEF InsertSession, BaseInv, BaseOK, RowsInUse, RowsKept, Gone, RowStates
<1>6. HandlerOK(h)'
  BY <1>1, <1>3 DEF HandlerOK, Authenticating, BaseInv, BaseOK
<1> QED
  BY <1>3, <1>4, <1>5, <1>6, Assemble

\* create_session after its commit.
LEMMA CacheNewSessionBase ==
    ASSUME BaseInv, NEW h \in Handlers, CacheNewSession(h)
    PROVE  BaseInv'
<1>1. Goto(h, "respond") /\ "respond" \in Steps
  BY DEF CacheNewSession, Steps
<1>2. req[h].sid \in Sids /\ row[req[h].sid] # "none"
  BY DEF CacheNewSession, At, BaseInv, HandlerOK
<1>3. HandlerOK(h)'
  BY <1>1, <1>2, GotoFields
  DEF CacheNewSession, sessionRows, BaseInv, HandlerOK, Authenticating
<1>4. BaseOK' /\ RowsInUse' /\ RowsKept
  BY <1>1, <1>2, GotoFields
  DEF CacheNewSession, tables, sessionRows, BaseInv, BaseOK, RowsInUse, RowsKept, Gone
<1> QED
  BY <1>1, <1>3, <1>4, GotoFields, Assemble DEF BaseInv

\* The answer to the login.
LEMMA RespondLoginBase ==
    ASSUME BaseInv, NEW h \in Handlers, RespondLogin(h)
    PROVE  BaseInv'
<1>1. req[h].sid \in Sids /\ row[req[h].sid] # "none"
  BY DEF RespondLogin, At, BaseInv, HandlerOK
<1>2. req' \in [Handlers -> Requests] /\ Others(h) /\ HandlerOK(h)'
  BY RespondFields DEF RespondLogin, BaseInv
<1>3. BaseOK' /\ RowsInUse' /\ RowsKept
  BY <1>1, <1>2
  DEF RespondLogin, tables, sessionRows, BaseInv, BaseOK, RowsInUse, RowsKept, Gone
<1> QED
  BY <1>2, <1>3, Assemble

\* The five steps of get_current_user.
LEMMA GetCurrentUserBase ==
    ASSUME BaseInv, NEW h \in Handlers, GetCurrentUser(h)
    PROVE  BaseInv'
<1> USE DEF At
<1>a. BaseOK /\ HandlerOK(h)
  BY DEF BaseInv
<1>1. CASE CheckCache(h)
  <2>1. PICK x \in {"loadUser", "loadSession"} : Goto(h, x)
    BY <1>1 DEF CheckCache
  <2>2. HandlerOK(h)'
    BY <1>1, <1>a, <2>1, GotoFields
    DEF CheckCache, sessionRows, HandlerOK, Authenticating, Steps
  <2> QED
    BY <1>1, <1>a, <2>1, <2>2, GotoFields, Quiet DEF CheckCache, Steps
<1>2. CASE LoadSession(h)
  <2>1. CASE Respond(h)
    BY <1>2, <1>a, <2>1, RespondFields, Quiet DEF LoadSession
  <2>2. CASE Goto(h, "recache")
    <3>1. HandlerOK(h)'
      BY <1>2, <1>a, <2>2, GotoFields
      DEF LoadSession, sessionRows, HandlerOK, Authenticating, Steps
    <3> QED
      BY <1>2, <1>a, <2>2, <3>1, GotoFields, Quiet DEF LoadSession, Steps
  <2> QED
    BY <1>2, <2>1, <2>2 DEF LoadSession
<1>3. CASE Recache(h)
  <2>1. Goto(h, "loadUser") /\ "loadUser" \in Steps
    BY <1>3 DEF Recache, Steps
  <2>2. req[h].sid \in Sids /\ row[req[h].sid] # "none"
    BY <1>3, <1>a DEF Recache, HandlerOK, Authenticating
  <2>3. HandlerOK(h)'
    BY <1>3, <1>a, <2>1, GotoFields
    DEF Recache, sessionRows, HandlerOK, Authenticating
  <2>4. BaseOK' /\ RowsInUse' /\ RowsKept
    BY <1>3, <2>1, <2>2, GotoFields
    DEF Recache, tables, sessionRows, BaseInv, BaseOK, RowsInUse, RowsKept, Gone
  <2> QED
    BY <1>a, <2>1, <2>3, <2>4, GotoFields, Assemble
<1>4. CASE LoadUser(h)
  <2>1. CASE Respond(h)
    BY <1>4, <1>a, <2>1, RespondFields, Quiet DEF LoadUser
  <2>2. CASE req' = [req EXCEPT ![h].role = userRole[req[h].user], ![h].pc = "loadRole"]
    <3>1. req[h] \in Requests /\ req[h].user \in Users /\ userRole[req[h].user] \in Roles
      BY <1>4, <1>a DEF LoadUser, HandlerOK, Authenticating, BaseInv, BaseOK, RowsInUse
    <3>2. /\ req' \in [Handlers -> Requests] /\ Others(h)
          /\ req'[h].pc = "loadRole" /\ req'[h].role = userRole[req[h].user]
          /\ req'[h].sid = req[h].sid /\ req'[h].user = req[h].user
          /\ req'[h].op = req[h].op /\ req'[h].body = req[h].body
      BY <2>2, <3>1, <1>a DEF BaseOK, Others, Requests, Steps
    <3>3. HandlerOK(h)'
      BY <1>4, <1>a, <3>1, <3>2 DEF LoadUser, sessionRows, HandlerOK, Authenticating
    <3> QED
      BY <1>4, <3>2, <3>3, Quiet DEF LoadUser
  <2> QED
    BY <1>4, <2>1, <2>2 DEF LoadUser
<1>5. CASE LoadRole(h)
  <2>1. req[h] \in Requests /\ req[h].role \in Roles /\ perms[req[h].role] \in Tags
    BY <1>5, <1>a DEF LoadRole, HandlerOK, BaseOK
  <2>2. /\ req' \in [Handlers -> Requests] /\ Others(h)
        /\ req'[h].pc = "admitted" /\ req'[h].role = req[h].role
        /\ req'[h].sid = req[h].sid /\ req'[h].user = req[h].user
        /\ req'[h].op = req[h].op /\ req'[h].body = req[h].body
    BY <1>5, <2>1, <1>a DEF LoadRole, BaseOK, Others, Requests, Steps
  <2>3. HandlerOK(h)'
    BY <1>5, <1>a, <2>1, <2>2 DEF LoadRole, sessionRows, HandlerOK, Authenticating
  <2> QED
    BY <1>5, <2>2, <2>3, Quiet DEF LoadRole
<1> QED
  BY <1>1, <1>2, <1>3, <1>4, <1>5 DEF GetCurrentUser

-----------------------------------------------------------------------------
(* ... by logout, the revocation of all sessions, and the environment *)

\* The steps of the logout.
LEMMA LogoutBase ==
    ASSUME BaseInv, NEW h \in Handlers, Logout(h)
    PROVE  BaseInv'
<1> USE DEF At
<1>a. BaseOK /\ HandlerOK(h)
  BY DEF BaseInv
<1>1. CASE LogoutKey(h)
  <2>1. Goto(h, "revokeRow") /\ "revokeRow" \in Steps
    BY <1>1 DEF LogoutKey, Steps
  <2>2. HandlerOK(h)'
    BY <1>1, <1>a, <2>1, GotoFields DEF LogoutKey, sessionRows, HandlerOK, Authenticating
  <2>3. BaseOK' /\ RowsInUse' /\ RowsKept
    BY <1>1, <2>1, GotoFields
    DEF LogoutKey, tables, sessionRows, BaseInv, BaseOK, RowsInUse, RowsKept, Gone
  <2> QED
    BY <1>a, <2>1, <2>2, <2>3, GotoFields, Assemble
<1>2. CASE LogoutRow(h)
  <2>1. Goto(h, "deleteRow") /\ "deleteRow" \in Steps
    BY <1>2 DEF LogoutRow, Steps
  <2>2. req[h].sid \in Sids /\ row[req[h].sid] # "none"
    BY <1>2, <1>a DEF LogoutRow, HandlerOK
  <2>3. row' \in [Sids -> RowStates] /\ Gone(req[h].sid)'
    BY <1>2, <1>a, <2>1, <2>2, GotoFields DEF LogoutRow, BaseOK, RowStates, Gone
  <2>4. HandlerOK(h)'
    BY <1>2, <1>a, <2>1, <2>2, <2>3, GotoFields
    DEF LogoutRow, HandlerOK, Authenticating, Gone
  <2>5. BaseOK' /\ RowsInUse' /\ RowsKept
    BY <1>2, <2>1, <2>2, <2>3, GotoFields
    DEF LogoutRow, tables, BaseInv, BaseOK, RowsInUse, RowsKept, Gone, RowStates
  <2> QED
    BY <1>a, <2>1, <2>4, <2>5, GotoFields, Assemble
<1>3. CASE LogoutDelete(h)
  <2>1. req[h].sid \in Sids /\ row[req[h].sid] # "none"
    BY <1>3, <1>a DEF LogoutDelete, HandlerOK
  <2>2. req' \in [Handlers -> Requests] /\ Others(h) /\ HandlerOK(h)'
    BY <1>3, <1>a, RespondFields DEF LogoutDelete
  <2>3. BaseOK' /\ RowsInUse' /\ RowsKept
    BY <1>3, <2>1, <2>2
    DEF LogoutDelete, tables, BaseInv, BaseOK, RowsInUse, RowsKept, Gone, RowStates
  <2> QED
    BY <2>2, <2>3, Assemble
<1> QED
  BY <1>1, <1>2, <1>3 DEF Logout

\* Writing out a changed user keeps the tables well typed.
LEMMA FlushUserType ==
    ASSUME BaseOK, NEW h \in Handlers, FlushUser(h)
    PROVE  userRole' \in [Users -> Roles] /\ active' \in [Users -> BOOLEAN]
<1>1. req[h].body \in Bodies
  BY DEF BaseOK, Requests
<1>2. CASE req[h].body.newRole \notin {None, req[h].loadedRole}
  BY <1>1, <1>2 DEF FlushUser, BaseOK, Bodies
<1>3. CASE req[h].body.newRole \in {None, req[h].loadedRole}
  BY <1>1, <1>3 DEF FlushUser, BaseOK, Bodies
<1> QED
  BY <1>2, <1>3

\* The steps of revoke_all_sessions_for_user.
LEMMA RevokeAllBase ==
    ASSUME BaseInv, NEW h \in Handlers, RevokeAll(h)
    PROVE  BaseInv'
<1> USE DEF At
<1>a. BaseOK /\ HandlerOK(h) /\ req[h] \in Requests
  BY DEF BaseInv, BaseOK
<1>1. CASE SelectSessions(h)
  <2> DEFINE K == RowsOf(req[h].body.target)
  <2>1. K \in SUBSET Sids
    BY DEF RowsOf
  <2> DEFINE q == [req[h] EXCEPT !.keys = K, !.pc = "deleteKeys"]
  <2>2. req' = [req EXCEPT ![h] = q]
    BY <1>1 DEF SelectSessions
  <2> HIDE DEF K
  <2>q. q \in Requests /\ q.pc = "deleteKeys" /\ q.body = req[h].body
    BY <2>1, <1>a DEF Requests, Steps
  <2> HIDE DEF q
  <2>3. /\ req' \in [Handlers -> Requests] /\ Others(h)
        /\ req'[h].pc = "deleteKeys" /\ req'[h].body = req[h].body
    BY <2>2, <2>q, <1>a, Become
  <2>4. HandlerOK(h)'
    BY <1>1, <1>a, <2>3 DEF SelectSessions, HandlerOK, Authenticating
  <2> QED
    BY <1>1, <2>3, <2>4, Quiet DEF SelectSessions
<1>2. CASE DeleteKey(h)
  <2>1. PICK s \in req[h].keys :
          /\ redis' = redis \ {s}
          /\ req' = [req EXCEPT ![h].keys = @ \ {s}]
    BY <1>2 DEF DeleteKey
  <2> DEFINE K == req[h].keys \ {s}
             q == [req[h] EXCEPT !.keys = K]
  <2>2. K \in SUBSET Sids /\ req' = [req EXCEPT ![h] = q]
    BY <1>a, <2>1 DEF Requests
  <2> HIDE DEF K
  <2>q. q \in Requests /\ q.pc = "deleteKeys" /\ q.body = req[h].body
    BY <1>2, <2>2, <1>a DEF DeleteKey, Requests
  <2> HIDE DEF q
  <2>3. /\ req' \in [Handlers -> Requests] /\ Others(h)
        /\ req'[h].pc = "deleteKeys" /\ req'[h].body = req[h].body
    BY <2>2, <2>q, <1>a, Become
  <2>4. HandlerOK(h)'
    BY <1>2, <1>a, <2>3 DEF DeleteKey, HandlerOK, Authenticating
  <2>5. BaseOK' /\ RowsInUse' /\ RowsKept
    BY <1>2, <2>1, <2>3
    DEF DeleteKey, tables, sessionRows, BaseInv, BaseOK, RowsInUse, RowsKept, Gone
  <2> QED
    BY <2>3, <2>4, <2>5, Assemble
<1>3. CASE UpdateSessions(h)
  <2> DEFINE R == RowsOf(req[h].body.target)
  <2>1. R \in SUBSET Sids
    BY DEF RowsOf
  <2> DEFINE q == [req[h] EXCEPT !.rows = R, !.pc = "commitRows"]
  <2>2. req' = [req EXCEPT ![h] = q]
    BY <1>3 DEF UpdateSessions
  <2> HIDE DEF R
  <2>q. q \in Requests /\ q.pc = "commitRows"
    BY <2>1, <1>a DEF Requests, Steps
  <2> HIDE DEF q
  <2>3. req' \in [Handlers -> Requests] /\ Others(h) /\ req'[h].pc = "commitRows"
    BY <2>2, <2>q, <1>a, Become
  <2>4. HandlerOK(h)'
    BY <2>3 DEF HandlerOK, Authenticating
  <2> QED
    BY <1>3, <2>3, <2>4, Quiet DEF UpdateSessions
<1>4. CASE CommitRevocation(h)
  <2> DEFINE x == IF req[h].op = "patch" THEN "nextMember" ELSE "audit"
             q == [req[h] EXCEPT !.rows = {}, !.pc = x]
  <2>1. req' = [req EXCEPT ![h] = q]
    BY <1>4 DEF CommitRevocation
  <2>q. q \in Requests /\ q.pc \in {"nextMember", "audit"}
    <3> DEFINE q1 == [req[h] EXCEPT !.rows = {}]
               q2 == [q1 EXCEPT !.pc = x]
    <3>1. q1 \in Requests
      BY <1>a DEF Requests
    <3>2. x \in {"nextMember", "audit"} /\ q = q2
      OBVIOUS
    <3> HIDE DEF q, q1, x
    <3>3. q2 \in Requests /\ q2.pc = x
      BY <3>1, <3>2 DEF Requests, Steps
    <3> QED
      BY <3>2, <3>3
  <2> HIDE DEF q, x
  <2>2. /\ req' \in [Handlers -> Requests] /\ Others(h)
        /\ req'[h].pc \in {"nextMember", "audit"}
    BY <2>1, <2>q, <1>a, Become
  <2>3. userRole' \in [Users -> Roles] /\ active' \in [Users -> BOOLEAN]
    BY <1>4, <1>a, FlushUserType DEF CommitRevocation, BaseOK
  <2>4. /\ row' \in [Sids -> RowStates]
        /\ \A s \in Sids : row'[s] = row[s] \/ (row[s] = "active" /\ row'[s] = "revoked")
    BY <1>4, <1>a DEF CommitRevocation, BaseOK, RowStates
  <2>5. HandlerOK(h)'
    BY <2>2 DEF HandlerOK, Authenticating
  <2>6. BaseOK'
    BY <1>4, <1>a, <2>2, <2>3, <2>4 DEF CommitRevocation, BaseOK
  <2>7. RowsInUse' /\ RowsKept
    BY <1>4, <2>4 DEF CommitRevocation, BaseInv, BaseOK, RowsInUse, RowsKept, Gone
  <2> QED
    BY <2>2, <2>5, <2>6, <2>7, Assemble
<1> QED
  BY <1>1, <1>2, <1>3, <1>4 DEF RevokeAll

\* A step of the environment that leaves the handlers alone.
LEMMA OutsideBase ==
    ASSUME BaseInv, UNCHANGED req, RowsKept, BaseOK', RowsInUse'
    PROVE  BaseInv'
<1>1. ASSUME NEW h \in Handlers PROVE HandlerOK(h)'
  BY DEF RowsKept, BaseInv, HandlerOK, Authenticating, Gone
<1> QED
  BY <1>1 DEF BaseInv

\* Evictions, expiry, the clean-up task and aborted requests.
LEMMA EnvironmentBase ==
    ASSUME BaseInv, Environment
    PROVE  BaseInv'
<1>1. ASSUME NEW h \in Handlers, NEW u \in Users, Authenticate(h, u) PROVE BaseInv'
  BY <1>1, AuthenticateBase
<1>2. ASSUME NEW h \in Handlers, Receive(h) PROVE BaseInv'
  BY <1>2, ReceiveBase
<1>3. ASSUME NEW h \in Handlers, Abort(h) PROVE BaseInv'
  BY <1>3, RespondFields, Quiet DEF Abort, BaseInv
<1>4. ASSUME NEW s \in Sids, EvictKey(s) PROVE BaseInv'
  <2>1. RowsKept /\ BaseOK' /\ RowsInUse' /\ UNCHANGED req
    BY <1>4 DEF EvictKey, tables, sessionRows, RowsKept, BaseInv, BaseOK, RowsInUse, Gone
  <2> QED
    BY <2>1, OutsideBase
<1>5. ASSUME NEW s \in Sids, Expire(s) PROVE BaseInv'
  <2>1. RowsKept /\ BaseOK' /\ RowsInUse' /\ UNCHANGED req
    BY <1>5 DEF Expire, tables, sessionRows, RowsKept, BaseInv, BaseOK, RowsInUse, Gone
  <2> QED
    BY <2>1, OutsideBase
<1>6. CASE CleanupSessions
  <2>1. UNCHANGED <<tables, owner, claims, redis, expired, held, audit, req>>
    BY <1>6 DEF CleanupSessions
  <2>2. row' = [s \in Sids |-> IF s \in expired THEN "deleted" ELSE row[s]]
    BY <1>6 DEF CleanupSessions
  <2>3. RowsKept /\ BaseOK' /\ RowsInUse'
    BY <2>1, <2>2 DEF tables, RowsKept, BaseInv, BaseOK, RowsInUse, Gone, RowStates
  <2> QED
    BY <2>1, <2>3, OutsideBase
<1> QED
  BY <1>1, <1>2, <1>3, <1>4, <1>5, <1>6 DEF Environment

-----------------------------------------------------------------------------
(* ... and by the admin endpoints *)

\* What a step that has found its target has loaded, and where it goes on.
LEMMA LoadedTarget ==
    ASSUME BaseOK, NEW h \in Handlers, LoadTarget(h), ~Respond(h),
           req[h].body.target \in Users, req[h].role \in Roles
    PROVE  \E role \in Roles, act \in BOOLEAN :
             req' = [req EXCEPT ![h].loadedRole = role, ![h].loadedActive = act,
                                ![h].pc = AfterLoading(h, role)]
<1> DEFINE t == req[h].body.target
           loaded(cached) == IF cached THEN req[h].role ELSE userRole[t]
<1>1. PICK cached \in BOOLEAN :
        req' = [req EXCEPT ![h].loadedRole = loaded(cached),
                           ![h].loadedActive = cached \/ active[t],
                           ![h].pc = AfterLoading(h, loaded(cached))]
  BY DEF LoadTarget
<1>2. loaded(cached) \in Roles /\ (cached \/ active[t]) \in BOOLEAN
  BY DEF BaseOK
<1> QED
  BY <1>1, <1>2

LEMMA LoadedNext ==
    ASSUME NEW h \in Handlers, NEW role, req[h].op \in {"update", "delete"}
    PROVE  /\ AfterLoading(h, role) \in {"select", "commitUser", "count", "commitDelete"}
           /\ AfterLoading(h, role) = "commitUser" => req[h].body.newRole = None
<1>1. CASE req[h].op = "update"
  BY <1>1 DEF AfterLoading
<1>2. CASE req[h].op = "delete" /\ role = Admin
  BY <1>2 DEF AfterLoading
<1>3. CASE req[h].op = "delete" /\ role # Admin
  BY <1>3 DEF AfterLoading
<1> QED
  BY <1>1, <1>2, <1>3

\* update_user and delete_user, up to a revocation, and the audit row.
LEMMA AdminUpdateBase ==
    ASSUME BaseInv, NEW h \in Handlers,
           \/ LoadTarget(h) \/ CommitUser(h) \/ CountAdmins(h)
           \/ CommitDelete(h) \/ WriteAudit(h)
    PROVE  BaseInv'
<1> USE DEF At
<1>a. BaseOK /\ HandlerOK(h) /\ req[h] \in Requests
  BY DEF BaseInv, BaseOK
<1>1. CASE LoadTarget(h)
  <2>1. /\ req[h].body.target \in Users /\ req[h].role \in Roles
        /\ req[h].op \in {"update", "delete"}
    BY <1>1, <1>a DEF LoadTarget, IsAdmin, HandlerOK, Authenticating, BaseOK
  <2>2. CASE Respond(h)
    BY <1>1, <1>a, <2>2, RespondFields, Quiet DEF LoadTarget
  <2>3. CASE ~Respond(h)
    <3>0. PICK role \in Roles, act \in BOOLEAN :
            req' = [req EXCEPT ![h].loadedRole = role, ![h].loadedActive = act,
                               ![h].pc = AfterLoading(h, role)]
      BY <1>1, <1>a, <2>1, <2>3, LoadedTarget
    <3> DEFINE next == AfterLoading(h, role)
    <3>a. /\ next \in {"select", "commitUser", "count", "commitDelete"}
          /\ next = "commitUser" => req[h].body.newRole = None
      BY <2>1, LoadedNext
    <3>b. req' = [req EXCEPT ![h].loadedRole = role, ![h].loadedActive = act,
                             ![h].pc = next]
      BY <3>0
    <3> HIDE DEF next
    <3> DEFINE x == next
               q == [req[h] EXCEPT !.loadedRole = role, !.loadedActive = act, !.pc = next]
    <3>1. /\ req' = [req EXCEPT ![h] = q]
          /\ x = "commitUser" => req[h].body.newRole = None
          /\ x \in {"select", "commitUser", "count", "commitDelete"}
      BY <3>a, <3>b
    <3>q. q \in Requests /\ q.pc = x /\ q.body = req[h].body
      <4> DEFINE q1 == [req[h] EXCEPT !.loadedRole = role]
                 q2 == [q1 EXCEPT !.loadedActive = act]
                 q3 == [q2 EXCEPT !.pc = next]
      <4>1. q1 \in Requests /\ q1.body = req[h].body
        BY <2>1, <1>a DEF Requests
      <4>2. q = q3
        OBVIOUS
      <4> HIDE DEF q, q1
      <4>3. q2 \in Requests /\ q2.body = req[h].body
        BY <2>1, <4>1 DEF Requests
      <4> HIDE DEF q2
      <4>4. next \in Steps
        BY <3>a DEF Steps
      <4>5. q3 \in Requests /\ q3.body = req[h].body /\ q3.pc = next
        BY <4>3, <4>4 DEF Requests
      <4> QED
        BY <4>2, <4>5
    <3> HIDE DEF x
    <3> HIDE DEF q
    <3>2. /\ req' \in [Handlers -> Requests] /\ Others(h)
          /\ req'[h].pc = x /\ req'[h].body = req[h].body
      BY <3>1, <3>q, <1>a, Become
    <3>3. HandlerOK(h)'
      BY <3>1, <3>2, <2>1 DEF HandlerOK, Authenticating
    <3> QED
      BY <1>1, <3>2, <3>3, Quiet DEF LoadTarget
  <2> QED
    BY <2>2, <2>3
<1>2. CASE CommitUser(h)
  <2>1. Goto(h, "audit") /\ "audit" \in Steps
    BY <1>2 DEF CommitUser, Steps
  <2>2. HandlerOK(h)'
    BY <1>2, <1>a, <2>1, GotoFields DEF HandlerOK, Authenticating
  <2>3. BaseOK' /\ RowsInUse' /\ RowsKept
    BY <1>2, <1>a, <2>1, GotoFields, FlushUserType
    DEF CommitUser, sessionRows, BaseInv, BaseOK, RowsInUse, RowsKept, Gone
  <2> QED
    BY <1>a, <2>1, <2>2, <2>3, GotoFields, Assemble
<1>3. CASE CountAdmins(h)
  <2>1. CASE Respond(h)
    BY <1>3, <1>a, <2>1, RespondFields, Quiet DEF CountAdmins
  <2>2. CASE Goto(h, "commitDelete")
    <3>1. HandlerOK(h)'
      BY <1>3, <1>a, <2>2, GotoFields DEF CountAdmins, HandlerOK, Authenticating, Steps
    <3> QED
      BY <1>3, <1>a, <2>2, <3>1, GotoFields, Quiet DEF CountAdmins, Steps
  <2> QED
    BY <1>3, <2>1, <2>2 DEF CountAdmins
<1>4. CASE CommitDelete(h)
  <2>1. Goto(h, "select") /\ "select" \in Steps
    BY <1>4 DEF CommitDelete, Steps
  <2>2. HandlerOK(h)'
    BY <1>4, <1>a, <2>1, GotoFields DEF CommitDelete, HandlerOK, Authenticating
  <2>3. BaseOK' /\ RowsInUse' /\ RowsKept
    BY <1>4, <1>a, <2>1, GotoFields
    DEF CommitDelete, sessionRows, BaseInv, BaseOK, RowsInUse, RowsKept, Gone
  <2> QED
    BY <1>a, <2>1, <2>2, <2>3, GotoFields, Assemble
<1>5. CASE WriteAudit(h)
  BY <1>5, <1>a, RespondFields, Quiet DEF WriteAudit
<1> QED
  BY <1>1, <1>2, <1>3, <1>4, <1>5

\* create_user.
LEMMA AdminCreateBase ==
    ASSUME BaseInv, NEW h \in Handlers, CheckEmail(h) \/ InsertUser(h)
    PROVE  BaseInv'
<1> USE DEF At
<1>a. BaseOK /\ HandlerOK(h) /\ req[h] \in Requests
  BY DEF BaseInv, BaseOK
<1>1. CASE CheckEmail(h)
  <2>1. CASE Respond(h)
    BY <1>1, <1>a, <2>1, RespondFields, Quiet DEF CheckEmail
  <2>2. CASE Goto(h, "insertUser")
    <3>1. HandlerOK(h)'
      BY <1>1, <1>a, <2>2, GotoFields
      DEF CheckEmail, IsAdmin, HandlerOK, Authenticating, Steps
    <3> QED
      BY <1>1, <1>a, <2>2, <3>1, GotoFields, Quiet DEF CheckEmail, Steps
  <2> QED
    BY <1>1, <2>1, <2>2 DEF CheckEmail
<1>2. CASE InsertUser(h)
  <2>1. CASE Respond(h) /\ UNCHANGED <<account, userRole, active>>
    BY <1>2, <1>a, <2>1, RespondFields, Quiet DEF InsertUser, tables
  <2>2. CASE ~(Respond(h) /\ UNCHANGED <<account, userRole, active>>)
    <3>1. Goto(h, "audit") /\ "audit" \in Steps
      BY <1>2, <2>2 DEF InsertUser, Steps
    <3>2. HandlerOK(h)'
      BY <1>a, <3>1, GotoFields DEF HandlerOK, Authenticating
    <3>3. req[h].body.newRole \in Roles
      BY <1>2, <1>a DEF InsertUser, HandlerOK
    <3>a. /\ account' \in [Users -> {"absent", "live", "deleted"}]
          /\ userRole' \in [Users -> Roles] /\ active' \in [Users -> BOOLEAN]
      <4> DEFINE b == req[h].body
      <4>1. /\ account' = [account EXCEPT ![b.target] = "live"]
            /\ userRole' = [userRole EXCEPT ![b.target] = b.newRole]
            /\ active' = [active EXCEPT ![b.target] = TRUE]
        BY <1>2, <2>2 DEF InsertUser
      <4> HIDE DEF b
      <4>2. account' \in [Users -> {"absent", "live", "deleted"}]
        BY <4>1, <1>a DEF BaseOK
      <4>3. userRole' \in [Users -> Roles]
        BY <4>1, <1>a, <3>3 DEF BaseOK, b
      <4>4. active' \in [Users -> BOOLEAN]
        BY <4>1, <1>a DEF BaseOK
      <4> QED
        BY <4>2, <4>3, <4>4
    <3>4. BaseOK' /\ RowsInUse' /\ RowsKept
      BY <1>2, <1>a, <3>1, <3>a, GotoFields
      DEF InsertUser, sessionRows, BaseInv, BaseOK, RowsInUse, RowsKept, Gone
    <3> QED
      BY <1>a, <3>1, <3>2, <3>4, GotoFields, Assemble
  <2> QED
    BY <2>1, <2>2
<1> QED
  BY <1>1, <1>2

\* patch_role_permissions, around the revocations.
LEMMA AdminPatchBase ==
    ASSUME BaseInv, NEW h \in Handlers,
           \/ LoadPatchedRole(h) \/ CommitPerms(h) \/ SelectMembers(h) \/ RevokeNextMember(h)
    PROVE  BaseInv'
<1> USE DEF At
<1>a. BaseOK /\ HandlerOK(h) /\ req[h] \in Requests
  BY DEF BaseInv, BaseOK
<1>1. CASE LoadPatchedRole(h)
  <2>0. PICK cached \in BOOLEAN :
          req' = [req EXCEPT ![h].pc = "commitPerms",
                             ![h].perms = IF cached THEN @ ELSE perms[req[h].body.newRole]]
    BY <1>1 DEF LoadPatchedRole
  <2> DEFINE p == IF cached THEN req[h].perms ELSE perms[req[h].body.newRole]
  <2>1. /\ req[h].body.newRole \in Roles /\ req[h].body.newPerms \in Tags
        /\ p \in Tags \cup {None}
    BY <1>1, <1>a DEF LoadPatchedRole, IsAdmin, HandlerOK, Authenticating, BaseOK, Requests
  <2> DEFINE q == [req[h] EXCEPT !.pc = "commitPerms", !.perms = p]
  <2>2. req' = [req EXCEPT ![h] = q]
    BY <2>0
  <2> HIDE DEF p
  <2>q. q \in Requests /\ q.pc = "commitPerms" /\ q.body = req[h].body
    <3> DEFINE q1 == [req[h] EXCEPT !.pc = "commitPerms"]
               q2 == [q1 EXCEPT !.perms = p]
    <3>1. q1 \in Requests /\ q1.pc = "commitPerms" /\ q1.body = req[h].body
      BY <1>a DEF Requests, Steps
    <3>2. q = q2
      OBVIOUS
    <3> HIDE DEF q1, q
    <3>3. q2 \in Requests /\ q2.pc = "commitPerms" /\ q2.body = req[h].body
      BY <2>1, <3>1 DEF Requests
    <3> QED
      BY <3>2, <3>3
  <2> HIDE DEF q
  <2>3. /\ req' \in [Handlers -> Requests] /\ Others(h)
        /\ req'[h].pc = "commitPerms" /\ req'[h].body = req[h].body
    BY <2>2, <2>q, <1>a, Become
  <2>4. HandlerOK(h)'
    BY <2>1, <2>3 DEF HandlerOK, Authenticating
  <2> QED
    BY <1>1, <2>3, <2>4, Quiet DEF LoadPatchedRole
<1>2. CASE CommitPerms(h)
  <2>1. Goto(h, "members") /\ "members" \in Steps
    BY <1>2 DEF CommitPerms, Steps
  <2>2. req[h].body.newPerms \in Tags
    BY <1>2, <1>a DEF CommitPerms, HandlerOK
  <2>3. HandlerOK(h)'
    BY <1>a, <2>1, GotoFields DEF HandlerOK, Authenticating
  <2>4. BaseOK' /\ RowsInUse' /\ RowsKept
    BY <1>2, <1>a, <2>1, <2>2, GotoFields
    DEF CommitPerms, sessionRows, BaseInv, BaseOK, RowsInUse, RowsKept, Gone
  <2> QED
    BY <1>a, <2>1, <2>3, <2>4, GotoFields, Assemble
<1>3. CASE SelectMembers(h)
  <2> DEFINE M == {u \in Users : account[u] # "absent" /\ userRole[u] = req[h].body.newRole}
  <2> DEFINE q == [req[h] EXCEPT !.pc = "nextMember", !.members = M]
  <2>1. M \in SUBSET Users /\ req' = [req EXCEPT ![h] = q]
    BY <1>3 DEF SelectMembers
  <2> HIDE DEF M
  <2>q. q \in Requests /\ q.pc = "nextMember"
    BY <2>1, <1>a DEF Requests, Steps
  <2> HIDE DEF q
  <2>2. req' \in [Handlers -> Requests] /\ Others(h) /\ req'[h].pc = "nextMember"
    BY <2>1, <2>q, <1>a, Become
  <2>3. HandlerOK(h)'
    BY <2>2 DEF HandlerOK, Authenticating
  <2> QED
    BY <1>3, <2>2, <2>3, Quiet DEF SelectMembers
<1>4. CASE RevokeNextMember(h)
  <2>1. CASE Respond(h)
    BY <1>4, <1>a, <2>1, RespondFields, Quiet DEF RevokeNextMember
  <2>2. ASSUME NEW u \in req[h].members,
               req' = [req EXCEPT ![h].members = @ \ {u}, ![h].body.target = u,
                                  ![h].pc = "select"]
        PROVE  BaseInv'
    <3> DEFINE M == req[h].members \ {u}
               b == [req[h].body EXCEPT !.target = u]
    <3>1. u \in Users /\ M \in SUBSET Users /\ b \in Bodies /\ b.target = u
      BY <1>a DEF Requests, Bodies
    <3> DEFINE q == [req[h] EXCEPT !.members = M, !.body = b, !.pc = "select"]
    <3>2. req' = [req EXCEPT ![h] = q]
      BY <2>2, <1>a DEF BaseOK, Requests, Bodies
    <3> HIDE DEF M, b
    <3>q. q \in Requests /\ q.pc = "select" /\ q.body = b
      BY <3>1, <1>a DEF Requests, Steps
    <3> HIDE DEF q
    <3>3. /\ req' \in [Handlers -> Requests] /\ Others(h)
          /\ req'[h].pc = "select" /\ req'[h].body = b
      BY <3>2, <3>q, <1>a, Become
    <3>4. HandlerOK(h)'
      BY <3>1, <3>3 DEF HandlerOK, Authenticating
    <3> QED
      BY <1>4, <3>3, <3>4, Quiet DEF RevokeNextMember
  <2> QED
    BY <1>4, <2>1, <2>2 DEF RevokeNextMember
<1> QED
  BY <1>1, <1>2, <1>3, <1>4

\* Every step of a handler.
LEMMA ServingBase ==
    ASSUME BaseInv, NEW h \in Handlers, Serving(h)
    PROVE  BaseInv'
<1>1. CASE Login(h)
  BY <1>1, InsertSessionBase, CacheNewSessionBase, RespondLoginBase DEF Login
<1>2. CASE Serve(h) \/ RefuseRole(h) \/ RefuseSelf(h)
  BY <1>2, RespondFields, Quiet DEF Serve, RefuseRole, RefuseSelf, BaseInv
<1> QED
  BY <1>1, <1>2, GetCurrentUserBase, LogoutBase, RevokeAllBase,
     AdminUpdateBase, AdminCreateBase, AdminPatchBase
  DEF Serving, AdminEndpoint

-----------------------------------------------------------------------------
(* What one step can do to a session and to a handler *)

SessionStep(s) ==
    /\ s \in redis' => Present(s)
    /\ Caching(s)' => Caching(s) \/ (row[s] \in {"none", "active"} /\ row'[s] = "active")
    /\ row[s] = "active" /\ row'[s] # "active" => Revoking(s) \/ s \in expired
    /\ Revoking(s)' /\ s \in redis' => Revoking(s) \/ Caching(s)' \/ row[s] = "deleted"
    /\ Gone(s) => Gone(s)'
    /\ s \in expired => s \in expired'
    /\ row[s] # "none" => owner'[s] = owner[s]

\* The UPDATE of a revocation sees every row that is active by then.
UpdateStep(h) ==
    req'[h].pc = "commitRows" =>
        \/ req'[h] = req[h]
        \/ /\ UNCHANGED <<row, owner>>
           /\ req'[h].rows = RowsOf(req'[h].body.target)

Arriving(h) ==
    /\ req'[h].pc = "checkCache"
    /\ req'[h].sid \in Sids \ expired
    /\ UNCHANGED <<row, redis>>
    /\ \A s \in Sids : Caching(s)' => Caching(s)

Advancing(h) ==
    /\ req'[h].sid = req[h].sid /\ req'[h].user = req[h].user
    /\ req[h].pc \in {"checkCache", "loadSession"} =>
         \/ req'[h].pc \in {"checkCache", "loadSession"}
         \/ req[h].sid \in redis
         \/ row[req[h].sid] = "active"
    /\ req'[h].pc = "loadRole" =>
         \/ req'[h] = req[h]
         \/ active'[req'[h].user] /\ req'[h].role = userRole'[req'[h].user]
    /\ req'[h].pc = "admitted" =>
         \/ req'[h] = req[h]
         \/ req[h].pc = "loadRole" /\ req'[h].role = req[h].role
             /\ req'[h].perms = perms'[req'[h].role]

HandlerStep(h) ==
    /\ Authenticating(h)' => IF Authenticating(h) THEN Advancing(h) ELSE Arriving(h)
    /\ UpdateStep(h)

Stepped ==
    /\ \A s \in Sids : SessionStep(s)
    /\ \A h \in Handlers : HandlerStep(h)

\* A step concerns the handlers it does not belong to only through the tables.
LEMMA OwnStep ==
    ASSUME NEW h \in Handlers, Others(h), HandlerStep(h)
    PROVE  \A g \in Handlers : HandlerStep(g)
<1>1. ASSUME NEW g \in Handlers, g # h
      PROVE  HandlerStep(g)
  BY <1>1 DEF Others, HandlerStep, Advancing, UpdateStep, Authenticating
<1> QED
  BY <1>1

\* What a handler adds to Caching and Revoking by a step of its own.
Writes(h, s) == req[h].sid = s /\ req[h].pc \in {"cacheNew", "recache"}
Ends(h, s) ==
    \/ At(h, "revokeRow") /\ req[h].sid = s
    \/ At(h, "deleteKeys") /\ owner[s] = req[h].body.target /\ s \notin req[h].keys
    \/ At(h, "commitRows") /\ s \in req[h].rows

\* In a step of h, only h can come to write or to revoke the key of s.
LEMMA OtherKeys ==
    ASSUME NEW h \in Handlers, Others(h), NEW s \in Sids, owner'[s] = owner[s]
    PROVE  /\ Caching(s)' => Caching(s) \/ Writes(h, s)'
           /\ Revoking(s)' => Revoking(s) \/ Ends(h, s)'
<1>1. Caching(s)' => Caching(s) \/ Writes(h, s)'
  BY DEF Others, Caching, Writes
<1>2. Revoking(s)' => Revoking(s) \/ Ends(h, s)'
  BY DEF Others, Revoking, Ends, At
<1> QED
  BY <1>1, <1>2

Loud == {"cacheNew", "recache", "revokeRow", "deleteKeys", "commitRows"}

\* A step that writes no row and no key, into a step that does not either.
LEMMA Still ==
    ASSUME NEW h \in Handlers, Others(h), HandlerStep(h),
           UNCHANGED <<row, owner, redis, expired>>, req'[h].pc \notin Loud
    PROVE  Stepped
<1>1. ASSUME NEW s \in Sids PROVE SessionStep(s)
  BY OtherKeys DEF SessionStep, Loud, Present, Gone, Writes, Ends, At
<1> QED
  BY <1>1, OwnStep DEF Stepped

\* An answer is such a step.
LEMMA Answered ==
    ASSUME BaseOK, NEW h \in Handlers, Respond(h), UNCHANGED <<row, owner, redis, expired>>
    PROVE  Stepped
<1>1. Others(h) /\ req'[h].pc = "idle"
  BY RespondFields DEF Idle
<1>2. HandlerStep(h)
  BY <1>1 DEF HandlerStep, UpdateStep, Authenticating
<1> QED
  BY <1>1, <1>2, Still DEF Loud

\* So is any step of an endpoint that is not about sessions.
LEMMA Elsewhere ==
    ASSUME NEW h \in Handlers, Others(h), UNCHANGED <<row, owner, redis, expired>>,
           req'[h].pc \in {"insert", "respond", "deleteRow", "select", "count", "commitUser",
                           "commitDelete", "insertUser", "commitPerms", "members",
                           "nextMember", "audit"}
    PROVE  Stepped
<1>1. HandlerStep(h)
  BY DEF HandlerStep, UpdateStep, Authenticating
<1> QED
  BY <1>1, Still DEF Loud

-----------------------------------------------------------------------------
(* Every step is of this kind *)

\* Each action is such a step; first the login.
LEMMA LoginStepped ==
    ASSUME BaseInv, NEW h \in Handlers, Login(h)
    PROVE  Stepped
<1> USE DEF At
<1>a. BaseOK /\ HandlerOK(h) /\ req[h] \in Requests
  BY DEF BaseInv, BaseOK
<1>1. CASE InsertSession(h)
  <2>1. PICK s \in Sids :
          /\ row[s] = "none"
          /\ row' = [row EXCEPT ![s] = "active"]
          /\ owner' = [owner EXCEPT ![s] = req[h].user]
          /\ req' = [req EXCEPT ![h].sid = s, ![h].pc = "cacheNew"]
    BY <1>1 DEF InsertSession
  <2>2. Others(h) /\ req'[h].sid = s /\ req'[h].pc = "cacheNew"
    BY <2>1, <1>a DEF BaseOK, Others, Requests
  <2>3. HandlerStep(h) /\ ~Ends(h, s)'
    BY <2>2 DEF HandlerStep, UpdateStep, Authenticating, Ends
  <2>4. /\ UNCHANGED <<redis, expired>>
        /\ row \in [Sids -> RowStates] /\ owner \in [Sids -> Users \cup {None}]
    BY <1>1, <1>a DEF InsertSession, BaseOK
  <2>5. SessionStep(s)
    <3>1. Caching(s)' /\ row'[s] = "active"
      BY <2>1, <2>2, <2>4 DEF Caching
    <3> QED
      BY <2>1, <2>4, <3>1 DEF SessionStep, Present, Gone
  <2>6. ASSUME NEW z \in Sids, z # s PROVE SessionStep(z)
    <3>1. owner'[z] = owner[z] /\ row'[z] = row[z]
      BY <2>1, <2>4, <2>6
    <3>2. ~Writes(h, z)' /\ ~Ends(h, z)'
      BY <2>2, <2>6 DEF Writes, Ends
    <3> QED
      BY <2>2, <2>4, <3>1, <3>2, OtherKeys DEF SessionStep, Present, Gone
  <2> QED
    BY <2>2, <2>3, <2>5, <2>6, OwnStep DEF Stepped
<1>2. CASE CacheNewSession(h)
  <2>1. Goto(h, "respond") /\ "respond" \in Steps
    BY <1>2 DEF CacheNewSession, Steps
  <2>2. Others(h) /\ req'[h].pc = "respond"
    BY <2>1, <1>a, GotoFields
  <2>3. HandlerStep(h)
    BY <2>2 DEF HandlerStep, UpdateStep, Authenticating
  <2>4. ASSUME NEW s \in Sids PROVE SessionStep(s)
    <3>1. s \in redis' => Present(s)
      BY <1>2 DEF CacheNewSession, Present, Caching
    <3> QED
      BY <1>2, <2>2, <3>1, OtherKeys
      DEF CacheNewSession, sessionRows, SessionStep, Gone, Writes, Ends
  <2> QED
    BY <2>2, <2>3, <2>4, OwnStep DEF Stepped
<1>3. CASE RespondLogin(h)
  BY <1>3, <1>a, Answered DEF RespondLogin, sessionRows
<1> QED
  BY <1>1, <1>2, <1>3 DEF Login

\* get_current_user.
LEMMA GetCurrentUserStepped ==
    ASSUME BaseInv, NEW h \in Handlers, GetCurrentUser(h)
    PROVE  Stepped
<1> USE DEF At
<1>a. BaseOK /\ HandlerOK(h) /\ req[h] \in Requests
  BY DEF BaseInv, BaseOK
<1>1. CASE CheckCache(h)
  <2>1. PICK x \in {"loadUser", "loadSession"} :
          Goto(h, x) /\ (x = "loadUser" => req[h].sid \in redis)
    BY <1>1 DEF CheckCache
  <2>2. Others(h) /\ req'[h].pc = x /\ req'[h].sid = req[h].sid /\ req'[h].user = req[h].user
    BY <2>1, <1>a, GotoFields DEF Steps
  <2>3. HandlerStep(h)
    BY <1>1, <2>1, <2>2 DEF CheckCache, HandlerStep, Advancing, UpdateStep, Authenticating
  <2> QED
    BY <1>1, <2>2, <2>3, Still DEF CheckCache, sessionRows, Loud
<1>2. CASE LoadSession(h)
  <2>1. CASE Respond(h)
    BY <1>2, <1>a, <2>1, Answered DEF LoadSession, sessionRows
  <2>2. CASE ~Respond(h)
    <3>1. /\ Goto(h, "recache") /\ row[req[h].sid] = "active"
          /\ UNCHANGED <<row, owner, redis, expired>>
      BY <1>2, <2>2 DEF LoadSession, sessionRows
    <3>2. /\ Others(h) /\ req'[h].pc = "recache"
          /\ req'[h].sid = req[h].sid /\ req'[h].user = req[h].user
      BY <3>1, <1>a, GotoFields DEF Steps
    <3>3. HandlerStep(h)
      BY <1>2, <3>1, <3>2 DEF LoadSession, HandlerStep, Advancing, UpdateStep, Authenticating
    <3>4. ASSUME NEW s \in Sids PROVE SessionStep(s)
      BY <3>1, <3>2, OtherKeys DEF SessionStep, Present, Gone, Writes, Ends
    <3> QED
      BY <3>2, <3>3, <3>4, OwnStep DEF Stepped
  <2> QED
    BY <2>1, <2>2
<1>3. CASE Recache(h)
  <2>1. Goto(h, "loadUser") /\ "loadUser" \in Steps
    BY <1>3 DEF Recache, Steps
  <2>2. /\ Others(h) /\ req'[h].pc = "loadUser"
        /\ req'[h].sid = req[h].sid /\ req'[h].user = req[h].user
    BY <2>1, <1>a, GotoFields
  <2>3. HandlerStep(h)
    BY <1>3, <2>2 DEF Recache, HandlerStep, Advancing, UpdateStep, Authenticating
  <2>4. ASSUME NEW s \in Sids PROVE SessionStep(s)
    <3>1. s \in redis' => Present(s)
      BY <1>3 DEF Recache, Present, Caching
    <3> QED
      BY <1>3, <2>2, <3>1, OtherKeys
      DEF Recache, sessionRows, SessionStep, Gone, Writes, Ends
  <2> QED
    BY <2>2, <2>3, <2>4, OwnStep DEF Stepped
<1>4. CASE LoadUser(h)
  <2>1. CASE Respond(h)
    BY <1>4, <1>a, <2>1, Answered DEF LoadUser, sessionRows
  <2>2. CASE ~Respond(h)
    <3>1. /\ req' = [req EXCEPT ![h].role = userRole[req[h].user], ![h].pc = "loadRole"]
          /\ active[req[h].user]
          /\ UNCHANGED <<userRole, active>>
      BY <1>4, <2>2 DEF LoadUser, tables
    <3>2. /\ Others(h) /\ req'[h].pc = "loadRole" /\ req'[h].role = userRole[req[h].user]
          /\ req'[h].sid = req[h].sid /\ req'[h].user = req[h].user
      BY <3>1, <1>a DEF BaseOK, Others, Requests
    <3>3. HandlerStep(h)
      BY <1>4, <3>1, <3>2 DEF LoadUser, HandlerStep, Advancing, UpdateStep, Authenticating
    <3> QED
      BY <1>4, <3>2, <3>3, Still DEF LoadUser, sessionRows, Loud
  <2> QED
    BY <2>1, <2>2
<1>5. CASE LoadRole(h)
  <2>1. /\ Others(h) /\ req'[h].pc = "admitted" /\ req'[h].role = req[h].role
        /\ req'[h].sid = req[h].sid /\ req'[h].user = req[h].user
        /\ req'[h].perms = perms[req[h].role]
    BY <1>5, <1>a DEF LoadRole, BaseOK, Others, Requests
  <2>2. HandlerStep(h)
    BY <1>5, <2>1 DEF LoadRole, tables, HandlerStep, Advancing, UpdateStep, Authenticating
  <2> QED
    BY <1>5, <2>1, <2>2, Still DEF LoadRole, sessionRows, Loud
<1> QED
  BY <1>1, <1>2, <1>3, <1>4, <1>5 DEF GetCurrentUser

\* The logout.
LEMMA LogoutStepped ==
    ASSUME BaseInv, NEW h \in Handlers, Logout(h)
    PROVE  Stepped
<1> USE DEF At
<1>a. BaseOK /\ HandlerOK(h) /\ req[h] \in Requests
  BY DEF BaseInv, BaseOK
<1>1. CASE LogoutKey(h)
  <2>1. Goto(h, "revokeRow") /\ "revokeRow" \in Steps
    BY <1>1 DEF LogoutKey, Steps
  <2>2. Others(h) /\ req'[h].pc = "revokeRow" /\ req'[h].sid = req[h].sid
    BY <2>1, <1>a, GotoFields
  <2>3. HandlerStep(h)
    BY <2>2 DEF HandlerStep, UpdateStep, Authenticating
  <2>4. ASSUME NEW s \in Sids PROVE SessionStep(s)
    BY <1>1, <2>2, OtherKeys
    DEF LogoutKey, sessionRows, SessionStep, Present, Gone, Writes, Ends
  <2> QED
    BY <2>2, <2>3, <2>4, OwnStep DEF Stepped
<1>2. CASE LogoutRow(h)
  <2>1. Goto(h, "deleteRow") /\ "deleteRow" \in Steps
    BY <1>2 DEF LogoutRow, Steps
  <2>2. Others(h) /\ req'[h].pc = "deleteRow"
    BY <2>1, <1>a, GotoFields
  <2>3. HandlerStep(h)
    BY <2>2 DEF HandlerStep, UpdateStep, Authenticating
  <2>4. ASSUME NEW s \in Sids PROVE SessionStep(s)
    <3>1. row[s] = "active" /\ row'[s] # "active" => Revoking(s)
      BY <1>2, <1>a DEF LogoutRow, BaseOK, Revoking
    <3>2. Gone(s) => Gone(s)'
      BY <1>2, <1>a DEF LogoutRow, BaseOK, Gone
    <3> QED
      BY <1>2, <2>2, <3>1, <3>2, OtherKeys
      DEF LogoutRow, SessionStep, Present, Writes, Ends
  <2> QED
    BY <2>2, <2>3, <2>4, OwnStep DEF Stepped
<1>3. CASE LogoutDelete(h)
  <2>1. Others(h) /\ req'[h].pc = "idle"
    BY <1>3, <1>a, RespondFields DEF LogoutDelete, Idle
  <2>2. HandlerStep(h)
    BY <2>1 DEF HandlerStep, UpdateStep, Authenticating
  <2>3. Gone(req[h].sid) /\ req[h].sid \in Sids
    BY <1>3, <1>a DEF LogoutDelete, HandlerOK
  <2>4. ASSUME NEW s \in Sids PROVE SessionStep(s)
    <3>1. row[s] = "active" => row'[s] = "active"
      BY <1>3, <1>a, <2>3 DEF LogoutDelete, BaseOK, Gone
    <3>2. Gone(s) => Gone(s)'
      BY <1>3, <1>a DEF LogoutDelete, BaseOK, Gone
    <3> QED
      BY <1>3, <2>1, <3>1, <3>2, OtherKeys
      DEF LogoutDelete, SessionStep, Present, Writes, Ends
  <2> QED
    BY <2>1, <2>2, <2>4, OwnStep DEF Stepped
<1> QED
  BY <1>1, <1>2, <1>3 DEF Logout

\* The revocation of all sessions of a user.
LEMMA RevokeAllStepped ==
    ASSUME BaseInv, NEW h \in Handlers, RevokeAll(h)
    PROVE  Stepped
<1> USE DEF At
<1>a. BaseOK /\ HandlerOK(h) /\ req[h] \in Requests
  BY DEF BaseInv, BaseOK
<1>1. CASE SelectSessions(h)
  <2>1. /\ Others(h) /\ req'[h].pc = "deleteKeys" /\ req'[h].body = req[h].body
        /\ req'[h].keys = RowsOf(req[h].body.target)
    BY <1>1, <1>a DEF SelectSessions, BaseOK, Others, Requests
  <2>2. HandlerStep(h)
    BY <2>1 DEF HandlerStep, UpdateStep, Authenticating
  <2>3. ASSUME NEW s \in Sids PROVE SessionStep(s)
    <3>1. Ends(h, s)' /\ s \in redis => row[s] = "deleted"
      BY <1>1, <1>a, <2>1
      DEF SelectSessions, sessionRows, Ends, RowsOf, BaseInv, BaseOK, RowsInUse, RowStates
    <3> QED
      BY <1>1, <2>1, <3>1, OtherKeys
      DEF SelectSessions, sessionRows, SessionStep, Present, Gone, Writes
  <2> QED
    BY <2>1, <2>2, <2>3, OwnStep DEF Stepped
<1>2. CASE DeleteKey(h)
  <2>1. PICK k \in req[h].keys :
          /\ redis' = redis \ {k}
          /\ req' = [req EXCEPT ![h].keys = @ \ {k}]
    BY <1>2 DEF DeleteKey
  <2>2. /\ Others(h) /\ req'[h].pc = "deleteKeys" /\ req'[h].body = req[h].body
        /\ req'[h].keys = req[h].keys \ {k}
    BY <1>2, <2>1, <1>a DEF DeleteKey, BaseOK, Others, Requests
  <2>3. HandlerStep(h)
    BY <2>2 DEF HandlerStep, UpdateStep, Authenticating
  <2>4. ASSUME NEW s \in Sids PROVE SessionStep(s)
    <3>1. Ends(h, s)' /\ s \in redis' => Ends(h, s)
      BY <1>2, <2>1, <2>2 DEF DeleteKey, sessionRows, Ends
    <3>2. Ends(h, s) => Revoking(s)
      BY DEF Ends, Revoking
    <3> QED
      BY <1>2, <2>1, <2>2, <3>1, <3>2, OtherKeys
      DEF DeleteKey, sessionRows, SessionStep, Present, Gone, Writes
  <2> QED
    BY <2>2, <2>3, <2>4, OwnStep DEF Stepped
<1>3. CASE UpdateSessions(h)
  <2>1. /\ Others(h) /\ req'[h].pc = "commitRows" /\ req'[h].body = req[h].body
        /\ req'[h].rows = RowsOf(req[h].body.target)
    BY <1>3, <1>a DEF UpdateSessions, BaseOK, Others, Requests
  <2>2. UNCHANGED <<row, owner, redis, expired>>
    BY <1>3 DEF UpdateSessions, sessionRows
  <2>3. HandlerStep(h)
    BY <2>1, <2>2 DEF HandlerStep, UpdateStep, Authenticating
  <2>4. ASSUME NEW s \in Sids PROVE SessionStep(s)
    <3>1. Ends(h, s)' => Revoking(s)
      BY <1>3, <1>a, <2>1 DEF UpdateSessions, Ends, Revoking, RowsOf
    <3> QED
      BY <2>1, <2>2, <3>1, OtherKeys DEF SessionStep, Present, Gone, Writes
  <2> QED
    BY <2>1, <2>3, <2>4, OwnStep DEF Stepped
<1>4. CASE CommitRevocation(h)
  <2>1. Others(h) /\ req'[h].pc \in {"nextMember", "audit"}
    BY <1>4, <1>a DEF CommitRevocation, BaseOK, Others, Requests
  <2>2. HandlerStep(h)
    BY <2>1 DEF HandlerStep, UpdateStep, Authenticating
  <2>3. ASSUME NEW s \in Sids PROVE SessionStep(s)
    <3>1. row'[s] = row[s] \/ (row[s] = "active" /\ Revoking(s))
      BY <1>4 DEF CommitRevocation, Revoking
    <3> QED
      BY <1>4, <2>1, <3>1, OtherKeys
      DEF CommitRevocation, SessionStep, Present, Gone, Writes, Ends
  <2> QED
    BY <2>1, <2>2, <2>3, OwnStep DEF Stepped
<1> QED
  BY <1>1, <1>2, <1>3, <1>4 DEF RevokeAll

\* The endpoints of the administration, up to a revocation.
LEMMA AdminStepped ==
    ASSUME BaseInv, NEW h \in Handlers, AdminEndpoint(h)
    PROVE  Stepped
<1> USE DEF At
<1>a. BaseOK /\ HandlerOK(h) /\ req[h] \in Requests
  BY DEF BaseInv, BaseOK
<1>b. UNCHANGED <<row, owner, redis, expired>>
  BY DEF AdminEndpoint, sessionRows, RefuseRole, RefuseSelf, LoadTarget, CommitUser,
         CountAdmins, CommitDelete, WriteAudit, CheckEmail, InsertUser, LoadPatchedRole,
         CommitPerms, SelectMembers, RevokeNextMember
<1>1. CASE Respond(h)
  BY <1>1, <1>a, <1>b, Answered
<1>2. ASSUME NEW x \in {"audit", "commitDelete", "select", "insertUser", "members"}, Goto(h, x)
      PROVE  Stepped
  <2>1. Others(h) /\ req'[h].pc = x
    BY <1>2, <1>a, GotoFields DEF Steps
  <2> QED
    BY <1>b, <2>1, Elsewhere
<1>3. CASE LoadTarget(h) /\ ~Respond(h)
  <2>0. /\ req[h].body.target \in Users /\ req[h].role \in Roles
        /\ req[h].op \in {"update", "delete"}
    BY <1>3, <1>a DEF LoadTarget, IsAdmin, HandlerOK, Authenticating
  <2>1. PICK role \in Roles, act \in BOOLEAN :
          req' = [req EXCEPT ![h].loadedRole = role, ![h].loadedActive = act,
                             ![h].pc = AfterLoading(h, role)]
    BY <1>3, <1>a, <2>0, LoadedTarget
  <2> DEFINE next == AfterLoading(h, role)
  <2>2. next \in {"select", "commitUser", "count", "commitDelete"}
    BY <2>0, LoadedNext
  <2> HIDE DEF next
  <2>3. Others(h) /\ req'[h].pc = next
    BY <2>1, <1>a DEF next, BaseOK, Others, Requests
  <2> QED
    BY <1>b, <2>2, <2>3, Elsewhere
<1>4. CASE LoadPatchedRole(h)
  <2>1. Others(h) /\ req'[h].pc = "commitPerms"
    BY <1>4, <1>a DEF LoadPatchedRole, BaseOK, Others, Requests
  <2> QED
    BY <1>b, <2>1, Elsewhere
<1>5. CASE SelectMembers(h)
  <2>1. Others(h) /\ req'[h].pc = "nextMember"
    BY <1>5, <1>a DEF SelectMembers, BaseOK, Others, Requests
  <2> QED
    BY <1>b, <2>1, Elsewhere
<1>6. CASE RevokeNextMember(h) /\ ~Respond(h)
  <2>1. PICK u \in req[h].members :
          req' = [req EXCEPT ![h].members = @ \ {u}, ![h].body.target = u, ![h].pc = "select"]
    BY <1>6 DEF RevokeNextMember
  <2>2. Others(h) /\ req'[h].pc = "select"
    BY <2>1, <1>a DEF BaseOK, Others, Requests
  <2> QED
    BY <1>b, <2>2, Elsewhere
<1>7. CASE \/ CommitUser(h) \/ CountAdmins(h) \/ CommitDelete(h) \/ CheckEmail(h)
           \/ InsertUser(h) \/ CommitPerms(h)
  BY <1>1, <1>2, <1>7
  DEF CommitUser, CountAdmins, CommitDelete, CheckEmail, InsertUser, CommitPerms
<1> QED
  BY <1>1, <1>3, <1>4, <1>5, <1>6, <1>7
  DEF AdminEndpoint, RefuseRole, RefuseSelf, WriteAudit

\* The environment.
LEMMA EnvironmentStepped ==
    ASSUME BaseInv, Environment
    PROVE  Stepped
<1>a. BaseOK
  BY DEF BaseInv
<1>1. ASSUME NEW h \in Handlers, NEW u \in Users, Authenticate(h, u) PROVE Stepped
  <2>1. Others(h) /\ req'[h].pc = "insert"
    BY <1>1, <1>a DEF Authenticate, Idle, BaseOK, Others
  <2> QED
    BY <1>1, <2>1, Elsewhere DEF Authenticate, sessionRows
<1>2. ASSUME NEW h \in Handlers, Receive(h) PROVE Stepped
  <2>1. PICK s \in held \ expired, c \in Calls :
          req' = [req EXCEPT ![h] = [Idle EXCEPT !.op = c.op, !.pc = "checkCache",
                                     !.sid = s, !.user = owner[s], !.body = c.body]]
    BY <1>2 DEF Receive
  <2>2. Others(h) /\ req'[h].pc = "checkCache" /\ req'[h].sid = s
    BY <2>1, <1>a DEF Idle, BaseOK, Others
  <2>3. UNCHANGED <<row, owner, redis, expired>> /\ s \in Sids \ expired
    BY <1>2, <1>a DEF Receive, sessionRows, BaseOK
  <2>4. \A z \in Sids : Caching(z)' => Caching(z)
    BY <2>2, <2>3, OtherKeys DEF Writes
  <2>5. HandlerStep(h)
    BY <1>2, <2>2, <2>3, <2>4 DEF Receive, At, HandlerStep, Arriving, UpdateStep, Authenticating
  <2> QED
    BY <2>2, <2>3, <2>5, Still DEF Loud
<1>3. ASSUME NEW h \in Handlers, Abort(h) PROVE Stepped
  BY <1>3, <1>a, Answered DEF Abort, sessionRows
<1>4. ASSUME UNCHANGED <<owner, req, userRole, active, perms>>,
             redis' \subseteq redis, expired \subseteq expired',
             \A s \in Sids : row'[s] = row[s] \/ (s \in expired /\ row'[s] = "deleted")
      PROVE  Stepped
  <2>1. ASSUME NEW s \in Sids PROVE SessionStep(s)
    BY <1>4 DEF SessionStep, Present, Gone, Caching, Revoking, At
  <2>2. ASSUME NEW h \in Handlers PROVE HandlerStep(h)
    BY <1>4 DEF HandlerStep, Advancing, UpdateStep, Authenticating
  <2> QED
    BY <2>1, <2>2 DEF Stepped
<1>5. ASSUME NEW s \in Sids, EvictKey(s) \/ Expire(s) PROVE Stepped
  BY <1>4, <1>5 DEF EvictKey, Expire, tables, sessionRows
<1>6. CASE CleanupSessions
  BY <1>4, <1>6 DEF CleanupSessions, tables
<1> QED
  BY <1>1, <1>2, <1>3, <1>5, <1>6 DEF Environment

\* Every step is such a step.
LEMMA NextStepped ==
    ASSUME BaseInv, Next
    PROVE  BaseInv' /\ Stepped /\ Observe
<1>1. ASSUME NEW h \in Handlers, Serving(h) PROVE BaseInv' /\ Stepped
  <2>1. CASE Serve(h)
    BY <2>1, <1>1, ServingBase, Answered DEF Serve, sessionRows, BaseInv
  <2> QED
    BY <1>1, <2>1, ServingBase, LoginStepped, GetCurrentUserStepped, LogoutStepped,
       RevokeAllStepped, AdminStepped
    DEF Serving
<1>2. CASE Environment
  BY <1>2, EnvironmentBase, EnvironmentStepped DEF Next
<1> QED
  BY <1>1, <1>2 DEF Next

-----------------------------------------------------------------------------
(* The inductive invariant is kept *)

\* What is observed keeps TypeOK.
LEMMA HistoryType ==
    ASSUME BaseInv, BaseInv', TypeOK, Observe
    PROVE  TypeOK'
<1>1. raced' \subseteq Sids
  BY DEF Observe, TypeOK
<1>2. ASSUME NEW h \in Handlers PROVE hist'[h] \in Histories
  <2>1. CASE ~Authenticating(h)'
    BY <2>1 DEF Observe, NoHistory, Histories, RowStates
  <2>2. CASE Authenticating(h)'
    <3>1. Now(h)' \in Histories
      <4>1. /\ req'[h].sid \in Sids /\ req'[h].user \in Users
            /\ row'[req'[h].sid] \in RowStates
        BY <2>2 DEF BaseInv, BaseOK, HandlerOK, RowsInUse
      <4>2. /\ userRole'[req'[h].user] \in Roles /\ active'[req'[h].user] \in BOOLEAN
            /\ {<<r, perms'[r]>> : r \in Roles} \in SUBSET (Roles \X Tags)
        BY <4>1 DEF BaseInv, BaseOK
      <4> QED
        BY <4>1, <4>2 DEF Now, Histories
    <3>2. hist[h] \in Histories
      BY DEF TypeOK
    <3>3. CASE ~Authenticating(h)
      BY <2>2, <3>1, <3>3 DEF Observe
    <3>4. CASE Authenticating(h)
      <4>1. hist'[h] = [roles |-> hist[h].roles \cup Now(h)'.roles,
                        grants |-> hist[h].grants \cup Now(h)'.grants,
                        wasActive |-> hist[h].wasActive \/ Now(h)'.wasActive,
                        arrival |-> hist[h].arrival]
        BY <2>2, <3>4 DEF Observe
      <4> QED
        BY <3>1, <3>2, <4>1 DEF Histories
    <3> QED
      BY <3>3, <3>4
  <2> QED
    BY <2>1, <2>2
<1>3. hist' \in [Handlers -> Histories]
  BY <1>2 DEF Observe
<1>4. missed' \in [Handlers -> SUBSET Sids]
  BY DEF Observe, TypeOK
<1> QED
  BY <1>1, <1>3, <1>4 DEF TypeOK, BaseInv

\* Such a step keeps RaceInv.
LEMMA RaceKept ==
    ASSUME BaseInv, BaseInv', RaceInv, Stepped, Observe
    PROVE  RaceInv'
<1>1. ASSUME NEW s \in Sids
      PROVE  /\ s \in raced => s \in raced'
             /\ Excused(s) => Excused(s)'
             /\ Caching(s)' /\ Revoking(s)' => s \in raced'
             /\ SessionStep(s)
  BY DEF Observe, Excused, Stepped, SessionStep
<1>2. ASSUME NEW s \in Sids, Present(s)'
      PROVE  Present(s) \/ (row[s] \in {"none", "active"} /\ row'[s] = "active")
  BY <1>1, <1>2 DEF SessionStep, Present
<1>3. ASSUME NEW s \in Sids, Present(s)'
      PROVE  row'[s] = "active" \/ Excused(s)'
  BY <1>1, <1>2, <1>3 DEF SessionStep, RaceInv, Excused
<1>4. ASSUME NEW s \in Sids, Present(s)', Revoking(s)'
      PROVE  Excused(s)'
  <2>1. CASE Caching(s)'
    BY <1>1, <1>4, <2>1 DEF Excused
  <2>2. CASE ~Caching(s)'
    <3>1. s \in redis' /\ Present(s)
      BY <1>1, <1>4, <2>2 DEF Present, SessionStep
    <3>2. Revoking(s) \/ row[s] = "deleted"
      BY <1>1, <1>4, <2>2, <3>1 DEF SessionStep
    <3> QED
      BY <1>1, <3>1, <3>2 DEF RaceInv
  <2> QED
    BY <2>1, <2>2
<1>5. ASSUME NEW h \in Handlers, NEW s \in Sids, Authenticating(h)', CameTooLate(h)',
             req'[h].sid = s, s \notin raced'
      PROVE  /\ req'[h].pc \in {"checkCache", "loadSession"}
             /\ Gone(s)' /\ ~Present(s)'
  <2>1. CASE Authenticating(h)
    <3>1. Advancing(h) /\ s = req[h].sid
      BY <1>5, <2>1 DEF Stepped, HandlerStep, Advancing
    <3>2. CameTooLate(h)
      BY <1>5, <2>1 DEF Observe, CameTooLate
    <3>3. /\ req[h].pc \in {"checkCache", "loadSession"}
          /\ Gone(s) /\ ~Present(s)
      BY <1>1, <1>5, <2>1, <3>1, <3>2 DEF RaceInv
    <3>4. Gone(s)' /\ ~Present(s)'
      BY <1>1, <1>2, <3>3 DEF SessionStep, Gone
    <3>5. req'[h].pc \in {"checkCache", "loadSession"}
      BY <3>1, <3>3 DEF Advancing, Present, Gone
    <3> QED
      BY <3>4, <3>5
  <2>2. CASE ~Authenticating(h)
    <3>1. Arriving(h)
      BY <1>5, <2>2 DEF Stepped, HandlerStep
    <3>2. Gone(s)'
      BY <1>5, <2>2 DEF Observe, CameTooLate, Now, Gone
    <3>3. Gone(s) /\ s \notin expired /\ (Present(s)' => Present(s))
      BY <1>5, <3>1, <3>2 DEF Arriving, Gone, Present
    <3>4. ~Present(s)
      BY <1>1, <1>5, <3>3 DEF RaceInv, Gone, Excused
    <3> QED
      BY <3>1, <3>2, <3>3, <3>4 DEF Arriving
  <2> QED
    BY <2>1, <2>2
<1> QED
  BY <1>3, <1>4, <1>5 DEF RaceInv

\* Such a step keeps HistInv.
LEMMA HistKept ==
    ASSUME BaseInv, BaseInv', TypeOK, HistInv, Stepped, Observe
    PROVE  HistInv'
<1>1. ASSUME NEW h \in Handlers, req'[h].pc \in {"loadRole", "admitted"}
      PROVE  /\ hist'[h].wasActive
             /\ req'[h].role \in hist'[h].roles
             /\ req'[h].pc = "admitted" => <<req'[h].role, req'[h].perms>> \in hist'[h].grants
  <2>1. Authenticating(h)'
    BY <1>1 DEF Authenticating
  <2>2. Authenticating(h) /\ Advancing(h)
    BY <1>1, <2>1 DEF Stepped, HandlerStep, Arriving
  <2>3. /\ hist'[h].roles = hist[h].roles \cup {userRole'[req'[h].user]}
        /\ hist'[h].grants = hist[h].grants \cup {<<r, perms'[r]>> : r \in Roles}
        /\ hist'[h].wasActive = (hist[h].wasActive \/ active'[req'[h].user])
    BY <2>1, <2>2 DEF Observe, Now
  <2>4. CASE req'[h] = req[h]
    BY <1>1, <2>3, <2>4 DEF HistInv
  <2>5. CASE req'[h] # req[h] /\ req'[h].pc = "loadRole"
    BY <2>2, <2>3, <2>5 DEF Advancing
  <2>6. CASE req'[h] # req[h] /\ req'[h].pc = "admitted"
    <3>1. /\ req[h].pc = "loadRole" /\ req'[h].role = req[h].role
          /\ req'[h].perms = perms'[req'[h].role] /\ req'[h].role \in Roles
      BY <2>2, <2>6 DEF Advancing, BaseInv, HandlerOK
    <3> QED
      BY <2>3, <3>1 DEF HistInv
  <2> QED
    BY <1>1, <2>4, <2>5, <2>6
<1> QED
  BY <1>1 DEF HistInv

\* Such a step keeps MissInv: the UPDATE finds what is active, and what is
\* active after it and was not found was committed since.
LEMMA MissKept ==
    ASSUME BaseInv, MissInv, Stepped, Observe
    PROVE  MissInv'
<1>1. ASSUME NEW h \in Handlers, NEW s \in Sids, At(h, "commitRows")',
             owner'[s] = req'[h].body.target, row'[s] = "active"
      PROVE  s \in req'[h].rows \cup missed'[h]
  <2>1. UpdateStep(h) /\ SessionStep(s) /\ row[s] \in RowStates
    BY DEF Stepped, HandlerStep, BaseInv, BaseOK
  <2>2. CASE req'[h] = req[h]
    <3>1. At(h, "commitRows") /\ missed[h] \subseteq missed'[h]
      BY <1>1, <2>2 DEF At, Observe
    <3>2. CASE row[s] = "active"
      <4>1. owner[s] = req[h].body.target
        BY <1>1, <2>1, <2>2, <3>2 DEF SessionStep
      <4> QED
        BY <2>2, <3>1, <3>2, <4>1 DEF MissInv
    <3>3. CASE row[s] = "none"
      BY <1>1, <3>1, <3>3 DEF Observe, Issued
    <3> QED
      BY <1>1, <2>1, <3>2, <3>3 DEF SessionStep, Gone, RowStates
  <2>3. CASE UNCHANGED <<row, owner>> /\ req'[h].rows = RowsOf(req'[h].body.target)
    BY <1>1, <2>3 DEF RowsOf
  <2> QED
    BY <1>1, <2>1, <2>2, <2>3 DEF UpdateStep, At
<1> QED
  BY <1>1 DEF MissInv

\* The initial state satisfies the invariant.
LEMMA InitIInv ==
    Init /\ InitHistory => IInv
<1> SUFFICES ASSUME Init, InitHistory PROVE IInv
  OBVIOUS
<1>1. Idle \in Requests
  BY DEF Idle, Requests, NoBody, Bodies, Steps
<1>2. \A h \in Handlers : req[h] = Idle /\ Idle.pc = "idle"
  BY DEF Init, Idle
<1>3. BaseOK
  BY <1>1 DEF Init, BaseOK, RowStates
<1>4. RowsInUse
  BY DEF Init, RowsInUse
<1>5. \A h \in Handlers : HandlerOK(h)
  BY <1>2 DEF HandlerOK, Authenticating
<1>6. TypeOK
  BY <1>3 DEF InitHistory, TypeOK, NoHistory, Histories, RowStates
<1>7. RaceInv /\ HistInv /\ MissInv
  BY <1>2 DEF Init, RaceInv, HistInv, MissInv, At, Present, Caching, Authenticating
<1> QED
  BY <1>3, <1>4, <1>5, <1>6, <1>7 DEF IInv, BaseInv

\* Every step keeps it.
LEMMA IInvKept ==
    IInv /\ [Next]_vars => IInv'
<1> SUFFICES ASSUME IInv, [Next]_vars PROVE IInv'
  OBVIOUS
<1>1. CASE Next
  BY <1>1, NextStepped, HistoryType, RaceKept, HistKept, MissKept DEF IInv
<1>2. CASE UNCHANGED vars
  <2>1. BaseOK' /\ TypeOK' /\ RowsInUse'
    BY <1>2 DEF vars, base, IInv, BaseInv, BaseOK, TypeOK, RowsInUse
  <2>2. ASSUME NEW h \in Handlers PROVE HandlerOK(h)'
    BY <1>2 DEF vars, base, IInv, BaseInv, HandlerOK, Authenticating, Gone
  <2>3. RaceInv'
    BY <1>2
    DEF vars, base, IInv, RaceInv, Present, Excused, Caching, Revoking, At,
        Authenticating, CameTooLate, Gone
  <2>4. HistInv'
    BY <1>2 DEF vars, base, IInv, HistInv
  <2>5. MissInv'
    BY <1>2 DEF vars, base, IInv, MissInv, At
  <2> QED
    BY <2>1, <2>2, <2>3, <2>4, <2>5 DEF IInv, BaseInv
<1> QED
  BY <1>1, <1>2

\* The invariant the theorems follow from.
LEMMA Invariance ==
    Spec => []IInv
<1> QED
  BY InitIInv, IInvKept, PTL DEF Spec, Start

-----------------------------------------------------------------------------
(* Theorems *)

\* Every variable keeps its type, whatever the clients ask for and whatever
\* fails: no handler ever reads a row, a role or a session id that is not there.
THEOREM TypeCorrect ==
    Spec => []TypeOK
<1>1. IInv => TypeOK
  BY DEF IInv
<1> QED
  BY <1>1, Invariance, PTL

\* A request that arrives after its session was revoked is not admitted,
\* except on a session a cache write and a revocation overlapped on: the
\* checks of validate_session and the order "key, then row" of the revoking
\* functions leave no other way in.
THEOREM RevocationIsHeld ==
    Spec => []RevocationHolds
<1>1. IInv => RevocationHolds
  <2> SUFFICES ASSUME IInv, NEW h \in Handlers, At(h, "admitted"), CameTooLate(h)
               PROVE  req[h].sid \in raced
    BY DEF RevocationHolds
  <2>1. Authenticating(h)
    BY DEF At, Authenticating
  <2>2. req[h].sid \in Sids
    BY <2>1 DEF IInv, BaseInv, HandlerOK
  <2> QED
    BY <2>1, <2>2 DEF At, IInv, RaceInv
<1> QED
  BY <1>1, Invariance, PTL

\* A key in Redis stands for an active row, unless the session has expired or
\* has been raced for: setex, delete, the two UPDATEs of user_sessions and the
\* clean-up task keep this at every await.
THEOREM CacheIsBacked ==
    Spec => []CacheBacked
<1>1. IInv => CacheBacked
  BY DEF IInv, TypeOK, BaseOK, RaceInv, CacheBacked, Present, Excused
<1> QED
  BY <1>1, Invariance, PTL

\* What get_current_user returns held at some time since the request arrived,
\* however many administrators edit users and roles between its SELECTs.
THEOREM AdmissionsAreCurrent ==
    Spec => []AdmissionIsCurrent
<1>1. IInv => AdmissionIsCurrent
  BY DEF IInv, HistInv, AdmissionIsCurrent, At
<1> QED
  BY <1>1, Invariance, PTL

\* A handler has left no session of a user active but those its UPDATE missed.
EndedBy(h, u) ==
    /\ req'[h] # req[h] /\ req[h].body.target = u
    /\ \A s \in Sids : owner[s] = u /\ row'[s] = "active" => s \in missed[h]

Ended(u) == \E h \in Handlers : EndedBy(h, u)

\* Only three actions write a role, and each of them ends the sessions of an
\* account it finds, or writes none.
LEMMA RoleWriters ==
    ASSUME IInv, Next, NEW u \in Users, account[u] # "absent", userRole'[u] # userRole[u]
    PROVE  Ended(u)
<1> USE DEF At
<1>a. BaseOK /\ \A h \in Handlers : HandlerOK(h)
  BY DEF IInv, BaseInv
<1>1. ASSUME NEW h \in Handlers, CommitRevocation(h) PROVE Ended(u)
  <2>1. req[h].op = "update" /\ FlushUser(h)
    BY <1>1 DEF CommitRevocation
  <2>2. req[h].body.target = u
    BY <1>a, <2>1 DEF FlushUser, BaseOK
  <2>3. req'[h] # req[h]
    BY <1>a, <1>1 DEF CommitRevocation, BaseOK, Requests
  <2>4. ASSUME NEW s \in Sids, owner[s] = u, row'[s] = "active" PROVE s \in missed[h]
    <3>1. row[s] = "active" /\ s \notin req[h].rows
      BY <1>1, <2>4 DEF CommitRevocation
    <3> QED
      BY <1>1, <2>2, <2>4, <3>1 DEF CommitRevocation, IInv, MissInv
  <2> QED
    BY <2>2, <2>3, <2>4 DEF Ended, EndedBy
<1>2. ASSUME NEW h \in Handlers, CommitUser(h) PROVE FALSE
  <2>1. req[h].body.newRole = None
    BY <1>a, <1>2 DEF CommitUser, HandlerOK
  <2> QED
    BY <1>2, <2>1 DEF CommitUser, FlushUser
<1>3. ASSUME NEW h \in Handlers, InsertUser(h) PROVE FALSE
  BY <1>a, <1>3 DEF InsertUser, BaseOK
<1>4. ASSUME NEW h \in Handlers, Serving(h) PROVE Ended(u)
  <2>1. CASE Login(h) \/ GetCurrentUser(h) \/ Serve(h) \/ Logout(h)
    BY <2>1
    DEF Login, InsertSession, CacheNewSession, RespondLogin, GetCurrentUser, CheckCache,
        LoadSession, Recache, LoadUser, LoadRole, Serve, Logout, LogoutKey, LogoutRow,
        LogoutDelete, tables
  <2>2. CASE RevokeAll(h)
    BY <1>1, <2>2 DEF RevokeAll, SelectSessions, DeleteKey, UpdateSessions, tables
  <2>3. CASE AdminEndpoint(h)
    BY <1>2, <1>3, <2>3
    DEF AdminEndpoint, RefuseRole, RefuseSelf, LoadTarget, CountAdmins, CommitDelete,
        WriteAudit, CheckEmail, LoadPatchedRole, CommitPerms, SelectMembers,
        RevokeNextMember, tables
  <2> QED
    BY <1>4, <2>1, <2>2, <2>3 DEF Serving
<1>5. CASE Environment
  BY <1>5 DEF Environment, Authenticate, Receive, Abort, EvictKey, Expire, CleanupSessions, tables
<1> QED
  BY <1>4, <1>5 DEF Next

\* update_user never leaves an active session of an account beside a role that
\* account did not have before, unless its login was committed between the
\* UPDATE of user_sessions and the commit of the role (core/auth.py:146-151).
THEOREM RoleChangesRevoke ==
    Spec => RoleChangeRevokes
<1>1. IInv /\ [Next]_vars =>
        [\A u \in Users : account[u] # "absent" /\ userRole'[u] # userRole[u] => Ended(u)]_vars
  BY RoleWriters
<1>2. [\A u \in Users : account[u] # "absent" /\ userRole'[u] # userRole[u] => Ended(u)]_vars
        => [\A u \in Users :
              account[u] # "absent" /\ userRole'[u] # userRole[u] =>
                \E h \in Handlers :
                  /\ req'[h] # req[h] /\ req[h].body.target = u
                  /\ \A s \in Sids : owner[s] = u /\ row'[s] = "active" => s \in missed[h]]_vars
  BY DEF Ended, EndedBy
<1> QED
  BY <1>1, <1>2, Invariance, PTL DEF Spec, RoleChangeRevokes

-----------------------------------------------------------------------------
(* No request asks for ever *)

\* The steps get_current_user has before it, that of the endpoint included.
AskingLeft(h) ==
    CASE At(h, "checkCache") -> 6 [] At(h, "loadSession") -> 5 [] At(h, "recache") -> 4
      [] At(h, "loadUser") -> 3 [] At(h, "loadRole") -> 2 [] At(h, "admitted") -> 1
      [] OTHER -> 0

\* A request in get_current_user goes on, and an admitted one goes to its endpoint.
LEMMA AskingGoesOn ==
    ASSUME BaseInv, NEW h \in Handlers, Serving(h), Authenticating(h), Authenticating(h)'
    PROVE  AskingLeft(h)' < AskingLeft(h)
<1> USE DEF At
<1>a. req \in [Handlers -> Requests]
  BY DEF BaseInv, BaseOK
<1>b. ASSUME Respond(h) PROVE FALSE
  BY <1>a, <1>b DEF Respond, Idle, Authenticating
<1>c. ASSUME NEW x, Goto(h, x) PROVE req'[h].pc = x
  BY <1>a, <1>c DEF Goto, Requests
<1>1. CASE GetCurrentUser(h)
  <2>1. \/ req[h].pc = "checkCache" /\ req'[h].pc \in {"loadUser", "loadSession"}
        \/ req[h].pc = "loadSession" /\ req'[h].pc = "recache"
        \/ req[h].pc = "recache" /\ req'[h].pc = "loadUser"
        \/ req[h].pc = "loadUser" /\ req'[h].pc = "loadRole"
        \/ req[h].pc = "loadRole" /\ req'[h].pc = "admitted"
    <3>1. CASE CheckCache(h)
      BY <3>1, <1>c DEF CheckCache
    <3>2. CASE LoadSession(h)
      BY <3>2, <1>b, <1>c DEF LoadSession
    <3>3. CASE Recache(h)
      BY <3>3, <1>c DEF Recache
    <3>4. CASE LoadUser(h)
      BY <1>a, <1>b, <3>4 DEF LoadUser, Requests
    <3>5. CASE LoadRole(h)
      BY <1>a, <3>5 DEF LoadRole, Requests
    <3> QED
      BY <1>1, <3>1, <3>2, <3>3, <3>4, <3>5 DEF GetCurrentUser
  <2> QED
    BY <2>1 DEF AskingLeft
<1>2. CASE Login(h) \/ RevokeAll(h)
  BY <1>2
  DEF Login, InsertSession, CacheNewSession, RespondLogin, RevokeAll, SelectSessions, DeleteKey,
      UpdateSessions, CommitRevocation, Authenticating
<1>3. CASE Serve(h) \/ Logout(h)
  BY <1>a, <1>b, <1>3
  DEF Serve, Logout, LogoutKey, LogoutRow, LogoutDelete, Goto, Requests, Authenticating
<1>4. CASE AdminEndpoint(h)
  <2>1. CASE RefuseRole(h) \/ RefuseSelf(h) \/ CheckEmail(h) \/ LoadPatchedRole(h)
    BY <1>a, <1>b, <2>1
    DEF RefuseRole, RefuseSelf, CheckEmail, LoadPatchedRole, Goto, Requests, Authenticating
  <2>2. CASE LoadTarget(h)
    <3>1. /\ req[h].body.target \in Users /\ req[h].role \in Roles
          /\ req[h].op \in {"update", "delete"}
      BY <2>2 DEF LoadTarget, IsAdmin, BaseInv, HandlerOK, Authenticating
    <3>2. PICK role \in Roles, act \in BOOLEAN :
            req' = [req EXCEPT ![h].loadedRole = role, ![h].loadedActive = act,
                               ![h].pc = AfterLoading(h, role)]
      BY <1>b, <2>2, <3>1, LoadedTarget DEF BaseInv
    <3>3. AfterLoading(h, role) \in {"select", "commitUser", "count", "commitDelete"}
      BY <3>1, LoadedNext
    <3>4. req'[h].pc = AfterLoading(h, role)
      BY <1>a, <3>2 DEF Requests
    <3> QED
      BY <3>3, <3>4 DEF Authenticating
  <2> QED
    BY <1>4, <2>1, <2>2
    DEF AdminEndpoint, CommitUser, CountAdmins, CommitDelete, WriteAudit, InsertUser,
        CommitPerms, SelectMembers, RevokeNextMember, Authenticating
<1> QED
  BY <1>1, <1>2, <1>3, <1>4 DEF Serving

\* What serves another handler, and what is no service at all, leaves it as it is.
LEMMA AskingStays ==
    ASSUME BaseInv, Next, NEW h \in Handlers, ~Serving(h), Authenticating(h), Authenticating(h)'
    PROVE  req'[h] = req[h]
<1> USE DEF At
<1>a. req \in [Handlers -> Requests]
  BY DEF BaseInv, BaseOK
<1>b. ASSUME Respond(h) PROVE FALSE
  BY <1>a, <1>b DEF Respond, Idle, Authenticating
<1>2. ASSUME NEW g \in Handlers, g # h, Serving(g) PROVE req'[h] = req[h]
  <2>1. ASSUME Respond(g) PROVE req'[h] = req[h]
    BY <1>a, <1>2, <2>1 DEF Respond
  <2>2. ASSUME NEW x, Goto(g, x) PROVE req'[h] = req[h]
    BY <1>a, <1>2, <2>2 DEF Goto
  <2>3. CASE Login(g) \/ Serve(g) \/ Logout(g)
    BY <1>a, <1>2, <2>1, <2>2, <2>3
    DEF Login, InsertSession, CacheNewSession, RespondLogin, Serve, Logout, LogoutKey,
        LogoutRow, LogoutDelete
  <2>4. CASE GetCurrentUser(g)
    BY <1>a, <1>2, <2>1, <2>2, <2>4
    DEF GetCurrentUser, CheckCache, LoadSession, Recache, LoadUser, LoadRole
  <2>5. CASE RevokeAll(g)
    BY <1>a, <1>2, <2>1, <2>2, <2>5
    DEF RevokeAll, SelectSessions, DeleteKey, UpdateSessions, CommitRevocation
  <2>6. CASE AdminEndpoint(g)
    <3>1. CASE LoadTarget(g)
      BY <1>a, <1>2, <2>1, <3>1 DEF LoadTarget
    <3> QED
      BY <1>a, <1>2, <2>1, <2>2, <2>6, <3>1
      DEF AdminEndpoint, RefuseRole, RefuseSelf, CommitUser, CountAdmins, CommitDelete,
          WriteAudit, CheckEmail, InsertUser, LoadPatchedRole, CommitPerms, SelectMembers,
          RevokeNextMember
  <2> QED
    BY <1>2, <2>3, <2>4, <2>5, <2>6 DEF Serving
<1>3. CASE Environment
  <2>1. ASSUME NEW g \in Handlers, NEW u \in Users, Authenticate(g, u) PROVE req'[h] = req[h]
    BY <1>a, <2>1 DEF Authenticate, Authenticating
  <2>2. ASSUME NEW g \in Handlers, Receive(g) PROVE req'[h] = req[h]
    BY <1>a, <2>2 DEF Receive, Authenticating
  <2>3. ASSUME NEW g \in Handlers, Abort(g) PROVE req'[h] = req[h]
    BY <1>a, <1>b, <2>3 DEF Abort, Respond
  <2> QED
    BY <1>3, <2>1, <2>2, <2>3 DEF Environment, EvictKey, Expire, CleanupSessions
<1> QED
  BY <1>2, <1>3 DEF Next

\* An admitted request does not come back.
LEMMA AdmittedOnce ==
    ASSUME BaseInv, Next, NEW h \in Handlers, At(h, "admitted"), Authenticating(h)'
    PROVE  req'[h] = req[h]
<1>1. Authenticating(h) /\ AskingLeft(h) = 1
  BY DEF At, Authenticating, AskingLeft
<1>2. AskingLeft(h)' \in {1, 2, 3, 4, 5, 6}
  BY DEF At, Authenticating, AskingLeft
<1>3. ~Serving(h)
  BY <1>1, <1>2, AskingGoesOn
<1> QED
  BY <1>1, <1>3, AskingStays

\* Once a session is old no request begins to ask about it, and one that is asking
\* has a bounded number of steps to go, none of which another request adds to: what
\* a race has left in Redis admits nobody for long after that (validate_session,
\* get_current_user; expires_at and exp are the same time).
THEOREM OldSessionsRunOut ==
    Spec => [][\A h \in Handlers :
                 Authenticating(h)' /\ req'[h].sid \in expired =>
                     /\ Authenticating(h) /\ req'[h].sid = req[h].sid
                     /\ AskingLeft(h) \in 1..6
                     /\ AskingLeft(h)' <= AskingLeft(h)
                     /\ Serving(h) => AskingLeft(h)' < AskingLeft(h)]_vars
<1> DEFINE RunsOut(h) ==
             Authenticating(h)' /\ req'[h].sid \in expired =>
                 /\ Authenticating(h) /\ req'[h].sid = req[h].sid
                 /\ AskingLeft(h) \in 1..6
                 /\ AskingLeft(h)' <= AskingLeft(h)
                 /\ Serving(h) => AskingLeft(h)' < AskingLeft(h)
<1>1. ASSUME IInv, Next, NEW h \in Handlers, Authenticating(h)', req'[h].sid \in expired
      PROVE  RunsOut(h)
  <2>1. HandlerStep(h)
    BY <1>1, NextStepped DEF IInv, Stepped
  <2>2. Authenticating(h)
    BY <1>1, <2>1 DEF HandlerStep, Arriving
  <2>3. req'[h].sid = req[h].sid
    BY <1>1, <2>1, <2>2 DEF HandlerStep, Advancing
  <2>4. AskingLeft(h) \in {1, 2, 3, 4, 5, 6}
    BY <2>2 DEF At, Authenticating, AskingLeft
  <2>5. CASE Serving(h)
    <3>1. AskingLeft(h)' < AskingLeft(h)
      BY <1>1, <2>2, <2>5, AskingGoesOn DEF IInv
    <3>2. AskingLeft(h)' \in {0, 1, 2, 3, 4, 5, 6}
      BY DEF AskingLeft
    <3> HIDE DEF AskingLeft
    <3> QED
      BY <2>2, <2>3, <2>4, <3>1, <3>2
  <2>6. CASE ~Serving(h)
    <3>1. req'[h] = req[h]
      BY <1>1, <2>2, <2>6, AskingStays DEF IInv
    <3>2. AskingLeft(h)' = AskingLeft(h)
      BY <3>1 DEF AskingLeft, At
    <3> QED
      BY <2>2, <2>3, <2>4, <2>6, <3>2
  <2> QED
    BY <2>5, <2>6
<1>2. IInv /\ [Next]_vars => [\A h \in Handlers : RunsOut(h)]_vars
  BY <1>1
<1> QED
  BY <1>2, Invariance, PTL DEF Spec

-----------------------------------------------------------------------------
(* AccessControl implements SessionService *)

\* The five actions that write rows: a new row is active, and none goes back.
LEMMA RowsGoOn ==
    ASSUME BaseInv, Next, NEW s \in Sids
    PROVE  /\ row[s] = "none" => row'[s] \in {"none", "active"}
           /\ row[s] # "none" => row'[s] # "none"
<1> USE DEF At
<1> DEFINE Kept == /\ row[s] = "none" => row'[s] \in {"none", "active"}
                   /\ row[s] # "none" => row'[s] # "none"
<1>a. BaseOK /\ RowsInUse /\ \A h \in Handlers : HandlerOK(h)
  BY DEF BaseInv
<1>1. row' = row => Kept
  OBVIOUS
<1>2. ASSUME NEW h \in Handlers, InsertSession(h) PROVE Kept
  BY <1>a, <1>2 DEF InsertSession, BaseOK
<1>3. ASSUME NEW h \in Handlers, LogoutRow(h) \/ LogoutDelete(h) PROVE Kept
  <2>1. row[req[h].sid] # "none"
    BY <1>a, <1>3 DEF HandlerOK, LogoutRow, LogoutDelete
  <2> QED
    BY <1>a, <1>3, <2>1 DEF LogoutRow, LogoutDelete, BaseOK
<1>4. ASSUME NEW h \in Handlers, CommitRevocation(h) PROVE Kept
  BY <1>4 DEF CommitRevocation
<1>5. ASSUME CleanupSessions PROVE Kept
  BY <1>a, <1>5 DEF CleanupSessions, RowsInUse
<1>6. ASSUME NEW h \in Handlers, Serving(h) PROVE Kept
  <2> HIDE DEF Kept
  <2>1. CASE Login(h) \/ GetCurrentUser(h) \/ Serve(h) \/ Logout(h)
    BY <1>1, <1>2, <1>3, <2>1
    DEF Login, CacheNewSession, RespondLogin, GetCurrentUser, CheckCache, LoadSession,
        Recache, LoadUser, LoadRole, Serve, Logout, LogoutKey, sessionRows
  <2>2. CASE RevokeAll(h)
    BY <1>1, <1>4, <2>2 DEF RevokeAll, SelectSessions, DeleteKey, UpdateSessions, sessionRows
  <2>3. CASE AdminEndpoint(h)
    BY <1>1, <2>3
    DEF AdminEndpoint, RefuseRole, RefuseSelf, LoadTarget, CommitUser, CountAdmins,
        CommitDelete, WriteAudit, CheckEmail, InsertUser, LoadPatchedRole, CommitPerms,
        SelectMembers, RevokeNextMember, sessionRows
  <2> QED
    BY <1>6, <2>1, <2>2, <2>3 DEF Serving
<1>7. ASSUME Environment PROVE Kept
  <2> HIDE DEF Kept
  <2> QED
    BY <1>1, <1>5, <1>7 DEF Environment, Authenticate, Receive, Abort, EvictKey, Expire, sessionRows
<1>8. (\E h \in Handlers : Serving(h)) \/ Environment
  BY DEF Next
<1>9. Kept
  <2> HIDE DEF Kept
  <2> QED
    BY <1>6, <1>7, <1>8
<1> QED
  BY <1>9

\* What a step does to a session, in the words of SessionService ...
LEMMA SessionPromised ==
    ASSUME IInv, IInv', Next, NEW s \in Sids
    PROVE  /\ \/ row[s] = "none" /\ row'[s] = "active"
              \/ row[s] = "active" /\ Gone(s)' /\ (Revoking(s) \/ s \in expired)
              \/ row[s] = row'[s]
              \/ Gone(s) /\ Gone(s)'
           /\ s \in expired => s \in expired'
           /\ s \in raced => s \in raced'
           /\ s \in raced' => s \in raced \/ Revoking(s)'
<1>1. SessionStep(s) /\ Observe
  BY NextStepped DEF IInv, Stepped
<1>2. row[s] \in RowStates /\ row'[s] \in RowStates
  BY DEF IInv, BaseInv, BaseOK
<1>3. /\ row[s] = "none" => row'[s] \in {"none", "active"}
      /\ row[s] # "none" => row'[s] # "none"
  BY RowsGoOn DEF IInv
<1>4. s \in raced' => s \in raced \/ Revoking(s)'
  BY <1>1 DEF Observe
<1>5. s \in raced => s \in raced'
  BY <1>1 DEF Observe
<1> QED
  BY <1>1, <1>2, <1>3, <1>4, <1>5 DEF SessionStep, RowStates, Gone

\* ... and to a caller: it asks, is admitted, leaves, or stays as it is.
LEMMA CallerPromised ==
    ASSUME IInv, IInv', Next, NEW h \in Handlers, Authenticating(h)'
    PROVE  IF Authenticating(h)
           THEN /\ req'[h].sid = req[h].sid /\ (CameTooLate(h)' <=> CameTooLate(h))
                /\ At(h, "admitted") => At(h, "admitted")'
                /\ At(h, "admitted")' /\ ~At(h, "admitted") /\ CameTooLate(h)
                      => req[h].sid \in raced
           ELSE /\ req'[h].sid \in Sids \ expired /\ row[req'[h].sid] # "none"
                /\ CameTooLate(h)' <=> Gone(req'[h].sid)
                /\ ~At(h, "admitted")'
<1>1. HandlerStep(h) /\ Observe
  BY NextStepped DEF IInv, Stepped
<1>2. CASE Authenticating(h)
  <2>1. Advancing(h)
    BY <1>1, <1>2 DEF HandlerStep
  <2>2. hist'[h].arrival = hist[h].arrival
    BY <1>1, <1>2 DEF Observe
  <2>3. At(h, "admitted") => At(h, "admitted")'
    BY AdmittedOnce DEF IInv, At
  <2>4. ASSUME At(h, "admitted")', ~At(h, "admitted"), CameTooLate(h)
        PROVE  req[h].sid \in raced
    <3>1. req[h].pc = "loadRole"
      BY <2>1, <2>4 DEF Advancing, At
    <3>2. req[h].sid \in Sids
      BY <1>2 DEF IInv, BaseInv, HandlerOK
    <3> QED
      BY <1>2, <2>4, <3>1, <3>2 DEF IInv, RaceInv
  <2> QED
    BY <1>2, <2>1, <2>2, <2>3, <2>4 DEF Advancing, CameTooLate
<1>3. CASE ~Authenticating(h)
  <2>1. Arriving(h)
    BY <1>1, <1>3 DEF HandlerStep
  <2>2. hist'[h].arrival = row'[req'[h].sid]
    BY <1>1, <1>3 DEF Observe, Now
  <2>3. row'[req'[h].sid] # "none"
    BY DEF IInv, BaseInv, HandlerOK
  <2> QED
    BY <1>3, <2>1, <2>2, <2>3 DEF Arriving, CameTooLate, Gone, At
<1> QED
  BY <1>2, <1>3

LEMMA PromisedStep ==
    ASSUME IInv, IInv', [Next]_vars
    PROVE  [Promised!Next]_(Promised!svars)
<1> DEFINE Life(s) == CASE row[s] = "none" -> "none"
                        [] row[s] = "active" -> "live"
                        [] Gone(s) -> "ended"
           Ask(h) == IF Authenticating(h)
                     THEN [sid |-> req[h].sid, late |-> CameTooLate(h),
                           stage |-> IF At(h, "admitted") THEN "admitted" ELSE "asking"]
                     ELSE [sid |-> None, late |-> FALSE, stage |-> "away"]
           life == [s \in Sids |-> Life(s)]
           asks == [h \in Handlers |-> Ask(h)]
<1>1. CASE UNCHANGED vars
  BY <1>1 DEF vars, base, Promised!svars, Gone, Revoking, At, Authenticating, CameTooLate
<1>2. CASE Next
  <2>1. ASSUME NEW s \in Sids
        PROVE  Promised!Session(s) /\ Life(s)' \in {"none", "live", "ended"}
    <3>1. row[s] \in RowStates /\ row'[s] \in RowStates
      BY DEF IInv, BaseInv, BaseOK
    <3>2. /\ Life(s) = IF row[s] = "none" THEN "none"
                       ELSE IF row[s] = "active" THEN "live" ELSE "ended"
          /\ Life(s)' = IF row'[s] = "none" THEN "none"
                        ELSE IF row'[s] = "active" THEN "live" ELSE "ended"
      BY <3>1 DEF RowStates, Gone
    <3>3. life[s] = Life(s) /\ life'[s] = Life(s)'
      OBVIOUS
    <3> HIDE DEF Life
    <3>4. \/ Life(s) = "none" /\ Life(s)' = "live"
          \/ Life(s) = "live" /\ Life(s)' = "ended" /\ (Revoking(s) \/ s \in expired)
          \/ Life(s)' = Life(s)
      BY <1>2, <3>2, SessionPromised DEF Gone
    <3>5. Life(s)' \in {"none", "live", "ended"}
      BY <3>2
    <3>6. /\ s \in expired => s \in expired'
          /\ s \in raced => s \in raced'
          /\ s \in raced' => s \in raced \/ Revoking(s)'
      BY <1>2, SessionPromised
    <3> QED
      BY <3>3, <3>4, <3>5, <3>6
      DEF Promised!Session, Promised!Issued, Promised!Ended, Life
  <2>2. ASSUME NEW h \in Handlers
        PROVE  Promised!Caller(h)
    <3>1. asks[h] = Ask(h) /\ asks'[h] = Ask(h)'
      OBVIOUS
    <3>2. CASE ~Authenticating(h)'
      <4>1. asks'[h] = Promised!Away
        BY <3>1, <3>2 DEF Promised!Away
      <4> QED
        BY <4>1 DEF Promised!Caller, Promised!Leaves
    <3>3. CASE Authenticating(h)' /\ ~Authenticating(h)
      <4> DEFINE t == req'[h].sid
      <4>1. /\ t \in Sids \ expired /\ row[t] # "none"
            /\ CameTooLate(h)' <=> Gone(t)
            /\ ~At(h, "admitted")'
        BY <1>2, <3>3, CallerPromised
      <4>2. row[t] \in RowStates
        BY <4>1 DEF IInv, BaseInv, BaseOK
      <4>3. /\ asks[h] = Promised!Away
            /\ asks'[h] = [sid |-> t, late |-> CameTooLate(h)', stage |-> "asking"]
        <5>1. asks[h] = Promised!Away
          BY <3>1, <3>3 DEF Promised!Away
        <5>2. Ask(h)' = IF Authenticating(h)'
                        THEN [sid |-> t, late |-> CameTooLate(h)',
                              stage |-> IF At(h, "admitted")' THEN "admitted" ELSE "asking"]
                        ELSE [sid |-> None, late |-> FALSE, stage |-> "away"]
          OBVIOUS
        <5>3. ~At(h, "admitted")'
          BY <4>1
        <5> HIDE DEF t, Ask
        <5> QED
          BY <3>1, <3>3, <5>1, <5>2, <5>3
      <4>4. life[t] # "none" /\ ((life[t] = "ended") <=> CameTooLate(h)')
        <5>1. life[t] = IF row[t] = "none" THEN "none"
                        ELSE IF row[t] = "active" THEN "live" ELSE "ended"
          BY <4>1, <4>2 DEF RowStates, Gone
        <5>2. Gone(t) <=> row[t] # "active"
          BY <4>1, <4>2 DEF RowStates, Gone
        <5>3. row[t] # "none" /\ (CameTooLate(h)' <=> Gone(t))
          BY <4>1
        <5> HIDE DEF t, life
        <5> QED
          BY <5>1, <5>2, <5>3
      <4> HIDE DEF t, Life, Ask
      <4>5. asks'[h] = [sid |-> t, late |-> life[t] = "ended", stage |-> "asking"]
        <5>1. CameTooLate(h)' \in BOOLEAN
          BY DEF CameTooLate
        <5>2. (life[t] = "ended") = CameTooLate(h)'
          BY <4>4, <5>1
        <5> HIDE DEF asks
        <5> QED
          BY <4>3, <5>2
      <4>6. Promised!Asks(h)
        BY <4>1, <4>3, <4>4, <4>5 DEF Promised!Asks, Life, Ask
      <4> QED
        BY <4>6 DEF Promised!Caller
    <3>4. CASE Authenticating(h)' /\ Authenticating(h)
      <4>1. /\ req'[h].sid = req[h].sid /\ (CameTooLate(h)' <=> CameTooLate(h))
            /\ At(h, "admitted") => At(h, "admitted")'
            /\ At(h, "admitted")' => At(h, "admitted") \/ (CameTooLate(h) => req[h].sid \in raced)
        BY <1>2, <3>4, CallerPromised
      <4>2. CASE At(h, "admitted") <=> At(h, "admitted")'
        <5>1. asks'[h] = asks[h]
          BY <3>1, <3>4, <4>1, <4>2 DEF CameTooLate
        <5> QED
          BY <5>1 DEF Promised!Caller
      <4>3. CASE ~At(h, "admitted") /\ At(h, "admitted")'
        <5>1. /\ asks[h] = [sid |-> req[h].sid, late |-> CameTooLate(h), stage |-> "asking"]
              /\ asks'[h] = [sid |-> req[h].sid, late |-> CameTooLate(h), stage |-> "admitted"]
          BY <3>1, <3>4, <4>1, <4>3 DEF CameTooLate
        <5>2. CameTooLate(h) => req[h].sid \in raced
          BY <4>1, <4>3
        <5>3. Promised!Admitted(h)
          <6> HIDE DEF asks
          <6>1. /\ asks[h].stage = "asking" /\ (asks[h].late => asks[h].sid \in raced)
                /\ asks'[h] = [asks[h] EXCEPT !.stage = "admitted"]
            BY <5>1, <5>2
          <6> QED
            BY <6>1 DEF Promised!Admitted, asks
        <5> QED
          BY <5>3 DEF Promised!Caller
      <4> QED
        BY <4>1, <4>2, <4>3
    <3> QED
      BY <3>2, <3>3, <3>4
  <2> QED
    BY <2>1, <2>2 DEF Promised!Next
<1> QED
  BY <1>1, <1>2

\* AuthService is a SessionService: a session is issued once, ends for good and
\* only while it is revoked or when it is old, and a request that asks about it
\* after that is not admitted, unless a cache write and a revocation of it have
\* overlapped (core/auth.py, api/deps.py, the endpoints that revoke).
THEOREM SessionsAsPromisedHolds ==
    Spec => SessionsAsPromised
<1>1. Start => Promised!Init
  <2> SUFFICES ASSUME Start PROVE Promised!Init
    OBVIOUS
  <2>1. \A h \in Handlers : req[h].pc = "idle"
    BY DEF Start, Init, Idle
  <2>2. \A s \in Sids : row[s] = "none" /\ ~Revoking(s)
    BY <2>1 DEF Start, Init, Revoking, At
  <2>3. \A h \in Handlers : ~Authenticating(h)
    BY <2>1 DEF Authenticating
  <2>4. expired = {} /\ raced = {}
    BY DEF Start, Init, InitHistory
  <2>5. {s \in Sids : Revoking(s)} = {}
    BY <2>2
  <2>6. [s \in Sids |-> CASE row[s] = "none" -> "none"
                         [] row[s] = "active" -> "live"
                         [] Gone(s) -> "ended"] = [s \in Sids |-> "none"]
    <3>1. \A s \in Sids : (CASE row[s] = "none" -> "none"
                             [] row[s] = "active" -> "live"
                             [] Gone(s) -> "ended") = "none"
      BY <2>2 DEF Gone
    <3> QED
      BY <3>1
  <2>7. [h \in Handlers |->
           IF Authenticating(h)
           THEN [sid |-> req[h].sid, late |-> CameTooLate(h),
                 stage |-> IF At(h, "admitted") THEN "admitted" ELSE "asking"]
           ELSE [sid |-> None, late |-> FALSE, stage |-> "away"]]
        = [c \in Handlers |-> Promised!Away]
    BY <2>3 DEF Promised!Away
  <2> QED
    BY <2>4, <2>5, <2>6, <2>7 DEF Promised!Init
<1>2. IInv /\ IInv' /\ [Next]_vars => [Promised!Next]_(Promised!svars)
  BY PromisedStep
<1> QED
  BY <1>1, <1>2, Invariance, PTL DEF Spec, SessionsAsPromised, Promised!Spec
=============================================================================
