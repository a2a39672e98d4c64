--------------------------- MODULE LastAdminProofs --------------------------
(***************************************************************************)
(* How AccessControl may lose its last administrator.                     *)
(*                                                                         *)
(* DecidingInv says what a request knows that is going to write an account: *)
(* that its caller was an administrator, that the account exists, and that *)
(* it is not the caller's own but in an update without a role.             *)
(***************************************************************************)
EXTENDS AccessControlProofs

-----------------------------------------------------------------------------
(* The inductive invariant *)

\* An administrator's request that is going to write an account.
Deciding(h) ==
    \/ req[h].pc \in {"count", "commitDelete", "commitUser"}
    \/ req[h].pc \in {"select", "deleteKeys", "commitRows"} /\ req[h].op = "update"

\* What a request holds that is at one of these steps.
Knows(h) ==
    LET q == req[h] IN
    /\ q.pc \in {"count", "commitDelete"} => q.op = "delete"
    /\ q.pc \in {"commitPerms", "members", "nextMember"} => q.op = "patch"
    /\ Deciding(h) =>
         /\ q.user \in Users /\ q.role = Admin
         /\ q.body.target \in Users /\ account[q.body.target] # "absent"
         /\ q.body.target = q.user => q.pc = "commitUser"

\* No account is active before it is made.
OnlyMadeActive == \A u \in Users : active[u] => account[u] # "absent"

DecidingInv == OnlyMadeActive /\ \A h \in Handlers : Knows(h)

Accounts == <<account, userRole, active>>

\* An account that was made is there for good, if only as a deleted one.
MadeForGood == \A u \in Users : account[u] # "absent" => account'[u] # "absent"

\* Steps at which a handler need not know anything.
Unaware == {"idle", "insert", "cacheNew", "respond", "checkCache", "loadSession",
            "recache", "loadUser", "loadRole", "admitted", "revokeRow", "deleteRow", "insertUser", "audit"}

LEMMA KnowsNothing ==
    ASSUME NEW h \in Handlers, req'[h].pc \in Unaware
    PROVE  Knows(h)'
  BY DEF Knows, Deciding, Unaware

\* An answer leaves nothing to know.
LEMMA AnsweredKnows ==
    ASSUME BaseInv, NEW h \in Handlers, Respond(h)
    PROVE  Knows(h)'
<1>1. req'[h].pc = "idle"
  BY RespondFields DEF BaseInv, Idle
<1> QED
  BY <1>1, KnowsNothing DEF Unaware

\* Nor does a step to one of those.
LEMMA GoneOn ==
    ASSUME BaseInv, NEW h \in Handlers, NEW x \in Unaware, Goto(h, x)
    PROVE  Knows(h)'
<1>1. x \in Steps
  BY DEF Unaware, Steps
<1>2. req'[h].pc = x
  BY <1>1, GotoFields DEF BaseInv
<1> QED
  BY <1>2, KnowsNothing

-----------------------------------------------------------------------------
(* Knows is kept by the request's own steps *)

\* Log in, get_current_user, log out.
LEMMA UserKnows ==
    ASSUME BaseInv, NEW h \in Handlers, Knows(h),
           Login(h) \/ GetCurrentUser(h) \/ Serve(h) \/ Logout(h)
    PROVE  Knows(h)'
<1> USE DEF At
<1>a. BaseOK /\ HandlerOK(h) /\ req[h] \in Requests
  BY DEF BaseInv, BaseOK
<1>1. CASE InsertSession(h)
  <2>1. req'[h].pc = "cacheNew"
    BY <1>1, <1>a DEF InsertSession, BaseOK, Requests
  <2> QED
    BY <2>1, KnowsNothing DEF Unaware
<1>2. CASE LoadUser(h) /\ active[req[h].user]
  <2>1. req' = [req EXCEPT ![h].role = userRole[req[h].user], ![h].pc = "loadRole"]
    BY <1>2 DEF LoadUser
  <2>2. req'[h].pc = "loadRole"
    BY <2>1, <1>a DEF BaseOK, Requests
  <2> QED
    BY <2>2, KnowsNothing DEF Unaware
<1>3. CASE LoadRole(h)
  <2>1. req'[h].pc = "admitted"
    BY <1>3, <1>a DEF LoadRole, BaseOK, Requests
  <2> QED
    BY <2>1, KnowsNothing DEF Unaware
<1>4. CASE Respond(h)
  BY <1>4, AnsweredKnows
<1>5. CASE \/ Goto(h, "respond") \/ Goto(h, "loadSession") \/ Goto(h, "recache")
           \/ Goto(h, "loadUser") \/ Goto(h, "revokeRow") \/ Goto(h, "deleteRow")
  BY <1>5, GoneOn DEF Unaware
<1>6. CASE CheckCache(h)
  <2>1. Goto(h, "loadUser") \/ Goto(h, "loadSession")
    BY <1>6 DEF CheckCache
  <2> QED
    BY <1>5, <2>1
<1>7. CASE Login(h) \/ Serve(h) \/ Logout(h)
  BY <1>1, <1>4, <1>5, <1>7
  DEF Login, CacheNewSession, RespondLogin, Serve, Logout, LogoutKey, LogoutRow, LogoutDelete
<1>8. CASE GetCurrentUser(h)
  BY <1>2, <1>3, <1>4, <1>5, <1>6, <1>8 DEF GetCurrentUser, LoadSession, Recache, LoadUser
<1> QED
  BY <1>7, <1>8

\* LoadTarget: a caller who goes on is an administrator, and not the target of
\* a deletion or of a role.
LEMMA TargetKnown ==
    ASSUME BaseInv, NEW h \in Handlers, Knows(h), LoadTarget(h), ~Respond(h)
    PROVE  Knows(h)'
<1> DEFINE t == req[h].body.target
<1> USE DEF At
<1>a. BaseOK /\ HandlerOK(h) /\ req[h] \in Requests
  BY DEF BaseInv, BaseOK
<1>b. /\ req[h].body.target \in Users /\ req[h].role \in Roles
      /\ req[h].op \in {"update", "delete"}
      /\ ~OnSelf(h) /\ account[t] # "absent"
  BY <1>a DEF LoadTarget, IsAdmin, HandlerOK, Authenticating
<1>1. PICK role \in Roles, act \in BOOLEAN :
        req' = [req EXCEPT ![h].loadedRole = role, ![h].loadedActive = act,
                           ![h].pc = AfterLoading(h, role)]
  BY <1>a, <1>b, LoadedTarget
<1> DEFINE next == AfterLoading(h, role)
<1>2. \/ next = "commitUser" /\ req[h].op = "update"
      \/ next = "select" /\ req[h].op = "update" /\ t # req[h].user
      \/ next \in {"count", "commitDelete"} /\ req[h].op = "delete" /\ t # req[h].user
  <2>2. CASE req[h].op = "update"
    BY <1>b, <2>2 DEF OnSelf, AfterLoading
  <2>3. CASE req[h].op = "delete" /\ role = Admin
    BY <1>b, <2>3 DEF OnSelf, AfterLoading
  <2>4. CASE req[h].op = "delete" /\ role # Admin
    BY <1>b, <2>4 DEF OnSelf, AfterLoading
  <2> QED
    BY <1>b, <2>2, <2>3, <2>4
<1>3. req[h].user \in Users /\ req[h].role = Admin
  <2>1. req[h].pc = "admitted" /\ req[h].role = Admin
    BY DEF LoadTarget, IsAdmin
  <2>2. req[h].user = owner[req[h].sid] /\ req[h].sid \in Sids /\ row[req[h].sid] # "none"
    BY <2>1, <1>a DEF HandlerOK, Authenticating
  <2>3. req[h].user \in Users
    BY <2>2, <1>a DEF BaseInv, RowsInUse, BaseOK
  <2> QED
    BY <2>1, <2>3 DEF Knows
<1>4. UNCHANGED Accounts
  BY DEF LoadTarget, tables, Accounts
<1> HIDE DEF next
<1>5. /\ req'[h].pc = next /\ req'[h].user = req[h].user /\ req'[h].op = req[h].op
      /\ req'[h].body = req[h].body /\ req'[h].role = req[h].role
  BY <1>1, <1>a DEF next, BaseOK, Requests
<1> QED
  BY <1>b, <1>2, <1>3, <1>4, <1>5 DEF Knows, Deciding, Accounts

\* The admin endpoints and the revocation they call.
LEMMA AdminKnows ==
    ASSUME BaseInv, NEW h \in Handlers, Knows(h), RevokeAll(h) \/ AdminEndpoint(h)
    PROVE  Knows(h)'
<1> USE DEF At
<1>a. BaseOK /\ HandlerOK(h) /\ req[h] \in Requests
  BY DEF BaseInv, BaseOK
<1>1. CASE SelectSessions(h) \/ DeleteKey(h) \/ UpdateSessions(h)
  <2>1. /\ req[h].pc \in {"select", "deleteKeys"}
        /\ req'[h].pc \in {"deleteKeys", "commitRows"}
        /\ req'[h].user = req[h].user /\ req'[h].op = req[h].op
        /\ req'[h].body = req[h].body /\ req'[h].role = req[h].role
    BY <1>1, <1>a DEF SelectSessions, DeleteKey, UpdateSessions, BaseOK, Requests
  <2>2. UNCHANGED Accounts
    BY <1>1 DEF SelectSessions, DeleteKey, UpdateSessions, tables, Accounts
  <2> QED
    BY <2>1, <2>2 DEF Knows, Deciding, Accounts
<1>2. CASE CommitRevocation(h)
  <2>1. /\ req'[h].op = req[h].op
        /\ req'[h].pc = IF req[h].op = "patch" THEN "nextMember" ELSE "audit"
    BY <1>2, <1>a DEF CommitRevocation, BaseOK, Requests
  <2> QED
    BY <2>1 DEF Knows, Deciding
<1>3. CASE LoadTarget(h)
  BY <1>3, TargetKnown, AnsweredKnows
<1>4. CASE CountAdmins(h) /\ ~Respond(h)
  <2>1. Goto(h, "commitDelete") /\ "commitDelete" \in Steps
    BY <1>4 DEF CountAdmins, Steps
  <2>2. UNCHANGED Accounts /\ req[h].pc = "count"
    BY <1>4 DEF CountAdmins, tables, Accounts
  <2> QED
    BY <2>1, <2>2, <1>a, GotoFields DEF Knows, Deciding, Accounts
<1>5. CASE CommitDelete(h)
  <2>1. Goto(h, "select") /\ "select" \in Steps /\ req[h].pc = "commitDelete"
    BY <1>5 DEF CommitDelete, Steps
  <2> QED
    BY <2>1, <1>a, GotoFields DEF Knows, Deciding
<1>6. CASE LoadPatchedRole(h)
  <2>1. req'[h].pc = "commitPerms" /\ req'[h].op = req[h].op /\ req[h].op = "patch"
    BY <1>6, <1>a DEF LoadPatchedRole, BaseOK, Requests
  <2> QED
    BY <2>1 DEF Knows, Deciding
<1>7. CASE CommitPerms(h)
  <2>1. Goto(h, "members") /\ "members" \in Steps /\ req[h].pc = "commitPerms"
    BY <1>7 DEF CommitPerms, Steps
  <2> QED
    BY <2>1, <1>a, GotoFields DEF Knows, Deciding
<1>8. CASE SelectMembers(h)
  <2>1. /\ req'[h].pc = "nextMember" /\ req'[h].op = req[h].op
        /\ req[h].pc = "members"
    BY <1>8, <1>a DEF SelectMembers, BaseOK, Requests
  <2> QED
    BY <2>1 DEF Knows, Deciding
<1>9. CASE RevokeNextMember(h) /\ ~Respond(h)
  <2>1. PICK u \in req[h].members :
          req' = [req EXCEPT ![h].members = @ \ {u}, ![h].body.target = u, ![h].pc = "select"]
    BY <1>9 DEF RevokeNextMember
  <2>2. req'[h].pc = "select" /\ req'[h].op = req[h].op /\ req[h].pc = "nextMember"
    BY <1>9, <2>1, <1>a DEF RevokeNextMember, BaseOK, Requests
  <2> QED
    BY <2>2 DEF Knows, Deciding
<1>10. CASE Respond(h) \/ Goto(h, "audit") \/ Goto(h, "insertUser")
  BY <1>10, AnsweredKnows, GoneOn DEF Unaware
<1> QED
  BY <1>1, <1>2, <1>3, <1>4, <1>5, <1>6, <1>7, <1>8, <1>9, <1>10
  DEF RevokeAll, AdminEndpoint, RefuseRole, RefuseSelf, CommitUser, WriteAudit,
      CheckEmail, InsertUser

-----------------------------------------------------------------------------
(* ... and by every other step *)

\* A step of the environment leaves the accounts alone and gives a request at
\* most its first step.
LEMMA EnvironmentKnows ==
    ASSUME BaseInv, Environment, NEW h \in Handlers, Knows(h)
    PROVE  Knows(h)' /\ UNCHANGED Accounts
<1>a. BaseOK
  BY DEF BaseInv
<1>1. UNCHANGED Accounts
  BY DEF Environment, Authenticate, Receive, Abort, EvictKey, Expire, CleanupSessions,
         tables, Accounts
<1>2. CASE UNCHANGED req[h]
  BY <1>1, <1>2 DEF Knows, Deciding, Accounts
<1>3. CASE req'[h].pc \in Unaware
  BY <1>1, <1>3, KnowsNothing
<1>4. ASSUME NEW g \in Handlers, NEW u \in Users, Authenticate(g, u)
      PROVE  UNCHANGED req[h] \/ req'[h].pc \in Unaware
  <2>1. req'[h] = req[h] \/ req'[h].pc = "insert"
    BY <1>4, <1>a DEF Authenticate, Idle, BaseOK
  <2> QED
    BY <2>1 DEF Unaware
<1>5. ASSUME NEW g \in Handlers, Receive(g)
      PROVE  UNCHANGED req[h] \/ req'[h].pc \in Unaware
  <2>1. req'[h] = req[h] \/ req'[h].pc = "checkCache"
    BY <1>5, <1>a DEF Receive, Idle, BaseOK
  <2> QED
    BY <2>1 DEF Unaware
<1>6. ASSUME NEW g \in Handlers, Abort(g)
      PROVE  UNCHANGED req[h] \/ req'[h].pc \in Unaware
  <2>1. req'[h] = req[h] \/ req'[h].pc = "idle"
    BY <1>6, <1>a DEF Abort, Respond, Idle, BaseOK
  <2> QED
    BY <2>1 DEF Unaware
<1>7. \/ \E g \in Handlers, u \in Users : Authenticate(g, u)
      \/ \E g \in Handlers : Receive(g) \/ Abort(g)
      \/ UNCHANGED req
  BY DEF Environment, EvictKey, Expire, CleanupSessions
<1> QED
  BY <1>1, <1>2, <1>3, <1>4, <1>5, <1>6, <1>7

\* A request's step changes what no other request holds.
LEMMA ServingOthers ==
    ASSUME BaseOK, NEW h \in Handlers, Serving(h)
    PROVE  Others(h)
<1> USE DEF BaseOK, Others
<1>1. ASSUME NEW x, Goto(h, x) PROVE Others(h)
  BY <1>1 DEF Goto
<1>2. CASE Respond(h)
  BY <1>2 DEF Respond
<1>3. CASE Login(h)
  BY <1>1, <1>2, <1>3 DEF Login, InsertSession, CacheNewSession, RespondLogin
<1>4. CASE GetCurrentUser(h)
  BY <1>1, <1>2, <1>4 DEF GetCurrentUser, CheckCache, LoadSession, Recache, LoadUser, LoadRole
<1>5. CASE Serve(h) \/ Logout(h)
  BY <1>1, <1>2, <1>5 DEF Serve, Logout, LogoutKey, LogoutRow, LogoutDelete
<1>6. CASE RevokeAll(h)
  BY <1>6 DEF RevokeAll, SelectSessions, DeleteKey, UpdateSessions, CommitRevocation
<1>7. CASE RefuseRole(h) \/ RefuseSelf(h) \/ LoadTarget(h) \/ CommitUser(h)
           \/ CountAdmins(h) \/ CommitDelete(h)
  BY <1>1, <1>2, <1>7
  DEF RefuseRole, RefuseSelf, LoadTarget, CommitUser, CountAdmins, CommitDelete
<1>8. CASE WriteAudit(h) \/ CheckEmail(h) \/ InsertUser(h) \/ LoadPatchedRole(h)
           \/ CommitPerms(h) \/ SelectMembers(h) \/ RevokeNextMember(h)
  BY <1>1, <1>2, <1>8
  DEF WriteAudit, CheckEmail, InsertUser, LoadPatchedRole, CommitPerms, SelectMembers,
      RevokeNextMember
<1> QED
  BY <1>3, <1>4, <1>5, <1>6, <1>7, <1>8 DEF Serving, AdminEndpoint

\* Nor does it take an account away from under one.
LEMMA OtherKnows ==
    ASSUME NEW h \in Handlers, NEW g \in Handlers, g # h, Knows(g),
           Others(h), MadeForGood
    PROVE  Knows(g)'
<1>1. req'[g] = req[g]
  BY DEF Others
<1> QED
  BY <1>1 DEF Knows, Deciding, MadeForGood

\* The four steps that write an account.
Writing(h) == CommitUser(h) \/ CommitRevocation(h) \/ CommitDelete(h) \/ InsertUser(h)

\* All others leave the accounts as they are.
LEMMA AccountSteps ==
    ASSUME NEW h \in Handlers, Serving(h)
    PROVE  Writing(h) \/ UNCHANGED Accounts
<1>1. CASE Login(h) \/ GetCurrentUser(h) \/ Serve(h) \/ Logout(h)
  BY <1>1
  DEF Login, InsertSession, CacheNewSession, RespondLogin, GetCurrentUser, CheckCache,
      LoadSession, Recache, LoadUser, LoadRole, Serve, Logout, LogoutKey, LogoutRow,
      LogoutDelete, tables, Accounts
<1>2. CASE RevokeAll(h)
  BY <1>2 DEF RevokeAll, SelectSessions, DeleteKey, UpdateSessions, tables, Accounts, Writing
<1>3. CASE AdminEndpoint(h)
  BY <1>3
  DEF AdminEndpoint, RefuseRole, RefuseSelf, LoadTarget, CountAdmins, WriteAudit,
      CheckEmail, LoadPatchedRole, CommitPerms, SelectMembers, RevokeNextMember,
      tables, Accounts, Writing
<1> QED
  BY <1>1, <1>2, <1>3 DEF Serving

\* A caller who is an administrator stays one in a step of the own request,
\* but in the deactivation of the own account.
LEMMA WritingSteps ==
    ASSUME BaseInv, OnlyMadeActive, NEW h \in Handlers, Knows(h), Writing(h)
    PROVE  /\ OnlyMadeActive' /\ MadeForGood
           /\ AdminsGone =>
                \/ /\ At(h, "commitUser")
                   /\ req[h].body.target = req[h].user
                   /\ req[h].body.newActive = FALSE
                \/ req[h].role = Admin /\ req[h].user \notin ActingAdmins
<1> DEFINE b == req[h].body
           me == req[h].user
<1>a. BaseOK /\ HandlerOK(h) /\ b \in Bodies
  BY DEF BaseInv, BaseOK, Requests
<1>1. CASE InsertUser(h)
  <2>1. \/ UNCHANGED Accounts
        \/ /\ account[b.target] = "absent"
           /\ account' = [account EXCEPT ![b.target] = "live"]
           /\ userRole' = [userRole EXCEPT ![b.target] = b.newRole]
           /\ active' = [active EXCEPT ![b.target] = TRUE]
    BY <1>1 DEF InsertUser, Accounts
  <2>2. OnlyMadeActive' /\ MadeForGood
    BY <2>1, <1>a DEF OnlyMadeActive, MadeForGood, BaseOK, Accounts
  <2>3. ActingAdmins \subseteq ActingAdmins'
    BY <2>1, <1>a DEF ActingAdmins, OnlyMadeActive, BaseOK, Accounts
  <2> QED
    BY <2>2, <2>3 DEF AdminsGone
<1>2. CASE CommitDelete(h)
  <2>1. me \in Users /\ req[h].role = Admin /\ b.target # me
    BY <1>2 DEF At, CommitDelete, Knows, Deciding
  <2>2. /\ account' = [account EXCEPT ![b.target] = "deleted"]
        /\ active' = active \/ active' = [active EXCEPT ![b.target] = FALSE]
        /\ userRole' = userRole
    BY <1>2 DEF CommitDelete
  <2>3. OnlyMadeActive' /\ MadeForGood
    BY <2>2, <1>a DEF OnlyMadeActive, MadeForGood, BaseOK
  <2>4. me \in ActingAdmins => me \in ActingAdmins'
    BY <2>1, <2>2, <1>a DEF ActingAdmins, BaseOK
  <2> QED
    BY <2>1, <2>3, <2>4 DEF AdminsGone
<1>3. CASE CommitRevocation(h) /\ req[h].op # "update"
  <2>1. UNCHANGED Accounts
    BY <1>3 DEF CommitRevocation, Accounts
  <2> QED
    BY <2>1 DEF OnlyMadeActive, MadeForGood, AdminsGone, ActingAdmins, Accounts
<1>4. CASE CommitUser(h) \/ (CommitRevocation(h) /\ req[h].op = "update")
  <2>1. /\ FlushUser(h) /\ account' = account
        /\ me \in Users /\ req[h].role = Admin
        /\ account[b.target] # "absent"
        /\ b.target = me => req[h].pc = "commitUser"
    BY <1>4 DEF At, CommitUser, CommitRevocation, Knows, Deciding
  <2>2. \/ active' = active
        \/ b.newActive \in BOOLEAN /\ active' = [active EXCEPT ![b.target] = b.newActive]
    BY <2>1, <1>a DEF FlushUser, Bodies
  <2>3. \/ userRole' = userRole
        \/ b.newRole # None /\ userRole' = [userRole EXCEPT ![b.target] = b.newRole]
    BY <2>1 DEF FlushUser
  <2>4. OnlyMadeActive' /\ MadeForGood
    BY <2>1, <2>2, <1>a DEF OnlyMadeActive, MadeForGood, BaseOK
  <2>5. CASE b.target # me
    <3>1. me \in ActingAdmins => me \in ActingAdmins'
      BY <2>1, <2>2, <2>3, <2>5, <1>a DEF ActingAdmins, BaseOK
    <3> QED
      BY <2>1, <2>4, <3>1 DEF AdminsGone
  <2>6. CASE b.target = me /\ b.newActive # FALSE
    <3>1. req[h].pc = "commitUser" /\ b.newRole = None
      BY <2>1, <2>6, <1>a DEF HandlerOK
    <3>2. me \in ActingAdmins => me \in ActingAdmins'
      BY <2>1, <2>2, <2>3, <2>6, <3>1, <1>a DEF ActingAdmins, BaseOK
    <3> QED
      BY <2>1, <2>4, <3>2 DEF AdminsGone
  <2>7. CASE b.target = me /\ b.newActive = FALSE
    BY <2>1, <2>4, <2>7 DEF At
  <2> QED
    BY <2>5, <2>6, <2>7
<1>5. InsertUser(h) \/ CommitDelete(h) \/ CommitRevocation(h) \/ CommitUser(h)
  BY DEF Writing
<1>6. CASE CommitRevocation(h)
  BY <1>3, <1>4, <1>6
<1> QED
  BY <1>1, <1>2, <1>4, <1>5, <1>6

\* DecidingInv holds in every state.
LEMMA DecidingInvariant ==
    Spec => []DecidingInv
<1>1. Start => DecidingInv
  <2> SUFFICES ASSUME Start PROVE DecidingInv
    OBVIOUS
  <2>1. OnlyMadeActive
    BY DEF Start, Init, OnlyMadeActive
  <2>2. ASSUME NEW h \in Handlers PROVE req[h].pc = "idle"
    BY <2>1 DEF Start, Init, Idle
  <2> QED
    BY <2>1, <2>2 DEF DecidingInv, Knows, Deciding
<1>2. IInv /\ DecidingInv /\ [Next]_vars => DecidingInv'
  <2> SUFFICES ASSUME IInv, DecidingInv, [Next]_vars PROVE DecidingInv'
    OBVIOUS
  <2>a. BaseInv /\ BaseOK
    BY DEF IInv, BaseInv
  <2>1. ASSUME NEW h \in Handlers, Serving(h) PROVE DecidingInv'
    <3>1. Knows(h)'
      BY <2>a, <2>1, UserKnows, AdminKnows DEF Serving, DecidingInv
    <3>2. OnlyMadeActive' /\ MadeForGood
      <4>1. CASE Writing(h)
        BY <2>a, <4>1, WritingSteps DEF DecidingInv
      <4>2. CASE UNCHANGED Accounts
        BY <4>2 DEF DecidingInv, OnlyMadeActive, MadeForGood, Accounts
      <4> QED
        BY <2>1, <4>1, <4>2, AccountSteps
    <3>3. ASSUME NEW g \in Handlers, g # h PROVE Knows(g)'
      BY <2>a, <2>1, <3>2, <3>3, ServingOthers, OtherKnows DEF DecidingInv
    <3> QED
      BY <3>1, <3>2, <3>3 DEF DecidingInv
  <2>2. CASE Environment
    <3>1. ASSUME NEW h \in Handlers PROVE Knows(h)'
      BY <2>a, <2>2, EnvironmentKnows DEF DecidingInv
    <3>2. UNCHANGED Accounts
      BY <2>2 DEF Environment, Authenticate, Receive, Abort, EvictKey, Expire,
                  CleanupSessions, tables, Accounts
    <3> QED
      BY <3>1, <3>2 DEF DecidingInv, OnlyMadeActive, Accounts
  <2>3. CASE UNCHANGED vars
    BY <2>3 DEF vars, base, DecidingInv, OnlyMadeActive, Knows, Deciding
  <2> QED
    BY <2>1, <2>2, <2>3 DEF Next
<1> QED
  BY <1>1, <1>2, Invariance, PTL DEF Spec

\* A request that goes through and leaves nobody who could administer.
LeavesNobody(h) ==
    /\ req'[h] # req[h]
    /\ \/ /\ At(h, "commitUser")
          /\ req[h].body.target = req[h].user
          /\ req[h].body.newActive = FALSE
       \/ req[h].role = Admin /\ req[h].user \notin ActingAdmins

\* However many requests overlap, the system loses its last active administrator
\* only by that administrator's deactivation of the own account, or by a request
\* whose caller has lost the role or the account since it was admitted: the
\* check of the role, the refusals on oneself and the flush of update_user leave
\* the caller an administrator in every other case.
THEOREM LastAdminLeavesAlone ==
    Spec => OnlySelfDeactivation
<1>1. IInv /\ DecidingInv /\ [Next]_vars =>
        [AdminsGone => \E h \in Handlers : LeavesNobody(h)]_vars
  <2> SUFFICES ASSUME IInv, DecidingInv, Next, AdminsGone
               PROVE  \E h \in Handlers : LeavesNobody(h)
    OBVIOUS
  <2>1. ~ UNCHANGED Accounts
    BY DEF AdminsGone, ActingAdmins, Accounts
  <2>2. PICK h \in Handlers : Serving(h)
    BY <2>1 DEF Next, Environment, Authenticate, Receive, Abort, EvictKey, Expire,
                CleanupSessions, tables, Accounts
  <2>3. Writing(h)
    BY <2>1, <2>2, AccountSteps
  <2>4. req'[h] # req[h]
    BY <2>3 DEF Writing, IInv, BaseInv, BaseOK, Requests, At, CommitUser, CommitRevocation,
                CommitDelete, InsertUser, Goto, Respond, Idle
  <2>5. BaseInv /\ OnlyMadeActive /\ Knows(h)
    BY DEF IInv, DecidingInv
  <2> QED
    BY <2>3, <2>4, <2>5, WritingSteps DEF LeavesNobody
<1>2. [AdminsGone => \E h \in Handlers : LeavesNobody(h)]_vars =>
        [AdminsGone =>
            \E h \in Handlers :
                /\ req'[h] # req[h]
                /\ \/ /\ At(h, "commitUser")
                      /\ req[h].body.target = req[h].user
                      /\ req[h].body.newActive = FALSE
                   \/ req[h].role = Admin /\ req[h].user \notin ActingAdmins]_vars
  BY DEF LeavesNobody
<1> QED
  BY <1>1, <1>2, Invariance, DecidingInvariant, PTL DEF Spec, OnlySelfDeactivation
=============================================================================
