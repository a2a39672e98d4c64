------------------------------ MODULE Sessions ------------------------------
(***************************************************************************)
(* Server-side sessions: core/auth.py (AuthService), the authentication    *)
(* dependency of api/deps.py and the login and logout endpoints of         *)
(* api/v1/auth.py.                                                         *)
(*                                                                         *)
(* A handler is one HTTP request being served by the asyncio backend; an   *)
(* action is what a handler does between two awaits.  The INSERT or UPDATE *)
(* of one row by its key and the COMMIT that directly follows it are one   *)
(* action: under READ COMMITTED nobody sees the first without the second,  *)
(* and which row it is does not depend on what is committed between them.  *)
(***************************************************************************)
EXTENDS Naturals, FiniteSets

CONSTANTS
    Users,      \* accounts, one for each e-mail address
    Roles,      \* rows of the roles table
    Admin,      \* the role called "ADMIN"
    Tags,       \* values of a role's permission list
    Sids,       \* the session ids uuid4 hands out (bounds the logins)
    Handlers,   \* requests in service at the same time
    Calls,      \* what the clients of this instance ask for, as [op, body]
    Faults,     \* which of AllFaults can happen in this instance
    None        \* SQL NULL, and "absent" in a request body

AllOps == {"login", "use", "logout", "create", "update", "delete", "patch"}

\* What the path and the body of a request carry.
Bodies == [target: Users \cup {None}, newRole: Roles \cup {None},
           newActive: BOOLEAN \cup {None}, newPerms: Tags \cup {None}]

NoBody == [target |-> None, newRole |-> None, newActive |-> None, newPerms |-> None]

\* The calls that pass the request models of the authenticated endpoints.
AllCalls ==
    {c \in [op: AllOps \ {"login"}, body: Bodies] :
        /\ c.body.target # None    <=> c.op \in {"create", "update", "delete"}
        /\ c.body.newRole # None    => c.op \in {"create", "update", "patch"}
        /\ c.op \in {"create", "patch"} => c.body.newRole # None
        /\ c.body.newActive # None  => c.op = "update"
        /\ c.body.newPerms # None  <=> c.op = "patch"}

AllFaults == {"evict", "expire", "cleanup", "abort"}

ASSUME AdminAssumption == Admin \in Roles
ASSUME CallsAssumption == Calls \subseteq AllCalls
ASSUME FaultsAssumption == Faults \subseteq AllFaults
ASSUME NoneAssumption ==
    None \notin Users \cup Roles \cup Tags \cup Sids \cup BOOLEAN

VARIABLES
    account,    \* users table: absent, live, or deleted (is_deleted)
    userRole,   \* users.role_id
    active,     \* users.is_active
    perms,      \* roles.permissions
    row,        \* user_sessions: none, active, revoked (is_active FALSE), deleted
    owner,      \* user_sessions.user_id, and the "sub" claim of the token
    claims,     \* the permissions written into the token at login
    redis,      \* the sessions whose key "session:<sid>" exists
    expired,    \* sessions older than SESSION_EXPIRE_HOURS
    held,       \* sessions whose token a client has been given
    audit,      \* audit_logs, as a set of [action, subject]
    req         \* the local state of each handler

tables == <<account, userRole, active, perms>>
sessionRows == <<row, owner, claims>>

-----------------------------------------------------------------------------
(* Requests *)

Steps == {"idle", "insert", "cacheNew", "respond",
          "checkCache", "loadSession", "recache", "loadUser", "loadRole",
          "admitted", "revokeRow", "deleteRow", "select", "deleteKeys",
          "commitRows", "count", "commitUser", "commitDelete", "insertUser",
          "commitPerms", "members", "nextMember", "audit"}

Requests == [op: AllOps \cup {None}, pc: Steps, sid: Sids \cup {None},
             user: Users \cup {None}, role: Roles \cup {None},
             perms: Tags \cup {None}, body: Bodies,
             loadedRole: Roles \cup {None}, loadedActive: BOOLEAN \cup {None},
             keys: SUBSET Sids, rows: SUBSET Sids, members: SUBSET Users]

Idle == [op |-> None, pc |-> "idle", sid |-> None, user |-> None,
         role |-> None, perms |-> None, body |-> NoBody,
         loadedRole |-> None, loadedActive |-> None,
         keys |-> {}, rows |-> {}, members |-> {}]

At(h, step) == req[h].pc = step
Goto(h, step) == req' = [req EXCEPT ![h].pc = step]
Respond(h) == req' = [req EXCEPT ![h] = Idle]

Init ==
    /\ account \in [Users -> {"absent", "live"}]
    /\ userRole \in [Users -> Roles]
    /\ active = [u \in Users |-> account[u] = "live"]
    /\ \E u \in Users : active[u] /\ userRole[u] = Admin
    /\ perms \in [Roles -> Tags]
    /\ row = [s \in Sids |-> "none"]
    /\ owner = [s \in Sids |-> None]
    /\ claims = [s \in Sids |-> None]
    /\ redis = {} /\ expired = {} /\ held = {} /\ audit = {}
    /\ req = [h \in Handlers |-> Idle]

-----------------------------------------------------------------------------
(* POST /auth/login *)

\* authenticate: the right password of an active account; is_deleted is not read.
Authenticate(h, u) ==
    /\ At(h, "idle")
    /\ active[u]
    /\ req' = [req EXCEPT ![h] = [Idle EXCEPT !.op = "login", !.pc = "insert",
                                  !.user = u, !.perms = perms[userRole[u]]]]
    /\ UNCHANGED <<tables, sessionRows, redis, expired, held, audit>>

\* create_session, up to its commit: a fresh uuid, a token, an active row.
InsertSession(h) ==
    /\ At(h, "insert")
    /\ \E s \in Sids :
        /\ row[s] = "none"
        /\ row' = [row EXCEPT ![s] = "active"]
        /\ owner' = [owner EXCEPT ![s] = req[h].user]
        /\ claims' = [claims EXCEPT ![s] = req[h].perms]
        /\ req' = [req EXCEPT ![h].sid = s, ![h].pc = "cacheNew"]
    /\ UNCHANGED <<tables, redis, expired, held, audit>>

\* create_session: setex once the row is committed.
CacheNewSession(h) ==
    /\ At(h, "cacheNew")
    /\ redis' = redis \cup {req[h].sid}
    /\ Goto(h, "respond")
    /\ UNCHANGED <<tables, sessionRows, expired, held, audit>>

\* login stores the refresh token in the row and answers with the access token.
RespondLogin(h) ==
    /\ At(h, "respond")
    /\ held' = held \cup {req[h].sid}
    /\ Respond(h)
    /\ UNCHANGED <<tables, sessionRows, redis, expired, audit>>

-----------------------------------------------------------------------------
(* get_current_user, the dependency of every other endpoint *)

\* Mutant of Receive: the expiry of the token is not checked.
ReceiveExpired(h) ==
    /\ At(h, "idle")
    /\ \E s \in held, c \in Calls :
        req' = [req EXCEPT ![h] = [Idle EXCEPT !.op = c.op, !.pc = "checkCache",
                                   !.sid = s, !.user = owner[s], !.body = c.body]]
    /\ UNCHANGED <<tables, sessionRows, redis, expired, held, audit>>

\* A request arrives; decode_access_token refuses an expired token at once.
Receive(h) ==
    /\ At(h, "idle")
    /\ \E s \in held \ expired, c \in Calls :
        req' = [req EXCEPT ![h] = [Idle EXCEPT !.op = c.op, !.pc = "checkCache",
                                   !.sid = s, !.user = owner[s], !.body = c.body]]
    /\ UNCHANGED <<tables, sessionRows, redis, expired, held, audit>>

\* validate_session: the key in Redis is enough.
CheckCache(h) ==
    /\ At(h, "checkCache")
    /\ Goto(h, IF req[h].sid \in redis THEN "loadUser" ELSE "loadSession")
    /\ UNCHANGED <<tables, sessionRows, redis, expired, held, audit>>

\* Mutant of LoadSession: any row will do, active or not.
LoadSessionAnyRow(h) ==
    /\ At(h, "loadSession")
    /\ IF row[req[h].sid] \in {"active", "revoked"} /\ req[h].sid \notin expired
         THEN Goto(h, "recache")
         ELSE Respond(h)
    /\ UNCHANGED <<tables, sessionRows, redis, expired, held, audit>>

\* validate_session: on a miss the row decides (401 when it is not live).
LoadSession(h) ==
    /\ At(h, "loadSession")
    /\ IF row[req[h].sid] = "active" /\ req[h].sid \notin expired
         THEN Goto(h, "recache")
         ELSE Respond(h)
    /\ UNCHANGED <<tables, sessionRows, redis, expired, held, audit>>

\* Mutant of Recache: the key is built from the user, not from the session.
RecacheUser(h) ==
    /\ At(h, "recache")
    /\ redis' = redis \cup {req[h].user}
    /\ Goto(h, "loadUser")
    /\ UNCHANGED <<tables, sessionRows, expired, held, audit>>

\* validate_session: the key comes back with a full TTL.
Recache(h) ==
    /\ At(h, "recache")
    /\ redis' = redis \cup {req[h].sid}
    /\ Goto(h, "loadUser")
    /\ UNCHANGED <<tables, sessionRows, expired, held, audit>>

\* get_current_user reads the account of the "sub" claim (401 when inactive).
LoadUser(h) ==
    /\ At(h, "loadUser")
    /\ IF active[req[h].user]
         THEN req' = [req EXCEPT ![h].role = userRole[req[h].user],
                                 ![h].pc = "loadRole"]
         ELSE Respond(h)
    /\ UNCHANGED <<tables, sessionRows, redis, expired, held, audit>>

\* Mutant of LoadRole: the permissions the token was issued with.
LoadRoleFromToken(h) ==
    /\ At(h, "loadRole")
    /\ req' = [req EXCEPT ![h].perms = claims[req[h].sid], ![h].pc = "admitted"]
    /\ UNCHANGED <<tables, sessionRows, redis, expired, held, audit>>

\* ... and, in a second SELECT, the permissions of its role: not the token's.
LoadRole(h) ==
    /\ At(h, "loadRole")
    /\ req' = [req EXCEPT ![h].perms = perms[req[h].role], ![h].pc = "admitted"]
    /\ UNCHANGED <<tables, sessionRows, redis, expired, held, audit>>

-----------------------------------------------------------------------------
(* Endpoints of any user *)

\* /auth/me, /query, /conversations...: what they do is not about sessions.
Serve(h) ==
    /\ At(h, "admitted") /\ req[h].op = "use"
    /\ Respond(h)
    /\ UNCHANGED <<tables, sessionRows, redis, expired, held, audit>>

\* Mutant of LogoutKey: the key is left to its TTL.
LogoutKeyKept(h) ==
    /\ At(h, "admitted") /\ req[h].op = "logout"
    /\ Goto(h, "revokeRow")
    /\ UNCHANGED <<tables, sessionRows, redis, expired, held, audit>>

\* POST /auth/logout, revoke_session: first the key ...
LogoutKey(h) ==
    /\ At(h, "admitted") /\ req[h].op = "logout"
    /\ redis' = redis \ {req[h].sid}
    /\ Goto(h, "revokeRow")
    /\ UNCHANGED <<tables, sessionRows, expired, held, audit>>

\* ... then the row, committed.
LogoutRow(h) ==
    /\ At(h, "revokeRow")
    /\ row' = [row EXCEPT ![req[h].sid] = IF @ = "active" THEN "revoked" ELSE @]
    /\ Goto(h, "deleteRow")
    /\ UNCHANGED <<tables, owner, claims, redis, expired, held, audit>>

\* The endpoint then deletes the row it has just revoked, and answers 204.
LogoutDelete(h) ==
    /\ At(h, "deleteRow")
    /\ row' = [row EXCEPT ![req[h].sid] = "deleted"]
    /\ Respond(h)
    /\ UNCHANGED <<tables, owner, claims, redis, expired, held, audit>>

-----------------------------------------------------------------------------
(* revoke_all_sessions_for_user, called by the admin endpoints *)

\* The rows its SELECT returns.
RowsOf(u) == {s \in Sids : owner[s] = u /\ row[s] \in {"active", "revoked"}}

\* Mutant of SelectSessions: the sessions of the caller, not of the target.
SelectCallersSessions(h) ==
    /\ At(h, "select")
    /\ req' = [req EXCEPT ![h].keys = RowsOf(req[h].user), ![h].pc = "deleteKeys"]
    /\ UNCHANGED <<tables, sessionRows, redis, expired, held, audit>>

SelectSessions(h) ==
    /\ At(h, "select")
    /\ req' = [req EXCEPT ![h].keys = RowsOf(req[h].body.target),
                          ![h].pc = "deleteKeys"]
    /\ UNCHANGED <<tables, sessionRows, redis, expired, held, audit>>

\* One redis.delete for each row, in the order the SELECT happened to give.
DeleteKey(h) ==
    /\ At(h, "deleteKeys")
    /\ \E s \in req[h].keys :
        /\ redis' = redis \ {s}
        /\ req' = [req EXCEPT ![h].keys = @ \ {s}]
    /\ UNCHANGED <<tables, sessionRows, expired, held, audit>>

\* The in-memory changes of an update_user body that differ from the loaded
\* row: SQLAlchemy writes those columns, at the next commit of the request.
FlushUser(h) ==
    LET b == req[h].body IN
    /\ userRole' = IF b.newRole \in {None, req[h].loadedRole} THEN userRole
                   ELSE [userRole EXCEPT ![b.target] = b.newRole]
    /\ active' = IF b.newActive \in {None, req[h].loadedActive} THEN active
                 ELSE [active EXCEPT ![b.target] = b.newActive]

\* UPDATE ... WHERE user_id: the rows it finds when it starts, whatever the
\* SELECT had returned.  (It waits for a row another transaction has changed;
\* its own changes nobody sees before the commit.)
UpdateSessions(h) ==
    /\ At(h, "deleteKeys") /\ req[h].keys = {}
    /\ req' = [req EXCEPT ![h].rows = RowsOf(req[h].body.target), ![h].pc = "commitRows"]
    /\ UNCHANGED <<tables, sessionRows, redis, expired, held, audit>>

\* The commit of those rows, deleted ones apart, which also flushes the new
\* role update_user has set just before the call.
CommitRevocation(h) ==
    /\ At(h, "commitRows")
    /\ row' = [s \in Sids |-> IF s \in req[h].rows /\ row[s] = "active"
                              THEN "revoked" ELSE row[s]]
    /\ IF req[h].op = "update" THEN FlushUser(h) ELSE UNCHANGED <<userRole, active>>
    /\ req' = [req EXCEPT ![h].rows = {},
                          ![h].pc = IF req[h].op = "patch" THEN "nextMember" ELSE "audit"]
    /\ UNCHANGED <<account, perms, owner, claims, redis, expired, held, audit>>

-----------------------------------------------------------------------------
(* The environment *)

\* allkeys-lru eviction, the TTL of the key, or a restart of Redis.
EvictKey(s) ==
    /\ "evict" \in Faults
    /\ s \in redis
    /\ redis' = redis \ {s}
    /\ UNCHANGED <<tables, sessionRows, expired, held, audit, req>>

\* Eight hours after the login; the token and the row expire together.
Expire(s) ==
    /\ "expire" \in Faults
    /\ row[s] # "none" /\ s \notin expired
    /\ expired' = expired \cup {s}
    /\ UNCHANGED <<tables, sessionRows, redis, held, audit, req>>

\* The beat task cleanup_expired_sessions: the rows go, the keys stay.
CleanupSessions ==
    /\ "cleanup" \in Faults
    /\ \E s \in expired : row[s] # "deleted"
    /\ row' = [s \in Sids |-> IF s \in expired THEN "deleted" ELSE row[s]]
    /\ UNCHANGED <<tables, owner, claims, redis, expired, held, audit, req>>

\* An exception at any await (a lost connection, a restart) drops the request;
\* what it had not committed is rolled back.
Abort(h) ==
    /\ "abort" \in Faults
    /\ req[h].op # None
    /\ Respond(h)
    /\ UNCHANGED <<tables, sessionRows, redis, expired, held, audit>>
=============================================================================
