---------------------------- MODULE AccessControl ---------------------------
(***************************************************************************)
(* The backend's access control as a whole: any number of requests in      *)
(* service (Sessions, UserAdmin) over one PostgreSQL and one Redis, with   *)
(* what the system is meant to guarantee.                                  *)
(*                                                                         *)
(* The history variables record what no table keeps; no action reads them. *)
(***************************************************************************)
EXTENDS UserAdmin

VARIABLES
    hist,       \* for each handler: what was true since its request arrived
    raced,      \* sessions a cache write and a revocation overlapped on
    missed      \* for each handler: logins committed since its UPDATE of the rows

base == <<account, userRole, active, perms, row, owner, claims,
          redis, expired, held, audit, req>>
vars == <<base, hist, raced, missed>>

-----------------------------------------------------------------------------
(* History *)

\* The request is inside get_current_user, or has just come out of it.
Authenticating(h) ==
    req[h].pc \in {"checkCache", "loadSession", "recache", "loadUser",
                   "loadRole", "admitted"}

RowStates == {"none", "active", "revoked", "deleted"}

\* The roles the caller had, the permissions any role had, whether the caller
\* was active; and the row of the session when the request arrived.
Histories == [roles: SUBSET Roles, grants: SUBSET (Roles \X Tags),
              wasActive: BOOLEAN, arrival: RowStates]

NoHistory == [roles |-> {}, grants |-> {}, wasActive |-> FALSE, arrival |-> "none"]

Now(h) == [roles |-> {userRole[req[h].user]},
           grants |-> {<<r, perms[r]>> : r \in Roles},
           wasActive |-> active[req[h].user],
           arrival |-> row[req[h].sid]]

Gone(s) == row[s] \in {"revoked", "deleted"}
CameTooLate(h) == hist[h].arrival \in {"revoked", "deleted"}

\* A handler is about to write the key of a session it has found, or made, live.
Caching(s) ==
    \E h \in Handlers : req[h].sid = s /\ req[h].pc \in {"cacheNew", "recache"}

\* A handler has dealt with the key of a session, and not yet with its row.
Revoking(s) ==
    \E h \in Handlers :
        \/ At(h, "revokeRow") /\ req[h].sid = s
        \/ At(h, "deleteKeys") /\ owner[s] = req[h].body.target /\ s \notin req[h].keys
        \/ At(h, "commitRows") /\ s \in req[h].rows

Issued(s) == row[s] = "none" /\ row'[s] = "active"

Observe ==
    /\ raced' = raced \cup {s \in Sids : (Caching(s) /\ Revoking(s))'}
    /\ missed' = [h \in Handlers |->
                   IF At(h, "commitRows")'
                     THEN missed[h] \cup {s \in Sids : Issued(s) /\ At(h, "commitRows")}
                     ELSE {}]
    /\ hist' = [h \in Handlers |->
                 IF ~Authenticating(h)' THEN NoHistory
                 ELSE IF ~Authenticating(h) THEN Now(h)'
                 ELSE [roles |-> hist[h].roles \cup Now(h)'.roles,
                       grants |-> hist[h].grants \cup Now(h)'.grants,
                       wasActive |-> hist[h].wasActive \/ Now(h)'.wasActive,
                       arrival |-> hist[h].arrival]]

-----------------------------------------------------------------------------
(* The specification *)

Login(h) ==
    \/ InsertSession(h) \/ CacheNewSession(h) \/ RespondLogin(h)

GetCurrentUser(h) ==
    \/ CheckCache(h) \/ LoadSession(h) \/ Recache(h) \/ LoadUser(h) \/ LoadRole(h)

Logout(h) ==
    \/ LogoutKey(h) \/ LogoutRow(h) \/ LogoutDelete(h)

RevokeAll(h) ==
    \/ SelectSessions(h) \/ DeleteKey(h) \/ UpdateSessions(h) \/ CommitRevocation(h)

AdminEndpoint(h) ==
    \/ RefuseRole(h) \/ RefuseSelf(h)
    \/ LoadTarget(h) \/ CommitUser(h) \/ CountAdmins(h) \/ CommitDelete(h)
    \/ WriteAudit(h) \/ CheckEmail(h) \/ InsertUser(h)
    \/ LoadPatchedRole(h) \/ CommitPerms(h) \/ SelectMembers(h) \/ RevokeNextMember(h)

\* The next step of a request in service.
Serving(h) ==
    \/ Login(h) \/ GetCurrentUser(h) \/ Serve(h) \/ Logout(h)
    \/ RevokeAll(h) \/ AdminEndpoint(h)

\* What clients, Redis, the clock and failures do.
Environment ==
    \/ \E h \in Handlers, u \in Users : Authenticate(h, u)
    \/ \E h \in Handlers : Receive(h) \/ Abort(h)
    \/ \E s \in Sids : EvictKey(s) \/ Expire(s)
    \/ CleanupSessions

Next ==
    /\ (\E h \in Handlers : Serving(h)) \/ Environment
    /\ Observe

InitHistory ==
    /\ hist = [h \in Handlers |-> NoHistory]
    /\ raced = {}
    /\ missed = [h \in Handlers |-> {}]

Start == Init /\ InitHistory

Spec == Start /\ [][Next]_vars

\* The event loop runs every request to its end, and time passes.  Clients,
\* evictions and failures owe nothing.
Fairness ==
    /\ \A h \in Handlers : WF_vars(Serving(h) /\ Observe)
    /\ \A s \in Sids : WF_vars(Expire(s) /\ Observe)

FairSpec == Spec /\ Fairness

-----------------------------------------------------------------------------
(* Properties *)

\* The tables, Redis and the handlers hold values of the kind the code keeps.
BaseOK ==
    /\ account \in [Users -> {"absent", "live", "deleted"}]
    /\ userRole \in [Users -> Roles]
    /\ active \in [Users -> BOOLEAN]
    /\ perms \in [Roles -> Tags]
    /\ row \in [Sids -> RowStates]
    /\ owner \in [Sids -> Users \cup {None}]
    /\ claims \in [Sids -> Tags \cup {None}]
    /\ redis \subseteq Sids
    /\ expired \subseteq Sids
    /\ held \subseteq Sids
    /\ req \in [Handlers -> Requests]

\* Every variable, the history included, has its type: in particular a key in
\* Redis is always that of a session id, and a role is never NULL.
TypeOK ==
    /\ BaseOK
    /\ hist \in [Handlers -> Histories]
    /\ raced \subseteq Sids
    /\ missed \in [Handlers -> SUBSET Sids]

\* A request that arrives on a session whose row was already revoked, by a
\* logout or by revoke_all_sessions_for_user, never gets out of
\* get_current_user: validate_session lets it through only if some other
\* request was writing the session's key while the revocation was between
\* its key and its row.
RevocationHolds ==
    \A h \in Handlers :
        At(h, "admitted") /\ CameTooLate(h) => req[h].sid \in raced

\* A live key in Redis stands for a live row: at every await of every handler,
\* also when one is dropped half way, a cached session is active in
\* user_sessions, or past its expiry, or has been raced for.
CacheBacked ==
    \A s \in redis : row[s] = "active" \/ s \in expired \/ s \in raced

\* What get_current_user returns was true at some time during the request: the
\* caller was active, had that role, and the role gave those permissions,
\* whatever the token says and whoever edits users and roles meanwhile.
AdmissionIsCurrent ==
    \A h \in Handlers : At(h, "admitted") =>
        /\ hist[h].wasActive
        /\ req[h].role \in hist[h].roles
        /\ <<req[h].role, req[h].perms>> \in hist[h].grants

\* update_user changes a role and ends the sessions of the user in one
\* transaction: no state has the new role beside a session of the old one that
\* is still active, except those of logins that were committed in the short
\* time between the UPDATE of the sessions and the commit of that very request.
RoleChangeRevokes ==
    [][\A u \in Users :
        account[u] # "absent" /\ userRole'[u] # userRole[u] =>
            \E h \in Handlers :
                /\ req'[h] # req[h] /\ req[h].body.target = u
                /\ \A s \in Sids : owner[s] = u /\ row'[s] = "active" => s \in missed[h]]_vars

ActingAdmins == {u \in Users : userRole[u] = Admin /\ active[u]}

AdminsGone == ActingAdmins # {} /\ (ActingAdmins = {})'

\* Nobody is left who could administer the system only if the last administrator
\* deactivates the own account, or a request goes through whose caller was an
\* administrator when it was admitted and is none any more.
OnlySelfDeactivation ==
    [][AdminsGone =>
        \E h \in Handlers :
            /\ req'[h] # req[h]
            /\ \/ /\ At(h, "commitUser")
                  /\ req[h].body.target = req[h].user
                  /\ req[h].body.newActive = FALSE
               \/ req[h].role = Admin /\ req[h].user \notin ActingAdmins]_vars

\* The sessions and the requests in get_current_user as SessionService has them.
Promised == INSTANCE SessionService WITH
    Callers <- Handlers, NoSid <- None,
    life <- [s \in Sids |-> CASE row[s] = "none" -> "none"
                              [] row[s] = "active" -> "live"
                              [] Gone(s) -> "ended"],
    old <- expired,
    ending <- {s \in Sids : Revoking(s)},
    spoilt <- raced,
    asks <- [h \in Handlers |->
                IF Authenticating(h)
                THEN [sid |-> req[h].sid, late |-> CameTooLate(h),
                      stage |-> IF At(h, "admitted") THEN "admitted" ELSE "asking"]
                ELSE [sid |-> None, late |-> FALSE, stage |-> "away"]]

\* AuthService is a SessionService: a session is issued once and ends for good,
\* while it is revoked or when it is old, and nobody who comes after that is
\* admitted on it, unless a cache write and a revocation overlapped.
SessionsAsPromised == Promised!Spec

\* A race for a session is not for ever: once its row is revoked, there comes
\* a time after which no request is admitted on it.
RevokedEventuallyOut ==
    \A s \in Sids :
        Gone(s) ~> [](\A h \in Handlers : At(h, "admitted") => req[h].sid # s)

-----------------------------------------------------------------------------
(* What documents and tests say, and the code does not do *)

\* After a logout has answered 204 the token is refused
\* (tests/integration/test_auth_flow.py, step 4).
LogoutIsFinal ==
    \A h \in Handlers : At(h, "admitted") => hist[h].arrival # "deleted"

\* "cannot remove last admin": a deletion leaves one.
DeleteKeepsAnAdmin ==
    [][AdminsGone => ~\E h \in Handlers : At(h, "commitDelete")
                                          /\ req'[h].pc = "select"]_vars
=============================================================================
