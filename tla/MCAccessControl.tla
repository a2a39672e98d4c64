--------------------------- MODULE MCAccessControl --------------------------
(* Small instances of AccessControl for TLC. *)
EXTENDS AccessControl, TLC

CONSTANTS u1, u2, s1, s2, h1, h2, t1, t2, admin, user

MCRoles == {admin, user}

\* Interchangeable values.
Symmetric == Permutations(Sids) \cup Permutations(Handlers)
               \cup Permutations(Users)

Call(op, body) == [op |-> op, body |-> body]

Use == {Call("use", NoBody)}
Logout1 == {Call("logout", NoBody)}
SetRole == {Call("update", [NoBody EXCEPT !.target = u, !.newRole = r]) :
              u \in Users, r \in Roles}
Demote == {Call("update", [NoBody EXCEPT !.target = u, !.newRole = user]) : u \in Users}
SetActive == {Call("update", [NoBody EXCEPT !.target = u, !.newActive = b]) :
                u \in Users, b \in BOOLEAN}
Deactivate == {Call("update", [NoBody EXCEPT !.target = u, !.newActive = FALSE]) :
                 u \in Users}
Delete == {Call("delete", [NoBody EXCEPT !.target = u]) : u \in Users}
Create == {Call("create", [NoBody EXCEPT !.target = u, !.newRole = r]) :
             u \in Users, r \in Roles}
EditRole == {Call("patch", [NoBody EXCEPT !.newRole = Admin, !.newPerms = t]) :
               t \in Tags}

\* What a user does with a session.
UserCalls == Use \cup Logout1
\* ... while administrators edit roles.
SessionCalls == UserCalls \cup EditRole
\* ... administrators demoted, and accounts switched off, while requests are served.
RoleCalls == Use \cup Demote \cup Deactivate
\* ... accounts managed.
AccountCalls == SetRole \cup SetActive \cup Delete \cup Create

EveryCall == SessionCalls \cup RoleCalls \cup AccountCalls

\* Three scenarios, told apart by what they begin with (nobody edits the role
\* of users).  Accounts are managed, one request at a time and any of them
\* dropped.  Or one account is missing: the sessions of the other one are revoked
\* while keys are evicted.  Or there are two administrators, or one and a user,
\* who demote and deactivate each other.
Managed == perms[user] = t2
Alone == ~Managed /\ \E u \in Users : account[u] = "absent"

ScenarioStart ==
    /\ Start
    /\ \A r1, r2 \in Roles : perms[r1] = perms[r2]
    /\ Alone => \A u \in Users : userRole[u] = Admin

Allowed == CASE Managed -> AccountCalls [] Alone -> SessionCalls [] OTHER -> RoleCalls

Arrives(h) ==
    /\ Managed => \A g \in Handlers : At(g, "idle")
    /\ \/ \E u \in Users : Authenticate(h, u)
       \/ Receive(h) /\ Call(req'[h].op, req'[h].body) \in Allowed

ScenarioNext ==
    /\ \/ \E h \in Handlers : Serving(h) \/ Arrives(h)
       \/ Managed /\ \E h \in Handlers : Abort(h)
       \/ Alone /\ \E s \in Sids : EvictKey(s)
    /\ Observe

ThreeScenarios == ScenarioStart /\ [][ScenarioNext]_vars
=============================================================================
