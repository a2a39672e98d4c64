----------------------------- MODULE UserAdmin ------------------------------
(***************************************************************************)
(* The endpoints only an ADMIN may call on users and roles:                *)
(* api/v1/admin/users.py and api/v1/admin/roles.py, as steps of the        *)
(* handlers of module Sessions.                                            *)
(***************************************************************************)
EXTENDS Sessions

AdminOps == {"create", "update", "delete", "patch"}

\* _require_admin: 403 for every other role.
RefuseRole(h) ==
    /\ At(h, "admitted") /\ req[h].op \in AdminOps
    /\ req[h].role # Admin
    /\ Respond(h)
    /\ UNCHANGED <<tables, sessionRows, redis, expired, held, audit>>

IsAdmin(h) == At(h, "admitted") /\ req[h].role = Admin

\* Mutant of OnSelf: only the deletion of oneself is refused.
OnSelfDelete(h) ==
    req[h].body.target = req[h].user /\ req[h].op = "delete"

\* "Cannot change own role" and "Cannot delete self": 400.
OnSelf(h) ==
    /\ req[h].body.target = req[h].user
    /\ req[h].op = "delete" \/ (req[h].op = "update" /\ req[h].body.newRole # None)

RefuseSelf(h) ==
    /\ IsAdmin(h) /\ OnSelf(h)
    /\ Respond(h)
    /\ UNCHANGED <<tables, sessionRows, redis, expired, held, audit>>

-----------------------------------------------------------------------------
(* PATCH and DELETE /admin/users/{id} *)

\* Mutant of AfterLoading: an update with a role is committed without revoke_all.
AfterLoadingNoRevoke(h, role) ==
    CASE req[h].op = "update" -> "commitUser"
      [] req[h].op = "delete" /\ role = Admin -> "count"
      [] OTHER -> "commitDelete"

AfterLoading(h, role) ==
    CASE req[h].op = "update" /\ req[h].body.newRole # None -> "select"
      [] req[h].op = "update" /\ req[h].body.newRole = None -> "commitUser"
      [] req[h].op = "delete" /\ role = Admin -> "count"
      [] OTHER -> "commitDelete"

\* db.get and db.refresh of the target (404 when there is no such row); or the
\* caller's own object, where get_current_user's is still in the (weak)
\* identity map: it was active, and had the role read then.
LoadTarget(h) ==
    LET t == req[h].body.target IN
    /\ IsAdmin(h) /\ req[h].op \in {"update", "delete"} /\ ~OnSelf(h)
    /\ IF account[t] = "absent" THEN Respond(h)
       ELSE \E cached \in BOOLEAN :
              LET role == IF cached THEN req[h].role ELSE userRole[t] IN
              /\ cached => t = req[h].user
              /\ req' = [req EXCEPT ![h].loadedRole = role,
                                    ![h].loadedActive = cached \/ active[t],
                                    ![h].pc = AfterLoading(h, role)]
    /\ UNCHANGED <<tables, sessionRows, redis, expired, held, audit>>

\* update_user without a role: one commit of what changed.
CommitUser(h) ==
    /\ At(h, "commitUser")
    /\ FlushUser(h)
    /\ Goto(h, "audit")
    /\ UNCHANGED <<account, perms, sessionRows, redis, expired, held, audit>>

ActiveAdmins == {u \in Users : userRole[u] = Admin /\ active[u] /\ account[u] = "live"}

\* delete_user counts the administrators before it deletes one of them.
CountAdmins(h) ==
    /\ At(h, "count")
    /\ IF Cardinality(ActiveAdmins) <= 1 THEN Respond(h) ELSE Goto(h, "commitDelete")
    /\ UNCHANGED <<tables, sessionRows, redis, expired, held, audit>>

\* The soft delete; is_active is written only if it was loaded as TRUE.
CommitDelete(h) ==
    LET t == req[h].body.target IN
    /\ At(h, "commitDelete")
    /\ account' = [account EXCEPT ![t] = "deleted"]
    /\ active' = IF req[h].loadedActive THEN [active EXCEPT ![t] = FALSE] ELSE active
    /\ Goto(h, "select")
    /\ UNCHANGED <<userRole, perms, sessionRows, redis, expired, held, audit>>

\* role_change when the role differs from the one loaded, else update_user.
AuditEntry(h) ==
    [action |-> CASE req[h].op = "create" -> "create_user"
                  [] req[h].op = "delete" -> "delete_user"
                  [] req[h].body.newRole \notin {None, req[h].loadedRole} -> "role_change"
                  [] OTHER -> "update_user",
     subject |-> req[h].body.target]

\* AuditLogger.log commits in a transaction of its own, last.
WriteAudit(h) ==
    /\ At(h, "audit")
    /\ audit' = audit \cup {AuditEntry(h)}
    /\ Respond(h)
    /\ UNCHANGED <<tables, sessionRows, redis, expired, held>>

-----------------------------------------------------------------------------
(* POST /admin/users *)

\* 409 for an e-mail of a user who is not deleted.
CheckEmail(h) ==
    /\ IsAdmin(h) /\ req[h].op = "create"
    /\ IF account[req[h].body.target] = "live" THEN Respond(h) ELSE Goto(h, "insertUser")
    /\ UNCHANGED <<tables, sessionRows, redis, expired, held, audit>>

\* The unique index on the e-mail also counts deleted users: 409 again.
InsertUser(h) ==
    LET b == req[h].body IN
    /\ At(h, "insertUser")
    /\ IF account[b.target] = "absent"
         THEN /\ account' = [account EXCEPT ![b.target] = "live"]
              /\ userRole' = [userRole EXCEPT ![b.target] = b.newRole]
              /\ active' = [active EXCEPT ![b.target] = TRUE]
              /\ Goto(h, "audit")
         ELSE /\ Respond(h)
              /\ UNCHANGED <<account, userRole, active>>
    /\ UNCHANGED <<perms, sessionRows, redis, expired, held, audit>>

-----------------------------------------------------------------------------
(* PATCH /admin/roles/{id}/permissions *)

\* db.get of the role: its row, or the one get_current_user has read, where it
\* is the caller's own role and still in the identity map.
LoadPatchedRole(h) ==
    /\ IsAdmin(h) /\ req[h].op = "patch"
    /\ \E cached \in BOOLEAN :
        /\ cached => req[h].body.newRole = req[h].role
        /\ req' = [req EXCEPT ![h].pc = "commitPerms",
                              ![h].perms = IF cached THEN @
                                           ELSE perms[req[h].body.newRole]]
    /\ UNCHANGED <<tables, sessionRows, redis, expired, held, audit>>

\* The new list is written if it differs from the loaded one.
CommitPerms(h) ==
    LET b == req[h].body IN
    /\ At(h, "commitPerms")
    /\ perms' = IF b.newPerms = req[h].perms THEN perms
                ELSE [perms EXCEPT ![b.newRole] = b.newPerms]
    /\ Goto(h, "members")
    /\ UNCHANGED <<account, userRole, active, sessionRows, redis, expired, held, audit>>

SelectMembers(h) ==
    /\ At(h, "members")
    /\ req' = [req EXCEPT ![h].pc = "nextMember",
                          ![h].members = {u \in Users : account[u] # "absent" /\
                                              userRole[u] = req[h].body.newRole}]
    /\ UNCHANGED <<tables, sessionRows, redis, expired, held, audit>>

\* revoke_all_sessions_for_user for each of them, then the answer.  Nothing
\* is written to the audit log.
RevokeNextMember(h) ==
    /\ At(h, "nextMember")
    /\ \/ \E u \in req[h].members :
            req' = [req EXCEPT ![h].members = @ \ {u}, ![h].body.target = u,
                               ![h].pc = "select"]
       \/ req[h].members = {} /\ Respond(h)
    /\ UNCHANGED <<tables, sessionRows, redis, expired, held, audit>>
=============================================================================
