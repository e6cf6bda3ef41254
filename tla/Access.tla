------------------------------- MODULE Access -------------------------------
(* Who may do what in one workspace.  A request passes the guard - session,  *)
(* workspace, membership, user, permissions, the first two and the last from *)
(* a cache in Redis - and then runs its handler: user and role               *)
(* administration, sign-out, or a plain read.  Suspending the workspace and  *)
(* accepting an invitation go past the guard.  Every await on the platform   *)
(* database, the tenant database or Redis is a point where others run.       *)
EXTENDS Naturals, FiniteSets

CONSTANTS
  People,      \* accounts
  Tokens,      \* session tokens
  Slots,       \* requests in flight at once (a bound)
  Plans,       \* who is who at first, who is signed in, the operations to come and, a
               \* bound, how many requests die between two steps
  NoOne        \* a model value

Roles       == {"owner", "staff"}
Permissions == {"read", "manage"}
Operations  == LET by == People \cup {NoOne} IN
  [kind : {"setRoles", "invite"}, by : by, on : People, gives : SUBSET Roles]
  \cup [kind : {"disable", "enable", "remove", "accept"}, by : by, on : People, gives : {{}}]
  \cup [kind : {"editRole"}, by : by, on : {NoOne}, gives : SUBSET Permissions]
  \cup [kind : {"read", "logout", "suspend", "activate"}, by : by, on : {NoOne}, gives : {{}}]
Statuses    == {"gone", "invited", "active", "disabled"}

ASSUME AccessAssumption ==
  /\ NoOne \notin People \cup Tokens
  /\ \A p \in Plans : /\ p.status \in [People -> Statuses] /\ p.roles \in [People -> SUBSET Roles]
                      /\ p.signedIn \in [Tokens -> People \cup {NoOne}] /\ p.ops \subseteq Operations /\ p.faults \in Nat
                      /\ \E u \in People : p.status[u] = "active" /\ "owner" \in p.roles[u]

VARIABLES
  token,        \* platform database: sessions, by token
  tenant,       \* platform database: status of the workspace
  member,       \* platform database: tenant_memberships
  invitation,   \* platform database: the invitation of each person
  user,         \* tenant database: users with their roles
  staff,        \* tenant database: the permissions of the staff role, and its version
  sessionCache, tenantCache, permCache,  \* Redis
  req,          \* the requests
  todo,         \* operations still to come
  faults,       \* how many requests may still die
  raced,        \* history: two removals of an owner overlapped
  torn,         \* history: people two operations worked on at once, or one left half done
  late          \* history: cache entries written from a row that had changed

rows   == <<token, tenant, member, invitation, user, staff>>
caches == <<sessionCache, tenantCache, permCache>>
past   == <<raced, torn, late>>
vars   == <<rows, caches, req, todo, faults, past>>

Nothing == [kind |-> "read", by |-> NoOne, on |-> NoOne, gives |-> {}]
Free    == [step |-> "idle", token |-> NoOne, op |-> Nothing, seen |-> 0, status |-> "none",
            may |-> {}, toks |-> {}, losing |-> FALSE]

GuardSteps == {"loaded", "tenant", "tenantRead", "member", "user", "perms", "permsRead"}
WorkSteps  == {"commit", "setMember", "revoke", "dropSessions", "forget", "inviteMember", "insertUser",
               "deleteMember", "closeInvitation", "claim", "join", "signOut", "dropTenant", "revokeAll"}

CacheKeys  == ({"session"} \X Tokens) \cup ({"perms"} \X People) \cup {<<"tenant", NoOne>>}
Token      == [who : {NoOne}, state : {"none"}] \cup [who : People, state : {"live", "revoked", "signedOut"}]
User       == [status : Statuses, roles : SUBSET Roles, version : Nat]
Steps      == {"idle", "handler", "endSession"} \cup GuardSteps \cup WorkSteps
Signed     == GuardSteps \cup {"handler", "endSession", "signOut"}
Request    == [step : Steps,
               token : Tokens \cup {NoOne}, op : Operations, seen : Nat,
               status : {"none", "active", "suspended"}, may : SUBSET Permissions,
               toks : SUBSET Tokens, losing : BOOLEAN]

\* The type of every variable.
TypeOK ==
  /\ token \in [Tokens -> Token]
  /\ tenant \in {"active", "suspended"}
  /\ member \in [People -> {"none", "invited", "active", "disabled"}]
  /\ invitation \in [People -> {"none", "open", "accepted", "closed"}]
  /\ user \in [People -> User]
  /\ staff \in [perms : SUBSET Permissions, version : Nat]
  /\ sessionCache \in [Tokens -> BOOLEAN]
  /\ tenantCache \in {"none", "active", "suspended"}
  /\ permCache \in [People -> (SUBSET Permissions) \cup {NoOne}]
  /\ req \in [Slots -> Request]
  /\ \A r \in Slots : req[r].step \in Signed =>
       req[r].token \in Tokens /\ token[req[r].token].state # "none"
  /\ todo \subseteq Operations /\ faults \in Nat
  /\ raced \in BOOLEAN /\ torn \subseteq People
  /\ late \subseteq CacheKeys

Init ==
  /\ \E p \in Plans :
       /\ token = [k \in Tokens |-> [who |-> p.signedIn[k], state |-> IF p.signedIn[k] = NoOne THEN "none" ELSE "live"]]
       /\ user = [u \in People |-> [status |-> p.status[u], roles |-> p.roles[u], version |-> 1]]
       /\ member = [u \in People |-> IF p.status[u] = "gone" THEN "none" ELSE p.status[u]]
       /\ invitation = [u \in People |-> IF p.status[u] = "invited" THEN "open" ELSE "none"]
       /\ todo = p.ops /\ faults = p.faults
  /\ tenant = "active" /\ staff = [perms |-> {"read"}, version |-> 1]
  /\ sessionCache = [k \in Tokens |-> FALSE] /\ tenantCache = "none"
  /\ permCache = [u \in People |-> NoOne]
  /\ req = [r \in Slots |-> Free]
  /\ raced = FALSE /\ torn = {} /\ late = {}

-----------------------------------------------------------------------------
Step(r, s)        == req' = [req EXCEPT ![r].step = s]
End(r)            == req' = [req EXCEPT ![r] = Free]
At(r, s)          == req[r].step = s
Who(r)            == IF req[r].token = NoOne THEN req[r].op.by ELSE token[req[r].token].who
IsOwner(u)        == user[u].status # "gone" /\ "owner" \in user[u].roles
RolePerms(role)   == IF role = "owner" THEN Permissions ELSE staff.perms
PermsOf(u)        == UNION {RolePerms(role) : role \in user[u].roles}
LiveTokensOf(S)   == {k \in Tokens : token[k].who \in S /\ token[k].state = "live"}
WorksOn(q, u)     == req[q].step \in WorkSteps /\ req[q].op.on = u
\* A cache entry is late when the row it was filled from has changed since.
Written(key, isOld) == late' = IF isOld THEN late \cup {key} ELSE late \ {key}
Dropped(keys)       == late' = late \ keys
\* The handler goes on to write: note whether another is already at work on the same person.
Starts(r, s) ==
  /\ Step(r, s)
  /\ torn' = IF \E q \in Slots \ {r} : WorksOn(q, req[r].op.on) THEN torn \cup {req[r].op.on} ELSE torn

-----------------------------------------------------------------------------
(* The guard *)

\* Signing in makes a session; it may enter the workspace only as an active member.
Login(k, u) ==
  /\ token[k].state = "none" /\ member[u] = "active" /\ tenant = "active"
  /\ token' = [token EXCEPT ![k] = [who |-> u, state |-> "live"]]
  /\ UNCHANGED <<tenant, member, invitation, user, staff, caches, req, todo, faults, past>>

\* The version a client sends is the one it was shown.
SeenBy(o) == IF o.kind = "editRole" THEN staff.version ELSE IF o.on = NoOne THEN 0 ELSE user[o.on].version
AfterSession(o) == IF o.kind = "logout" THEN "endSession" ELSE "tenant"

\* A request with a token looks its session up; one without a live session is
\* refused.  A read is asked for again and again, one at a time (a bound), any
\* other operation once.
Begin(r, k, o) ==
  /\ At(r, "idle") /\ token[k].state # "none"
  /\ o.by = token[k].who /\ o.kind # "accept" /\ \A q \in Slots : req[q].op # o
  /\ sessionCache[k] \/ token[k].state = "live"
  /\ req' = [req EXCEPT ![r] = [Free EXCEPT !.step = IF sessionCache[k] THEN AfterSession(o) ELSE "loaded",
                                             !.token = k, !.op = o, !.seen = SeenBy(o)]]
  /\ todo' = {p \in todo : p # o \/ p.kind = "read"}
  /\ UNCHANGED <<rows, caches, faults, past>>

SaveSession(r) ==
  /\ At(r, "loaded")
  /\ sessionCache' = [sessionCache EXCEPT ![req[r].token] = TRUE]
  /\ Written(<<"session", req[r].token>>, token[req[r].token].state # "live")
  /\ Step(r, AfterSession(req[r].op))
  /\ UNCHANGED <<rows, tenantCache, permCache, todo, faults, raced, torn>>

\* TenantDirectory.get, and the status check of resolve.
TenantKnown(r) ==
  /\ At(r, "tenant") /\ tenantCache # "none"
  /\ IF tenantCache = "active" THEN Step(r, "member") ELSE End(r)
  /\ UNCHANGED <<rows, caches, todo, faults, past>>

TenantRead(r) ==
  /\ At(r, "tenant") /\ tenantCache = "none"
  /\ req' = [req EXCEPT ![r].step = "tenantRead", ![r].status = tenant]
  /\ UNCHANGED <<rows, caches, todo, faults, past>>

SaveTenant(r) ==
  /\ At(r, "tenantRead")
  /\ tenantCache' = req[r].status
  /\ Written(<<"tenant", NoOne>>, req[r].status # tenant)
  /\ IF req[r].status = "active"
     THEN req' = [req EXCEPT ![r].step = "member", ![r].status = "none"]
     ELSE End(r)
  /\ UNCHANGED <<rows, sessionCache, permCache, todo, faults, raced, torn>>

Member(r) ==
  /\ At(r, "member")
  /\ IF member[Who(r)] = "active" THEN Step(r, "user") ELSE End(r)
  /\ UNCHANGED <<rows, caches, todo, faults, past>>

UserRow(r) ==
  /\ At(r, "user")
  /\ IF user[Who(r)].status = "active" THEN Step(r, "perms") ELSE End(r)
  /\ UNCHANGED <<rows, caches, todo, faults, past>>

Needs(o) == IF o.kind = "read" THEN "read" ELSE "manage"
Admit(r, perms) ==
  IF Needs(req[r].op) \in perms
  THEN req' = [req EXCEPT ![r].step = "handler", ![r].may = perms]
  ELSE End(r)

PermsKnown(r) ==
  /\ At(r, "perms") /\ permCache[Who(r)] # NoOne
  /\ Admit(r, permCache[Who(r)])
  /\ UNCHANGED <<rows, caches, todo, faults, past>>

PermsRead(r) ==
  /\ At(r, "perms") /\ permCache[Who(r)] = NoOne
  /\ req' = [req EXCEPT ![r].step = "permsRead", ![r].may = PermsOf(Who(r))]
  /\ UNCHANGED <<rows, caches, todo, faults, past>>

SavePerms(r) ==
  /\ At(r, "permsRead")
  /\ permCache' = [permCache EXCEPT ![Who(r)] = req[r].may]
  /\ Written(<<"perms", Who(r)>>, req[r].may # PermsOf(Who(r)))
  /\ Admit(r, req[r].may)
  /\ UNCHANGED <<rows, sessionCache, tenantCache, todo, faults, raced, torn>>

Answer(r) ==
  /\ At(r, "handler") /\ req[r].op.kind = "read"
  /\ End(r)
  /\ UNCHANGED <<rows, caches, todo, faults, past>>

-----------------------------------------------------------------------------
(* Users and roles: users.service.ts, roles.service.ts *)

Changes(o)  == o.kind \in {"disable", "enable", "setRoles"}
Target(r)   == req[r].op.on
MayGrant(r) == /\ "owner" \in req[r].op.gives => IsOwner(Who(r))
               /\ UNION {RolePerms(role) : role \in req[r].op.gives} \subseteq req[r].may
LosesOwner(o) == /\ IsOwner(o.on)
                 /\ o.kind = "disable" \/ (o.kind = "setRoles" /\ "owner" \notin o.gives)
AnotherActiveOwner(u) == \E w \in People \ {u} : user[w].status = "active" /\ IsOwner(w)

\* Mutant: the owners are counted with the one who leaves.
AllowedCountsSelf(r) == LET o == req[r].op IN
  /\ user[o.on].status # "gone" /\ o.on # Who(r)
  /\ o.kind = "enable" => user[o.on].status # "invited"
  /\ IsOwner(o.on) => IsOwner(Who(r))
  /\ o.kind = "setRoles" => MayGrant(r)

Allowed(r) == LET o == req[r].op IN
  /\ user[o.on].status # "gone" /\ o.on # Who(r)
  /\ o.kind = "enable" => user[o.on].status # "invited"
  /\ IsOwner(o.on) => IsOwner(Who(r))
  /\ o.kind = "setRoles" => MayGrant(r)
  /\ LosesOwner(o) => AnotherActiveOwner(o.on)

\* users.update up to its transaction.
Check(r) ==
  /\ At(r, "handler") /\ Changes(req[r].op)
  /\ IF Allowed(r)
     THEN /\ req' = [req EXCEPT ![r].step = "commit", ![r].losing = LosesOwner(req[r].op), ![r].may = {}]
          /\ torn' = torn \cup {u \in {Target(r)} : \E q \in Slots \ {r} : WorksOn(q, u)}
     ELSE End(r) /\ UNCHANGED torn
  /\ UNCHANGED <<rows, caches, todo, faults, raced, late>>

\* The transaction: nothing unless the version is still the one the client saw.
Commit(r) ==
  /\ At(r, "commit")
  /\ LET o == req[r].op IN
       IF user[o.on].status # "gone" /\ user[o.on].version = req[r].seen
       THEN /\ user' = [user EXCEPT ![o.on].version = @ + 1,
                                    ![o.on].status = CASE o.kind = "disable" -> "disabled"
                                                       [] o.kind = "enable" -> "active" [] OTHER -> @,
                                    ![o.on].roles = IF o.kind = "setRoles" THEN o.gives ELSE @]
            /\ raced' = (raced \/ (req[r].losing /\ \E q \in Slots \ {r} : At(q, "commit") /\ req[q].losing))
            /\ Step(r, IF o.kind = "setRoles" THEN "forget" ELSE "setMember")
       ELSE End(r) /\ UNCHANGED <<user, raced>>
  /\ UNCHANGED <<token, tenant, member, invitation, staff, caches, todo, faults, torn, late>>

\* Mutant: only disabling is carried over to the membership.
SetMemberOnDisable(r) ==
  /\ At(r, "setMember")
  /\ LET o == req[r].op IN
       /\ member' = [member EXCEPT ![o.on] = IF o.kind = "disable" THEN "disabled" ELSE @]
       /\ Step(r, IF o.kind = "disable" THEN "revoke" ELSE "forget")
  /\ UNCHANGED <<token, tenant, invitation, user, staff, caches, todo, faults, past>>

\* The membership follows the status, in the other database.
SetMember(r) ==
  /\ At(r, "setMember")
  /\ LET o == req[r].op IN
       /\ member' = [member EXCEPT ![o.on] = IF @ = "none" THEN @ ELSE IF o.kind = "disable" THEN "disabled" ELSE "active"]
       /\ Step(r, IF o.kind = "disable" THEN "revoke" ELSE "forget")
  /\ UNCHANGED <<token, tenant, invitation, user, staff, caches, todo, faults, past>>

\* Live sessions are revoked in one statement, which returns them...
RevokeRows(r, people) ==
  /\ token' = [k \in Tokens |-> IF k \in LiveTokensOf(people) THEN [token[k] EXCEPT !.state = "revoked"] ELSE token[k]]
  /\ req' = [req EXCEPT ![r].step = "dropSessions", ![r].toks = LiveTokensOf(people)]
  /\ UNCHANGED <<tenant, member, invitation, user, staff, caches, todo, faults, past>>

RevokeTenantSessions(r) == At(r, "revoke") /\ RevokeRows(r, {Target(r)})
RevokeAllForTenant(r)   == At(r, "revokeAll") /\ RevokeRows(r, People)

\* ...and their cache entries are deleted.
DropSessions(r) ==
  /\ At(r, "dropSessions")
  /\ sessionCache' = [k \in Tokens |-> sessionCache[k] /\ k \notin req[r].toks]
  /\ Dropped({"session"} \X req[r].toks)
  /\ IF req[r].op.kind = "disable" THEN req' = [req EXCEPT ![r].step = "forget", ![r].toks = {}] ELSE End(r)
  /\ UNCHANGED <<rows, tenantCache, permCache, todo, faults, raced, torn>>

\* Mutant: only the entry of the person named is deleted, also after a change of a role.
ForgetTarget(r) ==
  /\ At(r, "forget")
  /\ permCache' = [u \in People |-> IF u = Target(r) THEN NoOne ELSE permCache[u]]
  /\ Dropped({<<"perms", u>> : u \in {Target(r)}})
  /\ End(r)
  /\ UNCHANGED <<rows, sessionCache, tenantCache, todo, faults, raced, torn>>

\* invalidatePermissions: of one person, or of all after a change of a role.
Forget(r) ==
  /\ At(r, "forget")
  /\ LET whose == IF req[r].op.kind = "editRole" THEN People ELSE {Target(r)} IN
       /\ permCache' = [u \in People |-> IF u \in whose THEN NoOne ELSE permCache[u]]
       /\ Dropped({"perms"} \X whose)
  /\ End(r)
  /\ UNCHANGED <<rows, sessionCache, tenantCache, todo, faults, raced, torn>>

\* roles.update: the actor must hold what is added and what is taken away.
EditRole(r) ==
  /\ At(r, "handler") /\ req[r].op.kind = "editRole"
  /\ LET gives == req[r].op.gives
         moved == (gives \ staff.perms) \cup (staff.perms \ gives)
     IN IF moved \subseteq req[r].may /\ staff.version = req[r].seen
        THEN /\ staff' = [perms |-> gives, version |-> staff.version + 1]
             /\ req' = [req EXCEPT ![r].step = "forget", ![r].may = {}]
        ELSE End(r) /\ UNCHANGED staff
  /\ UNCHANGED <<token, tenant, member, invitation, user, caches, todo, faults, past>>

-----------------------------------------------------------------------------
(* Invitations *)

\* users.invite: nobody who is a user already.
Invite(r) ==
  /\ At(r, "handler") /\ req[r].op.kind = "invite"
  /\ IF user[Target(r)].status = "gone" /\ MayGrant(r)
     THEN Starts(r, "inviteMember")
     ELSE End(r) /\ UNCHANGED torn
  /\ UNCHANGED <<rows, caches, todo, faults, raced, late>>

InviteMember(r) ==
  /\ At(r, "inviteMember")
  /\ member' = [member EXCEPT ![Target(r)] = "invited"]
  /\ Step(r, "insertUser")
  /\ UNCHANGED <<token, tenant, invitation, user, staff, caches, todo, faults, past>>

\* The address is unique among users; then the invitation is sent, the earlier one closed.
InsertUser(r) ==
  /\ At(r, "insertUser")
  /\ IF user[Target(r)].status = "gone"
     THEN /\ user' = [user EXCEPT ![Target(r)] = [status |-> "invited", roles |-> req[r].op.gives, version |-> @.version + 1]]
          /\ invitation' = [invitation EXCEPT ![Target(r)] = "open"]
     ELSE UNCHANGED <<user, invitation>>
  /\ End(r)
  /\ UNCHANGED <<token, tenant, member, staff, caches, todo, faults, past>>

\* users.removeInvited: the user, then the membership, then the invitation.
RemoveInvited(r) ==
  /\ At(r, "handler") /\ req[r].op.kind = "remove"
  /\ IF user[Target(r)].status = "invited"
     THEN /\ user' = [user EXCEPT ![Target(r)].status = "gone", ![Target(r)].roles = {}]
          /\ Starts(r, "deleteMember")
     ELSE End(r) /\ UNCHANGED <<user, torn>>
  /\ UNCHANGED <<token, tenant, member, invitation, staff, caches, todo, faults, raced, late>>

DeleteMember(r) ==
  /\ At(r, "deleteMember")
  /\ member' = [member EXCEPT ![Target(r)] = IF @ = "invited" THEN "none" ELSE @]
  /\ Step(r, "closeInvitation")
  /\ UNCHANGED <<token, tenant, invitation, user, staff, caches, todo, faults, past>>

CloseInvitation(r) ==
  /\ At(r, "closeInvitation")
  /\ invitation' = [invitation EXCEPT ![Target(r)] = IF @ = "open" THEN "closed" ELSE @]
  /\ End(r)
  /\ UNCHANGED <<token, tenant, member, user, staff, caches, todo, faults, past>>

\* auth.acceptInvitation, a public route: an open invitation is found...
Accept(r, o) ==
  /\ At(r, "idle") /\ o \in todo /\ o.kind = "accept" /\ invitation[o.on] = "open"
  /\ req' = [req EXCEPT ![r] = [Free EXCEPT !.step = "claim", !.op = o]]
  /\ torn' = torn \cup {u \in {o.on} : \E q \in Slots \ {r} : WorksOn(q, u)}
  /\ todo' = todo \ {o}
  /\ UNCHANGED <<rows, caches, faults, raced, late>>

\* ...and taken, whatever became of it meanwhile, with the membership made active...
Claim(r) ==
  /\ At(r, "claim")
  /\ invitation' = [invitation EXCEPT ![Target(r)] = "accepted"]
  /\ member' = [member EXCEPT ![Target(r)] = IF @ = "none" THEN @ ELSE "active"]
  /\ Step(r, "join")
  /\ UNCHANGED <<token, tenant, user, staff, caches, todo, faults, past>>

\* ...and the user, if still invited.
Join(r) ==
  /\ At(r, "join")
  /\ user' = [user EXCEPT ![Target(r)].status = IF @ = "invited" THEN "active" ELSE @]
  /\ End(r)
  /\ UNCHANGED <<token, tenant, member, invitation, staff, caches, todo, faults, past>>

-----------------------------------------------------------------------------
(* Sign-out, the workspace, and Redis *)

\* sessions.revoke deletes the cache entry first...
EndSession(r) ==
  /\ At(r, "endSession")
  /\ sessionCache' = [sessionCache EXCEPT ![req[r].token] = FALSE]
  /\ Dropped({<<"session", req[r].token>>})
  /\ Step(r, "signOut")
  /\ UNCHANGED <<rows, tenantCache, permCache, todo, faults, raced, torn>>

\* ...and marks the row after.
SignOut(r) ==
  /\ At(r, "signOut")
  /\ token' = [token EXCEPT ![req[r].token].state = IF @ = "live" THEN "signedOut" ELSE @]
  /\ End(r)
  /\ UNCHANGED <<tenant, member, invitation, user, staff, caches, todo, faults, past>>

\* suspend and activate, by a platform operator.
Operate(r, o) ==
  /\ At(r, "idle") /\ o \in todo
  /\ \/ o.kind = "suspend" /\ tenant = "active" /\ tenant' = "suspended"
     \/ o.kind = "activate" /\ tenant = "suspended" /\ tenant' = "active"
  /\ req' = [req EXCEPT ![r] = [Free EXCEPT !.step = "dropTenant", !.op = o]]
  /\ todo' = todo \ {o}
  /\ UNCHANGED <<token, member, invitation, user, staff, caches, faults, past>>

DropTenant(r) ==
  /\ At(r, "dropTenant")
  /\ tenantCache' = "none"
  /\ Dropped({<<"tenant", NoOne>>})
  /\ IF req[r].op.kind = "suspend" THEN Step(r, "revokeAll") ELSE End(r)
  /\ UNCHANGED <<rows, sessionCache, permCache, todo, faults, raced, torn>>

\* Entries are written with a time to live.
ExpireSession(k) ==
  /\ sessionCache[k]
  /\ sessionCache' = [sessionCache EXCEPT ![k] = FALSE]
  /\ Dropped({<<"session", k>>})
  /\ UNCHANGED <<rows, tenantCache, permCache, req, todo, faults, raced, torn>>

ExpireTenant ==
  /\ tenantCache # "none"
  /\ tenantCache' = "none"
  /\ Dropped({<<"tenant", NoOne>>})
  /\ UNCHANGED <<rows, sessionCache, permCache, req, todo, faults, raced, torn>>

\* Mutant: the permissions are kept until they are invalidated.
NeverExpire(u) == FALSE /\ UNCHANGED vars

ExpirePerms(u) ==
  /\ permCache[u] # NoOne
  /\ permCache' = [permCache EXCEPT ![u] = NoOne]
  /\ Dropped({<<"perms", u>>})
  /\ UNCHANGED <<rows, sessionCache, tenantCache, req, todo, faults, raced, torn>>

\* What a request at this step has still to delete.
Owes(r) == LET o == req[r].op IN
  CASE At(r, "forget") \/ At(r, "setMember") \/ At(r, "revoke") ->
         {"perms"} \X (IF o.kind = "editRole" THEN People ELSE {o.on})
    [] At(r, "dropSessions") ->
         ({"session"} \X req[r].toks) \cup ({"perms"} \X (IF o.kind = "disable" THEN {o.on} ELSE {}))
    [] At(r, "dropTenant") -> {<<"tenant", NoOne>>}
    [] OTHER -> {}

\* The process dies, or a database or Redis fails, between two steps.
Crash(r) ==
  /\ req[r].step \in WorkSteps /\ faults > 0
  /\ faults' = faults - 1
  /\ torn' = torn \cup (People \cap {Target(r)})
  /\ late' = late \cup Owes(r)
  /\ End(r)
  /\ UNCHANGED <<rows, caches, todo, raced>>

-----------------------------------------------------------------------------
Guard(r) == SaveSession(r) \/ TenantKnown(r) \/ TenantRead(r) \/ SaveTenant(r) \/ Member(r)
              \/ UserRow(r) \/ PermsKnown(r) \/ PermsRead(r) \/ SavePerms(r)
Work(r)  == Answer(r) \/ Check(r) \/ Commit(r) \/ SetMember(r) \/ RevokeTenantSessions(r)
              \/ RevokeAllForTenant(r) \/ DropSessions(r) \/ Forget(r) \/ EditRole(r)
              \/ Invite(r) \/ InviteMember(r) \/ InsertUser(r)
              \/ RemoveInvited(r) \/ DeleteMember(r) \/ CloseInvitation(r) \/ Claim(r) \/ Join(r)
              \/ EndSession(r) \/ SignOut(r) \/ DropTenant(r)

Next ==
  \/ \E r \in Slots : Guard(r) \/ Work(r) \/ Crash(r)
  \/ \E r \in Slots, k \in Tokens, o \in todo : Begin(r, k, o)
  \/ \E r \in Slots, o \in todo : Accept(r, o) \/ Operate(r, o)
  \/ \E k \in Tokens, u \in People : Login(k, u)
  \/ \E k \in Tokens : ExpireSession(k)
  \/ \E u \in People : ExpirePerms(u)
  \/ ExpireTenant

Spec == Init /\ [][Next]_vars

\* A request in flight goes on, and Redis drops what is past its time to live.
Fairness ==
  /\ \A r \in Slots : WF_vars(Guard(r) \/ Work(r))
  /\ \A k \in Tokens : WF_vars(ExpireSession(k))
  /\ \A u \in People : WF_vars(ExpirePerms(u))
  /\ WF_vars(ExpireTenant)

FairSpec == Spec /\ Fairness

-----------------------------------------------------------------------------
ActiveOwners == {u \in People : user[u].status = "active" /\ "owner" \in user[u].roles}

\* assertAnotherActiveOwner: the workspace keeps an active owner, except when
\* two removals of an owner overlapped, each counting the other's.
OwnerKept == ActiveOwners = {} => raced

\* users.update, acceptInvitation, invite: nobody is shown as an active user
\* and turned away for an inactive membership, once the request that changed
\* them is over, unless two overlapped or one was cut short.
NotLockedOut ==
  \A u \in People \ torn :
    user[u].status = "active" /\ ~(\E r \in Slots : WorksOn(r, u)) => member[u] = "active"

StaleSession(k) == sessionCache[k] /\ token[k].state = "revoked"
StalePerms(u)   == permCache[u] \notin {NoOne, PermsOf(u)}
StaleTenant     == tenantCache \notin {"none", tenant}

\* Every change deletes the entries that show it: an outdated one is there
\* only while the request that changed the row is on its way to delete it, or
\* because it was written late, from a row read before the change.  (Sign-out,
\* which deletes before it changes the row, has no such guarantee.)
StaleOnlyIfOvertaken ==
  LET excused == late \cup UNION {Owes(r) : r \in Slots} IN
    /\ \A k \in Tokens : StaleSession(k) => <<"session", k>> \in excused
    /\ \A u \in People : StalePerms(u) => <<"perms", u>> \in excused
    /\ StaleTenant => <<"tenant", NoOne>> \in excused

\* When the administration stops, the caches come to agree with the databases
\* for good, whatever was written late, half done, or read in between.
CachesConverge ==
  <>[](/\ \A k \in Tokens : sessionCache[k] => token[k].state = "live"
       /\ \A u \in People : ~StalePerms(u)
       /\ ~StaleTenant)
=============================================================================
