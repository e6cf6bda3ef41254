---------------------------- MODULE AccessProofs ----------------------------
(***************************************************************************)
(* Theorems about Access, for any people, tokens and plans, and any number *)
(* of requests at once.                                                    *)
(***************************************************************************)
EXTENDS Access, TLAPS

-----------------------------------------------------------------------------
(* What a request does, step by step *)

\* At a step there are only the operations that come to it.
Fits(q) ==
  /\ q.step = "commit" => Changes(q.op)
  /\ q.step = "setMember" => q.op.kind \in {"disable", "enable"}
  /\ q.step = "revoke" => q.op.kind = "disable"
  /\ q.step = "dropSessions" => q.op.kind \in {"disable", "suspend"}
  /\ q.step = "forget" => Changes(q.op) \/ q.op.kind = "editRole"
  /\ q.step \in {"inviteMember", "insertUser"} => q.op.kind = "invite"
  /\ q.step \in {"deleteMember", "closeInvitation"} => q.op.kind = "remove"
  /\ q.step \in {"claim", "join"} => q.op.kind = "accept"
  /\ q.step \in {"endSession", "signOut"} => q.op.kind = "logout"
  /\ q.step = "dropTenant" => q.op.kind \in {"suspend", "activate"}
  /\ q.step = "revokeAll" => q.op.kind = "suspend"

\* The step a request comes to after the one it is at.
Leads(q, s) ==
  \/ q.step = "loaded" /\ s = AfterSession(q.op)
  \/ q.step = "tenant" /\ s \in {"tenantRead", "member"}
  \/ q.step = "tenantRead" /\ s = "member"
  \/ q.step = "member" /\ s = "user"
  \/ q.step = "user" /\ s = "perms"
  \/ q.step = "perms" /\ s \in {"permsRead", "handler"}
  \/ q.step = "permsRead" /\ s = "handler"
  \/ q.step = "handler" /\ \/ Changes(q.op) /\ s = "commit"
                           \/ q.op.kind = "editRole" /\ s = "forget"
                           \/ q.op.kind = "invite" /\ s = "inviteMember"
                           \/ q.op.kind = "remove" /\ s = "deleteMember"
  \/ q.step = "commit" /\ s = IF q.op.kind = "setRoles" THEN "forget" ELSE "setMember"
  \/ q.step = "setMember" /\ s = IF q.op.kind = "disable" THEN "revoke" ELSE "forget"
  \/ q.step \in {"revoke", "revokeAll"} /\ s = "dropSessions"
  \/ q.step = "dropSessions" /\ q.op.kind = "disable" /\ s = "forget"
  \/ q.step = "inviteMember" /\ s = "insertUser"
  \/ q.step = "deleteMember" /\ s = "closeInvitation"
  \/ q.step = "claim" /\ s = "join"
  \/ q.step = "endSession" /\ s = "signOut"
  \/ q.step = "dropTenant" /\ q.op.kind = "suspend" /\ s = "revokeAll"

\* The same request at another step.
Turned(q, n, s) ==
  n \in Request /\ n.step = s /\ n.token = q.token /\ n.op = q.op /\ n.seen = q.seen

\* A request goes on as n.
Becomes(r, n) ==
  req' = [req EXCEPT ![r] = n] /\ Turned(req[r], n, n.step) /\ Leads(req[r], n.step)

\* A new one comes in.
Enters(r, n) ==
  /\ req[r].step = "idle" /\ req' = [req EXCEPT ![r] = n] /\ n \in Request
  /\ n.op \in todo /\ n.losing = FALSE /\ n.may = {} /\ n.toks = {}
  /\ \/ /\ n.step \in {"loaded", AfterSession(n.op)} /\ n.op.kind # "accept"
        /\ n.token \in Tokens /\ token[n.token].state # "none" /\ n.seen = SeenBy(n.op)
     \/ n.step = "claim" /\ n.op.kind = "accept" /\ n.token = NoOne
     \/ n.step = "dropTenant" /\ n.op.kind \in {"suspend", "activate"} /\ n.token = NoOne

\* An operation is on somebody if it is about somebody, and gives what it may give.
LEMMA Ops ==
  ASSUME NEW o \in Operations
  PROVE  /\ o.on \in People \cup {NoOne} /\ o.by \in People \cup {NoOne}
         /\ Changes(o) \/ o.kind \in {"invite", "remove", "accept"} => o.on \in People
         /\ o.kind \in {"editRole", "read", "logout", "suspend", "activate"} => o.on = NoOne
         /\ o.kind \in {"setRoles", "invite"} => o.gives \subseteq Roles
         /\ o.kind = "editRole" => o.gives \subseteq Permissions
  BY DEF Operations, Changes

\* The record of a request keeps its type, and its other fields, when some are written.
LEMMA Fields ==
  ASSUME NEW q \in Request, NEW s \in Steps
  PROVE  /\ Turned(q, [q EXCEPT !.step = s], s) /\ [q EXCEPT !.step = s].losing = q.losing
         /\ \A st \in {"none", "active", "suspended"} :
              Turned(q, [q EXCEPT !.step = s, !.status = st], s)
         /\ \A m \in SUBSET Permissions : Turned(q, [q EXCEPT !.step = s, !.may = m], s)
         /\ \A m \in SUBSET Permissions, b \in BOOLEAN :
              /\ Turned(q, [q EXCEPT !.step = s, !.losing = b, !.may = m], s)
              /\ [q EXCEPT !.step = s, !.losing = b, !.may = m].losing = b
         /\ \A t \in SUBSET Tokens :
              /\ Turned(q, [q EXCEPT !.step = s, !.toks = t], s)
              /\ [q EXCEPT !.step = s, !.toks = t].toks = t
<1>1. q.step \in Steps /\ q.op \in Operations /\ q.token \in Tokens \cup {NoOne} /\ q.seen \in Nat
  BY DEF Request
<1>2. Turned(q, [q EXCEPT !.step = s], s) /\ [q EXCEPT !.step = s].losing = q.losing
  BY <1>1 DEF Request, Turned
<1>3. ASSUME NEW st \in {"none", "active", "suspended"}
      PROVE  Turned(q, [q EXCEPT !.step = s, !.status = st], s)
  BY <1>1 DEF Request, Turned
<1>4. ASSUME NEW m \in SUBSET Permissions
      PROVE  Turned(q, [q EXCEPT !.step = s, !.may = m], s)
  BY <1>1 DEF Request, Turned
<1>5. ASSUME NEW m \in SUBSET Permissions, NEW b \in BOOLEAN
      PROVE  /\ Turned(q, [q EXCEPT !.step = s, !.losing = b, !.may = m], s)
             /\ [q EXCEPT !.step = s, !.losing = b, !.may = m].losing = b
  BY <1>1 DEF Request, Turned
<1>6. ASSUME NEW t \in SUBSET Tokens
      PROVE  /\ Turned(q, [q EXCEPT !.step = s, !.toks = t], s)
             /\ [q EXCEPT !.step = s, !.toks = t].toks = t
  BY <1>1 DEF Request, Turned
<1>7. QED
  BY <1>2, <1>3, <1>4, <1>5, <1>6

\* No request is at the first step.
LEMMA FreeFits ==
  /\ Free \in Request /\ Fits(Free) /\ Free.step = "idle" /\ Free.op \in Operations
  /\ Free.op.on = NoOne
  BY DEF Free, Nothing, Request, Operations, Steps, Fits

\* What a person may do is a set of permissions.
LEMMA PermsType ==
  ASSUME TypeOK, NEW u \in People
  PROVE  PermsOf(u) \in SUBSET Permissions
  BY DEF TypeOK, PermsOf, RolePerms, User

\* A request that went through the guard is somebody's.
LEMMA WhoType ==
  ASSUME TypeOK, NEW r \in Slots, req[r].step \in Signed
  PROVE  Who(r) \in People
<1>1. req[r].token \in Tokens /\ token[req[r].token].state # "none" /\ token \in [Tokens -> Token]
  BY DEF TypeOK
<1>2. req[r].token # NoOne
  BY <1>1, AccessAssumption
<1>3. QED
  BY <1>1, <1>2 DEF Who, Token

\* A step of the guard ends the request or takes it to the next step.
LEMMA GuardMoves ==
  ASSUME TypeOK, NEW r \in Slots, Guard(r)
  PROVE  End(r) \/ \E n : Becomes(r, n)
<1> DEFINE q == req[r]
           o == q.op
<1>0. q \in Request /\ req \in [Slots -> Request] /\ tenant \in {"active", "suspended"}
  BY DEF TypeOK
<1>1. ASSUME NEW s, Leads(q, s), NEW n, Turned(q, n, s), req' = [req EXCEPT ![r] = n]
      PROVE  \E m : Becomes(r, m)
  BY <1>1 DEF Becomes, Turned
<1>2. ASSUME NEW s \in Steps, Leads(q, s), Step(r, s)
      PROVE  \E m : Becomes(r, m)
  <2>1. Turned(q, [q EXCEPT !.step = s], s)
    BY <1>0, <1>2, Fields
  <2>2. req' = [req EXCEPT ![r] = [q EXCEPT !.step = s]]
    BY <1>2 DEF Step
  <2>3. QED
    BY <1>1, <1>2, <2>1, <2>2
<1>3. ASSUME NEW m \in SUBSET Permissions, Leads(q, "handler"), Admit(r, m)
      PROVE  End(r) \/ \E n : Becomes(r, n)
  <2>1. Turned(q, [q EXCEPT !.step = "handler", !.may = m], "handler")
    BY <1>0, Fields DEF Steps
  <2>2. End(r) \/ req' = [req EXCEPT ![r] = [q EXCEPT !.step = "handler", !.may = m]]
    BY <1>3 DEF Admit
  <2>3. QED
    BY <1>1, <1>3, <2>1, <2>2
<1>4. CASE SaveSession(r)
  BY <1>2, <1>4 DEF SaveSession, At, Leads, AfterSession, Steps, GuardSteps
<1>5. CASE TenantKnown(r) \/ Member(r) \/ UserRow(r)
  BY <1>2, <1>5 DEF TenantKnown, Member, UserRow, At, Leads, Steps, GuardSteps
<1>6. CASE TenantRead(r)
  <2>1. Turned(q, [q EXCEPT !.step = "tenantRead", !.status = tenant], "tenantRead")
    BY <1>0, Fields DEF Steps, GuardSteps
  <2>2. req' = [req EXCEPT ![r] = [q EXCEPT !.step = "tenantRead", !.status = tenant]]
    BY <1>6 DEF TenantRead
  <2>3. QED
    BY <1>1, <1>6, <2>1, <2>2 DEF TenantRead, At, Leads
<1>7. CASE SaveTenant(r)
  <2>1. Turned(q, [q EXCEPT !.step = "member", !.status = "none"], "member")
    BY <1>0, Fields DEF Steps, GuardSteps
  <2>2. End(r) \/ req' = [req EXCEPT ![r] = [q EXCEPT !.step = "member", !.status = "none"]]
    BY <1>7 DEF SaveTenant
  <2>3. QED
    BY <1>1, <1>7, <2>1, <2>2 DEF SaveTenant, At, Leads
<1>8. CASE PermsKnown(r) \/ SavePerms(r)
  <2>1. Who(r) \in People
    BY <1>8, WhoType DEF PermsKnown, SavePerms, At, Signed, GuardSteps
  <2>2. q.may \in SUBSET Permissions /\ permCache[Who(r)] \in (SUBSET Permissions) \cup {NoOne}
    BY <1>0, <2>1 DEF Request, TypeOK
  <2>3. Leads(q, "handler")
    BY <1>8 DEF PermsKnown, SavePerms, At, Leads
  <2>4. Admit(r, q.may) \/ (permCache[Who(r)] # NoOne /\ Admit(r, permCache[Who(r)]))
    BY <1>8 DEF PermsKnown, SavePerms
  <2>5. CASE Admit(r, q.may)
    BY <1>3, <2>2, <2>3, <2>5
  <2>6. CASE permCache[Who(r)] # NoOne /\ Admit(r, permCache[Who(r)])
    <3>1. permCache[Who(r)] \in SUBSET Permissions
      BY <2>2, <2>6
    <3>2. QED
      BY <1>3, <2>3, <2>6, <3>1
  <2>7. QED
    BY <2>4, <2>5, <2>6
<1>9. CASE PermsRead(r)
  <2>1. Who(r) \in People
    BY <1>9, WhoType DEF PermsRead, At, Signed, GuardSteps
  <2>2. PermsOf(Who(r)) \in SUBSET Permissions
    BY <2>1, PermsType
  <2>3. Turned(q, [q EXCEPT !.step = "permsRead", !.may = PermsOf(Who(r))], "permsRead")
    BY <1>0, <2>2, Fields DEF Steps, GuardSteps
  <2>4. req' = [req EXCEPT ![r] = [q EXCEPT !.step = "permsRead", !.may = PermsOf(Who(r))]]
    BY <1>9 DEF PermsRead
  <2>5. QED
    BY <1>1, <1>9, <2>3, <2>4 DEF PermsRead, At, Leads
<1>10. QED
  BY <1>4, <1>5, <1>6, <1>7, <1>8, <1>9 DEF Guard

\* A step of a handler does so too.
LEMMA WorkMoves ==
  ASSUME TypeOK, NEW r \in Slots, Fits(req[r]), Work(r)
  PROVE  End(r) \/ \E n : Becomes(r, n)
<1> DEFINE q == req[r]
           o == q.op
<1>0. q \in Request /\ req \in [Slots -> Request] /\ o \in Operations
  BY DEF TypeOK, Request
<1>1. ASSUME NEW s, Leads(q, s), NEW n, Turned(q, n, s), req' = [req EXCEPT ![r] = n]
      PROVE  \E m : Becomes(r, m)
  BY <1>1 DEF Becomes, Turned
<1>2. ASSUME NEW s \in Steps, Leads(q, s), Step(r, s)
      PROVE  \E m : Becomes(r, m)
  <2>1. Turned(q, [q EXCEPT !.step = s], s)
    BY <1>0, <1>2, Fields
  <2>2. req' = [req EXCEPT ![r] = [q EXCEPT !.step = s]]
    BY <1>2 DEF Step
  <2>3. QED
    BY <1>1, <1>2, <2>1, <2>2
<1>3. CASE Answer(r) \/ InsertUser(r) \/ CloseInvitation(r) \/ Join(r) \/ SignOut(r) \/ Forget(r)
  BY <1>3 DEF Answer, InsertUser, CloseInvitation, Join, SignOut, Forget
<1>4. CASE Check(r)
  <2>1. LosesOwner(o) \in BOOLEAN
    BY DEF LosesOwner, IsOwner
  <2>2. Turned(q, [q EXCEPT !.step = "commit", !.losing = LosesOwner(o), !.may = {}], "commit")
    BY <1>0, <2>1, Fields DEF Steps, WorkSteps
  <2>3. End(r) \/ req' = [req EXCEPT ![r] = [q EXCEPT !.step = "commit", !.losing = LosesOwner(o), !.may = {}]]
    BY <1>4 DEF Check
  <2>4. Leads(q, "commit")
    BY <1>4 DEF Check, At, Leads
  <2>5. QED
    BY <1>1, <2>2, <2>3, <2>4
<1>5. CASE Commit(r) \/ SetMember(r)
  BY <1>2, <1>5 DEF Commit, SetMember, At, Leads, Steps, WorkSteps
<1>6. CASE RevokeTenantSessions(r) \/ RevokeAllForTenant(r)
  <2>1. PICK S : /\ S \in {{Target(r)}, People}
                 /\ req' = [req EXCEPT ![r] = [q EXCEPT !.step = "dropSessions", !.toks = LiveTokensOf(S)]]
    BY <1>6 DEF RevokeTenantSessions, RevokeAllForTenant, RevokeRows
  <2>2. LiveTokensOf(S) \in SUBSET Tokens
    BY DEF LiveTokensOf
  <2>3. Turned(q, [q EXCEPT !.step = "dropSessions", !.toks = LiveTokensOf(S)], "dropSessions")
    BY <1>0, <2>2, Fields DEF Steps, WorkSteps
  <2>4. Leads(q, "dropSessions")
    BY <1>6 DEF RevokeTenantSessions, RevokeAllForTenant, At, Leads
  <2>5. QED
    BY <1>1, <2>1, <2>3, <2>4
<1>7. CASE DropSessions(r)
  <2>1. Turned(q, [q EXCEPT !.step = "forget", !.toks = {}], "forget")
    BY <1>0, Fields DEF Steps, WorkSteps
  <2>2. \/ End(r)
        \/ o.kind = "disable" /\ req' = [req EXCEPT ![r] = [q EXCEPT !.step = "forget", !.toks = {}]]
    BY <1>7 DEF DropSessions
  <2>3. o.kind = "disable" => Leads(q, "forget")
    BY <1>7 DEF DropSessions, At, Leads
  <2>4. QED
    BY <1>1, <2>1, <2>2, <2>3
<1>8. CASE EditRole(r)
  <2>1. Turned(q, [q EXCEPT !.step = "forget", !.may = {}], "forget")
    BY <1>0, Fields DEF Steps, WorkSteps
  <2>2. End(r) \/ req' = [req EXCEPT ![r] = [q EXCEPT !.step = "forget", !.may = {}]]
    BY <1>8 DEF EditRole
  <2>3. Leads(q, "forget")
    BY <1>8 DEF EditRole, At, Leads
  <2>4. QED
    BY <1>1, <2>1, <2>2, <2>3
<1>9. CASE Invite(r) \/ InviteMember(r) \/ RemoveInvited(r) \/ DeleteMember(r) \/ Claim(r)
  BY <1>2, <1>9 DEF Invite, InviteMember, RemoveInvited, DeleteMember, Claim, Starts, At, Leads,
         Steps, WorkSteps
<1>10. CASE EndSession(r) \/ DropTenant(r)
  BY <1>2, <1>10 DEF EndSession, DropTenant, At, Leads, Steps, WorkSteps
<1>11. QED
  BY <1>3, <1>4, <1>5, <1>6, <1>7, <1>8, <1>9, <1>10 DEF Work

\* What a request of its own makes of the requests.
LEMMA Enterings ==
  ASSUME TypeOK, NEW r \in Slots, NEW o \in todo,
         (\E k \in Tokens : Begin(r, k, o)) \/ Accept(r, o) \/ Operate(r, o)
  PROVE  \E n : Enters(r, n) /\ n.op = o
<1>0. o \in Operations /\ todo \subseteq Operations /\ user \in [People -> User]
      /\ staff \in [perms : SUBSET Permissions, version : Nat]
  BY DEF TypeOK
<1>1. ASSUME NEW k \in Tokens, Begin(r, k, o)
      PROVE  \E n : Enters(r, n) /\ n.op = o
  <2> DEFINE s == IF sessionCache[k] THEN AfterSession(o) ELSE "loaded"
             n == [Free EXCEPT !.step = s, !.token = k, !.op = o, !.seen = SeenBy(o)]
  <2>1. s \in Steps /\ s \in {"loaded", AfterSession(o)}
    BY DEF Steps, GuardSteps, AfterSession
  <2>2. SeenBy(o) \in Nat
    BY <1>0, Ops DEF SeenBy, User
  <2>3. req' = [req EXCEPT ![r] = n] /\ req[r].step = "idle" /\ o.kind # "accept" /\ token[k].state # "none"
    BY <1>1 DEF Begin, At
  <2> HIDE DEF s
  <2>4. /\ n \in Request /\ n.step = s /\ n.token = k /\ n.op = o /\ n.seen = SeenBy(o)
        /\ n.losing = FALSE /\ n.may = {} /\ n.toks = {}
    BY <1>0, <2>1, <2>2 DEF Free, Request
  <2>5. QED
    BY <2>1, <2>3, <2>4 DEF Enters
<1>2. ASSUME NEW s \in {"claim", "dropTenant"}, req[r].step = "idle",
             req' = [req EXCEPT ![r] = [Free EXCEPT !.step = s, !.op = o]],
             IF s = "claim" THEN o.kind = "accept" ELSE o.kind \in {"suspend", "activate"}
      PROVE  \E n : Enters(r, n) /\ n.op = o
  <2> DEFINE n == [Free EXCEPT !.step = s, !.op = o]
  <2>1. /\ n \in Request /\ n.step = s /\ n.token = NoOne /\ n.op = o
        /\ n.losing = FALSE /\ n.may = {} /\ n.toks = {}
    BY <1>0, <1>2 DEF Free, Request, Steps, WorkSteps
  <2>2. QED
    BY <1>2, <2>1 DEF Enters
<1>3. CASE Accept(r, o)
  BY <1>2, <1>3 DEF Accept, At
<1>4. CASE Operate(r, o)
  BY <1>2, <1>4 DEF Operate, At
<1>5. QED
  BY <1>1, <1>3, <1>4

AllFit == \A r \in Slots : Fits(req[r])

\* So one request at most changes with a step: it ends, goes on, or comes in.
RequestMoves ==
  \/ req' = req
  \/ \E r \in Slots : End(r) \/ \E n : Becomes(r, n) \/ Enters(r, n)

LEMMA RequestsMove ==
  ASSUME TypeOK, AllFit, [Next]_vars
  PROVE  RequestMoves
<1>1. ASSUME NEW r \in Slots, Guard(r) \/ Work(r) \/ Crash(r)
      PROVE  RequestMoves
  BY <1>1, GuardMoves, WorkMoves DEF AllFit, Crash, RequestMoves
<1>2. ASSUME NEW r \in Slots, NEW o \in todo, (\E k \in Tokens : Begin(r, k, o)) \/ Accept(r, o) \/ Operate(r, o)
      PROVE  RequestMoves
  BY <1>2, Enterings DEF RequestMoves
<1>3. CASE \/ \E k \in Tokens, u \in People : Login(k, u)
           \/ \E k \in Tokens : ExpireSession(k)
           \/ \E u \in People : ExpirePerms(u)
           \/ ExpireTenant \/ UNCHANGED vars
  BY <1>3 DEF Login, ExpireSession, ExpirePerms, ExpireTenant, vars, RequestMoves
<1>4. QED
  BY <1>1, <1>2, <1>3 DEF Next

\* The sessions are written by a sign-in, a sign-out and a revocation.
LEMMA TokenWriters ==
  ASSUME [Next]_vars
  PROVE  \/ token' = token
         \/ \E k \in Tokens, u \in People : Login(k, u)
         \/ \E r \in Slots : SignOut(r) \/ RevokeRows(r, {Target(r)}) \/ RevokeRows(r, People)
<1>1. ASSUME NEW r \in Slots, Guard(r) \/ Crash(r)
      PROVE  token' = token
  BY <1>1 DEF Guard, Crash, rows, SaveSession, TenantKnown, TenantRead, SaveTenant, Member, UserRow,
         PermsKnown, PermsRead, SavePerms
<1>2. ASSUME NEW r \in Slots, Work(r)
      PROVE  token' = token \/ SignOut(r) \/ RevokeRows(r, {Target(r)}) \/ RevokeRows(r, People)
  BY <1>2 DEF Work, rows, Answer, Check, Commit, SetMember, RevokeTenantSessions,
         RevokeAllForTenant, DropSessions, Forget, EditRole, Invite, InviteMember, InsertUser,
         RemoveInvited, DeleteMember, CloseInvitation, Claim, Join, EndSession, DropTenant
<1>3. ASSUME NEW r \in Slots, NEW o \in todo, (\E k \in Tokens : Begin(r, k, o)) \/ Accept(r, o) \/ Operate(r, o)
      PROVE  token' = token
  BY <1>3 DEF Begin, Accept, Operate, rows
<1>4. CASE \/ \E k \in Tokens : ExpireSession(k)
           \/ \E u \in People : ExpirePerms(u)
           \/ ExpireTenant \/ UNCHANGED vars
  BY <1>4 DEF ExpireSession, ExpirePerms, ExpireTenant, vars, rows
<1>5. QED
  BY <1>1, <1>2, <1>3, <1>4 DEF Next

\* A session that was made stays that person's, and is not forgotten.
LEMMA TokensStep ==
  ASSUME TypeOK, AllFit, [Next]_vars
  PROVE  /\ token' \in [Tokens -> Token]
         /\ \A k \in Tokens : token[k].state # "none" =>
              token'[k].state # "none" /\ token'[k].who = token[k].who
<1>0. token \in [Tokens -> Token] /\ \A r \in Slots : req[r] \in Request
  BY DEF TypeOK
<1>1. ASSUME NEW k \in Tokens, NEW u \in People, Login(k, u)
      PROVE  /\ token' \in [Tokens -> Token]
             /\ \A j \in Tokens : token[j].state # "none" =>
                  token'[j].state # "none" /\ token'[j].who = token[j].who
  <2>1. [who |-> u, state |-> "live"] \in Token
    BY DEF Token
  <2>2. QED
    BY <1>0, <1>1, <2>1 DEF Login
<1>2. ASSUME NEW r \in Slots, NEW S, RevokeRows(r, S)
      PROVE  /\ token' \in [Tokens -> Token]
             /\ \A j \in Tokens : token[j].state # "none" =>
                  token'[j].state # "none" /\ token'[j].who = token[j].who
  <2>1. \A k \in Tokens : token[k].state = "live" =>
          /\ [token[k] EXCEPT !.state = "revoked"] \in Token
          /\ [token[k] EXCEPT !.state = "revoked"].state = "revoked"
          /\ [token[k] EXCEPT !.state = "revoked"].who = token[k].who
    BY <1>0 DEF Token
  <2>2. token' = [k \in Tokens |-> IF k \in LiveTokensOf(S) THEN [token[k] EXCEPT !.state = "revoked"] ELSE token[k]]
    BY <1>2 DEF RevokeRows
  <2>3. \A k \in LiveTokensOf(S) : k \in Tokens /\ token[k].state = "live"
    BY DEF LiveTokensOf
  <2>4. QED
    BY <1>0, <2>1, <2>2, <2>3
<1>3. ASSUME NEW r \in Slots, SignOut(r)
      PROVE  /\ token' \in [Tokens -> Token]
             /\ \A j \in Tokens : token[j].state # "none" =>
                  token'[j].state # "none" /\ token'[j].who = token[j].who
  <2> DEFINE k == req[r].token
  <2>1. k \in Tokens /\ token[k].state # "none" /\ token[k] \in Token
    BY <1>0, <1>3 DEF TypeOK, SignOut, At, Signed
  <2>2. [token[k] EXCEPT !.state = IF @ = "live" THEN "signedOut" ELSE @] \in Token
    BY <2>1 DEF Token
  <2>3. token' = [token EXCEPT ![k] = [token[k] EXCEPT !.state = IF @ = "live" THEN "signedOut" ELSE @]]
    BY <1>3 DEF SignOut
  <2>4. QED
    BY <1>0, <2>1, <2>2, <2>3 DEF Token
<1>4. QED
  BY <1>0, <1>1, <1>2, <1>3, TokenWriters

\* Every request is one of the program's, at a step its operation comes to, and
\* with a session while it needs one.
LEMMA RequestsStep ==
  ASSUME TypeOK, AllFit, [Next]_vars
  PROVE  /\ req' \in [Slots -> Request] /\ AllFit'
         /\ \A r \in Slots : req'[r].step \in Signed =>
              req'[r].token \in Tokens /\ token'[req'[r].token].state # "none"
<1>0. /\ req \in [Slots -> Request] /\ todo \subseteq Operations
      /\ \A r \in Slots : req[r].step \in Signed =>
           req[r].token \in Tokens /\ token[req[r].token].state # "none"
  BY DEF TypeOK
<1>1. \A k \in Tokens : token[k].state # "none" => token'[k].state # "none"
  BY TokensStep
<1>2. CASE req' = req
  BY <1>0, <1>1, <1>2 DEF AllFit
<1>3. ASSUME NEW r \in Slots, NEW n \in Request, Fits(n), req' = [req EXCEPT ![r] = n],
             n.step \in Signed => n.token \in Tokens /\ token[n.token].state # "none"
      PROVE  /\ req' \in [Slots -> Request] /\ AllFit'
             /\ \A q \in Slots : req'[q].step \in Signed =>
                  req'[q].token \in Tokens /\ token'[req'[q].token].state # "none"
  BY <1>0, <1>1, <1>3 DEF AllFit
<1>4. ASSUME NEW r \in Slots, End(r)
      PROVE  \E n \in Request : /\ Fits(n) /\ req' = [req EXCEPT ![r] = n]
                                /\ n.step \in Signed => n.token \in Tokens /\ token[n.token].state # "none"
  BY <1>4, FreeFits DEF End, Signed, GuardSteps
<1>5. ASSUME NEW r \in Slots, NEW n, Becomes(r, n)
      PROVE  /\ n \in Request /\ Fits(n) /\ req' = [req EXCEPT ![r] = n]
             /\ n.step \in Signed => n.token \in Tokens /\ token[n.token].state # "none"
  <2>1. Fits(req[r]) /\ n \in Request /\ Leads(req[r], n.step) /\ n.token = req[r].token /\ n.op = req[r].op
        /\ req' = [req EXCEPT ![r] = n]
    BY <1>5 DEF AllFit, Becomes, Turned
  <2>2. Fits(n)
    BY <2>1 DEF Fits, Leads, AfterSession, Changes
  <2>3. n.step \in Signed => req[r].step \in Signed
    BY <2>1 DEF Leads, Signed, GuardSteps, AfterSession
  <2>4. QED
    BY <1>0, <2>1, <2>2, <2>3
<1>6. ASSUME NEW r \in Slots, NEW n, Enters(r, n)
      PROVE  /\ n \in Request /\ Fits(n) /\ req' = [req EXCEPT ![r] = n]
             /\ n.step \in Signed => n.token \in Tokens /\ token[n.token].state # "none"
  BY <1>6 DEF Enters, Fits, AfterSession, Signed, GuardSteps
<1>7. QED
  BY <1>2, <1>3, <1>4, <1>5, <1>6, RequestsMove DEF RequestMoves

-----------------------------------------------------------------------------
(* Who writes what *)

\* Each row, and each cache, is written by few steps.
Writers ==
  /\ user' = user \/ \E r \in Slots : Commit(r) \/ InsertUser(r) \/ RemoveInvited(r) \/ Join(r)
  /\ member' = member \/ \E r \in Slots : InviteMember(r) \/ SetMember(r) \/ DeleteMember(r) \/ Claim(r)
  /\ invitation' = invitation \/ \E r \in Slots : InsertUser(r) \/ CloseInvitation(r) \/ Claim(r)
  /\ staff' = staff \/ \E r \in Slots : EditRole(r)
  /\ raced' = raced \/ \E r \in Slots : Commit(r)
  /\ permCache' = permCache \/ (\E r \in Slots : SavePerms(r) \/ Forget(r)) \/ \E u \in People : ExpirePerms(u)
  /\ \/ sessionCache' = sessionCache
     \/ \E r \in Slots : SaveSession(r) \/ DropSessions(r) \/ EndSession(r)
     \/ \E k \in Tokens : ExpireSession(k)
  /\ tenantCache' = tenantCache \/ (\E r \in Slots : SaveTenant(r) \/ DropTenant(r)) \/ ExpireTenant
  /\ tenant' = tenant \/ \E r \in Slots, o \in todo : Operate(r, o)
  /\ \/ torn' = torn
     \/ \E r \in Slots : Check(r) \/ Invite(r) \/ RemoveInvited(r) \/ Crash(r)
     \/ \E r \in Slots, o \in todo : Accept(r, o)
  /\ \/ late' = late
     \/ \E r \in Slots : SaveSession(r) \/ SaveTenant(r) \/ SavePerms(r) \/ DropSessions(r) \/ Forget(r)
                           \/ EndSession(r) \/ DropTenant(r) \/ Crash(r)
     \/ \E k \in Tokens : ExpireSession(k)
     \/ \E u \in People : ExpirePerms(u)
     \/ ExpireTenant

\* No other step writes it.
LEMMA WritersOnly ==
  ASSUME [Next]_vars
  PROVE  Writers
<1>1. ASSUME NEW r \in Slots, Guard(r)
      PROVE  Writers
  BY <1>1 DEF Guard, SaveSession, TenantKnown, TenantRead, SaveTenant, Member, UserRow, PermsKnown,
         PermsRead, SavePerms, rows, caches, past, Writers
<1>2. ASSUME NEW r \in Slots, Crash(r)
      PROVE  Writers
  BY <1>2 DEF Crash, rows, caches, Writers
<1>3. ASSUME NEW r \in Slots,
             \/ Answer(r) \/ Check(r) \/ Commit(r) \/ SetMember(r) \/ RevokeTenantSessions(r)
             \/ RevokeAllForTenant(r) \/ DropSessions(r) \/ Forget(r) \/ EditRole(r)
      PROVE  Writers
  BY <1>3 DEF Answer, Check, Commit, SetMember, RevokeTenantSessions, RevokeAllForTenant, RevokeRows,
         DropSessions, Forget, EditRole, rows, caches, past, Writers
<1>4. ASSUME NEW r \in Slots,
             \/ Invite(r) \/ InviteMember(r) \/ InsertUser(r) \/ RemoveInvited(r) \/ DeleteMember(r)
             \/ CloseInvitation(r) \/ Claim(r) \/ Join(r) \/ EndSession(r) \/ SignOut(r) \/ DropTenant(r)
      PROVE  Writers
  BY <1>4 DEF Invite, InviteMember, InsertUser, RemoveInvited, DeleteMember, CloseInvitation, Claim,
         Join, EndSession, SignOut, DropTenant, rows, caches, past, Writers
<1>5. ASSUME NEW r \in Slots, NEW o \in todo, (\E k \in Tokens : Begin(r, k, o)) \/ Accept(r, o) \/ Operate(r, o)
      PROVE  Writers
  BY <1>5 DEF Begin, Accept, Operate, rows, caches, past, Writers
<1>6. CASE \/ \E k \in Tokens, u \in People : Login(k, u)
           \/ \E k \in Tokens : ExpireSession(k)
           \/ \E u \in People : ExpirePerms(u)
           \/ ExpireTenant \/ UNCHANGED vars
  BY <1>6 DEF Login, ExpireSession, ExpirePerms, ExpireTenant, vars, rows, caches, past, Writers
<1>7. QED
  BY <1>1, <1>2, <1>3, <1>4, <1>5, <1>6 DEF Next, Work

\* What the transaction of users.update writes: the status or the roles, and the
\* next version, if the version is the one the client saw.
LEMMA CommitWrites ==
  ASSUME TypeOK, AllFit, NEW r \in Slots, Commit(r), user' # user
  PROVE  LET o == req[r].op IN
         /\ o.on \in People /\ Changes(o) /\ user[o.on].status # "gone" /\ user[o.on].version = req[r].seen
         /\ \E x \in User :
              /\ user' = [user EXCEPT ![o.on] = x] /\ x.version = user[o.on].version + 1
              /\ x.status = CASE o.kind = "disable" -> "disabled" [] o.kind = "enable" -> "active"
                              [] OTHER -> user[o.on].status
              /\ x.roles = IF o.kind = "setRoles" THEN o.gives ELSE user[o.on].roles
<1> DEFINE o == req[r].op
           v == user[o.on]
           st == CASE o.kind = "disable" -> "disabled" [] o.kind = "enable" -> "active"
                   [] OTHER -> v.status
           rs == IF o.kind = "setRoles" THEN o.gives ELSE v.roles
<1>0. user \in [People -> User] /\ o \in Operations
  BY DEF TypeOK, Request
<1>1. o.on \in People /\ v \in User /\ Changes(o) /\ v.status # "gone" /\ v.version = req[r].seen
  BY <1>0, Ops DEF Commit, At, AllFit, Fits
<1>2. st \in Statuses /\ rs \in SUBSET Roles
  BY <1>0, <1>1, Ops DEF User, Statuses
<1>3. user' = [user EXCEPT ![o.on].version = @ + 1, ![o.on].status = st, ![o.on].roles = rs]
  BY <1>0, <1>1 DEF Commit
<1> DEFINE x == [status |-> st, roles |-> rs, version |-> v.version + 1]
<1>4. user' = [user EXCEPT ![o.on] = x]
  <2> HIDE DEF st, rs
  <2>1. user'[o.on] = x
    BY <1>0, <1>1, <1>3 DEF User
  <2>2. user' = [user EXCEPT ![o.on] = user'[o.on]]
    BY <1>0, <1>3
  <2>3. QED
    BY <2>1, <2>2
<1>5. x \in User
  BY <1>1, <1>2 DEF User
<1>6. QED
  BY <1>1, <1>4, <1>5

\* A user is written as a user.
LEMMA UsersType ==
  ASSUME TypeOK, AllFit, [Next]_vars
  PROVE  user' \in [People -> User]
<1>0. user \in [People -> User] /\ \A r \in Slots : req[r] \in Request /\ req[r].op \in Operations
  BY DEF TypeOK, Request
<1>1. ASSUME NEW u \in People, NEW x \in User, user' = [user EXCEPT ![u] = x]
      PROVE  user' \in [People -> User]
  BY <1>0, <1>1
<1>2. ASSUME NEW r \in Slots, Commit(r)
      PROVE  user' \in [People -> User]
  <2>1. CASE user' = user
    BY <1>0, <2>1
  <2>2. CASE user' # user
    BY <1>0, <1>1, <1>2, <2>2, CommitWrites
  <2>3. QED
    BY <2>1, <2>2
<1>3. ASSUME NEW r \in Slots, InsertUser(r)
      PROVE  user' \in [People -> User]
  <2> DEFINE o == req[r].op
  <2>1. o.on \in People /\ user[o.on] \in User /\ o.gives \subseteq Roles
    BY <1>0, <1>3, Ops DEF InsertUser, At, AllFit, Fits
  <2>2. [status |-> "invited", roles |-> o.gives, version |-> user[o.on].version + 1] \in User
    BY <2>1 DEF User, Statuses
  <2>3. QED
    BY <1>0, <1>1, <1>3, <2>1, <2>2 DEF InsertUser, Target
<1>4. ASSUME NEW r \in Slots, RemoveInvited(r) \/ Join(r)
      PROVE  user' \in [People -> User]
  <2>1. req[r].op.on \in People /\ user[req[r].op.on] \in User
    BY <1>0, <1>4, Ops DEF RemoveInvited, Join, At, AllFit, Fits
  <2>2. \A s \in Statuses : [user[req[r].op.on] EXCEPT !.status = s] \in User
                              /\ [user[req[r].op.on] EXCEPT !.status = s, !.roles = {}] \in User
    BY <2>1 DEF User
  <2>3. \/ user' = user
        \/ user' = [user EXCEPT ![req[r].op.on] = [@ EXCEPT !.status = "gone", !.roles = {}]]
        \/ user' = [user EXCEPT ![req[r].op.on] =
                      [@ EXCEPT !.status = IF user[req[r].op.on].status = "invited" THEN "active" ELSE user[req[r].op.on].status]]
    BY <1>0, <1>4, <2>1 DEF RemoveInvited, Join, Target
  <2>4. user[req[r].op.on].status \in Statuses /\ {"gone", "active"} \subseteq Statuses
    BY <2>1 DEF User, Statuses
  <2>5. QED
    BY <1>0, <1>1, <2>1, <2>2, <2>3, <2>4
<1>5. QED
  BY <1>0, <1>2, <1>3, <1>4, WritersOnly DEF Writers

-----------------------------------------------------------------------------
(* What happens to one person *)

\* An administrator changes the status or the roles.
Committed(r, u) ==
  LET o == req[r].op IN
  /\ Commit(r) /\ u = o.on /\ Changes(o) /\ user[u].status # "gone" /\ user[u].version = req[r].seen
  /\ user'[u].version = user[u].version + 1
  /\ user'[u].status = CASE o.kind = "disable" -> "disabled" [] o.kind = "enable" -> "active"
                         [] OTHER -> user[u].status
  /\ user'[u].roles = IF o.kind = "setRoles" THEN o.gives ELSE user[u].roles
  /\ req' = [req EXCEPT ![r].step = IF o.kind = "setRoles" THEN "forget" ELSE "setMember"]

\* An invitation makes the person a user; withdrawn, it unmakes the user; taken,
\* it makes the user active.
Invited(r, u) ==
  /\ InsertUser(r) /\ u = Target(r) /\ user[u].status = "gone"
  /\ user'[u].version = user[u].version + 1 /\ user'[u].status = "invited"

Withdrawn(r, u) ==
  /\ RemoveInvited(r) /\ u = Target(r) /\ user[u].status = "invited"
  /\ user'[u].version = user[u].version /\ user'[u].status = "gone" /\ user'[u].roles = {}

Joined(r, u) ==
  /\ Join(r) /\ u = Target(r) /\ user[u].status = "invited"
  /\ user'[u].version = user[u].version /\ user'[u].status = "active" /\ user'[u].roles = user[u].roles

UserChange(r, u) == Committed(r, u) \/ Invited(r, u) \/ Withdrawn(r, u) \/ Joined(r, u)

\* Nothing else happens to a user.
LEMMA UserChanges ==
  ASSUME TypeOK, AllFit, [Next]_vars, NEW u \in People
  PROVE  user'[u] = user[u] \/ \E r \in Slots : UserChange(r, u)
<1>0. user \in [People -> User] /\ user[u] \in User /\ req \in [Slots -> Request]
  BY DEF TypeOK
<1>1. ASSUME NEW r \in Slots, Commit(r), user'[u] # user[u]
      PROVE  Committed(r, u)
  <2> DEFINE o == req[r].op
  <2>1. /\ o.on \in People /\ Changes(o) /\ user[o.on].status # "gone" /\ user[o.on].version = req[r].seen
        /\ \E x \in User :
             /\ user' = [user EXCEPT ![o.on] = x] /\ x.version = user[o.on].version + 1
             /\ x.status = CASE o.kind = "disable" -> "disabled" [] o.kind = "enable" -> "active"
                             [] OTHER -> user[o.on].status
             /\ x.roles = IF o.kind = "setRoles" THEN o.gives ELSE user[o.on].roles
    BY <1>1, CommitWrites
  <2>2. u = o.on
    BY <1>0, <1>1, <2>1
  <2>3. req' = [req EXCEPT ![r].step = IF o.kind = "setRoles" THEN "forget" ELSE "setMember"]
    BY <1>1, <2>1 DEF Commit, Step
  <2>4. QED
    BY <1>0, <1>1, <2>1, <2>2, <2>3 DEF Committed
<1>2. ASSUME NEW r \in Slots, InsertUser(r), user'[u] # user[u]
      PROVE  Invited(r, u)
  BY <1>0, <1>2 DEF InsertUser, Invited
<1>3. ASSUME NEW r \in Slots, RemoveInvited(r), user'[u] # user[u]
      PROVE  Withdrawn(r, u)
  BY <1>0, <1>3 DEF RemoveInvited, Withdrawn, User
<1>4. ASSUME NEW r \in Slots, Join(r), user'[u] # user[u]
      PROVE  Joined(r, u)
  BY <1>0, <1>4 DEF Join, Joined, User
<1>5. QED
  BY <1>1, <1>2, <1>3, <1>4, WritersOnly DEF Writers, UserChange

-----------------------------------------------------------------------------
(* The last owner *)

Demotes(o) == o.kind = "disable" \/ (o.kind = "setRoles" /\ "owner" \notin o.gives)

\* A change that was checked: what it counted on is still so, or another removal
\* of an owner overlapped; and if it was found to be harmless, it is so as long
\* as the version is the one seen.
Counted(r) ==
  LET o == req[r].op IN
  /\ req[r].step \in GuardSteps \cup {"handler", "commit"} /\ Changes(o) => req[r].seen <= user[o.on].version
  /\ At(r, "commit") /\ req[r].losing => raced \/ AnotherActiveOwner(o.on)
  /\ At(r, "commit") /\ ~req[r].losing /\ Demotes(o) /\ user[o.on].version = req[r].seen => ~IsOwner(o.on)

OwnersCounted == OwnerKept /\ \A r \in Slots : Counted(r)

\* Versions do not go back, and a user who is not an owner becomes one with a new version only.
LEMMA Versions ==
  ASSUME TypeOK, AllFit, [Next]_vars, NEW u \in People
  PROVE  /\ user[u].version \in Nat /\ user'[u].version \in Nat /\ user[u].version <= user'[u].version
         /\ user[u].version = user'[u].version /\ ~IsOwner(u) => ~IsOwner(u)'
<1>1. user[u] \in User /\ user'[u] \in User
  BY UsersType DEF TypeOK
<1>2. user[u].version \in Nat /\ user'[u].version \in Nat
  BY <1>1 DEF User
<1>3. CASE user'[u] = user[u]
  BY <1>2, <1>3 DEF IsOwner
<1>4. ASSUME NEW r \in Slots, UserChange(r, u)
      PROVE  /\ user[u].version <= user'[u].version
             /\ user[u].version = user'[u].version /\ ~IsOwner(u) => ~IsOwner(u)'
  BY <1>2, <1>4 DEF UserChange, Committed, Invited, Withdrawn, Joined, IsOwner
<1>5. QED
  BY <1>2, <1>3, <1>4, UserChanges

\* An active owner is lost only to a change that was checked, and then either
\* another one is left or the checks of two removals overlapped.
LEMMA OwnerLost ==
  ASSUME TypeOK, AllFit, OwnersCounted, [Next]_vars, NEW u \in ActiveOwners, u \notin ActiveOwners'
  PROVE  \E r \in Slots :
           /\ Commit(r) /\ req[r].losing /\ req[r].op.on = u
           /\ user' = [user EXCEPT ![u] = user'[u]]
           /\ req' = [req EXCEPT ![r].step = IF req[r].op.kind = "setRoles" THEN "forget" ELSE "setMember"]
           /\ raced' = (raced \/ (req[r].losing /\ \E q \in Slots \ {r} : At(q, "commit") /\ req[q].losing))
<1>0. user \in [People -> User] /\ u \in People /\ user[u].status = "active" /\ "owner" \in user[u].roles
  BY DEF TypeOK, ActiveOwners
<1>1. user'[u].status # "active" \/ "owner" \notin user'[u].roles
  BY <1>0 DEF ActiveOwners
<1>2. PICK r \in Slots : Committed(r, u)
  BY <1>0, <1>1, UserChanges DEF UserChange, Invited, Withdrawn, Joined
<1>3. Demotes(req[r].op)
  BY <1>0, <1>1, <1>2 DEF Committed, Demotes, Changes
<1>4. IsOwner(u)
  BY <1>0 DEF IsOwner
<1>5. req[r].losing
  BY <1>2, <1>3, <1>4 DEF OwnersCounted, Counted, Committed, Commit
<1>6. user' = [user EXCEPT ![u] = user'[u]]
  BY <1>0, <1>2 DEF Committed, Commit
<1>7. raced' = (raced \/ (req[r].losing /\ \E q \in Slots \ {r} : At(q, "commit") /\ req[q].losing))
  BY <1>2 DEF Committed, Commit
<1>8. QED
  BY <1>2, <1>5, <1>6, <1>7 DEF Committed

\* A request is at the transaction only after the check.
LEMMA CheckedBefore ==
  ASSUME TypeOK, AllFit, [Next]_vars, NEW r \in Slots, req'[r] # req[r], req'[r].step = "commit"
  PROVE  /\ Check(r) /\ Allowed(r) /\ req'[r].op = req[r].op /\ Changes(req[r].op)
         /\ req'[r].losing = LosesOwner(req[r].op)
<1>0. req \in [Slots -> Request] /\ req[r] \in Request
  BY DEF TypeOK
<1>1. ASSUME NEW s \in Slots, End(s)
      PROVE  FALSE
  BY <1>0, <1>1, FreeFits DEF End
<1>2. ASSUME NEW s \in Slots, NEW n, Enters(s, n)
      PROVE  FALSE
  BY <1>0, <1>2 DEF Enters, AfterSession
<1>3. PICK n : Becomes(r, n)
  <2>1. PICK s \in Slots : \E n : Becomes(s, n)
    BY <1>1, <1>2, RequestsMove DEF RequestMoves
  <2>2. s = r
    BY <1>0, <2>1 DEF Becomes
  <2>3. QED
    BY <2>1, <2>2
<1>4. At(r, "handler") /\ Changes(req[r].op) /\ req'[r].op = req[r].op
  BY <1>0, <1>3 DEF Becomes, Turned, Leads, At, AfterSession
<1>5. ASSUME NEW s \in Slots, Guard(s) \/ Work(s) \/ Crash(s)
      PROVE  Check(r)
  <2>1. s = r
    <3>1. CASE End(s)
      BY <1>1, <3>1
    <3>2. CASE \E m : Becomes(s, m)
      BY <1>0, <3>2 DEF Becomes
    <3>3. QED
      BY <1>5, <3>1, <3>2, GuardMoves, WorkMoves DEF Crash, AllFit
  <2>2. ~Guard(r)
    BY <1>4 DEF At, Guard, SaveSession, TenantKnown, TenantRead, SaveTenant, Member, UserRow, PermsKnown,
           PermsRead, SavePerms
  <2>3. ~Crash(r)
    BY <1>4 DEF At, Crash, WorkSteps
  <2>4. Work(r) => Check(r)
    BY <1>4 DEF At, Work, Changes, Answer, Commit, SetMember, RevokeTenantSessions, RevokeAllForTenant,
           DropSessions, Forget, EditRole, Invite, InviteMember, InsertUser, RemoveInvited,
           DeleteMember, CloseInvitation, Claim, Join, EndSession, SignOut, DropTenant
  <2>5. QED
    BY <1>5, <2>1, <2>2, <2>3, <2>4
<1>6. ASSUME NEW s \in Slots, NEW o \in todo, (\E k \in Tokens : Begin(s, k, o)) \/ Accept(s, o) \/ Operate(s, o)
      PROVE  FALSE
  BY <1>2, <1>6, Enterings
<1>7. ~(\/ \E k \in Tokens, u \in People : Login(k, u)
        \/ \E k \in Tokens : ExpireSession(k)
        \/ \E u \in People : ExpirePerms(u)
        \/ ExpireTenant \/ UNCHANGED vars)
  BY DEF Login, ExpireSession, ExpirePerms, ExpireTenant, vars
<1>8. Check(r)
  BY <1>5, <1>6, <1>7 DEF Next
<1>9. ~End(r)
  BY <1>1
<1>10. Allowed(r) /\ req' = [req EXCEPT ![r] = [req[r] EXCEPT !.step = "commit", !.losing = LosesOwner(req[r].op), !.may = {}]]
  BY <1>8, <1>9 DEF Check
<1>11. req'[r].losing = LosesOwner(req[r].op)
  BY <1>0, <1>10 DEF Request
<1>12. QED
  BY <1>4, <1>8, <1>10, <1>11

\* A race that happened is not forgotten.
LEMMA RacedStays ==
  ASSUME [Next]_vars, raced
  PROVE  raced'
  BY WritersOnly DEF Writers, Commit

\* A step keeps an owner, and what the checks counted on.
LEMMA OwnersStep ==
  ASSUME TypeOK, AllFit, OwnersCounted, [Next]_vars
  PROVE  OwnersCounted'
<1>0. /\ req \in [Slots -> Request] /\ \A r \in Slots : req[r].seen \in Nat /\ req[r].op \in Operations
      /\ req' \in [Slots -> Request] /\ user \in [People -> User]
  BY RequestsStep DEF TypeOK, Request
<1>1. OwnerKept'
  <2> SUFFICES ASSUME ActiveOwners' = {}
               PROVE  raced'
    BY DEF OwnerKept
  <2>1. CASE ActiveOwners = {}
    BY <2>1, RacedStays DEF OwnersCounted, OwnerKept
  <2>2. ASSUME NEW u \in ActiveOwners
        PROVE  raced'
    <3>1. PICK r \in Slots :
            /\ Commit(r) /\ req[r].losing /\ req[r].op.on = u
            /\ user' = [user EXCEPT ![u] = user'[u]]
      BY OwnerLost
    <3>2. raced \/ AnotherActiveOwner(u)
      BY <3>1 DEF OwnersCounted, Counted, Commit
    <3>3. ~AnotherActiveOwner(u)
      <4>1. ASSUME NEW w \in People \ {u}, user[w].status = "active", IsOwner(w)
            PROVE  w \in ActiveOwners'
        BY <1>0, <3>1, <4>1 DEF ActiveOwners, IsOwner
      <4>2. QED
        BY <4>1 DEF AnotherActiveOwner
    <3>4. QED
      BY <3>2, <3>3, RacedStays
  <2>3. QED
    BY <2>1, <2>2
<1>2. ASSUME NEW r \in Slots
      PROVE  Counted(r)'
  <2> DEFINE q == req[r]
             o == q.op
  <2>0. Counted(r)
    BY DEF OwnersCounted
  <2>1. CASE req'[r] = req[r]
    <3>1. q.step \in GuardSteps \cup {"handler", "commit"} /\ Changes(o) => q.seen <= user'[o.on].version
      <4> SUFFICES ASSUME q.step \in GuardSteps \cup {"handler", "commit"}, Changes(o)
                   PROVE  q.seen <= user'[o.on].version
        OBVIOUS
      <4>1. o.on \in People
        BY <1>0, Ops
      <4>2. q.seen <= user[o.on].version
        BY <2>0 DEF Counted
      <4>3. QED
        BY <1>0, <4>1, <4>2, Versions
    <3>2. ASSUME q.step = "commit", q.losing, ~raced'
          PROVE  AnotherActiveOwner(o.on)'
      <4>1. PICK w \in People \ {o.on} : user[w].status = "active" /\ IsOwner(w)
        BY <2>0, <3>2, RacedStays DEF Counted, At, AnotherActiveOwner
      <4>2. w \in ActiveOwners
        BY <4>1 DEF ActiveOwners, IsOwner
      <4>3. w \in ActiveOwners'
        <5> SUFFICES ASSUME w \notin ActiveOwners'
                     PROVE  FALSE
          OBVIOUS
        <5>1. PICK s \in Slots :
                /\ Commit(s) /\ req[s].losing /\ req[s].op.on = w
                /\ req' = [req EXCEPT ![s].step = IF req[s].op.kind = "setRoles" THEN "forget" ELSE "setMember"]
                /\ raced' = (raced \/ (req[s].losing /\ \E p \in Slots \ {s} : At(p, "commit") /\ req[p].losing))
          BY <4>2, OwnerLost
        <5>2. s # r
          BY <1>0, <4>1, <5>1
        <5>3. QED
          BY <3>2, <5>1, <5>2 DEF At
      <4>4. user'[w].status = "active" /\ "owner" \in user'[w].roles
        BY <4>3 DEF ActiveOwners
      <4>5. QED
        BY <2>1, <4>1, <4>4 DEF AnotherActiveOwner, IsOwner
    <3>3. ASSUME q.step = "commit", ~q.losing, Demotes(o), user'[o.on].version = q.seen
          PROVE  ~IsOwner(o.on)'
      <4>1. o.on \in People /\ Changes(o)
        BY <1>0, <3>3, Ops DEF AllFit, Fits
      <4>2. q.seen <= user[o.on].version
        BY <2>0, <3>3, <4>1 DEF Counted
      <4>3. user[o.on].version = q.seen
        <5>1. /\ user[o.on].version \in Nat /\ user'[o.on].version \in Nat
              /\ user[o.on].version <= user'[o.on].version
          BY <4>1, Versions
        <5>2. QED
          BY <1>0, <3>3, <4>2, <5>1
      <4>4. ~IsOwner(o.on)
        BY <2>0, <3>3, <4>3 DEF Counted, At
      <4>5. \A u \in People : user[u].version = user'[u].version /\ ~IsOwner(u) => ~IsOwner(u)'
        BY Versions
      <4>6. QED
        BY <2>1, <3>3, <4>1, <4>3, <4>4, <4>5
    <3>4. QED
      BY <2>1, <3>1, <3>2, <3>3 DEF Counted, At
  <2>2. CASE req'[r] # req[r] /\ req'[r].step = "commit"
    <3>1. /\ Check(r) /\ Allowed(r) /\ req'[r].op = o /\ Changes(o) /\ req'[r].losing = LosesOwner(o)
      BY <2>2, CheckedBefore
    <3>2. user' = user /\ raced' = raced
      BY <3>1 DEF Check, rows
    <3>3. req'[r].seen = q.seen /\ q.step = "handler"
      <4>1. q \in Request
        BY DEF TypeOK
      <4>2. ~End(r)
        BY <1>0, <2>2, FreeFits DEF End
      <4>3. req' = [req EXCEPT ![r] = [q EXCEPT !.step = "commit", !.losing = LosesOwner(o), !.may = {}]]
        BY <3>1, <4>2 DEF Check
      <4>4. QED
        BY <1>0, <3>1, <4>1, <4>3 DEF Check, At, Request
    <3>4. q.seen <= user[o.on].version
      BY <2>0, <3>1, <3>3 DEF Counted
    <3>5. LosesOwner(o) => AnotherActiveOwner(o.on)
      BY <3>1 DEF Allowed
    <3>6. ~LosesOwner(o) /\ Demotes(o) => ~IsOwner(o.on)
      BY DEF LosesOwner, Demotes
    <3>7. AnotherActiveOwner(o.on)' = AnotherActiveOwner(o.on) /\ IsOwner(o.on)' = IsOwner(o.on)
      BY <3>1, <3>2 DEF AnotherActiveOwner, IsOwner
    <3>8. QED
      BY <3>1, <3>2, <3>3, <3>4, <3>5, <3>6 DEF Counted, At, AnotherActiveOwner, IsOwner
  <2>3. CASE req'[r] # req[r] /\ req'[r].step # "commit"
    <3> SUFFICES ASSUME req'[r].step \in GuardSteps \cup {"handler"}, Changes(req'[r].op)
                 PROVE  req'[r].seen <= user'[req'[r].op.on].version
      BY <2>3 DEF Counted, At
    <3>1. req'[r].op.on \in People
      BY <1>0, Ops DEF Request
    <3>2. \/ \E n : Becomes(r, n) /\ n = req'[r]
          \/ \E n : Enters(r, n) /\ n = req'[r]
      <4>1. ~End(r)
        BY <1>0, FreeFits DEF End, GuardSteps
      <4>2. ASSUME NEW s \in Slots, s # r, End(s) \/ \E n : Becomes(s, n) \/ Enters(s, n)
            PROVE  FALSE
        BY <1>0, <2>3, <4>2 DEF End, Becomes, Enters
      <4>3. QED
        BY <1>0, <2>3, <4>1, <4>2, RequestsMove DEF RequestMoves, Becomes, Enters
    <3>3. CASE \E n : Becomes(r, n) /\ n = req'[r]
      <4>1. /\ Leads(q, req'[r].step) /\ req'[r].op = o /\ req'[r].seen = q.seen
        BY <3>3 DEF Becomes, Turned
      <4>2. q.step \in GuardSteps \cup {"handler", "commit"}
        BY <4>1 DEF Leads, GuardSteps, AfterSession
      <4>3. q.seen <= user[o.on].version
        BY <2>0, <4>1, <4>2 DEF Counted
      <4>4. QED
        BY <1>0, <3>1, <4>1, <4>3, Versions
    <3>4. CASE \E n : Enters(r, n) /\ n = req'[r]
      <4>1. req'[r].seen = SeenBy(req'[r].op)
        BY <3>4 DEF Enters, GuardSteps
      <4>2. SeenBy(req'[r].op) = user[req'[r].op.on].version
        BY <3>1, AccessAssumption DEF SeenBy, Changes
      <4>3. QED
        BY <1>0, <3>1, <4>1, <4>2, Versions
    <3>5. QED
      BY <3>2, <3>3, <3>4
  <2>4. QED
    BY <2>1, <2>2, <2>3
<1>3. QED
  BY <1>1, <1>2 DEF OwnersCounted

-----------------------------------------------------------------------------
(* The types of the other variables *)

\* What a request has to delete are entries of the caches.
LEMMA OwesKeys ==
  ASSUME TypeOK, AllFit, NEW r \in Slots
  PROVE  Owes(r) \subseteq CacheKeys
<1>1. req[r] \in Request /\ Fits(req[r]) /\ req[r].op \in Operations /\ req[r].toks \subseteq Tokens
  BY DEF TypeOK, AllFit, Request
<1>2. CASE At(r, "forget") \/ At(r, "setMember") \/ At(r, "revoke")
  <2>1. req[r].op.kind = "editRole" \/ req[r].op.on \in People
    BY <1>1, <1>2, Ops DEF At, Fits, Changes
  <2>2. Owes(r) = {"perms"} \X (IF req[r].op.kind = "editRole" THEN People ELSE {req[r].op.on})
    BY <1>2 DEF Owes, At
  <2>3. Owes(r) \subseteq {"perms"} \X People
    BY <2>1, <2>2
  <2>4. QED
    BY <2>3 DEF CacheKeys
<1>3. CASE At(r, "dropSessions")
  <2>1. req[r].op.kind = "disable" => req[r].op.on \in People
    BY <1>1, Ops DEF Changes
  <2>2. QED
    BY <1>1, <1>3, <2>1 DEF Owes, CacheKeys, At
<1>4. CASE At(r, "dropTenant")
  BY <1>4 DEF Owes, CacheKeys, At
<1>5. CASE ~(At(r, "forget") \/ At(r, "setMember") \/ At(r, "revoke") \/ At(r, "dropSessions") \/ At(r, "dropTenant"))
  BY <1>5 DEF Owes
<1>6. QED
  BY <1>2, <1>3, <1>4, <1>5

\* The caches hold what they may hold.
LEMMA CachesType ==
  ASSUME TypeOK, AllFit, [Next]_vars
  PROVE  /\ sessionCache' \in [Tokens -> BOOLEAN] /\ tenantCache' \in {"none", "active", "suspended"}
         /\ permCache' \in [People -> (SUBSET Permissions) \cup {NoOne}]
<1>0. /\ sessionCache \in [Tokens -> BOOLEAN] /\ tenantCache \in {"none", "active", "suspended"}
      /\ permCache \in [People -> (SUBSET Permissions) \cup {NoOne}]
      /\ \A r \in Slots : /\ req[r].status \in {"none", "active", "suspended"}
                          /\ req[r].may \in SUBSET Permissions
  BY DEF TypeOK, Request
<1>1. sessionCache' \in [Tokens -> BOOLEAN]
  <2>1. ASSUME NEW r \in Slots, SaveSession(r) \/ EndSession(r)
        PROVE  \E k \in Tokens, b \in BOOLEAN : sessionCache' = [sessionCache EXCEPT ![k] = b]
    <3>1. req[r].token \in Tokens
      BY <2>1 DEF TypeOK, SaveSession, EndSession, At, Signed, GuardSteps
    <3>2. QED
      BY <2>1, <3>1 DEF SaveSession, EndSession
  <2>2. ASSUME NEW r \in Slots, DropSessions(r)
        PROVE  sessionCache' \in [Tokens -> BOOLEAN]
    <3>1. sessionCache' = [k \in Tokens |-> sessionCache[k] /\ k \notin req[r].toks]
      BY <2>2 DEF DropSessions
    <3>2. \A k \in Tokens : (sessionCache[k] /\ k \notin req[r].toks) \in BOOLEAN
      BY <1>0
    <3>3. QED
      BY <3>1, <3>2
  <2>3. ASSUME NEW k \in Tokens, ExpireSession(k)
        PROVE  sessionCache' \in [Tokens -> BOOLEAN]
    BY <1>0, <2>3 DEF ExpireSession
  <2>4. QED
    BY <1>0, <2>1, <2>2, <2>3, WritersOnly DEF Writers
<1>2. tenantCache' \in {"none", "active", "suspended"}
  BY <1>0, WritersOnly DEF Writers, SaveTenant, DropTenant, ExpireTenant
<1>3. permCache' \in [People -> (SUBSET Permissions) \cup {NoOne}]
  <2>1. ASSUME NEW r \in Slots, SavePerms(r)
        PROVE  permCache' = [permCache EXCEPT ![Who(r)] = req[r].may]
    BY <2>1 DEF SavePerms
  <2>2. ASSUME NEW r \in Slots, Forget(r)
        PROVE  permCache' \in [People -> (SUBSET Permissions) \cup {NoOne}]
    BY <1>0, <2>2 DEF Forget
  <2>3. ASSUME NEW u \in People, ExpirePerms(u)
        PROVE  permCache' \in [People -> (SUBSET Permissions) \cup {NoOne}]
    BY <1>0, <2>3 DEF ExpirePerms
  <2>4. QED
    BY <1>0, <2>1, <2>2, <2>3, WritersOnly DEF Writers
<1>4. QED
  BY <1>1, <1>2, <1>3

\* So do the platform database, the roles and what is remembered.
LEMMA RestType ==
  ASSUME TypeOK, AllFit, [Next]_vars
  PROVE  /\ tenant' \in {"active", "suspended"}
         /\ member' \in [People -> {"none", "invited", "active", "disabled"}]
         /\ invitation' \in [People -> {"none", "open", "accepted", "closed"}]
         /\ staff' \in [perms : SUBSET Permissions, version : Nat]
         /\ todo' \subseteq Operations /\ faults' \in Nat
         /\ raced' \in BOOLEAN /\ torn' \subseteq People
         /\ late' \subseteq CacheKeys
<1>0. /\ tenant \in {"active", "suspended"}
      /\ member \in [People -> {"none", "invited", "active", "disabled"}]
      /\ invitation \in [People -> {"none", "open", "accepted", "closed"}]
      /\ staff \in [perms : SUBSET Permissions, version : Nat]
      /\ todo \subseteq Operations /\ faults \in Nat
      /\ raced \in BOOLEAN /\ torn \subseteq People
      /\ late \subseteq CacheKeys
      /\ \A r \in Slots : req[r] \in Request /\ req[r].op \in Operations
  BY DEF TypeOK, Request
<1>1. tenant' \in {"active", "suspended"}
  BY <1>0, WritersOnly DEF Writers, Operate
<1>2. member' \in [People -> {"none", "invited", "active", "disabled"}]
  <2>1. member' = member \/ \E r \in Slots, s \in {"none", "invited", "active", "disabled"} :
                              member' = [member EXCEPT ![Target(r)] = s]
    <3>1. ASSUME NEW r \in Slots, InviteMember(r)
          PROVE  member' = [member EXCEPT ![Target(r)] = "invited"]
      BY <3>1 DEF InviteMember
    <3>2. ASSUME NEW r \in Slots, SetMember(r) \/ DeleteMember(r) \/ Claim(r)
          PROVE  \E s \in {"none", "invited", "active", "disabled"} : member' = [member EXCEPT ![Target(r)] = s]
      <4>1. Target(r) \in People
        BY <1>0, <3>2, Ops DEF SetMember, DeleteMember, Claim, At, AllFit, Fits, Target, Changes
      <4>2. member[Target(r)] \in {"none", "invited", "active", "disabled"}
        BY <1>0, <4>1
      <4>3. QED
        BY <3>2, <4>1, <4>2 DEF SetMember, DeleteMember, Claim, Target
    <3>3. QED
      BY <3>1, <3>2, WritersOnly DEF Writers
  <2>2. QED
    BY <1>0, <2>1
<1>3. invitation' \in [People -> {"none", "open", "accepted", "closed"}]
  <2>1. ASSUME NEW r \in Slots, InsertUser(r) \/ Claim(r)
        PROVE  invitation' \in [People -> {"none", "open", "accepted", "closed"}]
    BY <1>0, <2>1 DEF InsertUser, Claim
  <2>2. ASSUME NEW r \in Slots, CloseInvitation(r)
        PROVE  invitation' \in [People -> {"none", "open", "accepted", "closed"}]
    BY <1>0, <2>2 DEF CloseInvitation
  <2>3. QED
    BY <1>0, <2>1, <2>2, WritersOnly DEF Writers
<1>4. staff' \in [perms : SUBSET Permissions, version : Nat]
  <2>1. ASSUME NEW r \in Slots, EditRole(r)
        PROVE  staff' \in [perms : SUBSET Permissions, version : Nat]
    <3>1. req[r].op.gives \subseteq Permissions
      BY <1>0, <2>1, Ops DEF EditRole
    <3>2. QED
      BY <1>0, <2>1, <3>1 DEF EditRole
  <2>2. QED
    BY <1>0, <2>1, WritersOnly DEF Writers
<1>5. todo' \subseteq todo /\ (faults' = faults \/ (faults > 0 /\ faults' = faults - 1))
  <2>1. ASSUME NEW r \in Slots, Guard(r) \/ Work(r) \/ Crash(r)
        PROVE  todo' = todo /\ (faults' = faults \/ (faults > 0 /\ faults' = faults - 1))
    BY <2>1 DEF Guard, Work, Crash, SaveSession, TenantKnown, TenantRead, SaveTenant, Member, UserRow,
           PermsKnown, PermsRead, SavePerms, Answer, Check, Commit, SetMember, RevokeTenantSessions,
           RevokeAllForTenant, RevokeRows, DropSessions, Forget, EditRole, Invite, InviteMember,
           InsertUser, RemoveInvited, DeleteMember, CloseInvitation, Claim, Join, EndSession, SignOut,
           DropTenant
  <2>2. ASSUME NEW r \in Slots, NEW o \in todo, (\E k \in Tokens : Begin(r, k, o)) \/ Accept(r, o) \/ Operate(r, o)
        PROVE  todo' \subseteq todo /\ faults' = faults
    BY <2>2 DEF Begin, Accept, Operate
  <2>3. CASE \/ \E k \in Tokens, u \in People : Login(k, u)
             \/ \E k \in Tokens : ExpireSession(k)
             \/ \E u \in People : ExpirePerms(u)
             \/ ExpireTenant \/ UNCHANGED vars
    BY <2>3 DEF Login, ExpireSession, ExpirePerms, ExpireTenant, vars
  <2>4. QED
    BY <2>1, <2>2, <2>3 DEF Next
<1>6. raced' \in BOOLEAN
  BY <1>0, WritersOnly DEF Writers, Commit
<1>7. torn' \subseteq People
  <2>1. ASSUME NEW r \in Slots, Check(r) \/ Invite(r) \/ RemoveInvited(r) \/ Crash(r)
        PROVE  torn' \subseteq People
    <3>1. CASE Crash(r)
      BY <1>0, <3>1 DEF Crash
    <3>2. CASE Check(r) \/ Invite(r) \/ RemoveInvited(r)
      <4>1. Target(r) \in People
        BY <1>0, <3>2, Ops DEF Check, Invite, RemoveInvited, Target
      <4>2. torn' = torn \/ torn' = torn \cup {Target(r)} \/ torn' \subseteq torn \cup {Target(r)}
        BY <3>2 DEF Check, Invite, RemoveInvited, Starts, Target
      <4>3. QED
        BY <1>0, <4>1, <4>2
    <3>3. QED
      BY <2>1, <3>1, <3>2
  <2>2. ASSUME NEW r \in Slots, NEW o \in todo, Accept(r, o)
        PROVE  torn' \subseteq People
    <3>1. o.on \in People
      BY <1>0, <2>2, Ops DEF Accept
    <3>2. QED
      BY <1>0, <2>2, <3>1 DEF Accept
  <2>3. QED
    BY <1>0, <2>1, <2>2, WritersOnly DEF Writers
<1>8. late' \subseteq CacheKeys
  <2>1. ASSUME NEW r \in Slots, SaveSession(r) \/ SaveTenant(r) \/ SavePerms(r)
        PROVE  late' \subseteq CacheKeys
    <3>1. SaveSession(r) => req[r].token \in Tokens
      BY DEF TypeOK, SaveSession, At, Signed, GuardSteps
    <3>2. SavePerms(r) => Who(r) \in People
      BY WhoType DEF SavePerms, At, Signed, GuardSteps
    <3>3. QED
      BY <1>0, <2>1, <3>1, <3>2 DEF SaveSession, SaveTenant, SavePerms, Written, CacheKeys
  <2>2. ASSUME NEW r \in Slots, Crash(r)
        PROVE  late' \subseteq CacheKeys
    BY <1>0, <2>2, OwesKeys DEF Crash
  <2>3. ASSUME NEW r \in Slots, DropSessions(r) \/ Forget(r) \/ EndSession(r) \/ DropTenant(r)
        PROVE  late' \subseteq CacheKeys
    BY <1>0, <2>3 DEF DropSessions, Forget, EndSession, DropTenant, Dropped
  <2>4. CASE (\E k \in Tokens : ExpireSession(k)) \/ (\E u \in People : ExpirePerms(u)) \/ ExpireTenant
    BY <1>0, <2>4 DEF ExpireSession, ExpirePerms, ExpireTenant, Dropped
  <2>5. QED
    BY <1>0, <2>1, <2>2, <2>3, <2>4, WritersOnly DEF Writers
<1>9. QED
  BY <1>0, <1>1, <1>2, <1>3, <1>4, <1>5, <1>6, <1>7, <1>8

\* A step keeps every type.
LEMMA TypeStep ==
  ASSUME TypeOK, AllFit, [Next]_vars
  PROVE  TypeOK' /\ AllFit'
  BY TokensStep, RequestsStep, UsersType, CachesType, RestType DEF TypeOK

\* The plans start with users of every kind, an owner among them.
LEMMA InitOk ==
  ASSUME Init
  PROVE  TypeOK /\ AllFit /\ OwnersCounted
<1>1. PICK p \in Plans :
       /\ token = [k \in Tokens |-> [who |-> p.signedIn[k], state |-> IF p.signedIn[k] = NoOne THEN "none" ELSE "live"]]
       /\ user = [u \in People |-> [status |-> p.status[u], roles |-> p.roles[u], version |-> 1]]
       /\ member = [u \in People |-> IF p.status[u] = "gone" THEN "none" ELSE p.status[u]]
       /\ invitation = [u \in People |-> IF p.status[u] = "invited" THEN "open" ELSE "none"]
       /\ todo = p.ops /\ faults = p.faults
  BY DEF Init
<1>2. /\ p.status \in [People -> Statuses] /\ p.roles \in [People -> SUBSET Roles]
      /\ p.signedIn \in [Tokens -> People \cup {NoOne}] /\ p.ops \subseteq Operations /\ p.faults \in Nat
      /\ \E u \in People : p.status[u] = "active" /\ "owner" \in p.roles[u]
  BY AccessAssumption
<1>3. token \in [Tokens -> Token] /\ user \in [People -> User]
  BY <1>1, <1>2 DEF Token, User
<1>4. /\ member \in [People -> {"none", "invited", "active", "disabled"}]
      /\ invitation \in [People -> {"none", "open", "accepted", "closed"}]
      /\ todo \subseteq Operations /\ faults \in Nat
  BY <1>1, <1>2 DEF Statuses
<1>5. req \in [Slots -> Request] /\ \A r \in Slots : req[r] = Free
  BY FreeFits DEF Init
<1>6. /\ tenant \in {"active", "suspended"} /\ staff \in [perms : SUBSET Permissions, version : Nat]
      /\ sessionCache \in [Tokens -> BOOLEAN] /\ tenantCache \in {"none", "active", "suspended"}
      /\ permCache \in [People -> (SUBSET Permissions) \cup {NoOne}]
      /\ raced \in BOOLEAN /\ torn \subseteq People /\ late \subseteq CacheKeys
  BY DEF Init, Permissions
<1>7. TypeOK
  BY <1>3, <1>4, <1>5, <1>6, FreeFits DEF TypeOK, Signed, GuardSteps
<1>8. AllFit
  BY <1>5, FreeFits DEF AllFit
<1>9. ActiveOwners # {}
  BY <1>1, <1>2 DEF ActiveOwners
<1>10. \A r \in Slots : Counted(r)
  BY <1>5, FreeFits DEF Counted, At, GuardSteps
<1>11. QED
  BY <1>7, <1>8, <1>9, <1>10 DEF OwnersCounted, OwnerKept

-----------------------------------------------------------------------------
(* Nobody is locked out *)

\* The membership agrees with the user: there is one if there is a user, and it
\* is active if the user is.
Settled(u) ==
  /\ user[u].status # "gone" => member[u] # "none"
  /\ user[u].status = "active" => member[u] = "active"

\* What is so at each step of a request that works on somebody alone.
Halfway(r) ==
  LET u == Target(r) IN
  /\ req[r].step \in {"commit", "revoke", "dropSessions", "forget", "claim"} => Settled(u)
  /\ At(r, "setMember") => /\ member[u] # "none"
                           /\ user[u].status = IF req[r].op.kind = "disable" THEN "disabled" ELSE "active"
  /\ req[r].step \in {"inviteMember", "insertUser", "deleteMember", "closeInvitation"} => user[u].status = "gone"
  /\ At(r, "insertUser") => member[u] # "none"
  /\ At(r, "join") /\ user[u].status # "gone" => member[u] = "active"

Orderly(u) ==
  /\ \A r, q \in Slots : WorksOn(r, u) /\ WorksOn(q, u) => r = q
  /\ (\A r \in Slots : ~WorksOn(r, u)) => Settled(u)
  /\ \A r \in Slots : WorksOn(r, u) => Halfway(r)

MembershipsOrderly == \A u \in People \ torn : Orderly(u)

\* A request is changed by its own step only.
LEMMA Actor ==
  ASSUME TypeOK, AllFit, [Next]_vars, NEW r \in Slots, req'[r] # req[r]
  PROVE  /\ Guard(r) \/ Work(r) \/ Crash(r)
              \/ \E o \in todo : (\E k \in Tokens : Begin(r, k, o)) \/ Accept(r, o) \/ Operate(r, o)
         /\ \A q \in Slots \ {r} : req'[q] = req[q]
<1>0. req \in [Slots -> Request]
  BY DEF TypeOK
<1>1. ASSUME NEW s \in Slots, End(s) \/ \E n : Becomes(s, n) \/ Enters(s, n)
      PROVE  s = r /\ \A q \in Slots \ {r} : req'[q] = req[q]
  BY <1>0, <1>1 DEF End, Becomes, Enters
<1>2. ASSUME NEW s \in Slots, Guard(s) \/ Work(s) \/ Crash(s)
      PROVE  s = r /\ \A q \in Slots \ {r} : req'[q] = req[q]
  BY <1>1, <1>2, GuardMoves, WorkMoves DEF Crash, AllFit
<1>3. ASSUME NEW s \in Slots, NEW o \in todo, (\E k \in Tokens : Begin(s, k, o)) \/ Accept(s, o) \/ Operate(s, o)
      PROVE  s = r /\ \A q \in Slots \ {r} : req'[q] = req[q]
  BY <1>1, <1>3, Enterings
<1>4. ~(\/ \E k \in Tokens, u \in People : Login(k, u)
        \/ \E k \in Tokens : ExpireSession(k)
        \/ \E u \in People : ExpirePerms(u)
        \/ ExpireTenant \/ UNCHANGED vars)
  BY DEF Login, ExpireSession, ExpirePerms, ExpireTenant, vars
<1>5. QED
  BY <1>2, <1>3, <1>4 DEF Next

\* A request starts to work on somebody in one of four ways, and finds out
\* whether another is at it.
LEMMA StartsOn ==
  ASSUME TypeOK, AllFit, [Next]_vars, NEW r \in Slots, NEW u \in People,
         ~WorksOn(r, u), WorksOn(r, u)', u \notin torn'
  PROVE  /\ \A q \in Slots : ~WorksOn(q, u)
         /\ \A q \in Slots \ {r} : req'[q] = req[q]
         /\ \/ req'[r].step \in {"commit", "claim"} /\ user' = user
            \/ req'[r].step = "inviteMember" /\ user' = user /\ user[u].status = "gone"
            \/ req'[r].step = "deleteMember" /\ user'[u].status = "gone"
         /\ member' = member
<1>0. /\ req \in [Slots -> Request] /\ req[r] \in Request /\ req[r].op \in Operations
      /\ req'[r].step \in WorkSteps /\ req'[r].op.on = u /\ u # NoOne
      /\ user \in [People -> User]
  BY AccessAssumption DEF TypeOK, Request, WorksOn
<1>1. req'[r] # req[r]
  BY DEF WorksOn
<1>2. \A q \in Slots \ {r} : req'[q] = req[q]
  BY <1>1, Actor
<1>3. ~End(r)
  BY <1>0, FreeFits DEF End
<1>4. ASSUME NEW n, Becomes(r, n)
      PROVE  /\ req[r].step = "handler" /\ req[r].op.on = u
             /\ Changes(req[r].op) \/ req[r].op.kind \in {"invite", "remove"}
  <2>1. n = req'[r] /\ req[r].op.on = u /\ req[r].step \notin WorkSteps /\ Leads(req[r], n.step) /\ Fits(req[r])
    BY <1>0, <1>4 DEF Becomes, Turned, WorksOn, AllFit
  <2>2. req[r].step \in {"handler", "endSession"}
    BY <1>0, <2>1 DEF Leads, WorkSteps, AfterSession
  <2>3. req[r].op.kind \notin {"editRole", "logout"}
    BY <1>0, <2>1, Ops
  <2>4. QED
    BY <2>1, <2>2, <2>3 DEF Leads, Fits
<1>5. ASSUME NEW o \in todo, (\E k \in Tokens : Begin(r, k, o)) \/ Accept(r, o) \/ Operate(r, o)
      PROVE  Accept(r, o) /\ o.on = u
  <2>1. PICK n : Enters(r, n) /\ n.op = o
    BY <1>5, Enterings
  <2>2. req'[r] = n /\ o.on = u
    BY <1>0, <2>1 DEF Enters
  <2>3. o.kind \notin {"suspend", "activate"}
    BY <1>0, <2>2, Ops DEF TypeOK
  <2>4. n.step = "claim" /\ o.kind = "accept"
    BY <1>0, <2>1, <2>2, <2>3 DEF Enters, WorkSteps, AfterSession
  <2>5. QED
    BY <1>5, <2>2, <2>3, <2>4 DEF Begin, Operate
<1>6. ASSUME Guard(r) \/ Work(r) \/ Crash(r)
      PROVE  Check(r) \/ Invite(r) \/ RemoveInvited(r)
  <2>1. ~Crash(r)
    BY <1>3 DEF Crash
  <2>2. \E n : Becomes(r, n)
    BY <1>3, <1>6, <2>1, GuardMoves, WorkMoves DEF AllFit
  <2>3. At(r, "handler") /\ (Changes(req[r].op) \/ req[r].op.kind \in {"invite", "remove"})
    BY <1>4, <2>2 DEF At
  <2>4. ~Guard(r)
    BY <2>3 DEF At, Guard, SaveSession, TenantKnown, TenantRead, SaveTenant, Member, UserRow, PermsKnown,
           PermsRead, SavePerms
  <2>5. QED
    BY <1>6, <2>1, <2>3, <2>4 DEF At, Work, Changes, Answer, Commit, SetMember, RevokeTenantSessions,
           RevokeAllForTenant, DropSessions, Forget, EditRole, InviteMember, InsertUser,
           DeleteMember, CloseInvitation, Claim, Join, EndSession, SignOut, DropTenant
<1>7. ASSUME Check(r) \/ Invite(r) \/ RemoveInvited(r)
      PROVE  Target(r) = u
  <2>1. \E n : Becomes(r, n)
    BY <1>3, <1>7, WorkMoves DEF Work, AllFit
  <2>2. QED
    BY <1>4, <2>1 DEF Target
<1>8. CASE Check(r)
  <2>1. Target(r) = u
    BY <1>7, <1>8
  <2>2. /\ torn' = torn \cup {w \in {u} : \E q \in Slots \ {r} : WorksOn(q, w)}
        /\ UNCHANGED rows
        /\ req' = [req EXCEPT ![r].step = "commit", ![r].losing = LosesOwner(req[r].op), ![r].may = {}]
    BY <1>3, <1>8, <2>1 DEF Check
  <2>3. req'[r].step = "commit"
    BY <1>0, <2>2 DEF Request
  <2>4. \A q \in Slots : ~WorksOn(q, u)
    BY <2>2
  <2>5. QED
    BY <1>2, <2>2, <2>3, <2>4 DEF rows
<1>9. CASE Invite(r)
  <2>1. Target(r) = u /\ Starts(r, "inviteMember") /\ user[u].status = "gone" /\ UNCHANGED rows
    BY <1>3, <1>7, <1>9 DEF Invite
  <2>2. req'[r].step = "inviteMember"
    BY <1>0, <2>1 DEF Starts, Step, Request
  <2>3. \A q \in Slots : ~WorksOn(q, u)
    BY <2>1 DEF Starts, Target
  <2>4. QED
    BY <1>2, <2>1, <2>2, <2>3 DEF rows
<1>10. CASE RemoveInvited(r)
  <2>1. /\ Target(r) = u /\ Starts(r, "deleteMember") /\ member' = member
        /\ user' = [user EXCEPT ![Target(r)].status = "gone", ![Target(r)].roles = {}]
    BY <1>3, <1>7, <1>10 DEF RemoveInvited
  <2>2. req'[r].step = "deleteMember" /\ user'[u].status = "gone"
    BY <1>0, <2>1 DEF Starts, Step, Request, User
  <2>3. \A q \in Slots : ~WorksOn(q, u)
    BY <2>1 DEF Starts, Target
  <2>4. QED
    BY <1>2, <2>1, <2>2, <2>3
<1>11. ASSUME NEW o \in todo, Accept(r, o), o.on = u
       PROVE  /\ \A q \in Slots : ~WorksOn(q, u)
              /\ req'[r].step = "claim" /\ user' = user /\ member' = member
  <2>1. /\ torn' = torn \cup {w \in {u} : \E q \in Slots \ {r} : WorksOn(q, w)}
        /\ UNCHANGED rows /\ req' = [req EXCEPT ![r] = [Free EXCEPT !.step = "claim", !.op = o]]
    BY <1>11 DEF Accept
  <2>2. req'[r].step = "claim"
    BY <1>0, <2>1 DEF Free
  <2>3. QED
    BY <2>1, <2>2 DEF rows
<1>12. QED
  BY <1>1, <1>2, <1>5, <1>6, <1>8, <1>9, <1>10, <1>11, Actor

\* One that works on somebody goes on with it, or is done and leaves things settled.
LEMMA GoesOnWith ==
  ASSUME TypeOK, AllFit, [Next]_vars, NEW r \in Slots, NEW u \in People \ torn', WorksOn(r, u), Halfway(r),
         req'[r] # req[r]
  PROVE  IF WorksOn(r, u)' THEN Halfway(r)' ELSE Settled(u)'
<1> DEFINE q == req[r]
           k == q.op.kind
<1>0. /\ req \in [Slots -> Request] /\ q \in Request /\ q.op \in Operations /\ u \in People /\ u # NoOne
      /\ q.step \in WorkSteps /\ q.op.on = u /\ Target(r) = u /\ Fits(q)
      /\ user \in [People -> User] /\ user[u] \in User
      /\ member \in [People -> {"none", "invited", "active", "disabled"}]
  BY AccessAssumption DEF TypeOK, Request, WorksOn, Target, AllFit
<1>1. Work(r)
  <2>1. ~Guard(r)
    BY <1>0 DEF At, Guard, SaveSession, TenantKnown, TenantRead, SaveTenant, Member, UserRow, PermsKnown,
           PermsRead, SavePerms, WorkSteps
  <2>2. ~Crash(r)
    BY <1>0 DEF Crash
  <2>3. ASSUME NEW o \in todo, (\E t \in Tokens : Begin(r, t, o)) \/ Accept(r, o) \/ Operate(r, o)
        PROVE  FALSE
    BY <1>0, <2>3 DEF Begin, Accept, Operate, At, WorkSteps
  <2>4. QED
    BY <2>1, <2>2, <2>3, Actor
<1>2. ASSUME End(r)
      PROVE  ~WorksOn(r, u)'
  BY <1>0, <1>2, FreeFits DEF End, WorksOn, WorkSteps
<1>3. ASSUME NEW n, Becomes(r, n)
      PROVE  n = req'[r] /\ n.op = q.op /\ Target(r)' = u
  BY <1>0, <1>3 DEF Becomes, Turned, Target
<1>4. ASSUME ~End(r)
      PROVE  /\ req'[r].op = q.op /\ Target(r)' = u /\ Leads(q, req'[r].step)
  BY <1>1, <1>3, <1>4, WorkMoves DEF AllFit, Becomes
<1>5. CASE Commit(r)
  <2>1. Settled(u) /\ Changes(q.op)
    BY <1>0, <1>5 DEF Commit, At, Halfway, Fits
  <2>2. CASE End(r)
    <3>1. user' = user /\ member' = member
      BY <1>0, <1>5, <2>2, FreeFits DEF Commit, Step, End, Request
    <3>2. QED
      BY <1>2, <2>1, <2>2, <3>1 DEF Settled
  <2>3. CASE ~End(r)
    <3>1. /\ user[u].status # "gone" /\ member' = member
          /\ user'[u].status = CASE k = "disable" -> "disabled" [] k = "enable" -> "active"
                                 [] OTHER -> user[u].status
          /\ req'[r].step = IF k = "setRoles" THEN "forget" ELSE "setMember"
      BY <1>0, <1>5, <2>3 DEF Commit, Step, User, Request
    <3>2. member[u] # "none" /\ (user[u].status = "active" => member[u] = "active")
      BY <2>1, <3>1 DEF Settled
    <3>3. CASE k = "setRoles"
      BY <1>0, <1>4, <2>3, <3>1, <3>2, <3>3 DEF Halfway, Settled, At, WorksOn, WorkSteps
    <3>4. CASE k \in {"disable", "enable"}
      BY <1>0, <1>4, <2>3, <3>1, <3>2, <3>4 DEF Halfway, Settled, At, WorksOn, WorkSteps
    <3>5. QED
      BY <2>1, <3>3, <3>4 DEF Changes
  <2>4. QED
    BY <2>2, <2>3
<1>6. CASE SetMember(r)
  <2>1. k \in {"disable", "enable"} /\ member[u] # "none"
        /\ user[u].status = IF k = "disable" THEN "disabled" ELSE "active"
    BY <1>0, <1>6 DEF SetMember, At, Halfway, Fits
  <2>2. /\ user' = user /\ member'[u] = IF k = "disable" THEN "disabled" ELSE "active"
        /\ req'[r].step \in {"revoke", "forget"}
    BY <1>0, <1>6, <2>1 DEF SetMember, Step, Request
  <2>3. Settled(u)'
    BY <2>1, <2>2 DEF Settled
  <2>4. ~End(r)
    BY <1>0, <2>2, FreeFits DEF End
  <2>5. QED
    BY <1>4, <2>2, <2>3, <2>4 DEF Halfway, At
<1>7. CASE RevokeTenantSessions(r) \/ DropSessions(r) \/ Forget(r)
  <2>1. Settled(u) /\ user' = user /\ member' = member
    BY <1>0, <1>7 DEF RevokeTenantSessions, RevokeRows, DropSessions, Forget, At, Halfway, rows
  <2>2. Settled(u)'
    BY <2>1 DEF Settled
  <2>3. CASE ~End(r)
    <3>1. req'[r].step \in {"dropSessions", "forget"}
      BY <1>4, <1>7, <2>3 DEF RevokeTenantSessions, DropSessions, Forget, At, Leads
    <3>2. QED
      BY <1>4, <2>2, <2>3, <3>1 DEF Halfway, At
  <2>4. QED
    BY <1>2, <2>2, <2>3
<1>8. CASE InviteMember(r)
  <2>1. user[u].status = "gone" /\ user' = user /\ member'[u] = "invited" /\ req'[r].step = "insertUser"
    BY <1>0, <1>8 DEF InviteMember, At, Halfway, Step, Request
  <2>2. ~End(r)
    BY <1>0, <2>1, FreeFits DEF End
  <2>3. QED
    BY <1>0, <1>4, <2>1, <2>2 DEF Halfway, At, WorksOn, WorkSteps
<1>9. CASE InsertUser(r)
  <2>1. user[u].status = "gone" /\ member[u] # "none" /\ End(r) /\ member' = member
    BY <1>0, <1>9 DEF InsertUser, At, Halfway
  <2>2. user'[u].status = "invited"
    BY <1>0, <1>9, <2>1 DEF InsertUser
  <2>3. QED
    BY <1>2, <2>1, <2>2 DEF Settled
<1>10. CASE DeleteMember(r) \/ CloseInvitation(r)
  <2>1. user[u].status = "gone" /\ user' = user
    BY <1>0, <1>10 DEF DeleteMember, CloseInvitation, At, Halfway
  <2>2. Settled(u)'
    BY <2>1 DEF Settled
  <2>3. CASE ~End(r)
    <3>1. req'[r].step = "closeInvitation"
      BY <1>4, <1>10, <2>3 DEF DeleteMember, CloseInvitation, At, Leads
    <3>2. QED
      BY <1>4, <2>1, <2>2, <2>3, <3>1 DEF Halfway, At
  <2>4. QED
    BY <1>2, <2>2, <2>3
<1>11. CASE Claim(r)
  <2>1. /\ Settled(u) /\ user' = user /\ req'[r].step = "join"
        /\ member'[u] = IF member[u] = "none" THEN "none" ELSE "active"
    BY <1>0, <1>11 DEF Claim, At, Halfway, Step, Request
  <2>2. user[u].status # "gone" => member'[u] = "active"
    BY <2>1 DEF Settled
  <2>3. ~End(r)
    BY <1>0, <2>1, FreeFits DEF End
  <2>4. QED
    BY <1>0, <1>4, <2>1, <2>2, <2>3 DEF Halfway, At, WorksOn, WorkSteps
<1>12. CASE Join(r)
  <2>1. (user[u].status # "gone" => member[u] = "active") /\ member' = member /\ End(r)
    BY <1>0, <1>12 DEF Join, At, Halfway
  <2>2. user[u].status = "gone" <=> user'[u].status = "gone"
    BY <1>0, <1>12 DEF Join, User
  <2>3. QED
    BY <1>2, <2>1, <2>2 DEF Settled
<1>13. ~(Answer(r) \/ Check(r) \/ EditRole(r) \/ Invite(r) \/ RemoveInvited(r) \/ EndSession(r))
  BY <1>0 DEF Answer, Check, EditRole, Invite, RemoveInvited, EndSession, At, WorkSteps
<1>14. ~(RevokeAllForTenant(r) \/ SignOut(r) \/ DropTenant(r))
  BY <1>0, Ops DEF RevokeAllForTenant, SignOut, DropTenant, At, Fits
<1>15. QED
  BY <1>1, <1>5, <1>6, <1>7, <1>8, <1>9, <1>10, <1>11, <1>12, <1>13, <1>14 DEF Work

\* And nobody else writes that person's user or membership.
LEMMA OthersKeepOff ==
  ASSUME TypeOK, AllFit, [Next]_vars, NEW u \in People,
         \A r \in Slots : WorksOn(r, u) => req'[r] = req[r],
         \A r \in Slots : WorksOn(r, u)' => WorksOn(r, u)
  PROVE  user'[u] = user[u] /\ member'[u] = member[u]
<1>0. /\ req \in [Slots -> Request] /\ \A r \in Slots : req[r] \in Request
      /\ member \in [People -> {"none", "invited", "active", "disabled"}]
  BY DEF TypeOK
<1>1. ASSUME NEW r \in Slots, Committed(r, u) \/ Invited(r, u) \/ Joined(r, u)
      PROVE  FALSE
  <2>1. WorksOn(r, u)
    BY <1>1 DEF Committed, Commit, Invited, InsertUser, Joined, Join, At, WorksOn, WorkSteps, Target
  <2>2. req'[r].step # req[r].step
    BY <1>0, <1>1, FreeFits DEF Committed, Commit, Invited, InsertUser, Joined, Join, At, End, Request
  <2>3. QED
    BY <2>1, <2>2
<1>2. ASSUME NEW r \in Slots, Withdrawn(r, u)
      PROVE  FALSE
  <2>1. Starts(r, "deleteMember") /\ At(r, "handler") /\ req[r].op.on = u
    BY <1>2 DEF Withdrawn, RemoveInvited, Target
  <2>2. req'[r].step = "deleteMember" /\ req'[r].op.on = u
    BY <1>0, <2>1 DEF Starts, Step, Request
  <2>3. QED
    BY <2>1, <2>2 DEF WorksOn, WorkSteps, At
<1>3. user'[u] = user[u]
  BY <1>1, <1>2, UserChanges DEF UserChange
<1>4. ASSUME NEW r \in Slots, InviteMember(r) \/ SetMember(r) \/ DeleteMember(r) \/ Claim(r)
      PROVE  member'[u] = member[u]
  <2>1. CASE Target(r) = u
    <3>1. WorksOn(r, u)
      BY <1>4, <2>1 DEF InviteMember, SetMember, DeleteMember, Claim, At, WorksOn, WorkSteps, Target
    <3>2. req'[r].step # req[r].step
      BY <1>0, <1>4 DEF InviteMember, SetMember, DeleteMember, Claim, At, Step, Request
    <3>3. QED
      BY <3>1, <3>2
  <2>2. CASE Target(r) # u
    BY <1>0, <1>4, <2>2 DEF InviteMember, SetMember, DeleteMember, Claim, Target
  <2>3. QED
    BY <2>1, <2>2
<1>5. QED
  BY <1>3, <1>4, WritersOnly DEF Writers

\* Nobody who was worked on by two is forgotten.
LEMMA TornStays ==
  ASSUME [Next]_vars
  PROVE  torn \subseteq torn'
  BY WritersOnly DEF Writers, Check, Invite, RemoveInvited, Starts, Accept, Crash

\* So a step keeps the memberships in order.
LEMMA MembershipsStep ==
  ASSUME TypeOK, AllFit, MembershipsOrderly, [Next]_vars
  PROVE  MembershipsOrderly'
<1> SUFFICES ASSUME NEW u \in People \ torn'
             PROVE  Orderly(u)'
  BY DEF MembershipsOrderly
<1>0. Orderly(u) /\ u \in People
  BY TornStays DEF MembershipsOrderly
<1>1. ASSUME NEW r \in Slots, WorksOn(r, u), req'[r] # req[r]
      PROVE  Orderly(u)'
  <2>1. \A q \in Slots : WorksOn(q, u)' => q = r
    <3>1. ASSUME NEW q \in Slots, q # r
          PROVE  ~WorksOn(q, u)'
      <4>1. ~WorksOn(q, u) /\ req'[q] = req[q]
        BY <1>0, <1>1, <3>1, Actor DEF Orderly
      <4>2. QED
        BY <4>1 DEF WorksOn
    <3>2. QED
      BY <3>1
  <2>2. IF WorksOn(r, u)' THEN Halfway(r)' ELSE Settled(u)'
    BY <1>0, <1>1, GoesOnWith DEF Orderly
  <2>3. QED
    BY <2>1, <2>2 DEF Orderly
<1>2. ASSUME NEW r \in Slots, ~WorksOn(r, u), WorksOn(r, u)'
      PROVE  Orderly(u)'
  <2>1. /\ \A q \in Slots : ~WorksOn(q, u)
        /\ \A q \in Slots \ {r} : req'[q] = req[q]
        /\ \/ req'[r].step \in {"commit", "claim"} /\ user' = user
           \/ req'[r].step = "inviteMember" /\ user' = user /\ user[u].status = "gone"
           \/ req'[r].step = "deleteMember" /\ user'[u].status = "gone"
        /\ member' = member
    BY <1>0, <1>2, StartsOn
  <2>2. Settled(u)
    BY <1>0, <2>1 DEF Orderly
  <2>3. \A q \in Slots : WorksOn(q, u)' => q = r
    BY <2>1 DEF WorksOn
  <2>4. req'[r].op.on = u
    BY <1>2 DEF WorksOn
  <2>5. Halfway(r)'
    BY <2>1, <2>2, <2>4 DEF Halfway, Settled, At, Target
  <2>6. QED
    BY <1>2, <2>3, <2>5 DEF Orderly
<1>3. CASE /\ \A r \in Slots : WorksOn(r, u) => req'[r] = req[r]
           /\ \A r \in Slots : WorksOn(r, u)' => WorksOn(r, u)
  <2>1. user'[u] = user[u] /\ member'[u] = member[u]
    BY <1>0, <1>3, OthersKeepOff
  <2>2. \A r \in Slots : WorksOn(r, u)' <=> WorksOn(r, u)
    BY <1>3 DEF WorksOn
  <2>3. Settled(u) => Settled(u)'
    BY <2>1 DEF Settled
  <2>4. ASSUME NEW r \in Slots, WorksOn(r, u)
        PROVE  Halfway(r)'
    BY <1>0, <1>3, <2>1, <2>4 DEF Orderly, Halfway, Settled, At, Target, WorksOn
  <2>5. QED
    BY <1>0, <2>2, <2>3, <2>4 DEF Orderly
<1>4. QED
  BY <1>1, <1>2, <1>3

\* At first everybody's membership is what the user row says.
LEMMA OrderlyAtFirst ==
  ASSUME Init
  PROVE  MembershipsOrderly
<1>1. PICK p \in Plans :
       /\ user = [u \in People |-> [status |-> p.status[u], roles |-> p.roles[u], version |-> 1]]
       /\ member = [u \in People |-> IF p.status[u] = "gone" THEN "none" ELSE p.status[u]]
  BY DEF Init
<1>2. \A u \in People : p.status[u] \in Statuses
  BY <1>1, AccessAssumption
<1>3. \A u \in People : Settled(u)
  BY <1>1, <1>2 DEF Settled, Statuses
<1>4. \A r \in Slots, u \in People : ~WorksOn(r, u)
  BY FreeFits DEF Init, WorksOn, WorkSteps
<1>5. QED
  BY <1>3, <1>4 DEF MembershipsOrderly, Orderly

-----------------------------------------------------------------------------
(* What the caches show *)

\* The entries that may be outdated.
Excused == late \cup UNION {Owes(r) : r \in Slots}

\* An entry is outdated when it shows what the database no longer says.
Outdated(key) ==
  \/ \E k \in Tokens : key = <<"session", k>> /\ StaleSession(k)
  \/ \E u \in People : key = <<"perms", u>> /\ StalePerms(u)
  \/ key = <<"tenant", NoOne>> /\ StaleTenant

\* Of those who are not users yet nothing is cached, and nothing on its way to be.
Newcomers ==
  \A u \in People : user[u].status \in {"gone", "invited"} =>
    /\ permCache[u] = NoOne
    /\ \A r \in Slots : req[r].step \in {"perms", "permsRead"} => Who(r) # u

CachesSound == Newcomers /\ StaleOnlyIfOvertaken

LEMMA WhatExcuses ==
  ASSUME NEW key
  PROVE  key \in Excused <=> key \in late \/ \E r \in Slots : key \in Owes(r)
  BY DEF Excused

LEMMA WhatIsOutdated ==
  StaleOnlyIfOvertaken <=> \A key : Outdated(key) => key \in Excused
  BY DEF StaleOnlyIfOvertaken, Excused, Outdated

\* The person behind a request stays the same through the guard.
LEMMA WhoStays ==
  ASSUME TypeOK, AllFit, [Next]_vars, NEW r \in Slots, req[r].step \in Signed, req'[r].token = req[r].token
  PROVE  Who(r)' = Who(r)
<1>1. req[r].token \in Tokens /\ token[req[r].token].state # "none"
  BY DEF TypeOK
<1>2. req[r].token # NoOne /\ token'[req[r].token].who = token[req[r].token].who
  BY <1>1, TokensStep, AccessAssumption
<1>3. QED
  BY <1>2 DEF Who

\* Only an active user gets as far as the permissions, and no active user
\* becomes a newcomer again.
LEMMA NewcomersStep ==
  ASSUME TypeOK, AllFit, Newcomers, [Next]_vars
  PROVE  Newcomers'
<1> SUFFICES ASSUME NEW u \in People, user'[u].status \in {"gone", "invited"}
             PROVE  /\ permCache'[u] = NoOne
                    /\ \A r \in Slots : req'[r].step \in {"perms", "permsRead"} => Who(r)' # u
  BY DEF Newcomers
<1>0. /\ req \in [Slots -> Request] /\ permCache \in [People -> (SUBSET Permissions) \cup {NoOne}]
      /\ user[u] \in User
  BY DEF TypeOK
<1>1. user[u].status \in {"gone", "invited"}
  <2>1. user'[u] = user[u] \/ \E r \in Slots : UserChange(r, u)
    BY UserChanges
  <2>2. ASSUME NEW r \in Slots, Committed(r, u)
        PROVE  user[u].status \in {"gone", "invited"}
    BY <2>2 DEF Committed, Changes
  <2>3. QED
    BY <2>1, <2>2 DEF UserChange, Invited, Withdrawn, Joined
<1>2. permCache[u] = NoOne /\ \A r \in Slots : req[r].step \in {"perms", "permsRead"} => Who(r) # u
  BY <1>1 DEF Newcomers
<1>3. permCache'[u] = NoOne
  <2>1. ASSUME NEW r \in Slots, SavePerms(r)
        PROVE  permCache'[u] = NoOne
    BY <1>0, <1>2, <2>1 DEF SavePerms, At
  <2>2. ASSUME NEW r \in Slots, Forget(r)
        PROVE  permCache'[u] = NoOne
    BY <1>2, <2>2 DEF Forget
  <2>3. ASSUME NEW w \in People, ExpirePerms(w)
        PROVE  permCache'[u] = NoOne
    BY <1>0, <1>2, <2>3 DEF ExpirePerms
  <2>4. QED
    BY <1>2, <2>1, <2>2, <2>3, WritersOnly DEF Writers
<1>4. ASSUME NEW r \in Slots, req'[r].step \in {"perms", "permsRead"}
      PROVE  Who(r)' # u
  <2>1. CASE req'[r] = req[r]
    <3>1. Who(r)' = Who(r)
      BY <1>4, <2>1, WhoStays DEF Signed, GuardSteps
    <3>2. QED
      BY <1>2, <1>4, <2>1, <3>1
  <2>2. CASE req'[r] # req[r]
    <3>1. ~End(r)
      BY <1>0, <1>4, FreeFits DEF End
    <3>2. ASSUME NEW o \in todo, (\E k \in Tokens : Begin(r, k, o)) \/ Accept(r, o) \/ Operate(r, o)
          PROVE  FALSE
      <4>1. PICK n : Enters(r, n)
        BY <3>2, Enterings
      <4>2. n = req'[r]
        BY <1>0, <4>1 DEF Enters
      <4>3. QED
        BY <1>4, <4>1, <4>2 DEF Enters, AfterSession
    <3>3. Guard(r) \/ Work(r)
      BY <2>2, <3>1, <3>2, Actor DEF Crash
    <3>4. \E n : Becomes(r, n)
      BY <3>1, <3>3, GuardMoves, WorkMoves DEF AllFit
    <3>5. /\ req[r].step \in {"user", "perms"} /\ req'[r].token = req[r].token
      BY <1>0, <1>4, <3>4 DEF Becomes, Turned, Leads, AfterSession
    <3>6. Who(r)' = Who(r)
      BY <3>5, WhoStays DEF Signed, GuardSteps
    <3>7. CASE req[r].step = "user"
      <4>1. UserRow(r)
        BY <3>3, <3>7 DEF At, Guard, SaveSession, TenantKnown, TenantRead, SaveTenant, Member,
               PermsKnown, PermsRead, SavePerms, Work, Answer, Check, Commit, SetMember,
               RevokeTenantSessions, RevokeAllForTenant, DropSessions, Forget, EditRole, Invite,
               InviteMember, InsertUser, RemoveInvited, DeleteMember, CloseInvitation, Claim, Join,
               EndSession, SignOut, DropTenant
      <4>2. user[Who(r)].status = "active"
        BY <3>1, <4>1 DEF UserRow
      <4>3. QED
        BY <1>1, <3>6, <4>2
    <3>8. CASE req[r].step = "perms"
      BY <1>2, <3>6, <3>8
    <3>9. QED
      BY <3>5, <3>7, <3>8
  <2>3. QED
    BY <2>1, <2>2
<1>5. QED
  BY <1>3, <1>4

\* What a request has to delete it still has to delete after a step, unless it did, or
\* died, which is noted.
LEMMA OwesStays ==
  ASSUME TypeOK, AllFit, [Next]_vars, NEW r \in Slots, NEW key \in Owes(r)
  PROVE  key \in Excused' \/ ~Outdated(key)'
<1> DEFINE q == req[r]
           k == q.op.kind
<1>0. /\ req \in [Slots -> Request] /\ q \in Request /\ q.op \in Operations /\ Fits(q)
      /\ sessionCache \in [Tokens -> BOOLEAN] /\ q.toks \subseteq Tokens
  BY DEF TypeOK, Request, AllFit
<1>1. q.step \in {"forget", "setMember", "revoke", "dropSessions", "dropTenant"}
  BY DEF Owes, At
<1>2. key \in Owes(r)' => key \in Excused'
  BY DEF Excused
<1>3. CASE req'[r] = req[r]
  <2>1. Owes(r)' = Owes(r)
    BY <1>3 DEF Owes, At
  <2>2. QED
    BY <1>2, <2>1
<1>4. CASE req'[r] # req[r]
  <2>1. Work(r) \/ Crash(r)
    <3>1. ~Guard(r)
      BY <1>1 DEF At, Guard, SaveSession, TenantKnown, TenantRead, SaveTenant, Member, UserRow, PermsKnown,
             PermsRead, SavePerms
    <3>2. ASSUME NEW o \in todo, (\E t \in Tokens : Begin(r, t, o)) \/ Accept(r, o) \/ Operate(r, o)
          PROVE  FALSE
      BY <1>1, <3>2 DEF Begin, Accept, Operate, At
    <3>3. QED
      BY <1>4, <3>1, <3>2, Actor
  <2>2. CASE Crash(r)
    BY <2>2 DEF Crash, Excused
  <2>3. CASE Work(r)
    <3>1. Forget(r) \/ SetMember(r) \/ RevokeTenantSessions(r) \/ DropSessions(r) \/ DropTenant(r)
      BY <1>1, <2>3 DEF At, Work, Answer, Check, Commit,
               RevokeAllForTenant, EditRole, Invite,
               InviteMember, InsertUser, RemoveInvited, DeleteMember, CloseInvitation, Claim, Join,
               EndSession, SignOut
    <3>2. End(r) \/ (req'[r].op = q.op /\ Leads(q, req'[r].step))
      BY <1>0, <2>3, WorkMoves DEF Becomes, Turned
    <3>3. CASE Forget(r)
      <4>1. key \in {"perms"} \X (IF k = "editRole" THEN People ELSE {q.op.on})
        BY <3>3 DEF Forget, Owes, At
      <4>2. k = "editRole" \/ q.op.on \in People
        BY <1>0, <3>3, Ops DEF Forget, At, Fits, Changes
      <4>3. PICK u \in People : key = <<"perms", u>> /\ u \in (IF k = "editRole" THEN People ELSE {q.op.on})
        BY <4>1, <4>2
      <4>4. permCache'[u] = NoOne
        BY <3>3, <4>3 DEF Forget, Target
      <4>5. QED
        BY <4>3, <4>4 DEF Outdated, StalePerms
    <3>4. CASE SetMember(r)
      <4>1. ~End(r) /\ k \in {"disable", "enable"}
        BY <1>0, <3>4, FreeFits DEF SetMember, End, Step, At, Fits, Request
      <4>2. req'[r].op = q.op /\ req'[r].step \in {"revoke", "forget"}
        BY <3>2, <3>4, <4>1 DEF SetMember, Leads, At
      <4>3. Owes(r)' = Owes(r)
        BY <3>4, <4>2 DEF SetMember, Owes, At
      <4>4. QED
        BY <1>2, <4>3
    <3>5. CASE RevokeTenantSessions(r)
      <4>1. req'[r].step = "dropSessions" /\ k = "disable" /\ req'[r].op = q.op
        BY <1>0, <3>5 DEF RevokeTenantSessions, RevokeRows, At, Fits, Request
      <4>2. key \in {"perms"} \X {q.op.on}
        BY <3>5, <4>1 DEF RevokeTenantSessions, Owes, At
      <4>3. key \in Owes(r)'
        BY <4>1, <4>2 DEF Owes, At
      <4>4. QED
        BY <1>2, <4>3
    <3>6. CASE DropSessions(r)
      <4>1. key \in ({"session"} \X q.toks) \cup ({"perms"} \X (IF k = "disable" THEN {q.op.on} ELSE {}))
        BY <3>6 DEF DropSessions, Owes, At
      <4>2. CASE key \in {"session"} \X q.toks
        <5>1. PICK t \in q.toks : key = <<"session", t>>
          BY <4>2
        <5>2. sessionCache'[t] = FALSE
          BY <1>0, <3>6, <5>1 DEF DropSessions
        <5>3. QED
          BY <5>1, <5>2 DEF Outdated, StaleSession
      <4>3. CASE k = "disable" /\ key \in {"perms"} \X {q.op.on}
        <5>1. req'[r].step = "forget" /\ req'[r].op = q.op
          BY <1>0, <3>6, <4>3 DEF DropSessions, Request
        <5>2. key \in Owes(r)'
          BY <4>3, <5>1 DEF Owes, At
        <5>3. QED
          BY <1>2, <5>2
      <4>4. QED
        BY <4>1, <4>2, <4>3
    <3>7. CASE DropTenant(r)
      <4>1. key = <<"tenant", NoOne>> /\ tenantCache' = "none"
        BY <3>7 DEF DropTenant, Owes, At
      <4>2. QED
        BY <4>1 DEF Outdated, StaleTenant
    <3>8. QED
      BY <3>1, <3>3, <3>4, <3>5, <3>6, <3>7
  <2>4. QED
    BY <2>1, <2>2, <2>3
<1>5. QED
  BY <1>3, <1>4

\* What was written late is noted until it is deleted or written from what is so.
LEMMA LateStays ==
  ASSUME TypeOK, AllFit, [Next]_vars, NEW key \in late
  PROVE  key \in Excused' \/ ~Outdated(key)'
<1>0. /\ sessionCache \in [Tokens -> BOOLEAN]
      /\ permCache \in [People -> (SUBSET Permissions) \cup {NoOne}]
      /\ \A r \in Slots : req[r].toks \subseteq Tokens
  BY DEF TypeOK, Request
<1>1. key \in late' => key \in Excused'
  BY DEF Excused
<1>2. ASSUME NEW r \in Slots, SaveSession(r), key \notin late'
      PROVE  ~Outdated(key)'
  <2>1. key = <<"session", req[r].token>> /\ token[req[r].token].state = "live" /\ token' = token
    BY <1>2 DEF SaveSession, Written, rows
  <2>2. QED
    BY <2>1 DEF Outdated, StaleSession
<1>3. ASSUME NEW r \in Slots, SaveTenant(r), key \notin late'
      PROVE  ~Outdated(key)'
  <2>1. key = <<"tenant", NoOne>> /\ tenantCache' = tenant /\ tenant' = tenant
    BY <1>3 DEF SaveTenant, Written, rows
  <2>2. QED
    BY <2>1 DEF Outdated, StaleTenant
<1>4. ASSUME NEW r \in Slots, SavePerms(r), key \notin late'
      PROVE  ~Outdated(key)'
  <2>1. /\ key = <<"perms", Who(r)>> /\ Who(r) \in People /\ user' = user /\ staff' = staff
        /\ permCache' = [permCache EXCEPT ![Who(r)] = req[r].may] /\ req[r].may = PermsOf(Who(r))
    BY <1>4, WhoType DEF SavePerms, Written, rows, At, Signed, GuardSteps
  <2>2. PICK u \in People : u = Who(r)
    BY <2>1
  <2>3. permCache'[u] = PermsOf(u) /\ PermsOf(u)' = PermsOf(u)
    BY <1>0, <2>1, <2>2 DEF PermsOf, RolePerms
  <2>4. key = <<"perms", u>>
    BY <2>1, <2>2
  <2>5. QED
    BY <2>3, <2>4 DEF Outdated, StalePerms
<1>5. ASSUME NEW r \in Slots, DropSessions(r), key \notin late'
      PROVE  ~Outdated(key)'
  <2>1. PICK t \in req[r].toks : key = <<"session", t>>
    BY <1>5 DEF DropSessions, Dropped
  <2>2. sessionCache'[t] = FALSE
    BY <1>0, <1>5, <2>1 DEF DropSessions
  <2>3. QED
    BY <2>1, <2>2 DEF Outdated, StaleSession
<1>6. ASSUME NEW r \in Slots, EndSession(r), key \notin late'
      PROVE  ~Outdated(key)'
  <2>1. key = <<"session", req[r].token>> /\ req[r].token \in Tokens
    BY <1>6 DEF EndSession, Dropped, TypeOK, At, Signed
  <2>2. PICK t \in Tokens : t = req[r].token
    BY <2>1
  <2>3. sessionCache'[t] = FALSE
    BY <1>0, <1>6, <2>2 DEF EndSession
  <2>4. QED
    BY <2>1, <2>2, <2>3 DEF Outdated, StaleSession
<1>7. ASSUME NEW r \in Slots, Forget(r), key \notin late'
      PROVE  ~Outdated(key)'
  <2>1. PICK S : /\ permCache' = [u \in People |-> IF u \in S THEN NoOne ELSE permCache[u]]
                 /\ late' = late \ ({"perms"} \X S)
    BY <1>7 DEF Forget, Dropped
  <2>2. PICK u \in S : key = <<"perms", u>>
    BY <1>7, <2>1
  <2>3. u \in People => permCache'[u] = NoOne
    BY <2>1
  <2>4. QED
    BY <2>2, <2>3 DEF Outdated, StalePerms
<1>8. ASSUME (\E r \in Slots : DropTenant(r)) \/ ExpireTenant, key \notin late'
      PROVE  ~Outdated(key)'
  BY <1>8 DEF DropTenant, ExpireTenant, Dropped, Outdated, StaleTenant
<1>9. ASSUME NEW t \in Tokens, ExpireSession(t), key \notin late'
      PROVE  ~Outdated(key)'
  BY <1>0, <1>9 DEF ExpireSession, Dropped, Outdated, StaleSession
<1>10. ASSUME NEW u \in People, ExpirePerms(u), key \notin late'
       PROVE  ~Outdated(key)'
  BY <1>0, <1>10 DEF ExpirePerms, Dropped, Outdated, StalePerms
<1>11. ASSUME NEW r \in Slots, Crash(r)
       PROVE  key \in late'
  BY <1>11 DEF Crash
<1>12. QED
  BY <1>1, <1>2, <1>3, <1>4, <1>5, <1>6, <1>7, <1>8, <1>9, <1>10, <1>11, WritersOnly DEF Writers

\* A session that is revoked while its entry is there is on the list to be deleted.
LEMMA SessionTurnsStale ==
  ASSUME TypeOK, AllFit, [Next]_vars, NEW k \in Tokens, ~StaleSession(k), StaleSession(k)'
  PROVE  <<"session", k>> \in Excused'
<1>0. /\ sessionCache \in [Tokens -> BOOLEAN] /\ token \in [Tokens -> Token] /\ req \in [Slots -> Request]
      /\ sessionCache'[k] /\ token'[k].state = "revoked"
  BY DEF TypeOK, StaleSession
<1>1. CASE token[k].state = "revoked"
  <2>1. ~sessionCache[k]
    BY <1>1 DEF StaleSession
  <2>2. PICK r \in Slots : SaveSession(r) \/ DropSessions(r) \/ EndSession(r)
    BY <1>0, <2>1, WritersOnly DEF Writers, ExpireSession
  <2>3. SaveSession(r) /\ req[r].token = k
    BY <1>0, <2>1, <2>2 DEF SaveSession, DropSessions, EndSession
  <2>4. <<"session", k>> \in late'
    BY <1>1, <2>3 DEF SaveSession, Written
  <2>5. QED
    BY <2>4 DEF Excused
<1>2. CASE token[k].state # "revoked"
  <2>1. ASSUME NEW j \in Tokens, NEW u \in People, Login(j, u)
        PROVE  FALSE
    BY <1>0, <1>2, <2>1 DEF Login
  <2>2. ASSUME NEW r \in Slots, SignOut(r)
        PROVE  FALSE
    <3>1. req[r].token \in Tokens /\ token[req[r].token] \in Token
      BY <1>0, <2>2 DEF SignOut, TypeOK, At, Signed
    <3>2. QED
      BY <1>0, <1>2, <2>2, <3>1 DEF SignOut, Token
  <2>3. PICK r \in Slots, S \in {People} \cup {{Target(q)} : q \in Slots} : RevokeRows(r, S)
    BY <1>0, <1>2, <2>1, <2>2, TokenWriters
  <2>4. k \in LiveTokensOf(S) /\ req'[r].step = "dropSessions" /\ req'[r].toks = LiveTokensOf(S)
    BY <1>0, <1>2, <2>3 DEF RevokeRows, Request
  <2>5. <<"session", k>> \in Owes(r)'
    BY <2>4 DEF Owes, At
  <2>6. QED
    BY <2>5 DEF Excused
<1>3. QED
  BY <1>1, <1>2

\* Whose permissions change while their entry is there has it deleted after.
LEMMA PermsTurnStale ==
  ASSUME TypeOK, AllFit, Newcomers, [Next]_vars, NEW u \in People, ~StalePerms(u), StalePerms(u)'
  PROVE  <<"perms", u>> \in Excused'
<1>0. /\ permCache \in [People -> (SUBSET Permissions) \cup {NoOne}] /\ req \in [Slots -> Request]
      /\ permCache'[u] # NoOne /\ permCache'[u] # PermsOf(u)' /\ permCache[u] \in {NoOne, PermsOf(u)}
  BY DEF TypeOK, StalePerms
<1>1. CASE permCache'[u] # permCache[u]
  <2>1. PICK r \in Slots : SavePerms(r)
    BY <1>0, <1>1, WritersOnly DEF Writers, Forget, ExpirePerms
  <2>2. Who(r) = u /\ user' = user /\ staff' = staff /\ permCache'[u] = req[r].may
    BY <1>0, <1>1, <2>1 DEF SavePerms, rows
  <2>3. PermsOf(u)' = PermsOf(u)
    BY <2>2 DEF PermsOf, RolePerms
  <2>4. <<"perms", u>> \in late'
    BY <1>0, <2>1, <2>2, <2>3 DEF SavePerms, Written
  <2>5. QED
    BY <2>4 DEF Excused
<1>2. CASE permCache'[u] = permCache[u]
  <2>1. permCache[u] = PermsOf(u) /\ PermsOf(u)' # PermsOf(u) /\ permCache[u] # NoOne
    BY <1>0, <1>2
  <2>2. staff' # staff \/ user'[u] # user[u]
    BY <2>1 DEF PermsOf, RolePerms
  <2>3. ASSUME NEW r \in Slots, req'[r].step = "forget",
               req'[r].op.kind = "editRole" \/ req'[r].op.on = u
        PROVE  <<"perms", u>> \in Excused'
    <3>1. <<"perms", u>> \in Owes(r)'
      BY <2>3 DEF Owes, At
    <3>2. QED
      BY <3>1 DEF Excused
  <2>4. CASE staff' # staff
    <3>1. PICK r \in Slots : EditRole(r)
      BY <2>4, WritersOnly DEF Writers
    <3>2. req'[r].step = "forget" /\ req'[r].op.kind = "editRole"
      BY <1>0, <2>4, <3>1 DEF EditRole, Request
    <3>3. QED
      BY <2>3, <3>2
  <2>5. CASE staff' = staff /\ user'[u] # user[u]
    <3>1. PICK r \in Slots : UserChange(r, u)
      BY <2>5, UserChanges
    <3>2. user[u].status \notin {"gone", "invited"} /\ user'[u].roles # user[u].roles
      BY <2>1, <2>5 DEF Newcomers, PermsOf, RolePerms
    <3>3. Committed(r, u)
      BY <3>1, <3>2 DEF UserChange, Invited, Withdrawn, Joined
    <3>4. req[r].op.kind = "setRoles" /\ req[r].op.on = u
      BY <3>2, <3>3 DEF Committed
    <3>5. req'[r].step = "forget" /\ req'[r].op = req[r].op
      BY <1>0, <3>3, <3>4 DEF Committed, Request
    <3>6. QED
      BY <2>3, <3>4, <3>5
  <2>6. QED
    BY <2>2, <2>4, <2>5
<1>3. QED
  BY <1>1, <1>2

\* So does the workspace, when an operator suspends or activates it.
LEMMA TenantTurnsStale ==
  ASSUME TypeOK, [Next]_vars, ~StaleTenant, StaleTenant'
  PROVE  <<"tenant", NoOne>> \in Excused'
<1>0. req \in [Slots -> Request]
  BY DEF TypeOK
<1>1. CASE tenant' # tenant
  <2>1. PICK r \in Slots, o \in todo : Operate(r, o)
    BY <1>1, WritersOnly DEF Writers
  <2>2. req'[r].step = "dropTenant"
    BY <1>0, <2>1 DEF Operate, Free
  <2>3. <<"tenant", NoOne>> \in Owes(r)'
    BY <2>2 DEF Owes, At
  <2>4. QED
    BY <2>3 DEF Excused
<1>2. CASE tenant' = tenant
  <2>1. PICK r \in Slots : SaveTenant(r)
    BY <1>2, WritersOnly DEF Writers, StaleTenant, DropTenant, ExpireTenant
  <2>2. <<"tenant", NoOne>> \in late'
    BY <1>2, <2>1 DEF SaveTenant, Written, StaleTenant
  <2>3. QED
    BY <2>2 DEF Excused
<1>3. QED
  BY <1>1, <1>2

\* So a step keeps every outdated entry excused.
LEMMA CachesStep ==
  ASSUME TypeOK, AllFit, CachesSound, [Next]_vars
  PROVE  CachesSound'
<1>1. Newcomers /\ Newcomers'
  BY NewcomersStep DEF CachesSound
<1>2. ASSUME NEW key, Outdated(key)'
      PROVE  key \in Excused'
  <2>1. CASE Outdated(key)
    <3>1. key \in late \/ \E r \in Slots : key \in Owes(r)
      BY <2>1, WhatIsOutdated, WhatExcuses DEF CachesSound
    <3>2. QED
      BY <1>2, <3>1, OwesStays, LateStays
  <2>2. CASE ~Outdated(key)
    BY <1>1, <1>2, <2>2, SessionTurnsStale, PermsTurnStale, TenantTurnsStale DEF Outdated
  <2>3. QED
    BY <2>1, <2>2
<1>3. StaleOnlyIfOvertaken'
  BY <1>2 DEF StaleOnlyIfOvertaken, Excused, Outdated
<1>4. QED
  BY <1>1, <1>3 DEF CachesSound

LEMMA CachesAtFirst ==
  ASSUME Init
  PROVE  CachesSound
  BY FreeFits DEF Init, CachesSound, Newcomers, StaleOnlyIfOvertaken, StaleSession, StalePerms, StaleTenant

-----------------------------------------------------------------------------
(* The theorems *)

\* The types hold at all times, and every request is at a step its operation comes to.
THEOREM AccessTypes == Spec => [](TypeOK /\ AllFit)
<1>1. Init => TypeOK /\ AllFit
  BY InitOk
<1>2. TypeOK /\ AllFit /\ [Next]_vars => (TypeOK /\ AllFit)'
  BY TypeStep
<1>3. QED
  BY <1>1, <1>2, PTL DEF Spec

\* users.update, assertAnotherActiveOwner: the workspace keeps an active owner,
\* except when two removals of an owner overlapped, each counting the other's.
THEOREM OwnerProtected == Spec => []OwnerKept
<1>1. Init => OwnersCounted
  BY InitOk
<1>2. TypeOK /\ AllFit /\ OwnersCounted /\ [Next]_vars => OwnersCounted'
  BY OwnersStep
<1>3. OwnersCounted => OwnerKept
  BY DEF OwnersCounted
<1>4. QED
  BY <1>1, <1>2, <1>3, AccessTypes, PTL DEF Spec

\* users.update, acceptInvitation, invite, removeInvited: whoever is shown as an
\* active user has an active membership, once the request that changed them is
\* over, unless two worked on the same person or one was cut short.
THEOREM MembershipsCorrect == Spec => []NotLockedOut
<1>1. Init => MembershipsOrderly
  BY OrderlyAtFirst
<1>2. TypeOK /\ AllFit /\ MembershipsOrderly /\ [Next]_vars => MembershipsOrderly'
  BY MembershipsStep
<1>3. MembershipsOrderly => NotLockedOut
  BY DEF MembershipsOrderly, Orderly, Settled, NotLockedOut
<1>4. QED
  BY <1>1, <1>2, <1>3, AccessTypes, PTL DEF Spec

\* SessionService, TenantDirectory, invalidatePermissions: an entry of the cache that
\* no longer agrees with its row is one a request is about to delete, or one
\* that was written late.
THEOREM CachesExcused == Spec => []StaleOnlyIfOvertaken
<1>1. Init => CachesSound
  BY CachesAtFirst
<1>2. TypeOK /\ AllFit /\ CachesSound /\ [Next]_vars => CachesSound'
  BY CachesStep
<1>3. CachesSound => StaleOnlyIfOvertaken
  BY DEF CachesSound
<1>4. QED
  BY <1>1, <1>2, <1>3, AccessTypes, PTL DEF Spec
=============================================================================
