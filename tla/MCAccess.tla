------------------------------- MODULE MCAccess -------------------------------
(* Instances of Access for TLC. *)
EXTENDS Access, TLC

CONSTANTS ann, bob, cas, ka, kb, kc, r1, r2, r3, noone

Op(kind, by, on, gives) == [kind |-> kind, by |-> by, on |-> on, gives |-> gives]
\* Who ann, bob and cas are, who is signed in, and what is to happen.
Plan(bobRoles, casStatus, tokens, ops, dying) ==
  [status |-> (ann :> "active") @@ (bob :> "active") @@ (cas :> casStatus),
   roles |-> (ann :> {"owner"}) @@ (bob :> bobRoles) @@ (cas :> IF casStatus = "gone" THEN {} ELSE {"staff"}),
   signedIn |-> [k \in Tokens |-> IF k \notin tokens THEN noone ELSE CASE k = ka -> ann [] k = kb -> bob [] k = kc -> cas],
   ops |-> ops, faults |-> dying]

Read(u) == Op("read", u, noone, {})
\* Two owners remove one another.
Owners == Plan({"owner"}, "gone", {ka, kb},
               {Op("disable", ann, bob, {}), Op("setRoles", bob, ann, {"staff"})}, 1)
\* One owner disables a colleague and another enables her.
Status == Plan({"owner"}, "active", {ka, kb}, {Op("disable", ann, cas, {}), Op("enable", bob, cas, {})}, 1)
\* A person is disabled while she is at work.
Disabling == Plan({}, "active", {ka, kc}, {Op("disable", ann, cas, {}), Read(cas)}, 1)
\* A person's roles, or the permissions of a role, change while she is at work.
Promotion == Plan({"staff"}, "gone", {ka, kb}, {Op("setRoles", ann, bob, {"owner"}), Read(bob)}, 1)
RoleEdit  == Plan({"staff"}, "gone", {ka, kb}, {Op("editRole", ann, noone, {"read", "manage"}), Read(bob)}, 1)
\* The workspace is suspended and reactivated.
Suspension == Plan({"staff"}, "gone", {kb},
               {Op("suspend", noone, noone, {}), Op("activate", noone, noone, {}), Read(bob)}, 0)
\* Someone signs out, with another request under way.
SignOff == Plan({"staff"}, "gone", {kb}, {Op("logout", bob, noone, {}), Read(bob)}, 1)
\* An invitation is made, taken, and withdrawn.
Invitation == Plan({"owner"}, "gone", {ka, kb},
               {Op("invite", ann, cas, {"staff"}), Op("accept", cas, cas, {}), Op("remove", bob, cas, {})}, 1)

AllPlans  == {Owners, Status, Disabling, Promotion, RoleEdit, Suspension, SignOff, Invitation}
=============================================================================
