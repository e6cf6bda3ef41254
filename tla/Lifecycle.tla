----------------------------- MODULE Lifecycle -----------------------------
(***************************************************************************)
(* The life of one tenant: modules/platform/provisioning.service.ts with   *)
(* the job queue (infra/queue.ts, worker/worker.service.ts), the lock of   *)
(* infra/redis.ts and database/tenant/tenant-migrator.ts.                  *)
(*                                                                         *)
(* Operators call the API: a call is cut between its statements, and an    *)
(* API process can stop in the middle of one.  Workers take jobs from      *)
(* BullMQ and run their steps: a run is cut between the handler of a step  *)
(* and the save of its progress, any statement may throw, and a worker may *)
(* stop anywhere.  Redis holds the lock tenant-lifecycle:<tenant> with a   *)
(* time to live, so it outlives the run of a worker that stopped.          *)
(*                                                                         *)
(* Left out: audit events, the directory cache and the sessions, which no  *)
(* step of a job reads.                                                    *)
(***************************************************************************)
EXTENDS Naturals, Sequences, FiniteSets

CONSTANTS
  Calls,       \* API calls in flight at the same time
  Workers,     \* concurrent slots of the provisioning worker
  Operations,  \* what operators ask for
  Attempts,    \* attempts of a queued job (3)
  MaxJobs,     \* bound: job rows ever inserted
  MaxStops,    \* bound: API processes that stop in the middle of a call
  MaxCrashes,  \* bound: workers that stop in the middle of a run
  MaxExpiries, \* bound: locks that expire under a live run
  LongGrace,   \* the grace period outlasts whatever else is queued (72 h by default)
  NoOne        \* no lock holder

ASSUME LifecycleAssumption ==
  /\ Attempts \in Nat \ {0} /\ MaxJobs \in Nat
  /\ MaxStops \in Nat /\ MaxCrashes \in Nat /\ MaxExpiries \in Nat /\ LongGrace \in BOOLEAN
  /\ Operations \subseteq {"create", "retry", "suspend", "activate", "schedule", "cancel",
                           "migrate", "migrateAll"}
  /\ NoOne \notin Workers

VARIABLES
  status,   \* tenants.status; "absent" before the tenant is created
  infra,    \* what exists for the tenant, and tenant_databases.status
  job,      \* tenant_provisioning_jobs
  bull,     \* the queue's entry for each job
  call,     \* API calls in flight
  worker,   \* runs in progress
  lock,     \* holder of the Redis lock
  stops, crashes, expiries

tenant == <<status, infra>>
queue  == <<job, bull>>
bounds == <<stops, crashes, expiries>>
vars   == <<status, infra, job, bull, call, worker, lock, stops, crashes, expiries>>

-----------------------------------------------------------------------------
JobIds == 1..MaxJobs
NoJob  == 0

ProvisionSteps ==
  <<"validate", "create_role", "create_database", "secure_database", "apply_migrations",
    "configure_storage", "create_tenant_admin", "send_invitation", "activate">>
DecommissionSteps ==
  <<"validate", "revoke_sessions", "close_connections", "drop_database", "drop_role",
    "delete_storage", "disable_memberships", "finalize">>

StepsOf(kind) ==
  CASE kind = "provision"    -> ProvisionSteps
    [] kind = "decommission" -> DecommissionSteps
    [] kind = "migrate"      -> <<"apply_migrations">>

Statuses == {"absent", "provisioning", "provisioning_failed", "active", "suspended",
             "decommissioning", "decommissioned"}
InfraType == [role: BOOLEAN, database: BOOLEAN, storage: BOOLEAN, admin: BOOLEAN, mailed: BOOLEAN,
              meta: {"pending", "creating", "migrating", "ready", "failed", "dropped"}]

\* done: the steps saved as done are a prefix; cancelled: last_error is
\* "Cancelled by operator"; invited: the payload's invitationSentAt is set.
Unused  == [kind |-> "none"]
Kinds   == {"provision", "decommission", "migrate"}
JobType == [kind: Kinds,
            status: {"queued", "running", "succeeded", "failed"},
            done: 0..9, cancelled: BOOLEAN, invited: BOOLEAN]

NewJob(kind, invited) ==
  [kind |-> kind, status |-> "queued", done |-> 0, cancelled |-> FALSE, invited |-> invited]

\* Rows are inserted in the order of their ids, so the latest is the greatest.
Inserted == {j \in JobIds : job[j] # Unused}
IsLatest(j, S) == j \in S /\ \A i \in S : i <= j
Insert(kind, invited) ==
  /\ Cardinality(Inserted) < MaxJobs
  /\ job' = [job EXCEPT ![Cardinality(Inserted) + 1] = NewJob(kind, invited)]
InsertedId == Cardinality(Inserted) + 1

BullType == [state: {"none", "delayed", "waiting", "active", "failed", "done"},
             tries: Nat, stalls: Nat]

\* An attempt threw: BullMQ queues the job again or gives up.
AttemptThrew(b) ==
  [b EXCEPT !.tries = @ + 1, !.state = IF b.tries + 1 >= Attempts THEN "failed" ELSE "waiting"]

NoCall == [op |-> "none"]
NoRun  == [phase |-> "none"]

-----------------------------------------------------------------------------
(* The API: each operation up to its next statement that others can see *)

Begin(c, op, r) == op \in Operations /\ call[c] = NoCall /\ call' = [call EXCEPT ![c] = r]
Continue(c, r) == call' = [call EXCEPT ![c] = r]
Return(c) == call' = [call EXCEPT ![c] = NoCall]

\* createTenant: the tenant, its database metadata and the job in one transaction.
Create(c) ==
  /\ status = "absent"
  /\ status' = "provisioning"
  /\ Insert("provision", FALSE)
  /\ Begin(c, "create", [op |-> "enqueue", job |-> InsertedId])
  /\ UNCHANGED <<infra, bull, worker, lock, bounds>>

\* enqueueProvisioning, after the commit; a decommission is delayed.
Enqueue(c) ==
  /\ call[c].op = "enqueue"
  /\ LET j == call[c].job IN
     bull' = [bull EXCEPT ![j].state = IF job[j].kind = "decommission" THEN "delayed" ELSE "waiting"]
  /\ Return(c)
  /\ UNCHANGED <<tenant, job, worker, lock, bounds>>

\* Mutant: any tenant can be retried.
RetryReadAny(c) ==
  /\ \E last \in JobIds :
       /\ IsLatest(last, {j \in Inserted : job[j].kind = "provision"})
       /\ Begin(c, "retry", [op |-> "retry", invited |-> job[last].invited])
  /\ UNCHANGED <<tenant, queue, worker, lock, bounds>>

\* retryProvisioning reads the status and the last job ...
RetryRead(c) ==
  /\ status = "provisioning_failed"
  /\ \E last \in JobIds :
       /\ IsLatest(last, {j \in Inserted : job[j].kind = "provision"})
       /\ Begin(c, "retry", [op |-> "retry", invited |-> job[last].invited])
  /\ UNCHANGED <<tenant, queue, worker, lock, bounds>>

\* ... and then inserts a job and sets the status, whatever it is by now.
RetryWrite(c) ==
  /\ call[c].op = "retry"
  /\ Insert("provision", call[c].invited)
  /\ status' = "provisioning"
  /\ Continue(c, [op |-> "enqueue", job |-> InsertedId])
  /\ UNCHANGED <<infra, bull, worker, lock, bounds>>

\* suspend and activate: one conditional statement each.
Suspend(c) ==
  /\ "suspend" \in Operations /\ call[c] = NoCall
  /\ status = "active"
  /\ status' = "suspended"
  /\ UNCHANGED <<infra, queue, call, worker, lock, bounds>>

Activate(c) ==
  /\ "activate" \in Operations /\ call[c] = NoCall
  /\ status = "suspended"
  /\ status' = "active"
  /\ UNCHANGED <<infra, queue, call, worker, lock, bounds>>

ScheduleRead(c) ==
  /\ status \in {"suspended", "provisioning_failed"}
  /\ Begin(c, "schedule", [op |-> "schedule"])
  /\ UNCHANGED <<tenant, queue, worker, lock, bounds>>

\* The transaction of scheduleDecommission does not look at the status again.
ScheduleWrite(c) ==
  /\ call[c].op = "schedule"
  /\ status' = "decommissioning"
  /\ Insert("decommission", FALSE)
  /\ Continue(c, [op |-> "enqueue", job |-> InsertedId])
  /\ UNCHANGED <<infra, bull, worker, lock, bounds>>

Cancellable == {j \in Inserted : job[j].kind = "decommission" /\ job[j].status = "queued"}

CancelRead(c) ==
  /\ \E j \in JobIds :
       IsLatest(j, Cancellable) /\ Begin(c, "cancel", [op |-> "cancel", job |-> j])
  /\ UNCHANGED <<tenant, queue, worker, lock, bounds>>

CancelStatus(c) ==
  /\ call[c].op = "cancel"
  /\ \/ /\ status = "decommissioning"
        /\ status' = "suspended"
        /\ Continue(c, [op |-> "cancelJob", job |-> call[c].job])
     \/ /\ status # "decommissioning"         \* "The tenant is not pending decommission."
        /\ status' = status
        /\ Return(c)
  /\ UNCHANGED <<infra, queue, worker, lock, bounds>>

\* The row is marked; a job that is not being run leaves the queue.
CancelJob(c) ==
  /\ call[c].op = "cancelJob"
  /\ LET j == call[c].job IN
     /\ job' = [job EXCEPT ![j].status = "failed", ![j].cancelled = TRUE]
     /\ bull' = [bull EXCEPT ![j].state = IF @ = "active" THEN @ ELSE "none"]
  /\ Return(c)
  /\ UNCHANGED <<tenant, worker, lock, bounds>>

\* enqueueTenantMigration
MigrateRead(c) ==
  /\ status \in {"active", "suspended"}
  /\ Begin(c, "migrate", [op |-> "migrate"])
  /\ UNCHANGED <<tenant, queue, worker, lock, bounds>>

MigrateWrite(c) ==
  /\ call[c].op = "migrate"
  /\ Insert("migrate", FALSE)
  /\ Continue(c, [op |-> "enqueue", job |-> InsertedId])
  /\ UNCHANGED <<tenant, bull, worker, lock, bounds>>

ApiStops(c) ==
  /\ stops < MaxStops
  /\ call[c] # NoCall
  /\ Return(c)
  /\ stops' = stops + 1
  /\ UNCHANGED <<tenant, queue, worker, lock, crashes, expiries>>

-----------------------------------------------------------------------------
(* runJob *)

DelayElapses(j) ==
  /\ bull[j].state = "delayed"
  /\ LongGrace => \A i \in JobIds : bull[i].state \notin {"waiting", "active"}
  /\ bull' = [bull EXCEPT ![j].state = "waiting"]
  /\ UNCHANGED <<tenant, job, call, worker, lock, bounds>>

\* Jobs that were completed, or cancelled before they ran.
NothingToDo(x) == x.status = "succeeded" \/ (x.kind = "decommission" /\ x.cancelled)

\* A worker takes the job and reads its row.
Pick(w, j) ==
  /\ worker[w] = NoRun /\ bull[j].state = "waiting"
  /\ \/ /\ NothingToDo(job[j])
        /\ bull' = [bull EXCEPT ![j].state = "done"]
        /\ worker' = worker
     \/ /\ ~NothingToDo(job[j])
        /\ bull' = [bull EXCEPT ![j].state = "active"]
        /\ worker' = [worker EXCEPT ![w] =
             [phase |-> "read", job |-> j, kind |-> job[j].kind, at |-> job[j].done + 1,
              invited |-> job[j].invited]]
  /\ UNCHANGED <<tenant, job, call, lock, bounds>>

\* Mutant: the lock is not asked for.
AcquireAlways(w) ==
  /\ worker[w].phase = "read"
  /\ lock' = w
  /\ job' = [job EXCEPT ![worker[w].job].status = "running", ![worker[w].job].cancelled = FALSE]
  /\ worker' = [worker EXCEPT ![w].phase = "run"]
  /\ UNCHANGED <<tenant, bull, call, bounds>>

\* acquireLock succeeds and the row is saved as running.
Acquire(w) ==
  /\ worker[w].phase = "read"
  /\ lock = NoOne
  /\ lock' = w
  /\ job' = [job EXCEPT ![worker[w].job].status = "running", ![worker[w].job].cancelled = FALSE]
  /\ worker' = [worker EXCEPT ![w].phase = "run"]
  /\ UNCHANGED <<tenant, bull, call, bounds>>

\* Somebody holds the lock: runJob throws before it has touched the row.
LockBusy(w) ==
  /\ worker[w].phase = "read"
  /\ lock # NoOne
  /\ bull' = [bull EXCEPT ![worker[w].job] = AttemptThrew(@)]
  /\ worker' = [worker EXCEPT ![w] = NoRun]
  /\ UNCHANGED <<tenant, job, call, lock, bounds>>

\* The handler that is next in the run of w.
At(w, kind, step) ==
  /\ worker[w].phase = "run"
  /\ worker[w].kind = kind
  /\ worker[w].at <= Len(StepsOf(kind))
  /\ StepsOf(kind)[worker[w].at] = step
Goto(w, phase) == worker' = [worker EXCEPT ![w].phase = phase]

\* A step that has done its work on the tenant's infrastructure.
Builds(w, kind, step, new) ==
  /\ At(w, kind, step)
  /\ infra' = new
  /\ Goto(w, "save")
  /\ UNCHANGED <<status, queue, call, lock, bounds>>

-----------------------------------------------------------------------------
(* provisionHandlers *)

Provisionable == {"provisioning", "provisioning_failed"}

ValidateProvision(w) ==
  /\ At(w, "provision", "validate")
  /\ status \in Provisionable
  /\ status' = "provisioning"
  /\ Goto(w, "save")
  /\ UNCHANGED <<infra, queue, call, lock, bounds>>

CreateRole(w) ==
  Builds(w, "provision", "create_role", [infra EXCEPT !.role = TRUE, !.meta = "creating"])
CreateDatabase(w) ==
  infra.role /\ Builds(w, "provision", "create_database", [infra EXCEPT !.database = TRUE])
SecureDatabase(w) ==
  infra.role /\ infra.database /\ Builds(w, "provision", "secure_database", infra)
ConfigureStorage(w) ==
  Builds(w, "provision", "configure_storage", [infra EXCEPT !.storage = TRUE])
CreateTenantAdmin(w) ==
  infra.database /\ Builds(w, "provision", "create_tenant_admin", [infra EXCEPT !.admin = TRUE])

\* migrateTenant, from the handlers of two kinds of job and from migrate-all.
MarkMigrating(w) ==
  /\ \E kind \in {"provision", "migrate"} : At(w, kind, "apply_migrations")
  /\ infra' = [infra EXCEPT !.meta = "migrating"]
  /\ Goto(w, "migrate")
  /\ UNCHANGED <<status, queue, call, lock, bounds>>

Migrated(w) ==
  /\ worker[w].phase = "migrate"
  /\ infra.role /\ infra.database
  /\ infra' = [infra EXCEPT !.meta = "ready"]
  /\ Goto(w, "save")
  /\ UNCHANGED <<status, queue, call, lock, bounds>>

\* Mutant: the payload says "sent" before the invitation is sent.
SendInvitationLate(w) ==
  /\ At(w, "provision", "send_invitation")
  /\ \/ worker[w].invited /\ infra' = infra /\ Goto(w, "save") /\ job' = job
     \/ /\ ~worker[w].invited
        /\ infra' = infra
        /\ job' = [job EXCEPT ![worker[w].job].invited = TRUE]
        /\ Goto(w, "mailed")
  /\ UNCHANGED <<status, bull, call, lock, bounds>>

\* Skipped if the payload the run started with says it was sent.
SendInvitation(w) ==
  /\ At(w, "provision", "send_invitation")
  /\ \/ worker[w].invited /\ infra' = infra /\ Goto(w, "save")
     \/ ~worker[w].invited /\ infra' = [infra EXCEPT !.mailed = TRUE] /\ Goto(w, "mailed")
  /\ UNCHANGED <<status, queue, call, lock, bounds>>

RecordInvitation(w) ==
  /\ worker[w].phase = "mailed"
  /\ job' = [job EXCEPT ![worker[w].job].invited = TRUE]
  /\ worker' = [worker EXCEPT ![w].phase = "save", ![w].invited = TRUE]
  /\ UNCHANGED <<tenant, bull, call, lock, bounds>>

ActivateTenant(w) ==
  /\ At(w, "provision", "activate")
  /\ status' = "active"
  /\ Goto(w, "save")
  /\ UNCHANGED <<infra, queue, call, lock, bounds>>

-----------------------------------------------------------------------------
(* decommissionHandlers *)

ValidateDecommission(w) ==
  status = "decommissioning" /\ Builds(w, "decommission", "validate", infra)

\* Sessions and pools are not part of this module.
RevokeAndClose(w) ==
  \E step \in {"revoke_sessions", "close_connections"} : Builds(w, "decommission", step, infra)

\* dropTenantDatabase: without the owner role there must be no database.
DropDatabase(w) ==
  /\ infra.role \/ ~infra.database
  /\ Builds(w, "decommission", "drop_database", [infra EXCEPT !.database = FALSE, !.meta = "dropped"])

DropRole(w) == Builds(w, "decommission", "drop_role", [infra EXCEPT !.role = FALSE])
DeleteStorage(w) == Builds(w, "decommission", "delete_storage", [infra EXCEPT !.storage = FALSE])
DisableMemberships(w) ==
  Builds(w, "decommission", "disable_memberships", [infra EXCEPT !.admin = FALSE])

Finalize(w) ==
  /\ At(w, "decommission", "finalize")
  /\ status' = "decommissioned"
  /\ Goto(w, "save")
  /\ UNCHANGED <<infra, queue, call, lock, bounds>>

-----------------------------------------------------------------------------
(* The rest of runJob: progress, success, failure *)

\* Mutant: whatever lock there is.
ReleaseAny(w) == lock' = NoOne

\* The lock is deleted only if it still has the token of this run.
Release(w) == lock' = IF lock = w THEN NoOne ELSE lock

\* Mutant: the step after the next one is next.
SaveStepSkipping(w) ==
  /\ worker[w].phase = "save"
  /\ job' = [job EXCEPT ![worker[w].job].done = worker[w].at]
  /\ worker' = [worker EXCEPT ![w].phase = "run", ![w].at = @ + 2]
  /\ UNCHANGED <<tenant, bull, call, lock, bounds>>

SaveStep(w) ==
  /\ worker[w].phase = "save"
  /\ job' = [job EXCEPT ![worker[w].job].done = worker[w].at]
  /\ worker' = [worker EXCEPT ![w].phase = "run", ![w].at = @ + 1]
  /\ UNCHANGED <<tenant, bull, call, lock, bounds>>

Succeed(w) ==
  /\ worker[w].phase = "run"
  /\ worker[w].at > Len(StepsOf(worker[w].kind))
  /\ job' = [job EXCEPT ![worker[w].job].status = "succeeded"]
  /\ bull' = [bull EXCEPT ![worker[w].job].state = "done"]
  /\ worker' = [worker EXCEPT ![w] = NoRun]
  /\ Release(w)
  /\ UNCHANGED <<tenant, call, bounds>>

\* Mutant: the step that threw is saved as done.
FailedRowDone(x, final) ==
  [x EXCEPT !.status = IF final THEN "failed" ELSE "queued", !.cancelled = FALSE,
            !.done = IF @ < Len(StepsOf(x.kind)) THEN @ + 1 ELSE @]

\* The row of a job whose attempt threw.
FailedRow(x, final) ==
  [x EXCEPT !.status = IF final THEN "failed" ELSE "queued", !.cancelled = FALSE]

\* Mutant: one attempt more is expected than BullMQ makes.
IsFinalLate(j) == bull[j].tries >= Attempts

IsFinal(j) == bull[j].tries + 1 >= Attempts

\* Any statement may throw; a migration that throws is recorded as failed.
\* The row is saved; the last attempt at provisioning also marks the tenant.
Throw(w) ==
  LET r == worker[w]
      marks == IsFinal(r.job) /\ r.kind = "provision"
  IN
  /\ r.phase \in {"run", "save", "mailed", "migrate"}
  /\ infra' = IF r.phase = "migrate" THEN [infra EXCEPT !.meta = "failed"] ELSE infra
  /\ job' = [job EXCEPT ![r.job] = FailedRow(@, IsFinal(r.job))]
  /\ Goto(w, IF marks THEN "failing" ELSE "thrown")
  /\ IF marks THEN lock' = lock ELSE Release(w)
  /\ UNCHANGED <<status, bull, call, bounds>>

MarkFailed(w) ==
  /\ worker[w].phase = "failing"
  /\ status' = "provisioning_failed"
  /\ infra' = [infra EXCEPT !.meta = IF @ = "creating" THEN "failed" ELSE @]
  /\ Goto(w, "thrown")
  /\ Release(w)
  /\ UNCHANGED <<queue, call, bounds>>

\* The exception reaches BullMQ.
Thrown(w) ==
  /\ worker[w].phase = "thrown"
  /\ bull' = [bull EXCEPT ![worker[w].job] = AttemptThrew(@)]
  /\ worker' = [worker EXCEPT ![w] = NoRun]
  /\ UNCHANGED <<tenant, job, call, lock, bounds>>

-----------------------------------------------------------------------------
(* migrateAll: no job row and no lock *)

MigrateAllPick(w) ==
  /\ "migrateAll" \in Operations
  /\ worker[w] = NoRun
  /\ infra.meta \in {"ready", "failed", "migrating"}
  /\ worker' = [worker EXCEPT ![w] = [phase |-> "allMark"]]
  /\ UNCHANGED <<tenant, queue, call, lock, bounds>>

MigrateAllMark(w) ==
  /\ worker[w].phase = "allMark"
  /\ infra' = [infra EXCEPT !.meta = "migrating"]
  /\ worker' = [worker EXCEPT ![w] = [phase |-> "allApply"]]
  /\ UNCHANGED <<status, queue, call, lock, bounds>>

MigrateAllApply(w) ==
  /\ worker[w].phase = "allApply"
  /\ \/ infra.role /\ infra.database /\ infra' = [infra EXCEPT !.meta = "ready"]
     \/ infra' = [infra EXCEPT !.meta = "failed"]
  /\ worker' = [worker EXCEPT ![w] = NoRun]
  /\ UNCHANGED <<status, queue, call, lock, bounds>>

-----------------------------------------------------------------------------
(* Stops, stalls and time *)

WorkerStops(w) ==
  /\ crashes < MaxCrashes
  /\ worker[w] # NoRun
  /\ worker' = [worker EXCEPT ![w] = NoRun]
  /\ crashes' = crashes + 1
  /\ UNCHANGED <<tenant, queue, call, lock, stops, expiries>>

RunsJob(w, j) == worker[w].phase \in {"read", "run", "save", "mailed", "migrate", "failing", "thrown"}
                 /\ worker[w].job = j

\* The run of w is between acquireLock and release.
Holds(w) == worker[w].phase \in {"run", "save", "mailed", "migrate", "failing"}

\* BullMQ sees that nobody runs an active job: it is queued again once, the
\* next time it is given up.
Stalled(j) ==
  /\ bull[j].state = "active"
  /\ \A w \in Workers : ~RunsJob(w, j)
  /\ bull' = [bull EXCEPT ![j].stalls = @ + 1,
                          ![j].state = IF bull[j].stalls >= 1 THEN "failed" ELSE "waiting"]
  /\ UNCHANGED <<tenant, job, call, worker, lock, bounds>>

\* maintenance: a job that has been running for an hour without a save.  The
\* lock of a run that stopped that long ago has expired.
TimeOutJob(j) ==
  /\ job[j] # Unused /\ job[j].status = "running"
  /\ \A w \in Workers : ~RunsJob(w, j)
  /\ lock # NoOne => Holds(lock)
  /\ job' = [job EXCEPT ![j].status = "failed", ![j].cancelled = FALSE]
  /\ UNCHANGED <<tenant, bull, call, worker, lock, bounds>>

\* The time to live of a lock whose holder has stopped runs out ...
OrphanExpires ==
  /\ lock # NoOne /\ ~Holds(lock)
  /\ lock' = NoOne
  /\ UNCHANGED <<tenant, queue, call, worker, bounds>>

\* ... or that of a run that takes longer than 15 minutes.
LockExpires ==
  /\ expiries < MaxExpiries
  /\ lock # NoOne /\ Holds(lock)
  /\ lock' = NoOne
  /\ expiries' = expiries + 1
  /\ UNCHANGED <<tenant, queue, call, worker, stops, crashes>>

-----------------------------------------------------------------------------
Init ==
  /\ status = "absent"
  /\ infra = [role |-> FALSE, database |-> FALSE, storage |-> FALSE, admin |-> FALSE,
              mailed |-> FALSE, meta |-> "pending"]
  /\ job = [j \in JobIds |-> Unused]
  /\ bull = [j \in JobIds |-> [state |-> "none", tries |-> 0, stalls |-> 0]]
  /\ call = [c \in Calls |-> NoCall]
  /\ worker = [w \in Workers |-> NoRun]
  /\ lock = NoOne
  /\ stops = 0 /\ crashes = 0 /\ expiries = 0

Ask(c) ==
  \/ Create(c) \/ RetryRead(c) \/ Suspend(c) \/ Activate(c) \/ ScheduleRead(c)
  \/ CancelRead(c) \/ MigrateRead(c)

Answer(c) ==
  Enqueue(c) \/ RetryWrite(c) \/ ScheduleWrite(c) \/ CancelStatus(c) \/ CancelJob(c) \/ MigrateWrite(c)

Handler(w) ==
  \/ ValidateProvision(w) \/ CreateRole(w) \/ CreateDatabase(w) \/ SecureDatabase(w)
  \/ MarkMigrating(w) \/ Migrated(w) \/ ConfigureStorage(w) \/ CreateTenantAdmin(w)
  \/ SendInvitation(w) \/ RecordInvitation(w) \/ ActivateTenant(w)
  \/ ValidateDecommission(w) \/ RevokeAndClose(w) \/ DropDatabase(w) \/ DropRole(w)
  \/ DeleteStorage(w) \/ DisableMemberships(w) \/ Finalize(w)

Work(w) ==
  \/ Acquire(w) \/ LockBusy(w) \/ Handler(w) \/ SaveStep(w) \/ Succeed(w) \/ Throw(w)
  \/ MarkFailed(w) \/ Thrown(w) \/ MigrateAllMark(w) \/ MigrateAllApply(w)

Next ==
  \/ \E c \in Calls : Ask(c) \/ Answer(c) \/ ApiStops(c)
  \/ \E j \in JobIds : DelayElapses(j) \/ Stalled(j) \/ TimeOutJob(j) \/ \E w \in Workers : Pick(w, j)
  \/ \E w \in Workers : Work(w) \/ MigrateAllPick(w) \/ WorkerStops(w)
  \/ OrphanExpires \/ LockExpires

Spec == Init /\ [][Next]_vars

\* Calls and runs go on, the queue is served in order, time passes.
Fairness ==
  /\ \A c \in Calls : WF_vars(Answer(c))
  /\ \A w \in Workers : WF_vars(Work(w))
  /\ \A j \in JobIds :
       SF_vars(\E w \in Workers : Pick(w, j)) /\ WF_vars(DelayElapses(j)) /\ WF_vars(Stalled(j))
  /\ WF_vars(OrphanExpires)

FairSpec == Spec /\ Fairness

-----------------------------------------------------------------------------
(* Correctness *)

CallType ==
  {NoCall, [op |-> "schedule"], [op |-> "migrate"]}
  \cup [op: {"enqueue", "cancel", "cancelJob"}, job: JobIds]
  \cup [op: {"retry"}, invited: BOOLEAN]
RunType ==
  [phase: {"none", "allMark", "allApply"}]
  \cup [phase: {"read", "run", "failing", "thrown"}, job: JobIds,
        kind: Kinds, at: 1..10, invited: BOOLEAN]
  \cup [phase: {"save", "mailed", "migrate"}, job: JobIds,
        kind: Kinds, at: 1..9, invited: BOOLEAN]

TypeOK ==
  /\ status \in Statuses /\ infra \in InfraType
  /\ job \in [JobIds -> JobType \cup {Unused}] /\ bull \in [JobIds -> BullType]
  /\ call \in [Calls -> CallType] /\ worker \in [Workers -> RunType]
  /\ lock \in Workers \cup {NoOne}
  /\ stops \in 0..MaxStops /\ crashes \in 0..MaxCrashes /\ expiries \in 0..MaxExpiries

\* "A Redis lock prevents two workers running lifecycle jobs for the same
\* tenant" (docs/TENANCY.md:96), stops and stalled jobs included.
OneRunAtATime == \A v, w \in Workers : Holds(v) /\ Holds(w) => v = w

\* The lock has a time to live, and a run that takes longer loses it: only
\* then.  A run that ends after that leaves the lock of the next one alone.
LostOnlyByExpiry ==
  [][\A w \in Workers : lock = w /\ Holds(w) /\ Holds(w)' => lock' = w \/ expiries' > expiries]_vars

\* "A tenant only becomes active after every step succeeds, so partially
\* initialized tenants are never reachable" (provisioning.service.ts:95): an
\* active or suspended tenant, which users or support staff can enter, has its
\* database, its role, its storage and an owner who was sent an invitation.
ReachableIsComplete ==
  status \in {"active", "suspended"} =>
    infra.role /\ infra.database /\ infra.storage /\ infra.admin /\ infra.mailed

\* Nothing is left of a decommissioned tenant, and nothing is built again.
GoneIsGone ==
  status = "decommissioned" =>
    ~infra.role /\ ~infra.database /\ ~infra.storage /\ ~infra.admin

\* A tenant whose provisioning has succeeded is never provisioned again or
\* marked as failed, however often provisioning was asked for and retried.
SucceededStaysProvisioned ==
  (\E j \in Inserted : job[j].kind = "provision" /\ job[j].status = "succeeded") =>
    status \notin {"provisioning", "provisioning_failed"}

\* Provisioning ends, with success or with a failure the operator can see and
\* retry: a tenant does not stay "provisioning", which only its job can leave.
ProvisioningSettles == status = "provisioning" ~> status # "provisioning"
=============================================================================
