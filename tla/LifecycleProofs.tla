-------------------------- MODULE LifecycleProofs --------------------------
(***************************************************************************)
(* Theorems about Lifecycle, for any number of calls, workers, jobs,       *)
(* attempts, stops, crashes and expiries.                                  *)
(***************************************************************************)
EXTENDS Lifecycle, FiniteSetTheorems, TLAPS

(***************************************************************************)
(* Type correctness                                                        *)
(***************************************************************************)

\* The next job id is a row of the table.
LEMMA InsertedIdType ==
  ASSUME Cardinality(Inserted) < MaxJobs
  PROVE  InsertedId \in JobIds
  <1>1. IsFiniteSet(JobIds)
    BY FS_Interval, LifecycleAssumption DEF JobIds
  <1>2. IsFiniteSet(Inserted)
    BY <1>1, FS_Subset DEF Inserted
  <1>3. Cardinality(Inserted) \in Nat
    BY <1>2, FS_CardinalityType
  <1>4. QED
    BY <1>3, LifecycleAssumption DEF InsertedId, JobIds

\* Inserting a job keeps the type of the table.
LEMMA InsertType ==
  ASSUME TypeOK, NEW kind \in Kinds, NEW invited \in BOOLEAN, Insert(kind, invited)
  PROVE  job' \in [JobIds -> JobType \cup {Unused}] /\ InsertedId \in JobIds
  <1>1. InsertedId \in JobIds
    BY InsertedIdType DEF Insert
  <1>2. NewJob(kind, invited) \in JobType
    BY DEF NewJob, JobType
  <1>3. QED
    BY <1>1, <1>2 DEF Insert, InsertedId, TypeOK

\* No handler is beyond the ninth step.
LEMMA StepsBound == \A kind \in Kinds : Len(StepsOf(kind)) \in 0..9
  BY DEF Kinds, StepsOf, ProvisionSteps, DecommissionSteps

WithJob == {"read", "run", "failing", "thrown", "save", "mailed", "migrate"}

\* What a run carries while it has a job.
LEMMA RunFields ==
  ASSUME TypeOK, NEW w \in Workers, worker[w].phase \in WithJob
  PROVE  /\ worker[w].job \in JobIds /\ worker[w].kind \in Kinds
         /\ worker[w].at \in 1..10 /\ worker[w].invited \in BOOLEAN
         /\ worker[w].phase \in {"save", "mailed", "migrate"} => worker[w].at \in 1..9
  <1>1. worker[w] \in RunType
    BY DEF TypeOK
  <1>2. QED
    BY <1>1 DEF RunType, WithJob

\* A run that goes on to another phase is still a run.
LEMMA RunMoves ==
  ASSUME TypeOK, NEW w \in Workers, worker[w].phase \in WithJob
  PROVE  /\ \A p \in {"read", "run", "failing", "thrown"} : [worker[w] EXCEPT !.phase = p] \in RunType
         /\ worker[w].at \in 1..9 =>
              \A p \in {"save", "mailed", "migrate"} : [worker[w] EXCEPT !.phase = p] \in RunType
  <1>1. worker[w] \in RunType
    BY DEF TypeOK
  <1>2. QED
    BY <1>1 DEF RunType, WithJob

\* The run of a worker that is at a handler.
LEMMA AtType ==
  ASSUME TypeOK, NEW w \in Workers, NEW kind \in Kinds, NEW step, At(w, kind, step)
  PROVE  worker[w].phase \in WithJob /\ worker[w].phase = "run" /\ worker[w].at \in 1..9
  <1>1. worker[w].phase = "run" /\ worker[w].phase \in WithJob
    BY DEF At, WithJob
  <1>2. worker[w].at \in 1..10
    BY <1>1, RunFields
  <1>3. PICK n \in 0..9 : n = Len(StepsOf(kind))
    BY StepsBound
  <1>4. worker[w].at <= n
    BY <1>3 DEF At
  <1>5. worker[w].at \in 1..9
    BY <1>2, <1>3, <1>4
  <1>6. QED
    BY <1>1, <1>5

\* Going on to phase p: the runs stay well typed.
LEMMA GotoType ==
  ASSUME TypeOK, NEW w \in Workers, NEW p, Goto(w, p), worker[w].phase \in WithJob,
         \/ p \in {"read", "run", "failing", "thrown"}
         \/ p \in {"save", "mailed", "migrate"} /\ worker[w].at \in 1..9
  PROVE  worker' \in [Workers -> RunType]
  BY RunMoves DEF Goto, TypeOK

\* A step of the infrastructure.
LEMMA BuildsType ==
  ASSUME TypeOK, NEW w \in Workers, NEW kind \in Kinds, NEW step, NEW new \in InfraType,
         Builds(w, kind, step, new)
  PROVE  TypeOK'
  <1>1. worker' \in [Workers -> RunType]
    BY AtType, GotoType DEF Builds
  <1>2. QED
    BY <1>1 DEF Builds, TypeOK, bounds, queue

\* Calls of the API, their statements and their stops.
LEMMA AnswersType ==
  ASSUME TypeOK, NEW c \in Calls, Ask(c) \/ Answer(c) \/ ApiStops(c)
  PROVE  TypeOK'
<1> USE DEF tenant, queue, bounds
<1>1. CASE Create(c)
  <2>1. job' \in [JobIds -> JobType \cup {Unused}] /\ InsertedId \in JobIds
    BY <1>1, InsertType DEF Create, Kinds
  <2>2. QED
    BY <1>1, <2>1 DEF Create, Begin, TypeOK, CallType, Statuses
<1>2. CASE RetryRead(c)
  <2>1. PICK last \in JobIds :
          /\ last \in Inserted
          /\ call' = [call EXCEPT ![c] = [op |-> "retry", invited |-> job[last].invited]]
    BY <1>2 DEF RetryRead, IsLatest, Begin
  <2>2. job[last] \in JobType
    BY <2>1 DEF TypeOK, Inserted
  <2>3. job[last].invited \in BOOLEAN
    BY <2>2 DEF JobType
  <2>4. QED
    BY <1>2, <2>1, <2>3 DEF RetryRead, TypeOK, CallType
<1>3. CASE Suspend(c)
  BY <1>3 DEF Suspend, TypeOK, Statuses
<1>4. CASE Activate(c)
  BY <1>4 DEF Activate, TypeOK, Statuses
<1>5. CASE ScheduleRead(c)
  BY <1>5 DEF ScheduleRead, Begin, TypeOK, CallType
<1>6. CASE CancelRead(c)
  <2>1. PICK j \in JobIds : call' = [call EXCEPT ![c] = [op |-> "cancel", job |-> j]]
    BY <1>6 DEF CancelRead, Begin
  <2>2. QED
    BY <1>6, <2>1 DEF CancelRead, TypeOK, CallType
<1>7. CASE MigrateRead(c)
  BY <1>7 DEF MigrateRead, Begin, TypeOK, CallType
<1>8. CASE Enqueue(c)
  <2>1. bull' \in [JobIds -> BullType]
    BY <1>8 DEF Enqueue, TypeOK, BullType
  <2>2. QED
    BY <1>8, <2>1 DEF Enqueue, Return, TypeOK, CallType, NoCall
<1>9. CASE RetryWrite(c)
  <2>1. call[c] \in CallType /\ call[c].op = "retry"
    BY <1>9 DEF TypeOK, RetryWrite
  <2>2. call[c].invited \in BOOLEAN
    BY <2>1 DEF CallType, NoCall
  <2>3. job' \in [JobIds -> JobType \cup {Unused}] /\ InsertedId \in JobIds
    BY <1>9, <2>2, InsertType DEF RetryWrite, Kinds
  <2>4. QED
    BY <1>9, <2>3 DEF RetryWrite, Continue, TypeOK, CallType, Statuses
<1>10. CASE ScheduleWrite(c)
  <2>1. job' \in [JobIds -> JobType \cup {Unused}] /\ InsertedId \in JobIds
    BY <1>10, InsertType DEF ScheduleWrite, Kinds
  <2>2. QED
    BY <1>10, <2>1 DEF ScheduleWrite, Continue, TypeOK, CallType, Statuses
<1>11. CASE CancelStatus(c)
  <2>1. call[c] \in CallType /\ call[c].op = "cancel"
    BY <1>11 DEF TypeOK, CancelStatus
  <2>2. call[c].job \in JobIds
    BY <2>1 DEF CallType, NoCall
  <2>3. QED
    BY <1>11, <2>2 DEF CancelStatus, Continue, Return, TypeOK, CallType, NoCall, Statuses
<1>12. CASE CancelJob(c)
  <2>1. job' \in [JobIds -> JobType \cup {Unused}]
    BY <1>12 DEF CancelJob, TypeOK, JobType, Unused
  <2>2. bull' \in [JobIds -> BullType]
    BY <1>12 DEF CancelJob, TypeOK, BullType
  <2>3. QED
    BY <1>12, <2>1, <2>2 DEF CancelJob, Return, TypeOK, CallType, NoCall
<1>13. CASE MigrateWrite(c)
  <2>1. job' \in [JobIds -> JobType \cup {Unused}] /\ InsertedId \in JobIds
    BY <1>13, InsertType DEF MigrateWrite, Kinds
  <2>2. QED
    BY <1>13, <2>1 DEF MigrateWrite, Continue, TypeOK, CallType
<1>14. CASE ApiStops(c)
  BY <1>14, LifecycleAssumption DEF ApiStops, Return, TypeOK, CallType, NoCall
<1>15. QED
  BY <1>1, <1>2, <1>3, <1>4, <1>5, <1>6, <1>7, <1>8, <1>9, <1>10, <1>11, <1>12, <1>13, <1>14
     DEF Ask, Answer

(***************************************************************************)
(* The steps of a run                                                      *)
(***************************************************************************)

\* The handlers of both kinds of job, and of a migration.
LEMMA HandlerType ==
  ASSUME TypeOK, NEW w \in Workers, Handler(w)
  PROVE  TypeOK'
<1> USE DEF tenant, queue, bounds
<1> infra \in InfraType
  BY DEF TypeOK
<1>1. CASE ValidateProvision(w)
  <2>1. worker' \in [Workers -> RunType]
    BY <1>1, AtType, GotoType DEF ValidateProvision, Kinds
  <2>2. QED
    BY <1>1, <2>1 DEF ValidateProvision, TypeOK, Statuses
<1>2. CASE CreateRole(w)
  BY <1>2, BuildsType DEF CreateRole, InfraType, Kinds
<1>3. CASE CreateDatabase(w)
  BY <1>3, BuildsType DEF CreateDatabase, InfraType, Kinds
<1>4. CASE SecureDatabase(w)
  BY <1>4, BuildsType DEF SecureDatabase, Kinds
<1>5. CASE MarkMigrating(w)
  <2>1. worker' \in [Workers -> RunType]
    BY <1>5, AtType, GotoType DEF MarkMigrating, Kinds
  <2>2. QED
    BY <1>5, <2>1 DEF MarkMigrating, TypeOK, InfraType
<1>6. CASE Migrated(w)
  <2>1. worker[w].phase \in WithJob /\ worker[w].phase = "migrate"
    BY <1>6 DEF Migrated, WithJob
  <2>2. worker[w].at \in 1..9
    BY <2>1, RunFields
  <2>3. worker' \in [Workers -> RunType]
    BY <1>6, <2>1, <2>2, GotoType DEF Migrated
  <2>4. QED
    BY <1>6, <2>3 DEF Migrated, TypeOK, InfraType
<1>7. CASE ConfigureStorage(w)
  BY <1>7, BuildsType DEF ConfigureStorage, InfraType, Kinds
<1>8. CASE CreateTenantAdmin(w)
  BY <1>8, BuildsType DEF CreateTenantAdmin, InfraType, Kinds
<1>9. CASE SendInvitation(w)
  <2>1. worker[w].phase \in WithJob /\ worker[w].at \in 1..9
    BY <1>9, AtType DEF SendInvitation, Kinds
  <2>2. worker' \in [Workers -> RunType]
    BY <1>9, <2>1, GotoType DEF SendInvitation
  <2>3. QED
    BY <1>9, <2>2 DEF SendInvitation, TypeOK, InfraType
<1>10. CASE RecordInvitation(w)
  <2>1. worker[w].phase \in WithJob /\ worker[w].phase = "mailed"
    BY <1>10 DEF RecordInvitation, WithJob
  <2>2. worker[w].at \in 1..9 /\ worker[w] \in RunType
    BY <2>1, RunFields DEF TypeOK
  <2>3. [worker[w] EXCEPT !.phase = "save", !.invited = TRUE] \in RunType
    BY <2>1, <2>2 DEF RunType
  <2>4. worker' \in [Workers -> RunType]
    BY <1>10, <2>3 DEF RecordInvitation, TypeOK
  <2>5. job' \in [JobIds -> JobType \cup {Unused}]
    BY <1>10 DEF RecordInvitation, TypeOK, JobType, Unused
  <2>6. QED
    BY <1>10, <2>4, <2>5 DEF RecordInvitation, TypeOK
<1>11. CASE ActivateTenant(w)
  <2>1. worker' \in [Workers -> RunType]
    BY <1>11, AtType, GotoType DEF ActivateTenant, Kinds
  <2>2. QED
    BY <1>11, <2>1 DEF ActivateTenant, TypeOK, Statuses
<1>12. CASE ValidateDecommission(w)
  BY <1>12, BuildsType DEF ValidateDecommission, Kinds
<1>13. CASE RevokeAndClose(w)
  BY <1>13, BuildsType DEF RevokeAndClose, Kinds
<1>14. CASE DropDatabase(w)
  BY <1>14, BuildsType DEF DropDatabase, InfraType, Kinds
<1>15. CASE DropRole(w)
  BY <1>15, BuildsType DEF DropRole, InfraType, Kinds
<1>16. CASE DeleteStorage(w)
  BY <1>16, BuildsType DEF DeleteStorage, InfraType, Kinds
<1>17. CASE DisableMemberships(w)
  BY <1>17, BuildsType DEF DisableMemberships, InfraType, Kinds
<1>18. CASE Finalize(w)
  <2>1. worker' \in [Workers -> RunType]
    BY <1>18, AtType, GotoType DEF Finalize, Kinds
  <2>2. QED
    BY <1>18, <2>1 DEF Finalize, TypeOK, Statuses
<1>19. QED
  BY <1>1, <1>2, <1>3, <1>4, <1>5, <1>6, <1>7, <1>8, <1>9, <1>10, <1>11, <1>12, <1>13, <1>14,
     <1>15, <1>16, <1>17, <1>18 DEF Handler

\* The queue's entry after an attempt that threw.
LEMMA AttemptThrewType ==
  ASSUME NEW b \in BullType
  PROVE  AttemptThrew(b) \in BullType
  <1>1. b.tries + 1 \in Nat
    BY DEF BullType
  <1>2. QED
    BY <1>1 DEF AttemptThrew, BullType

\* Taking a job, the rest of a run, migrate-all, and workers that stop.
LEMMA RunStepType ==
  ASSUME TypeOK, NEW w \in Workers,
         \/ Acquire(w) \/ LockBusy(w) \/ SaveStep(w) \/ Succeed(w) \/ Throw(w) \/ MarkFailed(w)
         \/ Thrown(w) \/ MigrateAllPick(w) \/ MigrateAllMark(w) \/ MigrateAllApply(w)
         \/ WorkerStops(w)
  PROVE  TypeOK'
<1> USE DEF tenant, queue, bounds
<1>0. worker[w] \in RunType /\ NoRun \in RunType
  BY DEF TypeOK, RunType, NoRun
<1>1. CASE Acquire(w)
  <2>1. worker' \in [Workers -> RunType]
    BY <1>1, RunMoves DEF Acquire, TypeOK, WithJob
  <2>2. job' \in [JobIds -> JobType \cup {Unused}]
    BY <1>1 DEF Acquire, TypeOK, JobType, Unused
  <2>3. QED
    BY <1>1, <2>1, <2>2 DEF Acquire, TypeOK
<1>2. CASE LockBusy(w)
  <2>1. bull' \in [JobIds -> BullType]
    BY <1>2, AttemptThrewType DEF LockBusy, TypeOK
  <2>2. QED
    BY <1>0, <1>2, <2>1 DEF LockBusy, TypeOK
<1>3. CASE SaveStep(w)
  <2>1. worker[w].phase \in WithJob /\ worker[w].phase = "save"
    BY <1>3 DEF SaveStep, WithJob
  <2>2. worker[w].at \in 1..9
    BY <2>1, RunFields
  <2>3. worker[w].at + 1 \in 1..10 /\ worker[w].at \in 0..9
    BY <2>2
  <2>4. [worker[w] EXCEPT !.phase = "run", !.at = worker[w].at + 1] \in RunType
    BY <1>0, <2>1, <2>3 DEF RunType
  <2>5. worker' \in [Workers -> RunType]
    BY <1>3, <2>4 DEF SaveStep, TypeOK
  <2>6. job' \in [JobIds -> JobType \cup {Unused}]
    BY <1>3, <2>3 DEF SaveStep, TypeOK, JobType, Unused
  <2>7. QED
    BY <1>3, <2>5, <2>6 DEF SaveStep, TypeOK
<1>4. CASE Succeed(w)
  <2>1. job' \in [JobIds -> JobType \cup {Unused}]
    BY <1>4 DEF Succeed, TypeOK, JobType, Unused
  <2>2. bull' \in [JobIds -> BullType]
    BY <1>4 DEF Succeed, TypeOK, BullType
  <2>3. QED
    BY <1>0, <1>4, <2>1, <2>2 DEF Succeed, Release, TypeOK
<1>5. CASE Throw(w)
  <2>1. worker[w].phase \in WithJob /\ worker[w].phase \in {"run", "save", "mailed", "migrate"}
    BY <1>5 DEF Throw, WithJob
  <2>2. worker' \in [Workers -> RunType]
    <3>1. Goto(w, "failing") \/ Goto(w, "thrown")
      BY <1>5 DEF Throw
    <3>2. QED
      BY <2>1, <3>1, GotoType
  <2>3. job' \in [JobIds -> JobType \cup {Unused}]
    <3>1. \A x \in JobType \cup {Unused}, final \in BOOLEAN : FailedRow(x, final) \in JobType \cup {Unused}
      BY DEF FailedRow, JobType, Unused
    <3>2. IsFinal(worker[w].job) \in BOOLEAN
      BY DEF IsFinal
    <3>3. worker[w].job \in JobIds
      BY <2>1, RunFields
    <3>4. job' = [job EXCEPT ![worker[w].job] = FailedRow(job[worker[w].job], IsFinal(worker[w].job))]
      BY <1>5 DEF Throw
    <3>5. QED
      BY <3>1, <3>2, <3>3, <3>4 DEF TypeOK
  <2>4. infra' \in InfraType
    BY <1>5 DEF Throw, TypeOK, InfraType
  <2>5. lock' \in Workers \cup {NoOne}
    BY <1>5 DEF Throw, Release, TypeOK
  <2>6. QED
    BY <1>5, <2>2, <2>3, <2>4, <2>5 DEF Throw, TypeOK
<1>6. CASE MarkFailed(w)
  <2>1. worker' \in [Workers -> RunType]
    BY <1>6, GotoType DEF MarkFailed, WithJob
  <2>2. infra' \in InfraType
    BY <1>6 DEF MarkFailed, TypeOK, InfraType
  <2>3. QED
    BY <1>6, <2>1, <2>2 DEF MarkFailed, Release, TypeOK, Statuses
<1>7. CASE Thrown(w)
  <2>1. bull' \in [JobIds -> BullType]
    BY <1>7, AttemptThrewType DEF Thrown, TypeOK
  <2>2. QED
    BY <1>0, <1>7, <2>1 DEF Thrown, TypeOK
<1>8. CASE MigrateAllPick(w)
  BY <1>8 DEF MigrateAllPick, TypeOK, RunType
<1>9. CASE MigrateAllMark(w)
  BY <1>9 DEF MigrateAllMark, TypeOK, RunType, InfraType
<1>10. CASE MigrateAllApply(w)
  BY <1>0, <1>10 DEF MigrateAllApply, TypeOK, InfraType
<1>11. CASE WorkerStops(w)
  BY <1>0, <1>11, LifecycleAssumption DEF WorkerStops, TypeOK
<1>12. QED
  BY <1>1, <1>2, <1>3, <1>4, <1>5, <1>6, <1>7, <1>8, <1>9, <1>10, <1>11

\* A queue entry belongs to a row of the table, and so do the calls that will
\* make one and the runs that came from one.  Without this the worker would
\* read the fields of a row that does not exist.
RowsExist ==
  /\ \A j \in JobIds : bull[j].state # "none" => job[j] \in JobType
  /\ \A c \in Calls : call[c].op = "enqueue" => job[call[c].job] \in JobType
  /\ \A w \in Workers : worker[w].phase \in WithJob => job[worker[w].job] \in JobType

\* The queue's own steps and the passing of time.
LEMMA QueueType ==
  ASSUME TypeOK, RowsExist,
         \/ \E j \in JobIds : \/ DelayElapses(j) \/ Stalled(j) \/ TimeOutJob(j)
                              \/ \E w \in Workers : Pick(w, j)
         \/ OrphanExpires \/ LockExpires
  PROVE  TypeOK'
<1> USE DEF tenant, queue, bounds
<1>1. ASSUME NEW j \in JobIds, DelayElapses(j)
      PROVE  TypeOK'
  <2>1. bull' \in [JobIds -> BullType]
    BY <1>1 DEF DelayElapses, TypeOK, BullType
  <2>2. QED
    BY <1>1, <2>1 DEF DelayElapses, TypeOK
<1>2. ASSUME NEW j \in JobIds, Stalled(j)
      PROVE  TypeOK'
  <2>1. bull' \in [JobIds -> BullType]
    BY <1>2 DEF Stalled, TypeOK, BullType
  <2>2. QED
    BY <1>2, <2>1 DEF Stalled, TypeOK
<1>3. ASSUME NEW j \in JobIds, TimeOutJob(j)
      PROVE  TypeOK'
  <2>1. job' \in [JobIds -> JobType \cup {Unused}]
    BY <1>3 DEF TimeOutJob, TypeOK, JobType, Unused
  <2>2. QED
    BY <1>3, <2>1 DEF TimeOutJob, TypeOK
<1>4. ASSUME NEW j \in JobIds, NEW w \in Workers, Pick(w, j)
      PROVE  TypeOK'
  <2>1. job[j] \in JobType
    BY <1>4 DEF Pick, RowsExist
  <2>2. job[j].done + 1 \in 1..10 /\ job[j].kind \in Kinds /\ job[j].invited \in BOOLEAN
    BY <2>1 DEF JobType
  <2>3. [phase |-> "read", job |-> j, kind |-> job[j].kind, at |-> job[j].done + 1,
         invited |-> job[j].invited] \in RunType
    BY <2>2 DEF RunType
  <2>4. worker' \in [Workers -> RunType]
    BY <1>4, <2>3 DEF Pick, TypeOK
  <2>5. bull' \in [JobIds -> BullType]
    BY <1>4 DEF Pick, TypeOK, BullType
  <2>6. QED
    BY <1>4, <2>4, <2>5 DEF Pick, TypeOK
<1>5. CASE OrphanExpires
  BY <1>5 DEF OrphanExpires, TypeOK
<1>6. CASE LockExpires
  BY <1>6, LifecycleAssumption DEF LockExpires, TypeOK
<1>7. QED
  BY <1>1, <1>2, <1>3, <1>4, <1>5, <1>6

(***************************************************************************)
(* The strengthening is kept                                               *)
(***************************************************************************)

\* Rows are inserted and changed, never removed.
LEMMA InsertKeepsRows ==
  ASSUME TypeOK, NEW kind \in Kinds, NEW invited \in BOOLEAN, Insert(kind, invited)
  PROVE  /\ \A j \in JobIds : job[j] \in JobType => job'[j] \in JobType
         /\ InsertedId \in JobIds /\ job'[InsertedId] \in JobType
  <1>1. InsertedId \in JobIds
    BY InsertedIdType DEF Insert
  <1>2. NewJob(kind, invited) \in JobType
    BY DEF NewJob, JobType
  <1>3. QED
    BY <1>1, <1>2 DEF Insert, InsertedId, TypeOK

\* The strengthening after a step that adds no entry, no call that will make
\* one and no run that has a job.
LEMMA NothingNew ==
  ASSUME RowsExist, TypeOK,
         \A j \in JobIds : job[j] \in JobType => job'[j] \in JobType,
         \A j \in JobIds : bull'[j].state # "none" => bull[j].state # "none" \/ job[j] \in JobType,
         \A c \in Calls : call'[c].op = "enqueue" =>
           call'[c] = call[c] \/ job'[call'[c].job] \in JobType,
         \A w \in Workers : worker'[w].phase \in WithJob =>
           worker[w].phase \in WithJob /\ worker'[w].job = worker[w].job
  PROVE  RowsExist'
  <1>1. \A j \in JobIds : bull'[j].state # "none" => job'[j] \in JobType
    BY DEF RowsExist
  <1>2. \A c \in Calls : call[c].op = "enqueue" => call[c].job \in JobIds
    BY DEF TypeOK, CallType, NoCall
  <1>3. \A c \in Calls : call'[c].op = "enqueue" => job'[call'[c].job] \in JobType
    BY <1>2 DEF RowsExist
  <1>4. \A w \in Workers : worker'[w].phase \in WithJob => job'[worker'[w].job] \in JobType
    BY RunFields DEF RowsExist
  <1>5. QED
    BY <1>1, <1>3, <1>4 DEF RowsExist, WithJob

\* The strengthening across the calls of the API.
LEMMA AnswersRows ==
  ASSUME TypeOK, RowsExist, NEW c \in Calls, Ask(c) \/ Answer(c) \/ ApiStops(c)
  PROVE  RowsExist'
<1> USE DEF tenant, queue, bounds
<1> DEFINE Rows == \A j \in JobIds : job[j] \in JobType => job'[j] \in JobType
           Asked == \A d \in Calls : call'[d].op = "enqueue" =>
                      call'[d] = call[d] \/ job'[call'[d].job] \in JobType
<1>1. CASE \/ RetryRead(c) \/ Suspend(c) \/ Activate(c) \/ ScheduleRead(c) \/ CancelRead(c)
           \/ MigrateRead(c) \/ CancelStatus(c) \/ ApiStops(c)
  <2>0. TypeOK'
    BY AnswersType
  <2>1. bull' = bull /\ worker' = worker /\ job' = job
    BY <1>1 DEF RetryRead, Suspend, Activate, ScheduleRead, CancelRead, MigrateRead, CancelStatus, ApiStops
  <2>2. call' = call \/ \E r \in CallType : r.op # "enqueue" /\ call' = [call EXCEPT ![c] = r]
    <3> USE DEF CallType, NoCall
    <3>1. CASE Suspend(c) \/ Activate(c)
      BY <3>1 DEF Suspend, Activate
    <3>2. CASE RetryRead(c)
      <4>1. PICK r : r.op = "retry" /\ call' = [call EXCEPT ![c] = r]
        BY <3>2 DEF RetryRead, Begin
      <4>2. call' \in [Calls -> CallType]
        BY <2>0 DEF TypeOK
      <4>3. call'[c] = r
        BY <4>1 DEF TypeOK
      <4>4. QED
        BY <4>1, <4>2, <4>3
    <3>3. CASE ScheduleRead(c) \/ MigrateRead(c)
      BY <3>3 DEF ScheduleRead, MigrateRead, Begin
    <3>4. CASE CancelRead(c)
      BY <3>4 DEF CancelRead, Begin
    <3>5. CASE CancelStatus(c)
      <4>1. call[c] \in CallType /\ call[c].op = "cancel"
        BY <3>5 DEF TypeOK, CancelStatus
      <4>2. call[c].job \in JobIds
        BY <4>1
      <4>3. QED
        BY <3>5, <4>2 DEF CancelStatus, Continue, Return
    <3>6. CASE ApiStops(c)
      BY <3>6 DEF ApiStops, Return
    <3>7. QED
      BY <1>1, <3>1, <3>2, <3>3, <3>4, <3>5, <3>6
  <2>3. Asked
    BY <2>2 DEF TypeOK
  <2>4. QED
    BY <2>1, <2>3, NothingNew
<1>2. CASE Create(c)
  <2>1. Rows /\ job'[InsertedId] \in JobType
    BY <1>2, InsertKeepsRows DEF Create, Kinds
  <2>2. Asked
    BY <1>2, <2>1 DEF Create, Begin, TypeOK
  <2>3. QED
    BY <1>2, <2>1, <2>2, NothingNew DEF Create
<1>3. CASE RetryWrite(c)
  <2>1. call[c] \in CallType /\ call[c].op = "retry"
    BY <1>3 DEF TypeOK, RetryWrite
  <2>2. call[c].invited \in BOOLEAN
    BY <2>1 DEF CallType, NoCall
  <2>3. Rows /\ job'[InsertedId] \in JobType
    BY <1>3, <2>2, InsertKeepsRows DEF RetryWrite, Kinds
  <2>4. Asked
    BY <1>3, <2>3 DEF RetryWrite, Continue, TypeOK
  <2>5. QED
    BY <1>3, <2>3, <2>4, NothingNew DEF RetryWrite
<1>4. CASE ScheduleWrite(c)
  <2>1. Rows /\ job'[InsertedId] \in JobType
    BY <1>4, InsertKeepsRows DEF ScheduleWrite, Kinds
  <2>2. Asked
    BY <1>4, <2>1 DEF ScheduleWrite, Continue, TypeOK
  <2>3. QED
    BY <1>4, <2>1, <2>2, NothingNew DEF ScheduleWrite
<1>5. CASE MigrateWrite(c)
  <2>1. Rows /\ job'[InsertedId] \in JobType
    BY <1>5, InsertKeepsRows DEF MigrateWrite, Kinds
  <2>2. Asked
    BY <1>5, <2>1 DEF MigrateWrite, Continue, TypeOK
  <2>3. QED
    BY <1>5, <2>1, <2>2, NothingNew DEF MigrateWrite
<1>6. CASE Enqueue(c)
  <2>1. \A j \in JobIds : bull'[j].state # "none" => bull[j].state # "none" \/ job[j] \in JobType
    BY <1>6 DEF Enqueue, TypeOK, RowsExist
  <2>2. Asked
    BY <1>6 DEF Enqueue, Return, TypeOK, NoCall
  <2>3. QED
    BY <1>6, <2>1, <2>2, NothingNew DEF Enqueue
<1>7. CASE CancelJob(c)
  <2>1. Rows
    BY <1>7 DEF CancelJob, TypeOK, JobType
  <2>2. \A j \in JobIds : bull'[j].state # "none" => bull[j].state # "none" \/ job[j] \in JobType
    BY <1>7 DEF CancelJob, TypeOK, BullType
  <2>3. Asked
    BY <1>7 DEF CancelJob, Return, TypeOK, NoCall
  <2>4. QED
    BY <1>7, <2>1, <2>2, <2>3, NothingNew DEF CancelJob
<1>8. QED
  BY <1>1, <1>2, <1>3, <1>4, <1>5, <1>6, <1>7 DEF Ask, Answer

\* A handler changes at most the payload of the row that its run has.
LEMMA HandlerRows ==
  ASSUME TypeOK, RowsExist, NEW w \in Workers, Handler(w)
  PROVE  RowsExist'
<1> USE DEF tenant, queue, bounds
<1>1. /\ bull' = bull /\ call' = call
      /\ worker[w].phase \in WithJob
      /\ \A j \in JobIds : job[j] \in JobType => job'[j] \in JobType
  <2>1. CASE RecordInvitation(w)
    BY <2>1 DEF RecordInvitation, TypeOK, JobType, WithJob
  <2>2. CASE ~RecordInvitation(w)
    BY <2>2 DEF Handler, Builds, At, WithJob, ValidateProvision, CreateRole, CreateDatabase,
       SecureDatabase, MarkMigrating, Migrated, ConfigureStorage, CreateTenantAdmin, SendInvitation,
       ActivateTenant, ValidateDecommission, RevokeAndClose, DropDatabase, DropRole, DeleteStorage,
       DisableMemberships, Finalize
  <2>3. QED
    BY <2>1, <2>2
<1>2. Goto(w, "save") \/ Goto(w, "mailed") \/ Goto(w, "migrate") \/ RecordInvitation(w)
  BY DEF Handler, Builds, ValidateProvision, CreateRole, CreateDatabase,
     SecureDatabase, MarkMigrating, Migrated, ConfigureStorage, CreateTenantAdmin, SendInvitation,
     ActivateTenant, ValidateDecommission, RevokeAndClose, DropDatabase, DropRole, DeleteStorage,
     DisableMemberships, Finalize
<1>3. worker[w] \in RunType
  BY DEF TypeOK
<1>4. worker'[w].job = worker[w].job
  BY <1>1, <1>2, <1>3 DEF Goto, RecordInvitation, TypeOK, RunType, WithJob
<1>5. \A v \in Workers : v # w => worker'[v] = worker[v]
  BY <1>2 DEF Goto, RecordInvitation, TypeOK
<1>6. QED
  BY <1>1, <1>4, <1>5, NothingNew

\* The strengthening across the rest of a run.
LEMMA RunStepRows ==
  ASSUME TypeOK, RowsExist, NEW w \in Workers,
         \/ Acquire(w) \/ LockBusy(w) \/ SaveStep(w) \/ Succeed(w) \/ Throw(w) \/ MarkFailed(w)
         \/ Thrown(w) \/ MigrateAllPick(w) \/ MigrateAllMark(w) \/ MigrateAllApply(w)
         \/ WorkerStops(w)
  PROVE  RowsExist'
<1> USE DEF tenant, queue, bounds
<1>0. worker[w] \in RunType
  BY DEF TypeOK
<1>1. call' = call
  BY DEF Acquire, LockBusy, SaveStep, Succeed, Throw, MarkFailed, Thrown, MigrateAllPick,
     MigrateAllMark, MigrateAllApply, WorkerStops
<1>2. \A j \in JobIds : job[j] \in JobType => job'[j] \in JobType
  <2>1. CASE Acquire(w)
    BY <2>1 DEF Acquire, TypeOK, JobType
  <2>2. CASE SaveStep(w)
    <3>1. worker[w].phase = "save" /\ worker[w].phase \in WithJob
      BY <2>2 DEF SaveStep, WithJob
    <3>2. worker[w].at \in 0..9
      BY <3>1, RunFields
    <3>3. QED
      BY <2>2, <3>2 DEF SaveStep, TypeOK, JobType
  <2>3. CASE Succeed(w)
    BY <2>3 DEF Succeed, TypeOK, JobType
  <2>4. CASE Throw(w)
    <3>1. \A x \in JobType, final \in BOOLEAN : FailedRow(x, final) \in JobType
      BY DEF FailedRow, JobType
    <3>2. IsFinal(worker[w].job) \in BOOLEAN
      BY DEF IsFinal
    <3>3. job' = [job EXCEPT ![worker[w].job] = FailedRow(job[worker[w].job], IsFinal(worker[w].job))]
      BY <2>4 DEF Throw
    <3>4. QED
      BY <3>1, <3>2, <3>3 DEF TypeOK
  <2>5. QED
    BY <2>1, <2>2, <2>3, <2>4 DEF LockBusy, MarkFailed, Thrown, MigrateAllPick, MigrateAllMark,
       MigrateAllApply, WorkerStops
<1>3. \A j \in JobIds : bull'[j].state # "none" => bull[j].state # "none" \/ job[j] \in JobType
  <2>1. CASE LockBusy(w) \/ Thrown(w)
    <3>1. worker[w].phase \in WithJob /\ bull' = [bull EXCEPT ![worker[w].job] = AttemptThrew(@)]
      BY <2>1 DEF LockBusy, Thrown, WithJob
    <3>2. job[worker[w].job] \in JobType
      BY <3>1 DEF RowsExist
    <3>3. QED
      BY <3>1, <3>2 DEF TypeOK
  <2>2. CASE Succeed(w)
    <3>1. worker[w].phase \in WithJob /\ bull' = [bull EXCEPT ![worker[w].job].state = "done"]
      BY <2>2 DEF Succeed, WithJob
    <3>2. job[worker[w].job] \in JobType
      BY <3>1 DEF RowsExist
    <3>3. QED
      BY <3>1, <3>2 DEF TypeOK
  <2>3. QED
    BY <2>1, <2>2 DEF Acquire, SaveStep, Throw, MarkFailed, MigrateAllPick,
       MigrateAllMark, MigrateAllApply, WorkerStops
<1>4. \A v \in Workers : worker'[v].phase \in WithJob =>
        worker[v].phase \in WithJob /\ worker'[v].job = worker[v].job
  <2>1. \A v \in Workers : v # w => worker'[v] = worker[v]
    BY DEF Acquire, LockBusy, SaveStep, Succeed, Throw, MarkFailed, Thrown, MigrateAllPick,
       MigrateAllMark, MigrateAllApply, WorkerStops, Goto, TypeOK
  <2>2. CASE Acquire(w) \/ SaveStep(w) \/ Throw(w) \/ MarkFailed(w)
    <3>1. worker[w].phase \in WithJob
      BY <2>2 DEF Acquire, SaveStep, Throw, MarkFailed, WithJob
    <3>2. worker'[w].job = worker[w].job
      BY <1>0, <2>2, <3>1 DEF Acquire, SaveStep, Throw, MarkFailed, Goto, TypeOK, RunType, WithJob
    <3>3. QED
      BY <2>1, <3>1, <3>2
  <2>3. CASE LockBusy(w) \/ Succeed(w) \/ Thrown(w) \/ MigrateAllPick(w) \/ MigrateAllMark(w)
             \/ MigrateAllApply(w) \/ WorkerStops(w)
    <3>1. worker'[w].phase \notin WithJob
      BY <2>3 DEF LockBusy, Succeed, Thrown, MigrateAllPick, MigrateAllMark, MigrateAllApply,
         WorkerStops, TypeOK, NoRun, WithJob
    <3>2. QED
      BY <2>1, <3>1
  <2>4. QED
    BY <2>2, <2>3
<1>5. QED
  BY <1>1, <1>2, <1>3, <1>4, NothingNew

\* The strengthening across the queue's own steps; Pick needs it.
LEMMA QueueRows ==
  ASSUME TypeOK, RowsExist,
         \/ \E j \in JobIds : \/ DelayElapses(j) \/ Stalled(j) \/ TimeOutJob(j)
                              \/ \E w \in Workers : Pick(w, j)
         \/ OrphanExpires \/ LockExpires
  PROVE  RowsExist'
<1> USE DEF tenant, queue, bounds
<1>1. ASSUME NEW j \in JobIds, DelayElapses(j) \/ Stalled(j)
      PROVE  RowsExist'
  <2>1. \A i \in JobIds : bull'[i].state # "none" => bull[i].state # "none"
    BY <1>1 DEF DelayElapses, Stalled, TypeOK
  <2>2. QED
    BY <1>1, <2>1, NothingNew DEF DelayElapses, Stalled
<1>2. ASSUME NEW j \in JobIds, TimeOutJob(j)
      PROVE  RowsExist'
  <2>1. \A i \in JobIds : job[i] \in JobType => job'[i] \in JobType
    BY <1>2 DEF TimeOutJob, TypeOK, JobType
  <2>2. QED
    BY <1>2, <2>1, NothingNew DEF TimeOutJob
<1>3. ASSUME NEW j \in JobIds, NEW w \in Workers, Pick(w, j)
      PROVE  RowsExist'
  <2>1. job[j] \in JobType
    BY <1>3 DEF Pick, RowsExist
  <2>2. \A i \in JobIds : bull'[i].state # "none" => job'[i] \in JobType
    BY <1>3, <2>1 DEF Pick, TypeOK, RowsExist
  <2>3. \A c \in Calls : call'[c].op = "enqueue" => job'[call'[c].job] \in JobType
    BY <1>3 DEF Pick, RowsExist
  <2>4. \A v \in Workers : worker'[v].phase \in WithJob => job'[worker'[v].job] \in JobType
    BY <1>3, <2>1 DEF Pick, TypeOK, RowsExist
  <2>5. QED
    BY <2>2, <2>3, <2>4 DEF RowsExist, WithJob
<1>4. CASE OrphanExpires \/ LockExpires
  BY <1>4 DEF OrphanExpires, LockExpires, RowsExist, WithJob
<1>5. QED
  BY <1>1, <1>2, <1>3, <1>4

(***************************************************************************)
(* The theorems                                                            *)
(***************************************************************************)

IInv == TypeOK /\ RowsExist

\* What holds of every state the system reaches.
LEMMA InitInv == Init => IInv
  BY LifecycleAssumption DEF Init, IInv, TypeOK, RowsExist, Statuses, InfraType, BullType, CallType,
     RunType, NoCall, NoRun, WithJob, JobIds

\* Every step of the system keeps the invariant.
LEMMA NextInv == IInv /\ [Next]_vars => IInv'
<1> SUFFICES ASSUME TypeOK, RowsExist, [Next]_vars
             PROVE  TypeOK' /\ RowsExist'
  BY DEF IInv
<1>1. ASSUME NEW c \in Calls, Ask(c) \/ Answer(c) \/ ApiStops(c)
      PROVE  TypeOK' /\ RowsExist'
  BY <1>1, AnswersType, AnswersRows
<1>2. ASSUME NEW w \in Workers, Handler(w)
      PROVE  TypeOK' /\ RowsExist'
  BY <1>2, HandlerType, HandlerRows
<1>3. ASSUME NEW w \in Workers,
             \/ Acquire(w) \/ LockBusy(w) \/ SaveStep(w) \/ Succeed(w) \/ Throw(w) \/ MarkFailed(w)
             \/ Thrown(w) \/ MigrateAllPick(w) \/ MigrateAllMark(w) \/ MigrateAllApply(w)
             \/ WorkerStops(w)
      PROVE  TypeOK' /\ RowsExist'
  BY <1>3, RunStepType, RunStepRows
<1>4. CASE \/ \E j \in JobIds : \/ DelayElapses(j) \/ Stalled(j) \/ TimeOutJob(j)
                                \/ \E w \in Workers : Pick(w, j)
           \/ OrphanExpires \/ LockExpires
  BY <1>4, QueueType, QueueRows
<1>5. CASE UNCHANGED vars
  BY <1>5 DEF vars, TypeOK, RowsExist, WithJob
<1>6. QED
  BY <1>1, <1>2, <1>3, <1>4, <1>5 DEF Next, Work

\* Every variable keeps its type: no run is beyond the last step of its job,
\* no call or run refers to a row the table cannot have, and the lock is held
\* by a worker or by nobody.
THEOREM TypeCorrect == Spec => []TypeOK
<1>1. IInv => TypeOK
  BY DEF IInv
<1>2. QED
  BY InitInv, NextInv, <1>1, PTL DEF Spec

\* No step takes the lock from a run that goes on, but its expiry.
LEMMA KeepsLock ==
  ASSUME TypeOK, [Next]_vars, NEW w \in Workers, lock = w, Holds(w), Holds(w)'
  PROVE  lock' = w \/ expiries' > expiries
<1> USE DEF tenant, queue, bounds
<1>1. w # NoOne
  BY LifecycleAssumption
<1>2. CASE lock' = lock
  BY <1>2
<1>3. ASSUME NEW v \in Workers, Acquire(v)
      PROVE  lock' = w
  BY <1>1, <1>3 DEF Acquire
<1>4. ASSUME NEW v \in Workers, Succeed(v) \/ Throw(v) \/ MarkFailed(v)
      PROVE  lock' = w
  <2>1. CASE lock' = lock
    BY <2>1
  <2>2. CASE lock' # lock
    <3>1. Release(v)
      BY <1>4, <2>2 DEF Succeed, Throw, MarkFailed
    <3>2. v = w
      BY <2>2, <3>1 DEF Release
    <3>3. ~Holds(w)'
      <4>1. worker[w] \in RunType /\ worker \in [Workers -> RunType]
        BY DEF TypeOK
      <4>2. worker' = [worker EXCEPT ![w] = NoRun] \/ Goto(w, "thrown")
        BY <1>4, <2>2, <3>2 DEF Succeed, Throw, MarkFailed
      <4>3. worker'[w].phase \in {"none", "thrown"}
        BY <4>1, <4>2 DEF Goto, NoRun, RunType
      <4>4. QED
        BY <4>3 DEF Holds
    <3>4. QED
      BY <3>3
  <2>3. QED
    BY <2>1, <2>2
<1>5. CASE OrphanExpires
  BY <1>5 DEF OrphanExpires
<1>6. CASE LockExpires
  BY <1>6 DEF LockExpires, TypeOK
<1>7. ASSUME NEW c \in Calls, Ask(c) \/ Answer(c) \/ ApiStops(c)
      PROVE  lock' = lock
  BY <1>7 DEF Ask, Answer, ApiStops, Create, RetryRead, Suspend, Activate, ScheduleRead, CancelRead,
     MigrateRead, Enqueue, RetryWrite, ScheduleWrite, CancelStatus, CancelJob, MigrateWrite
<1>8. ASSUME NEW v \in Workers, Handler(v)
      PROVE  lock' = lock
  BY <1>8 DEF Handler, Builds, ValidateProvision, CreateRole, CreateDatabase,
     SecureDatabase, MarkMigrating, Migrated, ConfigureStorage, CreateTenantAdmin, SendInvitation,
     RecordInvitation, ActivateTenant, ValidateDecommission, RevokeAndClose, DropDatabase, DropRole,
     DeleteStorage, DisableMemberships, Finalize
<1>9. ASSUME NEW v \in Workers,
             \/ LockBusy(v) \/ SaveStep(v) \/ Thrown(v) \/ MigrateAllPick(v) \/ MigrateAllMark(v)
             \/ MigrateAllApply(v) \/ WorkerStops(v)
      PROVE  lock' = lock
  BY <1>9 DEF LockBusy, SaveStep, Thrown, MigrateAllPick, MigrateAllMark, MigrateAllApply, WorkerStops
<1>10. ASSUME NEW j \in JobIds,
              DelayElapses(j) \/ Stalled(j) \/ TimeOutJob(j) \/ \E v \in Workers : Pick(v, j)
       PROVE  lock' = lock
  BY <1>10 DEF DelayElapses, Stalled, TimeOutJob, Pick
<1>11. CASE UNCHANGED vars
  BY <1>11 DEF vars
<1>12. QED
  BY <1>2, <1>3, <1>4, <1>5, <1>6, <1>7, <1>8, <1>9, <1>10, <1>11 DEF Next, Work

\* Expiries are counted, never forgotten.
LEMMA ExpiriesGrow ==
  ASSUME TypeOK, [Next]_vars
  PROVE  expiries' = expiries \/ expiries' > expiries
<1> USE DEF tenant, queue, bounds
<1>1. ASSUME NEW c \in Calls, Ask(c) \/ Answer(c) \/ ApiStops(c)
      PROVE  expiries' = expiries
  BY <1>1 DEF Ask, Answer, ApiStops, Create, RetryRead, Suspend, Activate, ScheduleRead, CancelRead,
     MigrateRead, Enqueue, RetryWrite, ScheduleWrite, CancelStatus, CancelJob, MigrateWrite
<1>2. ASSUME NEW w \in Workers, Handler(w)
      PROVE  expiries' = expiries
  BY <1>2 DEF Handler, Builds, ValidateProvision, CreateRole, CreateDatabase,
     SecureDatabase, MarkMigrating, Migrated, ConfigureStorage, CreateTenantAdmin, SendInvitation,
     RecordInvitation, ActivateTenant, ValidateDecommission, RevokeAndClose, DropDatabase, DropRole,
     DeleteStorage, DisableMemberships, Finalize
<1>3. ASSUME NEW w \in Workers,
             \/ Acquire(w) \/ LockBusy(w) \/ SaveStep(w) \/ Succeed(w) \/ Throw(w) \/ MarkFailed(w)
             \/ Thrown(w) \/ MigrateAllPick(w) \/ MigrateAllMark(w) \/ MigrateAllApply(w)
             \/ WorkerStops(w)
      PROVE  expiries' = expiries
  BY <1>3 DEF Acquire, LockBusy, SaveStep, Succeed, Throw, MarkFailed, Thrown, MigrateAllPick,
     MigrateAllMark, MigrateAllApply, WorkerStops
<1>4. ASSUME NEW j \in JobIds,
             DelayElapses(j) \/ Stalled(j) \/ TimeOutJob(j) \/ \E w \in Workers : Pick(w, j)
      PROVE  expiries' = expiries
  BY <1>4 DEF DelayElapses, Stalled, TimeOutJob, Pick
<1>5. CASE OrphanExpires
  BY <1>5 DEF OrphanExpires
<1>6. CASE LockExpires
  BY <1>6 DEF LockExpires, TypeOK
<1>7. CASE UNCHANGED vars
  BY <1>7 DEF vars
<1>8. QED
  BY <1>1, <1>2, <1>3, <1>4, <1>5, <1>6, <1>7 DEF Next, Work

\* Only acquireLock starts a run that holds the lock.
LEMMA StartsLocked ==
  ASSUME TypeOK, [Next]_vars, NEW w \in Workers, ~Holds(w), Holds(w)'
  PROVE  lock' = w
<1> USE DEF tenant, queue, bounds
<1>1. worker[w] \in RunType /\ worker[w].phase \notin {"run", "save", "mailed", "migrate", "failing"}
  BY DEF TypeOK, Holds
<1>2. worker' # worker /\ worker'[w].phase \in {"run", "save", "mailed", "migrate", "failing"}
  BY DEF Holds
<1>3. ASSUME NEW v \in Workers, Acquire(v)
      PROVE  lock' = w
  BY <1>1, <1>2, <1>3 DEF Acquire, TypeOK
<1>4. ASSUME NEW v \in Workers, Handler(v)
      PROVE  FALSE
  <2>1. worker[v].phase \in {"run", "migrate", "mailed"}
    BY <1>4 DEF Handler, Builds, At, ValidateProvision, CreateRole, CreateDatabase,
       SecureDatabase, MarkMigrating, Migrated, ConfigureStorage, CreateTenantAdmin, SendInvitation,
       RecordInvitation, ActivateTenant, ValidateDecommission, RevokeAndClose, DropDatabase, DropRole,
       DeleteStorage, DisableMemberships, Finalize
  <2>2. Goto(v, "save") \/ Goto(v, "mailed") \/ Goto(v, "migrate") \/ RecordInvitation(v)
    BY <1>4 DEF Handler, Builds, ValidateProvision, CreateRole, CreateDatabase,
       SecureDatabase, MarkMigrating, Migrated, ConfigureStorage, CreateTenantAdmin, SendInvitation,
       ActivateTenant, ValidateDecommission, RevokeAndClose, DropDatabase, DropRole, DeleteStorage,
       DisableMemberships, Finalize
  <2>3. v # w
    BY <1>1, <2>1
  <2>4. worker'[w] = worker[w]
    BY <2>2, <2>3 DEF Goto, RecordInvitation, TypeOK
  <2>5. QED
    BY <1>1, <1>2, <2>4
<1>5. ASSUME NEW v \in Workers, SaveStep(v) \/ Throw(v) \/ MarkFailed(v)
      PROVE  FALSE
  <2>1. worker[v].phase \in {"run", "save", "mailed", "migrate", "failing"}
    BY <1>5 DEF SaveStep, Throw, MarkFailed
  <2>2. v # w
    BY <1>1, <2>1
  <2>3. worker'[w] = worker[w]
    BY <1>5, <2>2 DEF SaveStep, Throw, MarkFailed, Goto, TypeOK
  <2>4. QED
    BY <1>1, <1>2, <2>3
<1>6. ASSUME NEW v \in Workers,
             \/ LockBusy(v) \/ Succeed(v) \/ Thrown(v) \/ MigrateAllPick(v) \/ MigrateAllMark(v)
             \/ MigrateAllApply(v) \/ WorkerStops(v) \/ \E j \in JobIds : Pick(v, j)
      PROVE  FALSE
  <2>1. \/ worker'[v].phase \in {"none", "allMark", "allApply", "read"}
        \/ worker' = worker
    BY <1>6 DEF LockBusy, Succeed, Thrown, MigrateAllPick, MigrateAllMark, MigrateAllApply,
       WorkerStops, Pick, TypeOK, NoRun
  <2>2. \A u \in Workers : u # v => worker'[u] = worker[u]
    BY <1>6 DEF LockBusy, Succeed, Thrown, MigrateAllPick, MigrateAllMark, MigrateAllApply,
       WorkerStops, Pick, TypeOK
  <2>3. QED
    BY <1>1, <1>2, <2>1, <2>2
<1>7. ASSUME NEW c \in Calls, Ask(c) \/ Answer(c) \/ ApiStops(c)
      PROVE  FALSE
  BY <1>2, <1>7 DEF Ask, Answer, ApiStops, Create, RetryRead, Suspend, Activate, ScheduleRead,
     CancelRead, MigrateRead, Enqueue, RetryWrite, ScheduleWrite, CancelStatus, CancelJob, MigrateWrite
<1>8. CASE \/ \E j \in JobIds : DelayElapses(j) \/ Stalled(j) \/ TimeOutJob(j)
           \/ OrphanExpires \/ LockExpires \/ UNCHANGED vars
  BY <1>2, <1>8 DEF DelayElapses, Stalled, TimeOutJob, OrphanExpires, LockExpires, vars
<1>9. QED
  BY <1>3, <1>4, <1>5, <1>6, <1>7, <1>8 DEF Next, Work

\* acquireLock, its release and its expiry, for every number of workers and
\* jobs: while a run goes on, the lock it holds leaves it only when its time
\* to live runs out; the end of another run does not take it away.
THEOREM LostCorrect == Spec => LostOnlyByExpiry
<1>1. TypeOK /\ [Next]_vars =>
        [\A w \in Workers :
           lock = w /\ Holds(w) /\ Holds(w)' => lock' = w \/ expiries' > expiries]_vars
  BY KeepsLock
<1>2. QED
  BY TypeCorrect, <1>1, PTL DEF Spec, LostOnlyByExpiry

\* As long as no lock has expired, a run between acquireLock and release is
\* the one whose token Redis has.
Exclusive == expiries = 0 => \A w \in Workers : Holds(w) => lock = w

\* "A Redis lock prevents two workers running lifecycle jobs for the same
\* tenant": whatever stops, stalls, throws or is delivered twice, two runs are
\* never inside the lock, as long as no run outlives the lock's time to live.
THEOREM OneRunCorrect == Spec => [](expiries = 0 => OneRunAtATime)
<1>1. Init => Exclusive
  BY DEF Init, Exclusive, Holds, NoRun
<1>2. TypeOK /\ Exclusive /\ [Next]_vars => Exclusive'
  <2> SUFFICES ASSUME TypeOK, Exclusive, [Next]_vars, expiries' = 0, NEW w \in Workers, Holds(w)'
               PROVE  lock' = w
    BY DEF Exclusive
  <2>1. expiries = 0 /\ ~(expiries' > expiries)
    BY ExpiriesGrow DEF TypeOK
  <2>2. CASE Holds(w)
    BY <2>1, <2>2, KeepsLock DEF Exclusive
  <2>3. CASE ~Holds(w)
    BY <2>3, StartsLocked
  <2>4. QED
    BY <2>2, <2>3
<1>3. Exclusive => (expiries = 0 => OneRunAtATime)
  BY DEF Exclusive, OneRunAtATime
<1>4. QED
  BY TypeCorrect, <1>1, <1>2, <1>3, PTL DEF Spec

(***************************************************************************)
(* The tenant: what an active one has, what is left of a decommissioned    *)
(* one                                                                     *)
(***************************************************************************)

(***************************************************************************)
(* The steps of a run                                                      *)
(***************************************************************************)

\* Where the handlers of a job are in its list.
LEMMA ProvisionAt ==
  ASSUME TypeOK, NEW w \in Workers, NEW step, At(w, "provision", step)
  PROVE  /\ worker[w].kind = "provision" /\ worker[w].at \in 1..9 /\ ProvisionSteps[worker[w].at] = step
  <1>1. worker[w].at \in 1..9
    BY AtType DEF Kinds
  <1>2. QED
    BY <1>1 DEF At, StepsOf

\* The place of each step of a provisioning ...
LEMMA ProvisionIndex ==
  ASSUME TypeOK, NEW w \in Workers
  PROVE  /\ At(w, "provision", "validate")            => worker[w].at = 1
         /\ At(w, "provision", "create_role")         => worker[w].at = 2
         /\ At(w, "provision", "create_database")     => worker[w].at = 3
         /\ At(w, "provision", "secure_database")     => worker[w].at = 4
         /\ At(w, "provision", "apply_migrations")    => worker[w].at = 5
         /\ At(w, "provision", "configure_storage")   => worker[w].at = 6
         /\ At(w, "provision", "create_tenant_admin") => worker[w].at = 7
         /\ At(w, "provision", "send_invitation")     => worker[w].at = 8
         /\ At(w, "provision", "activate")            => worker[w].at = 9
  BY ProvisionAt DEF ProvisionSteps

\* ... and of those of a decommission that take something away or end it.
LEMMA DecommissionIndex ==
  ASSUME TypeOK, NEW w \in Workers
  PROVE  /\ At(w, "decommission", "drop_database")       => worker[w].at = 4
         /\ At(w, "decommission", "drop_role")           => worker[w].at = 5
         /\ At(w, "decommission", "delete_storage")      => worker[w].at = 6
         /\ At(w, "decommission", "disable_memberships") => worker[w].at = 7
         /\ At(w, "decommission", "finalize")            => worker[w].at = 8
  <1>1. ASSUME NEW step, At(w, "decommission", step)
        PROVE  worker[w].at \in 1..8 /\ DecommissionSteps[worker[w].at] = step
    <2>1. worker[w].at \in 1..9
      BY <1>1, AtType DEF Kinds
    <2>2. QED
      BY <1>1, <2>1 DEF At, StepsOf, DecommissionSteps
  <1>2. QED
    BY <1>1 DEF DecommissionSteps

\* A run that goes to another phase stays the same run.
LEMMA GotoDoes ==
  ASSUME TypeOK, NEW w \in Workers, NEW p, Goto(w, p), worker[w].phase \in WithJob
  PROVE  /\ worker'[w].phase = p /\ worker'[w].job = worker[w].job /\ worker'[w].kind = worker[w].kind
         /\ worker'[w].at = worker[w].at /\ worker'[w].invited = worker[w].invited
         /\ \A v \in Workers : v # w => worker'[v] = worker[v]
  <1>1. worker[w] \in RunType /\ worker \in [Workers -> RunType]
    BY DEF TypeOK
  <1>2. QED
    BY <1>1 DEF Goto, RunType, WithJob

\* A handler works for the job of its run, and leaves its place in it.
HandlerEffect(w) ==
  /\ worker[w].phase \in {"run", "migrate", "mailed"} /\ worker'[w].phase \in {"save", "migrate", "mailed"}
  /\ worker'[w].job = worker[w].job /\ worker'[w].kind = worker[w].kind /\ worker'[w].at = worker[w].at
  /\ \A v \in Workers : v # w => worker'[v] = worker[v]
  /\ UNCHANGED <<bull, call>>

\* What the handlers do to their run and to its row.
LEMMA HandlerDoes ==
  ASSUME TypeOK, NEW w \in Workers, Handler(w)
  PROVE  /\ HandlerEffect(w)
         /\ ~RecordInvitation(w) => job' = job /\ worker'[w].invited = worker[w].invited
         /\ worker'[w].phase = "migrate" => MarkMigrating(w)
         /\ worker'[w].phase = "mailed" => SendInvitation(w) /\ infra'.mailed
  <1> USE DEF queue
  <1>1. /\ UNCHANGED <<bull, call>>
        /\ worker[w].phase \in {"run", "migrate", "mailed"} /\ worker[w].phase \in WithJob
    BY DEF Handler, Builds, At, ValidateProvision, CreateRole, CreateDatabase,
       SecureDatabase, MarkMigrating, Migrated, ConfigureStorage, CreateTenantAdmin, SendInvitation,
       RecordInvitation, ActivateTenant, ValidateDecommission, RevokeAndClose, DropDatabase, DropRole,
       DeleteStorage, DisableMemberships, Finalize, WithJob
  <1>2. CASE MarkMigrating(w)
    <2>1. Goto(w, "migrate") /\ job' = job
      BY <1>2 DEF MarkMigrating
    <2>2. QED
      BY <1>1, <1>2, <2>1, GotoDoes DEF HandlerEffect
  <1>3. CASE SendInvitation(w)
    <2>1. job' = job /\ (Goto(w, "save") \/ (Goto(w, "mailed") /\ infra' = [infra EXCEPT !.mailed = TRUE]))
      BY <1>3 DEF SendInvitation
    <2>2. infra \in InfraType
      BY DEF TypeOK
    <2>3. CASE Goto(w, "save")
      BY <1>1, <2>1, <2>3, GotoDoes DEF HandlerEffect
    <2>4. CASE Goto(w, "mailed") /\ infra' = [infra EXCEPT !.mailed = TRUE]
      <3>1. infra'.mailed
        BY <2>2, <2>4 DEF InfraType
      <3>2. QED
        BY <1>1, <1>3, <2>1, <2>4, <3>1, GotoDoes DEF HandlerEffect
    <2>5. QED
      BY <2>1, <2>3, <2>4
  <1>4. CASE RecordInvitation(w)
    <2>1. worker[w] \in RunType /\ worker \in [Workers -> RunType]
      BY DEF TypeOK
    <2>2. worker' = [worker EXCEPT ![w] = [worker[w] EXCEPT !.phase = "save", !.invited = TRUE]]
      BY <1>4 DEF RecordInvitation
    <2>3. worker'[w] = [worker[w] EXCEPT !.phase = "save", !.invited = TRUE]
      BY <2>1, <2>2
    <2>4. /\ worker'[w].phase = "save" /\ worker'[w].job = worker[w].job /\ worker'[w].kind = worker[w].kind
          /\ worker'[w].at = worker[w].at
      BY <1>1, <2>1, <2>3 DEF RunType, WithJob
    <2>5. QED
      BY <1>1, <1>4, <2>1, <2>2, <2>4 DEF HandlerEffect
  <1>5. CASE ~MarkMigrating(w) /\ ~SendInvitation(w) /\ ~RecordInvitation(w)
    <2>1. Goto(w, "save") /\ job' = job
      BY <1>5 DEF Handler, Builds, ValidateProvision, CreateRole, CreateDatabase,
         SecureDatabase, Migrated, ConfigureStorage, CreateTenantAdmin, ActivateTenant,
         ValidateDecommission, RevokeAndClose, DropDatabase, DropRole, DeleteStorage, DisableMemberships,
         Finalize
    <2>2. QED
      BY <1>1, <2>1, GotoDoes DEF HandlerEffect
  <1>6. QED
    BY <1>2, <1>3, <1>4, <1>5

(***************************************************************************)
(* What provisioning has built                                             *)
(***************************************************************************)

\* What the first n steps of a provisioning job leave behind.
Built(n) ==
  /\ n >= 2 => infra.role
  /\ n >= 3 => infra.database
  /\ n >= 6 => infra.storage
  /\ n >= 7 => infra.admin
  /\ n >= 8 => infra.mailed

\* The progress of a job is true, and so is the record of its invitation.
BuiltRow(j) ==
  job[j].kind \in {"provision", "migrate"} => Built(job[j].done) /\ (job[j].invited => infra.mailed)

\* What a run takes to be built, is: the steps before its own, and its own once done.
BuiltRun(w) ==
  LET r == worker[w] IN
  r.phase \in WithJob =>
    /\ r.kind # "decommission" => /\ Built(r.at - 1) /\ (r.phase = "save" => Built(r.at))
                                  /\ r.invited => infra.mailed
    /\ r.phase = "migrate" => r.kind # "decommission" /\ r.at \in {1, 5}
    /\ r.phase = "mailed" => r.kind = "provision" /\ r.at = 8 /\ infra.mailed

\* A retry that read that the invitation was sent read the truth.
BuiltCall(c) == call[c].op = "retry" => (call[c].invited => infra.mailed)

\* What rows, runs and calls take to be built, is; and so an active tenant is complete.
Building ==
  /\ \A j \in JobIds : BuiltRow(j)
  /\ \A c \in Calls : BuiltCall(c)
  /\ \A w \in Workers : BuiltRun(w)
  /\ ReachableIsComplete

\* A step that takes nothing away.
Keeps ==
  /\ infra.role => infra'.role
  /\ infra.database => infra'.database
  /\ infra.storage => infra'.storage
  /\ infra.admin => infra'.admin
  /\ infra.mailed => infra'.mailed

\* A row keeps what it says, if nothing is taken away.
LEMMA BuiltRowStays ==
  ASSUME NEW j \in JobIds, Keeps, TypeOK, BuiltRow(j),
         job'[j].kind = job[j].kind, job'[j].done = job[j].done, job'[j].invited => job[j].invited \/ infra'.mailed
  PROVE  BuiltRow(j)'
  <1>1. CASE job[j].kind \in {"provision", "migrate"}
    <2>1. job[j] \in JobType
      BY <1>1 DEF TypeOK, Unused
    <2>2. job[j].done \in Nat
      BY <2>1 DEF JobType
    <2>3. QED
      BY <1>1, <2>2 DEF Keeps, BuiltRow, Built
  <1>2. QED
    BY <1>1 DEF BuiltRow

\* So does a run that a step has not touched.
LEMMA BuiltRunStays ==
  ASSUME NEW w \in Workers, Keeps, TypeOK, BuiltRun(w),
         worker'[w] = worker[w]
  PROVE  BuiltRun(w)'
  <1>1. CASE worker[w].phase \in WithJob
    <2>1. worker[w].at \in 1..10
      BY <1>1, RunFields
    <2>2. QED
      BY <1>1, <2>1 DEF Keeps, BuiltRun, Built, WithJob
  <1>2. QED
    BY <1>1 DEF BuiltRun, WithJob

\* A run that goes on without having done anything.
LEMMA BuiltRunGoes ==
  ASSUME NEW w \in Workers, Keeps, TypeOK, BuiltRun(w), worker[w].phase \in WithJob,
         worker'[w].kind = worker[w].kind, worker'[w].at = worker[w].at, worker'[w].invited = worker[w].invited,
         worker'[w].phase \in {"run", "failing", "thrown"}
  PROVE  BuiltRun(w)'
  <1>1. worker[w].at \in 1..10
    BY RunFields
  <1>2. QED
    BY <1>1 DEF Keeps, BuiltRun, Built, WithJob

\* And a tenant that was active before.
LEMMA CompleteStays ==
  ASSUME Keeps, ReachableIsComplete,
         status' \in {"active", "suspended"} => status \in {"active", "suspended"}
  PROVE  ReachableIsComplete'
  BY DEF Keeps, ReachableIsComplete

\* Operators at the API.
LEMMA BuildingByCalls ==
  ASSUME TypeOK, RowsExist, Building, Keeps, NEW c \in Calls, Ask(c) \/ Answer(c) \/ ApiStops(c), call[c].op # "cancel"
  PROVE  Building'
<1> USE DEF tenant, queue, bounds
<1>1. worker' = worker
  BY DEF Ask, Answer, ApiStops, Create, RetryRead, Suspend, Activate, ScheduleRead, CancelRead,
     MigrateRead, Enqueue, RetryWrite, ScheduleWrite, CancelStatus, CancelJob, MigrateWrite
<1>2. \A w \in Workers : BuiltRun(w)'
  BY <1>1, BuiltRunStays DEF Building
<1>3. ReachableIsComplete'
  BY CompleteStays DEF Building, Ask, Answer, ApiStops, Create, RetryRead, Suspend, Activate, ScheduleRead, CancelRead,
     MigrateRead, Enqueue, RetryWrite, ScheduleWrite, CancelStatus, CancelJob, MigrateWrite
<1>4. ASSUME NEW kind \in Kinds, NEW invited \in BOOLEAN, Insert(kind, invited), invited => infra.mailed
      PROVE  \A j \in JobIds : BuiltRow(j)'
  <2>1. TypeOK /\ InsertedId \in JobIds
    BY <1>4, InsertedIdType DEF Insert
  <2>2. job' = [job EXCEPT ![InsertedId] = NewJob(kind, invited)]
    BY <1>4 DEF Insert, InsertedId
  <2>3. \A j \in JobIds : j # InsertedId => job'[j] = job[j]
    BY <2>1, <2>2 DEF TypeOK
  <2>4. job'[InsertedId].done = 0 /\ job'[InsertedId].invited = invited
    BY <2>1, <2>2 DEF TypeOK, NewJob
  <2>5. \A j \in JobIds : j # InsertedId => BuiltRow(j)'
    BY <2>3, BuiltRowStays DEF Building
  <2>6. PICK i \in JobIds : i = InsertedId
    BY <2>1
  <2>7. BuiltRow(i)'
    BY <2>4, <2>6, <1>4 DEF BuiltRow, Built, Keeps
  <2>8. QED
    BY <2>5, <2>6, <2>7
<1>5. \A j \in JobIds : BuiltRow(j)'
  <2>1. CASE Create(c)
    BY <1>4, <2>1 DEF Create, Kinds
  <2>2. CASE RetryWrite(c)
    <3>1. call[c] \in CallType /\ call[c].op = "retry"
      BY <2>2 DEF TypeOK, RetryWrite
    <3>2. call[c].invited \in BOOLEAN
      BY <3>1 DEF CallType, NoCall
    <3>3. QED
      BY <1>4, <2>2, <3>1, <3>2 DEF RetryWrite, Kinds, Building, BuiltCall
  <2>3. CASE ScheduleWrite(c)
    BY <1>4, <2>3 DEF ScheduleWrite, Kinds
  <2>4. CASE MigrateWrite(c)
    BY <1>4, <2>4 DEF MigrateWrite, Kinds
  <2>5. CASE CancelJob(c)
    <3>1. \A j \in JobIds : job'[j].kind = job[j].kind /\ job'[j].done = job[j].done /\ job'[j].invited = job[j].invited
      <4>1. PICK i : i = call[c].job
        OBVIOUS
      <4>2. job' = [job EXCEPT ![i] = [job[i] EXCEPT !.status = "failed", !.cancelled = TRUE]]
        BY <2>5, <4>1 DEF CancelJob
      <4>3. job \in [JobIds -> JobType \cup {Unused}]
        BY DEF TypeOK
      <4>4. QED
        BY <4>2, <4>3 DEF JobType, Unused
    <3>2. QED
      BY <3>1, BuiltRowStays DEF Building
  <2>6. CASE job' = job
    BY <2>6, BuiltRowStays DEF Building
  <2>7. QED
    BY <2>1, <2>2, <2>3, <2>4, <2>5, <2>6 DEF Ask, Answer, ApiStops, RetryRead, Suspend, Activate, ScheduleRead, CancelRead,
     MigrateRead, Enqueue, CancelStatus
<1>6. \A d \in Calls : BuiltCall(d)'
  <2>1. call \in [Calls -> CallType]
    BY DEF TypeOK
  <2>2. CASE RetryRead(c)
    <3>1. PICK last \in JobIds :
            /\ last \in Inserted /\ job[last].kind = "provision"
            /\ call' = [call EXCEPT ![c] = [op |-> "retry", invited |-> job[last].invited]]
      BY <2>2 DEF RetryRead, IsLatest, Begin
    <3>2. job[last].invited => infra.mailed
      BY <3>1 DEF Building, BuiltRow
    <3>3. QED
      BY <2>1, <3>1, <3>2 DEF Building, BuiltCall, Keeps
  <2>3. CASE ~RetryRead(c)
    <3>1. \/ call' = call
          \/ \E r : r.op # "retry" /\ call' = [call EXCEPT ![c] = r]
      <4>1. CASE Enqueue(c) \/ CancelJob(c) \/ ApiStops(c)
        <5>1. call' = [call EXCEPT ![c] = NoCall] /\ NoCall.op # "retry"
          BY <4>1 DEF Enqueue, CancelJob, ApiStops, Return, NoCall
        <5>2. QED
          BY <5>1
      <4>2. CASE CancelStatus(c)
        <5>1. \/ call' = [call EXCEPT ![c] = NoCall] /\ NoCall.op # "retry"
              \/ call' = [call EXCEPT ![c] = [op |-> "cancelJob", job |-> call[c].job]]
          BY <4>2 DEF CancelStatus, Return, Continue, NoCall
        <5>2. [op |-> "cancelJob", job |-> call[c].job].op # "retry"
          OBVIOUS
        <5>3. QED
          BY <5>1, <5>2
      <4>3. CASE Create(c) \/ RetryWrite(c) \/ ScheduleWrite(c) \/ MigrateWrite(c)
        <5>1. call' = [call EXCEPT ![c] = [op |-> "enqueue", job |-> InsertedId]]
          BY <4>3 DEF Create, RetryWrite, ScheduleWrite, MigrateWrite, Begin, Continue
        <5>2. [op |-> "enqueue", job |-> InsertedId].op # "retry"
          OBVIOUS
        <5>3. QED
          BY <5>1, <5>2
      <4>4. CASE ScheduleRead(c) \/ MigrateRead(c)
        <5>1. \/ call' = [call EXCEPT ![c] = [op |-> "schedule"]]
              \/ call' = [call EXCEPT ![c] = [op |-> "migrate"]]
          BY <4>4 DEF ScheduleRead, MigrateRead, Begin
        <5>2. [op |-> "schedule"].op # "retry" /\ [op |-> "migrate"].op # "retry"
          OBVIOUS
        <5>3. QED
          BY <5>1, <5>2
      <4>5. CASE CancelRead(c)
        <5>1. PICK j \in JobIds : call' = [call EXCEPT ![c] = [op |-> "cancel", job |-> j]]
          BY <4>5 DEF CancelRead, Begin
        <5>2. [op |-> "cancel", job |-> j].op # "retry"
          OBVIOUS
        <5>3. QED
          BY <5>1, <5>2
      <4>6. CASE Suspend(c) \/ Activate(c)
        BY <4>6 DEF Suspend, Activate
      <4>7. QED
        BY <2>3, <4>1, <4>2, <4>3, <4>4, <4>5, <4>6 DEF Ask, Answer
    <3>2. QED
      BY <2>1, <3>1 DEF Building, BuiltCall, Keeps
  <2>4. QED
    BY <2>2, <2>3
<1>7. QED
  BY <1>2, <1>3, <1>5, <1>6 DEF Building

\* The handlers of a job.
LEMMA BuildingByHandler ==
  ASSUME TypeOK, Building, Keeps, NEW w \in Workers, Handler(w)
  PROVE  Building'
<1> USE DEF tenant, queue, bounds
<1>0. /\ worker[w].phase \in WithJob /\ worker[w] \in RunType /\ worker[w].at \in 1..9 /\ infra \in InfraType
      /\ job \in [JobIds -> JobType \cup {Unused}] /\ worker[w].job \in JobIds /\ BuiltRun(w)
  <2>1. worker[w].phase \in {"run", "migrate", "mailed"} /\ HandlerEffect(w)
    BY HandlerDoes DEF HandlerEffect
  <2>2. worker[w].phase = "run" => worker[w].at \in 1..9
    <3>1. ASSUME NEW kind \in Kinds, NEW step, At(w, kind, step)
          PROVE  worker[w].at \in 1..9
      BY <3>1, AtType
    <3>2. QED
      BY <3>1 DEF Handler, Builds, ValidateProvision, CreateRole, CreateDatabase,
         SecureDatabase, MarkMigrating, Migrated, ConfigureStorage, CreateTenantAdmin, SendInvitation,
         RecordInvitation, ActivateTenant, ValidateDecommission, RevokeAndClose, DropDatabase, DropRole,
         DeleteStorage, DisableMemberships, Finalize, Kinds
  <2>3. QED
    BY <2>1, <2>2, RunFields DEF WithJob, TypeOK, Building
<1>1. HandlerEffect(w) /\ (~RecordInvitation(w) => job' = job /\ worker'[w].invited = worker[w].invited)
      /\ (worker'[w].phase = "migrate" => MarkMigrating(w)) /\ (worker'[w].phase = "mailed" => SendInvitation(w) /\ infra'.mailed)
  BY HandlerDoes
<1>2. \A v \in Workers : v # w => BuiltRun(v)'
  BY <1>1, BuiltRunStays DEF HandlerEffect, Building
<1>3. \A c \in Calls : BuiltCall(c)'
  BY <1>1 DEF HandlerEffect, Building, BuiltCall, Keeps
<1>4. \A j \in JobIds : BuiltRow(j)'
  <2>1. CASE RecordInvitation(w)
    <3>1. infra.mailed
      BY <1>0, <2>1 DEF RecordInvitation, BuiltRun
    <3>2. \A j \in JobIds : job'[j].kind = job[j].kind /\ job'[j].done = job[j].done
      <4>1. PICK i : i = worker[w].job
        OBVIOUS
      <4>2. job' = [job EXCEPT ![i] = [job[i] EXCEPT !.invited = TRUE]]
        BY <2>1, <4>1 DEF RecordInvitation
      <4>3. QED
        BY <1>0, <4>2 DEF JobType, Unused
    <3>3. QED
      BY <3>1, <3>2, BuiltRowStays DEF Building, Keeps
  <2>2. CASE ~RecordInvitation(w)
    BY <1>1, <2>2, BuiltRowStays DEF Building
  <2>3. QED
    BY <2>1, <2>2
<1>5. ASSUME worker[w].kind # "decommission", worker'[w].phase = "save"
      PROVE  Built(worker[w].at)'
  <2>0. worker'[w].at = worker[w].at /\ Built(worker[w].at - 1)
    BY <1>0, <1>1, <1>5 DEF HandlerEffect, BuiltRun
  <2>1. ASSUME ValidateProvision(w) PROVE worker[w].at = 1
    BY <2>1, ProvisionIndex DEF ValidateProvision
  <2>2. ASSUME CreateRole(w) PROVE worker[w].at = 2 /\ infra'.role
    BY <1>0, <2>2, ProvisionIndex DEF CreateRole, Builds, InfraType
  <2>3. ASSUME CreateDatabase(w) PROVE worker[w].at = 3 /\ infra'.database
    BY <1>0, <2>3, ProvisionIndex DEF CreateDatabase, Builds, InfraType
  <2>4. ASSUME SecureDatabase(w) PROVE worker[w].at = 4
    BY <2>4, ProvisionIndex DEF SecureDatabase, Builds
  <2>5. ASSUME MarkMigrating(w) PROVE FALSE
    BY <1>0, <1>5, <2>5, GotoDoes DEF MarkMigrating
  <2>6. ASSUME Migrated(w) PROVE worker[w].at \in {1, 5} /\ infra.role /\ infra.database
    BY <1>0, <2>6 DEF Migrated, BuiltRun
  <2>7. ASSUME ConfigureStorage(w) PROVE worker[w].at = 6 /\ infra'.storage
    BY <1>0, <2>7, ProvisionIndex DEF ConfigureStorage, Builds, InfraType
  <2>8. ASSUME CreateTenantAdmin(w) PROVE worker[w].at = 7 /\ infra'.admin
    BY <1>0, <2>8, ProvisionIndex DEF CreateTenantAdmin, Builds, InfraType
  <2>9. ASSUME SendInvitation(w) PROVE worker[w].at = 8 /\ infra.mailed
    <3>1. worker[w].at = 8
      BY <2>9, ProvisionIndex DEF SendInvitation
    <3>2. worker[w].invited
      BY <1>0, <1>5, <2>9, GotoDoes DEF SendInvitation
    <3>3. QED
      BY <1>0, <1>5, <3>1, <3>2 DEF BuiltRun
  <2>10. ASSUME RecordInvitation(w) PROVE worker[w].at = 8 /\ infra.mailed
    BY <1>0, <2>10 DEF RecordInvitation, BuiltRun
  <2>11. ASSUME ActivateTenant(w) PROVE worker[w].at = 9
    BY <2>11, ProvisionIndex DEF ActivateTenant
  <2>12. ASSUME \/ ValidateDecommission(w) \/ RevokeAndClose(w) \/ DropDatabase(w) \/ DropRole(w)
                \/ DeleteStorage(w) \/ DisableMemberships(w) \/ Finalize(w)
         PROVE  FALSE
    BY <1>5, <2>12 DEF ValidateDecommission, RevokeAndClose, DropDatabase, DropRole, DeleteStorage, DisableMemberships,
       Finalize, Builds, At
  <2>13. \/ worker[w].at \in {1, 4, 9}
         \/ worker[w].at = 2 /\ infra'.role
         \/ worker[w].at = 3 /\ infra'.database
         \/ worker[w].at = 5 /\ infra.role /\ infra.database
         \/ worker[w].at = 6 /\ infra'.storage
         \/ worker[w].at = 7 /\ infra'.admin
         \/ worker[w].at = 8 /\ infra.mailed
    BY <2>1, <2>2, <2>3, <2>4, <2>5, <2>6, <2>7, <2>8, <2>9, <2>10, <2>11, <2>12 DEF Handler
  <2>14. QED
    BY <2>0, <2>13 DEF Built, Keeps
<1>6. BuiltRun(w)'
  <2>1. /\ worker'[w].at = worker[w].at /\ worker'[w].kind = worker[w].kind
        /\ worker'[w].phase \in {"save", "migrate", "mailed"}
    BY <1>1 DEF HandlerEffect
  <2>2. worker[w].kind # "decommission" => Built(worker[w].at - 1)'
    BY <1>0, <2>1 DEF BuiltRun, Built, Keeps
  <2>3. worker[w].kind # "decommission" => (worker'[w].invited => infra'.mailed)
    BY <1>0, <1>1 DEF BuiltRun, Keeps, RecordInvitation
  <2>4. worker'[w].phase = "migrate" => worker[w].kind # "decommission" /\ worker[w].at \in {1, 5}
    <3>1. At(w, "migrate", "apply_migrations") => worker[w].at = 1 /\ worker[w].kind = "migrate"
      <4>1. Len(StepsOf("migrate")) = 1
        BY DEF StepsOf
      <4>2. QED
        BY <1>0, <4>1 DEF At
    <3>2. At(w, "provision", "apply_migrations") => worker[w].at = 5 /\ worker[w].kind = "provision"
      BY ProvisionIndex DEF At
    <3>3. QED
      BY <1>1, <3>1, <3>2 DEF MarkMigrating
  <2>5. worker'[w].phase = "mailed" => worker[w].kind = "provision" /\ worker[w].at = 8 /\ infra'.mailed
    BY <1>1, ProvisionIndex DEF SendInvitation, At
  <2>6. QED
    BY <1>5, <2>1, <2>2, <2>3, <2>4, <2>5 DEF BuiltRun, Built
<1>7. ReachableIsComplete'
  <2>1. CASE ActivateTenant(w)
    <3>1. worker[w].at = 9 /\ worker[w].kind # "decommission"
      BY <2>1, ProvisionIndex DEF ActivateTenant, At
    <3>2. Built(8)
      BY <1>0, <3>1 DEF BuiltRun, Built
    <3>3. QED
      BY <3>2 DEF Built, Keeps, ReachableIsComplete
  <2>2. CASE ~ActivateTenant(w)
    <3>1. status' \in {"active", "suspended"} => status \in {"active", "suspended"}
      BY <2>2 DEF Handler, Builds, ValidateProvision, CreateRole, CreateDatabase,
         SecureDatabase, MarkMigrating, Migrated, ConfigureStorage, CreateTenantAdmin, SendInvitation,
         RecordInvitation, ValidateDecommission, RevokeAndClose, DropDatabase, DropRole,
         DeleteStorage, DisableMemberships, Finalize
    <3>2. QED
      BY <3>1, CompleteStays DEF Building
  <2>3. QED
    BY <2>1, <2>2
<1>8. QED
  BY <1>2, <1>3, <1>4, <1>6, <1>7 DEF Building

\* What a run does beside its handlers.
RunStep(w) ==
  \/ Acquire(w) \/ LockBusy(w) \/ SaveStep(w) \/ Succeed(w) \/ Throw(w) \/ MarkFailed(w)
  \/ Thrown(w) \/ MigrateAllPick(w) \/ MigrateAllMark(w) \/ MigrateAllApply(w) \/ WorkerStops(w)

\* What the rest of a run does to the row of its job and to itself.
LEMMA RunStepDoes ==
  ASSUME TypeOK, NEW w \in Workers, RunStep(w)
  PROVE  /\ call' = call /\ \A v \in Workers : v # w => worker'[v] = worker[v]
         /\ \/ SaveStep(w)
            \/ \A j \in JobIds : job'[j].kind = job[j].kind /\ job'[j].done = job[j].done /\ job'[j].invited = job[j].invited
         /\ \/ SaveStep(w)
            \/ worker'[w].phase \notin WithJob
            \/ /\ worker[w].phase \in WithJob /\ worker'[w].phase \in {"run", "failing", "thrown"}
               /\ worker'[w].kind = worker[w].kind /\ worker'[w].at = worker[w].at
               /\ worker'[w].invited = worker[w].invited /\ worker'[w].job = worker[w].job
         /\ SaveStep(w) =>
              /\ worker[w].phase = "save" /\ worker'[w].phase = "run" /\ worker'[w].at = worker[w].at + 1
              /\ worker'[w].kind = worker[w].kind /\ worker'[w].invited = worker[w].invited
              /\ worker'[w].job = worker[w].job /\ job[worker[w].job] \in JobType \cup {Unused}
              /\ job' = [job EXCEPT ![worker[w].job] = [job[worker[w].job] EXCEPT !.done = worker[w].at]]
<1> USE DEF tenant, queue, bounds
<1>0. worker \in [Workers -> RunType] /\ worker[w] \in RunType /\ job \in [JobIds -> JobType \cup {Unused}]
  BY DEF TypeOK
<1>1. CASE SaveStep(w)
  <2>1. worker' = [worker EXCEPT ![w] = [worker[w] EXCEPT !.phase = "run", !.at = worker[w].at + 1]]
    BY <1>1 DEF SaveStep
  <2>2. worker[w].phase = "save"
    BY <1>1 DEF SaveStep
  <2>3. worker'[w] = [worker[w] EXCEPT !.phase = "run", !.at = worker[w].at + 1]
    BY <1>0, <2>1
  <2>4. /\ worker'[w].phase = "run" /\ worker'[w].at = worker[w].at + 1 /\ worker'[w].kind = worker[w].kind
        /\ worker'[w].invited = worker[w].invited /\ worker'[w].job = worker[w].job
    BY <1>0, <2>2, <2>3 DEF RunType
  <2>5. worker[w].job \in JobIds
    BY <2>2, RunFields DEF WithJob
  <2>6. QED
    BY <1>0, <1>1, <2>1, <2>2, <2>4, <2>5 DEF SaveStep
<1>2. ASSUME \/ LockBusy(w) \/ Succeed(w) \/ Thrown(w) \/ MigrateAllPick(w) \/ MigrateAllMark(w) \/ MigrateAllApply(w)
             \/ WorkerStops(w)
      PROVE  call' = call /\ (\A v \in Workers : v # w => worker'[v] = worker[v]) /\ worker'[w].phase \notin WithJob
  BY <1>0, <1>2 DEF LockBusy, Succeed, Thrown, MigrateAllPick, MigrateAllMark, MigrateAllApply, WorkerStops, NoRun, WithJob
<1>3. ASSUME NEW x \in JobIds, NEW y, job' = [job EXCEPT ![x] = y], y.kind = job[x].kind, y.done = job[x].done,
             y.invited = job[x].invited
      PROVE  \A j \in JobIds : job'[j].kind = job[j].kind /\ job'[j].done = job[j].done /\ job'[j].invited = job[j].invited
  BY <1>0, <1>3
<1>4. ASSUME NEW x \in JobIds, NEW s, NEW b
      PROVE  LET y == [job[x] EXCEPT !.status = s, !.cancelled = b] IN
             y.kind = job[x].kind /\ y.done = job[x].done /\ y.invited = job[x].invited
  <2>1. job[x] \in JobType \cup {Unused}
    BY <1>0
  <2>2. QED
    BY <2>1 DEF JobType, Unused
<1>5. ASSUME NEW x \in JobIds, NEW s
      PROVE  LET y == [job[x] EXCEPT !.status = s] IN
             y.kind = job[x].kind /\ y.done = job[x].done /\ y.invited = job[x].invited
  <2>1. job[x] \in JobType \cup {Unused}
    BY <1>0
  <2>2. QED
    BY <2>1 DEF JobType, Unused
<1>6. CASE Succeed(w)
  <2>1. worker[w].job \in JobIds
    BY <1>6, RunFields DEF Succeed, WithJob
  <2>2. PICK x \in JobIds : x = worker[w].job
    BY <2>1
  <2>3. job' = [job EXCEPT ![x] = [job[x] EXCEPT !.status = "succeeded"]]
    BY <1>6, <2>2 DEF Succeed
  <2>4. QED
    BY <1>2, <1>3, <1>5, <1>6, <2>3 DEF SaveStep, Succeed
<1>7. CASE Acquire(w)
  <2>1. worker[w].phase \in WithJob /\ Goto(w, "run")
    BY <1>7 DEF Acquire, WithJob, Goto
  <2>2. PICK x \in JobIds : x = worker[w].job
    BY <2>1, RunFields
  <2>3. job' = [job EXCEPT ![x] = [job[x] EXCEPT !.status = "running", !.cancelled = FALSE]]
    BY <1>7, <2>2 DEF Acquire
  <2>4. \A j \in JobIds : job'[j].kind = job[j].kind /\ job'[j].done = job[j].done /\ job'[j].invited = job[j].invited
    BY <1>3, <1>4, <2>3
  <2>5. ~SaveStep(w) /\ call' = call
    BY <1>7 DEF Acquire, SaveStep
  <2>6. QED
    BY <2>1, <2>4, <2>5, GotoDoes
<1>8. CASE Throw(w)
  <2>1. worker[w].phase \in WithJob /\ (Goto(w, "failing") \/ Goto(w, "thrown")) /\ call' = call
    BY <1>8 DEF Throw, WithJob
  <2>2. PICK x \in JobIds : x = worker[w].job
    BY <2>1, RunFields
  <2>3. PICK s : job' = [job EXCEPT ![x] = [job[x] EXCEPT !.status = s, !.cancelled = FALSE]]
    BY <1>8, <2>2 DEF Throw, FailedRow
  <2>4. \A j \in JobIds : job'[j].kind = job[j].kind /\ job'[j].done = job[j].done /\ job'[j].invited = job[j].invited
    BY <1>3, <1>4, <2>3
  <2>5. ~SaveStep(w)
    <3>1. worker'[w].phase \in {"failing", "thrown"}
      BY <2>1, GotoDoes
    <3>2. QED
      BY <1>1, <3>1 DEF SaveStep
  <2>6. QED
    BY <2>1, <2>4, <2>5, GotoDoes
<1>9. CASE MarkFailed(w)
  BY <1>9, GotoDoes DEF MarkFailed, WithJob, SaveStep
<1>10. CASE \/ LockBusy(w) \/ Thrown(w) \/ MigrateAllPick(w) \/ MigrateAllMark(w) \/ MigrateAllApply(w) \/ WorkerStops(w)
  <2>1. job' = job /\ ~SaveStep(w)
    <3>1. SaveStep(w) => worker'[w].phase = "run"
      BY <1>1
    <3>2. QED
      BY <1>2, <1>10, <3>1 DEF LockBusy, Thrown, MigrateAllPick, MigrateAllMark, MigrateAllApply, WorkerStops, WithJob
  <2>2. QED
    BY <1>2, <1>10, <2>1
<1>11. QED
  BY <1>1, <1>6, <1>7, <1>8, <1>9, <1>10 DEF RunStep

\* A run of one kind is of a row of that kind, at least for a decommission.
Agrees(w) ==
  worker[w].phase \in WithJob /\ worker[w].kind = "decommission" => job[worker[w].job].kind = "decommission"

\* The rest of a run.
LEMMA BuildingByRun ==
  ASSUME TypeOK, Building, Keeps, NEW w \in Workers, RunStep(w), Agrees(w)
  PROVE  Building'
<1>1. /\ call' = call /\ \A v \in Workers : v # w => worker'[v] = worker[v]
  BY RunStepDoes
<1>2. \A v \in Workers : v # w => BuiltRun(v)'
  BY <1>1, BuiltRunStays DEF Building
<1>3. \A c \in Calls : BuiltCall(c)'
  BY <1>1 DEF Building, BuiltCall, Keeps
<1>4. ReachableIsComplete'
  <2>1. status' \in {"active", "suspended"} => status \in {"active", "suspended"}
    BY DEF RunStep, Acquire, LockBusy, SaveStep, Succeed, Throw, MarkFailed, Thrown, MigrateAllPick, MigrateAllMark,
       MigrateAllApply, WorkerStops, tenant, queue, bounds
  <2>2. QED
    BY <2>1, CompleteStays DEF Building
<1>5. CASE SaveStep(w)
  <2>1. /\ worker[w].phase = "save" /\ worker'[w].phase = "run" /\ worker'[w].at = worker[w].at + 1
        /\ worker'[w].kind = worker[w].kind /\ worker'[w].invited = worker[w].invited
        /\ job' = [job EXCEPT ![worker[w].job] = [job[worker[w].job] EXCEPT !.done = worker[w].at]]
        /\ job[worker[w].job] \in JobType \cup {Unused}
    BY <1>5, RunStepDoes
  <2>2. worker[w].at \in 1..9 /\ worker[w].phase \in WithJob /\ worker[w].job \in JobIds
    BY <2>1, RunFields DEF WithJob
  <2>3. BuiltRun(w)'
    BY <2>1, <2>2 DEF BuiltRun, Built, Building, Keeps, WithJob
  <2>4. PICK x \in JobIds : x = worker[w].job
    BY <2>2
  <2>5. /\ \A j \in JobIds : j # x => job'[j] = job[j]
        /\ job'[x] = [job[x] EXCEPT !.done = worker[w].at]
    BY <2>1, <2>4 DEF TypeOK
  <2>6. BuiltRow(x)'
    <3>0. PICK n \in 1..9 : n = worker[w].at
      BY <2>2
    <3>1. ASSUME job'[x].kind \in {"provision", "migrate"}
          PROVE  job'[x].done = n /\ Built(n)' /\ (job'[x].invited => infra'.mailed)
      <4>1. /\ job[x] \in JobType /\ job'[x].kind = job[x].kind /\ job'[x].done = worker[w].at
            /\ job'[x].invited = job[x].invited
        BY <2>1, <2>4, <2>5, <3>1 DEF JobType, Unused
      <4>2. worker[w].kind # "decommission"
        BY <2>2, <2>4, <3>1, <4>1 DEF Agrees
      <4>3. Built(n)
        BY <2>1, <2>2, <3>0, <4>2 DEF Building, BuiltRun, Built
      <4>4. job'[x].invited => infra'.mailed
        BY <3>1, <4>1 DEF Building, BuiltRow, Keeps
      <4>5. QED
        BY <3>0, <4>1, <4>3, <4>4 DEF Built, Keeps
    <3>2. QED
      BY <3>1 DEF BuiltRow, Built
  <2>7. \A j \in JobIds : j # x => BuiltRow(j)'
    BY <2>5, BuiltRowStays DEF Building
  <2>8. QED
    BY <1>2, <1>3, <1>4, <2>3, <2>6, <2>7 DEF Building
<1>6. CASE ~SaveStep(w)
  <2>1. /\ \A j \in JobIds : job'[j].kind = job[j].kind /\ job'[j].done = job[j].done /\ job'[j].invited = job[j].invited
        /\ \/ worker'[w].phase \notin WithJob
           \/ /\ worker[w].phase \in WithJob /\ worker'[w].phase \in {"run", "failing", "thrown"}
              /\ worker'[w].kind = worker[w].kind /\ worker'[w].at = worker[w].at
              /\ worker'[w].invited = worker[w].invited
    BY <1>6, RunStepDoes
  <2>2. \A j \in JobIds : BuiltRow(j)'
    BY <2>1, BuiltRowStays DEF Building
  <2>3. BuiltRun(w)'
    <3>1. CASE worker'[w].phase \notin WithJob
      BY <3>1 DEF BuiltRun, WithJob
    <3>2. CASE worker'[w].phase \in WithJob
      BY <2>1, <3>2, BuiltRunGoes DEF Building
    <3>3. QED
      BY <3>1, <3>2
  <2>4. QED
    BY <1>2, <1>3, <1>4, <2>2, <2>3 DEF Building
<1>7. QED
  BY <1>5, <1>6

\* The steps of the queue, and the passing of time.
QueueStep ==
  \/ \E j \in JobIds : DelayElapses(j) \/ Stalled(j) \/ TimeOutJob(j) \/ \E w \in Workers : Pick(w, j)
  \/ OrphanExpires \/ LockExpires

\* The queue, and the passing of time.
LEMMA BuildingByQueue ==
  ASSUME TypeOK, RowsExist, Building, QueueStep
  PROVE  Building'
<1> USE DEF tenant, queue, bounds
<1>1. Keeps /\ call' = call /\ status' = status /\ infra' = infra
  BY DEF QueueStep, DelayElapses, Stalled, TimeOutJob, Pick, OrphanExpires, LockExpires, Keeps
<1>2. ReachableIsComplete' /\ \A c \in Calls : BuiltCall(c)'
  BY <1>1 DEF Building, ReachableIsComplete, BuiltCall
<1>3. \A j \in JobIds : BuiltRow(j)'
  <2>1. \A j \in JobIds : job'[j].kind = job[j].kind /\ job'[j].done = job[j].done /\ job'[j].invited = job[j].invited
    <3>1. CASE \E x \in JobIds : TimeOutJob(x)
      <4>1. PICK x \in JobIds : TimeOutJob(x)
        BY <3>1
      <4>2. job' = [job EXCEPT ![x] = [job[x] EXCEPT !.status = "failed", !.cancelled = FALSE]]
        BY <4>1 DEF TimeOutJob
      <4>3. job \in [JobIds -> JobType \cup {Unused}]
        BY DEF TypeOK
      <4>4. QED
        BY <4>2, <4>3 DEF JobType, Unused
    <3>2. CASE ~ \E x \in JobIds : TimeOutJob(x)
      <4>1. job' = job
        BY <3>2 DEF QueueStep, DelayElapses, Stalled, Pick, OrphanExpires, LockExpires
      <4>2. QED
        BY <4>1
    <3>3. QED
      BY <3>1, <3>2
  <2>2. QED
    BY <1>1, <2>1, BuiltRowStays DEF Building
<1>4. \A v \in Workers : BuiltRun(v)'
  <2>1. CASE worker' = worker
    BY <1>1, <2>1, BuiltRunStays DEF Building
  <2>2. CASE worker' # worker
    <3>1. PICK j \in JobIds, w \in Workers : Pick(w, j)
      BY <2>2 DEF QueueStep, DelayElapses, Stalled, TimeOutJob, OrphanExpires, LockExpires
    <3>2. job[j] \in JobType /\ BuiltRow(j) /\ worker \in [Workers -> RunType]
      BY <3>1 DEF Pick, RowsExist, Building, TypeOK
    <3>3. worker' = [worker EXCEPT ![w] = [phase |-> "read", job |-> j, kind |-> job[j].kind, at |-> job[j].done + 1,
                                           invited |-> job[j].invited]]
      BY <2>2, <3>1 DEF Pick
    <3>4. (\A v \in Workers : v # w => worker'[v] = worker[v])
          /\ worker'[w] = [phase |-> "read", job |-> j, kind |-> job[j].kind, at |-> job[j].done + 1,
                           invited |-> job[j].invited]
      BY <3>2, <3>3
    <3>5. \A v \in Workers : v # w => BuiltRun(v)'
      BY <1>1, <3>4, BuiltRunStays DEF Building
    <3>6. BuiltRun(w)'
      <4>1. /\ worker'[w].phase = "read" /\ worker'[w].kind = job[j].kind /\ worker'[w].at = job[j].done + 1
            /\ worker'[w].invited = job[j].invited
        BY <3>4
      <4>2. job[j].done \in 0..9 /\ job[j].kind \in Kinds
        BY <3>2 DEF JobType
      <4>3. QED
        BY <1>1, <3>2, <4>1, <4>2 DEF BuiltRun, BuiltRow, Built, Kinds
    <3>7. QED
      BY <3>5, <3>6
  <2>3. QED
    BY <2>1, <2>2
<1>5. QED
  BY <1>2, <1>3, <1>4 DEF Building

\* As long as nothing is taken away, what there is agrees with what the jobs say.
LEMMA BuildingStep ==
  ASSUME TypeOK, RowsExist, Building, Keeps, [Next]_vars,
         \A c \in Calls : call[c].op # "cancel", \A w \in Workers : Agrees(w)
  PROVE  Building'
<1>1. ASSUME NEW c \in Calls, Ask(c) \/ Answer(c) \/ ApiStops(c)
      PROVE  Building'
  BY <1>1, BuildingByCalls
<1>2. ASSUME NEW w \in Workers, Handler(w)
      PROVE  Building'
  BY <1>2, BuildingByHandler
<1>3. ASSUME NEW w \in Workers, RunStep(w)
      PROVE  Building'
  BY <1>3, BuildingByRun
<1>4. CASE UNCHANGED vars
  <2>1. infra' = infra /\ job' = job /\ call' = call /\ worker' = worker /\ status' = status
    BY <1>4 DEF vars
  <2>2. (\A j \in JobIds : BuiltRow(j)') /\ (\A c \in Calls : BuiltCall(c)') /\ (\A w \in Workers : BuiltRun(w)')
    BY <2>1, BuiltRowStays, BuiltRunStays DEF Building, BuiltCall
  <2>3. QED
    BY <2>1, <2>2, CompleteStays DEF Building
<1>5. QED
  BY <1>1, <1>2, <1>3, <1>4, BuildingByQueue DEF Next, Work, RunStep, QueueStep

\* No row is inserted, and none changes its kind or progress.
SameRows == \A j \in JobIds : job'[j].kind = job[j].kind /\ job'[j].done = job[j].done

\* Who inserts rows, and that nobody else changes their kind or progress.
LEMMA SameByCalls ==
  ASSUME TypeOK, NEW c \in Calls, Ask(c) \/ Answer(c) \/ ApiStops(c)
  PROVE  Create(c) \/ RetryWrite(c) \/ ScheduleWrite(c) \/ MigrateWrite(c) \/ SameRows
<1> USE DEF tenant, queue, bounds
<1>1. CASE CancelJob(c)
  <2>1. PICK i : i = call[c].job
    OBVIOUS
  <2>2. job' = [job EXCEPT ![i] = [job[i] EXCEPT !.status = "failed", !.cancelled = TRUE]]
    BY <1>1, <2>1 DEF CancelJob
  <2>3. job \in [JobIds -> JobType \cup {Unused}]
    BY DEF TypeOK
  <2>4. QED
    BY <2>2, <2>3 DEF JobType, Unused, SameRows
<1>2. CASE job' = job
  BY <1>2 DEF SameRows
<1>3. QED
  BY <1>1, <1>2 DEF Ask, Answer, ApiStops, RetryRead, Suspend, Activate, ScheduleRead, CancelRead, MigrateRead, Enqueue,
     CancelStatus

\* A handler changes no row but for the record of the invitation.
LEMMA SameByHandler ==
  ASSUME TypeOK, NEW w \in Workers, Handler(w)
  PROVE  SameRows
<1>1. CASE RecordInvitation(w)
  <2>1. PICK i : i = worker[w].job
    OBVIOUS
  <2>2. job' = [job EXCEPT ![i] = [job[i] EXCEPT !.invited = TRUE]] /\ job \in [JobIds -> JobType \cup {Unused}]
    BY <1>1, <2>1 DEF RecordInvitation, TypeOK
  <2>3. QED
    BY <2>2 DEF JobType, Unused, SameRows
<1>2. CASE ~RecordInvitation(w)
  <2>1. job' = job
    BY <1>2, HandlerDoes
  <2>2. QED
    BY <2>1 DEF SameRows
<1>3. QED
  BY <1>1, <1>2

\* The queue and the passing of time change no kind and no progress.
LEMMA SameByQueue ==
  ASSUME TypeOK, QueueStep
  PROVE  SameRows
<1> USE DEF tenant, queue, bounds
<1>1. CASE \E x \in JobIds : TimeOutJob(x)
  <2>1. PICK x \in JobIds : TimeOutJob(x)
    BY <1>1
  <2>2. job' = [job EXCEPT ![x] = [job[x] EXCEPT !.status = "failed", !.cancelled = FALSE]]
    BY <2>1 DEF TimeOutJob
  <2>3. job \in [JobIds -> JobType \cup {Unused}]
    BY DEF TypeOK
  <2>4. QED
    BY <2>2, <2>3 DEF JobType, Unused, SameRows
<1>2. CASE ~ \E x \in JobIds : TimeOutJob(x)
  <2>1. job' = job
    BY <1>2 DEF QueueStep, DelayElapses, Stalled, Pick, OrphanExpires, LockExpires
  <2>2. QED
    BY <2>1 DEF SameRows
<1>3. QED
  BY <1>1, <1>2

\* Only the later steps of a decommission take something away.
Demolishes(w) == DropDatabase(w) \/ DropRole(w) \/ DeleteStorage(w) \/ DisableMemberships(w)

\* Every other step takes nothing away.
LEMMA KeepsUnless ==
  ASSUME TypeOK, [Next]_vars, \A w \in Workers : ~Demolishes(w)
  PROVE  Keeps
<1> USE DEF tenant, queue, bounds
<1> infra \in InfraType
  BY DEF TypeOK
<1>1. CASE infra' = infra
  BY <1>1 DEF Keeps
<1>2. ASSUME NEW w \in Workers, Handler(w)
      PROVE  Keeps
  BY <1>2 DEF Handler, Builds, ValidateProvision, CreateRole, CreateDatabase,
     SecureDatabase, MarkMigrating, Migrated, ConfigureStorage, CreateTenantAdmin, SendInvitation,
     RecordInvitation, ActivateTenant, ValidateDecommission, RevokeAndClose, Finalize, Demolishes, Keeps, InfraType
<1>3. ASSUME NEW w \in Workers, RunStep(w)
      PROVE  Keeps
  BY <1>3 DEF RunStep, Acquire, LockBusy, SaveStep, Succeed, Throw, MarkFailed, Thrown, MigrateAllPick, MigrateAllMark,
     MigrateAllApply, WorkerStops, Keeps, InfraType
<1>4. ASSUME NEW c \in Calls, Ask(c) \/ Answer(c) \/ ApiStops(c)
      PROVE  infra' = infra
  BY <1>4 DEF Ask, Answer, ApiStops, Create, RetryRead, Suspend, Activate, ScheduleRead, CancelRead,
     MigrateRead, Enqueue, RetryWrite, ScheduleWrite, CancelStatus, CancelJob, MigrateWrite
<1>5. ASSUME QueueStep
      PROVE  infra' = infra
  BY <1>5 DEF QueueStep, DelayElapses, Stalled, TimeOutJob, Pick, OrphanExpires, LockExpires
<1>6. ASSUME UNCHANGED vars
      PROVE  infra' = infra
  BY <1>6 DEF vars
<1>7. QED
  BY <1>1, <1>2, <1>3, <1>4, <1>5, <1>6 DEF Next, Work, RunStep, QueueStep

(***************************************************************************)
(* Tenants that are never decommissioned                                   *)
(***************************************************************************)

\* There is no decommission: no row, no run and no call that makes one.
NoneScheduled ==
  /\ \A j \in JobIds : job[j].kind # "decommission"
  /\ \A c \in Calls : call[c].op \notin {"schedule", "cancel", "cancelJob"}
  /\ \A w \in Workers : worker[w].phase \in WithJob => worker[w].kind # "decommission"

\* Inserting a row leaves the others as they are.
LEMMA InsertsKind ==
  ASSUME TypeOK, NEW kind \in Kinds, NEW invited \in BOOLEAN, Insert(kind, invited)
  PROVE  \A j \in JobIds : job'[j] = job[j] \/ (j = InsertedId /\ job'[j].kind = kind /\ job'[j].done = 0)
<1>1. job' = [job EXCEPT ![InsertedId] = NewJob(kind, invited)] /\ job \in [JobIds -> JobType \cup {Unused}]
  BY DEF Insert, InsertedId, TypeOK
<1>2. NewJob(kind, invited).kind = kind /\ NewJob(kind, invited).done = 0
  BY DEF NewJob
<1>3. QED
  BY <1>1, <1>2

\* Where none is asked for there is never one.
LEMMA NoneScheduledStep ==
  ASSUME TypeOK, RowsExist, NoneScheduled, [Next]_vars, "schedule" \notin Operations
  PROVE  NoneScheduled'
<1> USE DEF tenant, queue, bounds
<1>1. ASSUME NEW c \in Calls, Ask(c) \/ Answer(c) \/ ApiStops(c)
      PROVE  NoneScheduled'
  <2>1. worker' = worker /\ ~ScheduleWrite(c) /\ ~ScheduleRead(c) /\ ~CancelRead(c) /\ ~CancelStatus(c) /\ ~CancelJob(c)
    BY <1>1 DEF NoneScheduled, Ask, Answer, ApiStops, Create, RetryRead, Suspend, Activate, ScheduleRead, CancelRead,
     MigrateRead, Enqueue, RetryWrite, ScheduleWrite, CancelStatus, CancelJob, MigrateWrite, Begin, IsLatest, Cancellable
  <2>2. \A j \in JobIds : job'[j].kind # "decommission"
    <3>1. CASE Create(c)
      <4>1. Insert("provision", FALSE)
        BY <3>1 DEF Create
      <4>2. QED
        BY <4>1, InsertsKind DEF NoneScheduled, Kinds
    <3>2. CASE MigrateWrite(c)
      <4>1. Insert("migrate", FALSE)
        BY <3>2 DEF MigrateWrite
      <4>2. QED
        BY <4>1, InsertsKind DEF NoneScheduled, Kinds
    <3>3. CASE RetryWrite(c)
      <4>1. call[c] \in CallType /\ call[c].op = "retry" /\ Insert("provision", call[c].invited)
        BY <3>3 DEF TypeOK, RetryWrite
      <4>2. call[c].invited \in BOOLEAN
        BY <4>1 DEF CallType, NoCall
      <4>3. QED
        BY <4>1, <4>2, InsertsKind DEF NoneScheduled, Kinds
    <3>4. CASE SameRows
      BY <3>4 DEF SameRows, NoneScheduled
    <3>5. QED
      BY <1>1, <2>1, <3>1, <3>2, <3>3, <3>4, SameByCalls
  <2>3. \A d \in Calls : call'[d].op \notin {"schedule", "cancel", "cancelJob"}
    <3>0. call \in [Calls -> CallType]
      BY DEF TypeOK
    <3>1. CASE Enqueue(c) \/ ApiStops(c)
      <4>1. call' = [call EXCEPT ![c] = NoCall]
        BY <3>1 DEF Enqueue, ApiStops, Return
      <4>2. QED
        BY <3>0, <4>1 DEF NoneScheduled, NoCall
    <3>2. CASE Create(c) \/ RetryWrite(c) \/ MigrateWrite(c)
      <4>1. call' = [call EXCEPT ![c] = [op |-> "enqueue", job |-> InsertedId]]
        BY <3>2 DEF Create, RetryWrite, MigrateWrite, Begin, Continue
      <4>2. QED
        BY <3>0, <4>1 DEF NoneScheduled
    <3>3. CASE MigrateRead(c)
      <4>1. call' = [call EXCEPT ![c] = [op |-> "migrate"]]
        BY <3>3 DEF MigrateRead, Begin
      <4>2. QED
        BY <3>0, <4>1 DEF NoneScheduled
    <3>4. CASE RetryRead(c)
      <4>1. PICK b : call' = [call EXCEPT ![c] = [op |-> "retry", invited |-> b]]
        BY <3>4 DEF RetryRead, Begin
      <4>2. QED
        BY <3>0, <4>1 DEF NoneScheduled
    <3>5. CASE Suspend(c) \/ Activate(c)
      BY <3>5 DEF Suspend, Activate, NoneScheduled
    <3>6. QED
      BY <1>1, <2>1, <3>1, <3>2, <3>3, <3>4, <3>5 DEF Ask, Answer
  <2>4. QED
    BY <2>1, <2>2, <2>3 DEF NoneScheduled
<1>2. ASSUME NEW w \in Workers, Handler(w)
      PROVE  NoneScheduled'
  <2>1. HandlerEffect(w) /\ SameRows /\ worker[w].phase \in WithJob
    BY <1>2, HandlerDoes, SameByHandler DEF HandlerEffect, WithJob
  <2>2. QED
    BY <2>1 DEF HandlerEffect, SameRows, NoneScheduled
<1>3. ASSUME NEW w \in Workers, RunStep(w)
      PROVE  NoneScheduled'
  <2>1. call' = call /\ (\A v \in Workers : v # w => worker'[v] = worker[v])
        /\ (worker'[w].phase \in WithJob => worker[w].phase \in WithJob /\ worker'[w].kind = worker[w].kind)
    BY <1>3, RunStepDoes DEF WithJob
  <2>2. \A j \in JobIds : job'[j].kind # "decommission"
    <3>1. CASE SaveStep(w)
      <4>1. PICK x, n : job' = [job EXCEPT ![x] = [job[x] EXCEPT !.done = n]] /\ job[x] \in JobType \cup {Unused}
        BY <1>3, <3>1, RunStepDoes
      <4>2. [job[x] EXCEPT !.done = n].kind = job[x].kind
        BY <4>1 DEF JobType, Unused
      <4>3. QED
        BY <4>1, <4>2 DEF TypeOK, NoneScheduled
    <3>2. CASE ~SaveStep(w)
      BY <1>3, <3>2, RunStepDoes DEF NoneScheduled
    <3>3. QED
      BY <3>1, <3>2
  <2>3. QED
    BY <2>1, <2>2 DEF NoneScheduled
<1>4. CASE QueueStep
  <2>1. call' = call /\ SameRows
    BY <1>4, SameByQueue DEF QueueStep, DelayElapses, Stalled, TimeOutJob, Pick, OrphanExpires, LockExpires
  <2>2. \A w \in Workers : worker'[w].phase \in WithJob => worker'[w].kind # "decommission"
    <3>1. CASE worker' = worker
      BY <3>1 DEF NoneScheduled, WithJob
    <3>2. CASE worker' # worker
      <4>1. PICK j \in JobIds, w \in Workers :
              worker' = [worker EXCEPT ![w] = [phase |-> "read", job |-> j, kind |-> job[j].kind, at |-> job[j].done + 1,
                                               invited |-> job[j].invited]]
        BY <1>4, <3>2 DEF QueueStep, DelayElapses, Stalled, TimeOutJob, OrphanExpires, LockExpires, Pick
      <4>2. QED
        BY <4>1 DEF TypeOK, NoneScheduled
    <3>3. QED
      BY <3>1, <3>2
  <2>3. QED
    BY <2>1, <2>2 DEF SameRows, NoneScheduled
<1>5. CASE UNCHANGED vars
  BY <1>5 DEF vars, NoneScheduled, WithJob
<1>6. QED
  BY <1>1, <1>2, <1>3, <1>4, <1>5 DEF Next, Work, RunStep, QueueStep

\* There is nothing yet that could be believed to be built.
LEMMA BuildingAtFirst == Init => Building
  BY DEF Init, Building, BuiltRow, BuiltCall, BuiltRun, ReachableIsComplete, Unused, NoCall, NoRun, WithJob

\* "A tenant only becomes active after every step succeeds, so partially
\* initialized tenants are never reachable": so it is for a tenant that nobody
\* decommissions, for any number of retries, crashes, stalled and redelivered
\* jobs, and locks that expire.
THEOREM CompleteWhileKept == ASSUME "schedule" \notin Operations PROVE Spec => []ReachableIsComplete
<1>1. Init => NoneScheduled /\ Building
  BY BuildingAtFirst DEF Init, NoneScheduled, Unused, NoCall, NoRun, WithJob
<1>2. IInv /\ NoneScheduled /\ Building /\ [Next]_vars => (NoneScheduled /\ Building)'
  <2> SUFFICES ASSUME TypeOK, RowsExist, NoneScheduled, Building, [Next]_vars
               PROVE  NoneScheduled' /\ Building'
    BY DEF IInv
  <2>1. \A w \in Workers : ~Demolishes(w)
    BY DEF Demolishes, DropDatabase, DropRole, DeleteStorage, DisableMemberships, Builds, At, NoneScheduled, WithJob
  <2>2. QED
    BY <2>1, KeepsUnless, NoneScheduledStep, BuildingStep DEF NoneScheduled, Agrees
<1>3. Building => ReachableIsComplete
  BY DEF Building
<1>4. QED
  BY InitInv, NextInv, <1>1, <1>2, <1>3, PTL DEF Spec

(***************************************************************************)
(* Tenants that are decommissioned, and not called back                    *)
(***************************************************************************)

\* The row is a decommission.
Demolition(j) == job[j].kind = "decommission"
\* The job was put into the queue, and is not delayed any more.
Touched(j) == bull[j].state \notin {"none", "delayed"}

\* The queue has been given the job that provisions, a worker one that demolishes.
Handed == \E j \in JobIds : job[j].kind = "provision" /\ Touched(j)
\* A worker has been given a decommission.
Begun == \E j \in JobIds : Demolition(j) /\ Touched(j)

\* A decommission has passed its validation.
Torn == \E j \in JobIds : Demolition(j) /\ job[j].done > 0

\* What the first n steps of a decommission leave behind.
Razed(n) ==
  /\ n >= 4 => ~infra.database
  /\ n >= 5 => ~infra.role
  /\ n >= 6 => ~infra.storage
  /\ n >= 7 => ~infra.admin

\* The tenant is on its way out, or out.
Leaving == status \in {"decommissioning", "decommissioned"}

\* Rows are inserted in the order of their ids.
RowsInOrder == \E n \in 0..MaxJobs : Inserted = 1..n

\* Of a call: the row it enqueues is in no queue yet and its own, and one that
\* schedules or migrates has found a tenant whose provisioning was begun.
CallOk(c) ==
  /\ call[c].op \in {"none", "enqueue", "schedule", "migrate"}
  /\ call[c].op = "enqueue" =>
       /\ job[call[c].job] # Unused /\ bull[call[c].job].state = "none"
       /\ \A d \in Calls : call[d].op = "enqueue" /\ call[d].job = call[c].job => d = c
  /\ call[c].op \in {"schedule", "migrate"} => Handed

\* Of a row: only decommissions are delayed; the one provisioning is over before a
\* decommission begins, and begun before anything else is queued; what a
\* decommission has done is done.
RowOk(j) ==
  /\ bull[j].state = "delayed" => Demolition(j)
  /\ job[j].kind = "provision" => j = 1 /\ (Begun => bull[j].state \in {"failed", "done"})
  /\ job[j].kind \in {"decommission", "migrate"} => Handed
  /\ Demolition(j) => Razed(job[j].done) /\ (job[j].done > 0 => Touched(j))

\* Of a run: its job is active and its own, and it is where the row says.
RunOk(w) ==
  LET r == worker[w] IN
  r.phase \in WithJob =>
    /\ bull[r.job].state = "active" /\ r.kind = job[r.job].kind /\ r.at = job[r.job].done + 1
    /\ \A v \in Workers : worker[v].phase \in WithJob /\ worker[v].job = r.job => v = w
    /\ r.kind = "decommission" /\ r.phase = "save" => Razed(r.at) /\ Leaving
    /\ r.phase = "failing" => r.kind = "provision"
    /\ r.kind = "decommission" => r.phase \notin {"migrate", "mailed"}

\* The invariant: one provisioning, then nothing that builds beside what is demolished.
Orderly ==
  /\ RowsInOrder
  /\ \A c \in Calls : CallOk(c)
  /\ \A j \in JobIds : RowOk(j)
  /\ \A w \in Workers : RunOk(w)
  /\ status = "absent" => Inserted = {}
  /\ status \notin {"absent", "provisioning"} => Handed
  /\ Torn => Leaving
  /\ status = "decommissioned" => Begun /\ Razed(7)
  /\ ~Torn => Building

\* The row that is inserted was unused, and is the next one.
LEMMA NextRow ==
  ASSUME TypeOK, RowsInOrder, NEW kind \in Kinds, NEW invited \in BOOLEAN, Insert(kind, invited)
  PROVE  /\ InsertedId \in JobIds /\ job[InsertedId] = Unused
         /\ job' = [job EXCEPT ![InsertedId] = NewJob(kind, invited)]
         /\ Inserted = {} => InsertedId = 1
         /\ RowsInOrder'
<1>1. PICK n \in 0..MaxJobs : Inserted = 1..n
  BY DEF RowsInOrder
<1>2. Cardinality(Inserted) = n
  <2>1. n \in Nat /\ MaxJobs \in Nat
    BY LifecycleAssumption
  <2>2. Cardinality(1..n) = IF 1 > n THEN 0 ELSE n - 1 + 1
    BY <2>1, FS_Interval
  <2>3. QED
    BY <1>1, <2>1, <2>2
<1>3. InsertedId = n + 1 /\ n + 1 <= MaxJobs /\ MaxJobs \in Nat /\ n \in Nat
  BY <1>2, LifecycleAssumption DEF InsertedId, Insert
<1>4. InsertedId \in JobIds
  BY <1>3 DEF JobIds
<1>5. job[InsertedId] = Unused
  BY <1>1, <1>3, <1>4 DEF Inserted
<1>6. job' = [job EXCEPT ![InsertedId] = NewJob(kind, invited)]
  BY DEF Insert, InsertedId
<1>7. NewJob(kind, invited) # Unused
  BY DEF NewJob, Unused, Kinds
<1>8. Inserted' = 1..(n + 1)
  <2>1. \A j \in JobIds : job'[j] # Unused <=> (j = n + 1 \/ job[j] # Unused)
    BY <1>3, <1>4, <1>6, <1>7 DEF TypeOK
  <2>2. \A j \in JobIds : j \in Inserted' <=> (j = n + 1 \/ j \in Inserted)
    BY <2>1 DEF Inserted
  <2>3. Inserted' \subseteq JobIds
    BY DEF Inserted
  <2>4. JobIds = 1..MaxJobs
    BY DEF JobIds
  <2>5. Inserted' = {j \in JobIds : j = n + 1 \/ j \in Inserted}
    BY <2>2, <2>3
  <2>6. {j \in 1..MaxJobs : j = n + 1 \/ j \in 1..n} = 1..(n + 1)
    BY <1>3
  <2>7. QED
    BY <1>1, <2>4, <2>5, <2>6
<1>9. Inserted = {} => n = 0
  BY <1>1, <1>3
<1>10. QED
  BY <1>3, <1>4, <1>5, <1>6, <1>8, <1>9 DEF RowsInOrder

\* What there is in the queue for a job, and what becomes of it.
BullMove(j) ==
  LET s == bull[j].state
      t == bull'[j].state IN
  \/ t = s
  \/ s = "none" /\ t = "delayed" /\ Demolition(j)
  \/ s = "none" /\ t = "waiting" /\ ~Demolition(j) /\ job[j] # Unused
  \/ s = "delayed" /\ t = "waiting" /\ DelayElapses(j)
  \/ s = "waiting" /\ t \in {"active", "done"}
  \/ s = "active" /\ t \in {"waiting", "failed", "done"}

\* An attempt that threw is queued again or given up.
LEMMA AttemptThrewState == \A b \in BullType : AttemptThrew(b).state \in {"failed", "waiting"}
  BY DEF AttemptThrew, BullType

\* Every step moves the entry of a job along BullMove.
LEMMA BullMoves ==
  ASSUME TypeOK, Orderly, [Next]_vars, NEW j \in JobIds
  PROVE  BullMove(j)
<1> USE DEF tenant, queue, bounds
<1>0. bull \in [JobIds -> BullType]
  BY DEF TypeOK
<1>1. CASE bull' = bull
  BY <1>1 DEF BullMove
<1>2. ASSUME NEW c \in Calls, Ask(c) \/ Answer(c) \/ ApiStops(c)
      PROVE  BullMove(j)
  <2>1. CASE Enqueue(c)
    <3>1. /\ call[c].op = "enqueue" /\ bull[call[c].job].state = "none" /\ job[call[c].job] # Unused
      BY <2>1 DEF Enqueue, Orderly, CallOk
    <3>2. PICK i : i = call[c].job
      OBVIOUS
    <3>3. bull' = [bull EXCEPT ![i] = [bull[i] EXCEPT !.state = IF job[i].kind = "decommission" THEN "delayed" ELSE "waiting"]]
      BY <2>1, <3>2 DEF Enqueue
    <3>4. QED
      BY <1>0, <3>1, <3>2, <3>3 DEF BullType, BullMove, Demolition
  <2>2. CASE CancelJob(c)
    BY <2>2 DEF CancelJob, Orderly, CallOk
  <2>3. CASE ~Enqueue(c) /\ ~CancelJob(c)
    BY <1>1, <1>2, <2>3 DEF Ask, Answer, ApiStops, Create, RetryRead, Suspend, Activate, ScheduleRead, CancelRead,
       MigrateRead, RetryWrite, ScheduleWrite, CancelStatus, MigrateWrite
  <2>4. QED
    BY <2>1, <2>2, <2>3
<1>3. ASSUME NEW w \in Workers, Handler(w)
      PROVE  BullMove(j)
  BY <1>1, <1>3, HandlerDoes DEF HandlerEffect
<1>4. ASSUME NEW w \in Workers, RunStep(w)
      PROVE  BullMove(j)
  <2>1. CASE LockBusy(w) \/ Thrown(w)
    <3>1. worker[w].phase \in WithJob /\ bull' = [bull EXCEPT ![worker[w].job] = AttemptThrew(@)]
      BY <2>1 DEF LockBusy, Thrown, WithJob
    <3>2. bull[worker[w].job].state = "active"
      BY <3>1 DEF Orderly, RunOk
    <3>3. QED
      BY <1>0, <3>1, <3>2, AttemptThrewState DEF BullMove
  <2>2. CASE Succeed(w)
    <3>1. PICK i : i = worker[w].job
      OBVIOUS
    <3>2. worker[w].phase \in WithJob /\ bull' = [bull EXCEPT ![i] = [bull[i] EXCEPT !.state = "done"]]
      BY <2>2, <3>1 DEF Succeed, WithJob
    <3>3. bull[i].state = "active"
      BY <3>1, <3>2 DEF Orderly, RunOk
    <3>4. QED
      BY <1>0, <3>2, <3>3 DEF BullMove, BullType
  <2>3. CASE ~LockBusy(w) /\ ~Thrown(w) /\ ~Succeed(w)
    BY <1>1, <1>4, <2>3 DEF RunStep, Acquire, SaveStep, Throw, MarkFailed, MigrateAllPick, MigrateAllMark,
       MigrateAllApply, WorkerStops
  <2>4. QED
    BY <2>1, <2>2, <2>3
<1>5. CASE QueueStep
  <2>1. ASSUME NEW i \in JobIds, DelayElapses(i)
        PROVE  BullMove(j)
    BY <1>0, <2>1 DEF DelayElapses, BullType, BullMove
  <2>2. ASSUME NEW i \in JobIds, Stalled(i)
        PROVE  BullMove(j)
    BY <1>0, <2>2 DEF Stalled, BullType, BullMove
  <2>3. ASSUME NEW i \in JobIds, NEW w \in Workers, Pick(w, i)
        PROVE  BullMove(j)
    BY <1>0, <2>3 DEF Pick, BullType, BullMove
  <2>4. CASE OrphanExpires \/ LockExpires \/ \E i \in JobIds : TimeOutJob(i)
    BY <1>1, <2>4 DEF OrphanExpires, LockExpires, TimeOutJob
  <2>5. QED
    BY <1>5, <2>1, <2>2, <2>3, <2>4 DEF QueueStep
<1>6. CASE UNCHANGED vars
  BY <1>1, <1>6 DEF vars
<1>7. QED
  BY <1>2, <1>3, <1>4, <1>5, <1>6 DEF Next, Work, RunStep, QueueStep

\* What a step does to the kind and the progress of a row: nothing, it saves the
\* progress of the run, or it inserts the row.
RowMove(j) ==
  \/ job'[j].kind = job[j].kind /\ job'[j].done = job[j].done
  \/ \E w \in Workers : /\ SaveStep(w) /\ worker[w].phase = "save" /\ worker[w].job = j
                        /\ job'[j].kind = job[j].kind /\ job'[j].done = worker[w].at
  \/ /\ job[j] = Unused /\ job'[j].done = 0 /\ bull' = bull /\ UNCHANGED <<infra, worker>>
     /\ \/ job'[j].kind = "provision" /\ j = 1 /\ Inserted = {}
        \/ job'[j].kind \in {"decommission", "migrate"} /\ Handed

\* Every step is one of these, for every row.
LEMMA RowMoves ==
  ASSUME TypeOK, Orderly, [Next]_vars, NEW j \in JobIds
  PROVE  RowMove(j)
<1> USE DEF tenant, queue, bounds
<1>0. RowsInOrder
  BY DEF Orderly
<1>1. ASSUME SameRows
      PROVE  RowMove(j)
  BY <1>1 DEF SameRows, RowMove
<1>2. ASSUME NEW c \in Calls, Ask(c) \/ Answer(c) \/ ApiStops(c)
      PROVE  RowMove(j)
  <2>1. ASSUME NEW kind \in Kinds, Insert(kind, FALSE), bull' = bull, UNCHANGED <<infra, worker>>,
               (kind = "provision" /\ Inserted = {}) \/ (kind \in {"decommission", "migrate"} /\ Handed)
        PROVE  RowMove(j)
    <3>1. /\ job' = [job EXCEPT ![InsertedId] = NewJob(kind, FALSE)] /\ job[InsertedId] = Unused
          /\ Inserted = {} => InsertedId = 1
      BY <1>0, <2>1, NextRow
    <3>2. NewJob(kind, FALSE).kind = kind /\ NewJob(kind, FALSE).done = 0
      BY DEF NewJob
    <3>3. job \in [JobIds -> JobType \cup {Unused}]
      BY DEF TypeOK
    <3>4. CASE j = InsertedId
      <4>1. job'[j].kind = kind /\ job'[j].done = 0
        BY <3>1, <3>2, <3>3, <3>4
      <4>2. QED
        BY <2>1, <3>1, <3>4, <4>1 DEF RowMove
    <3>5. CASE j # InsertedId
      BY <3>1, <3>3, <3>5 DEF RowMove
    <3>6. QED
      BY <3>4, <3>5
  <2>2. CASE Create(c)
    BY <2>1, <2>2 DEF Create, Orderly, Kinds
  <2>3. CASE ScheduleWrite(c)
    BY <2>1, <2>3 DEF ScheduleWrite, Orderly, CallOk, Kinds
  <2>4. CASE MigrateWrite(c)
    BY <2>1, <2>4 DEF MigrateWrite, Orderly, CallOk, Kinds
  <2>5. CASE RetryWrite(c)
    BY <2>5 DEF RetryWrite, Orderly, CallOk
  <2>6. QED
    BY <1>1, <1>2, <2>2, <2>3, <2>4, <2>5, SameByCalls
<1>3. ASSUME NEW w \in Workers, RunStep(w)
      PROVE  RowMove(j)
  <2>1. CASE SaveStep(w)
    <3>1. PICK x \in JobIds, n \in 1..9 : x = worker[w].job /\ n = worker[w].at
      BY <2>1, RunFields DEF SaveStep, WithJob
    <3>2. /\ job' = [job EXCEPT ![x] = [job[x] EXCEPT !.done = n]] /\ job[x] \in JobType \cup {Unused}
          /\ worker[w].phase = "save"
      BY <1>3, <2>1, <3>1, RunStepDoes
    <3>3. CASE j # x
      BY <3>2, <3>3 DEF TypeOK, RowMove
    <3>4. CASE j = x
      <4>1. job[x] \in JobType
        <5>1. worker[w].kind = job[x].kind /\ worker[w].kind \in Kinds
          BY <3>1, <3>2, RunFields DEF Orderly, RunOk, WithJob
        <5>2. QED
          BY <3>2, <5>1 DEF Kinds, Unused
      <4>2. job'[j].kind = job[j].kind /\ job'[j].done = n
        BY <3>2, <3>4, <4>1 DEF TypeOK, JobType
      <4>3. QED
        BY <2>1, <3>1, <3>2, <3>4, <4>2 DEF RowMove
    <3>5. QED
      BY <3>3, <3>4
  <2>2. CASE ~SaveStep(w)
    BY <1>3, <2>2, RunStepDoes DEF RowMove
  <2>3. QED
    BY <2>1, <2>2
<1>4. CASE UNCHANGED vars
  BY <1>1, <1>4 DEF vars, SameRows
<1>5. QED
  BY <1>1, <1>2, <1>3, <1>4, SameByHandler, SameByQueue DEF Next, Work, RunStep, QueueStep

\* A row without a kind is unused.
LEMMA UnusedKind == ASSUME TypeOK, NEW j \in JobIds PROVE job[j] = Unused <=> job[j].kind = "none"
  BY DEF TypeOK, JobType, Unused, Kinds

\* A job does not go back to where it was before it was delivered.
LEMMA TouchedStays ==
  ASSUME TypeOK, Orderly, [Next]_vars, NEW j \in JobIds, Touched(j)
  PROVE  Touched(j)'
<1>1. BullMove(j)
  BY BullMoves
<1>2. QED
  BY <1>1 DEF BullMove, Touched

\* A row keeps its kind.
LEMMA KindStays ==
  ASSUME TypeOK, Orderly, [Next]_vars, NEW j \in JobIds, job[j].kind # "none"
  PROVE  job'[j].kind = job[j].kind
  BY RowMoves, UnusedKind DEF RowMove

\* Three facts that last, once they hold.
LEMMA Stays ==
  ASSUME TypeOK, Orderly, [Next]_vars
  PROVE  (Handed => Handed') /\ (Begun => Begun') /\ (Torn => Torn')
<1>1. ASSUME Handed PROVE Handed'
  <2>1. PICK j \in JobIds : job[j].kind = "provision" /\ Touched(j)
    BY <1>1 DEF Handed
  <2>2. job'[j].kind = "provision" /\ Touched(j)'
    BY <2>1, KindStays, TouchedStays
  <2>3. QED
    BY <2>2 DEF Handed
<1>2. ASSUME Begun PROVE Begun'
  <2>1. PICK j \in JobIds : Demolition(j) /\ Touched(j)
    BY <1>2 DEF Begun
  <2>2. Demolition(j)' /\ Touched(j)'
    BY <2>1, KindStays, TouchedStays DEF Demolition
  <2>3. QED
    BY <2>2 DEF Begun
<1>3. ASSUME Torn PROVE Torn'
  <2>1. PICK j \in JobIds : Demolition(j) /\ job[j].done > 0
    BY <1>3 DEF Torn
  <2>2. Demolition(j)'
    BY <2>1, KindStays DEF Demolition
  <2>3. job[j] \in JobType
    BY <2>1 DEF Demolition, TypeOK, Unused
  <2>4. job'[j].done > 0
    <3>1. CASE \E w \in Workers : /\ SaveStep(w) /\ worker[w].phase = "save" /\ worker[w].job = j
                                  /\ job'[j].kind = job[j].kind /\ job'[j].done = worker[w].at
      <4>1. PICK w \in Workers : worker[w].phase = "save" /\ worker[w].job = j /\ job'[j].done = worker[w].at
        BY <3>1
      <4>2. worker[w].at \in 1..9
        BY <4>1, RunFields DEF WithJob
      <4>3. QED
        BY <4>1, <4>2
    <3>2. CASE job'[j].done = job[j].done
      BY <2>1, <3>2
    <3>3. QED
      BY <2>1, <3>1, <3>2, RowMoves, UnusedKind DEF RowMove, Demolition
  <2>5. QED
    BY <2>2, <2>4 DEF Torn
<1>4. QED
  BY <1>1, <1>2, <1>3

\* The first decommission begins when its delay elapses.
LEMMA BegunByDelay ==
  ASSUME TypeOK, RowsExist, Orderly, [Next]_vars, Begun', ~Begun
  PROVE  \E k \in JobIds : Demolition(k) /\ DelayElapses(k)
<1>1. PICK j \in JobIds : Demolition(j)' /\ Touched(j)'
  BY DEF Begun
<1>2. BullMove(j) /\ RowMove(j)
  BY BullMoves, RowMoves
<1>3. CASE job[j] = Unused
  <2>1. bull[j].state = "none"
    BY <1>3 DEF RowsExist, JobType, Unused, Kinds
  <2>2. ~Demolition(j)
    BY <1>3 DEF Demolition, Unused
  <2>3. bull'[j].state = "none"
    BY <1>2, <1>3, <2>1, <2>2 DEF BullMove
  <2>4. QED
    BY <1>1, <2>3 DEF Touched
<1>4. CASE job[j] # Unused
  <2>1. Demolition(j)
    BY <1>1, <1>4, KindStays, UnusedKind DEF Demolition
  <2>2. ~Touched(j)
    BY <2>1 DEF Begun
  <2>3. QED
    BY <1>1, <1>2, <2>1, <2>2 DEF BullMove, Touched
<1>5. QED
  BY <1>3, <1>4

\* Once a decommission has begun nothing is built any more.
LEMMA NobodyBuilds ==
  ASSUME TypeOK, Orderly, Begun, NEW w \in Workers, worker[w].phase \in WithJob
  PROVE  worker[w].kind # "provision"
  <1>1. worker[w].job \in JobIds
    BY RunFields
  <1>2. QED
    BY <1>1 DEF Orderly, RunOk, RowOk

\* Where a decommission runs one has begun.
LEMMA DemolitionBegun ==
  ASSUME TypeOK, Orderly, NEW w \in Workers, worker[w].phase \in WithJob, worker[w].kind = "decommission"
  PROVE  Begun /\ Demolition(worker[w].job) /\ worker[w].job \in JobIds
  <1>1. worker[w].job \in JobIds
    BY RunFields
  <1>2. QED
    BY <1>1 DEF Orderly, RunOk, Begun, Demolition, Touched

\* A step that builds nothing.
Shrinks ==
  /\ ~infra.role => ~infra'.role
  /\ ~infra.database => ~infra'.database
  /\ ~infra.storage => ~infra'.storage
  /\ ~infra.admin => ~infra'.admin

\* Once a decommission has begun nothing is built, and the tenant stays on its way out.
LEMMA RazedStays ==
  ASSUME TypeOK, Orderly, [Next]_vars, Begun
  PROVE  Shrinks /\ (Leaving => Leaving')
<1> USE DEF tenant, queue, bounds
<1> infra \in InfraType
  BY DEF TypeOK
<1>1. ASSUME NEW w \in Workers, Handler(w)
      PROVE  Shrinks /\ (Leaving => Leaving')
  <2>1. ASSUME NEW step, At(w, "provision", step) PROVE FALSE
    BY <2>1, NobodyBuilds, AtType DEF At, Kinds
  <2>2. ~ValidateProvision(w) /\ ~CreateRole(w) /\ ~CreateDatabase(w) /\ ~ConfigureStorage(w) /\ ~CreateTenantAdmin(w)
        /\ ~ActivateTenant(w) /\ ~SendInvitation(w)
    BY <2>1 DEF ValidateProvision, CreateRole, CreateDatabase, ConfigureStorage, CreateTenantAdmin, ActivateTenant,
       SendInvitation, Builds
  <2>3. QED
    BY <1>1, <2>2 DEF Handler, Builds, SecureDatabase, MarkMigrating, Migrated, RecordInvitation, ValidateDecommission,
       RevokeAndClose, DropDatabase, DropRole, DeleteStorage, DisableMemberships, Finalize, Shrinks, InfraType, Leaving
<1>2. ASSUME NEW w \in Workers, RunStep(w)
      PROVE  Shrinks /\ (Leaving => Leaving')
  <2>1. ~MarkFailed(w)
    <3>1. worker[w].phase = "failing" => worker[w].kind = "provision"
      BY RunFields DEF Orderly, RunOk, WithJob
    <3>2. QED
      BY <3>1, NobodyBuilds DEF MarkFailed, WithJob
  <2>2. QED
    BY <1>2, <2>1 DEF RunStep, Acquire, LockBusy, SaveStep, Succeed, Throw, Thrown, MigrateAllPick, MigrateAllMark,
     MigrateAllApply, WorkerStops, Shrinks, InfraType, Leaving
<1>3. ASSUME NEW c \in Calls, Ask(c) \/ Answer(c) \/ ApiStops(c)
      PROVE  Shrinks /\ (Leaving => Leaving')
  <2>1. ~CancelStatus(c) /\ ~CancelJob(c) /\ ~RetryWrite(c)
    BY DEF CancelStatus, CancelJob, RetryWrite, Orderly, CallOk
  <2>2. QED
    BY <1>3, <2>1 DEF Ask, Answer, ApiStops, Create, RetryRead, Suspend, Activate, ScheduleRead, CancelRead,
     MigrateRead, Enqueue, ScheduleWrite, MigrateWrite, Shrinks, Leaving
<1>4. CASE QueueStep \/ UNCHANGED vars
  BY <1>4 DEF QueueStep, DelayElapses, Stalled, TimeOutJob, Pick, OrphanExpires, LockExpires, vars, Shrinks, Leaving
<1>5. QED
  BY <1>1, <1>2, <1>3, <1>4 DEF Next, Work, RunStep, QueueStep

\* What no longer exists stays gone once a decommission has begun.
LEMMA RazedKept ==
  ASSUME TypeOK, Orderly, [Next]_vars, Begun, NEW n \in 0..9, Razed(n)
  PROVE  Razed(n)'
  BY RazedStays DEF Razed, Shrinks

\* A decommission with progress has begun, of a tenant that is on its way out.
LEMMA TornBegun ==
  ASSUME TypeOK, Orderly, NEW j \in JobIds, Demolition(j), job[j].done > 0
  PROVE  Torn /\ Begun /\ Leaving
  BY DEF Orderly, RowOk, Torn, Begun

\* The progress of a row is a number of steps.
LEMMA DoneType == ASSUME TypeOK, NEW j \in JobIds, job[j].kind # "none" PROVE job[j].done \in 0..9
<1>1. job[j] \in JobType
  BY DEF TypeOK, Unused
<1>2. QED
  BY <1>1 DEF JobType

\* The provisioning that was handed over is the first row.
LEMMA TouchedProvision ==
  ASSUME TypeOK, Orderly, Handed
  PROVE  1 \in JobIds /\ job[1].kind = "provision" /\ Touched(1)
<1>1. PICK j \in JobIds : job[j].kind = "provision" /\ Touched(j)
  BY DEF Handed
<1>2. j = 1
  BY <1>1 DEF Orderly, RowOk
<1>3. QED
  BY <1>1, <1>2

\* The invariant of a row, over a step.
LEMMA RowOkStep ==
  ASSUME TypeOK, RowsExist, Orderly, [Next]_vars, LongGrace, NEW j \in JobIds
  PROVE  RowOk(j)'
<1>1. BullMove(j) /\ RowMove(j) /\ RowOk(j)
  BY BullMoves, RowMoves DEF Orderly
<1>2. bull'[j].state = "delayed" => Demolition(j)'
  <2>1. bull'[j].state = "delayed" => Demolition(j)
    BY <1>1 DEF BullMove, RowOk
  <2>2. Demolition(j) => Demolition(j)'
    BY KindStays DEF Demolition
  <2>3. QED
    BY <2>1, <2>2
<1>3. ASSUME job'[j].kind = "provision"
      PROVE  j = 1 /\ (Begun' => bull'[j].state \in {"failed", "done"})
  <2>1. \/ job[j].kind = "provision"
        \/ job[j] = Unused /\ j = 1 /\ Inserted = {} /\ bull' = bull
    BY <1>1, <1>3 DEF RowMove
  <2>2. j = 1
    BY <1>1, <2>1 DEF RowOk
  <2>3. ASSUME Begun, Begun'
        PROVE  bull'[j].state \in {"failed", "done"}
    <3>1. PICK k \in JobIds : Demolition(k)
      BY <2>3 DEF Begun
    <3>2. k \in Inserted
      BY <3>1 DEF Demolition, Inserted, Unused
    <3>3. bull[j].state \in {"failed", "done"}
      BY <1>1, <2>1, <2>3, <3>2 DEF RowOk
    <3>4. QED
      BY <1>1, <3>3 DEF BullMove
  <2>4. ASSUME ~Begun, Begun'
        PROVE  bull'[j].state \in {"failed", "done"}
    <3>1. PICK k \in JobIds : Demolition(k) /\ DelayElapses(k)
      BY <2>4, BegunByDelay
    <3>2. Handed
      BY <3>1 DEF Orderly, RowOk, Demolition
    <3>3. job[j].kind = "provision" /\ Touched(j)
      BY <2>2, <3>2, TouchedProvision
    <3>4. bull[j].state \notin {"none", "delayed", "waiting", "active"}
      BY <3>1, <3>3 DEF Touched, DelayElapses
    <3>5. k # j
      BY <3>1, <3>3 DEF Demolition
    <3>6. bull'[j] = bull[j] /\ bull[j].state \in {"none", "delayed", "waiting", "active", "failed", "done"}
      BY <3>1, <3>5 DEF DelayElapses, TypeOK, BullType
    <3>7. QED
      BY <3>4, <3>6
  <2>5. QED
    BY <2>2, <2>3, <2>4
<1>4. job'[j].kind \in {"decommission", "migrate"} => Handed'
  <2>1. job'[j].kind \in {"decommission", "migrate"} => Handed
    BY <1>1 DEF RowMove, RowOk
  <2>2. QED
    BY <2>1, Stays
<1>5. ASSUME Demolition(j)'
      PROVE  \E n \in 0..9 : n = job'[j].done /\ Razed(n)' /\ (n > 0 => Touched(j)')
  <2>1. CASE job'[j].kind = job[j].kind /\ job'[j].done = job[j].done
    <3>1. Demolition(j) /\ RowOk(j)
      BY <1>1, <1>5, <2>1 DEF Demolition
    <3>2. PICK n \in 0..9 : n = job[j].done
      BY <3>1, DoneType DEF Demolition
    <3>3. Razed(n) /\ (n > 0 => Touched(j) /\ Begun)
      BY <3>1, <3>2, TornBegun DEF RowOk
    <3>4. n = 0 => Razed(n)'
      BY DEF Razed
    <3>5. QED
      BY <2>1, <3>2, <3>3, <3>4, RazedKept, TouchedStays
  <2>2. CASE \E w \in Workers : /\ SaveStep(w) /\ worker[w].phase = "save" /\ worker[w].job = j
                                /\ job'[j].kind = job[j].kind /\ job'[j].done = worker[w].at
    <3>1. PICK w \in Workers : /\ SaveStep(w) /\ worker[w].phase = "save" /\ worker[w].job = j
                               /\ job'[j].kind = job[j].kind /\ job'[j].done = worker[w].at
      BY <2>2
    <3>2. PICK n \in 1..9 : n = worker[w].at
      BY <3>1, RunFields DEF WithJob
    <3>3. Razed(n) /\ bull[j].state = "active"
      BY <1>5, <3>1, <3>2 DEF Orderly, RunOk, WithJob, Demolition
    <3>4. infra' = infra /\ bull' = bull
      BY <3>1 DEF SaveStep, tenant
    <3>5. Razed(n)' /\ Touched(j)'
      BY <3>3, <3>4 DEF Razed, Touched
    <3>6. QED
      BY <3>1, <3>2, <3>5
  <2>3. CASE job'[j].done = 0
    <3>1. \A n \in 0..9 : n = 0 => Razed(n)'
      BY DEF Razed
    <3>2. QED
      BY <2>3, <3>1
  <2>4. QED
    BY <1>1, <2>1, <2>2, <2>3 DEF RowMove
<1>6. Demolition(j)' => Razed(job[j].done)' /\ (job'[j].done > 0 => Touched(j)')
  BY <1>5 DEF Razed
<1>7. QED
  BY <1>2, <1>3, <1>4, <1>6 DEF RowOk

\* Only its enqueueing puts a job into the queue.
LEMMA NoneStays ==
  ASSUME TypeOK, Orderly, [Next]_vars, NEW j \in JobIds, bull[j].state = "none",
         \A c \in Calls : Enqueue(c) => call[c].job # j
  PROVE  bull'[j].state = "none"
<1> USE DEF tenant, queue, bounds
<1>0. bull \in [JobIds -> BullType]
  BY DEF TypeOK
<1>1. ASSUME NEW c \in Calls, Ask(c) \/ Answer(c) \/ ApiStops(c)
      PROVE  bull'[j] = bull[j]
  <2>1. CASE Enqueue(c)
    <3>1. PICK i : i = call[c].job
      OBVIOUS
    <3>2. i # j /\ bull' = [bull EXCEPT ![i] = [bull[i] EXCEPT !.state = IF job[i].kind = "decommission" THEN "delayed" ELSE "waiting"]]
      BY <2>1, <3>1 DEF Enqueue
    <3>3. QED
      BY <1>0, <3>2
  <2>2. ~CancelJob(c)
    BY DEF CancelJob, Orderly, CallOk
  <2>3. CASE ~Enqueue(c)
    BY <1>1, <2>2, <2>3 DEF Ask, Answer, ApiStops, Create, RetryRead, Suspend, Activate, ScheduleRead, CancelRead,
       MigrateRead, RetryWrite, ScheduleWrite, CancelStatus, MigrateWrite
  <2>4. QED
    BY <2>1, <2>3
<1>2. ASSUME NEW w \in Workers, Handler(w)
      PROVE  bull'[j] = bull[j]
  BY <1>2, HandlerDoes DEF HandlerEffect
<1>3. ASSUME NEW w \in Workers, RunStep(w)
      PROVE  bull'[j] = bull[j]
  <2>1. CASE LockBusy(w) \/ Thrown(w) \/ Succeed(w)
    <3>1. PICK i : i = worker[w].job
      OBVIOUS
    <3>2. worker[w].phase \in WithJob /\ \E b : bull' = [bull EXCEPT ![i] = b]
      BY <2>1, <3>1 DEF LockBusy, Thrown, Succeed, WithJob
    <3>3. bull[i].state = "active"
      BY <3>1, <3>2 DEF Orderly, RunOk
    <3>4. QED
      BY <1>0, <3>2, <3>3
  <2>2. CASE ~LockBusy(w) /\ ~Thrown(w) /\ ~Succeed(w)
    BY <1>3, <2>2 DEF RunStep, Acquire, SaveStep, Throw, MarkFailed, MigrateAllPick, MigrateAllMark,
       MigrateAllApply, WorkerStops
  <2>3. QED
    BY <2>1, <2>2
<1>4. ASSUME QueueStep
      PROVE  bull'[j] = bull[j]
  BY <1>0, <1>4 DEF QueueStep, DelayElapses, Stalled, Pick, OrphanExpires, LockExpires, TimeOutJob
<1>5. ASSUME UNCHANGED vars
      PROVE  bull'[j] = bull[j]
  BY <1>5 DEF vars
<1>6. QED
  BY <1>1, <1>2, <1>3, <1>4, <1>5 DEF Next, Work, RunStep, QueueStep

\* A call that goes on as it was.
LEMMA CallKept ==
  ASSUME TypeOK, Orderly, [Next]_vars, NEW c \in Calls, call'[c] = call[c], call[c] # NoCall
  PROVE  /\ call[c].op = "enqueue" => job'[call[c].job] # Unused /\ bull'[call[c].job].state = "none"
         /\ call[c].op \in {"schedule", "migrate"} => Handed'
<1>1. CallOk(c) /\ call \in [Calls -> CallType]
  BY DEF Orderly, TypeOK
<1>2. call[c].op \in {"schedule", "migrate"} => Handed'
  BY <1>1, Stays DEF CallOk
<1>3. ASSUME call[c].op = "enqueue"
      PROVE  job'[call[c].job] # Unused /\ bull'[call[c].job].state = "none"
  <2>1. call[c].job \in JobIds
    BY <1>1, <1>3 DEF CallType, NoCall
  <2>2. PICK i \in JobIds : i = call[c].job
    BY <2>1
  <2>3. job[i] # Unused /\ bull[i].state = "none"
    BY <1>1, <1>3, <2>2 DEF CallOk
  <2>4. job[i].kind # "none" /\ job'[i].kind # "none"
    BY <2>3, UnusedKind, KindStays
  <2>5. \A d \in Calls : Enqueue(d) => call[d].job # i
    <3>1. SUFFICES ASSUME NEW d \in Calls, Enqueue(d), call[d].job = i
                   PROVE  FALSE
      OBVIOUS
    <3>2. d = c
      BY <1>1, <1>3, <2>2, <3>1 DEF CallOk, Enqueue
    <3>3. call'[c] = NoCall
      BY <1>1, <3>1, <3>2 DEF Enqueue, Return
    <3>4. QED
      BY <3>3
  <2>6. bull'[i].state = "none"
    BY <2>3, <2>5, NoneStays
  <2>7. job'[i] # Unused
    BY <2>4 DEF Unused
  <2>8. QED
    BY <2>2, <2>6, <2>7
<1>4. QED
  BY <1>2, <1>3

\* The invariant of the calls, over a step.
LEMMA CallOkStep ==
  ASSUME TypeOK, RowsExist, Orderly, [Next]_vars, "retry" \notin Operations, "cancel" \notin Operations
  PROVE  \A c \in Calls : CallOk(c)'
<1> USE DEF tenant, queue, bounds
<1>0. call \in [Calls -> CallType] /\ \A c \in Calls : CallOk(c)
  BY DEF TypeOK, Orderly
<1>1. ASSUME call' = call
      PROVE  \A c \in Calls : CallOk(c)'
  <2>1. SUFFICES ASSUME NEW c \in Calls PROVE CallOk(c)'
    OBVIOUS
  <2>2. CASE call[c] = NoCall
    BY <1>1, <2>2 DEF CallOk, NoCall
  <2>3. CASE call[c] # NoCall
    BY <1>0, <1>1, <2>3, CallKept DEF CallOk
  <2>4. QED
    BY <2>2, <2>3
\* A call that ends.
<1>2. ASSUME NEW c \in Calls, call' = [call EXCEPT ![c] = NoCall]
      PROVE  \A d \in Calls : CallOk(d)'
  <2>1. SUFFICES ASSUME NEW d \in Calls PROVE CallOk(d)'
    OBVIOUS
  <2>2. call'[c] = NoCall /\ \A e \in Calls : e # c => call'[e] = call[e]
    BY <1>0, <1>2
  <2>3. CASE d = c \/ call[d] = NoCall
    <3>1. call'[d] = NoCall
      BY <2>2, <2>3
    <3>2. QED
      BY <3>1 DEF CallOk, NoCall
  <2>4. CASE d # c /\ call[d] # NoCall
    <3>1. call'[d] = call[d] /\ CallOk(d)
      BY <1>0, <2>2, <2>4
    <3>2. \A e \in Calls : call'[e].op = "enqueue" => call[e].op = "enqueue" /\ call'[e] = call[e]
      BY <2>2 DEF NoCall
    <3>3. QED
      BY <2>4, <3>1, <3>2, CallKept DEF CallOk
  <2>5. QED
    BY <2>3, <2>4
\* A call that has read the status.
<1>3. ASSUME NEW c \in Calls, NEW op \in {"schedule", "migrate"}, call' = [call EXCEPT ![c] = [op |-> op]], Handed
      PROVE  \A d \in Calls : CallOk(d)'
  <2>1. SUFFICES ASSUME NEW d \in Calls PROVE CallOk(d)'
    OBVIOUS
  <2>2. call'[c].op = op /\ \A e \in Calls : e # c => call'[e] = call[e]
    BY <1>0, <1>3
  <2>3. CASE d = c
    BY <1>3, <2>2, <2>3, Stays DEF CallOk
  <2>4. CASE d # c /\ call[d] # NoCall
    <3>1. call'[d] = call[d] /\ CallOk(d)
      BY <1>0, <2>2, <2>4
    <3>2. \A e \in Calls : call'[e].op = "enqueue" => call[e].op = "enqueue" /\ call'[e] = call[e]
      BY <2>2
    <3>3. QED
      BY <2>4, <3>1, <3>2, CallKept DEF CallOk
  <2>5. CASE d # c /\ call[d] = NoCall
    BY <2>2, <2>5 DEF CallOk, NoCall
  <2>6. QED
    BY <2>3, <2>4, <2>5
\* A call that has inserted a row.
<1>4. ASSUME NEW c \in Calls, NEW kind \in Kinds, Insert(kind, FALSE), bull' = bull,
             call' = [call EXCEPT ![c] = [op |-> "enqueue", job |-> InsertedId]]
      PROVE  \A d \in Calls : CallOk(d)'
  <2>0. RowsInOrder
    BY DEF Orderly
  <2>1. PICK i \in JobIds : i = InsertedId /\ job[i] = Unused /\ job' = [job EXCEPT ![i] = NewJob(kind, FALSE)]
    BY <1>4, <2>0, NextRow
  <2>2. job'[i] # Unused
    BY <2>1 DEF TypeOK, NewJob, Unused, Kinds
  <2>3. bull'[i].state = "none"
    BY <1>4, <2>1 DEF RowsExist, JobType, Unused, Kinds
  <2>4. /\ call'[c].op = "enqueue" /\ call'[c].job = i
        /\ \A e \in Calls : e # c => call'[e] = call[e]
    BY <1>0, <1>4, <2>1
  <2>5. \A e \in Calls : e # c /\ call'[e].op = "enqueue" => call'[e].job # i
    BY <1>0, <2>1, <2>4 DEF CallOk
  <2>6. SUFFICES ASSUME NEW d \in Calls PROVE CallOk(d)'
    OBVIOUS
  <2>7. CASE d = c
    BY <2>2, <2>3, <2>4, <2>5, <2>7 DEF CallOk
  <2>8. CASE d # c /\ call[d] # NoCall
    <3>1. call'[d] = call[d] /\ CallOk(d)
      BY <1>0, <2>4, <2>8
    <3>2. \A e \in Calls : call'[e].op = "enqueue" => e = c \/ call'[e] = call[e]
      BY <2>4
    <3>3. QED
      BY <2>4, <2>5, <2>8, <3>1, <3>2, CallKept DEF CallOk
  <2>9. CASE d # c /\ call[d] = NoCall
    BY <2>4, <2>9 DEF CallOk, NoCall
  <2>10. QED
    BY <2>7, <2>8, <2>9
<1>5. ASSUME NEW c \in Calls, Ask(c) \/ Answer(c) \/ ApiStops(c)
      PROVE  \A d \in Calls : CallOk(d)'
  <2>1. ~RetryRead(c) /\ ~CancelRead(c) /\ ~RetryWrite(c) /\ ~CancelStatus(c) /\ ~CancelJob(c)
    BY <1>0 DEF RetryRead, CancelRead, RetryWrite, CancelStatus, CancelJob, CallOk, Begin
  <2>2. CASE Create(c)
    BY <1>4, <2>2 DEF Create, Begin, Kinds
  <2>3. CASE ScheduleWrite(c)
    BY <1>4, <2>3 DEF ScheduleWrite, Continue, Kinds
  <2>4. CASE MigrateWrite(c)
    BY <1>4, <2>4 DEF MigrateWrite, Continue, Kinds
  <2>5. CASE ScheduleRead(c) \/ MigrateRead(c)
    <3>1. Handed
      BY <2>5 DEF ScheduleRead, MigrateRead, Orderly
    <3>2. \E op \in {"schedule", "migrate"} : call' = [call EXCEPT ![c] = [op |-> op]]
      BY <2>5 DEF ScheduleRead, MigrateRead, Begin
    <3>3. QED
      BY <1>3, <3>1, <3>2
  <2>6. CASE Enqueue(c) \/ ApiStops(c)
    BY <1>2, <2>6 DEF Enqueue, ApiStops, Return
  <2>7. CASE Suspend(c) \/ Activate(c)
    BY <1>1, <2>7 DEF Suspend, Activate
  <2>8. QED
    BY <1>5, <2>1, <2>2, <2>3, <2>4, <2>5, <2>6, <2>7 DEF Ask, Answer
<1>6. ASSUME NEW w \in Workers, Handler(w) \/ RunStep(w)
      PROVE  call' = call
  BY <1>6, HandlerDoes, RunStepDoes DEF HandlerEffect
<1>7. ASSUME QueueStep \/ UNCHANGED vars
      PROVE  call' = call
  BY <1>7 DEF QueueStep, DelayElapses, Stalled, Pick, OrphanExpires, LockExpires, TimeOutJob, vars
<1>8. QED
  BY <1>1, <1>5, <1>6, <1>7 DEF Next, Work, RunStep, QueueStep

\* What the handler of a decommission leaves behind.
LEMMA RazedByHandler ==
  ASSUME TypeOK, Orderly, [Next]_vars, NEW w \in Workers, Handler(w), worker[w].kind = "decommission"
  PROVE  Razed(worker[w].at)' /\ Leaving' /\ worker'[w].phase = "save"
<1>1. HandlerEffect(w) /\ worker[w].phase \in WithJob
  BY HandlerDoes DEF HandlerEffect, WithJob
<1>2. PICK j \in JobIds : j = worker[w].job /\ Demolition(j)
  BY <1>1, DemolitionBegun
<1>3. job[j].done + 1 = worker[w].at /\ RowOk(j) /\ job[j].done \in 0..9 /\ worker[w].at \in 1..10
  BY <1>1, <1>2, DoneType, RunFields DEF Orderly, RunOk, Demolition
<1>4. PICK n \in 0..9 : n = job[j].done /\ n + 1 = worker[w].at /\ Razed(n)
  BY <1>2, <1>3 DEF RowOk
<1>5. n > 0 => Leaving
  BY <1>2, <1>4, TornBegun
<1>6. infra \in InfraType
  BY DEF TypeOK
<1>7. /\ ValidateDecommission(w) \/ RevokeAndClose(w) \/ DropDatabase(w) \/ DropRole(w) \/ DeleteStorage(w)
         \/ DisableMemberships(w) \/ Finalize(w)
  <2>1. worker[w].phase \notin {"migrate", "mailed"}
    BY <1>1 DEF Orderly, RunOk
  <2>2. QED
    BY <2>1 DEF Handler, Builds, At, ValidateProvision, CreateRole, CreateDatabase, SecureDatabase, MarkMigrating,
       Migrated, ConfigureStorage, CreateTenantAdmin, SendInvitation, RecordInvitation, ActivateTenant, Kinds
<1>8. worker'[w].phase = "save" /\ worker'[w].at = worker[w].at
  BY <1>1, <1>7, GotoDoes DEF HandlerEffect, ValidateDecommission, RevokeAndClose, DropDatabase, DropRole, DeleteStorage,
     DisableMemberships, Finalize, Builds
<1>9. \A step : At(w, "decommission", step) => worker[w].at \in 1..8 /\ DecommissionSteps[worker[w].at] = step
  <2>1. SUFFICES ASSUME NEW step, At(w, "decommission", step)
                 PROVE  worker[w].at \in 1..8 /\ DecommissionSteps[worker[w].at] = step
    OBVIOUS
  <2>2. worker[w].at \in 1..9
    BY <2>1, AtType DEF Kinds
  <2>3. QED
    BY <2>1, <2>2 DEF At, StepsOf, DecommissionSteps
<1>10. CASE ValidateDecommission(w)
  <2>1. worker[w].at = 1 /\ status' = status /\ status = "decommissioning"
    BY <1>9, <1>10 DEF ValidateDecommission, Builds, DecommissionSteps
  <2>2. QED
    BY <1>8, <2>1 DEF Razed, Leaving
<1>11. CASE RevokeAndClose(w)
  <2>1. worker[w].at \in {2, 3} /\ status' = status
    BY <1>9, <1>11 DEF RevokeAndClose, Builds, DecommissionSteps
  <2>2. QED
    BY <1>4, <1>5, <1>8, <2>1 DEF Razed, Leaving
<1>12. CASE DropDatabase(w)
  <2>1. worker[w].at = 4 /\ status' = status /\ ~infra'.database
    BY <1>6, <1>9, <1>12 DEF DropDatabase, Builds, DecommissionSteps, InfraType
  <2>2. QED
    BY <1>4, <1>5, <1>8, <2>1 DEF Razed, Leaving
<1>13. CASE DropRole(w)
  <2>1. worker[w].at = 5 /\ status' = status /\ ~infra'.role /\ infra'.database = infra.database
    BY <1>6, <1>9, <1>13 DEF DropRole, Builds, DecommissionSteps, InfraType
  <2>2. QED
    BY <1>4, <1>5, <1>8, <2>1 DEF Razed, Leaving
<1>14. CASE DeleteStorage(w)
  <2>1. /\ worker[w].at = 6 /\ status' = status /\ ~infra'.storage
        /\ infra'.database = infra.database /\ infra'.role = infra.role
    BY <1>6, <1>9, <1>14 DEF DeleteStorage, Builds, DecommissionSteps, InfraType
  <2>2. QED
    BY <1>4, <1>5, <1>8, <2>1 DEF Razed, Leaving
<1>15. CASE DisableMemberships(w)
  <2>1. /\ worker[w].at = 7 /\ status' = status /\ ~infra'.admin
        /\ infra'.database = infra.database /\ infra'.role = infra.role /\ infra'.storage = infra.storage
    BY <1>6, <1>9, <1>15 DEF DisableMemberships, Builds, DecommissionSteps, InfraType
  <2>2. QED
    BY <1>4, <1>5, <1>8, <2>1 DEF Razed, Leaving
<1>16. CASE Finalize(w)
  <2>1. worker[w].at = 8 /\ status' = "decommissioned" /\ infra' = infra
    BY <1>9, <1>16 DEF Finalize, DecommissionSteps, tenant
  <2>2. QED
    BY <1>4, <1>8, <2>1 DEF Razed, Leaving
<1>20. QED
  BY <1>7, <1>10, <1>11, <1>12, <1>13, <1>14, <1>15, <1>16

\* Of a run, what says nothing of the others.
RunFits(w) ==
  LET r == worker[w] IN
  r.phase \in WithJob =>
    /\ bull[r.job].state = "active" /\ r.kind = job[r.job].kind /\ r.at = job[r.job].done + 1
    /\ r.kind = "decommission" /\ r.phase = "save" => Razed(r.at) /\ Leaving
    /\ r.phase = "failing" => r.kind = "provision"
    /\ r.kind = "decommission" => r.phase \notin {"migrate", "mailed"}

\* No two runs have the same job.
OneRunEach ==
  \A v, w \in Workers :
    worker[v].phase \in WithJob /\ worker[w].phase \in WithJob /\ worker[v].job = worker[w].job => v = w

\* What is said of the runs, taken apart.
LEMMA RunOkIs == (\A w \in Workers : RunOk(w)) <=> OneRunEach /\ \A w \in Workers : RunFits(w)
  BY DEF RunOk, RunFits, OneRunEach

\* A run that a step has not touched still fits its row.
LEMMA RunKept ==
  ASSUME TypeOK, Orderly, [Next]_vars, NEW w \in Workers, worker'[w] = worker[w],
         worker[w].phase \in WithJob => bull'[worker[w].job].state = "active"
  PROVE  RunFits(w)'
<1>1. CASE worker[w].phase \notin WithJob
  BY <1>1 DEF RunFits, WithJob
<1>2. CASE worker[w].phase \in WithJob
  <2>1. PICK j \in JobIds : j = worker[w].job
    BY <1>2, RunFields
  <2>2. /\ worker[w].kind = job[j].kind /\ worker[w].kind \in Kinds /\ job[j] # Unused
        /\ worker[w].at = job[j].done + 1 /\ worker[w].at \in 1..10
    BY <1>2, <2>1, RunFields DEF Orderly, RunOk, Kinds, Unused
  <2>3. job'[j].kind = job[j].kind /\ job'[j].done = job[j].done
    <3>1. \A v \in Workers : ~(SaveStep(v) /\ worker[v].phase = "save" /\ worker[v].job = j)
      <4>1. SUFFICES ASSUME NEW v \in Workers, SaveStep(v), worker[v].phase = "save", worker[v].job = j
                     PROVE  FALSE
        OBVIOUS
      <4>2. v = w
        BY <1>2, <2>1, <4>1 DEF Orderly, RunOk, WithJob
      <4>3. worker'[v].phase = "run"
        BY <4>1, RunStepDoes DEF RunStep
      <4>4. QED
        BY <4>1, <4>2, <4>3
    <3>2. QED
      BY <2>2, <3>1, RowMoves DEF RowMove
  <2>4. ASSUME worker[w].kind = "decommission", worker[w].phase = "save"
        PROVE  Leaving' /\ \E n \in 0..9 : n = worker[w].at /\ Razed(n)'
    <3>1. PICK n \in 0..9 : n = worker[w].at
      BY <2>2, <2>4, RunFields DEF WithJob
    <3>2. Razed(n) /\ Leaving /\ Begun
      BY <1>2, <2>4, <3>1, DemolitionBegun DEF Orderly, RunOk
    <3>3. QED
      BY <3>1, <3>2, RazedKept, RazedStays
  <2>5. worker[w].kind = "decommission" /\ worker[w].phase = "save" => Razed(worker[w].at)' /\ Leaving'
    BY <2>4 DEF Razed
  <2>6. QED
    BY <1>2, <2>1, <2>2, <2>3, <2>5 DEF RunFits, Orderly, RunOk, Razed
<1>3. QED
  BY <1>1, <1>2

\* The runs, over the steps of handlers ...
LEMMA RunsByHandler ==
  ASSUME TypeOK, Orderly, [Next]_vars, NEW w \in Workers, Handler(w)
  PROVE  OneRunEach' /\ \A v \in Workers : RunFits(v)'
<1>1. HandlerEffect(w) /\ SameRows /\ worker[w].phase \in WithJob /\ worker'[w].phase \in WithJob
  BY HandlerDoes, SameByHandler DEF HandlerEffect, WithJob
<1>2. OneRunEach /\ \A v \in Workers : RunFits(v)
  BY RunOkIs DEF Orderly
<1>3. OneRunEach'
  BY <1>1, <1>2 DEF OneRunEach, HandlerEffect
<1>4. \A v \in Workers : v # w => RunFits(v)'
  BY <1>1, <1>2, RunKept DEF HandlerEffect, RunFits
<1>5. RunFits(w)'
  <2>1. PICK j \in JobIds : j = worker[w].job
    BY <1>1, RunFields
  <2>2. /\ worker'[w].kind = job'[j].kind /\ worker'[w].at = job'[j].done + 1 /\ bull'[j].state = "active"
        /\ worker'[w].job = j /\ worker'[w].phase # "failing"
    BY <1>1, <1>2, <2>1 DEF RunFits, HandlerEffect, SameRows
  <2>3. worker'[w].kind = "decommission" => Razed(worker[w].at)' /\ Leaving' /\ worker'[w].phase = "save"
    BY <1>1, RazedByHandler DEF HandlerEffect
  <2>4. QED
    BY <2>2, <2>3 DEF RunFits, Razed
<1>6. QED
  BY <1>3, <1>4, <1>5

\* ... over the other steps of runs ...
LEMMA RunsByRun ==
  ASSUME TypeOK, Orderly, [Next]_vars, NEW w \in Workers, RunStep(w)
  PROVE  OneRunEach' /\ \A v \in Workers : RunFits(v)'
<1> USE DEF tenant, queue, bounds
<1>1. \A v \in Workers : v # w => worker'[v] = worker[v]
  BY RunStepDoes
<1>2. OneRunEach /\ \A v \in Workers : RunFits(v)
  BY RunOkIs DEF Orderly
<1>3. worker'[w].phase \in WithJob => worker[w].phase \in WithJob /\ worker'[w].job = worker[w].job
  BY RunStepDoes DEF WithJob
<1>4. OneRunEach'
  BY <1>1, <1>2, <1>3 DEF OneRunEach
<1>5. bull' = bull \/ (worker[w].phase \in WithJob /\ worker'[w].phase \notin WithJob
                       /\ \E b : bull' = [bull EXCEPT ![worker[w].job] = b])
  <2>1. CASE LockBusy(w) \/ Thrown(w) \/ Succeed(w)
    <3>1. PICK i : i = worker[w].job
      OBVIOUS
    <3>2. LockBusy(w) \/ Thrown(w) => bull' = [bull EXCEPT ![i] = AttemptThrew(bull[i])]
      BY <3>1 DEF LockBusy, Thrown
    <3>3. Succeed(w) => bull' = [bull EXCEPT ![i] = [bull[i] EXCEPT !.state = "done"]]
      BY <3>1 DEF Succeed
    <3>4. \E b : bull' = [bull EXCEPT ![i] = b]
      BY <2>1, <3>2, <3>3
    <3>5. worker' = [worker EXCEPT ![w] = NoRun] /\ worker[w].phase \in WithJob
      BY <2>1 DEF LockBusy, Thrown, Succeed, WithJob
    <3>6. worker'[w].phase \notin WithJob
      BY <3>5 DEF TypeOK, NoRun, WithJob
    <3>7. QED
      BY <3>1, <3>4, <3>5, <3>6
  <2>2. CASE ~LockBusy(w) /\ ~Thrown(w) /\ ~Succeed(w)
    BY <2>2 DEF RunStep, Acquire, SaveStep, Throw, MarkFailed, MigrateAllPick, MigrateAllMark,
       MigrateAllApply, WorkerStops
  <2>3. QED
    BY <2>1, <2>2
<1>6. ASSUME NEW v \in Workers, v # w
      PROVE  RunFits(v)'
  <2>1. ASSUME worker[v].phase \in WithJob
        PROVE  bull'[worker[v].job].state = "active"
    <3>1. bull[worker[v].job].state = "active"
      BY <1>2, <2>1 DEF RunFits
    <3>2. worker[w].phase \in WithJob => worker[w].job # worker[v].job
      BY <1>2, <1>6, <2>1 DEF OneRunEach
    <3>3. QED
      BY <1>5, <2>1, <3>1, <3>2, RunFields DEF TypeOK
  <2>2. QED
    BY <1>1, <1>6, <2>1, RunKept
<1>7. RunFits(w)'
  <2>1. CASE worker'[w].phase \notin WithJob
    BY <2>1 DEF RunFits
  <2>2. CASE worker'[w].phase \in WithJob
    <3>1. worker[w].phase \in WithJob /\ bull' = bull
      BY <1>3, <1>5, <2>2
    <3>2. PICK j \in JobIds : j = worker[w].job
      BY <3>1, RunFields
    <3>3. /\ bull[j].state = "active" /\ worker[w].kind = job[j].kind /\ worker[w].at = job[j].done + 1
          /\ worker[w].kind \in Kinds /\ job[j] # Unused
      BY <1>2, <3>1, <3>2, RunFields DEF RunFits, Kinds, Unused
    <3>4. worker'[w].job = j /\ worker'[w].kind = worker[w].kind /\ worker'[w].phase \in {"run", "failing", "thrown"}
      BY <2>2, <3>2, RunStepDoes
    <3>5. job'[j].kind = job[j].kind /\ worker'[w].at = job'[j].done + 1
      <4>1. CASE SaveStep(w)
        <5>1. job' = [job EXCEPT ![j] = [job[j] EXCEPT !.done = worker[w].at]] /\ worker'[w].at = worker[w].at + 1
          BY <3>2, <4>1, RunStepDoes
        <5>2. job[j] \in JobType
          BY <3>3 DEF TypeOK
        <5>3. QED
          BY <5>1, <5>2 DEF TypeOK, JobType
      <4>2. CASE ~SaveStep(w)
        BY <2>2, <3>3, <4>2, RunStepDoes
      <4>3. QED
        BY <4>1, <4>2
    <3>6. worker'[w].phase = "failing" => worker'[w].kind = "provision"
      <4>1. CASE Throw(w)
        <5>1. worker[w].kind = "provision" \/ Goto(w, "thrown")
          BY <4>1 DEF Throw
        <5>2. QED
          BY <3>1, <3>4, <5>1, GotoDoes
      <4>2. CASE MarkFailed(w)
        BY <3>1, <4>2, GotoDoes DEF MarkFailed
      <4>3. CASE Acquire(w)
        BY <3>1, <4>3, GotoDoes DEF Acquire, Goto
      <4>4. CASE SaveStep(w)
        BY <4>4, RunStepDoes
      <4>5. CASE ~Throw(w) /\ ~MarkFailed(w) /\ ~Acquire(w) /\ ~SaveStep(w)
        BY <2>2, <4>5 DEF RunStep, LockBusy, Succeed, Thrown, MigrateAllPick, MigrateAllMark, MigrateAllApply,
           WorkerStops, NoRun, WithJob, TypeOK
      <4>6. QED
        BY <4>1, <4>2, <4>3, <4>4, <4>5
    <3>7. QED
      BY <3>1, <3>3, <3>4, <3>5, <3>6 DEF RunFits
  <2>3. QED
    BY <2>1, <2>2
<1>8. QED
  BY <1>4, <1>6, <1>7

\* ... over the steps of the queue ...
LEMMA RunsByQueue ==
  ASSUME TypeOK, Orderly, [Next]_vars, QueueStep
  PROVE  OneRunEach' /\ \A v \in Workers : RunFits(v)'
<1> USE DEF tenant, queue, bounds
<1>1. OneRunEach /\ \A v \in Workers : RunFits(v)
  BY RunOkIs DEF Orderly
<1>2. bull \in [JobIds -> BullType]
  BY DEF TypeOK
<1>3. ASSUME worker' = worker,
             \A v \in Workers : worker[v].phase \in WithJob => bull'[worker[v].job].state = "active"
      PROVE  OneRunEach' /\ \A v \in Workers : RunFits(v)'
  <2>1. OneRunEach'
    BY <1>1, <1>3 DEF OneRunEach
  <2>2. QED
    BY <1>3, <2>1, RunKept
<1>4. ASSUME NEW j \in JobIds, DelayElapses(j) \/ Stalled(j)
      PROVE  OneRunEach' /\ \A v \in Workers : RunFits(v)'
  <2>1. \A v \in Workers : worker[v].phase \in WithJob => worker[v].job # j
    BY <1>1, <1>4 DEF RunFits, DelayElapses, Stalled, RunsJob, WithJob
  <2>2. \A i \in JobIds : i # j => bull'[i] = bull[i]
    BY <1>2, <1>4 DEF DelayElapses, Stalled
  <2>3. worker' = worker
    BY <1>4 DEF DelayElapses, Stalled
  <2>4. QED
    BY <1>1, <1>3, <2>1, <2>2, <2>3, RunFields DEF RunFits
<1>5. ASSUME NEW j \in JobIds, NEW w \in Workers, Pick(w, j), worker' # worker
      PROVE  OneRunEach' /\ \A v \in Workers : RunFits(v)'
  <2>1. /\ bull[j].state = "waiting" /\ job' = job
        /\ bull' = [bull EXCEPT ![j] = [bull[j] EXCEPT !.state = "active"]]
        /\ worker' = [worker EXCEPT ![w] = [phase |-> "read", job |-> j, kind |-> job[j].kind, at |-> job[j].done + 1,
                                            invited |-> job[j].invited]]
    BY <1>5 DEF Pick
  <2>2. \A v \in Workers : worker[v].phase \in WithJob => worker[v].job # j /\ bull[worker[v].job].state = "active"
    BY <1>1, <2>1 DEF RunFits
  <2>3. /\ worker'[w].phase = "read" /\ worker'[w].job = j /\ worker'[w].kind = job[j].kind
        /\ worker'[w].at = job[j].done + 1 /\ \A v \in Workers : v # w => worker'[v] = worker[v]
    BY <2>1 DEF TypeOK
  <2>4. bull'[j].state = "active" /\ \A i \in JobIds : i # j => bull'[i] = bull[i]
    BY <1>2, <2>1 DEF BullType
  <2>5. OneRunEach'
    BY <1>1, <2>2, <2>3 DEF OneRunEach
  <2>6. RunFits(w)'
    BY <2>1, <2>3, <2>4 DEF RunFits
  <2>7. \A v \in Workers : v # w => RunFits(v)'
    BY <2>2, <2>3, <2>4, RunKept, RunFields
  <2>8. QED
    BY <2>5, <2>6, <2>7
<1>6. ASSUME NEW j \in JobIds, NEW w \in Workers, Pick(w, j), worker' = worker
      PROVE  OneRunEach' /\ \A v \in Workers : RunFits(v)'
  <2>1. bull[j].state = "waiting" /\ \A i \in JobIds : i # j => bull'[i] = bull[i]
    BY <1>2, <1>6 DEF Pick
  <2>2. \A v \in Workers : worker[v].phase \in WithJob => worker[v].job # j /\ bull[worker[v].job].state = "active"
    BY <1>1, <2>1 DEF RunFits
  <2>3. QED
    BY <1>3, <1>6, <2>1, <2>2, RunFields
<1>7. CASE OrphanExpires \/ LockExpires \/ \E i \in JobIds : TimeOutJob(i)
  <2>1. worker' = worker /\ bull' = bull
    BY <1>7 DEF OrphanExpires, LockExpires, TimeOutJob
  <2>2. QED
    BY <1>1, <1>3, <2>1 DEF RunFits
<1>8. QED
  BY <1>4, <1>5, <1>6, <1>7 DEF QueueStep

\* ... and over those of calls.
LEMMA RunsByCall ==
  ASSUME TypeOK, Orderly, [Next]_vars, worker' = worker, NEW c \in Calls, Ask(c) \/ Answer(c) \/ ApiStops(c)
  PROVE  OneRunEach' /\ \A v \in Workers : RunFits(v)'
<1>1. OneRunEach /\ \A v \in Workers : RunFits(v)
  BY RunOkIs DEF Orderly
<1>2. ASSUME NEW v \in Workers, worker[v].phase \in WithJob
      PROVE  bull'[worker[v].job].state = "active"
  <2>1. PICK j \in JobIds : j = worker[v].job
    BY <1>2, RunFields
  <2>2. bull[j].state = "active"
    BY <1>1, <1>2, <2>1 DEF RunFits
  <2>3. CASE Enqueue(c)
    <3>1. PICK i : i = call[c].job
      OBVIOUS
    <3>2. bull[i].state = "none" /\ bull' = [bull EXCEPT ![i] = [bull[i] EXCEPT !.state = IF job[i].kind = "decommission" THEN "delayed" ELSE "waiting"]]
      BY <2>3, <3>1 DEF Enqueue, Orderly, CallOk
    <3>3. QED
      BY <2>1, <2>2, <3>2 DEF TypeOK
  <2>4. ~CancelJob(c)
    BY DEF CancelJob, Orderly, CallOk
  <2>5. CASE ~Enqueue(c)
    <3>1. bull' = bull
      BY <2>4, <2>5 DEF Ask, Answer, ApiStops, Create, RetryRead, Suspend, Activate, ScheduleRead, CancelRead,
         MigrateRead, RetryWrite, ScheduleWrite, CancelStatus, MigrateWrite, queue
    <3>2. QED
      BY <2>1, <2>2, <3>1
  <2>6. QED
    BY <2>3, <2>5
<1>3. OneRunEach'
  BY <1>1 DEF OneRunEach
<1>4. QED
  BY <1>2, <1>3, RunKept

\* The invariant of the runs, over a step.
LEMMA RunOkStep ==
  ASSUME TypeOK, Orderly, [Next]_vars
  PROVE  \A w \in Workers : RunOk(w)'
<1>1. ASSUME NEW c \in Calls, Ask(c) \/ Answer(c) \/ ApiStops(c)
      PROVE  worker' = worker
  BY <1>1 DEF Ask, Answer, ApiStops, Create, RetryRead, Suspend, Activate, ScheduleRead, CancelRead,
     MigrateRead, Enqueue, RetryWrite, ScheduleWrite, CancelStatus, CancelJob, MigrateWrite
<1>2. CASE UNCHANGED vars
  BY <1>2 DEF vars, Orderly, RunOk, Razed, Leaving, WithJob
<1>3. CASE ~UNCHANGED vars
  <2>1. OneRunEach' /\ \A v \in Workers : RunFits(v)'
    BY <1>1, <1>3, RunsByCall, RunsByHandler, RunsByRun, RunsByQueue DEF Next, Work, RunStep, QueueStep
  <2>2. QED
    BY <2>1 DEF RunOk, RunFits, OneRunEach
<1>4. QED
  BY <1>2, <1>3

\* No row is inserted.
SameKinds == \A j \in JobIds : job'[j].kind = job[j].kind

\* The rows that exist are the first ones.
LEMMA RowsInOrderStep ==
  ASSUME TypeOK, TypeOK', Orderly, [Next]_vars
  PROVE  RowsInOrder' /\ (status' = "absent" => Inserted' = {})
<1> USE DEF tenant, queue, bounds
<1>0. RowsInOrder /\ (status = "absent" => Inserted = {})
  BY DEF Orderly
<1>1. ASSUME SameKinds
      PROVE  Inserted' = Inserted
  <2>1. \A j \in JobIds : job[j] = Unused <=> job'[j] = Unused
    <3>1. SUFFICES ASSUME NEW j \in JobIds PROVE job[j] = Unused <=> job'[j] = Unused
      OBVIOUS
    <3>2. job[j] = Unused <=> job[j].kind = "none"
      BY UnusedKind
    <3>3. job'[j] = Unused <=> job'[j].kind = "none"
      BY DEF TypeOK, JobType, Unused, Kinds
    <3>4. QED
      BY <1>1, <3>2, <3>3 DEF SameKinds
  <2>2. QED
    BY <2>1 DEF Inserted
<1>2. ASSUME status' = status \/ status' # "absent", SameKinds
      PROVE  RowsInOrder' /\ (status' = "absent" => Inserted' = {})
  BY <1>0, <1>1, <1>2 DEF RowsInOrder
<1>3. ASSUME NEW c \in Calls, Ask(c) \/ Answer(c) \/ ApiStops(c)
      PROVE  RowsInOrder' /\ (status' = "absent" => Inserted' = {})
  <2>1. CASE Create(c)
    <3>1. Insert("provision", FALSE) /\ status' # "absent"
      BY <2>1 DEF Create
    <3>2. QED
      BY <1>0, <3>1, NextRow DEF Kinds
  <2>2. CASE ScheduleWrite(c)
    <3>1. Insert("decommission", FALSE) /\ status' # "absent"
      BY <2>2 DEF ScheduleWrite
    <3>2. QED
      BY <1>0, <3>1, NextRow DEF Kinds
  <2>3. CASE MigrateWrite(c)
    <3>1. Insert("migrate", FALSE) /\ status' = status /\ Handed
      BY <2>3 DEF MigrateWrite, Orderly, CallOk
    <3>2. Inserted # {}
      BY <3>1, TouchedProvision DEF Inserted, Unused
    <3>3. QED
      BY <1>0, <3>1, <3>2, NextRow DEF Kinds
  <2>4. ~RetryWrite(c) /\ ~CancelStatus(c)
    BY DEF RetryWrite, CancelStatus, Orderly, CallOk
  <2>5. CASE ~Create(c) /\ ~ScheduleWrite(c) /\ ~MigrateWrite(c)
    <3>1. SameKinds
      BY <1>3, <2>4, <2>5, SameByCalls DEF SameRows, SameKinds
    <3>2. status' = status \/ status' # "absent"
      BY <1>3, <2>4, <2>5 DEF Ask, Answer, ApiStops, RetryRead, Suspend, Activate, ScheduleRead, CancelRead,
         MigrateRead, Enqueue, CancelJob
    <3>3. QED
      BY <1>2, <3>1, <3>2
  <2>6. QED
    BY <2>1, <2>2, <2>3, <2>5
<1>4. ASSUME NEW w \in Workers, Handler(w)
      PROVE  SameKinds /\ (status' = status \/ status' # "absent")
  <2>1. status' = status \/ status' # "absent"
    BY <1>4 DEF Handler, Builds, ValidateProvision, CreateRole, CreateDatabase,
     SecureDatabase, MarkMigrating, Migrated, ConfigureStorage, CreateTenantAdmin, SendInvitation,
     RecordInvitation, ActivateTenant, ValidateDecommission, RevokeAndClose, DropDatabase, DropRole, DeleteStorage,
     DisableMemberships, Finalize
  <2>2. QED
    BY <1>4, <2>1, SameByHandler DEF SameRows, SameKinds
<1>5. ASSUME NEW w \in Workers, RunStep(w)
      PROVE  SameKinds /\ (status' = status \/ status' # "absent")
  <2>1. status' = status \/ status' # "absent"
    BY <1>5 DEF RunStep, Acquire, LockBusy, SaveStep, Succeed, Throw, MarkFailed, Thrown, MigrateAllPick, MigrateAllMark,
     MigrateAllApply, WorkerStops
  <2>2. SameKinds
    <3>1. CASE SaveStep(w)
      BY <1>5, <3>1, RunStepDoes, RowMoves DEF RowMove, SameKinds
    <3>2. CASE ~SaveStep(w)
      BY <1>5, <3>2, RunStepDoes DEF SameKinds
    <3>3. QED
      BY <3>1, <3>2
  <2>3. QED
    BY <2>1, <2>2
<1>6. ASSUME QueueStep
      PROVE  SameKinds /\ status' = status
  <2>1. status' = status
    BY <1>6 DEF QueueStep, DelayElapses, Stalled, TimeOutJob, Pick, OrphanExpires, LockExpires
  <2>2. QED
    BY <1>6, <2>1, SameByQueue DEF SameRows, SameKinds
<1>7. ASSUME UNCHANGED vars
      PROVE  SameKinds /\ status' = status
  BY <1>7 DEF vars, SameKinds
<1>8. QED
  BY <1>2, <1>3, <1>4, <1>5, <1>6, <1>7 DEF Next, Work, RunStep, QueueStep

\* What is said of the status, and of what is built, over a step.
LEMMA StatusStep ==
  ASSUME TypeOK, Orderly, [Next]_vars
  PROVE  /\ status' \notin {"absent", "provisioning"} => Handed'
         /\ Torn' => Leaving'
         /\ status' = "decommissioned" => Begun' /\ Razed(7)'
<1> USE DEF tenant, queue, bounds
<1>1. status' \notin {"absent", "provisioning"} => Handed
  <2>1. ASSUME NEW w \in Workers, worker[w].phase \in WithJob
        PROVE  Handed
    <3>1. PICK j \in JobIds : j = worker[w].job
      BY <2>1, RunFields
    <3>2. bull[j].state = "active" /\ job[j].kind \in Kinds /\ RowOk(j)
      BY <2>1, <3>1, RunFields DEF Orderly, RunOk
    <3>3. QED
      BY <3>2 DEF RowOk, Handed, Touched, Kinds
  <2>2. CASE status \notin {"absent", "provisioning"}
    BY <2>2 DEF Orderly
  <2>3. CASE status' \notin {"absent", "provisioning"} /\ status \in {"absent", "provisioning"}
    <3>1. ASSUME NEW c \in Calls, Ask(c) \/ Answer(c) \/ ApiStops(c)
          PROVE  Handed
      <4>1. ScheduleWrite(c)
        BY <2>3, <3>1 DEF Ask, Answer, ApiStops, Create, RetryRead, Suspend, Activate, ScheduleRead, CancelRead,
         MigrateRead, Enqueue, RetryWrite, CancelStatus, CancelJob, MigrateWrite
      <4>2. QED
        BY <4>1 DEF ScheduleWrite, Orderly, CallOk
    <3>2. ASSUME NEW w \in Workers, Handler(w)
          PROVE  Handed
      BY <2>1, <3>2, HandlerDoes DEF HandlerEffect, WithJob
    <3>3. ASSUME NEW w \in Workers, RunStep(w)
          PROVE  Handed
      <4>1. MarkFailed(w)
        BY <2>3, <3>3 DEF RunStep, Acquire, LockBusy, SaveStep, Succeed, Throw, Thrown, MigrateAllPick, MigrateAllMark,
         MigrateAllApply, WorkerStops
      <4>2. QED
        BY <2>1, <4>1 DEF MarkFailed, WithJob
    <3>4. ~QueueStep /\ ~UNCHANGED vars
      BY <2>3 DEF QueueStep, DelayElapses, Stalled, TimeOutJob, Pick, OrphanExpires, LockExpires, vars
    <3>5. QED
      BY <3>1, <3>2, <3>3, <3>4 DEF Next, Work, RunStep, QueueStep
  <2>4. QED
    BY <2>2, <2>3
<1>2. Torn' => Leaving'
  <2>1. CASE Torn
    <3>1. PICK j \in JobIds : Demolition(j) /\ job[j].done > 0
      BY <2>1 DEF Torn
    <3>2. QED
      BY <3>1, TornBegun, RazedStays
  <2>2. ASSUME ~Torn, Torn'
        PROVE  Leaving'
    <3>1. PICK j \in JobIds : job'[j].kind = "decommission" /\ job'[j].done > 0
      BY <2>2 DEF Torn, Demolition
    <3>2. PICK w \in Workers : SaveStep(w) /\ worker[w].phase = "save" /\ worker[w].job = j
                               /\ job'[j].kind = job[j].kind
      BY <2>2, <3>1, RowMoves DEF RowMove, Torn, Demolition
    <3>3. Leaving
      BY <3>1, <3>2 DEF Orderly, RunOk, WithJob
    <3>4. QED
      BY <3>2, <3>3 DEF SaveStep, Leaving
  <2>3. QED
    BY <2>1, <2>2
<1>3. status' = "decommissioned" => Begun /\ Razed(7)'
  <2>1. CASE status = "decommissioned"
    BY <2>1, RazedKept DEF Orderly
  <2>2. ASSUME status # "decommissioned", status' = "decommissioned"
        PROVE  Begun /\ Razed(7)'
    <3>1. ASSUME NEW w \in Workers, Handler(w)
          PROVE  Finalize(w)
      BY <2>2, <3>1 DEF Handler, Builds, ValidateProvision, CreateRole, CreateDatabase,
       SecureDatabase, MarkMigrating, Migrated, ConfigureStorage, CreateTenantAdmin, SendInvitation,
       RecordInvitation, ActivateTenant, ValidateDecommission, RevokeAndClose, DropDatabase, DropRole, DeleteStorage,
       DisableMemberships
    <3>2. ASSUME NEW w \in Workers, RunStep(w)
          PROVE  FALSE
      BY <2>2, <3>2 DEF RunStep, Acquire, LockBusy, SaveStep, Succeed, Throw, MarkFailed, Thrown, MigrateAllPick,
         MigrateAllMark, MigrateAllApply, WorkerStops
    <3>3. ASSUME NEW c \in Calls, Ask(c) \/ Answer(c) \/ ApiStops(c)
          PROVE  FALSE
      BY <2>2, <3>3 DEF Ask, Answer, ApiStops, Create, RetryRead, Suspend, Activate, ScheduleRead, CancelRead,
       MigrateRead, Enqueue, RetryWrite, ScheduleWrite, CancelStatus, CancelJob, MigrateWrite
    <3>4. ~QueueStep /\ ~UNCHANGED vars
      BY <2>2 DEF QueueStep, DelayElapses, Stalled, TimeOutJob, Pick, OrphanExpires, LockExpires, vars
    <3>5. PICK w \in Workers : Finalize(w)
      BY <3>1, <3>2, <3>3, <3>4 DEF Next, Work, RunStep, QueueStep
    <3>6. worker[w].at = 8 /\ worker[w].phase \in WithJob /\ worker[w].kind = "decommission"
      BY <3>5, DecommissionIndex DEF Finalize, At, WithJob
    <3>7. Handler(w)
      BY <3>5 DEF Handler
    <3>8. Razed(worker[w].at)' /\ worker'[w].at = worker[w].at
      BY <3>6, <3>7, RazedByHandler, HandlerDoes DEF HandlerEffect
    <3>9. Razed(7)'
      BY <3>6, <3>8 DEF Razed
    <3>10. QED
      BY <3>6, <3>9, DemolitionBegun
  <2>3. QED
    BY <2>1, <2>2
<1>4. QED
  BY <1>1, <1>2, <1>3, Stays

\* Until a decommission has passed its validation nothing is taken away.
LEMMA BuildingUntilTorn ==
  ASSUME TypeOK, RowsExist, Orderly, [Next]_vars, ~Torn
  PROVE  Building'
<1>1. \A w \in Workers : ~Demolishes(w)
  <2>1. SUFFICES ASSUME NEW w \in Workers, Demolishes(w) PROVE FALSE
    OBVIOUS
  <2>2. worker[w].at \in 4..7 /\ worker[w].phase \in WithJob /\ worker[w].kind = "decommission"
    BY <2>1, DecommissionIndex DEF Demolishes, DropDatabase, DropRole, DeleteStorage, DisableMemberships, Builds, At, WithJob
  <2>3. PICK j \in JobIds : j = worker[w].job /\ Demolition(j)
    BY <2>2, DemolitionBegun
  <2>4. job[j].done + 1 = worker[w].at /\ job[j].done \in 0..9
    BY <2>2, <2>3, DoneType DEF Orderly, RunOk, Demolition
  <2>5. QED
    BY <2>2, <2>3, <2>4 DEF Torn
<1>2. \A w \in Workers : Agrees(w)
  BY DEF Agrees, Orderly, RunOk
<1>3. \A c \in Calls : call[c].op # "cancel"
  BY DEF Orderly, CallOk
<1>4. Building
  BY DEF Orderly
<1>5. QED
  BY <1>1, <1>2, <1>3, <1>4, KeepsUnless, BuildingStep

\* There is no order to keep yet.
LEMMA OrderlyAtFirst == Init => Orderly
<1> SUFFICES ASSUME Init PROVE Orderly
  OBVIOUS
<1>1. Inserted = {} /\ ~Torn
  BY DEF Init, Inserted, Unused, Torn, Demolition
<1>2. RowsInOrder
  <2>1. 0 \in 0..MaxJobs /\ {} = 1..0
    BY LifecycleAssumption
  <2>2. QED
    BY <1>1, <2>1 DEF RowsInOrder
<1>3. Building
  BY BuildingAtFirst
<1>4. QED
  BY <1>1, <1>2, <1>3 DEF Init, Orderly, CallOk, RowOk, RunOk, Unused, NoCall, NoRun, WithJob, Demolition

\* Every step keeps the order.
LEMMA OrderlyStep ==
  ASSUME TypeOK, RowsExist, TypeOK', Orderly, [Next]_vars, LongGrace,
         "retry" \notin Operations, "cancel" \notin Operations
  PROVE  Orderly'
<1>1. ~Torn' => Building'
  BY BuildingUntilTorn, Stays
<1>2. \A j \in JobIds : RowOk(j)'
  BY RowOkStep
<1>3. QED
  BY <1>1, <1>2, RowsInOrderStep, CallOkStep, RunOkStep, StatusStep DEF Orderly

\* So it is always kept.
LEMMA OrderlyAlways ==
  ASSUME LongGrace, "retry" \notin Operations, "cancel" \notin Operations
  PROVE  Spec => []Orderly
<1>1. IInv /\ Orderly /\ [Next]_vars => Orderly'
  BY NextInv, OrderlyStep DEF IInv
<1>2. QED
  BY InitInv, NextInv, OrderlyAtFirst, <1>1, PTL DEF Spec

\* "A tenant only becomes active after every step succeeds, so partially
\* initialized tenants are never reachable", also when tenants are
\* decommissioned, with stops, crashes and expired locks anywhere: as long as
\* nobody retries a provisioning or calls a decommission back, and the grace
\* period outlasts what else is queued.
THEOREM CompleteUntilTorn ==
  ASSUME LongGrace, "retry" \notin Operations, "cancel" \notin Operations
  PROVE  Spec => []ReachableIsComplete
<1>1. Orderly => ReachableIsComplete
  BY DEF Orderly, Building, ReachableIsComplete, Leaving
<1>2. QED
  BY OrderlyAlways, <1>1, PTL

\* Under the same conditions nothing is left of a decommissioned tenant
\* (finalize, the last of the decommissioning handlers), and nothing that was
\* still queued for it builds it again.
THEOREM NothingLeft ==
  ASSUME LongGrace, "retry" \notin Operations, "cancel" \notin Operations
  PROVE  Spec => []GoneIsGone
<1>1. Orderly => GoneIsGone
  BY DEF Orderly, Razed, GoneIsGone
<1>2. QED
  BY OrderlyAlways, <1>1, PTL

=============================================================================
