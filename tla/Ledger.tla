------------------------------- MODULE Ledger -------------------------------
(***************************************************************************)
(* The general ledger and the daybook of one tenant, at the level of       *)
(* database transactions: modules/accounting/accounting.service.ts and     *)
(* daybook.service.ts over PostgreSQL at READ COMMITTED.                   *)
(*                                                                         *)
(* A request runs one operation of the services.  The operation is cut     *)
(* where another request can come between two of its statements: after a   *)
(* read that takes no lock and before every wait for a row lock.  A        *)
(* transaction's writes are applied by its last step, which also releases  *)
(* its locks: until then they are visible to nobody else, and nobody else  *)
(* can write the rows it holds.                                            *)
(*                                                                         *)
(* Abstracted: an entry has one debit and one credit line; descriptions,   *)
(* references, audit events and version counters are left out (a stale     *)
(* client version is a request that fails, see Fail).                      *)
(***************************************************************************)
EXTENDS Naturals, FiniteSets

CONSTANTS
  Users,        \* users holding the accounting permissions
  Requests,     \* requests that can be in flight at the same time
  MaxEntry,     \* bound: journal entries ever created
  MaxDaybook,   \* bound: daybook entries ever created
  Dates,        \* accounting dates
  Accounts,     \* ledger accounts
  Switchable,   \* the non-system accounts, which can be (de)activated
  LineChoices,  \* the lines a client may send
  Policies,     \* accounting settings an administrator may choose
  NoOne         \* "no user" and "no lock holder"

JournalIds == 1..MaxEntry
DaybookIds == 1..MaxDaybook
None == 0                               \* no entry, no number, no lock date

LineType == [dr: Accounts, cr: Accounts, debit: Nat, credit: Nat]
PolicyType == [requireApproval: BOOLEAN, segregation: BOOLEAN, lockDate: Dates \cup {None}]

ASSUME BoundsAssumption == MaxEntry \in Nat /\ MaxDaybook \in Nat
ASSUME ChoicesAssumption ==
  /\ Dates \subseteq Nat \ {None}
  /\ Switchable \subseteq Accounts
  /\ LineChoices \subseteq LineType
  /\ Policies \subseteq PolicyType
ASSUME NoOneAssumption == NoOne \notin Users /\ NoOne \notin Requests

VARIABLES
  entry,        \* journal_entries with their journal_lines
  daybook,      \* daybook_entries
  nextValue,    \* number_sequences: the next journal number
  active,       \* ledger_accounts with is_active
  policy,       \* settings 'accounting'
  entryLock, daybookLock, counterLock,  \* holders of the row locks
  txn           \* what each request is doing

rows  == <<entry, daybook, nextValue>>
locks == <<entryLock, daybookLock, counterLock>>
vars  == <<entry, daybook, nextValue, active, policy, entryLock, daybookLock, counterLock, txn>>

-----------------------------------------------------------------------------
(* Rows *)

Absent  == [status |-> "absent"]
Deleted == [status |-> "deleted"]
NoDaybook == [status |-> "absent", link |-> None]

Unposted == {"draft", "pending", "approved"}
Posted   == {"posted", "reversed"}

EntryType == [status: Unposted \cup Posted, source: {"manual", "daybook", "reversal"},
              date: Dates, lines: LineType, createdBy: Users, approvedBy: Users \cup {NoOne},
              number: Nat, reversalOf: JournalIds \cup {None}, reversedBy: JournalIds \cup {None}]
DaybookType == [status: {"pending", "posted", "void"}, link: JournalIds \cup {None}]

Exists(e) == entry[e].status \in Unposted \cup Posted

\* Rows get fresh ids; a deleted row's id is never used again.
FreshEntry(e) == entry[e] = Absent /\ \A f \in JournalIds : f < e => entry[f] # Absent
FreshDaybook(d) == daybook[d] = NoDaybook /\ \A f \in DaybookIds : f < d => daybook[f] # NoDaybook

NewEntry(source, status, date, lines, user) ==
  [status |-> status, source |-> source, date |-> date, lines |-> lines, createdBy |-> user,
   approvedBy |-> NoOne, number |-> None, reversalOf |-> None, reversedBy |-> None]

\* Mutant: a reversal repeats the lines instead of mirroring them.
MirrorNothing(l) == l

Mirror(l) == [l EXCEPT !.dr = l.cr, !.cr = l.dr, !.debit = l.credit, !.credit = l.debit]
Balanced(l) == l.debit = l.credit /\ l.debit > 0

\* The tests of validateLines, assertUnlocked and assertSegregation.
ValidLines(l) == Balanced(l) /\ {l.dr, l.cr} \subseteq active
Unlocked(p, date) == p.lockDate = None \/ p.lockDate < date
Segregated(p, x, user) == p.segregation => x.createdBy # user

-----------------------------------------------------------------------------
(* Requests *)

Idle == [op |-> "none", step |-> "none"]

PostTxn ==
  [op: {"post"}, step: {"lock", "number", "finish"}, user: Users, e: JournalIds,
   policy: Policies, num: Nat]
ReverseTxn ==
  [op: {"reverse"}, step: {"lock", "number", "finish"}, user: Users, e: JournalIds,
   date: Dates, policy: Policies, num: Nat]
QuickTxn ==
  [op: {"quick"}, step: {"policy", "validate", "number", "finish"}, user: Users,
   date: Dates, lines: LineChoices, policy: Policies, num: Nat]

TxnType ==
  {Idle} \cup PostTxn \cup ReverseTxn \cup QuickTxn
  \cup [op: {"create", "record"}, step: {"commit"}, user: Users, date: Dates, lines: LineChoices]
  \cup [op: {"edit"}, step: {"commit"}, e: JournalIds, date: Dates, lines: LineChoices]
  \cup [op: {"delete"}, step: {"lock"}, e: JournalIds]
  \cup [op: {"submit", "approve"}, step: {"lock"}, user: Users, e: JournalIds, policy: Policies]
  \cup [op: {"daybookEdit"}, step: {"journal"}, d: DaybookIds, e: JournalIds \cup {None},
        date: Dates, lines: LineChoices]
  \cup [op: {"void"}, step: {"journal"}, d: DaybookIds, e: JournalIds \cup {None}]

At(r, op, step) == txn[r].op = op /\ txn[r].step = step
Begin(r, t) == txn[r] = Idle /\ txn' = [txn EXCEPT ![r] = t]
Goto(r, step) == txn' = [txn EXCEPT ![r].step = step]

\* Mutant: the counter row is not released.
EndKeepingCounter(r) ==
  /\ txn' = [txn EXCEPT ![r] = Idle]
  /\ entryLock' = [e \in JournalIds |-> IF entryLock[e] = r THEN NoOne ELSE entryLock[e]]
  /\ daybookLock' = [d \in DaybookIds |-> IF daybookLock[d] = r THEN NoOne ELSE daybookLock[d]]
  /\ counterLock' = counterLock

\* The end of a transaction, committed or rolled back: its locks are released.
End(r) ==
  /\ txn' = [txn EXCEPT ![r] = Idle]
  /\ entryLock' = [e \in JournalIds |-> IF entryLock[e] = r THEN NoOne ELSE entryLock[e]]
  /\ daybookLock' = [d \in DaybookIds |-> IF daybookLock[d] = r THEN NoOne ELSE daybookLock[d]]
  /\ counterLock' = IF counterLock = r THEN NoOne ELSE counterLock

LockEntry(r, e) == entryLock[e] = NoOne /\ entryLock' = [entryLock EXCEPT ![e] = r]
LockDaybook(r, d) == daybookLock[d] = NoOne /\ daybookLock' = [daybookLock EXCEPT ![d] = r]

\* The bounds leave room for the rows that requests in flight will insert.
RoomForEntry ==
  Cardinality({r \in Requests : txn[r].op \in {"create", "record", "quick", "reverse"}})
    < Cardinality({e \in JournalIds : entry[e] = Absent})
RoomForDaybook ==
  Cardinality({r \in Requests : txn[r].op \in {"record", "quick"}})
    < Cardinality({d \in DaybookIds : daybook[d] = NoDaybook})

-----------------------------------------------------------------------------
(* createEntry, updateEntry, deleteEntry *)

CreateValidate(r, u, date, l) ==
  /\ RoomForEntry
  /\ ValidLines(l)
  /\ Begin(r, [op |-> "create", step |-> "commit", user |-> u, date |-> date, lines |-> l])
  /\ UNCHANGED <<rows, locks, active, policy>>

CreateCommit(r) ==
  /\ At(r, "create", "commit")
  /\ \E e \in JournalIds :
       /\ FreshEntry(e)
       /\ entry' = [entry EXCEPT ![e] =
            NewEntry("manual", "draft", txn[r].date, txn[r].lines, txn[r].user)]
  /\ End(r)
  /\ UNCHANGED <<daybook, nextValue, active, policy>>

Editable(x) == x.status \in {"draft", "pending"} /\ x.source = "manual"

EditLock(r, e, date, l) ==
  /\ Exists(e)
  /\ LockEntry(r, e)
  /\ Editable(entry[e])
  /\ ValidLines(l)
  /\ Begin(r, [op |-> "edit", step |-> "commit", e |-> e, date |-> date, lines |-> l])
  /\ UNCHANGED <<rows, daybookLock, counterLock, active, policy>>

\* An edited entry goes back to draft, whoever had submitted it.
EditCommit(r) ==
  /\ At(r, "edit", "commit")
  /\ entry' = [entry EXCEPT ![txn[r].e].status = "draft",
                            ![txn[r].e].date = txn[r].date,
                            ![txn[r].e].lines = txn[r].lines]
  /\ End(r)
  /\ UNCHANGED <<daybook, nextValue, active, policy>>

\* deleteEntry reads the row without a lock ...
DeleteRead(r, e) ==
  /\ Exists(e)
  /\ Editable(entry[e])
  /\ Begin(r, [op |-> "delete", step |-> "lock", e |-> e])
  /\ UNCHANGED <<rows, locks, active, policy>>

\* ... and the DELETE statement checks the status again.
DeleteOk(x) == x.status \in {"draft", "pending"}

DeleteApply(r) ==
  /\ At(r, "delete", "lock")
  /\ entryLock[txn[r].e] = NoOne
  /\ DeleteOk(entry[txn[r].e])
  /\ entry' = [entry EXCEPT ![txn[r].e] = Deleted]
  /\ End(r)
  /\ UNCHANGED <<daybook, nextValue, active, policy>>

-----------------------------------------------------------------------------
(* submit and approve: the settings are read before the transaction opens *)

TransitionRead(r, u, e, op) ==
  /\ Exists(e)
  /\ Begin(r, [op |-> op, step |-> "lock", user |-> u, e |-> e, policy |-> policy])
  /\ UNCHANGED <<rows, locks, active, policy>>

SubmitOk(t, x) == x.status = "draft" /\ Unlocked(t.policy, x.date)
ApproveOk(t, x) ==
  /\ x.status = "pending"
  /\ Unlocked(t.policy, x.date)
  /\ Segregated(t.policy, x, t.user)

Submit(r) ==
  /\ At(r, "submit", "lock")
  /\ entryLock[txn[r].e] = NoOne
  /\ SubmitOk(txn[r], entry[txn[r].e])
  /\ entry' = [entry EXCEPT ![txn[r].e].status = "pending"]
  /\ End(r)
  /\ UNCHANGED <<daybook, nextValue, active, policy>>

Approve(r) ==
  /\ At(r, "approve", "lock")
  /\ entryLock[txn[r].e] = NoOne
  /\ ApproveOk(txn[r], entry[txn[r].e])
  /\ entry' = [entry EXCEPT ![txn[r].e].status = "approved",
                            ![txn[r].e].approvedBy = txn[r].user]
  /\ End(r)
  /\ UNCHANGED <<daybook, nextValue, active, policy>>

-----------------------------------------------------------------------------
(* post *)

PostRead(r, u, e) ==
  /\ Exists(e)
  /\ Begin(r, [op |-> "post", step |-> "lock", user |-> u, e |-> e, policy |-> policy, num |-> None])
  /\ UNCHANGED <<rows, locks, active, policy>>

\* Mutant: without the approval step anything can be posted, also what is.
PostableAgain(p) == IF p.requireApproval THEN {"approved"} ELSE Unposted \cup {"posted"}

Postable(p) == IF p.requireApproval THEN {"approved"} ELSE Unposted

PostOk(t, x) ==
  /\ x.status \in Postable(t.policy)
  /\ Unlocked(t.policy, x.date)
  /\ x.status # "approved" => Segregated(t.policy, x, t.user)
  /\ ValidLines(x.lines)

\* Mutant: the entry is read without FOR UPDATE.
PostLockUnlocked(r) ==
  /\ At(r, "post", "lock")
  /\ entryLock[txn[r].e] = NoOne
  /\ PostOk(txn[r], entry[txn[r].e])
  /\ Goto(r, "number")
  /\ UNCHANGED <<rows, locks, active, policy>>

PostLock(r) ==
  /\ At(r, "post", "lock")
  /\ LockEntry(r, txn[r].e)
  /\ PostOk(txn[r], entry[txn[r].e])
  /\ Goto(r, "number")
  /\ UNCHANGED <<rows, daybookLock, counterLock, active, policy>>

\* Mutant: the next number is read without locking the counter row.
TakeNumberUnlocked(r) ==
  /\ txn[r].step = "number"
  /\ txn' = [txn EXCEPT ![r].step = "finish", ![r].num = nextValue]
  /\ UNCHANGED <<rows, locks, active, policy>>

\* nextNumber: the counter row stays locked until the transaction ends.
TakeNumber(r) ==
  /\ txn[r].step = "number"
  /\ counterLock = NoOne
  /\ counterLock' = r
  /\ txn' = [txn EXCEPT ![r].step = "finish", ![r].num = nextValue]
  /\ UNCHANGED <<rows, entryLock, daybookLock, active, policy>>

DaybookFree(e) == \A d \in DaybookIds : daybook[d].link = e => daybookLock[d] = NoOne

\* Mutant: the daybook row is forgotten.
MarkDaybookNever(e, s) == daybook' = daybook

\* UPDATE daybook_entries SET status = s WHERE journal_entry_id = e
MarkDaybook(e, s) ==
  daybook' = [d \in DaybookIds |->
                IF daybook[d].link = e THEN [daybook[d] EXCEPT !.status = s] ELSE daybook[d]]

PostFinish(r) ==
  LET t == txn[r] IN
  /\ At(r, "post", "finish")
  /\ DaybookFree(t.e)
  /\ entry' = [entry EXCEPT ![t.e].status = "posted",
                            ![t.e].number = t.num,
                            ![t.e].approvedBy = IF @ = NoOne THEN t.user ELSE @]
  /\ MarkDaybook(t.e, "posted")
  /\ nextValue' = t.num + 1
  /\ End(r)
  /\ UNCHANGED <<active, policy>>

-----------------------------------------------------------------------------
(* reverse *)

ReverseRead(r, u, e, date) ==
  /\ RoomForEntry
  /\ Exists(e)
  /\ Begin(r, [op |-> "reverse", step |-> "lock", user |-> u, e |-> e, date |-> date,
               policy |-> policy, num |-> None])
  /\ UNCHANGED <<rows, locks, active, policy>>

ReverseOk(t, x) ==
  /\ x.status = "posted"
  /\ x.source # "reversal"
  /\ x.date <= t.date
  /\ Unlocked(t.policy, t.date)

ReverseLock(r) ==
  /\ At(r, "reverse", "lock")
  /\ LockEntry(r, txn[r].e)
  /\ ReverseOk(txn[r], entry[txn[r].e])
  /\ Goto(r, "number")
  /\ UNCHANGED <<rows, daybookLock, counterLock, active, policy>>

Reversal(t, x) ==
  [NewEntry("reversal", "posted", t.date, Mirror(x.lines), t.user) EXCEPT
     !.approvedBy = t.user, !.number = t.num, !.reversalOf = t.e]

ReverseFinish(r) ==
  LET t == txn[r] IN
  /\ At(r, "reverse", "finish")
  /\ DaybookFree(t.e)
  /\ \E v \in JournalIds :
       /\ FreshEntry(v)
       /\ entry' = [entry EXCEPT ![t.e].status = "reversed",
                                 ![t.e].reversedBy = v,
                                 ![v] = Reversal(t, entry[t.e])]
  /\ MarkDaybook(t.e, "void")
  /\ nextValue' = t.num + 1
  /\ End(r)
  /\ UNCHANGED <<active, policy>>

-----------------------------------------------------------------------------
(* The daybook: create, with and without postImmediately *)

RecordValidate(r, u, date, l) ==
  /\ RoomForEntry /\ RoomForDaybook
  /\ ValidLines(l)
  /\ Begin(r, [op |-> "record", step |-> "commit", user |-> u, date |-> date, lines |-> l])
  /\ UNCHANGED <<rows, locks, active, policy>>

\* Inserts the journal entry j and the daybook row that points to it.
InsertDaybook(j, status) ==
  \E e \in JournalIds, d \in DaybookIds :
    /\ FreshEntry(e) /\ FreshDaybook(d)
    /\ entry' = [entry EXCEPT ![e] = j]
    /\ daybook' = [daybook EXCEPT ![d] = [status |-> status, link |-> e]]

RecordCommit(r) ==
  /\ At(r, "record", "commit")
  /\ InsertDaybook(NewEntry("daybook", "pending", txn[r].date, txn[r].lines, txn[r].user), "pending")
  /\ End(r)
  /\ UNCHANGED <<nextValue, active, policy>>

\* Mutant: posting at once ignores segregation of duties.
QuickReadUnsegregated(r, u, date, l) ==
  /\ RoomForEntry /\ RoomForDaybook
  /\ Begin(r, [op |-> "quick", step |-> "policy", user |-> u, date |-> date, lines |-> l,
               policy |-> policy, num |-> None])
  /\ UNCHANGED <<rows, locks, active, policy>>

\* Segregation of duties is looked up before the transaction opens ...
QuickRead(r, u, date, l) ==
  /\ RoomForEntry /\ RoomForDaybook
  /\ ~policy.segregation
  /\ Begin(r, [op |-> "quick", step |-> "policy", user |-> u, date |-> date, lines |-> l,
               policy |-> policy, num |-> None])
  /\ UNCHANGED <<rows, locks, active, policy>>

\* ... and post reads the settings again; the entry is already approved, so
\* only the lock date matters now.
QuickPolicy(r) ==
  /\ At(r, "quick", "policy")
  /\ txn' = [txn EXCEPT ![r].step = "validate", ![r].policy = policy]
  /\ UNCHANGED <<rows, locks, active, policy>>

QuickOk(t) == Unlocked(t.policy, t.date) /\ ValidLines(t.lines)

QuickValidate(r) ==
  /\ At(r, "quick", "validate")
  /\ QuickOk(txn[r])
  /\ Goto(r, "number")
  /\ UNCHANGED <<rows, locks, active, policy>>

QuickFinish(r) ==
  LET t == txn[r] IN
  /\ At(r, "quick", "finish")
  /\ InsertDaybook([NewEntry("daybook", "posted", t.date, t.lines, t.user) EXCEPT
                      !.approvedBy = t.user, !.number = t.num], "posted")
  /\ nextValue' = t.num + 1
  /\ End(r)
  /\ UNCHANGED <<active, policy>>

-----------------------------------------------------------------------------
(* The daybook: update and void lock the daybook row first, then the entry *)

DaybookEditLock(r, d, date, l) ==
  /\ LockDaybook(r, d)
  /\ daybook[d].status = "pending"
  /\ Balanced(l)
  /\ Begin(r, [op |-> "daybookEdit", step |-> "journal", d |-> d, e |-> daybook[d].link,
               date |-> date, lines |-> l])
  /\ UNCHANGED <<rows, entryLock, counterLock, active, policy>>

\* Mutant: an approved entry can still be edited through the daybook.
DaybookEditOkApproved(x) == x.status \in Unposted

DaybookEditOk(x) == x.status \in {"draft", "pending"}

\* linesFor does not ask whether the accounts are active.
DaybookEditJournal(r) ==
  LET t == txn[r] IN
  /\ At(r, "daybookEdit", "journal")
  /\ entryLock[t.e] = NoOne
  /\ DaybookEditOk(entry[t.e])
  /\ entry' = [entry EXCEPT ![t.e].date = t.date, ![t.e].lines = t.lines]
  /\ End(r)
  /\ UNCHANGED <<daybook, nextValue, active, policy>>

VoidLock(r, d) ==
  /\ LockDaybook(r, d)
  /\ daybook[d].status = "pending"
  /\ Begin(r, [op |-> "void", step |-> "journal", d |-> d, e |-> daybook[d].link])
  /\ UNCHANGED <<rows, entryLock, counterLock, active, policy>>

\* DELETE FROM journal_entries WHERE id = e AND status is unposted: a posted
\* entry would stay, while the daybook row is void and points nowhere.
VoidJournal(r) ==
  LET t == txn[r] IN
  /\ At(r, "void", "journal")
  /\ entryLock[t.e] = NoOne
  /\ daybook' = [daybook EXCEPT ![t.d] = [status |-> "void", link |-> None]]
  /\ entry' = [entry EXCEPT ![t.e] = IF @.status \in Unposted THEN Deleted ELSE @]
  /\ End(r)
  /\ UNCHANGED <<nextValue, active, policy>>

-----------------------------------------------------------------------------
(* updateSettings and updateAccount are single conditional statements *)

UpdateSettings(p) ==
  /\ p # policy
  /\ policy' = p
  /\ UNCHANGED <<rows, locks, active, txn>>

UpdateAccount(a) ==
  /\ active' = IF a \in active THEN active \ {a} ELSE active \cup {a}
  /\ UNCHANGED <<rows, locks, policy, txn>>

-----------------------------------------------------------------------------
(* Transactions that do not commit *)

\* The requests r waits for, at the row its next statement must lock.
BlockedBy(r) ==
  LET t == txn[r] IN
  {x \in Requests :
     \/ t.step \in {"lock", "journal"} /\ entryLock[t.e] = x
     \/ t.step = "number" /\ counterLock = x
     \/ /\ t.step = "finish" /\ t.op \in {"post", "reverse"}
        /\ \E d \in DaybookIds : daybook[d].link = t.e /\ daybookLock[d] = x}

\* The check of the handler fails: it throws and the transaction rolls back.
Refuse(r) ==
  LET t == txn[r] IN
  /\ BlockedBy(r) = {}
  /\ \/ At(r, "delete", "lock")         /\ ~DeleteOk(entry[t.e])
     \/ At(r, "submit", "lock")         /\ ~(Exists(t.e) /\ SubmitOk(t, entry[t.e]))
     \/ At(r, "approve", "lock")        /\ ~(Exists(t.e) /\ ApproveOk(t, entry[t.e]))
     \/ At(r, "post", "lock")           /\ ~(Exists(t.e) /\ PostOk(t, entry[t.e]))
     \/ At(r, "reverse", "lock")        /\ ~(Exists(t.e) /\ ReverseOk(t, entry[t.e]))
     \/ At(r, "quick", "validate")      /\ ~QuickOk(t)
     \/ At(r, "daybookEdit", "journal") /\ ~DaybookEditOk(entry[t.e])
  /\ End(r)
  /\ UNCHANGED <<rows, active, policy>>

\* A cycle of lock waits.
Cycle(S) ==
  /\ S # {}
  /\ \A r \in S : \E x \in S : x \in BlockedBy(r)
  /\ \A x \in S : \E r \in S : x \in BlockedBy(r)

\* PostgreSQL finds a cycle and rolls back one of its transactions.
DeadlockVictim(r) ==
  /\ \E S \in SUBSET Requests : r \in S /\ Cycle(S)
  /\ End(r)
  /\ UNCHANGED <<rows, active, policy>>

\* A stale version, a lost connection or a stopped process: rolled back.
Fail(r) ==
  /\ txn[r] # Idle
  /\ End(r)
  /\ UNCHANGED <<rows, active, policy>>

-----------------------------------------------------------------------------
Init ==
  /\ entry = [e \in JournalIds |-> Absent]
  /\ daybook = [d \in DaybookIds |-> NoDaybook]
  /\ nextValue = 1
  /\ active = Accounts
  /\ policy \in Policies
  /\ entryLock = [e \in JournalIds |-> NoOne]
  /\ daybookLock = [d \in DaybookIds |-> NoOne]
  /\ counterLock = NoOne
  /\ txn = [r \in Requests |-> Idle]

\* A client starts an operation.
Start(r) ==
  \/ \E u \in Users, date \in Dates, l \in LineChoices :
       CreateValidate(r, u, date, l) \/ RecordValidate(r, u, date, l) \/ QuickRead(r, u, date, l)
  \/ \E e \in JournalIds, date \in Dates, l \in LineChoices : EditLock(r, e, date, l)
  \/ \E e \in JournalIds : DeleteRead(r, e)
  \/ \E u \in Users, e \in JournalIds, op \in {"submit", "approve"} : TransitionRead(r, u, e, op)
  \/ \E u \in Users, e \in JournalIds : PostRead(r, u, e)
  \/ \E u \in Users, e \in JournalIds, date \in Dates : ReverseRead(r, u, e, date)
  \/ \E d \in DaybookIds, date \in Dates, l \in LineChoices : DaybookEditLock(r, d, date, l)
  \/ \E d \in DaybookIds : VoidLock(r, d)

\* The operation goes on to its next lock or to its commit.
Advance(r) ==
  \/ CreateCommit(r) \/ EditCommit(r) \/ DeleteApply(r) \/ Submit(r) \/ Approve(r)
  \/ PostLock(r) \/ ReverseLock(r) \/ TakeNumber(r) \/ PostFinish(r) \/ ReverseFinish(r)
  \/ RecordCommit(r) \/ QuickPolicy(r) \/ QuickValidate(r) \/ QuickFinish(r)
  \/ DaybookEditJournal(r) \/ VoidJournal(r)

Next ==
  \/ \E r \in Requests : Start(r) \/ Advance(r) \/ Refuse(r) \/ DeadlockVictim(r) \/ Fail(r)
  \/ \E p \in Policies : UpdateSettings(p)
  \/ \E a \in Switchable : UpdateAccount(a)

Spec == Init /\ [][Next]_vars

\* Row locks are granted in the order they were asked for, so a request whose
\* next row is free again and again gets it, and goes on or throws; the
\* deadlock detector runs.
Fairness ==
  \A r \in Requests : SF_vars(Advance(r) \/ Refuse(r)) /\ WF_vars(DeadlockVictim(r))

FairSpec == Spec /\ Fairness

-----------------------------------------------------------------------------
(* Correctness *)

TypeOK ==
  /\ entry \in [JournalIds -> EntryType \cup {Absent, Deleted}]
  /\ daybook \in [DaybookIds -> DaybookType \cup {NoDaybook}]
  /\ nextValue \in Nat \ {0}
  /\ active \subseteq Accounts
  /\ policy \in Policies
  /\ entryLock \in [JournalIds -> Requests \cup {NoOne}]
  /\ daybookLock \in [DaybookIds -> Requests \cup {NoOne}]
  /\ counterLock \in Requests \cup {NoOne}
  /\ txn \in [Requests -> TxnType]

InBook(e) == entry[e].status \in Posted

\* What a request has checked under a row lock is still so when it commits:
\* the entry it is about to edit, post or reverse is in the status it was found
\* in, and its number is still the next one.
Protected(r) ==
  LET t == txn[r] IN
  /\ t.op = "edit" => entryLock[t.e] = r /\ Editable(entry[t.e])
  /\ t.op = "post" /\ t.step # "lock" => entryLock[t.e] = r /\ entry[t.e].status \in Unposted
  /\ t.op = "reverse" /\ t.step # "lock" =>
       /\ entryLock[t.e] = r
       /\ entry[t.e].status = "posted" /\ entry[t.e].source # "reversal" /\ entry[t.e].date <= t.date
  /\ t.step = "finish" => counterLock = r /\ t.num = nextValue

LocksProtect == \A r \in Requests : Protected(r)

\* "Row lock on the counter makes numbering gapless and serial across
\* concurrent posts" (accounting.service.ts:402): the numbers of the committed
\* postings are exactly 1 .. nextValue - 1, each used once.
NumberingGapless ==
  /\ \A e, f \in JournalIds : InBook(e) /\ InBook(f) /\ entry[e].number = entry[f].number => e = f
  /\ \A n \in 1..(nextValue - 1) : \E e \in JournalIds : InBook(e) /\ entry[e].number = n
  /\ \A e \in JournalIds : InBook(e) => entry[e].number \in 1..(nextValue - 1)

\* A daybook row and its journal entry tell the same story, whichever of post,
\* reverse, void and the edits ran last: pending rows have an entry on its way,
\* posted rows a posted one, and no journal entry made for the daybook is left
\* without the row it was made for.
DaybookAgrees ==
  /\ \A d \in DaybookIds :
       /\ daybook[d].status = "pending" =>
            daybook[d].link # None /\ entry[daybook[d].link].status \in {"pending", "approved"}
       /\ daybook[d].status = "posted" =>
            daybook[d].link # None /\ entry[daybook[d].link].status = "posted"
       /\ daybook[d].status = "void" /\ daybook[d].link # None =>
            entry[daybook[d].link].status = "reversed"
  /\ \A e \in JournalIds :
       Exists(e) /\ entry[e].source = "daybook" =>
         Cardinality({d \in DaybookIds : daybook[d].link = e}) = 1

\* If segregation of duties was never off, no entry got into the book on the
\* word of its own author; only reversals, which have no second pair of eyes,
\* are approved by the user who makes them.
SegregationHeld ==
  (\A p \in Policies : p.segregation) =>
    \A e \in JournalIds :
      InBook(e) /\ entry[e].source # "reversal" =>
        entry[e].approvedBy \notin {NoOne, entry[e].createdBy}

\* What an approver has seen is what is posted: from approval on, date and
\* lines of an entry never change (it can only disappear with a void daybook
\* row), and a posted entry leaves "posted" only to be "reversed".
FrozenOnceApproved ==
  [][\A e \in JournalIds : entry[e].status \in {"approved"} \cup Posted =>
       \/ /\ entry[e].status = "approved"
          /\ entry'[e] = Deleted
       \/ /\ entry'[e].status \in {"approved"} \cup Posted
          /\ entry'[e].date = entry[e].date
          /\ entry'[e].lines = entry[e].lines
          /\ entry[e].status = "reversed" => entry'[e].status = "reversed"]_entry

\* The triggers of migration 0003 (daliz_journal_entry_guard and
\* daliz_journal_line_guard), on one committed change of a row.
GuardAccepts(old, new) ==
  /\ old.status = "reversed" => new = old
  /\ old.status = "posted" =>
       \/ new = old
       \/ /\ new.status = "reversed" /\ new.reversedBy # None
          /\ new.number = old.number /\ new.date = old.date /\ new.lines = old.lines
  /\ old.status \notin Posted /\ new.status \in Posted =>
       new.status = "posted" /\ Balanced(new.lines) /\ new.number # None

\* The services never ask for a change the database triggers would refuse: the
\* triggers are a second line of defence, not a part of the protocol.
TriggersNeverFire == [][\A e \in JournalIds : GuardAccepts(entry[e], entry'[e])]_entry

\* Every request is answered: no lock is held for ever and no deadlock lasts.
RequestsEnd == \A r \in Requests : txn[r] # Idle ~> txn[r] = Idle

-----------------------------------------------------------------------------
(* Ledger implements LedgerBook *)

\* The posting with number n.
Numbered(n) == CHOOSE e \in JournalIds : InBook(e) /\ entry[e].number = n

PostingAt(n) ==
  LET x == entry[Numbered(n)] IN
  [date     |-> x.date,
   lines    |-> x.lines,
   reverses |-> IF x.reversalOf = None THEN 0 ELSE entry[x.reversalOf].number]

Book == INSTANCE LedgerBook WITH
          Lines <- LineChoices,
          book  <- [n \in 1..(nextValue - 1) |-> PostingAt(n)]

\* The committed postings, by number, are an append-only book of balanced
\* postings, each mirrored at most once.
ImplementsBook == Book!Spec
=============================================================================
