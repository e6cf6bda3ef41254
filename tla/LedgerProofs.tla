---------------------------- MODULE LedgerProofs ----------------------------
(***************************************************************************)
(* Theorems about Ledger, for any users, requests, accounts, dates and     *)
(* policies, and any bound on the rows.                                    *)
(***************************************************************************)
EXTENDS Ledger, Sequences, FiniteSetTheorems, TLAPS

USE DEF JournalIds, DaybookIds, None

(***************************************************************************)
(* Type correctness                                                        *)
(***************************************************************************)

\* The end of a transaction only gives locks back.
LEMMA EndType ==
  ASSUME NEW r \in Requests, TypeOK, End(r)
  PROVE  /\ txn' \in [Requests -> TxnType]
         /\ entryLock' \in [JournalIds -> Requests \cup {NoOne}]
         /\ daybookLock' \in [DaybookIds -> Requests \cup {NoOne}]
         /\ counterLock' \in Requests \cup {NoOne}
  BY DEF TypeOK, End, TxnType

\* What a request in flight carries, by the operation it runs.
LEMMA TxnFields ==
  ASSUME TypeOK, NEW r \in Requests
  PROVE  /\ txn[r].op \in {"create", "record"} =>
              txn[r].user \in Users /\ txn[r].date \in Dates /\ txn[r].lines \in LineChoices
         /\ txn[r].op = "edit" =>
              txn[r].e \in JournalIds /\ txn[r].date \in Dates /\ txn[r].lines \in LineChoices
         /\ txn[r].op = "delete" => txn[r].e \in JournalIds
         /\ txn[r].op \in {"submit", "approve"} =>
              txn[r].user \in Users /\ txn[r].e \in JournalIds
         /\ txn[r].op = "post" =>
              txn[r].user \in Users /\ txn[r].e \in JournalIds /\ txn[r].num \in Nat
         /\ txn[r].op = "reverse" =>
              /\ txn[r].user \in Users /\ txn[r].e \in JournalIds
              /\ txn[r].date \in Dates /\ txn[r].num \in Nat
         /\ txn[r].op = "quick" =>
              /\ txn[r].user \in Users /\ txn[r].date \in Dates
              /\ txn[r].lines \in LineChoices /\ txn[r].num \in Nat
         /\ txn[r].op = "daybookEdit" =>
              /\ txn[r].d \in DaybookIds /\ txn[r].e \in JournalIds \cup {None}
              /\ txn[r].date \in Dates /\ txn[r].lines \in LineChoices
         /\ txn[r].op = "void" => txn[r].d \in DaybookIds /\ txn[r].e \in JournalIds \cup {None}
  <1>1. txn[r] \in TxnType
    BY DEF TypeOK
  <1>2. QED
    BY <1>1 DEF TxnType, Idle, PostTxn, ReverseTxn, QuickTxn

\* The operations that take a number, by the step they are at.
LEMMA TxnShape ==
  ASSUME TypeOK, NEW r \in Requests
  PROVE  /\ txn[r].op = "post" => txn[r] \in PostTxn
         /\ txn[r].op = "reverse" => txn[r] \in ReverseTxn
         /\ txn[r].op = "quick" => txn[r] \in QuickTxn
         /\ txn[r].step \in {"number", "finish"} => txn[r].op \in {"post", "reverse", "quick"}
  <1>1. txn[r] \in TxnType
    BY DEF TypeOK
  <1>2. QED
    BY <1>1 DEF TxnType, Idle, PostTxn, ReverseTxn, QuickTxn

\* Going on to a later step of the same operation.
LEMMA TxnMove ==
  ASSUME TypeOK, NEW r \in Requests, NEW n \in Nat, NEW p \in Policies,
         txn[r].op \in {"post", "reverse", "quick"}
  PROVE  /\ [txn[r] EXCEPT !.step = "number"] \in TxnType
         /\ [txn[r] EXCEPT !.step = "finish", !.num = n] \in TxnType
         /\ txn[r].op = "quick" => [txn[r] EXCEPT !.step = "validate", !.policy = p] \in TxnType
  <1>1. CASE txn[r].op = "post"
    BY <1>1, TxnShape DEF TxnType, PostTxn
  <1>2. CASE txn[r].op = "reverse"
    BY <1>2, TxnShape DEF TxnType, ReverseTxn
  <1>3. CASE txn[r].op = "quick"
    BY <1>3, TxnShape DEF TxnType, QuickTxn
  <1>4. QED
    BY <1>1, <1>2, <1>3

\* Only numbers of the declared kind, dates and lines go into a row.
LEMMA NewEntryType ==
  ASSUME NEW source \in {"manual", "daybook", "reversal"}, NEW status \in Unposted \cup Posted,
         NEW date \in Dates, NEW l \in LineType, NEW u \in Users
  PROVE  NewEntry(source, status, date, l, u) \in EntryType
  BY DEF NewEntry, EntryType

\* The reversal of a line is a line.
LEMMA MirrorType == ASSUME NEW l \in LineType PROVE Mirror(l) \in LineType
  BY DEF Mirror, LineType

\* A row that exists has the fields of an entry.
LEMMA ExistingType == ASSUME TypeOK, NEW e \in JournalIds, Exists(e) PROVE entry[e] \in EntryType
  BY DEF TypeOK, Exists, Absent, Deleted, Unposted, Posted

EntriesType == [JournalIds -> EntryType \cup {Absent, Deleted}]

\* A last step that writes well-typed rows keeps every type.
LEMMA EndTypeOK ==
  ASSUME NEW r \in Requests, TypeOK, End(r), entry' \in EntriesType,
         daybook' \in [DaybookIds -> DaybookType \cup {NoDaybook}], nextValue' \in Nat \ {0},
         active' = active, policy' = policy
  PROVE  TypeOK'
  BY EndType DEF TypeOK, EntriesType

\* The lines users choose from are lines.
LEMMA LineChoicesTyped == ASSUME NEW l \in LineChoices PROVE l \in LineType
  BY ChoicesAssumption

\* The steps of Advance that change rows, one lemma for the entries they write.
LEMMA EntriesStep ==
  ASSUME TypeOK, LocksProtect, NEW r \in Requests, Advance(r)
  PROVE  entry' \in EntriesType
<1> DEFINE t == txn[r]
<1>0. entry \in EntriesType
  BY DEF TypeOK, EntriesType
<1>1. CASE CreateCommit(r)
  <2>1. t.user \in Users /\ t.date \in Dates /\ t.lines \in LineType
    BY <1>1, TxnFields, LineChoicesTyped DEF CreateCommit, At
  <2>2. NewEntry("manual", "draft", t.date, t.lines, t.user) \in EntryType
    BY <2>1, NewEntryType DEF Unposted
  <2>3. QED
    BY <1>0, <1>1, <2>2 DEF CreateCommit, EntriesType
<1>2. CASE EditCommit(r)
  <2>1. t.e \in JournalIds /\ t.date \in Dates /\ t.lines \in LineType
    BY <1>2, TxnFields, LineChoicesTyped DEF EditCommit, At
  <2>2. entry[t.e] \in EntryType
    BY <1>2, <2>1, ExistingType DEF EditCommit, At, LocksProtect, Protected, Editable, Exists, Unposted
  <2>3. QED
    BY <1>0, <1>2, <2>1, <2>2 DEF EditCommit, EntriesType, EntryType, Unposted
<1>3. CASE DeleteApply(r)
  BY <1>0, <1>3 DEF DeleteApply, EntriesType
<1>4. CASE Submit(r)
  <2>1. t.e \in JournalIds
    BY <1>4, TxnFields DEF Submit, At
  <2>2. entry[t.e] \in EntryType
    BY <1>4, <2>1, ExistingType DEF Submit, SubmitOk, Exists, Unposted
  <2>3. QED
    BY <1>0, <1>4, <2>1, <2>2 DEF Submit, EntriesType, EntryType, Unposted
<1>5. CASE Approve(r)
  <2>1. t.e \in JournalIds /\ t.user \in Users
    BY <1>5, TxnFields DEF Approve, At
  <2>2. entry[t.e] \in EntryType
    BY <1>5, <2>1, ExistingType DEF Approve, ApproveOk, Exists, Unposted
  <2>3. QED
    BY <1>0, <1>5, <2>1, <2>2 DEF Approve, EntriesType, EntryType, Unposted
<1>6. CASE PostFinish(r)
  <2>1. t.e \in JournalIds /\ t.user \in Users /\ t.num \in Nat
    BY <1>6, TxnFields DEF PostFinish, At
  <2>2. entry[t.e] \in EntryType
    BY <1>6, <2>1, ExistingType DEF PostFinish, At, LocksProtect, Protected, Exists
  <2>3. QED
    BY <1>0, <1>6, <2>1, <2>2 DEF PostFinish, EntriesType, EntryType, Posted
<1>7. CASE ReverseFinish(r)
  <2>1. t.e \in JournalIds /\ t.user \in Users /\ t.date \in Dates /\ t.num \in Nat
    BY <1>7, TxnFields DEF ReverseFinish, At
  <2>2. entry[t.e] \in EntryType
    BY <1>7, <2>1, ExistingType DEF ReverseFinish, At, LocksProtect, Protected, Exists, Posted
  <2>3. Mirror(entry[t.e].lines) \in LineType
    BY <2>2, MirrorType DEF EntryType
  <2>4. NewEntry("reversal", "posted", t.date, Mirror(entry[t.e].lines), t.user) \in EntryType
    BY <2>1, <2>3, NewEntryType DEF Posted
  <2>5. Reversal(t, entry[t.e]) \in EntryType
    BY <2>1, <2>4 DEF Reversal, EntryType
  <2>6. PICK v \in JournalIds :
          /\ FreshEntry(v)
          /\ entry' = [entry EXCEPT ![t.e].status = "reversed",
                                    ![t.e].reversedBy = v,
                                    ![v] = Reversal(t, entry[t.e])]
    BY <1>7 DEF ReverseFinish
  <2>7. QED
    BY <1>0, <2>1, <2>2, <2>5, <2>6 DEF EntriesType, EntryType, Posted
<1>8. CASE RecordCommit(r)
  <2>1. t.user \in Users /\ t.date \in Dates /\ t.lines \in LineType
    BY <1>8, TxnFields, LineChoicesTyped DEF RecordCommit, At
  <2>2. NewEntry("daybook", "pending", t.date, t.lines, t.user) \in EntryType
    BY <2>1, NewEntryType DEF Unposted
  <2>3. QED
    BY <1>0, <1>8, <2>2 DEF RecordCommit, InsertDaybook, EntriesType
<1>9. CASE QuickFinish(r)
  <2>1. t.user \in Users /\ t.date \in Dates /\ t.lines \in LineType /\ t.num \in Nat
    BY <1>9, TxnFields, LineChoicesTyped DEF QuickFinish, At
  <2>2. NewEntry("daybook", "posted", t.date, t.lines, t.user) \in EntryType
    BY <2>1, NewEntryType DEF Posted
  <2>3. [NewEntry("daybook", "posted", t.date, t.lines, t.user) EXCEPT
           !.approvedBy = t.user, !.number = t.num] \in EntryType
    BY <2>1, <2>2 DEF EntryType
  <2>4. QED
    BY <1>0, <1>9, <2>3 DEF QuickFinish, InsertDaybook, EntriesType
<1>10. CASE DaybookEditJournal(r)
  <2>1. t.date \in Dates /\ t.lines \in LineType /\ t.e \in JournalIds \cup {None}
    BY <1>10, TxnFields, LineChoicesTyped DEF DaybookEditJournal, At
  <2>2. CASE t.e \in JournalIds
    <3>1. entry[t.e] \in EntryType
      BY <1>10, <2>2, ExistingType DEF DaybookEditJournal, DaybookEditOk, Exists, Unposted
    <3>2. QED
      BY <1>0, <1>10, <2>1, <2>2, <3>1 DEF DaybookEditJournal, EntriesType, EntryType
  <2>3. CASE t.e \notin JournalIds
    BY <1>0, <1>10, <2>3 DEF DaybookEditJournal, EntriesType
  <2>4. QED
    BY <2>2, <2>3
<1>11. CASE VoidJournal(r)
  BY <1>0, <1>11 DEF VoidJournal, EntriesType
<1>12. CASE PostLock(r) \/ ReverseLock(r) \/ TakeNumber(r) \/ QuickPolicy(r) \/ QuickValidate(r)
  BY <1>0, <1>12 DEF PostLock, ReverseLock, TakeNumber, QuickPolicy, QuickValidate, rows
<1>13. QED
  BY <1>1, <1>2, <1>3, <1>4, <1>5, <1>6, <1>7, <1>8, <1>9, <1>10, <1>11, <1>12 DEF Advance

\* The daybook rows they write.
LEMMA DaybookStep ==
  ASSUME TypeOK, NEW r \in Requests, Advance(r)
  PROVE  daybook' \in [DaybookIds -> DaybookType \cup {NoDaybook}]
<1> DEFINE t == txn[r]
<1>0. daybook \in [DaybookIds -> DaybookType \cup {NoDaybook}]
  BY DEF TypeOK
<1>1. CASE PostFinish(r) \/ ReverseFinish(r)
  <2>1. t.e \in JournalIds
    BY <1>1, TxnFields DEF PostFinish, ReverseFinish, At
  <2>2. MarkDaybook(t.e, "posted") \/ MarkDaybook(t.e, "void")
    BY <1>1 DEF PostFinish, ReverseFinish
  <2>3. QED
    BY <1>0, <2>1, <2>2 DEF MarkDaybook, DaybookType, NoDaybook
<1>2. CASE RecordCommit(r) \/ QuickFinish(r)
  BY <1>0, <1>2 DEF RecordCommit, QuickFinish, InsertDaybook, DaybookType
<1>3. CASE VoidJournal(r)
  BY <1>0, <1>3 DEF VoidJournal, DaybookType
<1>4. CASE CreateCommit(r) \/ EditCommit(r) \/ DeleteApply(r) \/ Submit(r) \/ Approve(r)
           \/ DaybookEditJournal(r)
  BY <1>0, <1>4 DEF CreateCommit, EditCommit, DeleteApply, Submit, Approve, DaybookEditJournal
<1>5. CASE PostLock(r) \/ ReverseLock(r) \/ TakeNumber(r) \/ QuickPolicy(r) \/ QuickValidate(r)
  BY <1>0, <1>5 DEF PostLock, ReverseLock, TakeNumber, QuickPolicy, QuickValidate, rows
<1>6. QED
  BY <1>1, <1>2, <1>3, <1>4, <1>5 DEF Advance

\* Every step of the ledger keeps the types.
LEMMA TypeStep == TypeOK /\ LocksProtect /\ [Next]_vars => TypeOK'
<1> SUFFICES ASSUME TypeOK, LocksProtect, [Next]_vars PROVE TypeOK'
  OBVIOUS
<1> USE ChoicesAssumption, BoundsAssumption DEF rows, locks
<1>1. ASSUME NEW r \in Requests, Start(r) PROVE TypeOK'
  <2> USE DEF Begin, TypeOK
  <2>1. ASSUME NEW u \in Users, NEW date \in Dates, NEW l \in LineChoices,
               CreateValidate(r, u, date, l) \/ RecordValidate(r, u, date, l) \/ QuickRead(r, u, date, l)
        PROVE  TypeOK'
    <3>1. CASE CreateValidate(r, u, date, l)
      BY <3>1 DEF CreateValidate, TxnType
    <3>2. CASE RecordValidate(r, u, date, l)
      BY <3>2 DEF RecordValidate, TxnType
    <3>3. CASE QuickRead(r, u, date, l)
      BY <3>3 DEF QuickRead, TxnType, QuickTxn
    <3>4. QED
      BY <2>1, <3>1, <3>2, <3>3
  <2>2. ASSUME NEW e \in JournalIds, NEW date \in Dates, NEW l \in LineChoices, EditLock(r, e, date, l)
        PROVE  TypeOK'
    BY <2>2 DEF EditLock, LockEntry, TxnType
  <2>3. ASSUME NEW e \in JournalIds, DeleteRead(r, e) PROVE TypeOK'
    BY <2>3 DEF DeleteRead, TxnType
  <2>4. ASSUME NEW u \in Users, NEW e \in JournalIds, NEW op \in {"submit", "approve"},
               TransitionRead(r, u, e, op)
        PROVE  TypeOK'
    BY <2>4 DEF TransitionRead, TxnType
  <2>5. ASSUME NEW u \in Users, NEW e \in JournalIds, PostRead(r, u, e) PROVE TypeOK'
    BY <2>5 DEF PostRead, TxnType, PostTxn
  <2>6. ASSUME NEW u \in Users, NEW e \in JournalIds, NEW date \in Dates, ReverseRead(r, u, e, date)
        PROVE  TypeOK'
    BY <2>6 DEF ReverseRead, TxnType, ReverseTxn
  <2>7. ASSUME NEW d \in DaybookIds, NEW date \in Dates, NEW l \in LineChoices,
               DaybookEditLock(r, d, date, l)
        PROVE  TypeOK'
    <3>1. daybook[d].link \in JournalIds \cup {None}
      BY DEF DaybookType, NoDaybook
    <3>2. QED
      BY <2>7, <3>1 DEF DaybookEditLock, LockDaybook, TxnType
  <2>8. ASSUME NEW d \in DaybookIds, VoidLock(r, d) PROVE TypeOK'
    <3>1. daybook[d].link \in JournalIds \cup {None}
      BY DEF DaybookType, NoDaybook
    <3>2. QED
      BY <2>8, <3>1 DEF VoidLock, LockDaybook, TxnType
  <2>9. QED
    BY <1>1, <2>1, <2>2, <2>3, <2>4, <2>5, <2>6, <2>7, <2>8 DEF Start
<1>2. ASSUME NEW r \in Requests, Advance(r) PROVE TypeOK'
  <2>0. policy \in Policies /\ nextValue \in Nat
    BY DEF TypeOK
  <2>1. CASE PostLock(r) \/ ReverseLock(r) \/ QuickValidate(r)
    <3>1. [txn[r] EXCEPT !.step = "number"] \in TxnType
      BY <2>0, <2>1, TxnMove DEF PostLock, ReverseLock, QuickValidate, At
    <3>2. txn' \in [Requests -> TxnType]
      BY <2>1, <3>1 DEF PostLock, ReverseLock, QuickValidate, Goto, TypeOK
    <3>3. entryLock' \in [JournalIds -> Requests \cup {NoOne}]
      BY <2>1 DEF PostLock, ReverseLock, QuickValidate, LockEntry, TypeOK
    <3>4. QED
      BY <2>1, <3>2, <3>3 DEF PostLock, ReverseLock, QuickValidate, TypeOK
  <2>3. CASE TakeNumber(r)
    <3>1. [txn[r] EXCEPT !.step = "finish", !.num = nextValue] \in TxnType
      BY <2>0, <2>3, TxnMove, TxnShape DEF TakeNumber
    <3>2. txn' \in [Requests -> TxnType]
      BY <2>3, <3>1 DEF TakeNumber, TypeOK
    <3>3. QED
      BY <2>3, <3>2 DEF TakeNumber, TypeOK
  <2>4. CASE QuickPolicy(r)
    <3>1. [txn[r] EXCEPT !.step = "validate", !.policy = policy] \in TxnType
      BY <2>0, <2>4, TxnMove DEF QuickPolicy, At
    <3>2. txn' \in [Requests -> TxnType]
      BY <2>4, <3>1 DEF QuickPolicy, TypeOK
    <3>3. QED
      BY <2>4, <3>2 DEF QuickPolicy, TypeOK
  <2>6. CASE PostFinish(r) \/ ReverseFinish(r) \/ QuickFinish(r)
    <3>1. txn[r].num \in Nat /\ nextValue' = txn[r].num + 1
      BY <2>6, TxnFields DEF PostFinish, ReverseFinish, QuickFinish, At
    <3>2. End(r) /\ active' = active /\ policy' = policy
      BY <2>6 DEF PostFinish, ReverseFinish, QuickFinish
    <3>3. QED
      BY <1>2, <3>1, <3>2, EntriesStep, DaybookStep, EndTypeOK
  <2>7. CASE CreateCommit(r) \/ EditCommit(r) \/ DeleteApply(r) \/ Submit(r) \/ Approve(r)
             \/ RecordCommit(r) \/ DaybookEditJournal(r) \/ VoidJournal(r)
    <3>1. End(r) /\ active' = active /\ policy' = policy /\ nextValue' = nextValue
      BY <2>7 DEF CreateCommit, EditCommit, DeleteApply, Submit, Approve, RecordCommit,
                  DaybookEditJournal, VoidJournal
    <3>2. nextValue \in Nat \ {0}
      BY DEF TypeOK
    <3>3. QED
      BY <1>2, <3>1, <3>2, EntriesStep, DaybookStep, EndTypeOK
  <2>8. QED
    BY <1>2, <2>1, <2>3, <2>4, <2>6, <2>7 DEF Advance
<1>3. ASSUME NEW r \in Requests, Refuse(r) \/ DeadlockVictim(r) \/ Fail(r) PROVE TypeOK'
  BY <1>3, EndType DEF Refuse, DeadlockVictim, Fail, TypeOK
<1>4. ASSUME NEW p \in Policies, UpdateSettings(p) PROVE TypeOK'
  BY <1>4 DEF UpdateSettings, TypeOK
<1>5. ASSUME NEW a \in Switchable, UpdateAccount(a) PROVE TypeOK'
  BY <1>5 DEF UpdateAccount, TypeOK
<1>6. CASE UNCHANGED vars
  BY <1>6 DEF vars, TypeOK
<1>7. QED
  BY <1>1, <1>2, <1>3, <1>4, <1>5, <1>6 DEF Next

(***************************************************************************)
(* Locks protect what was checked under them                               *)
(***************************************************************************)

\* A request keeps its protection through steps of others that leave alone the
\* rows it holds.
LEMMA Frame ==
  ASSUME TypeOK, NEW q \in Requests, Protected(q), txn'[q] = txn[q],
         \A e \in JournalIds : entryLock[e] = q /\ Exists(e) =>
                               entryLock'[e] = q /\ entry'[e] = entry[e],
         counterLock = q => counterLock' = q /\ nextValue' = nextValue
  PROVE  Protected(q)'
<1>1. txn[q].op \in {"edit", "post", "reverse"} => txn[q].e \in JournalIds
  BY TxnFields
<1>2. QED
  BY <1>1 DEF Protected, Editable, Exists, Unposted, Posted

\* The end of one transaction takes no lock from another.
LEMMA EndFrame ==
  ASSUME TypeOK, NEW r \in Requests, NEW q \in Requests, q # r, End(r)
  PROVE  /\ txn'[q] = txn[q]
         /\ \A e \in JournalIds : entryLock[e] = q => entryLock'[e] = q
         /\ counterLock = q => counterLock' = q
         /\ txn'[r] = Idle
  BY DEF End, TypeOK

\* A request that has ended has nothing to protect.
LEMMA IdleProtected == ASSUME NEW r \in Requests, txn'[r] = Idle PROVE Protected(r)'
  BY DEF Protected, Idle

\* A step writes no row that another request has locked.
LEMMA WritesOwn ==
  ASSUME TypeOK, LocksProtect, NEW r \in Requests, NEW q \in Requests, q # r, Advance(r)
  PROVE  /\ \A e \in JournalIds : entryLock[e] = q /\ Exists(e) => entry'[e] = entry[e]
         /\ counterLock = q => nextValue' = nextValue
<1> DEFINE t == txn[r]
<1>0. entry \in EntriesType /\ q # NoOne
  BY NoOneAssumption DEF TypeOK, EntriesType
<1>1. ASSUME NEW v \in JournalIds, FreshEntry(v) PROVE ~Exists(v)
  BY <1>1 DEF FreshEntry, Exists, Absent, Unposted, Posted
<1>2. CASE CreateCommit(r) \/ RecordCommit(r)
  BY <1>0, <1>1, <1>2 DEF CreateCommit, RecordCommit, InsertDaybook, EntriesType
<1>3. CASE EditCommit(r)
  BY <1>0, <1>3 DEF EditCommit, EntriesType, LocksProtect, Protected, At
<1>4. CASE DeleteApply(r) \/ Submit(r) \/ Approve(r)
  BY <1>0, <1>4 DEF DeleteApply, Submit, Approve, EntriesType
<1>5. CASE PostFinish(r)
  BY <1>0, <1>5 DEF PostFinish, EntriesType, LocksProtect, Protected, At
<1>6. CASE ReverseFinish(r)
  BY <1>0, <1>1, <1>6 DEF ReverseFinish, EntriesType, LocksProtect, Protected, At
<1>7. CASE QuickFinish(r)
  BY <1>0, <1>1, <1>7 DEF QuickFinish, InsertDaybook, EntriesType, LocksProtect, Protected, At
<1>8. CASE DaybookEditJournal(r) \/ VoidJournal(r)
  BY <1>0, <1>8 DEF DaybookEditJournal, VoidJournal, EntriesType
<1>9. CASE PostLock(r) \/ ReverseLock(r) \/ TakeNumber(r) \/ QuickPolicy(r) \/ QuickValidate(r)
  BY <1>9 DEF PostLock, ReverseLock, TakeNumber, QuickPolicy, QuickValidate, rows
<1>10. QED
  BY <1>2, <1>3, <1>4, <1>5, <1>6, <1>7, <1>8, <1>9 DEF Advance

\* A request only ever changes its own locks and its own progress.
LEMMA OwnLocks ==
  ASSUME TypeOK, NEW r \in Requests, NEW q \in Requests, q # r,
         Start(r) \/ Advance(r) \/ Refuse(r) \/ DeadlockVictim(r) \/ Fail(r)
  PROVE  /\ txn'[q] = txn[q]
         /\ \A e \in JournalIds : entryLock[e] = q => entryLock'[e] = q
         /\ counterLock = q => counterLock' = q
<1>0. q # NoOne /\ txn \in [Requests -> TxnType] /\ entryLock \in [JournalIds -> Requests \cup {NoOne}]
  BY NoOneAssumption DEF TypeOK
<1>1. CASE End(r)
  BY <1>1, EndFrame
<1>2. CASE Start(r)
  BY <1>0, <1>2 DEF Start, CreateValidate, RecordValidate, QuickRead, EditLock, LockEntry, DeleteRead,
       TransitionRead, PostRead, ReverseRead, DaybookEditLock, VoidLock, Begin, locks
<1>3. CASE PostLock(r) \/ ReverseLock(r) \/ TakeNumber(r) \/ QuickPolicy(r) \/ QuickValidate(r)
  BY <1>0, <1>3 DEF PostLock, ReverseLock, TakeNumber, QuickPolicy, QuickValidate, LockEntry, Goto, locks
<1>4. QED
  BY <1>1, <1>2, <1>3 DEF Advance, Refuse, DeadlockVictim, Fail, CreateCommit, EditCommit,
       DeleteApply, Submit, Approve, PostFinish, ReverseFinish, RecordCommit, QuickFinish,
       DaybookEditJournal, VoidJournal

\* Starting, refusing and failing write no row.
LEMMA ReadOnly ==
  ASSUME NEW r \in Requests, Start(r) \/ Refuse(r) \/ DeadlockVictim(r) \/ Fail(r)
  PROVE  entry' = entry /\ nextValue' = nextValue /\ daybook' = daybook
  BY DEF Start, Refuse, DeadlockVictim, Fail, CreateValidate, RecordValidate, QuickRead, EditLock,
       DeleteRead, TransitionRead, PostRead, ReverseRead, DaybookEditLock, VoidLock, rows

\* No step, of its own or of another request, takes from a request what it
\* checked under its locks.
LEMMA LocksStep == TypeOK /\ LocksProtect /\ [Next]_vars => LocksProtect'
<1> SUFFICES ASSUME TypeOK, LocksProtect, [Next]_vars, NEW q \in Requests PROVE Protected(q)'
  BY DEF LocksProtect
<1>0. Protected(q)
  BY DEF LocksProtect
<1>1. ASSUME NEW r \in Requests, r # q,
             Start(r) \/ Advance(r) \/ Refuse(r) \/ DeadlockVictim(r) \/ Fail(r)
      PROVE  Protected(q)'
  <2>1. /\ \A e \in JournalIds : entryLock[e] = q /\ Exists(e) => entry'[e] = entry[e]
        /\ counterLock = q => nextValue' = nextValue
    BY <1>1, WritesOwn, ReadOnly
  <2>2. QED
    BY <1>0, <1>1, <2>1, OwnLocks, Frame
<1>2. CASE End(q)
  BY <1>2, EndType, IdleProtected DEF End, TypeOK
<1>3. CASE Start(q)
  <2>1. ASSUME NEW e \in JournalIds, NEW date \in Dates, NEW l \in LineChoices, EditLock(q, e, date, l)
        PROVE  Protected(q)'
    BY <2>1 DEF EditLock, LockEntry, Begin, Protected, Editable, rows, TypeOK
  <2>2. ASSUME NEW u \in Users, NEW date \in Dates, NEW l \in LineChoices,
               CreateValidate(q, u, date, l) \/ RecordValidate(q, u, date, l) \/ QuickRead(q, u, date, l)
        PROVE  Protected(q)'
    BY <2>2 DEF CreateValidate, RecordValidate, QuickRead, Begin, Protected, TypeOK
  <2>3. ASSUME NEW e \in JournalIds, DeleteRead(q, e) PROVE Protected(q)'
    BY <2>3 DEF DeleteRead, Begin, Protected, TypeOK
  <2>4. ASSUME NEW u \in Users, NEW e \in JournalIds, NEW op \in {"submit", "approve"},
               TransitionRead(q, u, e, op)
        PROVE  Protected(q)'
    BY <2>4 DEF TransitionRead, Begin, Protected, TypeOK
  <2>5. ASSUME NEW u \in Users, NEW e \in JournalIds, PostRead(q, u, e) PROVE Protected(q)'
    BY <2>5 DEF PostRead, Begin, Protected, TypeOK
  <2>6. ASSUME NEW u \in Users, NEW e \in JournalIds, NEW date \in Dates, ReverseRead(q, u, e, date)
        PROVE  Protected(q)'
    BY <2>6 DEF ReverseRead, Begin, Protected, TypeOK
  <2>7. ASSUME NEW d \in DaybookIds, NEW date \in Dates, NEW l \in LineChoices,
               DaybookEditLock(q, d, date, l)
        PROVE  Protected(q)'
    BY <2>7 DEF DaybookEditLock, Begin, Protected, TypeOK
  <2>8. ASSUME NEW d \in DaybookIds, VoidLock(q, d) PROVE Protected(q)'
    BY <2>8 DEF VoidLock, Begin, Protected, TypeOK
  <2>9. QED
    BY <1>3, <2>1, <2>2, <2>3, <2>4, <2>5, <2>6, <2>7, <2>8 DEF Start
<1>4. CASE PostLock(q)
  <2>1. txn[q].op = "post" /\ txn[q].e \in JournalIds /\ txn[q].policy \in Policies
    BY <1>4, TxnFields, TxnShape DEF PostLock, At, PostTxn
  <2>2. /\ txn'[q].op = "post" /\ txn'[q].e = txn[q].e /\ txn'[q].step = "number"
        /\ entryLock'[txn[q].e] = q /\ entry' = entry
    BY <1>4, <2>1 DEF PostLock, LockEntry, Goto, rows, TypeOK, TxnType, PostTxn
  <2>3. entry[txn[q].e].status \in Unposted
    BY <1>4 DEF PostLock, PostOk, Postable, Unposted
  <2>4. QED
    BY <2>1, <2>2, <2>3 DEF Protected
<1>5. CASE ReverseLock(q)
  <2>1. txn[q].op = "reverse" /\ txn[q].e \in JournalIds
    BY <1>5, TxnFields DEF ReverseLock, At
  <2>2. /\ txn'[q] = [txn[q] EXCEPT !.step = "number"]
        /\ entryLock'[txn[q].e] = q /\ entry' = entry
    BY <1>5, <2>1 DEF ReverseLock, LockEntry, Goto, rows, TypeOK
  <2>3. /\ txn'[q].op = "reverse" /\ txn'[q].step = "number"
        /\ txn'[q].e = txn[q].e /\ txn'[q].date = txn[q].date
    BY <2>1, <2>2, TxnShape DEF ReverseTxn
  <2>4. QED
    BY <1>5, <2>1, <2>2, <2>3 DEF ReverseLock, ReverseOk, Protected
<1>6. CASE TakeNumber(q)
  <2>1. txn[q].op \in {"post", "reverse", "quick"} /\ txn[q] \in PostTxn \cup ReverseTxn \cup QuickTxn
    BY <1>6, TxnShape DEF TakeNumber
  <2>2. /\ txn'[q] = [txn[q] EXCEPT !.step = "finish", !.num = nextValue]
        /\ counterLock' = q /\ nextValue' = nextValue /\ entry' = entry /\ entryLock' = entryLock
        /\ txn[q].step = "number"
    BY <1>6 DEF TakeNumber, rows, TypeOK
  <2>3. /\ txn'[q].op = txn[q].op /\ txn'[q].step = "finish" /\ txn'[q].num = nextValue
        /\ txn[q].op \in {"post", "reverse"} => txn'[q].e = txn[q].e
        /\ txn[q].op = "reverse" => txn'[q].date = txn[q].date
    BY <2>1, <2>2 DEF PostTxn, ReverseTxn, QuickTxn
  <2>4. QED
    BY <1>0, <2>1, <2>2, <2>3 DEF Protected
<1>7. CASE QuickPolicy(q) \/ QuickValidate(q)
  <2>1. txn[q] \in QuickTxn /\ txn[q].op = "quick"
    BY <1>7, TxnShape DEF QuickPolicy, QuickValidate, At
  <2>2. txn'[q].op = "quick" /\ txn'[q].step \in {"validate", "number"}
    BY <1>7, <2>1 DEF QuickPolicy, QuickValidate, Goto, TypeOK, QuickTxn
  <2>3. QED
    BY <2>2 DEF Protected
<1>8. CASE \/ \E p \in Policies : UpdateSettings(p)
           \/ \E a \in Switchable : UpdateAccount(a)
           \/ UNCHANGED vars
  <2>1. UNCHANGED <<entry, nextValue, entryLock, counterLock, txn>>
    BY <1>8 DEF UpdateSettings, UpdateAccount, vars, rows, locks
  <2>2. QED
    BY <1>0, <2>1, Frame
<1>9. ASSUME Advance(q) PROVE Protected(q)'
  BY <1>2, <1>4, <1>5, <1>6, <1>7, <1>9 DEF Advance, CreateCommit, EditCommit, DeleteApply, Submit,
     Approve, PostFinish, ReverseFinish, RecordCommit, QuickFinish, DaybookEditJournal, VoidJournal
<1>10. ASSUME Refuse(q) \/ DeadlockVictim(q) \/ Fail(q) PROVE Protected(q)'
  BY <1>2, <1>10 DEF Refuse, DeadlockVictim, Fail
<1>11. QED
  BY <1>1, <1>3, <1>8, <1>9, <1>10 DEF Next

\* Every reachable state is well typed, and what a request has checked under a
\* row lock (FOR UPDATE in updateEntry, post and reverse; the counter row in
\* nextNumber) still holds when it commits.
THEOREM LockingCorrect == Spec => [](TypeOK /\ LocksProtect)
<1>1. Init => TypeOK
  BY BoundsAssumption, ChoicesAssumption DEF Init, TypeOK, TxnType
<1>2. Init => LocksProtect
  BY DEF Init, LocksProtect, Protected, Idle
<1>3. QED
  BY <1>1, <1>2, TypeStep, LocksStep, PTL DEF Spec

\* Every reachable state is well typed.
THEOREM TypeCorrect == Spec => []TypeOK
<1>1. TypeOK /\ LocksProtect => TypeOK
  OBVIOUS
<1>2. QED
  BY <1>1, LockingCorrect, PTL

(***************************************************************************)
(* Numbering                                                               *)
(***************************************************************************)

\* A step that leaves the book alone keeps its numbering.
LEMMA SameBook ==
  ASSUME NumberingGapless, nextValue' = nextValue,
         \A e \in JournalIds : InBook(e)' = InBook(e),
         \A e \in JournalIds : InBook(e) => entry'[e].number = entry[e].number
  PROVE  NumberingGapless'
  BY DEF NumberingGapless

\* So does one that adds one entry under the next number.
LEMMA LongerBook ==
  ASSUME NumberingGapless, nextValue \in Nat \ {0}, nextValue' = nextValue + 1,
         NEW v \in JournalIds, ~InBook(v), InBook(v)', entry'[v].number = nextValue,
         \A e \in JournalIds \ {v} : InBook(e)' = InBook(e),
         \A e \in JournalIds \ {v} : InBook(e) => entry'[e].number = entry[e].number
  PROVE  NumberingGapless'
<1>1. ASSUME NEW e \in JournalIds, InBook(e)' PROVE entry'[e].number \in 1..(nextValue' - 1)
  <2>1. CASE e = v
    BY <2>1
  <2>2. CASE e # v
    BY <1>1, <2>2 DEF NumberingGapless
  <2>3. QED
    BY <2>1, <2>2
<1>2. ASSUME NEW e \in JournalIds, NEW f \in JournalIds, InBook(e)', InBook(f)',
             entry'[e].number = entry'[f].number
      PROVE  e = f
  <2>1. \A g \in JournalIds \ {v} : InBook(g)' => entry'[g].number # nextValue
    BY DEF NumberingGapless
  <2>2. CASE e = v \/ f = v
    BY <1>2, <2>1, <2>2
  <2>3. CASE e # v /\ f # v
    BY <1>2, <2>3 DEF NumberingGapless
  <2>4. QED
    BY <2>2, <2>3
<1>3. ASSUME NEW n \in 1..(nextValue' - 1)
      PROVE  \E e \in JournalIds : InBook(e)' /\ entry'[e].number = n
  <2>1. CASE n = nextValue
    BY <2>1
  <2>2. CASE n # nextValue
    <3>1. n \in 1..(nextValue - 1)
      BY <2>2
    <3>2. PICK e \in JournalIds : InBook(e) /\ entry[e].number = n
      BY <3>1 DEF NumberingGapless
    <3>3. e # v
      BY <3>2
    <3>4. QED
      BY <3>2, <3>3
  <2>3. QED
    BY <2>1, <2>2
<1>4. QED
  BY <1>1, <1>2, <1>3 DEF NumberingGapless

\* Only the three commits that post something touch the book, and each adds
\* the number it drew under the counter lock.
LEMMA NumberingStep ==
  ASSUME TypeOK, LocksProtect, NumberingGapless, NEW r \in Requests, Advance(r)
  PROVE  NumberingGapless'
<1> DEFINE t == txn[r]
<1>0. entry \in EntriesType /\ nextValue \in Nat \ {0}
  BY DEF TypeOK, EntriesType
<1>1. ASSUME NEW v \in JournalIds, FreshEntry(v) PROVE ~InBook(v)
  BY <1>1 DEF FreshEntry, InBook, Absent, Posted
<1>2. CASE CreateCommit(r) \/ RecordCommit(r)
  <2> DEFINE drafts == {NewEntry("manual", "draft", t.date, t.lines, t.user),
                        NewEntry("daybook", "pending", t.date, t.lines, t.user)}
  <2>1. PICK v \in JournalIds, x \in drafts : FreshEntry(v) /\ entry' = [entry EXCEPT ![v] = x]
    <3>1. CASE CreateCommit(r)
      BY <3>1 DEF CreateCommit
    <3>2. CASE RecordCommit(r)
      BY <3>2 DEF RecordCommit, InsertDaybook
    <3>3. QED
      BY <1>2, <3>1, <3>2
  <2>2. x.status \notin Posted
    BY DEF NewEntry, Posted
  <2>3. nextValue' = nextValue
    BY <1>2 DEF CreateCommit, RecordCommit
  <2>4. QED
    BY <1>0, <1>1, <2>1, <2>2, <2>3, SameBook DEF EntriesType, InBook
<1>3. CASE EditCommit(r) \/ DeleteApply(r) \/ Submit(r) \/ Approve(r)
  <2>1. t.e \in JournalIds
    BY <1>3, TxnFields DEF EditCommit, DeleteApply, Submit, Approve, At
  <2>2. entry[t.e].status \in Unposted /\ nextValue' = nextValue
    BY <1>3 DEF EditCommit, DeleteApply, DeleteOk, Submit, SubmitOk, Approve, ApproveOk, At,
       LocksProtect, Protected, Editable, Unposted
  <2>3. entry[t.e] \in EntryType
    BY <2>1, <2>2, ExistingType DEF Exists
  <2>4. entry'[t.e].status \in Unposted \cup {"deleted"}
    <3>1. CASE EditCommit(r)
      BY <1>0, <2>1, <2>3, <3>1 DEF EditCommit, EntriesType, EntryType, Unposted
    <3>2. CASE DeleteApply(r)
      BY <1>0, <2>1, <3>2 DEF DeleteApply, EntriesType, Deleted
    <3>3. CASE Submit(r)
      BY <1>0, <2>1, <2>3, <3>3 DEF Submit, EntriesType, EntryType, Unposted
    <3>4. CASE Approve(r)
      BY <1>0, <2>1, <2>3, <3>4 DEF Approve, EntriesType, EntryType, Unposted
    <3>5. QED
      BY <1>3, <3>1, <3>2, <3>3, <3>4
  <2>5. \A e \in JournalIds \ {t.e} : entry'[e] = entry[e]
    BY <1>0, <1>3, <2>1 DEF EditCommit, DeleteApply, Submit, Approve, EntriesType
  <2>6. QED
    BY <2>1, <2>2, <2>4, <2>5, SameBook DEF InBook, Unposted, Posted
<1>4. CASE DaybookEditJournal(r) \/ VoidJournal(r)
  <2>1. nextValue' = nextValue
    BY <1>4 DEF DaybookEditJournal, VoidJournal
  <2>2. \A e \in JournalIds \ {t.e} : entry'[e] = entry[e]
    BY <1>0, <1>4 DEF DaybookEditJournal, VoidJournal, EntriesType
  <2>3. ASSUME NEW e \in JournalIds, e = t.e
        PROVE  InBook(e)' = InBook(e) /\ (InBook(e) => entry'[e].number = entry[e].number)
    <3>1. CASE DaybookEditJournal(r)
      <4>1. entry[e].status \in Unposted
        BY <2>3, <3>1 DEF DaybookEditJournal, DaybookEditOk, Unposted
      <4>2. entry[e] \in EntryType
        BY <4>1, ExistingType DEF Exists
      <4>3. entry'[e].status = entry[e].status
        BY <1>0, <2>3, <3>1, <4>2 DEF DaybookEditJournal, EntriesType, EntryType
      <4>4. QED
        BY <4>1, <4>3 DEF InBook, Unposted, Posted
    <3>2. CASE VoidJournal(r)
      <4>1. entry'[e] = IF entry[e].status \in Unposted THEN Deleted ELSE entry[e]
        BY <1>0, <2>3, <3>2 DEF VoidJournal, EntriesType
      <4>2. QED
        BY <4>1 DEF InBook, Deleted, Unposted, Posted
    <3>3. QED
      BY <1>4, <3>1, <3>2
  <2>4. \A e \in JournalIds : InBook(e)' = InBook(e) /\ (InBook(e) => entry'[e].number = entry[e].number)
    BY <2>2, <2>3 DEF InBook
  <2>5. QED
    BY <2>1, <2>4, SameBook
<1>5. CASE PostFinish(r)
  <2>1. t.e \in JournalIds
    BY <1>5, TxnFields DEF PostFinish, At
  <2>2. entry[t.e].status \in Unposted /\ t.num = nextValue
    BY <1>5 DEF PostFinish, At, LocksProtect, Protected
  <2>3. entry[t.e] \in EntryType
    BY <2>1, <2>2, ExistingType DEF Exists
  <2>4. /\ entry'[t.e].status = "posted" /\ entry'[t.e].number = nextValue
        /\ \A e \in JournalIds \ {t.e} : entry'[e] = entry[e]
    BY <1>0, <1>5, <2>1, <2>2, <2>3 DEF PostFinish, EntriesType, EntryType
  <2>5. nextValue' = nextValue + 1
    BY <1>5, <2>2 DEF PostFinish
  <2>6. QED
    BY <1>0, <2>1, <2>2, <2>4, <2>5, LongerBook DEF InBook, Unposted, Posted
<1>6. CASE ReverseFinish(r)
  <2>1. t.e \in JournalIds
    BY <1>6, TxnFields DEF ReverseFinish, At
  <2>2. entry[t.e].status = "posted" /\ t.num = nextValue
    BY <1>6 DEF ReverseFinish, At, LocksProtect, Protected
  <2>3. entry[t.e] \in EntryType
    BY <2>1, <2>2, ExistingType DEF Exists, Posted
  <2>4. PICK v \in JournalIds :
          /\ FreshEntry(v)
          /\ entry' = [entry EXCEPT ![t.e].status = "reversed",
                                    ![t.e].reversedBy = v,
                                    ![v] = Reversal(t, entry[t.e])]
    BY <1>6 DEF ReverseFinish
  <2>5. v # t.e
    BY <1>1, <2>2, <2>4 DEF InBook, Posted
  <2>6. Reversal(t, entry[t.e]).status = "posted" /\ Reversal(t, entry[t.e]).number = nextValue
    BY <2>2 DEF Reversal, NewEntry
  <2>7. /\ entry'[v].status = "posted" /\ entry'[v].number = nextValue
        /\ entry'[t.e].status = "reversed" /\ entry'[t.e].number = entry[t.e].number
        /\ \A e \in JournalIds \ {v, t.e} : entry'[e] = entry[e]
    BY <1>0, <2>1, <2>3, <2>4, <2>5, <2>6 DEF EntriesType, EntryType
  <2>8. nextValue' = nextValue + 1
    BY <1>6, <2>2 DEF ReverseFinish
  <2>9. ~InBook(v) /\ InBook(v)'
    BY <1>1, <2>4, <2>7 DEF InBook, Posted
  <2>10. \A e \in JournalIds \ {v} : InBook(e)' = InBook(e) /\ entry'[e].number = entry[e].number
    BY <2>2, <2>7 DEF InBook, Posted
  <2>11. QED
    BY <1>0, <2>7, <2>8, <2>9, <2>10, LongerBook
<1>7. CASE QuickFinish(r)
  <2>1. t.num = nextValue
    BY <1>7 DEF QuickFinish, At, LocksProtect, Protected
  <2>2. PICK v \in JournalIds :
          /\ FreshEntry(v)
          /\ entry' = [entry EXCEPT ![v] =
               [NewEntry("daybook", "posted", t.date, t.lines, t.user) EXCEPT
                  !.approvedBy = t.user, !.number = t.num]]
    BY <1>7 DEF QuickFinish, InsertDaybook
  <2>3. /\ entry'[v].status = "posted" /\ entry'[v].number = nextValue
        /\ \A e \in JournalIds \ {v} : entry'[e] = entry[e]
    BY <1>0, <2>1, <2>2 DEF EntriesType, NewEntry
  <2>4. nextValue' = nextValue + 1
    BY <1>7, <2>1 DEF QuickFinish
  <2>5. QED
    BY <1>0, <1>1, <2>2, <2>3, <2>4, LongerBook DEF InBook, Posted
<1>8. CASE PostLock(r) \/ ReverseLock(r) \/ TakeNumber(r) \/ QuickPolicy(r) \/ QuickValidate(r)
  BY <1>8, SameBook DEF PostLock, ReverseLock, TakeNumber, QuickPolicy, QuickValidate, rows, InBook
<1>9. QED
  BY <1>2, <1>3, <1>4, <1>5, <1>6, <1>7, <1>8 DEF Advance

\* The numbers of the committed postings are exactly 1 .. nextValue - 1, each
\* used once, however many requests post, reverse and fail (nextNumber,
\* accounting.service.ts:401).
THEOREM NumberingCorrect == Spec => []NumberingGapless
<1>1. Init => NumberingGapless
  BY DEF Init, NumberingGapless, InBook, Absent, Posted
<1>2. TypeOK /\ LocksProtect /\ NumberingGapless /\ [Next]_vars => NumberingGapless'
  <2> SUFFICES ASSUME TypeOK, LocksProtect, NumberingGapless, [Next]_vars PROVE NumberingGapless'
    OBVIOUS
  <2>1. ASSUME NEW r \in Requests, Start(r) \/ Refuse(r) \/ DeadlockVictim(r) \/ Fail(r)
        PROVE  NumberingGapless'
    BY <2>1, ReadOnly, SameBook DEF InBook
  <2>2. CASE \/ \E p \in Policies : UpdateSettings(p)
             \/ \E a \in Switchable : UpdateAccount(a)
             \/ UNCHANGED vars
    BY <2>2, SameBook DEF UpdateSettings, UpdateAccount, vars, rows, InBook
  <2>3. QED
    BY <2>1, <2>2, NumberingStep DEF Next
<1>3. QED
  BY <1>1, <1>2, LockingCorrect, PTL DEF Spec

(***************************************************************************)
(* Approved entries are frozen                                             *)
(***************************************************************************)

\* FrozenOnceApproved for one entry.
Frozen(e) ==
  entry[e].status \in {"approved"} \cup Posted =>
    \/ /\ entry[e].status = "approved"
       /\ entry'[e] = Deleted
    \/ /\ entry'[e].status \in {"approved"} \cup Posted
       /\ entry'[e].date = entry[e].date
       /\ entry'[e].lines = entry[e].lines
       /\ entry[e].status = "reversed" => entry'[e].status = "reversed"

\* A step leaves the date and the lines of every approved entry alone.
LEMMA FrozenStep ==
  ASSUME TypeOK, LocksProtect, NEW r \in Requests, Advance(r), NEW e \in JournalIds
  PROVE  Frozen(e)
<1> DEFINE t == txn[r]
<1>0. entry \in EntriesType
  BY DEF TypeOK, EntriesType
<1>1. CASE entry'[e] = entry[e]
  BY <1>1 DEF Frozen
<1>2. CASE entry[e].status \notin {"approved"} \cup Posted
  BY <1>2 DEF Frozen
<1> SUFFICES ASSUME entry'[e] # entry[e], entry[e].status \in {"approved"} \cup Posted
             PROVE  Frozen(e)
  BY <1>1, <1>2
<1>3. ~FreshEntry(e) /\ entry[e] \in EntryType
  BY ExistingType DEF FreshEntry, Exists, Absent, Unposted, Posted
<1>4. CASE CreateCommit(r) \/ RecordCommit(r) \/ QuickFinish(r)
  BY <1>0, <1>3, <1>4 DEF CreateCommit, RecordCommit, QuickFinish, InsertDaybook, EntriesType
<1>5. CASE EditCommit(r) \/ DeleteApply(r) \/ Submit(r) \/ Approve(r) \/ DaybookEditJournal(r)
  <2>1. entry'[e] # entry[e] => e = t.e
    BY <1>0, <1>5 DEF EditCommit, DeleteApply, Submit, Approve, DaybookEditJournal, EntriesType
  <2>2. entry[t.e].status \in {"draft", "pending"}
    BY <1>5 DEF EditCommit, DeleteApply, DeleteOk, Submit, SubmitOk, Approve, ApproveOk,
       DaybookEditJournal, DaybookEditOk, At, LocksProtect, Protected, Editable
  <2>3. QED
    BY <2>1, <2>2 DEF Posted
<1>6. CASE PostFinish(r)
  <2>1. e = t.e
    BY <1>0, <1>6 DEF PostFinish, EntriesType
  <2>2. entry[e].status \in Unposted
    BY <1>6, <2>1 DEF PostFinish, At, LocksProtect, Protected
  <2>3. entry'[e] = [entry[e] EXCEPT !.status = "posted", !.number = t.num,
                                     !.approvedBy = IF @ = NoOne THEN t.user ELSE @]
    BY <1>0, <1>6, <2>1 DEF PostFinish, EntriesType
  <2>4. QED
    BY <1>3, <2>2, <2>3 DEF Frozen, EntryType, Unposted, Posted
<1>7. CASE ReverseFinish(r)
  <2>1. PICK v \in JournalIds :
          /\ FreshEntry(v)
          /\ entry' = [entry EXCEPT ![t.e].status = "reversed",
                                    ![t.e].reversedBy = v,
                                    ![v] = Reversal(t, entry[t.e])]
    BY <1>7 DEF ReverseFinish
  <2>2. e # v
    BY <1>3, <2>1
  <2>3. e = t.e
    BY <1>0, <2>1, <2>2 DEF EntriesType
  <2>4. entry'[e] = [entry[e] EXCEPT !.status = "reversed", !.reversedBy = v]
    BY <1>0, <2>1, <2>2, <2>3 DEF EntriesType
  <2>5. QED
    BY <1>3, <2>4 DEF Frozen, EntryType, Posted
<1>8. CASE VoidJournal(r)
  <2>1. e = t.e /\ entry'[e] = IF entry[e].status \in Unposted THEN Deleted ELSE entry[e]
    BY <1>0, <1>8 DEF VoidJournal, EntriesType
  <2>2. QED
    BY <2>1 DEF Frozen, Unposted, Posted
<1>9. CASE PostLock(r) \/ ReverseLock(r) \/ TakeNumber(r) \/ QuickPolicy(r) \/ QuickValidate(r)
  BY <1>9 DEF PostLock, ReverseLock, TakeNumber, QuickPolicy, QuickValidate, rows
<1>10. QED
  BY <1>4, <1>5, <1>6, <1>7, <1>8, <1>9 DEF Advance

\* From its approval on, the date and the lines of an entry never change: every
\* statement that writes them finds the entry a draft or pending, at a moment
\* when no other request can change that (assertEditable under FOR UPDATE in
\* updateEntry, daybook update under FOR UPDATE).
THEOREM FrozenCorrect == Spec => FrozenOnceApproved
<1>1. TypeOK /\ LocksProtect /\ [Next]_vars => [\A e \in JournalIds : Frozen(e)]_entry
  <2> SUFFICES ASSUME TypeOK, LocksProtect, [Next]_vars, entry' # entry, NEW e \in JournalIds
               PROVE  Frozen(e)
    OBVIOUS
  <2>1. ASSUME NEW r \in Requests, Start(r) \/ Refuse(r) \/ DeadlockVictim(r) \/ Fail(r) PROVE FALSE
    BY <2>1, ReadOnly
  <2>2. CASE \/ \E p \in Policies : UpdateSettings(p)
             \/ \E a \in Switchable : UpdateAccount(a)
             \/ UNCHANGED vars
    BY <2>2 DEF UpdateSettings, UpdateAccount, vars, rows
  <2>3. QED
    BY <2>1, <2>2, FrozenStep DEF Next
<1>2. TypeOK /\ LocksProtect /\ [Next]_vars =>
        [\A e \in JournalIds : entry[e].status \in {"approved"} \cup Posted =>
           \/ /\ entry[e].status = "approved"
              /\ entry'[e] = Deleted
           \/ /\ entry'[e].status \in {"approved"} \cup Posted
              /\ entry'[e].date = entry[e].date
              /\ entry'[e].lines = entry[e].lines
              /\ entry[e].status = "reversed" => entry'[e].status = "reversed"]_entry
  BY <1>1 DEF Frozen
<1>3. QED
  BY <1>2, LockingCorrect, PTL DEF Spec, FrozenOnceApproved

\* The settings a request has read are settings the tenant may have.
LEMMA TxnReads ==
  ASSUME TypeOK, NEW r \in Requests
  PROVE  /\ txn[r].op \in {"submit", "approve", "post", "reverse", "quick"} =>
              txn[r].user \in Users /\ txn[r].policy \in Policies
<1>1. txn[r] \in TxnType
  BY DEF TypeOK
<1>2. QED
  BY <1>1 DEF TxnType, Idle, PostTxn, ReverseTxn, QuickTxn

(***************************************************************************)
(* What a step does to one entry                                           *)
(***************************************************************************)

\* The entry is written for the first time, as a draft or for the daybook.
Drafted(r, e) ==
  LET t == txn[r] IN
  /\ entry[e] = Absent
  /\ \/ /\ CreateCommit(r)
        /\ entry'[e] = NewEntry("manual", "draft", t.date, t.lines, t.user)
     \/ /\ RecordCommit(r)
        /\ entry'[e] = NewEntry("daybook", "pending", t.date, t.lines, t.user)

\* It is written for the daybook and posted at once.
QuickPosted(r, e) ==
  LET t == txn[r] IN
  /\ QuickFinish(r) /\ entry[e] = Absent
  /\ entry'[e] = [NewEntry("daybook", "posted", t.date, t.lines, t.user) EXCEPT
                    !.approvedBy = t.user, !.number = t.num]

\* It stays on its way: edited, submitted or approved.
OnItsWay(r, e) ==
  LET t == txn[r]
      x == entry[e] IN
  /\ e = t.e /\ x \in EntryType /\ x.status \in {"draft", "pending"}
  /\ \/ /\ EditCommit(r) /\ Editable(x)
        /\ entry'[e] = [x EXCEPT !.status = "draft", !.date = t.date, !.lines = t.lines]
     \/ Submit(r) /\ SubmitOk(t, x) /\ entry'[e] = [x EXCEPT !.status = "pending"]
     \/ /\ Approve(r) /\ ApproveOk(t, x)
        /\ entry'[e] = [x EXCEPT !.status = "approved", !.approvedBy = t.user]
     \/ /\ DaybookEditJournal(r)
        /\ entry'[e] = [x EXCEPT !.date = t.date, !.lines = t.lines]

\* It is deleted, by itself or with its daybook row.
Removed(r, e) ==
  /\ e = txn[r].e /\ entry'[e] = Deleted
  /\ \/ DeleteApply(r) /\ DeleteOk(entry[e])
     \/ VoidJournal(r) /\ entry[e].status \in Unposted

\* It is posted.
PostedNow(r, e) ==
  LET t == txn[r] IN
  /\ PostFinish(r) /\ e = t.e /\ entry[e] \in EntryType /\ entry[e].status \in Unposted
  /\ entry'[e] = [entry[e] EXCEPT !.status = "posted", !.number = t.num,
                                  !.approvedBy = IF @ = NoOne THEN t.user ELSE @]

\* It is reversed, by the entry v.
ReversedNow(r, e, v) ==
  LET t == txn[r] IN
  /\ ReverseFinish(r) /\ e = t.e /\ entry[e] \in EntryType /\ entry[e].status = "posted"
  /\ entry[e].source # "reversal" /\ entry[e].date <= t.date
  /\ entry'[e] = [entry[e] EXCEPT !.status = "reversed", !.reversedBy = v]
  /\ v # e /\ entry[v] = Absent /\ entry'[v] = Reversal(t, entry[e])

\* Every change of an entry is one of these.
EntryChange(r, e) ==
  \/ Drafted(r, e) \/ QuickPosted(r, e) \/ OnItsWay(r, e) \/ Removed(r, e) \/ PostedNow(r, e)
  \/ \E v \in JournalIds : ReversedNow(r, e, v) \/ ReversedNow(r, v, e)

\* A step that goes on changes an entry in one of these ways or leaves it as it is.
LEMMA EntryChanges ==
  ASSUME TypeOK, LocksProtect, NEW r \in Requests, Advance(r), NEW e \in JournalIds
  PROVE  entry'[e] = entry[e] \/ EntryChange(r, e)
<1> DEFINE t == txn[r]
<1>0. entry \in EntriesType
  BY DEF TypeOK, EntriesType
<1>1. ASSUME NEW f \in JournalIds, entry[f].status \in Unposted \cup Posted
      PROVE  entry[f] \in EntryType
  BY <1>1, ExistingType DEF Exists
<1> SUFFICES ASSUME entry'[e] # entry[e] PROVE EntryChange(r, e)
  OBVIOUS
<1>2. CASE CreateCommit(r) \/ RecordCommit(r)
  <2>1. Drafted(r, e)
    BY <1>0, <1>2 DEF CreateCommit, RecordCommit, InsertDaybook, FreshEntry, EntriesType, Drafted
  <2>2. QED
    BY <2>1 DEF EntryChange
<1>3. CASE QuickFinish(r)
  <2>1. QuickPosted(r, e)
    BY <1>0, <1>3 DEF QuickFinish, InsertDaybook, FreshEntry, EntriesType, QuickPosted
  <2>2. QED
    BY <2>1 DEF EntryChange
<1>4. CASE EditCommit(r) \/ Submit(r) \/ Approve(r) \/ DaybookEditJournal(r)
  <2>1. e = t.e
    BY <1>0, <1>4 DEF EditCommit, Submit, Approve, DaybookEditJournal, EntriesType
  <2>2. entry[e].status \in {"draft", "pending"} /\ (EditCommit(r) => Editable(entry[e]))
    BY <1>4, <2>1 DEF EditCommit, Submit, SubmitOk, Approve, ApproveOk, DaybookEditJournal,
       DaybookEditOk, LocksProtect, Protected, Editable, At
  <2>3. entry[e] \in EntryType
    BY <1>1, <2>2 DEF Unposted
  <2>4. CASE EditCommit(r)
    BY <1>0, <2>1, <2>2, <2>3, <2>4 DEF EditCommit, EntriesType, OnItsWay, EntryChange
  <2>5. CASE Submit(r)
    BY <1>0, <2>1, <2>2, <2>3, <2>5 DEF Submit, EntriesType, OnItsWay, EntryChange
  <2>6. CASE Approve(r)
    BY <1>0, <2>1, <2>2, <2>3, <2>6 DEF Approve, EntriesType, OnItsWay, EntryChange
  <2>7. CASE DaybookEditJournal(r)
    BY <1>0, <2>1, <2>2, <2>3, <2>7 DEF DaybookEditJournal, EntriesType, OnItsWay, EntryChange
  <2>8. QED
    BY <1>4, <2>4, <2>5, <2>6, <2>7
<1>5. CASE DeleteApply(r) \/ VoidJournal(r)
  BY <1>0, <1>5 DEF DeleteApply, VoidJournal, EntriesType, Removed, EntryChange
<1>6. CASE PostFinish(r)
  <2>1. entry[t.e].status \in Unposted /\ e = t.e
    BY <1>0, <1>6 DEF PostFinish, EntriesType, LocksProtect, Protected, At
  <2>2. QED
    BY <1>0, <1>1, <1>6, <2>1 DEF PostFinish, EntriesType, PostedNow, EntryChange
<1>7. CASE ReverseFinish(r)
  <2>1. /\ t.e \in JournalIds /\ entry[t.e].status = "posted" /\ entry[t.e].source # "reversal"
        /\ entry[t.e].date <= t.date
    BY <1>7, TxnFields DEF ReverseFinish, At, LocksProtect, Protected
  <2>2. entry[t.e] # Absent /\ entry[t.e] \in EntryType
    BY <1>1, <2>1 DEF Absent, Posted
  <2>3. PICK v \in JournalIds :
          /\ FreshEntry(v)
          /\ entry' = [entry EXCEPT ![t.e].status = "reversed",
                                    ![t.e].reversedBy = v,
                                    ![v] = Reversal(t, entry[t.e])]
    BY <1>7 DEF ReverseFinish
  <2>4. entry[v] = Absent /\ v # t.e
    BY <2>2, <2>3 DEF FreshEntry
  <2>5. /\ entry'[v] = Reversal(t, entry[t.e])
        /\ entry'[t.e] = [entry[t.e] EXCEPT !.status = "reversed", !.reversedBy = v]
        /\ e = v \/ e = t.e
    BY <1>0, <2>1, <2>3, <2>4 DEF EntriesType
  <2>6. ReversedNow(r, t.e, v)
    BY <1>7, <2>1, <2>2, <2>4, <2>5 DEF ReversedNow
  <2>7. QED
    BY <2>1, <2>5, <2>6 DEF EntryChange
<1>8. CASE PostLock(r) \/ ReverseLock(r) \/ TakeNumber(r) \/ QuickPolicy(r) \/ QuickValidate(r)
  BY <1>8 DEF PostLock, ReverseLock, TakeNumber, QuickPolicy, QuickValidate, rows
<1>9. QED
  BY <1>2, <1>3, <1>4, <1>5, <1>6, <1>7, <1>8 DEF Advance

\* An entry on its way stays unposted and keeps its origin and its author; only
\* an approval names an approver.
LEMMA StillOnItsWay ==
  ASSUME NEW r, NEW e, OnItsWay(r, e)
  PROVE  LET x == entry[e]
             y == entry'[e] IN
         /\ y.status \in Unposted
         /\ y.source = x.source /\ y.createdBy = x.createdBy /\ y.number = x.number
         /\ y.reversalOf = x.reversalOf /\ y.reversedBy = x.reversedBy
         /\ \/ y.lines = x.lines
            \/ (EditCommit(r) \/ DaybookEditJournal(r)) /\ y.lines = txn[r].lines
         /\ \/ y.status \in {"draft", "pending"} /\ y.approvedBy = x.approvedBy
            \/ Approve(r) /\ y.status = "approved" /\ y.approvedBy = txn[r].user
  BY DEF OnItsWay, EntryType, Unposted

\* Starting a request, giving it up and changing the settings write no row.
LEMMA OtherSteps ==
  ASSUME [Next]_vars, ~\E r \in Requests : Advance(r)
  PROVE  entry' = entry /\ daybook' = daybook /\ nextValue' = nextValue
<1>1. ASSUME NEW r \in Requests, Start(r) \/ Refuse(r) \/ DeadlockVictim(r) \/ Fail(r)
      PROVE  entry' = entry /\ daybook' = daybook /\ nextValue' = nextValue
  BY <1>1, ReadOnly
<1>2. CASE \/ \E p \in Policies : UpdateSettings(p)
           \/ \E a \in Switchable : UpdateAccount(a)
           \/ UNCHANGED vars
  BY <1>2 DEF UpdateSettings, UpdateAccount, vars, rows
<1>3. QED
  BY <1>1, <1>2 DEF Next

\* A step changes the progress of one request at most, and a request that has
\* locked an entry finds it as it was after every step of another.
LEMMA Others ==
  ASSUME TypeOK, LocksProtect, [Next]_vars, NEW q \in Requests,
         ~(Start(q) \/ Advance(q) \/ Refuse(q) \/ DeadlockVictim(q) \/ Fail(q))
  PROVE  /\ txn'[q] = txn[q]
         /\ \A e \in JournalIds : entryLock[e] = q /\ Exists(e) => entry'[e] = entry[e]
<1>1. ASSUME NEW r \in Requests, r # q,
             Start(r) \/ Advance(r) \/ Refuse(r) \/ DeadlockVictim(r) \/ Fail(r)
      PROVE  /\ txn'[q] = txn[q]
             /\ \A e \in JournalIds : entryLock[e] = q /\ Exists(e) => entry'[e] = entry[e]
  BY <1>1, OwnLocks, WritesOwn, ReadOnly
<1>2. CASE \/ \E p \in Policies : UpdateSettings(p)
           \/ \E a \in Switchable : UpdateAccount(a)
           \/ UNCHANGED vars
  BY <1>2 DEF UpdateSettings, UpdateAccount, vars, rows
<1>3. QED
  BY <1>1, <1>2 DEF Next

\* A transaction that ends leaves its request idle; one that goes on keeps what
\* it carries, but for the step, the number drawn and the settings read again.
Moves(r) ==
  LET t == txn[r]
      n == txn'[r] IN
  \/ PostLock(r) /\ t.op = "post" /\ PostOk(t, entry[t.e]) /\ n = [t EXCEPT !.step = "number"]
  \/ ReverseLock(r) /\ t.op = "reverse" /\ n = [t EXCEPT !.step = "number"]
  \/ QuickPolicy(r) /\ t.op = "quick" /\ n = [t EXCEPT !.step = "validate", !.policy = policy]
  \/ QuickValidate(r) /\ t.op = "quick" /\ QuickOk(t) /\ n = [t EXCEPT !.step = "number"]
  \/ /\ TakeNumber(r) /\ t.op \in {"post", "reverse", "quick"} /\ t.step = "number"
     /\ n = [t EXCEPT !.step = "finish", !.num = nextValue]

\* A step of a request starts it, ends it or takes it on without writing a row.
LEMMA TxnChanges ==
  ASSUME TypeOK, NEW r \in Requests,
         Start(r) \/ Advance(r) \/ Refuse(r) \/ DeadlockVictim(r) \/ Fail(r)
  PROVE  Start(r) \/ txn'[r] = Idle \/ (Moves(r) /\ entry' = entry /\ daybook' = daybook)
<1>0. txn \in [Requests -> TxnType]
  BY DEF TypeOK
<1>1. CASE PostLock(r) \/ ReverseLock(r) \/ QuickPolicy(r) \/ QuickValidate(r)
  BY <1>0, <1>1 DEF PostLock, ReverseLock, QuickPolicy, QuickValidate, Goto, At, Moves, rows
<1>2. CASE TakeNumber(r)
  BY <1>0, <1>2, TxnShape DEF TakeNumber, Moves, rows
<1>3. CASE End(r)
  BY <1>0, <1>3 DEF End
<1>4. QED
  BY <1>1, <1>2, <1>3 DEF Advance, Refuse, DeadlockVictim, Fail, CreateCommit, EditCommit,
       DeleteApply, Submit, Approve, PostFinish, ReverseFinish, RecordCommit, QuickFinish,
       DaybookEditJournal, VoidJournal

(***************************************************************************)
(* Only balanced entries get into the book                                 *)
(***************************************************************************)

\* What validateLines found is still so when the request commits.
CheckedBalanced(r) ==
  LET t == txn[r] IN
  /\ t.op = "post" /\ t.step # "lock" => Balanced(entry[t.e].lines)
  /\ t.op = "quick" /\ t.step \in {"number", "finish"} => Balanced(t.lines)

BookBalanced ==
  /\ \A e \in JournalIds : InBook(e) => Balanced(entry[e].lines)
  /\ \A r \in Requests : CheckedBalanced(r)

\* A reversal balances when the entry it reverses does.
LEMMA MirrorBalanced ==
  ASSUME NEW l \in LineType, Balanced(l)
  PROVE  Balanced(Mirror(l))
  BY DEF Mirror, Balanced, LineType

\* What a step leaves in the book balances.
LEMMA BalancedEntries ==
  ASSUME TypeOK, LocksProtect, BookBalanced, NEW r \in Requests, Advance(r),
         NEW e \in JournalIds, InBook(e)'
  PROVE  Balanced(entry'[e].lines)
<1> DEFINE t == txn[r]
<1>0. entry'[e].status \in Posted /\ CheckedBalanced(r)
  BY DEF InBook, BookBalanced
<1>1. CASE entry'[e] = entry[e]
  BY <1>1 DEF BookBalanced, InBook
<1>2. CASE Drafted(r, e) \/ Removed(r, e)
  BY <1>0, <1>2 DEF Drafted, Removed, NewEntry, Posted, Deleted
<1>3. CASE OnItsWay(r, e)
  BY <1>0, <1>3, StillOnItsWay DEF Unposted, Posted
<1>4. CASE QuickPosted(r, e)
  BY <1>0, <1>4 DEF QuickPosted, QuickFinish, At, CheckedBalanced, NewEntry
<1>5. CASE PostedNow(r, e)
  <2>1. Balanced(entry[e].lines)
    BY <1>0, <1>5 DEF PostedNow, PostFinish, At, CheckedBalanced
  <2>2. entry'[e].lines = entry[e].lines
    BY <1>5 DEF PostedNow, EntryType
  <2>3. QED
    BY <2>1, <2>2
<1>6. ASSUME NEW v \in JournalIds, ReversedNow(r, e, v) PROVE Balanced(entry'[e].lines)
  BY <1>6 DEF ReversedNow, BookBalanced, InBook, EntryType, Posted
<1>7. ASSUME NEW v \in JournalIds, ReversedNow(r, v, e) PROVE Balanced(entry'[e].lines)
  <2>1. Balanced(entry[v].lines) /\ entry[v].lines \in LineType
    BY <1>7 DEF ReversedNow, BookBalanced, InBook, EntryType, Posted
  <2>2. QED
    BY <1>7, <2>1, MirrorBalanced DEF ReversedNow, Reversal, NewEntry
<1>8. QED
  BY <1>1, <1>2, <1>3, <1>4, <1>5, <1>6, <1>7, EntryChanges DEF EntryChange

\* A request keeps the balanced lines it has checked.
LEMMA BalancedRequests ==
  ASSUME TypeOK, LocksProtect, BookBalanced, [Next]_vars, NEW q \in Requests
  PROVE  CheckedBalanced(q)'
<1> DEFINE t == txn[q]
<1>0. CheckedBalanced(q) /\ Protected(q)
  BY DEF BookBalanced, LocksProtect
<1>1. CASE ~(Start(q) \/ Advance(q) \/ Refuse(q) \/ DeadlockVictim(q) \/ Fail(q))
  <2>1. /\ txn'[q] = t
        /\ \A e \in JournalIds : entryLock[e] = q /\ Exists(e) => entry'[e] = entry[e]
    BY <1>1, Others
  <2>2. t.op = "post" /\ t.step # "lock" => entry'[t.e] = entry[t.e]
    BY <1>0, <2>1, TxnFields DEF Protected, Exists
  <2>3. QED
    BY <1>0, <2>1, <2>2 DEF CheckedBalanced
<1>2. CASE Start(q)
  <2>1. txn'[q].op = "post" => txn'[q].step = "lock"
    BY <1>2 DEF Start, CreateValidate, RecordValidate, QuickRead, EditLock, DeleteRead,
         TransitionRead, PostRead, ReverseRead, DaybookEditLock, VoidLock, Begin, TypeOK
  <2>2. txn'[q].op = "quick" => txn'[q].step = "policy"
    BY <1>2 DEF Start, CreateValidate, RecordValidate, QuickRead, EditLock, DeleteRead,
         TransitionRead, PostRead, ReverseRead, DaybookEditLock, VoidLock, Begin, TypeOK
  <2>3. QED
    BY <2>1, <2>2 DEF CheckedBalanced
<1>3. CASE txn'[q] = Idle
  BY <1>3 DEF CheckedBalanced, Idle
<1>4. CASE Moves(q) /\ entry' = entry
  <2>1. t \in PostTxn \cup ReverseTxn \cup QuickTxn
    BY <1>4, TxnShape DEF Moves
  <2>2. QED
    BY <1>0, <1>4, <2>1 DEF CheckedBalanced, Moves, PostTxn, ReverseTxn, QuickTxn, PostOk, QuickOk,
       ValidLines
<1>5. QED
  BY <1>1, <1>2, <1>3, <1>4, TxnChanges

\* Every posting in the book balances, whichever way it got there.
THEOREM BookBalances == Spec => []BookBalanced
<1>1. Init => BookBalanced
  BY DEF Init, BookBalanced, CheckedBalanced, InBook, Absent, Idle, Posted
<1>2. TypeOK /\ LocksProtect /\ BookBalanced /\ [Next]_vars => BookBalanced'
  <2> SUFFICES ASSUME TypeOK, LocksProtect, BookBalanced, [Next]_vars,
                      NEW e \in JournalIds, InBook(e)'
               PROVE  Balanced(entry'[e].lines)
    BY BalancedRequests DEF BookBalanced
  <2>1. CASE \E r \in Requests : Advance(r)
    BY <2>1, BalancedEntries
  <2>2. CASE ~\E r \in Requests : Advance(r)
    BY <2>2, OtherSteps DEF BookBalanced, InBook
  <2>3. QED
    BY <2>1, <2>2
<1>3. QED
  BY <1>1, <1>2, LockingCorrect, PTL DEF Spec

(***************************************************************************)
(* The database triggers never refuse a change                             *)
(***************************************************************************)

\* The triggers on journal_entries accept what a step does to an entry.
LEMMA GuardsStep ==
  ASSUME TypeOK, LocksProtect, BookBalanced, BookBalanced', NEW r \in Requests, Advance(r),
         NEW e \in JournalIds
  PROVE  GuardAccepts(entry[e], entry'[e])
<1> DEFINE t == txn[r]
<1>0. entry'[e].status \in Posted => Balanced(entry'[e].lines)
  BY DEF BookBalanced, InBook
<1>1. CASE entry'[e] = entry[e]
  BY <1>1 DEF GuardAccepts, Posted
<1>2. CASE Drafted(r, e)
  BY <1>2 DEF Drafted, NewEntry, Absent, GuardAccepts, Posted
<1>3. CASE QuickPosted(r, e)
  <2>1. t.num \in Nat /\ t.num = nextValue /\ nextValue # 0
    BY <1>3, TxnFields DEF QuickPosted, QuickFinish, At, LocksProtect, Protected, TypeOK
  <2>2. QED
    BY <1>0, <1>3, <2>1 DEF QuickPosted, NewEntry, Absent, GuardAccepts, Posted
<1>4. CASE OnItsWay(r, e)
  BY <1>4, StillOnItsWay DEF OnItsWay, GuardAccepts, Unposted, Posted
<1>5. CASE Removed(r, e)
  BY <1>5 DEF Removed, DeleteOk, Deleted, GuardAccepts, Unposted, Posted
<1>6. CASE PostedNow(r, e)
  <2>1. t.num = nextValue /\ nextValue # 0
    BY <1>6 DEF PostedNow, PostFinish, At, LocksProtect, Protected, TypeOK
  <2>2. entry'[e].status = "posted" /\ entry'[e].number = t.num
    BY <1>6 DEF PostedNow, EntryType
  <2>3. QED
    BY <1>0, <1>6, <2>1, <2>2 DEF PostedNow, GuardAccepts, Unposted, Posted
<1>7. ASSUME NEW v \in JournalIds, ReversedNow(r, e, v)
      PROVE  GuardAccepts(entry[e], entry'[e])
  <2>1. /\ entry[e].status = "posted" /\ entry'[e].status = "reversed"
        /\ entry'[e].reversedBy # None
        /\ entry'[e].number = entry[e].number /\ entry'[e].date = entry[e].date
        /\ entry'[e].lines = entry[e].lines
    BY <1>7, BoundsAssumption DEF ReversedNow, EntryType
  <2>2. QED
    BY <2>1 DEF GuardAccepts, Posted
<1>8. ASSUME NEW v \in JournalIds, ReversedNow(r, v, e)
      PROVE  GuardAccepts(entry[e], entry'[e])
  <2>1. t.num = nextValue /\ nextValue # 0
    BY <1>8 DEF ReversedNow, ReverseFinish, At, LocksProtect, Protected, TypeOK
  <2>2. entry'[e].status = "posted" /\ entry'[e].number = t.num
    BY <1>8 DEF ReversedNow, Reversal, NewEntry
  <2>3. QED
    BY <1>0, <1>8, <2>1, <2>2 DEF ReversedNow, Absent, GuardAccepts, Posted
<1>9. QED
  BY <1>1, <1>2, <1>3, <1>4, <1>5, <1>6, <1>7, <1>8, EntryChanges DEF EntryChange

\* The triggers of migration 0003 are a second line of defence: no statement of
\* the services, in any interleaving, asks for a change they would refuse.
THEOREM TriggersCorrect == Spec => TriggersNeverFire
<1>1. TypeOK /\ LocksProtect /\ BookBalanced /\ BookBalanced' /\ [Next]_vars =>
        [\A e \in JournalIds : GuardAccepts(entry[e], entry'[e])]_entry
  <2> SUFFICES ASSUME TypeOK, LocksProtect, BookBalanced, BookBalanced', [Next]_vars, entry' # entry,
                      NEW e \in JournalIds
               PROVE  GuardAccepts(entry[e], entry'[e])
    OBVIOUS
  <2>1. \E r \in Requests : Advance(r)
    BY OtherSteps
  <2>2. QED
    BY <2>1, GuardsStep
<1>2. QED
  BY <1>1, LockingCorrect, BookBalances, PTL DEF Spec, TriggersNeverFire

(***************************************************************************)
(* Segregation of duties                                                   *)
(***************************************************************************)

\* Nobody has approved an entry before its approval, and then somebody other
\* than its author has.
ReviewedEntry(e) ==
  LET x == entry[e] IN
  Exists(e) /\ x.source # "reversal" =>
    IF x.status \in {"draft", "pending"} THEN x.approvedBy = NoOne
                                         ELSE x.approvedBy \notin {NoOne, x.createdBy}

\* A request that posts without an approval is not the author's.
ReviewedRequest(r) ==
  LET t == txn[r] IN
  /\ t.op # "quick"
  /\ t.op = "post" /\ t.step # "lock" /\ entry[t.e].status # "approved" =>
       t.user # entry[t.e].createdBy

Reviewed ==
  (\A p \in Policies : p.segregation) =>
    /\ \A e \in JournalIds : ReviewedEntry(e)
    /\ \A r \in Requests : ReviewedRequest(r)

\* After a step, every entry in the book still has a second reviewer.
LEMMA ReviewedEntries ==
  ASSUME TypeOK, LocksProtect, Reviewed, \A p \in Policies : p.segregation,
         NEW r \in Requests, Advance(r), NEW e \in JournalIds
  PROVE  ReviewedEntry(e)'
<1> DEFINE t == txn[r]
<1>0. ReviewedEntry(e) /\ ReviewedRequest(r)
  BY DEF Reviewed
<1>1. CASE entry'[e] = entry[e]
  BY <1>0, <1>1 DEF ReviewedEntry, Exists
<1>2. CASE Drafted(r, e)
  BY <1>2 DEF Drafted, NewEntry, ReviewedEntry
<1>3. CASE QuickPosted(r, e)
  BY <1>0, <1>3 DEF QuickPosted, QuickFinish, At, ReviewedRequest
<1>4. CASE OnItsWay(r, e)
  <2>1. ReviewedEntry(e) /\ entry[e].status \in {"draft", "pending"} /\ Exists(e)
    BY <1>0, <1>4 DEF OnItsWay, Exists, Unposted
  <2>2. ASSUME Approve(r) PROVE txn[r].user # NoOne /\ txn[r].user # entry[e].createdBy
    <3>1. t.user \in Users /\ t.policy \in Policies
      BY <2>2, TxnReads DEF Approve, At
    <3>2. Segregated(t.policy, entry[e], t.user)
      BY <1>4, <2>2 DEF OnItsWay, Approve, ApproveOk
    <3>3. QED
      BY <3>1, <3>2, NoOneAssumption DEF Segregated
  <2>3. QED
    BY <1>4, <2>1, <2>2, StillOnItsWay DEF ReviewedEntry
<1>5. CASE Removed(r, e)
  BY <1>5 DEF Removed, Deleted, ReviewedEntry, Exists, Unposted, Posted
<1>6. CASE PostedNow(r, e)
  <2>1. /\ entry'[e].status = "posted" /\ entry'[e].source = entry[e].source
        /\ entry'[e].createdBy = entry[e].createdBy
        /\ entry'[e].approvedBy = IF entry[e].approvedBy = NoOne THEN t.user ELSE entry[e].approvedBy
    BY <1>6 DEF PostedNow, EntryType
  <2>2. t.user # NoOne /\ t.op = "post" /\ t.step = "finish" /\ t.e = e
    BY <1>6, TxnFields, NoOneAssumption DEF PostedNow, PostFinish, At
  <2>3. entry[e].status # "approved" => t.user # entry[e].createdBy
    BY <1>0, <2>2 DEF ReviewedRequest
  <2>4. entry[e].status \in {"draft", "pending", "approved"} /\ Exists(e)
    BY <1>6 DEF PostedNow, Exists, Unposted
  <2>5. QED
    BY <1>0, <2>1, <2>2, <2>3, <2>4 DEF ReviewedEntry
<1>7. ASSUME NEW v \in JournalIds, ReversedNow(r, e, v) PROVE ReviewedEntry(e)'
  <2>1. /\ entry[e].status = "posted" /\ Exists(e) /\ entry'[e].status = "reversed"
        /\ entry'[e].source = entry[e].source /\ entry'[e].createdBy = entry[e].createdBy
        /\ entry'[e].approvedBy = entry[e].approvedBy
    BY <1>7 DEF ReversedNow, EntryType, Exists, Posted
  <2>2. QED
    BY <1>0, <2>1 DEF ReviewedEntry
<1>8. ASSUME NEW v \in JournalIds, ReversedNow(r, v, e) PROVE ReviewedEntry(e)'
  BY <1>8 DEF ReversedNow, Reversal, NewEntry, ReviewedEntry
<1>9. QED
  BY <1>1, <1>2, <1>3, <1>4, <1>5, <1>6, <1>7, <1>8, EntryChanges DEF EntryChange

\* What a request found about creator and approver is still so after a step.
LEMMA ReviewedRequests ==
  ASSUME TypeOK, LocksProtect, Reviewed, \A p \in Policies : p.segregation,
         [Next]_vars, NEW q \in Requests
  PROVE  ReviewedRequest(q)'
<1> DEFINE t == txn[q]
<1>0. ReviewedRequest(q) /\ Protected(q)
  BY DEF Reviewed, LocksProtect
<1>1. CASE ~(Start(q) \/ Advance(q) \/ Refuse(q) \/ DeadlockVictim(q) \/ Fail(q))
  <2>1. /\ txn'[q] = t
        /\ \A e \in JournalIds : entryLock[e] = q /\ Exists(e) => entry'[e] = entry[e]
    BY <1>1, Others
  <2>2. t.op = "post" /\ t.step # "lock" => entry'[t.e] = entry[t.e]
    BY <1>0, <2>1, TxnFields DEF Protected, Exists
  <2>3. QED
    BY <1>0, <2>1, <2>2 DEF ReviewedRequest
<1>2. CASE Start(q)
  <2>1. txn'[q].op = "post" => txn'[q].step = "lock"
    BY <1>2 DEF Start, CreateValidate, RecordValidate, QuickRead, EditLock, DeleteRead,
         TransitionRead, PostRead, ReverseRead, DaybookEditLock, VoidLock, Begin, TypeOK
  <2>2. txn'[q].op # "quick"
    BY <1>2 DEF Start, CreateValidate, RecordValidate, QuickRead, EditLock, DeleteRead,
         TransitionRead, PostRead, ReverseRead, DaybookEditLock, VoidLock, Begin, TypeOK
  <2>3. QED
    BY <2>1, <2>2 DEF ReviewedRequest
<1>3. CASE txn'[q] = Idle
  BY <1>3 DEF ReviewedRequest, Idle
<1>4. CASE Moves(q) /\ entry' = entry
  <2>1. t \in PostTxn \cup ReverseTxn /\ t.op # "quick"
    BY <1>0, <1>4, TxnShape DEF Moves, ReviewedRequest
  <2>2. t.op = "post" => t.policy.segregation
    BY <2>1, TxnReads
  <2>3. QED
    BY <1>0, <1>4, <2>1, <2>2 DEF ReviewedRequest, Moves, PostTxn, ReverseTxn, PostOk, Segregated
<1>5. QED
  BY <1>1, <1>2, <1>3, <1>4, TxnChanges

\* Where segregation of duties was never off, nothing gets into the book on the
\* word of its author: the check made at the lock still holds at the commit, an
\* approval is always another user's, and the daybook cannot post at once
\* (assertSegregation, createEntry of the daybook).
THEOREM SegregationCorrect == Spec => []SegregationHeld
<1>1. Init => Reviewed
  BY DEF Init, Reviewed, ReviewedEntry, ReviewedRequest, Exists, Absent, Idle, Unposted, Posted
<1>2. TypeOK /\ LocksProtect /\ Reviewed /\ [Next]_vars => Reviewed'
  <2> SUFFICES ASSUME TypeOK, LocksProtect, Reviewed, [Next]_vars,
                      \A p \in Policies : p.segregation, NEW e \in JournalIds
               PROVE  ReviewedEntry(e)'
    BY ReviewedRequests DEF Reviewed
  <2>1. CASE \E r \in Requests : Advance(r)
    BY <2>1, ReviewedEntries
  <2>2. CASE ~\E r \in Requests : Advance(r)
    BY <2>2, OtherSteps DEF Reviewed, ReviewedEntry, Exists
  <2>3. QED
    BY <2>1, <2>2
<1>3. Reviewed => SegregationHeld
  BY DEF Reviewed, ReviewedEntry, SegregationHeld, InBook, Exists, Posted
<1>4. QED
  BY <1>1, <1>2, <1>3, LockingCorrect, PTL DEF Spec

(***************************************************************************)
(* A reversal and the entry it reverses                                    *)
(***************************************************************************)

\* A reversal stays in the book with the entry it reverses, of which it is the
\* only one and the mirror image; any other entry has lines a client sent.
PairedEntry(e) ==
  LET x == entry[e]
      o == entry[x.reversalOf] IN
  Exists(e) =>
    /\ x.status = "reversed" <=> x.reversedBy # None
    /\ x.source # "reversal" => x.reversalOf = None /\ x.lines \in LineChoices
    /\ x.source = "reversal" =>
         /\ x.status = "posted" /\ x.reversalOf # None
         /\ o.status = "reversed" /\ o.reversedBy = e /\ o.source # "reversal"
         /\ o.date <= x.date /\ x.lines = Mirror(o.lines)

ReversalsPaired == \A e \in JournalIds : PairedEntry(e)

\* Nothing writes a reversed entry again.
LEMMA ReversedKept ==
  ASSUME TypeOK, LocksProtect, NEW r \in Requests, Advance(r),
         NEW e \in JournalIds, entry[e].status = "reversed"
  PROVE  entry'[e] = entry[e]
<1>1. ~(Drafted(r, e) \/ QuickPosted(r, e))
  BY DEF Drafted, QuickPosted, Absent
<1>2. ~(OnItsWay(r, e) \/ Removed(r, e) \/ PostedNow(r, e))
  BY DEF OnItsWay, Removed, DeleteOk, PostedNow, Unposted
<1>3. \A v : ~ReversedNow(r, e, v) /\ ~ReversedNow(r, v, e)
  BY DEF ReversedNow, Absent
<1>4. QED
  BY <1>1, <1>2, <1>3, EntryChanges DEF EntryChange

\* A step leaves every reversal and the entry it reverses pointing at each other.
LEMMA PairedStep ==
  ASSUME TypeOK, LocksProtect, ReversalsPaired, NEW r \in Requests, Advance(r),
         NEW e \in JournalIds
  PROVE  PairedEntry(e)'
<1> DEFINE t == txn[r]
<1>0. PairedEntry(e)
  BY DEF ReversalsPaired
<1>1. CASE entry'[e] = entry[e]
  <2>1. ASSUME Exists(e), entry[e].source = "reversal"
        PROVE  entry'[entry[e].reversalOf] = entry[entry[e].reversalOf]
    <3>1. entry[e].reversalOf \in JournalIds /\ entry[entry[e].reversalOf].status = "reversed"
      BY <1>0, <2>1, ExistingType DEF PairedEntry, EntryType
    <3>2. QED
      BY <3>1, ReversedKept
  <2>2. QED
    BY <1>0, <1>1, <2>1 DEF PairedEntry, Exists
<1>2. CASE Drafted(r, e)
  <2>1. t.lines \in LineChoices
    BY <1>2, TxnFields DEF Drafted, CreateCommit, RecordCommit, At
  <2>2. QED
    BY <1>2, <2>1 DEF Drafted, NewEntry, PairedEntry
<1>3. CASE QuickPosted(r, e)
  <2>1. t.lines \in LineChoices
    BY <1>3, TxnFields DEF QuickPosted, QuickFinish, At
  <2>2. QED
    BY <1>3, <2>1 DEF QuickPosted, NewEntry, PairedEntry
<1>4. CASE OnItsWay(r, e)
  <2>1. EditCommit(r) \/ DaybookEditJournal(r) => t.lines \in LineChoices
    BY TxnFields DEF EditCommit, DaybookEditJournal, At
  <2>2. Exists(e) /\ entry[e].status \in {"draft", "pending"} /\ entry[e].source # "reversal"
    BY <1>0, <1>4 DEF OnItsWay, PairedEntry, Exists, Unposted
  <2>3. QED
    BY <1>0, <1>4, <2>1, <2>2, StillOnItsWay DEF PairedEntry, Unposted
<1>5. CASE Removed(r, e)
  BY <1>5 DEF Removed, Deleted, PairedEntry, Exists, Unposted, Posted
<1>6. CASE PostedNow(r, e)
  <2>1. Exists(e) /\ entry[e].status \in Unposted /\ entry[e].source # "reversal"
    BY <1>0, <1>6 DEF PostedNow, PairedEntry, Exists, Unposted
  <2>2. /\ entry'[e].status = "posted" /\ entry'[e].source = entry[e].source
        /\ entry'[e].reversalOf = entry[e].reversalOf /\ entry'[e].reversedBy = entry[e].reversedBy
        /\ entry'[e].lines = entry[e].lines
    BY <1>6 DEF PostedNow, EntryType
  <2>3. QED
    BY <1>0, <2>1, <2>2 DEF PairedEntry, Unposted
<1>7. ASSUME NEW v \in JournalIds, ReversedNow(r, e, v) PROVE PairedEntry(e)'
  <2>1. Exists(e) /\ entry[e].source # "reversal" /\ v # None
    BY <1>7, BoundsAssumption DEF ReversedNow, Exists, Posted
  <2>2. /\ entry'[e].status = "reversed" /\ entry'[e].source = entry[e].source
        /\ entry'[e].reversalOf = entry[e].reversalOf /\ entry'[e].reversedBy = v
        /\ entry'[e].lines = entry[e].lines
    BY <1>7 DEF ReversedNow, EntryType
  <2>3. QED
    BY <1>0, <2>1, <2>2 DEF PairedEntry
<1>8. ASSUME NEW v \in JournalIds, ReversedNow(r, v, e) PROVE PairedEntry(e)'
  <2>1. /\ entry'[v].status = "reversed" /\ entry'[v].source # "reversal"
        /\ entry'[v].reversedBy = e /\ entry'[v].date = entry[v].date
        /\ entry'[v].lines = entry[v].lines
    BY <1>8 DEF ReversedNow, EntryType
  <2>2. /\ entry'[e].status = "posted" /\ entry'[e].source = "reversal"
        /\ entry'[e].reversalOf = v /\ entry'[e].reversedBy = None
        /\ entry'[e].date = t.date /\ entry'[e].lines = Mirror(entry[v].lines)
    BY <1>8 DEF ReversedNow, Reversal, NewEntry
  <2>3. v # None /\ entry[v].date <= t.date
    BY <1>8, BoundsAssumption DEF ReversedNow
  <2>4. QED
    BY <2>1, <2>2, <2>3 DEF PairedEntry
<1>9. QED
  BY <1>1, <1>2, <1>3, <1>4, <1>5, <1>6, <1>7, <1>8, EntryChanges DEF EntryChange

\* An entry is reversed by exactly one reversal, which mirrors its lines, is
\* dated no earlier and is never reversed itself (reverse).
THEOREM ReversalsCorrect == Spec => []ReversalsPaired
<1>1. Init => ReversalsPaired
  BY DEF Init, ReversalsPaired, PairedEntry, Exists, Absent, Unposted, Posted
<1>2. TypeOK /\ LocksProtect /\ ReversalsPaired /\ [Next]_vars => ReversalsPaired'
  <2> SUFFICES ASSUME TypeOK, LocksProtect, ReversalsPaired, [Next]_vars PROVE ReversalsPaired'
    OBVIOUS
  <2>1. CASE \E r \in Requests : Advance(r)
    BY <2>1, PairedStep DEF ReversalsPaired
  <2>2. CASE ~\E r \in Requests : Advance(r)
    BY <2>2, OtherSteps DEF ReversalsPaired, PairedEntry, Exists
  <2>3. QED
    BY <2>1, <2>2
<1>3. QED
  BY <1>1, <1>2, LockingCorrect, PTL DEF Spec

(***************************************************************************)
(* Ledger implements LedgerBook                                            *)
(***************************************************************************)

TheBook == [n \in 1..(nextValue - 1) |-> PostingAt(n)]

\* What is in the book stays in it as it is.
KeepsBook ==
  \A e \in JournalIds : InBook(e) =>
    /\ InBook(e)'
    /\ entry'[e].number = entry[e].number /\ entry'[e].date = entry[e].date
    /\ entry'[e].lines = entry[e].lines /\ entry'[e].reversalOf = entry[e].reversalOf

\* No step takes an entry out of the book or changes what the book says of it.
LEMMA BookKept ==
  ASSUME TypeOK, LocksProtect, NEW r \in Requests, Advance(r)
  PROVE  KeepsBook
<1> SUFFICES ASSUME NEW e \in JournalIds, InBook(e)
             PROVE  /\ InBook(e)'
                    /\ entry'[e].number = entry[e].number /\ entry'[e].date = entry[e].date
                    /\ entry'[e].lines = entry[e].lines
                    /\ entry'[e].reversalOf = entry[e].reversalOf
  BY DEF KeepsBook
<1>1. CASE entry'[e] = entry[e]
  BY <1>1 DEF InBook
<1>2. /\ ~Drafted(r, e) /\ ~QuickPosted(r, e)
      /\ \A v \in JournalIds : ~ReversedNow(r, v, e)
  <2>1. entry[e] # Absent
    BY DEF Absent, InBook, Posted
  <2>2. QED
    BY <2>1 DEF Drafted, QuickPosted, ReversedNow
<1>3. ~(OnItsWay(r, e) \/ Removed(r, e) \/ PostedNow(r, e))
  BY DEF OnItsWay, Removed, DeleteOk, PostedNow, InBook, Unposted, Posted
<1>4. ASSUME NEW v \in JournalIds, ReversedNow(r, e, v)
      PROVE  /\ InBook(e)'
             /\ entry'[e].number = entry[e].number /\ entry'[e].date = entry[e].date
             /\ entry'[e].lines = entry[e].lines
             /\ entry'[e].reversalOf = entry[e].reversalOf
  BY <1>4 DEF ReversedNow, EntryType, InBook, Posted
<1>5. QED
  BY <1>1, <1>2, <1>3, <1>4, EntryChanges DEF EntryChange

\* Numbered finds the posting with a number.
LEMMA NumberedFinds ==
  ASSUME NumberingGapless, NEW e \in JournalIds, InBook(e)
  PROVE  Numbered(entry[e].number) = e
  BY DEF NumberingGapless, Numbered

\* Every number that was drawn is the number of an entry in the book.
LEMMA NumberedInBook ==
  ASSUME NumberingGapless, NEW n \in 1..(nextValue - 1)
  PROVE  Numbered(n) \in JournalIds /\ InBook(Numbered(n)) /\ entry[Numbered(n)].number = n
  BY DEF NumberingGapless, Numbered

\* The entry a reversal reverses is in the book too.
LEMMA ReversedInBook ==
  ASSUME TypeOK, ReversalsPaired, NEW e \in JournalIds, InBook(e), entry[e].reversalOf # None
  PROVE  entry[e].reversalOf \in JournalIds /\ InBook(entry[e].reversalOf)
<1>1. Exists(e) /\ entry[e] \in EntryType
  BY ExistingType DEF InBook, Exists
<1>2. QED
  BY <1>1 DEF ReversalsPaired, PairedEntry, EntryType, InBook, Posted

\* A posting keeps its place and what it says.
LEMMA PostingKept ==
  ASSUME TypeOK, NumberingGapless, NumberingGapless', ReversalsPaired, KeepsBook,
         NEW n \in 1..(nextValue - 1)
  PROVE  PostingAt(n)' = PostingAt(n)
<1>1. PICK e \in JournalIds : e = Numbered(n) /\ InBook(e) /\ entry[e].number = n
  BY NumberedInBook
<1>2. /\ InBook(e)' /\ entry'[e].number = n /\ entry'[e].date = entry[e].date
      /\ entry'[e].lines = entry[e].lines /\ entry'[e].reversalOf = entry[e].reversalOf
  BY <1>1 DEF KeepsBook
<1>3. Numbered(n)' = e
  <2>1. \A f \in JournalIds : InBook(f)' /\ entry'[f].number = n <=> f = e
    BY <1>2 DEF NumberingGapless
  <2>2. QED
    BY <2>1 DEF Numbered
<1>4. entry[e].reversalOf # None =>
        entry'[entry[e].reversalOf].number = entry[entry[e].reversalOf].number
  BY <1>1, ReversedInBook DEF KeepsBook
<1>5. QED
  BY <1>1, <1>2, <1>3, <1>4 DEF PostingAt

\* The book grows by what was posted under the next number.
LEMMA BookGrows ==
  ASSUME TypeOK, NumberingGapless, NumberingGapless', ReversalsPaired, KeepsBook,
         NEW m, nextValue = m, nextValue' = m + 1,
         NEW v \in JournalIds, InBook(v)', entry'[v].number = m
  PROVE  TheBook' = Append(TheBook,
           [date     |-> entry'[v].date,
            lines    |-> entry'[v].lines,
            reverses |-> IF entry'[v].reversalOf = None THEN 0
                         ELSE entry'[entry'[v].reversalOf].number])
<1>1. m \in Nat \ {0} /\ Len(TheBook) = m - 1
  BY DEF TypeOK, TheBook
<1>2. Numbered(m)' = v
  BY DEF NumberingGapless, Numbered
<1>3. PostingAt(m)' =
        [date     |-> entry'[v].date,
         lines    |-> entry'[v].lines,
         reverses |-> IF entry'[v].reversalOf = None THEN 0
                      ELSE entry'[entry'[v].reversalOf].number]
  BY <1>2 DEF PostingAt
<1>4. \A n \in 1..(m - 1) : PostingAt(n)' = PostingAt(n)
  BY PostingKept
<1>5. TheBook' = [n \in 1..m |-> PostingAt(n)']
  BY <1>1 DEF TheBook
<1> DEFINE x == PostingAt(m)'
<1>6. Append(TheBook, x) = [n \in 1..m |-> IF n = m THEN x ELSE TheBook[n]]
  BY <1>1 DEF TheBook
<1>7. \A n \in 1..m : PostingAt(n)' = IF n = m THEN x ELSE TheBook[n]
  BY <1>1, <1>4 DEF TheBook
<1>8. QED
  BY <1>3, <1>5, <1>6, <1>7

\* An entry that is not a reversal and gets into the book is a new posting.
LEMMA PostImplements ==
  ASSUME TypeOK, NumberingGapless, NumberingGapless', ReversalsPaired, BookBalanced', KeepsBook,
         NEW m, nextValue = m, nextValue' = m + 1,
         NEW v \in JournalIds, InBook(v)', entry'[v].number = m, entry'[v].reversalOf = None,
         entry'[v].date \in Dates, entry'[v].lines \in LineChoices
  PROVE  Book!Post
<1> DEFINE p == [date |-> entry'[v].date, lines |-> entry'[v].lines, reverses |-> 0]
<1>1. TheBook' = Append(TheBook, p)
  BY BookGrows
<1>2. Balanced(entry'[v].lines)
  BY DEF BookBalanced
<1>3. QED
  BY <1>1, <1>2 DEF Book!Post, Book!Balanced, Book!NotAReversal, Balanced, TheBook

\* A reversal that gets into the book mirrors a posting that nothing mirrors.
LEMMA ReverseImplements ==
  ASSUME TypeOK, NumberingGapless, NumberingGapless', ReversalsPaired, KeepsBook,
         NEW m, nextValue = m, nextValue' = m + 1,
         NEW v \in JournalIds, InBook(v)', entry'[v].number = m,
         NEW e \in JournalIds, entry'[v].reversalOf = e,
         entry[e].status = "posted", entry[e].source # "reversal",
         entry'[v].date \in Dates, entry[e].date <= entry'[v].date,
         entry'[v].lines = Mirror(entry[e].lines)
  PROVE  Book!Reverse
<1>1. InBook(e) /\ Exists(e) /\ e # None
  BY BoundsAssumption DEF InBook, Exists, Posted
<1>2. PICK n \in 1..(m - 1) : n = entry[e].number
  BY <1>1 DEF NumberingGapless
<1>3. Numbered(n) = e /\ entry'[e].number = n
  BY <1>1, <1>2, NumberedFinds DEF KeepsBook
<1> DEFINE p == [date |-> entry'[v].date, lines |-> Mirror(entry[e].lines), reverses |-> n]
<1>4. TheBook' = Append(TheBook, p)
  BY <1>1, <1>3, BookGrows
<1>5. m \in Nat \ {0} /\ Len(TheBook) = m - 1
  BY DEF TypeOK, TheBook
<1>6. /\ TheBook[n].reverses = 0 /\ TheBook[n].date = entry[e].date
      /\ TheBook[n].lines = entry[e].lines
  <2>1. entry[e].reversalOf = None
    BY <1>1 DEF ReversalsPaired, PairedEntry
  <2>2. TheBook[n] = PostingAt(n)
    BY <1>5 DEF TheBook
  <2>3. QED
    BY <1>3, <2>1, <2>2 DEF PostingAt
<1>7. ASSUME NEW k \in 1..(m - 1), TheBook[k].reverses = n PROVE FALSE
  <2>1. PICK f \in JournalIds : f = Numbered(k) /\ InBook(f)
    BY NumberedInBook
  <2>2. TheBook[k].reverses = IF entry[f].reversalOf = None THEN 0
                              ELSE entry[entry[f].reversalOf].number
    BY <2>1 DEF TheBook, PostingAt
  <2>3. /\ entry[f].reversalOf \in JournalIds /\ InBook(entry[f].reversalOf)
        /\ entry[entry[f].reversalOf].number = n
    BY <1>5, <1>7, <2>1, <2>2, ReversedInBook
  <2>4. entry[f].reversalOf = e
    BY <1>1, <1>2, <2>3 DEF NumberingGapless
  <2>5. Exists(f) /\ entry[f].source = "reversal" => entry[e].status = "reversed"
    BY <2>4 DEF ReversalsPaired, PairedEntry
  <2>6. QED
    BY <1>1, <2>1, <2>4, <2>5 DEF ReversalsPaired, PairedEntry, InBook, Exists
<1>8. Mirror(entry[e].lines) = Book!Mirror(TheBook[n].lines)
  BY <1>6 DEF Mirror, Book!Mirror
<1>9. ~Book!Reversed(n)
  BY <1>5, <1>7 DEF Book!Reversed, TheBook
<1>10. n \in 1..Len(TheBook) /\ TheBook[n].date <= entry'[v].date
  BY <1>5, <1>6
<1>11. \E date \in Dates :
         /\ TheBook[n].date <= date
         /\ TheBook' = Append(TheBook, [date     |-> date,
                                       lines    |-> Book!Mirror(TheBook[n].lines),
                                       reverses |-> n])
  BY <1>4, <1>8, <1>10
<1>12. QED
  BY <1>6, <1>9, <1>10, <1>11 DEF Book!Reverse, Book!NotAReversal, TheBook

\* Every other step leaves the book alone.
LEMMA BookStays ==
  ASSUME TypeOK, NumberingGapless, NumberingGapless', ReversalsPaired, KeepsBook,
         nextValue' = nextValue
  PROVE  TheBook' = TheBook
<1>1. \A n \in 1..(nextValue - 1) : PostingAt(n)' = PostingAt(n)
  BY PostingKept
<1>2. QED
  BY <1>1 DEF TheBook

\* A step that goes on posts one entry to the book, or leaves the book as it is.
LEMMA BookStep ==
  ASSUME TypeOK, LocksProtect, NumberingGapless, NumberingGapless', ReversalsPaired,
         ReversalsPaired', BookBalanced', NEW r \in Requests, Advance(r)
  PROVE  Book!Next \/ TheBook' = TheBook
<1> DEFINE t == txn[r]
<1>0. KeepsBook /\ entry \in EntriesType
  BY BookKept DEF TypeOK, EntriesType
<1>1. PICK m : m = nextValue
  OBVIOUS
<1>2. CASE PostFinish(r)
  <2>1. t.e \in JournalIds /\ t.num = m /\ entry[t.e].status \in Unposted
    BY <1>1, <1>2, TxnFields DEF PostFinish, At, LocksProtect, Protected
  <2>2. entry[t.e] \in EntryType /\ Exists(t.e)
    BY <2>1, ExistingType DEF Exists
  <2>3. entry[t.e].reversalOf = None /\ entry[t.e].source # "reversal"
    BY <2>1, <2>2 DEF ReversalsPaired, PairedEntry, Unposted
  <2>4. /\ entry'[t.e].status = "posted" /\ entry'[t.e].number = m
        /\ entry'[t.e].reversalOf = None /\ entry'[t.e].date \in Dates
        /\ entry'[t.e].lines = entry[t.e].lines
    BY <1>0, <1>2, <2>1, <2>2, <2>3 DEF PostFinish, EntriesType, EntryType
  <2>5. entry'[t.e].lines \in LineChoices
    BY <2>1, <2>2, <2>3, <2>4 DEF ReversalsPaired, PairedEntry
  <2>6. nextValue' = m + 1
    BY <1>2, <2>1 DEF PostFinish
  <2>7. QED
    BY <1>0, <1>1, <2>1, <2>4, <2>5, <2>6, PostImplements DEF Book!Next, InBook, Posted
<1>3. CASE QuickFinish(r)
  <2>1. t.num = m /\ t.date \in Dates /\ t.lines \in LineChoices
    BY <1>1, <1>3, TxnFields DEF QuickFinish, At, LocksProtect, Protected
  <2>2. PICK v \in JournalIds :
          entry' = [entry EXCEPT ![v] =
               [NewEntry("daybook", "posted", t.date, t.lines, t.user) EXCEPT
                  !.approvedBy = t.user, !.number = t.num]]
    BY <1>3 DEF QuickFinish, InsertDaybook
  <2>3. /\ entry'[v].status = "posted" /\ entry'[v].number = m /\ entry'[v].reversalOf = None
        /\ entry'[v].date = t.date /\ entry'[v].lines = t.lines
    BY <1>0, <2>1, <2>2 DEF EntriesType, NewEntry
  <2>4. nextValue' = m + 1
    BY <1>3, <2>1 DEF QuickFinish
  <2>5. QED
    BY <1>0, <1>1, <2>1, <2>3, <2>4, PostImplements DEF Book!Next, InBook, Posted
<1>4. CASE ReverseFinish(r)
  <2>1. t.e \in JournalIds /\ t.date \in Dates /\ t.num = m
    BY <1>1, <1>4, TxnFields DEF ReverseFinish, At, LocksProtect, Protected
  <2>2. /\ entry[t.e].status = "posted" /\ entry[t.e].source # "reversal"
        /\ entry[t.e].date <= t.date
    BY <1>4 DEF ReverseFinish, At, LocksProtect, Protected
  <2>3. PICK v \in JournalIds :
          entry' = [entry EXCEPT ![t.e].status = "reversed",
                                 ![t.e].reversedBy = v,
                                 ![v] = Reversal(t, entry[t.e])]
    BY <1>4 DEF ReverseFinish
  <2>4. entry'[v] = Reversal(t, entry[t.e])
    BY <1>0, <2>3 DEF EntriesType
  <2>5. /\ entry'[v].status = "posted" /\ entry'[v].number = m /\ entry'[v].reversalOf = t.e
        /\ entry'[v].date = t.date /\ entry'[v].lines = Mirror(entry[t.e].lines)
    BY <2>1, <2>4 DEF Reversal, NewEntry
  <2>6. nextValue' = m + 1
    BY <1>4, <2>1 DEF ReverseFinish
  <2>7. QED
    BY <1>0, <1>1, <2>1, <2>2, <2>5, <2>6, ReverseImplements DEF Book!Next, InBook, Posted
<1>5. CASE ~(PostFinish(r) \/ QuickFinish(r) \/ ReverseFinish(r))
  <2>1. nextValue' = nextValue
    BY <1>5 DEF Advance, CreateCommit, EditCommit, DeleteApply, Submit, Approve, PostLock,
         ReverseLock, TakeNumber, RecordCommit, QuickPolicy, QuickValidate, DaybookEditJournal,
         VoidJournal, rows
  <2>2. QED
    BY <1>0, <2>1, BookStays
<1>6. QED
  BY <1>2, <1>3, <1>4, <1>5

\* The committed postings, in the order of their numbers, are an append-only
\* book of balanced postings in which each is mirrored at most once: every step
\* of Ledger posts, reverses or leaves the book as it is.
THEOREM BookImplemented == Spec => ImplementsBook
<1>1. Init => Book!Init
  BY DEF Init, Book!Init
<1>2. /\ TypeOK /\ LocksProtect /\ NumberingGapless /\ NumberingGapless'
      /\ ReversalsPaired /\ ReversalsPaired' /\ BookBalanced' /\ [Next]_vars
      => [Book!Next]_TheBook
  <2> SUFFICES ASSUME TypeOK, LocksProtect, NumberingGapless, NumberingGapless',
                      ReversalsPaired, ReversalsPaired', BookBalanced', [Next]_vars
               PROVE  Book!Next \/ TheBook' = TheBook
    OBVIOUS
  <2>1. CASE \E r \in Requests : Advance(r)
    BY <2>1, BookStep
  <2>2. CASE ~\E r \in Requests : Advance(r)
    <3>1. KeepsBook /\ nextValue' = nextValue
      BY <2>2, OtherSteps DEF KeepsBook, InBook
    <3>2. QED
      BY <3>1, BookStays
  <2>3. QED
    BY <2>1, <2>2
<1>3. [Book!Next]_TheBook => [Book!Next]_([n \in 1..(nextValue - 1) |-> PostingAt(n)])
  BY DEF TheBook
<1>4. QED
  BY <1>1, <1>2, <1>3, LockingCorrect, NumberingCorrect, ReversalsCorrect, BookBalances, PTL
  DEF Spec, ImplementsBook, Book!Spec

(***************************************************************************)
(* The daybook and its journal entries                                     *)
(***************************************************************************)

OfDaybook(e) == Exists(e) /\ entry[e].source = "daybook"

\* The entry of a daybook row is there for no other row and as far as the row.
Linked(d) ==
  LET s == daybook[d].status
      l == daybook[d].link IN
  /\ s \in {"pending", "posted"} => l # None
  /\ l # None =>
       /\ OfDaybook(l)
       /\ \A c \in DaybookIds : daybook[c].link = l => c = d
       /\ \/ s = "pending" /\ entry[l].status \in {"pending", "approved"}
          \/ s = "posted"  /\ entry[l].status = "posted"
          \/ s = "void"    /\ entry[l].status = "reversed"

Owned(e) == OfDaybook(e) => \E d \in DaybookIds : daybook[d].link = e

\* A locked daybook row stays as it was found, and what a deletion has found
\* editable is no daybook entry.
DaybookHeld(r) ==
  LET t == txn[r] IN
  /\ t.op \in {"daybookEdit", "void"} =>
       /\ daybookLock[t.d] = r
       /\ daybook[t.d].status = "pending" /\ daybook[t.d].link = t.e
  /\ t.op = "delete" => entry[t.e] = Deleted \/ (Exists(t.e) /\ entry[t.e].source = "manual")

DaybookLinked ==
  /\ \A d \in DaybookIds : Linked(d)
  /\ \A e \in JournalIds : Owned(e)
  /\ \A r \in Requests : DaybookHeld(r)

\* A step that leaves the daybook alone, and its entries as far as they were.
LEMMA DaybookFrame ==
  ASSUME TypeOK, DaybookLinked, daybook' = daybook,
         \A e \in JournalIds : OfDaybook(e)' = OfDaybook(e),
         \A e \in JournalIds : OfDaybook(e) =>
           \/ entry'[e].status = entry[e].status
           \/ entry[e].status = "pending" /\ entry'[e].status = "approved"
  PROVE  (\A d \in DaybookIds : Linked(d)') /\ (\A e \in JournalIds : Owned(e)')
<1>1. \A d \in DaybookIds : daybook[d].link \in JournalIds \cup {None}
  BY DEF TypeOK, DaybookType, NoDaybook
<1>2. ASSUME NEW d \in DaybookIds PROVE Linked(d)'
  BY <1>1 DEF DaybookLinked, Linked
<1>3. ASSUME NEW e \in JournalIds PROVE Owned(e)'
  BY DEF DaybookLinked, Owned
<1>4. QED
  BY <1>2, <1>3

\* A new daybook row comes with a new entry.
LEMMA DaybookInsert ==
  ASSUME TypeOK, DaybookLinked, NEW e \in JournalIds, NEW d \in DaybookIds,
         entry[e] = Absent, daybook[d] = NoDaybook,
         NEW j, j.source = "daybook", NEW s \in {"pending", "posted"}, j.status = s,
         entry' = [entry EXCEPT ![e] = j],
         daybook' = [daybook EXCEPT ![d] = [status |-> s, link |-> e]]
  PROVE  (\A c \in DaybookIds : Linked(c)') /\ (\A f \in JournalIds : Owned(f)')
<1>0. /\ entry'[e] = j /\ \A f \in JournalIds \ {e} : entry'[f] = entry[f]
      /\ daybook'[d].status = s /\ daybook'[d].link = e
      /\ \A c \in DaybookIds \ {d} : daybook'[c] = daybook[c]
  BY DEF TypeOK
<1>1. \A c \in DaybookIds : daybook[c].link \in JournalIds \cup {None}
  BY DEF TypeOK, DaybookType, NoDaybook
<1>2. ~OfDaybook(e) /\ \A c \in DaybookIds : daybook[c].link # e
  <2>1. ~OfDaybook(e)
    BY DEF OfDaybook, Exists, Absent, Unposted, Posted
  <2>2. QED
    BY <1>1, <2>1, BoundsAssumption DEF DaybookLinked, Linked
<1>3. OfDaybook(e)' /\ \A f \in JournalIds \ {e} : OfDaybook(f)' = OfDaybook(f)
  BY <1>0 DEF OfDaybook, Exists, Unposted, Posted
<1>4. ASSUME NEW c \in DaybookIds PROVE Linked(c)'
  <2>1. CASE c = d
    BY <1>0, <1>2, <1>3, <2>1 DEF Linked
  <2>2. CASE c # d
    <3>1. Linked(c)
      BY DEF DaybookLinked
    <3>2. daybook[c].link # e /\ daybook'[c] = daybook[c]
      BY <1>0, <1>2, <2>2
    <3>3. QED
      BY <1>0, <1>1, <1>3, <3>1, <3>2 DEF Linked
  <2>3. QED
    BY <2>1, <2>2
<1>5. ASSUME NEW f \in JournalIds PROVE Owned(f)'
  <2>1. CASE f = e
    BY <1>0, <2>1 DEF Owned
  <2>2. CASE f # e
    <3>1. Owned(f) /\ OfDaybook(f)' = OfDaybook(f)
      BY <1>3, <2>2 DEF DaybookLinked
    <3>2. \A c \in DaybookIds : daybook[c].link = f => daybook'[c].link = f
      BY <1>0, BoundsAssumption DEF NoDaybook
    <3>3. QED
      BY <3>1, <3>2 DEF Owned
  <2>3. QED
    BY <2>1, <2>2
<1>6. QED
  BY <1>4, <1>5

\* Posting and reversing an entry marks the row that points to it.
LEMMA DaybookMark ==
  ASSUME TypeOK, DaybookLinked, NEW e \in JournalIds, NEW s, MarkDaybook(e, s),
         \/ s = "posted" /\ entry'[e].status = "posted"
         \/ s = "void" /\ entry'[e].status = "reversed",
         \A f \in JournalIds : OfDaybook(f)' = OfDaybook(f),
         \A f \in JournalIds \ {e} : OfDaybook(f) => entry'[f] = entry[f]
  PROVE  (\A d \in DaybookIds : Linked(d)') /\ (\A f \in JournalIds : Owned(f)')
<1>1. \A d \in DaybookIds : daybook[d].link \in JournalIds \cup {None}
  BY DEF TypeOK, DaybookType, NoDaybook
<1>2. \A d \in DaybookIds :
        /\ daybook'[d].link = daybook[d].link
        /\ daybook[d].link = e => daybook'[d].status = s
        /\ daybook[d].link # e => daybook'[d] = daybook[d]
  BY DEF MarkDaybook, TypeOK, DaybookType, NoDaybook
<1>3. ASSUME NEW d \in DaybookIds PROVE Linked(d)'
  <2>1. Linked(d)
    BY DEF DaybookLinked
  <2>2. CASE daybook[d].link = e
    BY <1>2, <2>1, <2>2, BoundsAssumption DEF Linked
  <2>3. CASE daybook[d].link # e
    BY <1>1, <1>2, <2>1, <2>3 DEF Linked
  <2>4. QED
    BY <2>2, <2>3
<1>4. ASSUME NEW f \in JournalIds PROVE Owned(f)'
  BY <1>2 DEF DaybookLinked, Owned
<1>5. QED
  BY <1>3, <1>4

\* Voiding a row deletes the entry it pointed to.
LEMMA DaybookVoid ==
  ASSUME TypeOK, DaybookLinked, NEW d \in DaybookIds, NEW e \in JournalIds,
         daybook[d].link = e,
         daybook' = [daybook EXCEPT ![d] = [status |-> "void", link |-> None]],
         entry'[e] = Deleted, \A f \in JournalIds \ {e} : entry'[f] = entry[f]
  PROVE  (\A c \in DaybookIds : Linked(c)') /\ (\A f \in JournalIds : Owned(f)')
<1>1. \A c \in DaybookIds : daybook[c].link \in JournalIds \cup {None}
  BY DEF TypeOK, DaybookType, NoDaybook
<1>2. /\ daybook'[d].status = "void" /\ daybook'[d].link = None
      /\ \A c \in DaybookIds \ {d} : daybook'[c] = daybook[c]
  BY DEF TypeOK
<1>3. \A c \in DaybookIds \ {d} : daybook[c].link # e
  BY BoundsAssumption DEF DaybookLinked, Linked
<1>4. ~OfDaybook(e)' /\ \A f \in JournalIds \ {e} : OfDaybook(f)' = OfDaybook(f)
  BY DEF OfDaybook, Exists, Deleted, Unposted, Posted
<1>5. ASSUME NEW c \in DaybookIds PROVE Linked(c)'
  <2>1. CASE c = d
    BY <1>2, <2>1 DEF Linked
  <2>2. CASE c # d
    <3>1. Linked(c) /\ daybook'[c] = daybook[c] /\ daybook[c].link # e
      BY <1>2, <1>3, <2>2 DEF DaybookLinked
    <3>2. \A b \in DaybookIds : daybook'[b].link = daybook[c].link /\ daybook[c].link # None
                                => daybook[b].link = daybook[c].link
      BY <1>2
    <3>3. QED
      BY <1>1, <1>4, <3>1, <3>2 DEF Linked
  <2>3. QED
    BY <2>1, <2>2
<1>6. ASSUME NEW f \in JournalIds PROVE Owned(f)'
  <2>1. CASE f = e
    BY <1>4, <2>1 DEF Owned
  <2>2. CASE f # e
    BY <1>2, <1>4, <2>2 DEF DaybookLinked, Owned
  <2>3. QED
    BY <2>1, <2>2
<1>7. QED
  BY <1>5, <1>6

\* The rows after a step.
LEMMA DaybookRows ==
  ASSUME TypeOK, LocksProtect, DaybookLinked, NEW r \in Requests, Advance(r)
  PROVE  (\A d \in DaybookIds : Linked(d)') /\ (\A e \in JournalIds : Owned(e)')
<1> DEFINE t == txn[r]
<1>0. entry \in EntriesType /\ DaybookHeld(r) /\ Protected(r)
  BY DEF TypeOK, EntriesType, DaybookLinked, LocksProtect
<1>1. ASSUME NEW e \in JournalIds, OfDaybook(e)
      PROVE  entry[e].status \in {"pending", "approved", "posted", "reversed"}
  <2>1. PICK d \in DaybookIds : daybook[d].link = e
    BY <1>1 DEF DaybookLinked, Owned
  <2>2. QED
    BY <2>1, BoundsAssumption DEF DaybookLinked, Linked
<1>2. CASE CreateCommit(r)
  <2>1. PICK v \in JournalIds :
          /\ FreshEntry(v)
          /\ entry' = [entry EXCEPT ![v] = NewEntry("manual", "draft", t.date, t.lines, t.user)]
    BY <1>2 DEF CreateCommit
  <2>2. ~OfDaybook(v) /\ entry'[v].source = "manual" /\ \A f \in JournalIds \ {v} : entry'[f] = entry[f]
    BY <1>0, <2>1 DEF FreshEntry, OfDaybook, Exists, Absent, EntriesType, NewEntry, Unposted, Posted
  <2>3. \A f \in JournalIds : OfDaybook(f)' = OfDaybook(f) /\ (OfDaybook(f) => entry'[f] = entry[f])
    BY <2>2 DEF OfDaybook, Exists
  <2>4. daybook' = daybook
    BY <1>2 DEF CreateCommit
  <2>5. QED
    BY <2>3, <2>4, DaybookFrame
<1>3. CASE EditCommit(r) \/ DeleteApply(r) \/ Submit(r)
  <2>0. daybook' = daybook
    BY <1>3 DEF EditCommit, DeleteApply, Submit
  <2>1. PICK e \in JournalIds : e = t.e
    BY <1>3, TxnFields DEF EditCommit, DeleteApply, Submit, At
  <2>2. entry[e].status \in {"draft", "pending"}
    BY <1>0, <1>3, <2>1 DEF EditCommit, DeleteApply, DeleteOk, Submit, SubmitOk, Protected, Editable, At
  <2>3. entry[e] \in EntryType /\ Exists(e)
    BY <2>1, <2>2, ExistingType DEF Exists, Unposted
  <2>4. entry[e].source # "daybook"
    <3>1. CASE EditCommit(r)
      BY <1>0, <2>1, <3>1 DEF EditCommit, At, Protected, Editable
    <3>2. CASE DeleteApply(r)
      BY <1>0, <2>1, <2>2, <3>2 DEF DeleteApply, At, DaybookHeld, Deleted
    <3>3. CASE Submit(r)
      BY <1>1, <2>1, <2>3, <3>3 DEF Submit, SubmitOk, OfDaybook
    <3>4. QED
      BY <1>3, <3>1, <3>2, <3>3
  <2>5. \A f \in JournalIds \ {e} : entry'[f] = entry[f]
    BY <1>0, <1>3, <2>1 DEF EditCommit, DeleteApply, Submit, EntriesType
  <2>6. ~OfDaybook(e)'
    <3>1. CASE EditCommit(r)
      BY <1>0, <2>1, <2>3, <2>4, <3>1 DEF EditCommit, EntriesType, EntryType, OfDaybook
    <3>2. CASE DeleteApply(r)
      BY <1>0, <2>1, <3>2 DEF DeleteApply, EntriesType, Deleted, OfDaybook, Exists, Unposted, Posted
    <3>3. CASE Submit(r)
      BY <1>0, <2>1, <2>3, <2>4, <3>3 DEF Submit, EntriesType, EntryType, OfDaybook
    <3>4. QED
      BY <1>3, <3>1, <3>2, <3>3
  <2>7. \A f \in JournalIds : OfDaybook(f)' = OfDaybook(f) /\ (OfDaybook(f) => entry'[f] = entry[f])
    BY <2>4, <2>5, <2>6 DEF OfDaybook, Exists
  <2>8. QED
    BY <2>0, <2>7, DaybookFrame
<1>4. CASE Approve(r) \/ DaybookEditJournal(r)
  <2>1. daybook' = daybook
    BY <1>4 DEF Approve, DaybookEditJournal
  <2>2. ASSUME NEW f \in JournalIds
        PROVE  /\ OfDaybook(f)' = OfDaybook(f)
               /\ OfDaybook(f) => \/ entry'[f].status = entry[f].status
                                  \/ entry[f].status = "pending" /\ entry'[f].status = "approved"
    <3>1. CASE f # t.e
      <4>1. entry'[f] = entry[f]
        BY <1>0, <1>4, <3>1 DEF Approve, DaybookEditJournal, EntriesType
      <4>2. QED
        BY <4>1 DEF OfDaybook, Exists
    <3>2. CASE f = t.e
      <4>1. entry[f].status \in {"draft", "pending"}
        BY <1>4, <3>2 DEF Approve, ApproveOk, DaybookEditJournal, DaybookEditOk
      <4>2. entry[f] \in EntryType
        BY <4>1, ExistingType DEF Exists, Unposted
      <4>3. /\ entry'[f].source = entry[f].source
            /\ \/ entry'[f].status = entry[f].status
               \/ entry[f].status = "pending" /\ entry'[f].status = "approved"
        <5>1. CASE Approve(r)
          BY <1>0, <3>2, <4>2, <5>1 DEF Approve, ApproveOk, EntriesType, EntryType
        <5>2. CASE DaybookEditJournal(r)
          BY <1>0, <3>2, <4>2, <5>2 DEF DaybookEditJournal, EntriesType, EntryType
        <5>3. QED
          BY <1>4, <5>1, <5>2
      <4>4. QED
        BY <4>1, <4>3 DEF OfDaybook, Exists, Unposted
    <3>3. QED
      BY <3>1, <3>2
  <2>3. QED
    BY <2>1, <2>2, DaybookFrame
<1>5. CASE RecordCommit(r)
  <2> DEFINE j == NewEntry("daybook", "pending", t.date, t.lines, t.user)
  <2>1. PICK e \in JournalIds, d \in DaybookIds :
          /\ FreshEntry(e) /\ FreshDaybook(d)
          /\ entry' = [entry EXCEPT ![e] = j]
          /\ daybook' = [daybook EXCEPT ![d] = [status |-> "pending", link |-> e]]
    BY <1>5 DEF RecordCommit, InsertDaybook
  <2>2. j.source = "daybook" /\ j.status = "pending"
    BY DEF NewEntry
  <2>3. entry[e] = Absent /\ daybook[d] = NoDaybook
    BY <2>1 DEF FreshEntry, FreshDaybook
  <2> HIDE DEF j
  <2>4. QED
    BY <2>1, <2>2, <2>3, DaybookInsert
<1>6. CASE QuickFinish(r)
  <2> DEFINE j == [NewEntry("daybook", "posted", t.date, t.lines, t.user) EXCEPT
                     !.approvedBy = t.user, !.number = t.num]
  <2>1. PICK e \in JournalIds, d \in DaybookIds :
          /\ FreshEntry(e) /\ FreshDaybook(d)
          /\ entry' = [entry EXCEPT ![e] = j]
          /\ daybook' = [daybook EXCEPT ![d] = [status |-> "posted", link |-> e]]
    BY <1>6 DEF QuickFinish, InsertDaybook
  <2>2. j.source = "daybook" /\ j.status = "posted"
    BY DEF NewEntry
  <2>3. entry[e] = Absent /\ daybook[d] = NoDaybook
    BY <2>1 DEF FreshEntry, FreshDaybook
  <2> HIDE DEF j
  <2>4. QED
    BY <2>1, <2>2, <2>3, DaybookInsert
<1>7. CASE PostFinish(r)
  <2>1. t.e \in JournalIds /\ entry[t.e].status \in Unposted
    BY <1>0, <1>7, TxnFields DEF PostFinish, At, Protected
  <2>2. entry[t.e] \in EntryType /\ Exists(t.e)
    BY <2>1, ExistingType DEF Exists
  <2>3. /\ entry'[t.e].status = "posted" /\ entry'[t.e].source = entry[t.e].source
        /\ \A f \in JournalIds \ {t.e} : entry'[f] = entry[f]
    BY <1>0, <1>7, <2>1, <2>2 DEF PostFinish, EntriesType, EntryType
  <2>4. \A f \in JournalIds : OfDaybook(f)' = OfDaybook(f)
    BY <2>2, <2>3 DEF OfDaybook, Exists, Posted
  <2>5. MarkDaybook(t.e, "posted")
    BY <1>7 DEF PostFinish
  <2>6. \A f \in JournalIds \ {t.e} : OfDaybook(f) => entry'[f] = entry[f]
    BY <2>3
  <2>7. QED
    BY <2>1, <2>3, <2>4, <2>5, <2>6, DaybookMark
<1>8. CASE ReverseFinish(r)
  <2>1. t.e \in JournalIds /\ entry[t.e].status = "posted"
    BY <1>0, <1>8, TxnFields DEF ReverseFinish, At, Protected
  <2>2. entry[t.e] \in EntryType /\ Exists(t.e) /\ entry[t.e] # Absent
    BY <2>1, ExistingType DEF Exists, Absent, Posted
  <2>3. PICK v \in JournalIds :
          /\ FreshEntry(v)
          /\ entry' = [entry EXCEPT ![t.e].status = "reversed",
                                    ![t.e].reversedBy = v,
                                    ![v] = Reversal(t, entry[t.e])]
    BY <1>8 DEF ReverseFinish
  <2>4. v # t.e /\ ~OfDaybook(v) /\ Reversal(t, entry[t.e]).source = "reversal"
    BY <2>2, <2>3 DEF FreshEntry, OfDaybook, Exists, Absent, Unposted, Posted, Reversal, NewEntry
  <2>5. /\ entry'[t.e].status = "reversed" /\ entry'[t.e].source = entry[t.e].source
        /\ entry'[v].source = "reversal"
        /\ \A f \in JournalIds \ {t.e, v} : entry'[f] = entry[f]
    BY <1>0, <2>1, <2>2, <2>3, <2>4 DEF EntriesType, EntryType
  <2>6. \A f \in JournalIds : OfDaybook(f)' = OfDaybook(f)
    BY <2>2, <2>4, <2>5 DEF OfDaybook, Exists, Posted
  <2>7. \A f \in JournalIds \ {t.e} : OfDaybook(f) => entry'[f] = entry[f]
    BY <2>4, <2>5
  <2>8. MarkDaybook(t.e, "void")
    BY <1>8 DEF ReverseFinish
  <2>9. QED
    BY <2>1, <2>5, <2>6, <2>7, <2>8, DaybookMark
<1>9. CASE VoidJournal(r)
  <2>1. t.d \in DaybookIds /\ daybook[t.d].status = "pending" /\ daybook[t.d].link = t.e
    BY <1>0, <1>9, TxnFields DEF VoidJournal, At, DaybookHeld
  <2>2. t.e \in JournalIds /\ entry[t.e].status \in {"pending", "approved"}
    BY <1>9, <2>1, TxnFields DEF VoidJournal, At, DaybookLinked, Linked
  <2>3. /\ daybook' = [daybook EXCEPT ![t.d] = [status |-> "void", link |-> None]]
        /\ entry'[t.e] = Deleted /\ \A f \in JournalIds \ {t.e} : entry'[f] = entry[f]
    BY <1>0, <1>9, <2>2 DEF VoidJournal, EntriesType, Unposted
  <2>4. QED
    BY <2>1, <2>2, <2>3, DaybookVoid
<1>10. CASE PostLock(r) \/ ReverseLock(r) \/ TakeNumber(r) \/ QuickPolicy(r) \/ QuickValidate(r)
  <2>1. entry' = entry /\ daybook' = daybook
    BY <1>10 DEF PostLock, ReverseLock, TakeNumber, QuickPolicy, QuickValidate, rows
  <2>2. QED
    BY <2>1, DaybookFrame DEF OfDaybook, Exists
<1>11. QED
  BY <1>2, <1>3, <1>4, <1>5, <1>6, <1>7, <1>8, <1>9, <1>10 DEF Advance

\* What a request changes of the daybook rows others hold: nothing.
LEMMA DaybookWritesOwn ==
  ASSUME TypeOK, DaybookLinked, NEW r \in Requests, NEW q \in Requests, q # r,
         Start(r) \/ Advance(r) \/ Refuse(r) \/ DeadlockVictim(r) \/ Fail(r)
  PROVE  \A d \in DaybookIds : daybookLock[d] = q /\ daybook[d].status = "pending" =>
           daybookLock'[d] = q /\ daybook'[d] = daybook[d]
<1> DEFINE t == txn[r]
<1> SUFFICES ASSUME NEW d \in DaybookIds, daybookLock[d] = q, daybook[d].status = "pending"
             PROVE  daybookLock'[d] = q /\ daybook'[d] = daybook[d]
  OBVIOUS
<1>0. /\ q # NoOne /\ daybook[d] # NoDaybook
      /\ daybook \in [DaybookIds -> DaybookType \cup {NoDaybook}]
      /\ daybookLock \in [DaybookIds -> Requests \cup {NoOne}]
  BY NoOneAssumption DEF TypeOK, NoDaybook
<1>1. daybookLock'[d] = q
  <2>1. CASE End(r)
    BY <1>0, <2>1 DEF End
  <2>2. CASE Start(r)
    BY <1>0, <2>2 DEF Start, CreateValidate, RecordValidate, QuickRead, EditLock, LockEntry, DeleteRead,
       TransitionRead, PostRead, ReverseRead, DaybookEditLock, VoidLock, LockDaybook, locks
  <2>3. CASE PostLock(r) \/ ReverseLock(r) \/ TakeNumber(r) \/ QuickPolicy(r) \/ QuickValidate(r)
    BY <2>3 DEF PostLock, ReverseLock, TakeNumber, QuickPolicy, QuickValidate, locks
  <2>4. QED
    BY <2>1, <2>2, <2>3 DEF Advance, Refuse, DeadlockVictim, Fail, CreateCommit, EditCommit,
         DeleteApply, Submit, Approve, PostFinish, ReverseFinish, RecordCommit, QuickFinish,
         DaybookEditJournal, VoidJournal
<1>2. daybook'[d] = daybook[d]
  <2>1. CASE RecordCommit(r) \/ QuickFinish(r)
    BY <1>0, <2>1 DEF RecordCommit, QuickFinish, InsertDaybook, FreshDaybook
  <2>2. CASE PostFinish(r) \/ ReverseFinish(r)
    <3>1. daybook[d].link # t.e
      BY <1>0, <2>2 DEF PostFinish, ReverseFinish, DaybookFree
    <3>2. QED
      BY <1>0, <2>2, <3>1 DEF PostFinish, ReverseFinish, MarkDaybook
  <2>3. CASE VoidJournal(r)
    <3>1. daybookLock[t.d] = r
      BY <2>3 DEF VoidJournal, At, DaybookLinked, DaybookHeld
    <3>2. QED
      BY <1>0, <2>3, <3>1 DEF VoidJournal
  <2>4. CASE ~(RecordCommit(r) \/ QuickFinish(r) \/ PostFinish(r) \/ ReverseFinish(r) \/ VoidJournal(r))
    BY <2>4, ReadOnly DEF Advance, CreateCommit, EditCommit, DeleteApply, Submit, Approve,
       PostLock, ReverseLock, TakeNumber, QuickPolicy, QuickValidate, DaybookEditJournal, rows
  <2>5. QED
    BY <2>1, <2>2, <2>3, <2>4
<1>3. QED
  BY <1>1, <1>2

\* An entry made by hand never becomes another, and a deleted one stays deleted.
LEMMA OriginKept ==
  ASSUME TypeOK, LocksProtect, [Next]_vars, NEW e \in JournalIds,
         entry[e] = Deleted \/ (Exists(e) /\ entry[e].source = "manual")
  PROVE  entry'[e] = Deleted \/ (Exists(e)' /\ entry'[e].source = "manual")
<1>1. CASE entry'[e] = entry[e]
  BY <1>1 DEF Exists
<1>2. ASSUME NEW r \in Requests, EntryChange(r, e)
      PROVE  entry'[e] = Deleted \/ (Exists(e)' /\ entry'[e].source = "manual")
  <2>0. entry[e] # Absent
    BY DEF Absent, Deleted, Exists, Unposted, Posted
  <2>1. ~Drafted(r, e) /\ ~QuickPosted(r, e) /\ \A v \in JournalIds : ~ReversedNow(r, v, e)
    BY <2>0 DEF Drafted, QuickPosted, ReversedNow
  <2>2. CASE OnItsWay(r, e)
    <3>1. entry[e].source = "manual"
      BY <2>2 DEF OnItsWay, Deleted
    <3>2. entry'[e].status \in Unposted /\ entry'[e].source = entry[e].source
      BY <2>2, StillOnItsWay
    <3>3. QED
      BY <3>1, <3>2 DEF Exists
  <2>3. CASE Removed(r, e)
    BY <2>3 DEF Removed
  <2>4. CASE PostedNow(r, e)
    BY <2>4 DEF PostedNow, EntryType, Deleted, Exists, Unposted, Posted
  <2>5. ASSUME NEW v \in JournalIds, ReversedNow(r, e, v)
        PROVE  Exists(e)' /\ entry'[e].source = "manual"
    BY <2>5 DEF ReversedNow, EntryType, Deleted, Exists, Posted
  <2>6. QED
    BY <1>2, <2>1, <2>2, <2>3, <2>4, <2>5 DEF EntryChange
<1>3. QED
  BY <1>1, <1>2, EntryChanges, OtherSteps

\* What a request relies on about its daybook row is still so after a step.
LEMMA DaybookRequests ==
  ASSUME TypeOK, LocksProtect, DaybookLinked, [Next]_vars, NEW q \in Requests
  PROVE  DaybookHeld(q)'
<1> DEFINE t == txn[q]
<1>0. DaybookHeld(q)
  BY DEF DaybookLinked
<1>1. CASE ~(Start(q) \/ Advance(q) \/ Refuse(q) \/ DeadlockVictim(q) \/ Fail(q))
  <2>1. txn'[q] = t
    BY <1>1, Others
  <2>2. ASSUME t.op \in {"daybookEdit", "void"}
        PROVE  daybookLock'[t.d] = q /\ daybook'[t.d] = daybook[t.d]
    <3>1. t.d \in DaybookIds /\ daybookLock[t.d] = q /\ daybook[t.d].status = "pending"
      BY <1>0, <2>2, TxnFields DEF DaybookHeld
    <3>2. ASSUME NEW r \in Requests, r # q,
                 Start(r) \/ Advance(r) \/ Refuse(r) \/ DeadlockVictim(r) \/ Fail(r)
          PROVE  daybookLock'[t.d] = q /\ daybook'[t.d] = daybook[t.d]
      BY <3>1, <3>2, DaybookWritesOwn
    <3>3. CASE \/ \E p \in Policies : UpdateSettings(p)
               \/ \E a \in Switchable : UpdateAccount(a)
               \/ UNCHANGED vars
      BY <3>1, <3>3 DEF UpdateSettings, UpdateAccount, vars, rows, locks
    <3>4. QED
      BY <1>1, <3>2, <3>3 DEF Next
  <2>3. ASSUME t.op = "delete"
        PROVE  entry'[t.e] = Deleted \/ (Exists(t.e)' /\ entry'[t.e].source = "manual")
    <3>1. PICK e \in JournalIds : e = t.e
      BY <2>3, TxnFields
    <3>2. entry'[e] = Deleted \/ (Exists(e)' /\ entry'[e].source = "manual")
      BY <1>0, <2>3, <3>1, OriginKept DEF DaybookHeld
    <3>3. QED
      BY <2>1, <3>1, <3>2 DEF Exists
  <2>4. QED
    BY <1>0, <2>1, <2>2, <2>3 DEF DaybookHeld, Exists
<1>2. CASE Start(q)
  <2>0. txn \in [Requests -> TxnType] /\ txn[q] = Idle /\ entry' = entry /\ daybook' = daybook
        /\ daybookLock \in [DaybookIds -> Requests \cup {NoOne}]
    BY <1>2, ReadOnly DEF TypeOK, Start, CreateValidate, RecordValidate, QuickRead, EditLock, DeleteRead,
       TransitionRead, PostRead, ReverseRead, DaybookEditLock, VoidLock, Begin
  <2>1. ASSUME NEW e \in JournalIds, DeleteRead(q, e) PROVE DaybookHeld(q)'
    BY <2>0, <2>1 DEF DeleteRead, Begin, DaybookHeld, Editable, Exists
  <2>2. ASSUME NEW d \in DaybookIds, NEW date \in Dates, NEW l \in LineChoices,
               DaybookEditLock(q, d, date, l)
        PROVE  DaybookHeld(q)'
    BY <2>0, <2>2 DEF DaybookEditLock, LockDaybook, Begin, DaybookHeld
  <2>3. ASSUME NEW d \in DaybookIds, VoidLock(q, d) PROVE DaybookHeld(q)'
    BY <2>0, <2>3 DEF VoidLock, LockDaybook, Begin, DaybookHeld
  <2>4. CASE txn'[q].op \notin {"daybookEdit", "void", "delete"}
    BY <2>4 DEF DaybookHeld
  <2>5. \/ txn'[q].op \notin {"daybookEdit", "void", "delete"}
        \/ \E e \in JournalIds : DeleteRead(q, e)
        \/ \E d \in DaybookIds, date \in Dates, l \in LineChoices : DaybookEditLock(q, d, date, l)
        \/ \E d \in DaybookIds : VoidLock(q, d)
    BY <1>2, <2>0 DEF Start, CreateValidate, RecordValidate, QuickRead, EditLock, TransitionRead,
       PostRead, ReverseRead, Begin
  <2>6. QED
    BY <2>1, <2>2, <2>3, <2>4, <2>5
<1>3. CASE txn'[q] = Idle
  BY <1>3 DEF DaybookHeld, Idle
<1>4. CASE Moves(q)
  <2>1. t \in PostTxn \cup ReverseTxn \cup QuickTxn
    BY <1>4, TxnShape DEF Moves
  <2>2. QED
    BY <1>4, <2>1 DEF DaybookHeld, Moves, PostTxn, ReverseTxn, QuickTxn
<1>5. QED
  BY <1>1, <1>2, <1>3, <1>4, TxnChanges

\* A daybook row and its journal entry tell the same story, whichever of post,
\* reverse, void, approval and the edits of either ran last and in whatever
\* order their locks were granted (daybook.service.ts, post and reverse).
THEOREM DaybookCorrect == Spec => []DaybookAgrees
<1>1. Init => DaybookLinked
  BY DEF Init, DaybookLinked, Linked, Owned, OfDaybook, DaybookHeld, NoDaybook, Exists, Absent, Idle,
     Unposted, Posted
<1>2. TypeOK /\ LocksProtect /\ DaybookLinked /\ [Next]_vars => DaybookLinked'
  <2> SUFFICES ASSUME TypeOK, LocksProtect, DaybookLinked, [Next]_vars
               PROVE  (\A d \in DaybookIds : Linked(d)') /\ (\A e \in JournalIds : Owned(e)')
    BY DaybookRequests DEF DaybookLinked
  <2>1. CASE \E r \in Requests : Advance(r)
    BY <2>1, DaybookRows
  <2>2. CASE ~\E r \in Requests : Advance(r)
    BY <2>2, OtherSteps, DaybookFrame DEF OfDaybook, Exists
  <2>3. QED
    BY <2>1, <2>2
<1>3. TypeOK /\ DaybookLinked => DaybookAgrees
  <2> SUFFICES ASSUME TypeOK, DaybookLinked PROVE DaybookAgrees
    OBVIOUS
  <2>1. ASSUME NEW d \in DaybookIds
        PROVE  /\ daybook[d].status = "pending" =>
                    /\ daybook[d].link # None
                    /\ entry[daybook[d].link].status \in {"pending", "approved"}
               /\ daybook[d].status = "posted" =>
                    daybook[d].link # None /\ entry[daybook[d].link].status = "posted"
               /\ daybook[d].status = "void" /\ daybook[d].link # None =>
                    entry[daybook[d].link].status = "reversed"
    BY DEF DaybookLinked, Linked
  <2>2. ASSUME NEW e \in JournalIds, Exists(e), entry[e].source = "daybook"
        PROVE  Cardinality({d \in DaybookIds : daybook[d].link = e}) = 1
    <3>1. PICK d \in DaybookIds : daybook[d].link = e
      BY <2>2 DEF DaybookLinked, Owned, OfDaybook
    <3>2. {c \in DaybookIds : daybook[c].link = e} = {d}
      BY <3>1, BoundsAssumption DEF DaybookLinked, Linked
    <3>3. QED
      BY <3>2, FS_Singleton
  <2>3. QED
    BY <2>1, <2>2 DEF DaybookAgrees
<1>4. QED
  BY <1>1, <1>2, <1>3, LockingCorrect, PTL DEF Spec
=============================================================================
