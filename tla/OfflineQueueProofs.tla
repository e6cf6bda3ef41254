------------------------- MODULE OfflineQueueProofs -------------------------
(* Proofs about the idempotency interceptor and the offline queue: whatever  *)
(* the tabs of a user send and send again, a key is executed once.           *)
EXTENDS OfflineQueue, FiniteSetTheorems, TLAPS

\* The request has claimed the key and not given it back or stored its answer.
Owns(r, k) == req[r].at \in {"running", "handled", "failed"} /\ req[r].key = k

\* Why it holds: a key that was not given up has one owner at most, has a row
\* while it has an owner, and keeps the row once its handler has committed.
OneOwner(k)  == \A r, s \in Requests : Owns(r, k) /\ Owns(s, k) => r = s
Claimed(k)   == \A r \in Requests : Owns(r, k) => table[k] # Absent
Executed(k)  == rows[k] = 1 => table[k] # Absent /\ \A r \in Requests : Owns(r, k) => req[r].at = "handled"
KeyInv(k)    == OneOwner(k) /\ Claimed(k) /\ rows[k] \in {0, 1} /\ Executed(k)

ServerTypes ==
  /\ req \in [Requests -> Request]
  /\ table \in [Keys -> KeyRow]
  /\ rows \in [Keys -> Nat]
  /\ givenUp \subseteq Keys

ServerInv == ServerTypes /\ \A k \in Keys \ givenUp : KeyInv(k)

LEMMA ServerInitially == ServerInit => ServerInv
  BY DEF ServerInit, ServerInv, ServerTypes, KeyInv, OneOwner, Claimed, Executed, Owns, Request, Free, KeyRow, Absent

\* A step of one request, with what it may do to the row of its key.
LEMMA TypesKept ==
  ASSUME ServerTypes, ServerNext
  PROVE  ServerTypes'
  <1> USE DEF ServerTypes, Request, KeyRow, Free, Absent, Answers, InServer, Goes, SetKey, Executes, GiveUp, KeyOf, Fault
  <1>1. ASSUME NEW r \in Requests, NEW k \in Keys, NEW b \in Bodies, Send(r, k, b) PROVE ServerTypes'
    BY <1>1 DEF Send
  <1>2. ASSUME NEW r \in Requests, Receive(r) \/ Lose(r) \/ Refuse(r) \/ Lookup(r) \/ Reject(r) PROVE ServerTypes'
    BY <1>2 DEF Receive, Lose, Refuse, Lookup, Reject
  <1>3. ASSUME NEW r \in Requests, Claim(r) \/ Store(r) \/ Release(r) PROVE ServerTypes'
    BY <1>3 DEF Claim, Store, Release
  <1>4. ASSUME NEW r \in Requests, Commit(r) \/ FailLate(r) \/ StoreFails(r) PROVE ServerTypes'
    BY <1>4 DEF Commit, FailLate, StoreFails
  <1>5. CASE ServerStops
    BY <1>5 DEF ServerStops
  <1>6. ASSUME NEW k \in Keys, Purge(k) PROVE ServerTypes'
    BY <1>6 DEF Purge
  <1>7. QED
    BY <1>1, <1>2, <1>3, <1>4, <1>5, <1>6 DEF ServerNext, Process, Breaks

LEMMA ServerStep ==
  ASSUME ServerInv, ServerNext
  PROVE  ServerInv'
  <1>1. ServerTypes /\ ServerTypes'
    BY TypesKept DEF ServerInv
  <1> SUFFICES ASSUME NEW k \in Keys \ givenUp' PROVE KeyInv(k)'
    BY <1>1 DEF ServerInv
  <1>2. givenUp \subseteq givenUp'
    BY DEF ServerNext, Process, Breaks, Send, Receive, Lose, Claim, Refuse, Lookup, Commit, Reject, Store, Release,
           FailLate, StoreFails, ServerStops, Purge, GiveUp
  <1>3. KeyInv(k) /\ k \in Keys
    BY <1>2 DEF ServerInv
  <1> USE <1>1, <1>3 DEF ServerTypes, KeyInv, OneOwner, Claimed, Executed, Owns, Request, KeyRow, Free, Absent, Answers, InServer,
                         Goes, SetKey, Executes, GiveUp, KeyOf
  <1>4. ASSUME NEW r \in Requests, NEW j \in Keys, NEW b \in Bodies, Send(r, j, b) PROVE KeyInv(k)'
    BY <1>4 DEF Send
  <1>5. ASSUME NEW r \in Requests, Receive(r) PROVE KeyInv(k)'
    BY <1>5 DEF Receive
  <1>6. ASSUME NEW r \in Requests, Lose(r) \/ Refuse(r) \/ Lookup(r) \/ Reject(r) PROVE KeyInv(k)'
    BY <1>6 DEF Lose, Refuse, Lookup, Reject
  <1>7. ASSUME NEW r \in Requests, Claim(r) PROVE KeyInv(k)'
    BY <1>7 DEF Claim
  <1>8. ASSUME NEW r \in Requests, Store(r) PROVE KeyInv(k)'
    BY <1>8 DEF Store
  <1>9. ASSUME NEW r \in Requests, Release(r) PROVE KeyInv(k)'
    BY <1>9 DEF Release
  <1>10. ASSUME NEW r \in Requests, Commit(r) PROVE KeyInv(k)'
    BY <1>10 DEF Commit
  <1>11. ASSUME NEW r \in Requests, FailLate(r) PROVE KeyInv(k)'
    BY <1>11 DEF FailLate
  <1>12. ASSUME NEW r \in Requests, StoreFails(r) PROVE KeyInv(k)'
    BY <1>12 DEF StoreFails
  <1>13. CASE ServerStops
    BY <1>13 DEF ServerStops
  <1>14. ASSUME NEW j \in Keys, Purge(j) PROVE KeyInv(k)'
    BY <1>14 DEF Purge
  <1>15. QED
    BY <1>4, <1>5, <1>6, <1>7, <1>8, <1>9, <1>10, <1>11, <1>12, <1>13, <1>14 DEF ServerNext, Process, Breaks

LEMMA ServerIdle ==
  ASSUME ServerInv, UNCHANGED <<req, table, rows, givenUp>>
  PROVE  ServerInv'
  BY DEF ServerInv, ServerTypes, KeyInv, OneOwner, Claimed, Executed, Owns

LEMMA OnceByInv == ServerInv => ExecutedOnce
  BY DEF ServerInv, ServerTypes, KeyInv, ExecutedOnce

-----------------------------------------------------------------------------
(* The queue in front of it *)

QueueInv == ServerInv /\ session \in Tenants

LEMMA ReceiveAny ==
  ASSUME ServerTypes, NEW r, Receive(r)
  PROVE  ServerNext \/ UNCHANGED <<req, table, rows, givenUp>>
  <1>1. CASE r \in Requests
    BY <1>1 DEF ServerNext
  <1>2. CASE r \notin Requests
    BY <1>2 DEF Receive, ServerTypes
  <1>3. QED
    BY <1>1, <1>2

Served == ServerNext \/ UNCHANGED <<req, table, rows, givenUp>>

\* Every step of the tabs is a step of the server, or leaves its rows alone.
LEMMA StepsOfServer ==
  ASSUME ServerTypes, session \in Tenants, [Next]_vars
  PROVE  Served /\ session' \in Tenants
  <1> USE OpsAssumption DEF Unserved, server, Unshared, Served
  <1>1. BodyOf \in Bodies
    BY DEF BodyOf
  <1>2. ASSUME NEW t \in Tabs, NEW c \in Creates, Submit(t, c) PROVE Served /\ session' \in Tenants
    BY <1>1, <1>2 DEF Submit, ServerNext
  <1>3. ASSUME NEW t \in Tabs, SendNext(t) PROVE Served /\ session' \in Tenants
    BY <1>1, <1>3 DEF SendNext, ServerNext
  <1>4. ASSUME NEW r \in Requests, Serve(r) \/ Unheard(r) PROVE Served /\ session' \in Tenants
    BY <1>4 DEF Serve, Unheard, ServerNext
  <1>5. CASE ServerFails
    BY <1>5 DEF ServerFails, ServerNext
  <1>6. ASSUME NEW t \in Tabs, FormAnswered(t) \/ Settle(t) PROVE Served /\ session' \in Tenants
    BY <1>6, ReceiveAny DEF FormAnswered, Settle
  <1>7. ASSUME NEW t \in Tabs, NEW e \in Edits, EditOffline(t, e) \/ EditBreaks(t, e) PROVE Served /\ session' \in Tenants
    BY <1>7 DEF EditOffline, EditBreaks
  <1>8. ASSUME NEW t \in Tabs, FormBreaks(t) \/ Enqueue(t) \/ Recover(t) \/ SyncNow(t) \/ Snapshot(t) \/ Finish(t)
        PROVE  Served /\ session' \in Tenants
    BY <1>8 DEF FormBreaks, Enqueue, Recover, SyncNow, Snapshot, Finish
  <1>9. ASSUME NEW t \in Tabs, ServeUpdate(t) \/ SettleUpdate(t) \/ ClashRecorded(t) \/ Break(t) \/ Reload(t)
        PROVE  Served /\ session' \in Tenants
    BY <1>9 DEF ServeUpdate, SettleUpdate, ClashRecorded, Break, Reload
  <1>10. ASSUME NEW t \in Tabs, NEW n \in Tenants, SwitchWorkspace(t, n) PROVE Served /\ session' \in Tenants
    BY <1>10 DEF SwitchWorkspace
  <1>11. ASSUME NEW o \in Ops, DiscardOp(o) \/ \E t \in Tabs : RetryOp(t, o) PROVE Served /\ session' \in Tenants
    BY <1>11 DEF DiscardOp, RetryOp
  <1>12. ASSUME NEW o \in Updates, KeepServer(o) \/ ReadLatest(o) PROVE Served /\ session' \in Tenants
    BY <1>12 DEF KeepServer, ReadLatest
  <1>13. CASE PutEdit \/ ApplyMineAgain \/ OtherWrites
    BY <1>13 DEF PutEdit, ApplyMineAgain, OtherWrites
  <1>14. CASE UNCHANGED vars
    BY <1>14 DEF vars
  <1>15. QED
    BY <1>2, <1>3, <1>4, <1>5, <1>6, <1>7, <1>8, <1>9, <1>10, <1>11, <1>12, <1>13, <1>14 DEF Next

LEMMA QueueInitially == Init => QueueInv
  BY ServerInitially, OpsAssumption DEF Init, QueueInv

LEMMA QueueStep == QueueInv /\ [Next]_vars => QueueInv'
  <1> SUFFICES ASSUME QueueInv, [Next]_vars PROVE QueueInv'
    OBVIOUS
  <1>1. ServerInv /\ session \in Tenants
    BY DEF QueueInv
  <1>2. Served /\ session' \in Tenants
    BY <1>1, StepsOfServer DEF ServerInv
  <1>3. ServerInv'
    BY <1>1, <1>2, ServerStep, ServerIdle DEF Served
  <1>4. QED
    BY <1>2, <1>3 DEF QueueInv

\* Behind any number of tabs that queue, replay and retry, over lost answers,
\* stops of the API and changes of workspace, the handler of a key commits
\* once, unless the key was given up behind a commit, or expired.
THEOREM Once == Spec => []ExecutedOnce
  <1>1. Spec => []QueueInv
    BY QueueInitially, QueueStep, PTL DEF Spec
  <1>2. QueueInv => ExecutedOnce
    BY OnceByInv DEF QueueInv
  <1>3. QED
    BY <1>1, <1>2, PTL

\* The same of the interceptor by itself, for clients that send whatever they like.
THEOREM OnceAlone == ServerSpec => []ExecutedOnce
  <1>1. ServerInv /\ [ServerNext]_server => ServerInv'
    BY ServerStep, ServerIdle DEF server
  <1>2. ServerSpec => []ServerInv
    BY ServerInitially, <1>1, PTL DEF ServerSpec
  <1>3. QED
    BY <1>2, OnceByInv, PTL

-----------------------------------------------------------------------------
(* The types, and what a tab waits for *)

\* What a tab has under way: the request it waits for carries the creation it is
\* at, a PATCH is for an edit, and the form knows its creation.
Wired(q) ==
  /\ q.wait # NoOne => /\ q.step = "sent" /\ q.patching = "none"
                       /\ q.todo # << >> /\ Head(q.todo) \in Creates
                       /\ req[q.wait] # Free /\ req[q.wait].key[2] = Head(q.todo)
  /\ q.patching # "none" => q.step = "sent" /\ q.todo # << >> /\ Head(q.todo) \in Updates
  /\ q.step = "clash" => q.todo # << >> /\ Head(q.todo) \in Updates
  /\ q.form = "asked" <=> q.formReq # NoOne
  /\ q.form # "none" => q.formOp \in Creates
  /\ q.formReq # NoOne => req[q.formReq] # Free

\* The requests a tab waits for, and that no two tabs wait for the same.
WaitsFor(q) == {q.wait, q.formReq} \ {NoOne}
Apart ==
  /\ \A t \in Tabs : tab[t].wait = tab[t].formReq => tab[t].wait = NoOne
  /\ \A t, u \in Tabs : t # u => WaitsFor(tab[t]) \cap WaitsFor(tab[u]) = {}

TabsInv == (\A t \in Tabs : Wired(tab[t])) /\ Apart

\* The record of a tab keeps its type when fields of it are written.
LEMMA TabFields ==
  ASSUME NEW q \in Tab
  PROVE  /\ \A c \in Creates : [q EXCEPT !.form = "queueing", !.formOp = c] \in Tab
         /\ \A c \in Creates, r \in Requests : [q EXCEPT !.form = "asked", !.formOp = c, !.formReq = r] \in Tab
         /\ [q EXCEPT !.offline = TRUE, !.form = "queueing", !.formReq = NoOne] \in Tab
         /\ [q EXCEPT !.form = "none", !.formOp = NoOne, !.formReq = NoOne] \in Tab
         /\ [q EXCEPT !.form = "none", !.formOp = NoOne] \in Tab
         /\ [q EXCEPT !.offline = TRUE] \in Tab
         /\ \A s \in {"idle", "starting", q.step} : [q EXCEPT !.offline = FALSE, !.step = s] \in Tab
         /\ \A s \in {"idle", "starting", q.step} : [q EXCEPT !.step = s] \in Tab
<1>1. ASSUME NEW c \in Creates
      PROVE  [q EXCEPT !.form = "queueing", !.formOp = c] \in Tab
  BY <1>1 DEF Tab
<1>2. ASSUME NEW c \in Creates, NEW r \in Requests
      PROVE  [q EXCEPT !.form = "asked", !.formOp = c, !.formReq = r] \in Tab
  BY <1>2 DEF Tab
<1>3. [q EXCEPT !.offline = TRUE, !.form = "queueing", !.formReq = NoOne] \in Tab
  BY DEF Tab
<1>4. [q EXCEPT !.form = "none", !.formOp = NoOne, !.formReq = NoOne] \in Tab
  BY DEF Tab
<1>5. [q EXCEPT !.form = "none", !.formOp = NoOne] \in Tab
  BY DEF Tab
<1>6. [q EXCEPT !.offline = TRUE] \in Tab
  BY DEF Tab
<1>7. ASSUME NEW s \in {"idle", "starting", q.step}
      PROVE  [q EXCEPT !.offline = FALSE, !.step = s] \in Tab
  BY <1>7 DEF Tab
<1>8. ASSUME NEW s \in {"idle", "starting", q.step}
      PROVE  [q EXCEPT !.step = s] \in Tab
  BY <1>8 DEF Tab
<1>9. QED
  BY <1>1, <1>2, <1>3, <1>4, <1>5, <1>6, <1>7, <1>8

\* So it does through a replay.
LEMMA ReplayFields ==
  ASSUME NEW q \in Tab
  PROVE  /\ \A r \in Requests : [q EXCEPT !.step = "sent", !.wait = r] \in Tab
         /\ [q EXCEPT !.step = "sent", !.patching = "sent"] \in Tab
         /\ \A p \in {"ok", "conflict", "rejected"} : [q EXCEPT !.patching = p] \in Tab
         /\ [q EXCEPT !.step = "clash", !.patching = "none"] \in Tab
         /\ \A s \in Seq(Ops) : [q EXCEPT !.step = "next", !.todo = s, !.wait = NoOne, !.patching = "none"] \in Tab
         /\ [q EXCEPT !.offline = TRUE, !.step = "idle", !.todo = << >>, !.wait = NoOne, !.patching = "none"] \in Tab
         /\ \A f \in [Updates -> (SUBSET Edits) \X Nat] : [q EXCEPT !.offline = FALSE, !.step = "idle", !.snap = f] \in Tab
         /\ \A f \in [Updates -> (SUBSET Edits) \X Nat], s \in Seq(Ops) : [q EXCEPT !.offline = FALSE, !.step = "next", !.todo = s, !.snap = f] \in Tab
         /\ \A n \in Tenants : [q EXCEPT !.scope = n] \in Tab
<1>1. ASSUME NEW r \in Requests
      PROVE  [q EXCEPT !.step = "sent", !.wait = r] \in Tab
  BY <1>1 DEF Tab
<1>2. [q EXCEPT !.step = "sent", !.patching = "sent"] \in Tab
  BY DEF Tab
<1>3. ASSUME NEW p \in {"ok", "conflict", "rejected"}
      PROVE  [q EXCEPT !.patching = p] \in Tab
  BY <1>3 DEF Tab
<1>4. [q EXCEPT !.step = "clash", !.patching = "none"] \in Tab
  BY DEF Tab
<1>5. ASSUME NEW s \in Seq(Ops)
      PROVE  [q EXCEPT !.step = "next", !.todo = s, !.wait = NoOne, !.patching = "none"] \in Tab
  <2> DEFINE p == [q EXCEPT !.step = "next", !.todo = s]
  <2>1. p \in Tab
    BY <1>5, q \in Tab DEF Tab
  <2> HIDE DEF p
  <2>2. [p EXCEPT !.wait = NoOne, !.patching = "none"] \in Tab
    BY <2>1 DEF Tab
  <2>3. QED
    BY <2>2 DEF p
<1>6. [q EXCEPT !.offline = TRUE, !.step = "idle", !.todo = << >>, !.wait = NoOne, !.patching = "none"] \in Tab
  <2>0. << >> \in Seq(Ops)
    OBVIOUS
  <2>1. PICK s \in Seq(Ops) : s = << >>
    BY <2>0, Zenon
  <2> DEFINE p == [q EXCEPT !.offline = TRUE, !.step = "idle", !.todo = s]
  <2>2. p \in Tab
    BY q \in Tab DEF Tab
  <2> HIDE DEF p
  <2>3. [p EXCEPT !.wait = NoOne, !.patching = "none"] \in Tab
    BY <2>2 DEF Tab
  <2>4. QED
    BY <2>1, <2>3 DEF p
<1>7. ASSUME NEW f \in [Updates -> (SUBSET Edits) \X Nat]
      PROVE  [q EXCEPT !.offline = FALSE, !.step = "idle", !.snap = f] \in Tab
  BY <1>7 DEF Tab
<1>8. ASSUME NEW f \in [Updates -> (SUBSET Edits) \X Nat], NEW s \in Seq(Ops)
      PROVE  [q EXCEPT !.offline = FALSE, !.step = "next", !.todo = s, !.snap = f] \in Tab
  BY <1>8 DEF Tab
<1>9. ASSUME NEW n \in Tenants
      PROVE  [q EXCEPT !.scope = n] \in Tab
  BY <1>9 DEF Tab
<1>10. QED
  BY <1>1, <1>2, <1>3, <1>4, <1>5, <1>6, <1>7, <1>8, <1>9

LEMMA LoadedType ==
  ASSUME NEW n \in Tenants
  PROVE  Loaded(n) \in Tab /\ [Loaded(n) EXCEPT !.step = "closed"] \in Tab
<1>1. << >> \in Seq(Ops) /\ [o \in Updates |-> <<{}, 0>>] \in [Updates -> (SUBSET Edits) \X Nat]
  OBVIOUS
<1>2. QED
  BY <1>1 DEF Loaded, Tab

\* The operations of a replay are operations.
LEMMA OrderType ==
  ASSUME NEW S \in SUBSET Ops, NEW s \in InOrder(S)
  PROVE  s \in Seq(Ops) /\ Range(s) \subseteq S
<1>1. IsFiniteSet(S)
  BY OpsAssumption, FS_Subset
<1>2. Cardinality(S) \in Nat
  BY <1>1, FS_CardinalityType
<1>3. s \in [1..Cardinality(S) -> S]
  BY DEF InOrder, SetToSeqs
<1>4. s \in Seq(S)
  BY <1>2, <1>3
<1>5. \A x \in Range(s) : x \in S
  BY <1>3 DEF Range
<1>6. s \in Seq(Ops)
  BY <1>3, <1>2
<1>7. QED
  BY <1>5, <1>6

\* What comes next in a replay was in it.
LEMMA TailType ==
  ASSUME NEW s \in Seq(Ops), s # << >>
  PROVE  Head(s) \in Ops /\ Head(s) \in Range(s) /\ Tail(s) \in Seq(Ops) /\ Range(Tail(s)) \subseteq Range(s)
<1>1. Len(s) \in Nat /\ Len(s) # 0 /\ DOMAIN s = 1..Len(s) /\ Head(s) = s[1]
  OBVIOUS
<1>2. Tail(s) \in Seq(Ops) /\ Len(Tail(s)) = Len(s) - 1 /\ DOMAIN Tail(s) = 1..Len(Tail(s))
  OBVIOUS
<1>3. \A i \in 1..Len(Tail(s)) : Tail(s)[i] = s[i + 1] /\ i + 1 \in 1..Len(s)
  BY <1>1, <1>2
<1>4. Range(Tail(s)) \subseteq Range(s)
  BY <1>1, <1>2, <1>3 DEF Range
<1>5. Head(s) \in Range(s)
  BY <1>1 DEF Range
<1>6. QED
  BY <1>1, <1>2, <1>4, <1>5

\* A request that is under way stays so, with the key it was sent with.
Still(r) == req[r] # Free => req'[r] # Free /\ req'[r].key = req[r].key

LEMMA SendStill ==
  ASSUME ServerTypes, NEW s \in Requests, NEW k \in Keys, NEW b \in Bodies, Send(s, k, b)
  PROVE  /\ \A r \in Requests : Still(r)
         /\ req[s] = Free /\ req'[s] # Free /\ req'[s].key = k
<1>1. req[s] = Free /\ req' = [req EXCEPT ![s] = [at |-> "sent", key |-> k, body |-> b]] /\ req \in [Requests -> Request]
  BY DEF Send, ServerTypes
<1>2. \A r \in Requests \ {s} : req'[r] = req[r]
  BY <1>1
<1>3. req'[s] = [at |-> "sent", key |-> k, body |-> b]
  BY <1>1
<1>4. req'[s] # Free /\ req'[s].key = k
  BY <1>3 DEF Free
<1>5. QED
  BY <1>1, <1>2, <1>4 DEF Still

LEMMA ReceiveStill ==
  ASSUME ServerTypes, NEW s \in Requests, Receive(s)
  PROVE  \A r \in Requests \ {s} : Still(r)
  BY DEF Receive, ServerTypes, Still

LEMMA GoesStill ==
  ASSUME ServerTypes, NEW s \in Requests, NEW at, req[s].at \in {"sent"} \cup InServer, Goes(s, at), at # "free"
  PROVE  \A r \in Requests : Still(r)
<1>1. req' = [req EXCEPT ![s].at = at] /\ req \in [Requests -> Request] /\ req[s] # Free
  BY DEF Goes, ServerTypes, Free, InServer
<1>2. req[s] \in [at : {"sent"} \cup InServer \cup Answers, key : Keys, body : Bodies]
  BY <1>1 DEF Request
<1>3. req'[s].key = req[s].key /\ req'[s].at = at
  BY <1>1, <1>2
<1>4. \A r \in Requests \ {s} : req'[r] = req[r]
  BY <1>1
<1>5. QED
  BY <1>3, <1>4 DEF Still, Free

LEMMA ServeStill ==
  ASSUME ServerTypes, NEW s \in Requests, Process(s) \/ Breaks(s) \/ Lose(s)
  PROVE  \A r \in Requests : Still(r)
<1>1. PICK at \in {"lost", "running", "refused", "ok", "rejected", "handled", "failed"} : Goes(s, at)
  BY DEF Process, Breaks, Lose, Claim, Refuse, Lookup, Commit, Reject, Store, Release, FailLate, StoreFails
<1>2. req[s].at \in {"sent"} \cup InServer
  BY DEF Process, Breaks, Lose, Claim, Refuse, Lookup, Commit, Reject, Store, Release, FailLate, StoreFails, InServer
<1>3. QED
  BY <1>1, <1>2, GoesStill

LEMMA FailsStill ==
  ASSUME ServerTypes, ServerStops \/ \E k \in Keys : Purge(k)
  PROVE  \A r \in Requests : Still(r)
<1>1. CASE ServerStops
  <2> SUFFICES ASSUME NEW r \in Requests, req[r] # Free PROVE req'[r] # Free /\ req'[r].key = req[r].key
    BY DEF Still
  <2>1. req'[r] = IF req[r].at \in InServer THEN [req[r] EXCEPT !.at = "lost"] ELSE req[r]
    BY <1>1 DEF ServerStops
  <2>2. req[r] \in [at : {"sent"} \cup InServer \cup Answers, key : Keys, body : Bodies]
    BY DEF ServerTypes, Request
  <2>3. QED
    BY <2>1, <2>2 DEF Free
<1>2. CASE \E k \in Keys : Purge(k)
  BY <1>2 DEF Purge, Still
<1>3. QED
  BY <1>1, <1>2

-----------------------------------------------------------------------------
LEMMA WiredKept ==
  ASSUME NEW q \in Tab, Wired(q), \A r \in WaitsFor(q) : Still(r)
  PROVE  Wired(q)'
<1>1. q.wait # NoOne => Still(q.wait)
  BY DEF WaitsFor
<1>2. q.formReq # NoOne => Still(q.formReq)
  BY DEF WaitsFor
<1>3. QED
  BY <1>1, <1>2 DEF Wired, Still

LEMMA WaitsForType ==
  ASSUME NEW q \in Tab
  PROVE  WaitsFor(q) \subseteq Requests
  BY DEF WaitsFor, Tab

\* Nobody waits for a free request.
LEMMA NobodyWaits ==
  ASSUME TabsInv, NEW u \in Tabs, NEW r \in WaitsFor(tab[u])
  PROVE  req[r] # Free
  BY DEF TabsInv, Wired, WaitsFor

\* One tab moves: what it waits for now, it waited for before or has just sent,
\* and no request of another tab was answered.
LEMMA TabMoves ==
  ASSUME tab \in [Tabs -> Tab], TabsInv, NEW t \in Tabs, NEW q \in Tab, tab' = [tab EXCEPT ![t] = q], Wired(q)',
         q.wait = q.formReq => q.wait = NoOne,
         \A r \in WaitsFor(q) : r \in WaitsFor(tab[t]) \/ req[r] = Free,
         \A r \in Requests \ WaitsFor(tab[t]) : Still(r)
  PROVE  tab' \in [Tabs -> Tab] /\ TabsInv'
<1>1. tab'[t] = q /\ \A u \in Tabs \ {t} : tab'[u] = tab[u]
  OBVIOUS
<1>2. tab' \in [Tabs -> Tab]
  OBVIOUS
<1>3. ASSUME NEW u \in Tabs \ {t}
      PROVE  Wired(tab[u])
  BY DEF TabsInv
<1>4. ASSUME NEW u \in Tabs \ {t}
      PROVE  \A r \in WaitsFor(tab[u]) : Still(r)
  <2>1. tab[u] \in Tab
    OBVIOUS
  <2>2. WaitsFor(tab[u]) \subseteq Requests
    BY <2>1, WaitsForType
  <2>3. WaitsFor(tab[t]) \cap WaitsFor(tab[u]) = {}
    BY DEF TabsInv, Apart
  <2>4. QED
    BY <2>2, <2>3
<1>5. ASSUME NEW u \in Tabs
      PROVE  Wired(tab[u])'
  <2>1. CASE u = t
    BY <2>1, <1>1 DEF Wired
  <2>2. CASE u # t
    <3>1. PICK p \in Tab : p = tab[u]
      OBVIOUS
    <3>2. Wired(p)'
      BY <2>2, <3>1, <1>3, <1>4, WiredKept
    <3>3. tab'[u] = p
      BY <2>2, <3>1, <1>1
    <3>4. QED
      BY <3>2, <3>3 DEF Wired
  <2>3. QED
    BY <2>1, <2>2
<1>6. ASSUME NEW u \in Tabs \ {t}
      PROVE  WaitsFor(q) \cap WaitsFor(tab[u]) = {}
  <2> SUFFICES ASSUME NEW r \in WaitsFor(q), r \in WaitsFor(tab[u]) PROVE FALSE
    OBVIOUS
  <2>1. req[r] # Free
    BY NobodyWaits
  <2>2. r \in WaitsFor(tab[t])
    BY <2>1
  <2>3. QED
    BY <2>2 DEF TabsInv, Apart
<1>7. ASSUME NEW u \in Tabs
      PROVE  tab'[u].wait = tab'[u].formReq => tab'[u].wait = NoOne
  BY <1>1 DEF TabsInv, Apart
<1>8. ASSUME NEW u \in Tabs, NEW v \in Tabs, u # v
      PROVE  WaitsFor(tab'[u]) \cap WaitsFor(tab'[v]) = {}
  BY <1>1, <1>6, <1>8 DEF TabsInv, Apart
<1>9. Apart'
  <2>1. ASSUME NEW u \in Tabs, NEW v \in Tabs, u # v PROVE (WaitsFor(tab[u]) \cap WaitsFor(tab[v]) = {})'
    BY <2>1, <1>8 DEF WaitsFor
  <2>2. QED
    BY <1>7, <2>1 DEF Apart
<1>10. QED
  BY <1>2, <1>5, <1>9 DEF TabsInv

\* No tab moves, and no request a tab waits for is answered.
LEMMA TabsStay ==
  ASSUME tab \in [Tabs -> Tab], TabsInv, UNCHANGED tab,
         \A r \in Requests : Still(r) \/ \A u \in Tabs : r \notin WaitsFor(tab[u])
  PROVE  tab' \in [Tabs -> Tab] /\ TabsInv'
<1>1. ASSUME NEW u \in Tabs
      PROVE  Wired(tab[u])'
  <2>1. PICK p \in Tab : p = tab[u]
    OBVIOUS
  <2>2. WaitsFor(p) \subseteq Requests
    BY WaitsForType
  <2>3. Wired(p)'
    BY <2>1, <2>2, WiredKept DEF TabsInv
  <2>4. QED
    BY <2>1, <2>3 DEF Wired
<1>2. Apart'
  BY DEF TabsInv, Apart, WaitsFor
<1>3. QED
  BY <1>1, <1>2 DEF TabsInv

\* The types are inductive together with what the tabs wait for.
TypeInv == TypeOK /\ TabsInv

\* The things that go wrong are counted up to their bound.
LEMMA FaultsCounted ==
  ASSUME TypeOK, [Next]_vars
  PROVE  faults' \in 0..MaxFaults
<1>1. SUFFICES faults' = faults \/ Fault
  BY FaultsAssumption DEF TypeOK, ServerTypeOK, Fault
<1> USE DEF Unserved, server, Receive
<1>2. ASSUME NEW t \in Tabs, NEW c \in Creates, Submit(t, c) PROVE faults' = faults
  BY <1>2 DEF Submit, Send
<1>3. ASSUME NEW t \in Tabs, FormAnswered(t) \/ SendNext(t) \/ Settle(t) PROVE faults' = faults
  BY <1>3 DEF FormAnswered, SendNext, Settle, Send
<1>4. ASSUME NEW t \in Tabs, NEW e \in Edits, EditOffline(t, e) \/ EditBreaks(t, e) PROVE faults' = faults \/ Fault
  BY <1>4 DEF EditOffline, EditBreaks
<1>5. ASSUME NEW t \in Tabs, FormBreaks(t) \/ Enqueue(t) \/ Recover(t) \/ SyncNow(t) \/ Snapshot(t) \/ Finish(t)
      PROVE  faults' = faults \/ Fault
  BY <1>5 DEF FormBreaks, Enqueue, Recover, SyncNow, Snapshot, Finish
<1>6. ASSUME NEW t \in Tabs, ServeUpdate(t) \/ SettleUpdate(t) \/ ClashRecorded(t) \/ Break(t) \/ Reload(t)
      PROVE  faults' = faults \/ Fault
  BY <1>6 DEF ServeUpdate, SettleUpdate, ClashRecorded, Break, Reload
<1>7. ASSUME NEW t \in Tabs, NEW n \in Tenants, SwitchWorkspace(t, n) PROVE faults' = faults
  BY <1>7 DEF SwitchWorkspace
<1>8. ASSUME NEW o \in Ops, DiscardOp(o) \/ \E t \in Tabs : RetryOp(t, o) PROVE faults' = faults
  BY <1>8 DEF DiscardOp, RetryOp
<1>9. ASSUME NEW o \in Updates, KeepServer(o) \/ ReadLatest(o) PROVE faults' = faults
  BY <1>9 DEF KeepServer, ReadLatest
<1>10. CASE PutEdit \/ ApplyMineAgain \/ OtherWrites
  BY <1>10 DEF PutEdit, ApplyMineAgain, OtherWrites
<1>11. ASSUME NEW r \in Requests, Serve(r) \/ Unheard(r) PROVE faults' = faults \/ Fault
  BY <1>11 DEF Serve, Unheard, Process, Breaks, Lose, Claim, Refuse, Lookup, Commit, Reject, Store, Release, FailLate, StoreFails
<1>12. CASE ServerFails
  BY <1>12 DEF ServerFails, ServerStops, Purge
<1>13. CASE UNCHANGED vars
  BY <1>13 DEF vars
<1>14. QED
  BY <1>2, <1>3, <1>4, <1>5, <1>6, <1>7, <1>8, <1>9, <1>10, <1>11, <1>12, <1>13 DEF Next

\* A put numbers the operation.
LEMMA NewestType == Newest \in Nat \ {0}
<1>1. IsFiniteSet({o \in Ops : queue[o].born > 0})
  BY OpsAssumption, FS_Subset
<1>2. Cardinality({o \in Ops : queue[o].born > 0}) \in Nat
  BY <1>1, FS_CardinalityType
<1>3. QED
  BY <1>2 DEF Newest

\* A put, and a deletion, write one record of the queue.
LEMMA PutType ==
  ASSUME queue \in [Ops -> Record], NEW o \in Ops, NEW s \in {"none", "pending", "error"},
         NEW p \in SUBSET Edits, NEW b \in Nat, PutOp(o, s, p, b)
  PROVE  /\ queue' \in [Ops -> Record]
         /\ queue'[o].status = s /\ queue'[o].patch = p /\ queue'[o].born > 0
         /\ \A u \in Ops \ {o} : queue'[u] = queue[u]
<1>1. queue' = [queue EXCEPT ![o] = [status |-> s, patch |-> p, base |-> b,
                                     born |-> IF queue[o].born = 0 THEN Newest ELSE queue[o].born]]
  BY DEF PutOp
<1>2. queue[o].born \in Nat
  BY DEF Record
<1>3. PICK n \in Nat \ {0} : n = IF queue[o].born = 0 THEN Newest ELSE queue[o].born
  BY <1>2, NewestType
<1>4. [status |-> s, patch |-> p, base |-> b, born |-> n] \in Record
  BY DEF Record
<1>5. queue' = [queue EXCEPT ![o] = [status |-> s, patch |-> p, base |-> b, born |-> n]]
  BY <1>1, <1>3
<1>6. QED
  BY <1>4, <1>5

LEMMA DeleteType ==
  ASSUME queue \in [Ops -> Record], NEW o \in Ops, Delete(o)
  PROVE  /\ queue' \in [Ops -> Record]
         /\ queue'[o].status = "none" /\ queue'[o].patch = {} /\ queue'[o].born = queue[o].born
         /\ \A u \in Ops \ {o} : queue'[u] = queue[u]
<1>1. queue' = [queue EXCEPT ![o] = [queue[o] EXCEPT !.status = "none", !.patch = {}]]
  BY DEF Delete
<1>2. queue[o] \in Record
  OBVIOUS
<1>3. PICK q \in Record : q = [queue[o] EXCEPT !.status = "none", !.patch = {}]
  BY <1>2 DEF Record
<1>4. q.status = "none" /\ q.patch = {} /\ q.born = queue[o].born
  BY <1>2, <1>3 DEF Record
<1>5. queue' = [queue EXCEPT ![o] = q]
  BY <1>1, <1>3
<1>6. QED
  BY <1>4, <1>5

TaskType == [version : Nat, applied : SUBSET Edits]
EditType == [tab : Tabs, op : Updates, patch : SUBSET Edits, base : Nat] \cup {NoOne}

\* The types but those of the server, the session and the tabs.
StoreTypes ==
  /\ task \in TaskType
  /\ plan \in Plans /\ made \subseteq plan.makes
  /\ home \in [Ops -> Tenants \cup {NoOne}] /\ under \in [Ops -> Tenants \cup {NoOne}]
  /\ queue \in [Ops -> Record]
  /\ conflicts \in [Updates -> SUBSET Edits]
  /\ edit \in EditType
  /\ mine \in [op : Updates, base : Nat] \cup {NoOne}
  /\ dropped \subseteq Creates \cup Edits /\ spoilt \subseteq Edits

LEMMA TypeParts == TypeOK <=> /\ ServerTypeOK /\ session \in Tenants
                              /\ tab \in [Tabs -> Tab] /\ StoreTypes
  BY DEF TypeOK, StoreTypes, TaskType, EditType

LEMMA OpsAre == Ops = Creates \cup Updates /\ Creates \cap Updates = {} /\ NoOne \notin Ops
  BY OpsAssumption DEF Ops

LEMMA AppliesType ==
  ASSUME task \in TaskType, NEW p \in SUBSET Edits, Applies(p)
  PROVE  task' \in TaskType /\ task'.applied = task.applied \cup p
  BY DEF Applies, TaskType

\* The tab's record and operation.
LEMMA TabIs ==
  ASSUME tab \in [Tabs -> Tab], NEW t \in Tabs
  PROVE  /\ tab[t] \in Tab /\ tab[t].scope \in Tenants /\ tab[t].todo \in Seq(Ops)
         /\ tab[t].formOp \in Creates \cup {NoOne} /\ tab[t].formReq \in Requests \cup {NoOne}
         /\ tab[t].wait \in Requests \cup {NoOne}
         /\ \A o \in Updates : tab[t].snap[o] \in (SUBSET Edits) \X Nat /\ tab[t].snap[o][1] \in SUBSET Edits /\ tab[t].snap[o][2] \in Nat
<1>1. tab[t] \in Tab
  OBVIOUS
<1>2. tab[t].snap \in [Updates -> (SUBSET Edits) \X Nat]
  BY <1>1 DEF Tab
<1>3. QED
  BY <1>1, <1>2 DEF Tab

\* A refusal puts back what the replay read.
LEMMA RefusedIs ==
  ASSUME tab \in [Tabs -> Tab], NEW t \in Tabs, Op(t) \in Ops, Refused(t)
  PROVE  \E p \in SUBSET Edits, b \in Nat :
           /\ PutOp(Op(t), "error", p, b)
           /\ Op(t) \in Updates => p = tab[t].snap[Op(t)][1]
<1>1. CASE Op(t) \in Updates
  BY <1>1, TabIs DEF Refused
<1>2. CASE Op(t) \notin Updates
  <2>1. PutOp(Op(t), "error", {}, 0)
    BY <1>2 DEF Refused
  <2>2. QED
    BY <2>1, <1>2
<1>3. QED
  BY <1>1, <1>2

\* What ReadQueue leaves for PutEdit.
LEMMA ReadType ==
  ASSUME StoreTypes, tab \in [Tabs -> Tab], NEW t \in Tabs, NEW e \in Edits, NEW seen \in Nat, ReadQueue(t, e, seen)
  PROVE  /\ made' = made \cup {e} /\ made' \subseteq plan.makes
         /\ home' \in [Ops -> Tenants \cup {NoOne}] /\ under' \in [Ops -> Tenants \cup {NoOne}]
         /\ edit' \in EditType
         /\ edit = NoOne
<1>1. edit = NoOne /\ made' = made \cup {e} /\ made' \subseteq plan.makes
  BY DEF ReadQueue, StoreTypes
<1> DEFINE waiting == {o \in Pending \cap Updates : under[o] = tab[t].scope}
<1>2. CASE waiting # {}
  <2>1. PICK o \in waiting : edit' = [tab |-> t, op |-> o, patch |-> queue[o].patch \cup {e}, base |-> queue[o].base] /\ UNCHANGED <<home, under>>
    BY <1>2 DEF ReadQueue, Merged
  <2>2. o \in Updates /\ queue[o] \in Record
    BY <2>1, OpsAre DEF StoreTypes
  <2>3. queue[o].patch \cup {e} \in SUBSET Edits /\ queue[o].base \in Nat
    BY <2>2 DEF Record
  <2>4. edit' \in EditType
    BY <2>1, <2>2, <2>3 DEF EditType
  <2>5. QED
    BY <1>1, <2>1, <2>4 DEF StoreTypes
<1>3. CASE waiting = {}
  <2>1. PICK o \in Updates : /\ home' = [home EXCEPT ![o] = tab[t].scope] /\ QueueUnder(t, o)
                             /\ edit' = [tab |-> t, op |-> o, patch |-> {e}, base |-> seen]
    BY <1>3 DEF ReadQueue
  <2>2. edit' \in EditType
    BY <2>1 DEF EditType
  <2>3. tab[t].scope \in Tenants /\ o \in Ops
    BY TabIs, OpsAre
  <2>4. home' \in [Ops -> Tenants \cup {NoOne}] /\ under' \in [Ops -> Tenants \cup {NoOne}]
    BY <2>1, <2>3 DEF StoreTypes, QueueUnder
  <2>5. QED
    BY <1>1, <2>2, <2>4
<1>4. QED
  BY <1>2, <1>3

\* The operation a running replay is at.
LEMMA OpIs ==
  ASSUME tab \in [Tabs -> Tab], NEW t \in Tabs, tab[t].todo # << >>
  PROVE  Op(t) \in Ops /\ Tail(tab[t].todo) \in Seq(Ops) /\ Range(Tail(tab[t].todo)) \subseteq Range(tab[t].todo) /\ Op(t) \in Range(tab[t].todo)
  BY TabIs, TailType DEF Op

\* The tabs' own steps on the stores.
LEMMA StoresByTab ==
  ASSUME TypeInv, NEW t \in Tabs,
         \/ \E c \in Creates : Submit(t, c)
         \/ \E e \in Edits : EditOffline(t, e) \/ EditBreaks(t, e)
         \/ FormAnswered(t) \/ FormBreaks(t) \/ Enqueue(t)
         \/ Recover(t) \/ SyncNow(t) \/ Snapshot(t) \/ SendNext(t) \/ Finish(t)
         \/ Reload(t) \/ \E o \in Ops : RetryOp(t, o)
  PROVE  StoreTypes'
<1> USE DEF Unstored, Unshared
<1>1. StoreTypes /\ tab \in [Tabs -> Tab] /\ TabsInv /\ session \in Tenants
  BY TypeParts DEF TypeInv
<1>2. tab[t].scope \in Tenants /\ Wired(tab[t]) /\ (tab[t].form # "none" => tab[t].formOp \in Creates)
  BY <1>1, TabIs DEF TabsInv, Wired
<1>3. \A o \in Ops : [under EXCEPT ![o] = tab[t].scope] \in [Ops -> Tenants \cup {NoOne}]
  BY <1>1, <1>2 DEF StoreTypes
<1>4. ASSUME NEW c \in Creates, Submit(t, c) PROVE StoreTypes'
  <2>1. home' \in [Ops -> Tenants \cup {NoOne}]
    BY <1>1, <1>2, <1>4, OpsAre DEF Submit, StoreTypes
  <2>2. under' \in [Ops -> Tenants \cup {NoOne}]
    <3>1. under' = under \/ under' = [under EXCEPT ![c] = tab[t].scope]
      BY <1>4 DEF Submit, QueueUnder
    <3>2. QED
      BY <1>1, <1>3, <3>1, OpsAre DEF StoreTypes
  <2>3. plan' = plan /\ made' \subseteq plan.makes
    BY <1>1, <1>4 DEF Submit, StoreTypes
  <2>4. UNCHANGED <<task, queue, conflicts, edit, mine, dropped, spoilt>>
    BY <1>4 DEF Submit
  <2>5. QED
    BY <1>1, <2>1, <2>2, <2>3, <2>4 DEF StoreTypes, EditType
<1>5. ASSUME NEW e \in Edits, EditOffline(t, e) \/ EditBreaks(t, e) PROVE StoreTypes'
  <2>1. PICK seen \in Nat : ReadQueue(t, e, seen)
    BY <1>1, <1>5 DEF EditOffline, EditBreaks, StoreTypes, TaskType
  <2>2. task' \in TaskType
    <3>1. UNCHANGED task \/ Applies({e})
      BY <1>5 DEF EditOffline, EditBreaks
    <3>2. QED
      BY <1>1, <3>1, AppliesType DEF StoreTypes
  <2>3. UNCHANGED <<plan, queue, conflicts, mine, dropped, spoilt>>
    BY <1>5 DEF EditOffline, EditBreaks
  <2>4. QED
    BY <1>1, <2>1, <2>2, <2>3, ReadType DEF StoreTypes
<1>6. ASSUME FormAnswered(t) \/ FormBreaks(t) PROVE StoreTypes'
  <2>1. tab[t].formOp \in Ops
    BY <1>2, <1>6, OpsAre DEF FormAnswered, FormBreaks
  <2>2. under' \in [Ops -> Tenants \cup {NoOne}]
    BY <1>1, <1>3, <1>6, <2>1 DEF FormAnswered, FormBreaks, StoreTypes, QueueUnder
  <2>3. UNCHANGED <<task, plan, made, home, queue, conflicts, edit, mine, dropped, spoilt>>
    BY <1>6 DEF FormAnswered, FormBreaks
  <2>4. QED
    BY <1>1, <2>2, <2>3 DEF StoreTypes, EditType
<1>7. CASE Enqueue(t)
  <2>1. tab[t].formOp \in Ops
    BY <1>2, <1>7, OpsAre DEF Enqueue
  <2>2. queue' \in [Ops -> Record]
    BY <1>1, <1>7, <2>1, PutType DEF Enqueue, StoreTypes
  <2>3. UNCHANGED <<task, plan, made, home, under, conflicts, edit, mine, dropped, spoilt>>
    BY <1>7 DEF Enqueue
  <2>4. QED
    BY <1>1, <2>2, <2>3 DEF StoreTypes, EditType
<1>8. CASE Recover(t) \/ SyncNow(t) \/ Snapshot(t) \/ SendNext(t) \/ Finish(t)
  <2>1. UNCHANGED <<task, plan, made, home, under, queue, conflicts, edit, mine, dropped, spoilt>>
    BY <1>8 DEF Recover, SyncNow, Snapshot, SendNext, Finish
  <2>2. QED
    BY <1>1, <2>1 DEF StoreTypes, EditType
<1>9. CASE Reload(t)
  <2>1. UNCHANGED <<task, plan, made, home, under, queue, conflicts, spoilt>> /\ mine' = NoOne
    BY <1>9 DEF Reload
  <2>2. edit' \in EditType /\ dropped' \subseteq Creates \cup Edits
    <3>1. CASE edit # NoOne /\ edit.tab = t
      <4>1. edit.patch \subseteq Edits
        BY <1>1, <3>1 DEF StoreTypes, EditType
      <4>2. edit' = NoOne /\ dropped' = dropped \cup (edit.patch \ queue[edit.op].patch)
        BY <1>9, <3>1 DEF Reload
      <4>3. QED
        BY <1>1, <4>1, <4>2 DEF StoreTypes, EditType
    <3>2. CASE ~(edit # NoOne /\ edit.tab = t)
      <4>1. UNCHANGED <<edit, dropped>>
        BY <1>9, <3>2 DEF Reload
      <4>2. QED
        BY <1>1, <4>1 DEF StoreTypes, EditType
    <3>3. QED
      BY <3>1, <3>2
  <2>3. QED
    BY <1>1, <2>1, <2>2 DEF StoreTypes
<1>10. ASSUME NEW o \in Ops, RetryOp(t, o) PROVE StoreTypes'
  <2>1. queue' \in [Ops -> Record]
    BY <1>1, <1>10 DEF RetryOp, StoreTypes, Record
  <2>2. UNCHANGED <<task, plan, made, home, under, conflicts, edit, mine, dropped, spoilt>>
    BY <1>10 DEF RetryOp
  <2>3. QED
    BY <1>1, <2>1, <2>2 DEF StoreTypes, EditType
<1>11. QED
  BY <1>4, <1>5, <1>6, <1>7, <1>8, <1>9, <1>10

\* The answers of a replay.
LEMMA StoresByReplay ==
  ASSUME TypeInv, NEW t \in Tabs, Settle(t) \/ ServeUpdate(t) \/ SettleUpdate(t) \/ ClashRecorded(t) \/ Break(t)
  PROVE  StoreTypes'
<1> USE DEF Unstored, Unshared
<1>1. StoreTypes /\ tab \in [Tabs -> Tab] /\ TabsInv /\ Wired(tab[t])
  BY TypeParts DEF TypeInv, TabsInv
<1>2. queue' \in [Ops -> Record]
  <2>1. CASE UNCHANGED queue
    BY <1>1, <2>1 DEF StoreTypes
  <2>2. CASE (Settle(t) \/ SettleUpdate(t) \/ ClashRecorded(t)) /\ (Delete(Op(t)) \/ Refused(t))
    <3>1. tab[t].todo # << >>
      BY <1>1, <2>2 DEF Settle, SettleUpdate, ClashRecorded, Wired
    <3>2. Op(t) \in Ops
      BY <1>1, <3>1, OpIs
    <3>3. PICK o \in Ops : o = Op(t)
      BY <3>2
    <3>4. CASE Delete(Op(t))
      BY <1>1, <3>3, <3>4, DeleteType DEF StoreTypes
    <3>5. CASE Refused(t)
      <4>1. PICK p \in SUBSET Edits, b \in Nat : PutOp(o, "error", p, b)
        BY <1>1, <3>3, <3>5, RefusedIs
      <4>2. QED
        BY <1>1, <4>1, PutType DEF StoreTypes
    <3>6. QED
      BY <2>2, <3>4, <3>5
  <2>3. UNCHANGED queue \/ ((Settle(t) \/ SettleUpdate(t) \/ ClashRecorded(t)) /\ (Delete(Op(t)) \/ Refused(t)))
    <3>1. Settle(t) => UNCHANGED queue \/ Delete(Op(t)) \/ Refused(t)
      BY DEF Settle, Receive, Answers
    <3>2. SettleUpdate(t) => UNCHANGED queue \/ Delete(Op(t)) \/ Refused(t)
      BY DEF SettleUpdate
    <3>3. ClashRecorded(t) => Delete(Op(t))
      BY DEF ClashRecorded
    <3>4. ServeUpdate(t) \/ Break(t) => UNCHANGED queue
      BY DEF ServeUpdate, Break
    <3>5. QED
      BY <3>1, <3>2, <3>3, <3>4
  <2>4. QED
    BY <2>1, <2>2, <2>3
<1>3. conflicts' \in [Updates -> SUBSET Edits]
  <2>1. CASE UNCHANGED conflicts
    BY <1>1, <2>1 DEF StoreTypes
  <2>2. CASE SettleUpdate(t) /\ tab[t].patching = "conflict"
    <3>1. Op(t) \in Updates
      BY <1>1, <2>2 DEF Wired, Op
    <3>2. conflicts' = [conflicts EXCEPT ![Op(t)] = tab[t].snap[Op(t)][1]]
      BY <2>2 DEF SettleUpdate
    <3>3. QED
      BY <1>1, <3>1, <3>2, TabIs DEF StoreTypes
  <2>3. QED
    BY <2>1, <2>2 DEF Settle, ServeUpdate, SettleUpdate, ClashRecorded, Break
<1>4. task' \in TaskType
  <2>1. CASE UNCHANGED task
    BY <1>1, <2>1 DEF StoreTypes
  <2>2. CASE tab[t].patching = "sent" /\ Applies(tab[t].snap[Op(t)][1])
    <3>1. Op(t) \in Updates
      BY <1>1, <2>2 DEF Wired, Op
    <3>2. PICK p \in SUBSET Edits : p = tab[t].snap[Op(t)][1]
      BY <1>1, <3>1, TabIs
    <3>3. QED
      BY <1>1, <2>2, <3>2, AppliesType DEF StoreTypes
  <2>3. QED
    BY <2>1, <2>2 DEF Settle, ServeUpdate, SettleUpdate, ClashRecorded, Break
<1>5. UNCHANGED <<plan, made, home, under, edit, mine, dropped, spoilt>>
  BY DEF Settle, ServeUpdate, SettleUpdate, ClashRecorded, Break
<1>6. QED
  BY <1>1, <1>2, <1>3, <1>4, <1>5 DEF StoreTypes, EditType

\* The other steps.
LEMMA StoresByOthers ==
  ASSUME TypeInv,
         \/ \E t \in Tabs, n \in Tenants : SwitchWorkspace(t, n)
         \/ PutEdit \/ ApplyMineAgain \/ OtherWrites
         \/ \E o \in Ops : DiscardOp(o)
         \/ \E o \in Updates : KeepServer(o) \/ ReadLatest(o)
         \/ (\E r \in Requests : Serve(r) \/ Unheard(r)) \/ ServerFails \/ UNCHANGED vars
  PROVE  StoreTypes'
<1> USE DEF Unstored, Unshared, client
<1>1. StoreTypes /\ tab \in [Tabs -> Tab]
  BY TypeParts DEF TypeInv
<1>2. ASSUME NEW t \in Tabs, NEW n \in Tenants, SwitchWorkspace(t, n) PROVE StoreTypes'
  <2> DEFINE wiped == {o \in Ops : under[o] # n}
  <2>1. queue' \in [Ops -> Record]
    <3>1. ASSUME NEW o \in Ops PROVE [queue[o] EXCEPT !.status = "none", !.patch = {}] \in Record
      BY <1>1 DEF StoreTypes, Record
    <3>2. queue' = [o \in Ops |-> IF o \in wiped THEN [queue[o] EXCEPT !.status = "none", !.patch = {}] ELSE queue[o]]
      BY <1>2 DEF SwitchWorkspace
    <3>3. QED
      BY <1>1, <3>1, <3>2 DEF StoreTypes
  <2>2. conflicts' \in [Updates -> SUBSET Edits]
    BY <1>1, <1>2 DEF SwitchWorkspace, StoreTypes
  <2>3. dropped' \subseteq Creates \cup Edits
    <3>1. ASSUME NEW o \in Ops PROVE queue[o].patch \subseteq Edits
      BY <1>1 DEF StoreTypes, Record
    <3>2. ASSUME NEW o \in Updates PROVE conflicts[o] \subseteq Edits
      BY <1>1 DEF StoreTypes
    <3>3. dropped' = dropped \cup {o \in wiped \cap Creates : queue[o].status # "none"}
                             \cup (UNION {queue[o].patch : o \in wiped}) \cup (UNION {conflicts[o] : o \in wiped \cap Updates})
      BY <1>2 DEF SwitchWorkspace
    <3>4. dropped \subseteq Creates \cup Edits
      BY <1>1 DEF StoreTypes
    <3>5. (UNION {queue[o].patch : o \in wiped}) \subseteq Edits
      BY <3>1
    <3>6. (UNION {conflicts[o] : o \in wiped \cap Updates}) \subseteq Edits
      BY <3>2
    <3>7. {o \in wiped \cap Creates : queue[o].status # "none"} \subseteq Creates
      OBVIOUS
    <3> HIDE DEF wiped
    <3>8. QED
      BY <3>3, <3>4, <3>5, <3>6, <3>7
  <2>4. UNCHANGED <<task, plan, made, home, under, edit, mine, spoilt>>
    BY <1>2 DEF SwitchWorkspace
  <2>5. QED
    BY <1>1, <2>1, <2>2, <2>3, <2>4 DEF StoreTypes, EditType
<1>3. CASE PutEdit
  <2>1. edit.op \in Ops /\ edit.patch \in SUBSET Edits /\ edit.base \in Nat
    BY <1>1, <1>3, OpsAre DEF PutEdit, StoreTypes, EditType
  <2>2. queue' \in [Ops -> Record]
    BY <1>1, <1>3, <2>1, PutType DEF PutEdit, StoreTypes
  <2>3. spoilt' \subseteq Edits
    BY <1>1, <1>3, <2>1 DEF PutEdit, StoreTypes
  <2>4. UNCHANGED <<task, plan, made, home, under, conflicts, mine, dropped>> /\ edit' = NoOne
    BY <1>3 DEF PutEdit
  <2>5. QED
    BY <1>1, <2>2, <2>3, <2>4 DEF StoreTypes, EditType
<1>4. CASE ApplyMineAgain
  <2>1. mine.op \in Updates
    BY <1>1, <1>4 DEF ApplyMineAgain, StoreTypes
  <2>2. PICK p \in SUBSET Edits : p = conflicts[mine.op]
    BY <1>1, <2>1 DEF StoreTypes
  <2>3. task' \in TaskType
    BY <1>1, <1>4, <2>2, AppliesType DEF ApplyMineAgain, StoreTypes
  <2>4. conflicts' \in [Updates -> SUBSET Edits]
    BY <1>1, <1>4, <2>1 DEF ApplyMineAgain, StoreTypes
  <2>5. UNCHANGED <<plan, made, home, under, queue, edit, dropped, spoilt>> /\ mine' = NoOne
    BY <1>4 DEF ApplyMineAgain
  <2>6. QED
    BY <1>1, <2>3, <2>4, <2>5 DEF StoreTypes, EditType
<1>5. CASE OtherWrites
  <2>1. task' \in TaskType
    BY <1>1, <1>5 DEF OtherWrites, StoreTypes, TaskType
  <2>2. QED
    BY <1>1, <1>5, <2>1 DEF OtherWrites, StoreTypes, EditType
<1>6. ASSUME NEW o \in Ops, DiscardOp(o) PROVE StoreTypes'
  <2>1. queue' \in [Ops -> Record]
    BY <1>1, <1>6, DeleteType DEF DiscardOp, StoreTypes
  <2>2. queue[o].patch \subseteq Edits
    BY <1>1 DEF StoreTypes, Record
  <2>3. dropped' \subseteq Creates \cup Edits
    BY <1>1, <1>6, <2>2 DEF DiscardOp, StoreTypes
  <2>4. UNCHANGED <<task, plan, made, home, under, conflicts, edit, mine, spoilt>>
    BY <1>6 DEF DiscardOp
  <2>5. QED
    BY <1>1, <2>1, <2>3, <2>4 DEF StoreTypes, EditType
<1>7. ASSUME NEW o \in Updates, KeepServer(o) PROVE StoreTypes'
  <2>1. conflicts' \in [Updates -> SUBSET Edits] /\ dropped' \subseteq Creates \cup Edits
    BY <1>1, <1>7 DEF KeepServer, StoreTypes
  <2>2. UNCHANGED <<task, plan, made, home, under, queue, edit, mine, spoilt>>
    BY <1>7 DEF KeepServer
  <2>3. QED
    BY <1>1, <2>1, <2>2 DEF StoreTypes, EditType
<1>8. ASSUME NEW o \in Updates, ReadLatest(o) PROVE StoreTypes'
  <2>1. mine' \in [op : Updates, base : Nat]
    BY <1>1, <1>8 DEF ReadLatest, StoreTypes, TaskType
  <2>2. UNCHANGED <<task, plan, made, home, under, queue, conflicts, edit, dropped, spoilt>>
    BY <1>8 DEF ReadLatest
  <2>3. QED
    BY <1>1, <2>1, <2>2 DEF StoreTypes, EditType
<1>9. CASE (\E r \in Requests : Serve(r) \/ Unheard(r)) \/ ServerFails \/ UNCHANGED vars
  <2>1. UNCHANGED <<task, plan, made, home, under, queue, conflicts, edit, mine, dropped, spoilt>>
    BY <1>9 DEF Serve, Unheard, ServerFails, vars
  <2>2. QED
    BY <1>1, <2>1 DEF StoreTypes, EditType
<1>10. QED
  BY <1>2, <1>3, <1>4, <1>5, <1>6, <1>7, <1>8, <1>9

LEMMA StoresStep == TypeInv /\ [Next]_vars => StoreTypes'
  BY StoresByTab, StoresByReplay, StoresByOthers DEF Next

\* A tab moves and has nothing new to wait for.
LEMMA TabPlain ==
  ASSUME tab \in [Tabs -> Tab], TabsInv, NEW t \in Tabs, NEW q \in Tab, Set(t, q), UNCHANGED req,
         Wired(q), q.wait \in {NoOne, tab[t].wait}, q.formReq \in {NoOne, tab[t].formReq}
  PROVE  tab' \in [Tabs -> Tab] /\ TabsInv'
<1>1. tab' = [tab EXCEPT ![t] = q]
  BY DEF Set
<1>2. \A r : Still(r)
  BY DEF Still
<1>3. Wired(q)'
  BY <1>2, WiredKept
<1>4. q.wait = q.formReq => q.wait = NoOne
  BY DEF TabsInv, Apart
<1>5. WaitsFor(q) \subseteq WaitsFor(tab[t])
  BY DEF WaitsFor
<1>6. QED
  BY <1>1, <1>2, <1>3, <1>4, <1>5, TabMoves

\* The form of a tab, its connection and its buttons.
LEMMA FormMoves ==
  ASSUME TypeInv, NEW t \in Tabs,
         \/ \E e \in Edits : EditBreaks(t, e)
         \/ FormBreaks(t) \/ Enqueue(t) \/ Recover(t) \/ SyncNow(t)
         \/ \E o \in Ops : RetryOp(t, o)
         \/ \E n \in Tenants : SwitchWorkspace(t, n)
  PROVE  tab' \in [Tabs -> Tab] /\ TabsInv'
<1> USE DEF Unserved, server
<1>1. tab \in [Tabs -> Tab] /\ TabsInv /\ Wired(tab[t])
  BY TypeParts DEF TypeInv, TabsInv
<1>2. PICK p \in Tab : p = tab[t]
  BY <1>1
<1>3. Wired(p)
  BY <1>1, <1>2
<1>4. UNCHANGED req
  BY DEF EditBreaks, FormBreaks, Enqueue, Recover, SyncNow, RetryOp, SwitchWorkspace
<1>5. ASSUME NEW e \in Edits, EditBreaks(t, e) PROVE tab' \in [Tabs -> Tab] /\ TabsInv'
  <2>1. PICK q \in Tab : q = [p EXCEPT !.offline = TRUE]
    BY TabFields
  <2>2. Wired(q) /\ q.wait = p.wait /\ q.formReq = p.formReq
    BY <1>3, <2>1 DEF Wired, Tab
  <2>3. Set(t, q)
    BY <1>2, <1>5, <2>1 DEF EditBreaks
  <2>4. QED
    BY <1>1, <1>2, <1>4, <2>2, <2>3, TabPlain
<1>6. CASE FormBreaks(t)
  <2>1. PICK q \in Tab : q = [p EXCEPT !.offline = TRUE, !.form = "queueing", !.formReq = NoOne]
    BY TabFields
  <2>2. Wired(q) /\ q.wait = p.wait /\ q.formReq = NoOne
    BY <1>2, <1>3, <1>6, <2>1 DEF Wired, Tab, FormBreaks
  <2>3. Set(t, q)
    BY <1>2, <1>6, <2>1 DEF FormBreaks
  <2>4. QED
    BY <1>1, <1>2, <1>4, <2>2, <2>3, TabPlain
<1>7. CASE Enqueue(t)
  <2>1. PICK q \in Tab : q = [p EXCEPT !.form = "none", !.formOp = NoOne]
    BY TabFields
  <2>2. Wired(q) /\ q.wait = p.wait /\ q.formReq = p.formReq
    BY <1>2, <1>3, <1>7, <2>1 DEF Wired, Tab, Enqueue
  <2>3. Set(t, q)
    BY <1>2, <1>7, <2>1 DEF Enqueue
  <2>4. QED
    BY <1>1, <1>2, <1>4, <2>2, <2>3, TabPlain
<1>8. CASE Recover(t)
  <2>1. PICK s \in {"idle", "starting", p.step} : s = IF p.step = "idle" THEN "starting" ELSE p.step
    OBVIOUS
  <2>2. PICK q \in Tab : q = [p EXCEPT !.offline = FALSE, !.step = s]
    BY TabFields
  <2>3. Wired(q) /\ q.wait = p.wait /\ q.formReq = p.formReq
    BY <1>2, <1>3, <1>8, <2>1, <2>2 DEF Wired, Tab, Recover
  <2>4. Set(t, q)
    BY <1>2, <1>8, <2>1, <2>2 DEF Recover
  <2>5. QED
    BY <1>1, <1>2, <1>4, <2>3, <2>4, TabPlain
<1>9. CASE SyncNow(t)
  <2>1. PICK q \in Tab : q = [p EXCEPT !.step = "starting"]
    BY TabFields
  <2>2. Wired(q) /\ q.wait = p.wait /\ q.formReq = p.formReq
    BY <1>2, <1>3, <1>9, <2>1 DEF Wired, Tab, SyncNow
  <2>3. Set(t, q)
    BY <1>2, <1>9, <2>1 DEF SyncNow
  <2>4. QED
    BY <1>1, <1>2, <1>4, <2>2, <2>3, TabPlain
<1>10. ASSUME NEW o \in Ops, RetryOp(t, o) PROVE tab' \in [Tabs -> Tab] /\ TabsInv'
  <2>1. PICK s \in {"idle", "starting", p.step} : s = IF p.step = "idle" THEN "starting" ELSE p.step
    OBVIOUS
  <2>2. PICK q \in Tab : q = [p EXCEPT !.step = s]
    BY TabFields
  <2>3. Wired(q) /\ q.wait = p.wait /\ q.formReq = p.formReq
    BY <1>2, <1>3, <2>1, <2>2 DEF Wired, Tab
  <2>4. Set(t, q)
    BY <1>2, <1>10, <2>1, <2>2 DEF RetryOp
  <2>5. QED
    BY <1>1, <1>2, <1>4, <2>3, <2>4, TabPlain
<1>11. ASSUME NEW n \in Tenants, SwitchWorkspace(t, n) PROVE tab' \in [Tabs -> Tab] /\ TabsInv'
  <2>1. PICK q \in Tab : q = [p EXCEPT !.scope = n]
    BY ReplayFields
  <2>2. Wired(q) /\ q.wait = p.wait /\ q.formReq = p.formReq
    BY <1>3, <2>1 DEF Wired, Tab
  <2>3. Set(t, q)
    BY <1>2, <1>11, <2>1 DEF SwitchWorkspace
  <2>4. QED
    BY <1>1, <1>2, <1>4, <2>2, <2>3, TabPlain
<1>12. QED
  BY <1>5, <1>6, <1>7, <1>8, <1>9, <1>10, <1>11

\* The replay takes its next operation, or stops.
LEMMA OnwardsIs ==
  ASSUME NEW t \in Tabs, NEW p \in Tab, p = tab[t], p.todo # << >>, Onwards(t), Wired(p), p.step \in {"sent", "clash"}
  PROVE  \E q \in Tab : /\ Set(t, q) /\ Wired(q) /\ q.wait = NoOne /\ q.formReq = p.formReq
                        /\ q.todo = Tail(p.todo) /\ q.snap = p.snap /\ q.step = "next" /\ q.patching = "none"
                        /\ Wired(p)' => Wired(q)'
<1>1. p.todo \in Seq(Ops)
  BY DEF Tab
<1>2. Tail(p.todo) \in Seq(Ops)
  BY <1>1
<1>3. PICK q \in Tab : q = [p EXCEPT !.step = "next", !.todo = Tail(p.todo), !.wait = NoOne, !.patching = "none"]
  BY <1>2, ReplayFields
<1>4. Set(t, q)
  BY <1>3 DEF Onwards
<1>5. /\ q.wait = NoOne /\ q.formReq = p.formReq /\ q.form = p.form /\ q.formOp = p.formOp
      /\ q.todo = Tail(p.todo) /\ q.snap = p.snap /\ q.step = "next" /\ q.patching = "none"
  BY <1>3 DEF Tab
<1>6. Wired(q)
  BY <1>5 DEF Wired
<1>7. Wired(p)' => Wired(q)'
  BY <1>5 DEF Wired
<1>8. QED
  BY <1>4, <1>5, <1>6, <1>7

LEMMA StoppedIs ==
  ASSUME NEW t \in Tabs, NEW p \in Tab, p = tab[t], Stopped(t), Wired(p)
  PROVE  \E q \in Tab : /\ Set(t, q) /\ Wired(q) /\ q.wait = NoOne /\ q.formReq = p.formReq
                        /\ q.todo = << >> /\ q.snap = p.snap /\ q.step = "idle" /\ q.patching = "none"
<1>1. PICK q \in Tab : q = [p EXCEPT !.offline = TRUE, !.step = "idle", !.todo = << >>, !.wait = NoOne, !.patching = "none"]
  BY ReplayFields
<1>2. Set(t, q)
  BY <1>1 DEF Stopped
<1>3. /\ q.wait = NoOne /\ q.formReq = p.formReq /\ q.form = p.form /\ q.formOp = p.formOp
      /\ q.todo = << >> /\ q.snap = p.snap /\ q.step = "idle" /\ q.patching = "none"
  BY <1>1 DEF Tab
<1>4. Wired(q)
  BY <1>3 DEF Wired
<1>5. QED
  BY <1>2, <1>3, <1>4

LEMMA LoadedWired == \A n \in Tenants : Loaded(n) \in Tab /\ Wired(Loaded(n)) /\ Loaded(n).wait = NoOne /\ Loaded(n).formReq = NoOne /\ Loaded(n).todo = << >>
                        /\ Loaded(n).patching = "none" /\ Loaded(n).step = "starting"
  BY LoadedType DEF Loaded, Wired

\* The replay of a tab, but for what is sent and received.
LEMMA ReplayMoves ==
  ASSUME TypeInv, NEW t \in Tabs,
         \/ Snapshot(t) \/ Finish(t) \/ ServeUpdate(t) \/ SettleUpdate(t)
         \/ ClashRecorded(t) \/ Break(t) \/ Reload(t)
  PROVE  tab' \in [Tabs -> Tab] /\ TabsInv'
<1> USE DEF Unserved, server
<1>1. tab \in [Tabs -> Tab] /\ TabsInv /\ Wired(tab[t]) /\ session \in Tenants /\ StoreTypes
  BY TypeParts DEF TypeInv, TabsInv
<1>2. PICK p \in Tab : p = tab[t]
  BY <1>1
<1>3. Wired(p)
  BY <1>1, <1>2
<1>4. UNCHANGED req
  BY DEF Snapshot, Finish, ServeUpdate, SettleUpdate, ClashRecorded, Break, Reload
<1>5. CASE Snapshot(t)
  <2> DEFINE ops == {o \in Pending : under[o] = tab[t].scope}
             read(o) == IF o \in ops THEN <<queue[o].patch, queue[o].base>> ELSE <<{}, 0>>
             snap == [o \in Updates |-> read(o)]
  <2>1. CASE ops = {}
    <3>1. PICK q \in Tab : q = [p EXCEPT !.step = "idle"]
      BY TabFields
    <3>2. Wired(q) /\ q.wait = p.wait /\ q.formReq = p.formReq
      BY <1>2, <1>3, <1>5, <3>1 DEF Wired, Tab, Snapshot
    <3>3. Set(t, q)
      BY <1>2, <1>5, <2>1, <3>1 DEF Snapshot
    <3>4. QED
      BY <1>1, <1>2, <1>4, <3>2, <3>3, TabPlain
  <2>2. CASE ops # {}
    <3>1. PICK s \in InOrder(ops) : Set(t, [tab[t] EXCEPT !.offline = FALSE, !.step = "next", !.todo = s, !.snap = snap])
      BY <1>5, <2>2 DEF Snapshot
    <3>2. snap \in [Updates -> (SUBSET Edits) \X Nat]
      <4>1. ASSUME NEW o \in Updates PROVE read(o) \in (SUBSET Edits) \X Nat
        <5>1. queue[o] \in Record
          BY <1>1, OpsAre DEF StoreTypes
        <5>2. QED
          BY <5>1 DEF Record
      <4>2. QED
        BY <4>1
    <3>3. s \in Seq(Ops)
      <4>1. ops \in SUBSET Ops
        BY DEF Pending
      <4>2. QED
        BY <3>1, <4>1, OrderType
    <3> HIDE DEF snap
    <3>4. PICK q \in Tab : q = [p EXCEPT !.offline = FALSE, !.step = "next", !.todo = s, !.snap = snap]
      BY <3>2, <3>3, ReplayFields
    <3>5. p.step = "starting"
      BY <1>2, <1>5 DEF Snapshot
    <3>6. q.step = "next" /\ q.wait = p.wait /\ q.formReq = p.formReq /\ q.form = p.form /\ q.formOp = p.formOp /\ q.patching = p.patching
      BY <3>4 DEF Tab
    <3>7. Wired(q)
      BY <1>3, <3>5, <3>6 DEF Wired
    <3>8. Set(t, q)
      BY <1>2, <3>1, <3>4
    <3>9. QED
      BY <1>1, <1>2, <1>4, <3>6, <3>7, <3>8, TabPlain
  <2>3. QED
    BY <2>1, <2>2
<1>6. CASE Finish(t)
  <2>1. PICK f \in [Updates -> (SUBSET Edits) \X Nat] : f = [o \in Updates |-> <<{}, 0>>]
    OBVIOUS
  <2>2. PICK q \in Tab : q = [p EXCEPT !.offline = FALSE, !.step = "idle", !.snap = f]
    BY ReplayFields
  <2>3. p.step = "next"
    BY <1>2, <1>6 DEF Finish
  <2>4. q.step = "idle" /\ q.wait = p.wait /\ q.formReq = p.formReq /\ q.form = p.form /\ q.formOp = p.formOp /\ q.patching = p.patching
    BY <2>2 DEF Tab
  <2>5. Wired(q)
    BY <1>3, <2>3, <2>4 DEF Wired
  <2>6. Set(t, q)
    BY <1>2, <1>6, <2>1, <2>2 DEF Finish
  <2>7. QED
    BY <1>1, <1>2, <1>4, <2>4, <2>5, <2>6, TabPlain
<1>7. CASE ServeUpdate(t)
  <2>1. PICK a \in {"ok", "conflict", "rejected"} : Set(t, [p EXCEPT !.patching = a])
    BY <1>2, <1>7 DEF ServeUpdate
  <2>2. PICK q \in Tab : q = [p EXCEPT !.patching = a]
    BY ReplayFields
  <2>3. p.patching = "sent"
    BY <1>2, <1>7 DEF ServeUpdate
  <2>4. Wired(q) /\ q.wait = p.wait /\ q.formReq = p.formReq
    BY <1>3, <2>2, <2>3 DEF Wired, Tab
  <2>5. QED
    BY <1>1, <1>2, <1>4, <2>1, <2>2, <2>4, TabPlain
<1>8. CASE SettleUpdate(t) /\ tab[t].patching = "conflict"
  <2>1. PICK q \in Tab : q = [p EXCEPT !.step = "clash", !.patching = "none"]
    BY ReplayFields
  <2>2. Set(t, q)
    BY <1>2, <1>8, <2>1 DEF SettleUpdate
  <2>3. Wired(q) /\ q.wait = p.wait /\ q.formReq = p.formReq
    BY <1>2, <1>3, <1>8, <2>1 DEF Wired, Tab
  <2>4. QED
    BY <1>1, <1>2, <1>4, <2>2, <2>3, TabPlain
<1>9. CASE (SettleUpdate(t) /\ tab[t].patching # "conflict") \/ ClashRecorded(t)
  <2>1. Onwards(t)
    BY <1>9 DEF SettleUpdate, ClashRecorded
  <2>2. p.step \in {"sent", "clash"} /\ p.todo # << >>
    BY <1>2, <1>3, <1>9 DEF SettleUpdate, ClashRecorded, Wired
  <2>3. QED
    BY <1>1, <1>2, <1>3, <1>4, <2>1, <2>2, OnwardsIs, TabPlain
<1>10. CASE Break(t)
  <2>1. Stopped(t)
    BY <1>10 DEF Break
  <2>2. QED
    BY <1>1, <1>2, <1>3, <1>4, <2>1, StoppedIs, TabPlain
<1>11. CASE Reload(t)
  <2>1. PICK q \in Tab : q = Loaded(session) /\ Wired(q) /\ q.wait = NoOne /\ q.formReq = NoOne
    BY <1>1, LoadedWired
  <2>2. Set(t, q)
    BY <1>11, <2>1 DEF Reload, Set
  <2>3. QED
    BY <1>1, <1>4, <2>1, <2>2, TabPlain
<1>12. QED
  BY <1>5, <1>6, <1>7, <1>8, <1>9, <1>10, <1>11

\* A tab sends a request that was free.
LEMMA TabSends ==
  ASSUME TypeInv, NEW t \in Tabs, NEW q \in Tab, Set(t, q),
         NEW r \in Requests, NEW k \in Keys, NEW b \in Bodies, Send(r, k, b),
         Wired(q)', q.wait \in {tab[t].wait, r}, q.formReq \in {tab[t].formReq, r},
         q.wait = tab[t].wait \/ q.formReq = tab[t].formReq
  PROVE  tab' \in [Tabs -> Tab] /\ TabsInv'
<1>1. tab \in [Tabs -> Tab] /\ TabsInv /\ ServerTypes
  BY TypeParts DEF TypeInv, ServerTypeOK, ServerTypes
<1>2. \A s \in Requests : Still(s)
  BY <1>1, SendStill
<1>3. req[r] = Free
  BY <1>1, SendStill
<1>4. r \notin WaitsFor(tab[t])
  BY <1>1, <1>3, NobodyWaits
<1>5. q.wait = q.formReq => q.wait = NoOne
  <2> SUFFICES ASSUME q.wait = q.formReq, q.wait # NoOne PROVE FALSE
    OBVIOUS
  <2>1. (tab[t].wait # r /\ tab[t].formReq # r) \/ r = NoOne
    BY <1>4 DEF WaitsFor
  <2>2. r # NoOne
    BY OpsAssumption
  <2>3. QED
    BY <1>1, <2>1, <2>2 DEF TabsInv, Apart
<1>6. \A s \in WaitsFor(q) : s \in WaitsFor(tab[t]) \/ req[s] = Free
  BY <1>3 DEF WaitsFor
<1>7. QED
  BY <1>1, <1>2, <1>5, <1>6, TabMoves DEF Set

LEMMA BodyIs == BodyOf \in Bodies
  BY OpsAssumption DEF BodyOf

LEMMA SubmitMoves ==
  ASSUME TypeInv, NEW t \in Tabs, NEW c \in Creates, Submit(t, c)
  PROVE  tab' \in [Tabs -> Tab] /\ TabsInv'
<1>1. tab \in [Tabs -> Tab] /\ TabsInv /\ Wired(tab[t]) /\ session \in Tenants /\ ServerTypes
  BY TypeParts DEF TypeInv, TabsInv, ServerTypeOK, ServerTypes
<1>2. PICK p \in Tab : p = tab[t]
  BY <1>1
<1>3. Wired(p) /\ p.form = "none" /\ p.formReq = NoOne
  BY <1>1, <1>2 DEF Submit, Wired
<1>4. CASE UNCHANGED req
  <2>1. CASE Set(t, [p EXCEPT !.form = "queueing", !.formOp = c])
    <3>1. PICK q \in Tab : q = [p EXCEPT !.form = "queueing", !.formOp = c]
      BY TabFields
    <3>2. Wired(q) /\ q.wait = p.wait /\ q.formReq = p.formReq
      BY <1>3, <3>1 DEF Wired, Tab
    <3>3. QED
      BY <1>1, <1>2, <1>4, <2>1, <3>1, <3>2, TabPlain
  <2>2. CASE ~Set(t, [p EXCEPT !.form = "queueing", !.formOp = c])
    <3>1. PICK r \in Requests : Send(r, <<session, c>>, BodyOf)
      BY <1>2, <2>2 DEF Submit
    <3>2. req'[r] # req[r]
      BY <3>1, <1>1 DEF Send, Free, ServerTypes
    <3>3. QED
      BY <3>2, <1>4
  <2>3. QED
    BY <2>1, <2>2
<1>5. CASE ~UNCHANGED req
  <2>1. PICK r \in Requests : /\ Send(r, <<session, c>>, BodyOf)
                              /\ Set(t, [p EXCEPT !.form = "asked", !.formOp = c, !.formReq = r])
    BY <1>2, <1>5 DEF Submit, Unserved, server
  <2>2. PICK k \in Keys : k = <<session, c>>
    BY <1>1, OpsAssumption
  <2>3. PICK q \in Tab : q = [p EXCEPT !.form = "asked", !.formOp = c, !.formReq = r]
    BY TabFields
  <2>4. /\ q.wait = p.wait /\ q.formReq = r /\ q.form = "asked" /\ q.formOp = c
        /\ q.step = p.step /\ q.todo = p.todo /\ q.patching = p.patching
    BY <2>3 DEF Tab
  <2>5. \A s \in Requests : Still(s)
    BY <1>1, <2>1, <2>2, BodyIs, SendStill
  <2>6. req'[r] # Free
    BY <1>1, <2>1, <2>2, BodyIs, SendStill
  <2>7. p.wait # NoOne => Still(p.wait)
    BY <2>5 DEF Tab
  <2>8. r # NoOne
    BY OpsAssumption
  <2>9. Wired(q)'
    BY <1>3, <2>4, <2>6, <2>7, <2>8 DEF Wired, Still
  <2>10. Set(t, q) /\ Send(r, k, BodyOf)
    BY <2>1, <2>2, <2>3
  <2>11. QED
    BY <1>2, <2>4, <2>9, <2>10, BodyIs, TabSends
<1>6. QED
  BY <1>4, <1>5

LEMMA SendMoves ==
  ASSUME TypeInv, NEW t \in Tabs, SendNext(t)
  PROVE  tab' \in [Tabs -> Tab] /\ TabsInv'
<1>1. tab \in [Tabs -> Tab] /\ TabsInv /\ Wired(tab[t]) /\ session \in Tenants /\ ServerTypes
  BY TypeParts DEF TypeInv, TabsInv, ServerTypeOK, ServerTypes
<1>2. PICK p \in Tab : p = tab[t]
  BY <1>1
<1>3. Wired(p) /\ p.step = "next" /\ p.todo # << >> /\ p.wait = NoOne /\ p.patching = "none"
  BY <1>1, <1>2 DEF SendNext, Wired
<1>4. CASE Op(t) \in Updates /\ Unserved /\ Set(t, [p EXCEPT !.step = "sent", !.patching = "sent"])
  <2>1. PICK q \in Tab : q = [p EXCEPT !.step = "sent", !.patching = "sent"]
    BY ReplayFields
  <2>2. /\ q.wait = NoOne /\ q.formReq = p.formReq /\ q.form = p.form /\ q.formOp = p.formOp
        /\ q.step = "sent" /\ q.todo = p.todo
    BY <1>3, <2>1 DEF Tab
  <2>3. Wired(q)
    BY <1>2, <1>3, <1>4, <2>2 DEF Wired, Op
  <2>4. UNCHANGED req
    BY <1>4 DEF Unserved, server
  <2>5. QED
    BY <1>1, <1>2, <1>4, <2>1, <2>2, <2>3, <2>4, TabPlain
<1>5. CASE Op(t) \in Creates /\ \E r \in Requests : Send(r, <<session, Op(t)>>, BodyOf) /\ Set(t, [p EXCEPT !.step = "sent", !.wait = r])
  <2>1. PICK r \in Requests : /\ Send(r, <<session, Op(t)>>, BodyOf)
                              /\ Set(t, [p EXCEPT !.step = "sent", !.wait = r])
    BY <1>5
  <2>2. PICK k \in Keys : k = <<session, Op(t)>> /\ k[2] = Op(t)
    BY <1>1, <1>5, OpsAssumption
  <2>3. PICK q \in Tab : q = [p EXCEPT !.step = "sent", !.wait = r]
    BY ReplayFields
  <2>4. /\ q.wait = r /\ q.formReq = p.formReq /\ q.form = p.form /\ q.formOp = p.formOp
        /\ q.step = "sent" /\ q.todo = p.todo /\ q.patching = p.patching
    BY <2>3 DEF Tab
  <2>5. \A s \in Requests : Still(s)
    BY <1>1, <2>1, <2>2, BodyIs, SendStill
  <2>6. req'[r] # Free /\ req'[r].key = k
    BY <1>1, <2>1, <2>2, BodyIs, SendStill
  <2>7. p.formReq # NoOne => Still(p.formReq)
    BY <2>5 DEF Tab
  <2>8. Head(q.todo) = Op(t)
    BY <1>2, <2>4 DEF Op
  <2>9. Wired(q)'
    BY <1>3, <1>5, <2>2, <2>4, <2>6, <2>7, <2>8 DEF Wired, Still
  <2>10. QED
    BY <1>2, <1>3, <2>1, <2>2, <2>3, <2>4, <2>9, BodyIs, TabSends
<1>6. QED
  BY <1>2, <1>4, <1>5 DEF SendNext

\* A tab reads an answer it waited for, and waits for it no more.
LEMMA TabReceives ==
  ASSUME TypeInv, NEW t \in Tabs, NEW q \in Tab, Set(t, q),
         NEW r \in WaitsFor(tab[t]), Receive(r), Wired(q),
         q.wait \in {NoOne, tab[t].wait} \ {r}, q.formReq \in {NoOne, tab[t].formReq} \ {r}
  PROVE  tab' \in [Tabs -> Tab] /\ TabsInv'
<1>1. tab \in [Tabs -> Tab] /\ TabsInv /\ ServerTypes
  BY TypeParts DEF TypeInv, ServerTypeOK, ServerTypes
<1>2. r \in Requests
  BY <1>1, WaitsForType
<1>3. \A s \in Requests \ {r} : Still(s)
  BY <1>1, <1>2, ReceiveStill
<1>4. WaitsFor(q) \subseteq Requests \ {r}
  BY WaitsForType DEF WaitsFor
<1>5. Wired(q)'
  BY <1>3, <1>4, WiredKept
<1>6. q.wait = q.formReq => q.wait = NoOne
  BY <1>1 DEF TabsInv, Apart
<1>7. WaitsFor(q) \subseteq WaitsFor(tab[t])
  BY DEF WaitsFor
<1>8. QED
  BY <1>1, <1>3, <1>5, <1>6, <1>7, TabMoves DEF Set

LEMMA AnswerMoves ==
  ASSUME TypeInv, NEW t \in Tabs, FormAnswered(t)
  PROVE  tab' \in [Tabs -> Tab] /\ TabsInv'
<1>1. tab \in [Tabs -> Tab] /\ TabsInv /\ Wired(tab[t])
  BY TypeParts DEF TypeInv, TabsInv
<1>2. PICK p \in Tab : p = tab[t]
  BY <1>1
<1>3. Wired(p) /\ p.form = "asked" /\ p.formReq # NoOne
  BY <1>1, <1>2 DEF FormAnswered, Wired
<1>4. PICK r \in WaitsFor(tab[t]) : r = p.formReq /\ Receive(r) /\ r # NoOne
  BY <1>2, <1>3 DEF FormAnswered, WaitsFor
<1>5. p.wait # r
  BY <1>1, <1>2, <1>4 DEF TabsInv, Apart
<1>6. CASE Set(t, [p EXCEPT !.offline = TRUE, !.form = "queueing", !.formReq = NoOne])
  <2>1. PICK q \in Tab : q = [p EXCEPT !.offline = TRUE, !.form = "queueing", !.formReq = NoOne]
    BY TabFields
  <2>2. Wired(q) /\ q.wait = p.wait /\ q.formReq = NoOne
    BY <1>3, <2>1 DEF Wired, Tab
  <2>3. QED
    BY <1>2, <1>4, <1>5, <1>6, <2>1, <2>2, TabReceives
<1>7. CASE Set(t, [p EXCEPT !.form = "none", !.formOp = NoOne, !.formReq = NoOne])
  <2>1. PICK q \in Tab : q = [p EXCEPT !.form = "none", !.formOp = NoOne, !.formReq = NoOne]
    BY TabFields
  <2>2. Wired(q) /\ q.wait = p.wait /\ q.formReq = NoOne
    BY <1>3, <2>1 DEF Wired, Tab
  <2>3. QED
    BY <1>2, <1>4, <1>5, <1>7, <2>1, <2>2, TabReceives
<1>8. QED
  BY <1>2, <1>6, <1>7 DEF FormAnswered

LEMMA SettleMoves ==
  ASSUME TypeInv, NEW t \in Tabs, Settle(t)
  PROVE  tab' \in [Tabs -> Tab] /\ TabsInv'
<1>1. tab \in [Tabs -> Tab] /\ TabsInv /\ Wired(tab[t])
  BY TypeParts DEF TypeInv, TabsInv
<1>2. PICK p \in Tab : p = tab[t]
  BY <1>1
<1>3. Wired(p) /\ p.wait # NoOne /\ p.step = "sent" /\ p.todo # << >>
  BY <1>1, <1>2 DEF Settle, Wired
<1>4. PICK r \in WaitsFor(tab[t]) : r = p.wait /\ Receive(r) /\ r # NoOne
  BY <1>2, <1>3 DEF Settle, WaitsFor
<1>5. p.formReq # r
  BY <1>1, <1>2, <1>4 DEF TabsInv, Apart
<1>6. Onwards(t) \/ Stopped(t)
  BY DEF Settle, Receive, Answers
<1>7. PICK q \in Tab : Set(t, q) /\ Wired(q) /\ q.wait = NoOne /\ q.formReq = p.formReq
  BY <1>2, <1>3, <1>6, OnwardsIs, StoppedIs
<1>8. QED
  BY <1>2, <1>4, <1>5, <1>7, TabReceives

\* The server and the others leave the tabs alone.
LEMMA OthersStay ==
  ASSUME TypeInv,
         \/ \E t \in Tabs, e \in Edits : EditOffline(t, e)
         \/ PutEdit \/ ApplyMineAgain \/ OtherWrites
         \/ \E o \in Ops : DiscardOp(o)
         \/ \E o \in Updates : KeepServer(o) \/ ReadLatest(o)
         \/ (\E r \in Requests : Serve(r) \/ Unheard(r)) \/ ServerFails \/ UNCHANGED vars
  PROVE  tab' \in [Tabs -> Tab] /\ TabsInv'
<1>1. tab \in [Tabs -> Tab] /\ TabsInv /\ ServerTypes
  BY TypeParts DEF TypeInv, ServerTypeOK, ServerTypes
<1>2. UNCHANGED tab
  BY DEF EditOffline, PutEdit, ApplyMineAgain, OtherWrites, DiscardOp, KeepServer, ReadLatest, Serve, Unheard, ServerFails, vars, client
<1>3. \A s \in Requests : Still(s) \/ \A u \in Tabs : s \notin WaitsFor(tab[u])
  <2>1. CASE UNCHANGED req
    BY <2>1 DEF Still
  <2>2. ASSUME NEW r \in Requests, Serve(r) PROVE \A s \in Requests : Still(s)
    BY <1>1, <2>2, ServeStill DEF Serve
  <2>3. ASSUME NEW r \in Requests, Unheard(r) PROVE \A s \in Requests : Still(s) \/ \A u \in Tabs : s \notin WaitsFor(tab[u])
    <3>1. \A u \in Tabs : r \notin WaitsFor(tab[u])
      BY <2>3 DEF Unheard, WaitsFor
    <3>2. \A s \in Requests \ {r} : Still(s)
      BY <1>1, <2>3, ReceiveStill DEF Unheard
    <3>3. QED
      BY <3>1, <3>2
  <2>4. CASE ServerFails
    BY <1>1, <2>4, FailsStill DEF ServerFails
  <2>5. QED
    BY <2>1, <2>2, <2>3, <2>4 DEF EditOffline, PutEdit, ApplyMineAgain, OtherWrites, DiscardOp, KeepServer, ReadLatest, vars, Unserved, server
<1>4. QED
  BY <1>1, <1>2, <1>3, TabsStay

LEMMA TabsStep == TypeInv /\ [Next]_vars => tab' \in [Tabs -> Tab] /\ TabsInv'
  BY FormMoves, ReplayMoves, SubmitMoves, SendMoves, AnswerMoves, SettleMoves, OthersStay DEF Next

LEMMA TypesInitially == Init => TypeInv
<1> SUFFICES ASSUME Init PROVE TypeInv
  OBVIOUS
<1>1. ServerTypeOK
  BY FaultsAssumption DEF Init, ServerInit, ServerTypeOK, Request, Free, KeyRow, Absent
<1>2. plan \in Plans /\ session \in Tenants
  BY OpsAssumption DEF Init
<1>3. StoreTypes
  <2>1. Empty \in Record
    BY DEF Empty, Record
  <2>2. task \in TaskType
    BY DEF Init, TaskType
  <2>3. QED
    BY <1>2, <2>1, <2>2, OpsAre DEF Init, StoreTypes, EditType
<1>4. Loaded(session) \in Tab /\ [Loaded(session) EXCEPT !.step = "closed"] \in Tab
  BY <1>2, LoadedType
<1>5. tab \in [Tabs -> Tab]
  BY <1>4 DEF Init
<1>6. ASSUME NEW u \in Tabs
      PROVE  Wired(tab[u]) /\ tab[u].wait = NoOne /\ tab[u].formReq = NoOne /\ tab[u].todo = << >> /\ tab[u].patching = "none" /\ tab[u].step # "clash"
  BY DEF Init, Loaded, Wired
<1>7. Apart
  BY <1>6 DEF Apart, WaitsFor
<1>8. QED
  BY <1>1, <1>2, <1>3, <1>5, <1>6, <1>7, TypeParts DEF TypeInv, TabsInv

LEMMA TypesStep == TypeInv /\ [Next]_vars => TypeInv'
<1> SUFFICES ASSUME TypeInv, [Next]_vars PROVE TypeInv'
  OBVIOUS
<1>1. ServerTypeOK /\ session \in Tenants /\ ServerTypes
  BY TypeParts DEF TypeInv, ServerTypeOK, ServerTypes
<1>2. ServerTypes' /\ session' \in Tenants
  BY <1>1, StepsOfServer, TypesKept DEF Served, ServerTypes
<1>3. faults' \in 0..MaxFaults
  BY FaultsCounted DEF TypeInv
<1>4. ServerTypeOK'
  BY <1>2, <1>3 DEF ServerTypeOK, ServerTypes
<1>5. StoreTypes' /\ tab' \in [Tabs -> Tab] /\ TabsInv'
  BY StoresStep, TabsStep
<1>6. TypeOK'
  BY <1>2, <1>4, <1>5 DEF TypeOK, StoreTypes, TaskType, EditType
<1>7. QED
  BY <1>5, <1>6 DEF TypeInv

\* Through every offline edit, replay, reload and change of workspace the queue,
\* the conflicts, the replays and the server's tables hold what their types say,
\* and a replay that waits is at an operation of its list.
THEOREM QueueTypes == Spec => []TypeOK
<1>1. Spec => []TypeInv
  BY TypesInitially, TypesStep, PTL DEF Spec
<1>2. TypeInv => TypeOK
  BY DEF TypeInv
<1>3. QED
  BY <1>1, <1>2, PTL

-----------------------------------------------------------------------------
(* Operations in the queue *)

\* Behind an answer that says yes there is a row.
Done(r)   == req[r] # Free /\ req[r].at \in {"handled", "ok"} => rows[req[r].key] > 0
Stored(k) == table[k] # Absent /\ table[k].state = "stored" => rows[k] > 0
Answered  == (\A r \in Requests : Done(r)) /\ \A k \in Keys : Stored(k)

RowsGrow == \A k \in Keys : rows[k] > 0 => rows'[k] > 0

LEMMA KeyIs ==
  ASSUME ServerTypes, NEW r \in Requests, req[r] # Free
  PROVE  req[r].key \in Keys /\ req[r].body \in Bodies /\ req[r] \in [at : {"sent"} \cup InServer \cup Answers, key : Keys, body : Bodies]
  BY DEF ServerTypes, Request

\* A step of a request moves it along and leaves the others alone.
LEMMA GoesTo ==
  ASSUME ServerTypes, NEW r \in Requests, NEW at, req[r].at \in {"sent"} \cup InServer, Goes(r, at)
  PROVE  /\ req[r] # Free /\ req'[r].key = req[r].key /\ req'[r].at = at
         /\ \A s \in Requests \ {r} : req'[s] = req[s]
<1>1. req' = [req EXCEPT ![r].at = at] /\ req \in [Requests -> Request] /\ req[r] # Free
  BY DEF Goes, ServerTypes, Free, InServer
<1>2. req[r] \in [at : {"sent"} \cup InServer \cup Answers, key : Keys, body : Bodies]
  BY <1>1 DEF Request
<1>3. QED
  BY <1>1, <1>2

LEMMA ExecutesIs ==
  ASSUME ServerTypes, NEW r \in Requests, req[r] # Free, Executes(r)
  PROVE  rows'[req[r].key] > 0 /\ RowsGrow
<1>1. req[r].key \in Keys /\ rows \in [Keys -> Nat]
  BY KeyIs DEF ServerTypes
<1>2. rows' = [rows EXCEPT ![req[r].key] = rows[req[r].key] + 1]
  BY DEF Executes
<1>3. QED
  BY <1>1, <1>2 DEF RowsGrow

LEMMA AnsweredByRequest ==
  ASSUME ServerTypes, Answered, NEW r \in Requests, Process(r) \/ Breaks(r) \/ Lose(r)
  PROVE  Answered' /\ RowsGrow
<1>1. req[r].at \in {"sent"} \cup InServer
  BY DEF Process, Breaks, Lose, Claim, Refuse, Lookup, Commit, Reject, Store, Release, FailLate, StoreFails, InServer
<1>2. req[r] # Free
  BY <1>1 DEF Free, InServer
<1>3. req[r].key \in Keys
  BY <1>2, KeyIs
<1>4. rows \in [Keys -> Nat] /\ table \in [Keys -> KeyRow] /\ req \in [Requests -> Request]
  BY DEF ServerTypes
<1>5. RowsGrow
  <2>1. UNCHANGED rows \/ Executes(r)
    BY DEF Process, Breaks, Lose, Claim, Refuse, Lookup, Commit, Reject, Store, Release, FailLate, StoreFails
  <2>2. QED
    BY <1>2, <2>1, ExecutesIs DEF RowsGrow
<1>6. ASSUME NEW s \in Requests \ {r}, req'[s] = req[s]
      PROVE  Done(s)'
  <2>1. Done(s)
    BY DEF Answered
  <2>2. req[s] # Free => req[s].key \in Keys
    BY KeyIs
  <2>3. QED
    BY <1>5, <1>6, <2>1, <2>2 DEF Done, RowsGrow
<1>7. ASSUME NEW k \in Keys, table'[k] = table[k] \/ table'[k] = Absent \/ table'[k].state = "claimed"
      PROVE  Stored(k)'
  <2>1. Stored(k)
    BY DEF Answered
  <2>2. QED
    BY <1>5, <1>7, <2>1 DEF Stored, RowsGrow
<1>8. CASE Commit(r) \/ FailLate(r)
  <2>1. Executes(r) /\ UNCHANGED table /\ (Goes(r, "handled") \/ Goes(r, "failed"))
    BY <1>8 DEF Commit, FailLate
  <2>2. rows'[req[r].key] > 0
    BY <1>2, <2>1, ExecutesIs
  <2>3. req'[r].key = req[r].key /\ \A s \in Requests \ {r} : req'[s] = req[s]
    BY <1>1, <2>1, GoesTo
  <2>4. Done(r)'
    BY <2>2, <2>3 DEF Done
  <2>5. \A s \in Requests : Done(s)'
    BY <1>6, <2>3, <2>4
  <2>6. \A k \in Keys : Stored(k)'
    BY <1>7, <2>1
  <2>7. QED
    BY <1>5, <2>5, <2>6 DEF Answered
<1>9. CASE Claim(r) \/ Refuse(r) \/ Reject(r) \/ StoreFails(r) \/ Release(r) \/ Lose(r)
  <2>1. PICK at \in {"running", "refused", "failed", "rejected", "lost"} : Goes(r, at)
    BY <1>9 DEF Claim, Refuse, Reject, StoreFails, Release, Lose
  <2>2. req'[r].at = at /\ \A s \in Requests \ {r} : req'[s] = req[s]
    BY <1>1, <2>1, GoesTo
  <2>3. \A s \in Requests : Done(s)'
    BY <1>6, <2>2 DEF Done
  <2>4. \A k \in Keys : table'[k] = table[k] \/ table'[k] = Absent \/ table'[k].state = "claimed"
    BY <1>3, <1>4, <1>9 DEF Claim, Refuse, Reject, StoreFails, Release, Lose, SetKey
  <2>5. QED
    BY <1>5, <1>7, <2>3, <2>4 DEF Answered
<1>10. CASE Lookup(r)
  <2>1. UNCHANGED table /\ UNCHANGED rows
    BY <1>10 DEF Lookup
  <2>2. PICK at \in {"ok", "rejected"} : Goes(r, at) /\ (at = "ok" => KeyOf(r) = [state |-> "stored", body |-> req[r].body])
    BY <1>10 DEF Lookup
  <2>3. req'[r].key = req[r].key /\ req'[r].at = at /\ \A s \in Requests \ {r} : req'[s] = req[s]
    BY <1>1, <2>2, GoesTo
  <2>4. at = "ok" => rows[req[r].key] > 0
    BY <1>3, <2>2 DEF Answered, Stored, KeyOf, Absent
  <2>5. Done(r)'
    BY <2>1, <2>3, <2>4 DEF Done
  <2>6. QED
    BY <1>5, <1>6, <1>7, <2>1, <2>3, <2>5 DEF Answered
<1>11. CASE Store(r)
  <2>1. UNCHANGED rows /\ Goes(r, "ok") /\ req[r].at = "handled"
    BY <1>11 DEF Store
  <2>2. rows[req[r].key] > 0
    BY <1>2, <2>1 DEF Answered, Done
  <2>3. req'[r].key = req[r].key /\ \A s \in Requests \ {r} : req'[s] = req[s]
    BY <1>1, <2>1, GoesTo
  <2>4. Done(r)'
    BY <2>1, <2>2, <2>3 DEF Done
  <2>5. \A k \in Keys \ {req[r].key} : table'[k] = table[k]
    BY <1>4, <1>11 DEF Store, SetKey
  <2>6. \A k \in Keys : Stored(k)'
    BY <1>7, <2>1, <2>2, <2>5 DEF Stored
  <2>7. QED
    BY <1>5, <1>6, <2>3, <2>4, <2>6 DEF Answered
<1>12. QED
  BY <1>8, <1>9, <1>10, <1>11 DEF Process, Breaks

LEMMA AnsweredByServer ==
  ASSUME ServerTypes, Answered, Served
  PROVE  Answered' /\ RowsGrow
<1>1. rows \in [Keys -> Nat] /\ table \in [Keys -> KeyRow] /\ req \in [Requests -> Request]
  BY DEF ServerTypes
<1>2. CASE UNCHANGED <<req, table, rows, givenUp>>
  BY <1>2 DEF Answered, Done, Stored, RowsGrow
<1>3. ASSUME NEW r \in Requests, NEW k \in Keys, NEW b \in Bodies, Send(r, k, b) PROVE Answered' /\ RowsGrow
  <2>1. UNCHANGED <<table, rows>> /\ req'[r] = [at |-> "sent", key |-> k, body |-> b] /\ \A s \in Requests \ {r} : req'[s] = req[s]
    BY <1>1, <1>3 DEF Send
  <2>2. req'[r].at = "sent"
    BY <2>1
  <2>3. QED
    BY <2>1, <2>2 DEF Answered, Done, Stored, RowsGrow
<1>4. ASSUME NEW r \in Requests, Receive(r) PROVE Answered' /\ RowsGrow
  <2>1. UNCHANGED <<table, rows>> /\ req'[r] = Free /\ \A s \in Requests \ {r} : req'[s] = req[s]
    BY <1>1, <1>4 DEF Receive
  <2>2. QED
    BY <2>1 DEF Answered, Done, Stored, RowsGrow
<1>5. ASSUME NEW r \in Requests, Process(r) \/ Breaks(r) \/ Lose(r) PROVE Answered' /\ RowsGrow
  BY <1>5, AnsweredByRequest
<1>6. CASE ServerStops
  <2>1. UNCHANGED <<table, rows>>
    BY <1>6 DEF ServerStops
  <2>2. ASSUME NEW r \in Requests PROVE Done(r)'
    <3>1. req'[r] = IF req[r].at \in InServer THEN [req[r] EXCEPT !.at = "lost"] ELSE req[r]
      BY <1>6 DEF ServerStops
    <3>2. CASE req[r].at \in InServer
      <4>1. req[r] # Free
        BY <3>2 DEF Free, InServer
      <4>2. req'[r].at = "lost"
        BY <3>1, <3>2, <4>1, KeyIs
      <4>3. QED
        BY <4>2 DEF Done
    <3>3. CASE req[r].at \notin InServer
      BY <2>1, <3>1, <3>3 DEF Answered, Done
    <3>4. QED
      BY <3>2, <3>3
  <2>3. QED
    BY <2>1, <2>2 DEF Answered, Stored, RowsGrow
<1>7. ASSUME NEW k \in Keys, Purge(k) PROVE Answered' /\ RowsGrow
  <2>1. UNCHANGED <<req, rows>> /\ table'[k] = Absent /\ \A j \in Keys \ {k} : table'[j] = table[j]
    BY <1>1, <1>7 DEF Purge
  <2>2. QED
    BY <2>1 DEF Answered, Done, Stored, RowsGrow
<1>8. QED
  BY <1>2, <1>3, <1>4, <1>5, <1>6, <1>7 DEF Served, ServerNext

\* What one operation of the queue may become: it stays, it is put, or it goes
\* because the user gave it up or its creation has a row.
Kept(c)   == queue[c].born > 0 /\ c \notin dropped => queue[c].status # "none" \/ \E n \in Tenants : rows[<<n, c>>] > 0
Stays(c)  == queue'[c].born = queue[c].born /\ queue'[c].status = queue[c].status
Lives(c)  == Stays(c) \/ queue'[c].status # "none" \/ c \in dropped' \/ \E n \in Tenants : rows[<<n, c>>] > 0

LEMMA KeptFrame ==
  ASSUME NEW c \in Creates, Kept(c), Lives(c), dropped \subseteq dropped', RowsGrow
  PROVE  Kept(c)'
<1>1. \A n \in Tenants : <<n, c>> \in Keys
  BY OpsAssumption
<1>2. (\E n \in Tenants : rows[<<n, c>>] > 0) => (\E n \in Tenants : rows'[<<n, c>>] > 0)
  BY <1>1 DEF RowsGrow
<1>3. QED
  BY <1>2 DEF Kept, Lives, Stays

LEMMA DroppedGrows ==
  ASSUME [Next]_vars
  PROVE  dropped \subseteq dropped'
<1> USE DEF Unstored, client
<1>1. ASSUME NEW t \in Tabs,
             \/ \E c \in Creates : Submit(t, c)
             \/ \E e \in Edits : EditOffline(t, e) \/ EditBreaks(t, e)
             \/ FormAnswered(t) \/ FormBreaks(t) \/ Enqueue(t)
             \/ Recover(t) \/ SyncNow(t) \/ Snapshot(t) \/ SendNext(t) \/ Finish(t)
      PROVE  UNCHANGED dropped
  BY <1>1 DEF Submit, EditOffline, EditBreaks, FormAnswered, FormBreaks, Enqueue, Recover, SyncNow, Snapshot, SendNext, Finish
<1>2. ASSUME NEW t \in Tabs,
             \/ Settle(t) \/ ServeUpdate(t) \/ SettleUpdate(t) \/ ClashRecorded(t) \/ Break(t)
             \/ \E o \in Ops : RetryOp(t, o)
      PROVE  UNCHANGED dropped
  BY <1>2 DEF Settle, ServeUpdate, SettleUpdate, ClashRecorded, Break, RetryOp
<1>3. ASSUME NEW t \in Tabs, Reload(t)
      PROVE  dropped \subseteq dropped'
  BY <1>3 DEF Reload
<1>4. ASSUME NEW t \in Tabs, NEW n \in Tenants, SwitchWorkspace(t, n)
      PROVE  dropped \subseteq dropped'
  BY <1>4 DEF SwitchWorkspace
<1>5. ASSUME NEW o \in Ops, DiscardOp(o)
      PROVE  dropped \subseteq dropped'
  BY <1>5 DEF DiscardOp
<1>6. ASSUME NEW o \in Updates, KeepServer(o) \/ ReadLatest(o)
      PROVE  dropped \subseteq dropped'
  BY <1>6 DEF KeepServer, ReadLatest
<1>7. CASE PutEdit \/ ApplyMineAgain \/ OtherWrites \/ ServerFails \/ UNCHANGED vars
  BY <1>7 DEF PutEdit, ApplyMineAgain, OtherWrites, ServerFails, vars
<1>8. ASSUME NEW r \in Requests, Serve(r) \/ Unheard(r)
      PROVE  UNCHANGED dropped
  BY <1>8 DEF Serve, Unheard
<1>9. QED
  BY <1>1, <1>2, <1>3, <1>4, <1>5, <1>6, <1>7, <1>8 DEF Next

LEMMA LivesByTab ==
  ASSUME TypeInv, NEW c \in Creates, NEW t \in Tabs,
         \/ \E d \in Creates : Submit(t, d)
         \/ \E e \in Edits : EditOffline(t, e) \/ EditBreaks(t, e)
         \/ FormAnswered(t) \/ FormBreaks(t) \/ Enqueue(t)
         \/ Recover(t) \/ SyncNow(t) \/ Snapshot(t) \/ SendNext(t) \/ Finish(t)
         \/ ServeUpdate(t) \/ Break(t) \/ Reload(t) \/ \E o \in Ops : RetryOp(t, o)
  PROVE  Lives(c)
<1> USE DEF Unstored
<1>1. StoreTypes /\ TabsInv /\ c \in Ops
  BY TypeParts, OpsAre DEF TypeInv
<1>2. CASE UNCHANGED queue
  BY <1>2 DEF Lives, Stays
<1>3. CASE Enqueue(t)
  <2>1. tab[t].formOp \in Ops
    BY <1>1, <1>3, OpsAre DEF Enqueue, TabsInv, Wired
  <2>2. PICK o \in Ops : PutOp(o, "pending", {}, 0)
    BY <1>3, <2>1 DEF Enqueue
  <2>3. queue'[o].status = "pending" /\ \A u \in Ops \ {o} : queue'[u] = queue[u]
    BY <1>1, <2>2, PutType DEF StoreTypes
  <2>4. QED
    BY <1>1, <2>3 DEF Lives, Stays
<1>4. ASSUME NEW o \in Ops, RetryOp(t, o) PROVE Lives(c)
  <2>1. queue'[o].status = "pending" /\ \A u \in Ops \ {o} : queue'[u] = queue[u]
    BY <1>1, <1>4 DEF RetryOp, StoreTypes, Record
  <2>2. QED
    BY <1>1, <2>1 DEF Lives, Stays
<1>5. QED
  BY <1>2, <1>3, <1>4 DEF Submit, EditOffline, EditBreaks, FormAnswered, FormBreaks, Recover, SyncNow, Snapshot, SendNext, Finish,
                          ServeUpdate, Break, Reload

LEMMA LivesByReplay ==
  ASSUME TypeInv, Answered, NEW c \in Creates, NEW t \in Tabs, Settle(t) \/ SettleUpdate(t) \/ ClashRecorded(t)
  PROVE  Lives(c)
<1>1. StoreTypes /\ TabsInv /\ c \in Ops /\ tab \in [Tabs -> Tab] /\ Wired(tab[t]) /\ ServerTypes
  BY TypeParts, OpsAre DEF TypeInv, TabsInv, ServerTypeOK, ServerTypes
<1>2. CASE UNCHANGED queue
  BY <1>2 DEF Lives, Stays
<1>3. CASE ~UNCHANGED queue
  <2>1. tab[t].todo # << >>
    BY <1>1 DEF Settle, SettleUpdate, ClashRecorded, Wired
  <2>2. PICK o \in Ops : o = Op(t)
    BY <1>1, <2>1, OpIs
  <2>3. CASE Refused(t)
    <3>1. PICK p \in SUBSET Edits, b \in Nat : PutOp(o, "error", p, b)
      BY <1>1, <2>2, <2>3, RefusedIs
    <3>2. queue'[o].status = "error" /\ \A u \in Ops \ {o} : queue'[u] = queue[u]
      BY <1>1, <3>1, PutType DEF StoreTypes
    <3>3. QED
      BY <1>1, <3>2 DEF Lives, Stays
  <2>4. CASE Delete(Op(t))
    <3>1. \A u \in Ops \ {o} : queue'[u] = queue[u]
      BY <1>1, <2>2, <2>4, DeleteType DEF StoreTypes
    <3>2. CASE c # o
      BY <1>1, <3>1, <3>2 DEF Lives, Stays
    <3>3. CASE c = o
      <4>1. Settle(t)
        BY <1>1, <1>3, <2>2, <3>3, OpsAre DEF SettleUpdate, ClashRecorded, Wired, Op
      <4>2. CASE req[tab[t].wait].at = "ok"
        <5>1. tab[t].wait \in Requests /\ req[tab[t].wait] # Free /\ req[tab[t].wait].key[2] = Op(t)
          BY <1>1, <4>1, TabIs DEF Settle, Wired, Op
        <5>2. rows[req[tab[t].wait].key] > 0 /\ req[tab[t].wait].key \in Tenants \X Creates
          BY <1>1, <4>2, <5>1, KeyIs, OpsAssumption DEF Answered, Done
        <5>3. PICK n \in Tenants : req[tab[t].wait].key = <<n, c>>
          BY <2>2, <3>3, <5>1, <5>2
        <5>4. QED
          BY <5>2, <5>3 DEF Lives
      <4>3. CASE req[tab[t].wait].at = "rejected"
        <5>1. Refused(t)
          BY <4>1, <4>3 DEF Settle
        <5>2. QED
          BY <5>1, <2>3
      <4>4. CASE req[tab[t].wait].at = "lost"
        BY <4>1, <4>4, <1>3 DEF Settle
      <4>5. QED
        BY <4>1, <4>2, <4>3, <4>4 DEF Settle, Receive, Answers
    <3>4. QED
      BY <3>2, <3>3
  <2>5. UNCHANGED queue \/ Delete(Op(t)) \/ Refused(t)
    <3>1. Settle(t) => UNCHANGED queue \/ Delete(Op(t)) \/ Refused(t)
      BY DEF Settle, Receive, Answers
    <3>2. SettleUpdate(t) => UNCHANGED queue \/ Delete(Op(t)) \/ Refused(t)
      BY DEF SettleUpdate
    <3>3. ClashRecorded(t) => Delete(Op(t))
      BY DEF ClashRecorded
    <3>4. QED
      BY <3>1, <3>2, <3>3
  <2>6. QED
    BY <1>3, <2>3, <2>4, <2>5
<1>4. QED
  BY <1>2, <1>3

LEMMA LivesByOthers ==
  ASSUME TypeInv, NEW c \in Creates,
         \/ \E t \in Tabs, n \in Tenants : SwitchWorkspace(t, n)
         \/ PutEdit \/ ApplyMineAgain \/ OtherWrites
         \/ \E o \in Ops : DiscardOp(o)
         \/ \E o \in Updates : KeepServer(o) \/ ReadLatest(o)
         \/ (\E r \in Requests : Serve(r) \/ Unheard(r)) \/ ServerFails \/ UNCHANGED vars
  PROVE  Lives(c)
<1>1. StoreTypes /\ c \in Ops
  BY TypeParts, OpsAre DEF TypeInv
<1>2. CASE UNCHANGED queue
  BY <1>2 DEF Lives, Stays
<1>3. ASSUME NEW t \in Tabs, NEW n \in Tenants, SwitchWorkspace(t, n) PROVE Lives(c)
  <2> DEFINE wiped == {o \in Ops : under[o] # n}
  <2>1. queue[c] \in Record
    BY <1>1 DEF StoreTypes
  <2>2. queue'[c] = IF c \in wiped THEN [queue[c] EXCEPT !.status = "none", !.patch = {}] ELSE queue[c]
    BY <1>1, <1>3 DEF SwitchWorkspace
  <2>3. c \in wiped /\ queue[c].status # "none" => c \in dropped'
    <3>1. {o \in wiped \cap Creates : queue[o].status # "none"} \subseteq dropped'
      BY <1>3 DEF SwitchWorkspace
    <3>2. QED
      BY <3>1
  <2>4. QED
    BY <2>1, <2>2, <2>3 DEF Lives, Stays, Record
<1>4. CASE PutEdit
  <2>1. edit.op \in Ops /\ edit.patch \in SUBSET Edits /\ edit.base \in Nat
    BY <1>1, <1>4, OpsAre DEF PutEdit, StoreTypes, EditType
  <2>2. PICK o \in Ops, p \in SUBSET Edits, b \in Nat : PutOp(o, "pending", p, b)
    BY <1>4, <2>1 DEF PutEdit
  <2>3. queue'[o].status = "pending" /\ \A u \in Ops \ {o} : queue'[u] = queue[u]
    BY <1>1, <2>2, PutType DEF StoreTypes
  <2>4. QED
    BY <1>1, <2>3 DEF Lives, Stays
<1>5. ASSUME NEW o \in Ops, DiscardOp(o) PROVE Lives(c)
  <2>1. \A u \in Ops \ {o} : queue'[u] = queue[u]
    BY <1>1, <1>5, DeleteType DEF DiscardOp, StoreTypes
  <2>2. c = o => c \in dropped'
    BY <1>5 DEF DiscardOp
  <2>3. QED
    BY <1>1, <2>1, <2>2 DEF Lives, Stays
<1>6. QED
  BY <1>2, <1>3, <1>4, <1>5 DEF ApplyMineAgain, OtherWrites, KeepServer, ReadLatest, Serve, Unheard, ServerFails, vars, client, Unstored

LEMMA LivesStep == TypeInv /\ Answered /\ [Next]_vars => \A c \in Creates : Lives(c)
  BY LivesByTab, LivesByReplay, LivesByOthers DEF Next

QueueKeeps == TypeInv /\ Answered /\ \A c \in Creates : Kept(c)

LEMMA KeepsStep == QueueKeeps /\ [Next]_vars => QueueKeeps'
<1> SUFFICES ASSUME QueueKeeps, [Next]_vars PROVE QueueKeeps'
  OBVIOUS
<1>1. TypeInv /\ Answered
  BY DEF QueueKeeps
<1>2. TypeInv'
  BY <1>1, TypesStep
<1>3. ServerTypes /\ session \in Tenants
  BY <1>1, TypeParts DEF TypeInv, ServerTypeOK, ServerTypes
<1>4. Served
  BY <1>3, StepsOfServer
<1>5. Answered' /\ RowsGrow
  BY <1>1, <1>3, <1>4, AnsweredByServer
<1>6. \A c \in Creates : Kept(c)'
  BY <1>1, <1>5, LivesStep, DroppedGrows, KeptFrame DEF QueueKeeps
<1>7. QED
  BY <1>2, <1>5, <1>6 DEF QueueKeeps

\* However many tabs replay it, whatever answers are lost: an operation once put
\* into the queue is there until a handler has committed it or the user gave it up.
THEOREM QueueCorrect == Spec => []QueuedNotLost
<1>1. Init => QueueKeeps
  <2> SUFFICES ASSUME Init PROVE QueueKeeps
    OBVIOUS
  <2>1. TypeInv
    BY TypesInitially
  <2>2. Answered
    BY DEF Init, ServerInit, Answered, Done, Stored
  <2>3. \A c \in Creates : Kept(c)
    BY OpsAre DEF Init, Kept, Empty
  <2>4. QED
    BY <2>1, <2>2, <2>3 DEF QueueKeeps
<1>2. Spec => []QueueKeeps
  BY <1>1, KeepsStep, PTL DEF Spec
<1>3. QueueKeeps => QueuedNotLost
  BY DEF QueueKeeps, Kept, QueuedNotLost
<1>4. QED
  BY <1>2, <1>3, PTL

-----------------------------------------------------------------------------
(* Edits of the task *)

\* Where an edit need not be kept any more.
Gone == spoilt \cup task.applied \cup dropped

InReplay(t, o) == o \in Range(tab[t].todo)
SnapOf(t, o)   == tab[t].snap[o][1]

\* An operation holds an edit: in the queue, in conflict, or in a replay.
Holds(o, e)  == \/ e \in queue[o].patch \/ e \in conflicts[o]
                \/ \E t \in Tabs : InReplay(t, o) /\ e \in SnapOf(t, o)
\* Whatever may be written over that has the edit as well.
Ready(o, e)  == /\ queue[o].status # "none" => e \in queue[o].patch
                /\ \A t \in Tabs : InReplay(t, o) => e \in SnapOf(t, o)
                /\ edit # NoOne /\ edit.op = o => e \in edit.patch
Whole(o)     == \A e \in Edits \ Gone : Holds(o, e) => Ready(o, e)
InUse(o)     == \/ queue[o].status # "none" \/ conflicts[o] # {}
                \/ \E t \in Tabs : InReplay(t, o)
                \/ edit # NoOne /\ edit.op = o
Known(o)     == InUse(o) => home[o] # NoOne
Emptied(o)   == queue[o].status = "none" => queue[o].patch = {}

\* What a replay has heard and not yet written to the queue.
AtOk(t)    == tab[t].patching = "ok" => SnapOf(t, Op(t)) \subseteq task.applied
AtClash(t) == tab[t].step = "clash" => SnapOf(t, Op(t)) \subseteq conflicts[Op(t)] \cup Gone

Safe(e) == \/ e \in Gone
           \/ \E o \in Updates : e \in queue[o].patch \cup conflicts[o]
           \/ edit # NoOne /\ e \in edit.patch

\* Why an edit is kept: whatever may be written over an operation has all of it.
EditInv ==
  /\ \A o \in Updates : Whole(o) /\ Known(o) /\ Emptied(o)
  /\ \A t \in Tabs : AtOk(t) /\ AtClash(t)
  /\ \A e \in made \cap Edits : Safe(e)

LEMMA SetOne ==
  ASSUME tab \in [Tabs -> Tab], NEW t \in Tabs, NEW q, Set(t, q)
  PROVE  tab'[t] = q /\ \A u \in Tabs \ {t} : tab'[u] = tab[u]
  BY DEF Set

\* A tab keeps what it replays, and where it is.
Alike(u)  == /\ tab'[u].todo = tab[u].todo /\ tab'[u].snap = tab[u].snap
             /\ tab'[u].patching = "ok" => tab[u].patching = "ok"
             /\ tab'[u].step = "clash" => tab[u].step = "clash"
\* It is through with an operation, or with all.
Leaves(u) == /\ \/ tab'[u].todo = << >>
                \/ tab[u].todo # << >> /\ tab'[u].todo = Tail(tab[u].todo) /\ tab'[u].snap = tab[u].snap
             /\ tab'[u].patching # "ok" /\ tab'[u].step # "clash"

LEMMA FormAlike ==
  ASSUME TypeInv, NEW t \in Tabs,
         \/ \E e \in Edits : EditBreaks(t, e)
         \/ FormBreaks(t) \/ Enqueue(t) \/ Recover(t) \/ SyncNow(t) \/ FormAnswered(t)
         \/ \E c \in Creates : Submit(t, c)
         \/ \E o \in Ops : RetryOp(t, o)
         \/ \E n \in Tenants : SwitchWorkspace(t, n)
  PROVE  \A u \in Tabs : Alike(u)
<1>1. tab \in [Tabs -> Tab] /\ tab[t] \in Tab
  BY TypeParts DEF TypeInv
<1>2. PICK p \in Tab : p = tab[t]
  BY <1>1
<1>3. SUFFICES \E q : /\ Set(t, q)
                      /\ q.todo = p.todo /\ q.snap = p.snap /\ q.patching = p.patching
                      /\ q.step = "clash" => p.step = "clash"
  BY <1>1, <1>2, SetOne DEF Alike
<1>4. ASSUME NEW e \in Edits, EditBreaks(t, e) PROVE <1>3!1
  <2>1. PICK q : q = [p EXCEPT !.offline = TRUE]
    OBVIOUS
  <2>2. Set(t, q)
    BY <1>2, <1>4, <2>1 DEF EditBreaks
  <2>3. q.todo = p.todo /\ q.snap = p.snap /\ q.patching = p.patching /\ q.step = p.step
    BY <2>1 DEF Tab
  <2>4. QED
    BY <2>2, <2>3
<1>5. ASSUME FormBreaks(t) \/ FormAnswered(t) PROVE <1>3!1
  <2>1. PICK q : Set(t, q) /\ (q = [p EXCEPT !.offline = TRUE, !.form = "queueing", !.formReq = NoOne]
                              \/ q = [p EXCEPT !.form = "none", !.formOp = NoOne, !.formReq = NoOne])
    BY <1>2, <1>5 DEF FormBreaks, FormAnswered
  <2>2. q.todo = p.todo /\ q.snap = p.snap /\ q.patching = p.patching /\ q.step = p.step
    BY <2>1 DEF Tab
  <2>3. QED
    BY <2>1, <2>2
<1>6. CASE Enqueue(t)
  <2>1. PICK q : q = [p EXCEPT !.form = "none", !.formOp = NoOne]
    OBVIOUS
  <2>2. Set(t, q)
    BY <1>2, <1>6, <2>1 DEF Enqueue
  <2>3. q.todo = p.todo /\ q.snap = p.snap /\ q.patching = p.patching /\ q.step = p.step
    BY <2>1 DEF Tab
  <2>4. QED
    BY <2>2, <2>3
<1>7. CASE Recover(t)
  <2>1. PICK q : q = [p EXCEPT !.offline = FALSE, !.step = IF p.step = "idle" THEN "starting" ELSE p.step]
    OBVIOUS
  <2>2. Set(t, q)
    BY <1>2, <1>7, <2>1 DEF Recover
  <2>3. q.todo = p.todo /\ q.snap = p.snap /\ q.patching = p.patching /\ q.step = IF p.step = "idle" THEN "starting" ELSE p.step
    BY <2>1 DEF Tab
  <2>4. QED
    BY <2>2, <2>3
<1>8. CASE SyncNow(t)
  <2>1. PICK q : q = [p EXCEPT !.step = "starting"]
    OBVIOUS
  <2>2. Set(t, q)
    BY <1>2, <1>8, <2>1 DEF SyncNow
  <2>3. q.todo = p.todo /\ q.snap = p.snap /\ q.patching = p.patching /\ q.step = "starting"
    BY <2>1 DEF Tab
  <2>4. QED
    BY <2>2, <2>3
<1>9. ASSUME NEW o \in Ops, RetryOp(t, o) PROVE <1>3!1
  <2>1. PICK q : q = [p EXCEPT !.step = IF p.step = "idle" THEN "starting" ELSE p.step]
    OBVIOUS
  <2>2. Set(t, q)
    BY <1>2, <1>9, <2>1 DEF RetryOp
  <2>3. q.todo = p.todo /\ q.snap = p.snap /\ q.patching = p.patching /\ q.step = IF p.step = "idle" THEN "starting" ELSE p.step
    BY <2>1 DEF Tab
  <2>4. QED
    BY <2>2, <2>3
<1>10. ASSUME NEW n \in Tenants, SwitchWorkspace(t, n) PROVE <1>3!1
  <2>1. PICK q : q = [p EXCEPT !.scope = n]
    OBVIOUS
  <2>2. Set(t, q)
    BY <1>2, <1>10, <2>1 DEF SwitchWorkspace
  <2>3. q.todo = p.todo /\ q.snap = p.snap /\ q.patching = p.patching /\ q.step = p.step
    BY <2>1 DEF Tab
  <2>4. QED
    BY <2>2, <2>3
<1>11. ASSUME NEW c \in Creates, Submit(t, c) PROVE <1>3!1
  <2>1. PICK q : /\ Set(t, q)
                 /\ \/ q = [p EXCEPT !.form = "queueing", !.formOp = c]
                    \/ \E r \in Requests : q = [p EXCEPT !.form = "asked", !.formOp = c, !.formReq = r]
    BY <1>2, <1>11 DEF Submit
  <2>2. q.todo = p.todo /\ q.snap = p.snap /\ q.patching = p.patching /\ q.step = p.step
    BY <2>1 DEF Tab
  <2>3. QED
    BY <2>1, <2>2
<1>12. QED
  BY <1>4, <1>5, <1>6, <1>7, <1>8, <1>9, <1>10, <1>11

LEMMA SendAlike ==
  ASSUME TypeInv, NEW t \in Tabs, SendNext(t)
  PROVE  \A u \in Tabs : Alike(u)
<1>1. tab \in [Tabs -> Tab] /\ tab[t] \in Tab
  BY TypeParts DEF TypeInv
<1>2. PICK p \in Tab : p = tab[t]
  BY <1>1
<1>3. PICK q : /\ Set(t, q)
               /\ \/ q = [p EXCEPT !.step = "sent", !.patching = "sent"]
                  \/ \E r \in Requests : q = [p EXCEPT !.step = "sent", !.wait = r]
  BY <1>2 DEF SendNext
<1>4. q.todo = p.todo /\ q.snap = p.snap /\ q.patching \in {p.patching, "sent"} /\ q.step = "sent"
  BY <1>3 DEF Tab
<1>5. tab'[t] = q /\ \A u \in Tabs \ {t} : tab'[u] = tab[u]
  BY <1>1, <1>3, SetOne
<1>6. Alike(t)
  BY <1>2, <1>4, <1>5 DEF Alike
<1>7. QED
  BY <1>5, <1>6 DEF Alike

\* The steps that bring a replay on.
LEMMA ReplayLeaves ==
  ASSUME TypeInv, NEW t \in Tabs,
         \/ Finish(t) \/ Settle(t) \/ ClashRecorded(t) \/ Break(t) \/ Reload(t)
         \/ SettleUpdate(t) /\ tab[t].patching # "conflict"
  PROVE  /\ \A u \in Tabs \ {t} : tab'[u] = tab[u]
         /\ Leaves(t)
<1>1. tab \in [Tabs -> Tab] /\ tab[t] \in Tab /\ TabsInv /\ Wired(tab[t]) /\ session \in Tenants
  BY TypeParts DEF TypeInv, TabsInv
<1>2. PICK p \in Tab : p = tab[t]
  BY <1>1
<1>3. Wired(p)
  BY <1>1, <1>2
<1>4. SUFFICES \E q : /\ Set(t, q)
                      /\ q.todo = << >> \/ (p.todo # << >> /\ q.todo = Tail(p.todo) /\ q.snap = p.snap)
                      /\ q.patching # "ok" /\ q.step # "clash"
  BY <1>1, <1>2, SetOne DEF Leaves
<1>5. CASE Finish(t)
  <2>1. PICK q : q = [p EXCEPT !.offline = FALSE, !.step = "idle", !.snap = [o \in Updates |-> <<{}, 0>>]]
    OBVIOUS
  <2>2. Set(t, q)
    BY <1>2, <1>5, <2>1 DEF Finish
  <2>3. q.todo = << >> /\ q.patching = "none" /\ q.step = "idle"
    BY <1>2, <1>3, <1>5, <2>1 DEF Tab, Finish, Wired
  <2>4. QED
    BY <2>2, <2>3
<1>6. CASE Break(t)
  BY <1>2, <1>3, <1>6, StoppedIs DEF Break
<1>7. CASE Settle(t)
  <2>1. p.step = "sent" /\ p.todo # << >>
    BY <1>2, <1>3, <1>7 DEF Settle, Wired
  <2>2. Onwards(t) \/ Stopped(t)
    BY <1>7 DEF Settle, Receive, Answers
  <2>3. CASE Onwards(t)
    <3>1. PICK q \in Tab : Set(t, q) /\ q.todo = Tail(p.todo) /\ q.snap = p.snap /\ q.step = "next" /\ q.patching = "none"
      BY <1>2, <1>3, <2>1, <2>3, OnwardsIs
    <3>2. QED
      BY <2>1, <3>1
  <2>4. CASE Stopped(t)
    <3>1. PICK q \in Tab : Set(t, q) /\ q.todo = << >> /\ q.step = "idle" /\ q.patching = "none"
      BY <1>2, <1>3, <2>4, StoppedIs
    <3>2. QED
      BY <3>1
  <2>5. QED
    BY <2>2, <2>3, <2>4
<1>8. CASE ClashRecorded(t) \/ (SettleUpdate(t) /\ tab[t].patching # "conflict")
  <2>1. Onwards(t)
    BY <1>8 DEF SettleUpdate, ClashRecorded
  <2>2. p.step \in {"sent", "clash"} /\ p.todo # << >>
    BY <1>2, <1>3, <1>8 DEF SettleUpdate, ClashRecorded, Wired
  <2>3. PICK q \in Tab : Set(t, q) /\ q.todo = Tail(p.todo) /\ q.snap = p.snap /\ q.step = "next" /\ q.patching = "none"
    BY <1>2, <1>3, <2>1, <2>2, OnwardsIs
  <2>4. QED
    BY <2>2, <2>3
<1>9. CASE Reload(t)
  <2>1. PICK q \in Tab : q = Loaded(session) /\ q.todo = << >> /\ q.patching = "none" /\ q.step = "starting"
    BY <1>1, LoadedWired
  <2>2. Set(t, q)
    BY <1>9, <2>1 DEF Reload, Set
  <2>3. QED
    BY <2>1, <2>2
<1>10. QED
  BY <1>5, <1>6, <1>7, <1>8, <1>9

LEMMA AppliedGrows ==
  ASSUME TypeInv, [Next]_vars
  PROVE  task.applied \subseteq task'.applied
<1> USE DEF Unshared, client
<1>1. task \in TaskType
  BY TypeParts DEF TypeInv, StoreTypes
<1>2. SUFFICES ASSUME ~UNCHANGED task PROVE \E p : Applies(p) \/ task'.applied = task.applied
  BY DEF Applies
<1>3. ASSUME NEW t \in Tabs,
             \/ \E c \in Creates : Submit(t, c)
             \/ FormAnswered(t) \/ FormBreaks(t) \/ Enqueue(t)
             \/ Recover(t) \/ SyncNow(t) \/ Snapshot(t) \/ SendNext(t) \/ Finish(t)
             \/ Settle(t) \/ SettleUpdate(t) \/ ClashRecorded(t) \/ Reload(t)
             \/ \E o \in Ops : RetryOp(t, o)
             \/ \E n \in Tenants : SwitchWorkspace(t, n)
      PROVE  UNCHANGED task
  BY <1>3 DEF Submit, FormAnswered, FormBreaks, Enqueue, Recover, SyncNow, Snapshot, SendNext, Finish, Settle, SettleUpdate,
              ClashRecorded, Reload, RetryOp, SwitchWorkspace
<1>4. ASSUME NEW t \in Tabs, NEW e \in Edits, EditOffline(t, e) \/ EditBreaks(t, e)
      PROVE  UNCHANGED task \/ Applies({e})
  BY <1>4 DEF EditOffline, EditBreaks
<1>5. ASSUME NEW t \in Tabs, ServeUpdate(t) \/ Break(t)
      PROVE  UNCHANGED task \/ Applies(tab[t].snap[Op(t)][1])
  BY <1>5 DEF ServeUpdate, Break
<1>6. CASE ApplyMineAgain
  BY <1>2, <1>6 DEF ApplyMineAgain
<1>7. CASE OtherWrites
  BY <1>1, <1>7 DEF OtherWrites, TaskType
<1>8. CASE PutEdit \/ (\E o \in Ops : DiscardOp(o)) \/ (\E o \in Updates : KeepServer(o) \/ ReadLatest(o))
           \/ (\E r \in Requests : Serve(r) \/ Unheard(r)) \/ ServerFails \/ UNCHANGED vars
  BY <1>2, <1>8 DEF PutEdit, DiscardOp, KeepServer, ReadLatest, Serve, Unheard, ServerFails, vars
<1>9. QED
  BY <1>2, <1>3, <1>4, <1>5, <1>6, <1>7, <1>8 DEF Next

LEMMA SpoiltGrows ==
  ASSUME [Next]_vars
  PROVE  spoilt \subseteq spoilt'
<1> USE DEF Unstored, client
<1>1. ASSUME NEW t \in Tabs,
             \/ \E c \in Creates : Submit(t, c)
             \/ \E e \in Edits : EditOffline(t, e) \/ EditBreaks(t, e)
             \/ FormAnswered(t) \/ FormBreaks(t) \/ Enqueue(t)
             \/ Recover(t) \/ SyncNow(t) \/ Snapshot(t) \/ SendNext(t) \/ Finish(t)
      PROVE  UNCHANGED spoilt
  BY <1>1 DEF Submit, EditOffline, EditBreaks, FormAnswered, FormBreaks, Enqueue, Recover, SyncNow, Snapshot, SendNext, Finish
<1>2. ASSUME NEW t \in Tabs,
             \/ Settle(t) \/ ServeUpdate(t) \/ SettleUpdate(t) \/ ClashRecorded(t) \/ Break(t) \/ Reload(t)
             \/ \E o \in Ops : RetryOp(t, o)
             \/ \E n \in Tenants : SwitchWorkspace(t, n)
      PROVE  UNCHANGED spoilt
  BY <1>2 DEF Settle, ServeUpdate, SettleUpdate, ClashRecorded, Break, Reload, RetryOp, SwitchWorkspace
<1>3. CASE PutEdit
  BY <1>3 DEF PutEdit
<1>4. CASE ApplyMineAgain \/ OtherWrites \/ ServerFails \/ UNCHANGED vars \/ (\E o \in Ops : DiscardOp(o))
           \/ (\E o \in Updates : KeepServer(o) \/ ReadLatest(o)) \/ (\E r \in Requests : Serve(r) \/ Unheard(r))
  BY <1>4 DEF ApplyMineAgain, OtherWrites, ServerFails, vars, DiscardOp, KeepServer, ReadLatest, Serve, Unheard
<1>5. QED
  BY <1>1, <1>2, <1>3, <1>4 DEF Next

LEMMA GoneGrows ==
  ASSUME TypeInv, [Next]_vars
  PROVE  task.applied \subseteq task'.applied /\ Gone \subseteq Gone'
  BY AppliedGrows, SpoiltGrows, DroppedGrows DEF Gone

-----------------------------------------------------------------------------
\* The record of an operation stays, or is emptied.
SameStore(o)   == queue'[o].patch = queue[o].patch /\ (queue'[o].status = "none" <=> queue[o].status = "none")
QuietStore(o)  == /\ SameStore(o) \/ (queue'[o].status = "none" /\ queue'[o].patch = {})
                  /\ conflicts'[o] \subseteq conflicts[o]
QuietEdit(o)   == edit' = edit \/ edit' = NoOne \/ edit'.op # o
QuietReplay(o) == \A u \in Tabs : o \in Range(tab'[u].todo) => o \in Range(tab[u].todo) /\ tab'[u].snap = tab[u].snap
HomeKept(o)    == home[o] # NoOne => home'[o] # NoOne

OpInv(o) == Whole(o) /\ Known(o) /\ Emptied(o)

LEMMA QuietFrame ==
  ASSUME NEW o \in Updates, OpInv(o), QuietStore(o), QuietEdit(o), QuietReplay(o), HomeKept(o), Gone \subseteq Gone'
  PROVE  OpInv(o)'
<1>1. \A u \in Tabs : InReplay(u, o)' => InReplay(u, o) /\ SnapOf(u, o)' = SnapOf(u, o)
  BY DEF QuietReplay, InReplay, SnapOf
<1>2. ASSUME NEW e \in Edits, e \notin Gone', Holds(o, e)'
      PROVE  Ready(o, e)'
  <2>1. Holds(o, e)
    BY <1>1, <1>2 DEF Holds, QuietStore, SameStore
  <2>2. Ready(o, e)
    BY <1>2, <2>1 DEF OpInv, Whole
  <2>3. (queue'[o].status # "none") => e \in queue'[o].patch
    BY <2>2 DEF QuietStore, SameStore, Ready
  <2>4. \A u \in Tabs : InReplay(u, o)' => e \in SnapOf(u, o)'
    BY <1>1, <2>2 DEF Ready
  <2>5. edit' # NoOne /\ edit'.op = o => e \in edit'.patch
    BY <2>2 DEF Ready, QuietEdit
  <2>6. QED
    BY <2>3, <2>4, <2>5 DEF Ready
<1>3. Whole(o)'
  BY <1>2 DEF Whole
<1>4. Known(o)'
  <2>1. queue'[o].status # "none" => queue[o].status # "none"
    BY DEF QuietStore, SameStore
  <2>2. conflicts'[o] # {} => conflicts[o] # {}
    BY DEF QuietStore
  <2>3. edit' # NoOne /\ edit'.op = o => edit # NoOne /\ edit.op = o
    BY DEF QuietEdit
  <2>4. QED
    BY <1>1, <2>1, <2>2, <2>3 DEF Known, InUse, OpInv, HomeKept
<1>5. Emptied(o)'
  BY DEF OpInv, Emptied, QuietStore, SameStore
<1>6. QED
  BY <1>3, <1>4, <1>5 DEF OpInv

LEMMA QuietTabs ==
  ASSUME tab \in [Tabs -> Tab], \A u \in Tabs : Alike(u) \/ Leaves(u), NEW o \in Updates
  PROVE  QuietReplay(o)
<1> SUFFICES ASSUME NEW u \in Tabs, o \in Range(tab'[u].todo)
             PROVE  o \in Range(tab[u].todo) /\ tab'[u].snap = tab[u].snap
  BY DEF QuietReplay
<1>1. CASE Alike(u)
  BY <1>1 DEF Alike
<1>2. CASE tab'[u].todo = << >>
  BY <1>2 DEF Range
<1>3. CASE tab[u].todo # << >> /\ tab'[u].todo = Tail(tab[u].todo) /\ tab'[u].snap = tab[u].snap
  BY <1>3, OpIs
<1>4. QED
  BY <1>1, <1>2, <1>3 DEF Leaves

ConfKept(o)  == conflicts[o] \subseteq conflicts'[o] \cup Gone'
PatchKept(o) == queue[o].patch \subseteq queue'[o].patch \cup conflicts'[o] \cup Gone'
SafeNext(e)  == \/ e \in Gone'
                \/ \E o \in Updates : e \in queue'[o].patch \cup conflicts'[o]
                \/ edit' # NoOne /\ e \in edit'.patch
EditKept     == edit # NoOne => edit' = edit \/ \A e \in edit.patch : SafeNext(e)

LEMMA TabFacts ==
  ASSUME TypeInv, EditInv, NEW u \in Tabs, Alike(u) \/ Leaves(u), task.applied \subseteq task'.applied, Gone \subseteq Gone',
         \A o \in Updates : ConfKept(o)
  PROVE  AtOk(u)' /\ AtClash(u)'
<1>1. CASE Leaves(u)
  BY <1>1 DEF Leaves, AtOk, AtClash
<1>2. CASE Alike(u)
  <2>1. Op(u)' = Op(u) /\ \A o : SnapOf(u, o)' = SnapOf(u, o)
    BY <1>2 DEF Alike, Op, SnapOf
  <2>2. PICK o : o = Op(u)
    OBVIOUS
  <2>3. SnapOf(u, Op(u))' = SnapOf(u, o)
    BY <2>1, <2>2 DEF SnapOf
  <2>4. AtOk(u)'
    BY <1>2, <2>2, <2>3 DEF AtOk, EditInv, Alike
  <2>5. CASE tab'[u].step = "clash"
    <3>1. tab[u].step = "clash"
      BY <1>2, <2>5 DEF Alike
    <3>2. o \in Updates
      BY <2>2, <3>1 DEF TypeInv, TabsInv, Wired, Op
    <3>3. SnapOf(u, o) \subseteq conflicts[o] \cup Gone
      BY <2>2, <3>1 DEF EditInv, AtClash
    <3>4. SnapOf(u, o) \subseteq conflicts'[o] \cup Gone'
      BY <3>2, <3>3 DEF ConfKept
    <3>5. QED
      BY <2>1, <2>2, <2>3, <2>4, <3>4 DEF AtClash
  <2>6. QED
    BY <2>4, <2>5 DEF AtClash
<1>3. QED
  BY <1>1, <1>2

LEMMA EditFrame ==
  ASSUME TypeInv, EditInv, task.applied \subseteq task'.applied, Gone \subseteq Gone',
         \A o \in Updates : OpInv(o)',
         \A o \in Updates : ConfKept(o) /\ PatchKept(o),
         EditKept,
         \A u \in Tabs : Alike(u) \/ Leaves(u) \/ (AtOk(u)' /\ AtClash(u)'),
         \A e \in (made' \ made) \cap Edits : SafeNext(e)
  PROVE  EditInv'
<1>1. \A u \in Tabs : AtOk(u)' /\ AtClash(u)'
  BY TabFacts
<1>2. ASSUME NEW e \in made' \cap Edits
      PROVE  SafeNext(e)
  <2>1. CASE e \in made
    <3>1. Safe(e)
      BY <2>1 DEF EditInv
    <3>2. CASE e \in Gone
      BY <3>2 DEF SafeNext
    <3>3. ASSUME NEW o \in Updates, e \in queue[o].patch \cup conflicts[o] PROVE SafeNext(e)
      BY <3>3 DEF SafeNext, ConfKept, PatchKept
    <3>4. CASE edit # NoOne /\ e \in edit.patch
      BY <3>4 DEF SafeNext, EditKept
    <3>5. QED
      BY <3>1, <3>2, <3>3, <3>4 DEF Safe
  <2>2. QED
    BY <2>1
<1>3. \A e \in made' \cap Edits : Safe(e)'
  BY <1>2 DEF Safe, SafeNext
<1>4. QED
  BY <1>1, <1>3 DEF EditInv, OpInv

\* A step that writes neither the edits of an operation nor what PutEdit will.
LEMMA IdleFrame ==
  ASSUME TypeInv, EditInv, [Next]_vars,
         \A o \in Updates : SameStore(o) /\ conflicts'[o] = conflicts[o] /\ HomeKept(o) /\ QuietReplay(o),
         edit' = edit, (made' \ made) \cap Edits = {},
         \A u \in Tabs : Alike(u) \/ Leaves(u) \/ (AtOk(u)' /\ AtClash(u)')
  PROVE  EditInv'
<1>1. task.applied \subseteq task'.applied /\ Gone \subseteq Gone'
  BY GoneGrows
<1>2. ASSUME NEW o \in Updates PROVE OpInv(o)'
  <2>1. OpInv(o)
    BY DEF EditInv, OpInv
  <2>2. QuietStore(o) /\ QuietEdit(o) /\ QuietReplay(o) /\ HomeKept(o)
    BY DEF QuietStore, QuietEdit
  <2>3. QED
    BY <1>1, <2>1, <2>2, QuietFrame
<1>3. \A o \in Updates : ConfKept(o) /\ PatchKept(o)
  BY DEF ConfKept, PatchKept, SameStore
<1>4. EditKept
  BY DEF EditKept
<1>5. QED
  BY <1>1, <1>2, <1>3, <1>4, EditFrame

\* The steps that leave the edits where they are.
IdleByTab(t) ==
  \/ \E c \in Creates : Submit(t, c)
  \/ FormAnswered(t) \/ FormBreaks(t) \/ Enqueue(t)
  \/ Recover(t) \/ SyncNow(t) \/ SendNext(t) \/ Finish(t) \/ Break(t)
  \/ \E o \in Ops : RetryOp(t, o)

LEMMA EditsByIdleTab ==
  ASSUME TypeInv, EditInv, [Next]_vars, NEW t \in Tabs, IdleByTab(t)
  PROVE  EditInv'
<1> USE DEF Unstored
<1>1. StoreTypes /\ tab \in [Tabs -> Tab] /\ TabsInv /\ Wired(tab[t])
  BY TypeParts DEF TypeInv, TabsInv
<1>2. \A u \in Tabs : Alike(u) \/ Leaves(u)
  <2>1. CASE Finish(t) \/ Break(t)
    BY <2>1, ReplayLeaves DEF Alike
  <2>2. CASE ~(Finish(t) \/ Break(t))
    BY <2>2, FormAlike, SendAlike DEF IdleByTab
  <2>3. QED
    BY <2>1, <2>2
<1>3. edit' = edit /\ conflicts' = conflicts
  BY DEF IdleByTab, Submit, FormAnswered, FormBreaks, Enqueue, Recover, SyncNow, SendNext, Finish, Break, RetryOp
<1>4. \A o \in Updates : HomeKept(o)
  <2>1. CASE UNCHANGED home
    BY <2>1 DEF HomeKept
  <2>2. ASSUME NEW c \in Creates, Submit(t, c)
        PROVE  \A o \in Updates : HomeKept(o)
    BY <1>1, <2>2, OpsAre DEF Submit, StoreTypes, HomeKept
  <2>3. QED
    BY <2>1, <2>2 DEF IdleByTab, FormAnswered, FormBreaks, Enqueue, Recover, SyncNow, SendNext, Finish, Break, RetryOp
<1>5. (made' \ made) \cap Edits = {}
  <2>1. CASE UNCHANGED made
    BY <2>1
  <2>2. ASSUME NEW c \in Creates, Submit(t, c)
        PROVE  (made' \ made) \cap Edits = {}
    BY <2>2, OpsAssumption DEF Submit
  <2>3. QED
    BY <2>1, <2>2 DEF IdleByTab, FormAnswered, FormBreaks, Enqueue, Recover, SyncNow, SendNext, Finish, Break, RetryOp
<1>6. \A o \in Updates : SameStore(o)
  <2>1. CASE UNCHANGED queue
    BY <2>1 DEF SameStore
  <2>2. CASE Enqueue(t)
    <3>1. tab[t].formOp \in Creates /\ tab[t].formOp \in Ops
      BY <1>1, <2>2, OpsAre DEF Enqueue, Wired
    <3>2. PICK c \in Creates : c \in Ops /\ PutOp(c, "pending", {}, 0)
      BY <2>2, <3>1 DEF Enqueue
    <3>3. \A u \in Ops \ {c} : queue'[u] = queue[u]
      BY <1>1, <3>2, PutType DEF StoreTypes
    <3>4. QED
      BY <3>3, OpsAre DEF SameStore
  <2>3. ASSUME NEW o \in Ops, RetryOp(t, o)
        PROVE  \A x \in Updates : SameStore(x)
    <3>1. queue[o] \in Record /\ queue[o].status = "error"
      BY <1>1, <2>3 DEF StoreTypes, RetryOp
    <3>2. queue' = [queue EXCEPT ![o] = [queue[o] EXCEPT !.status = "pending"]]
      BY <2>3 DEF RetryOp
    <3>3. queue'[o].patch = queue[o].patch /\ queue'[o].status = "pending" /\ \A x \in Ops \ {o} : queue'[x] = queue[x]
      BY <1>1, <3>1, <3>2 DEF StoreTypes, Record
    <3>4. QED
      BY <3>1, <3>3, OpsAre DEF SameStore
  <2>4. QED
    BY <2>1, <2>2, <2>3 DEF IdleByTab, Submit, FormAnswered, FormBreaks, Recover, SyncNow, SendNext, Finish, Break
<1>7. \A o \in Updates : QuietReplay(o)
  BY <1>1, <1>2, QuietTabs
<1>8. QED
  BY <1>2, <1>3, <1>4, <1>5, <1>6, <1>7, IdleFrame

LEMMA EditsByIdleOthers ==
  ASSUME TypeInv, EditInv, [Next]_vars,
         OtherWrites \/ (\E o \in Updates : ReadLatest(o)) \/ (\E r \in Requests : Serve(r) \/ Unheard(r)) \/ ServerFails \/ UNCHANGED vars
  PROVE  EditInv'
<1>1. tab \in [Tabs -> Tab]
  BY TypeParts DEF TypeInv
<1>2. UNCHANGED <<tab, queue, conflicts, edit, home, made>>
  BY DEF OtherWrites, ReadLatest, Serve, Unheard, ServerFails, vars, client
<1>3. \A u \in Tabs : Alike(u)
  BY <1>2 DEF Alike
<1>4. \A o \in Updates : SameStore(o) /\ HomeKept(o)
  BY <1>2 DEF SameStore, HomeKept
<1>5. \A o \in Updates : QuietReplay(o)
  BY <1>1, <1>3, QuietTabs
<1>6. QED
  BY <1>2, <1>3, <1>4, <1>5, IdleFrame

\* The server answers a PATCH.
LEMMA EditsByServe ==
  ASSUME TypeInv, EditInv, [Next]_vars, NEW t \in Tabs, ServeUpdate(t)
  PROVE  EditInv'
<1>1. StoreTypes /\ tab \in [Tabs -> Tab] /\ Wired(tab[t])
  BY TypeParts DEF TypeInv, TabsInv
<1>2. PICK p \in Tab : p = tab[t]
  BY <1>1
<1>3. UNCHANGED <<queue, conflicts, edit, home, made>>
  BY DEF ServeUpdate, Unstored
<1>4. tab[t].patching = "sent" /\ Op(t) \in Updates /\ tab[t].step = "sent"
  BY <1>1 DEF ServeUpdate, Wired, Op
<1>5. PICK a \in {"ok", "conflict", "rejected"} :
        Set(t, [p EXCEPT !.patching = a]) /\ (a = "ok" => Applies(tab[t].snap[Op(t)][1]))
  BY <1>2 DEF ServeUpdate
<1>6. PICK q : q = [p EXCEPT !.patching = a]
  OBVIOUS
<1>7. q.todo = p.todo /\ q.snap = p.snap /\ q.patching = a /\ q.step = p.step
  BY <1>6 DEF Tab
<1>8. tab'[t] = q /\ \A u \in Tabs \ {t} : tab'[u] = tab[u]
  BY <1>1, <1>5, <1>6, SetOne
<1>9. \A u \in Tabs \ {t} : Alike(u)
  BY <1>8 DEF Alike
<1>10. AtOk(t)' /\ AtClash(t)'
  <2>1. tab'[t].step # "clash"
    BY <1>2, <1>4, <1>7, <1>8
  <2>2. tab'[t].todo = tab[t].todo /\ tab'[t].snap = tab[t].snap
    BY <1>2, <1>7, <1>8
  <2>3. SnapOf(t, Op(t))' = tab[t].snap[Op(t)][1]
    BY <2>2 DEF SnapOf, Op
  <2>4. a = "ok" => tab[t].snap[Op(t)][1] \subseteq task'.applied
    BY <1>5 DEF Applies
  <2>5. QED
    BY <1>7, <1>8, <2>1, <2>3, <2>4 DEF AtOk, AtClash
<1>11. \A o \in Updates : SameStore(o) /\ HomeKept(o) /\ QuietReplay(o)
  BY <1>2, <1>3, <1>7, <1>8 DEF SameStore, HomeKept, QuietReplay
<1>12. QED
  BY <1>3, <1>9, <1>10, <1>11, IdleFrame

-----------------------------------------------------------------------------
\* A step that deletes operations, conflicts or the put of an edit: what they
\* held is elsewhere.
LEMMA QuietStep ==
  ASSUME TypeInv, EditInv, [Next]_vars,
         \A o \in Updates : QuietStore(o) /\ QuietEdit(o) /\ HomeKept(o),
         \A o \in Updates : ConfKept(o) /\ PatchKept(o), EditKept,
         (made' \ made) \cap Edits = {},
         \A u \in Tabs : Alike(u) \/ Leaves(u)
  PROVE  EditInv'
<1>1. task.applied \subseteq task'.applied /\ Gone \subseteq Gone'
  BY GoneGrows
<1>2. ASSUME NEW o \in Updates PROVE OpInv(o)'
  <2>1. OpInv(o)
    BY DEF EditInv, OpInv
  <2>2. QuietReplay(o)
    BY QuietTabs, TypeParts DEF TypeInv
  <2>3. QED
    BY <1>1, <2>1, <2>2, QuietFrame
<1>3. QED
  BY <1>1, <1>2, EditFrame

\* An answer: what is deleted was applied, or is in conflict.
LEMMA EditsByDelete ==
  ASSUME TypeInv, EditInv, [Next]_vars, NEW t \in Tabs, Delete(Op(t)),
         Settle(t) \/ ClashRecorded(t) \/ (SettleUpdate(t) /\ tab[t].patching = "ok")
  PROVE  EditInv'
<1>1. StoreTypes /\ tab \in [Tabs -> Tab] /\ TabsInv /\ Wired(tab[t])
  BY TypeParts DEF TypeInv, TabsInv
<1>2. \A u \in Tabs : Alike(u) \/ Leaves(u)
  BY ReplayLeaves DEF Alike
<1>3. tab[t].todo # << >>
  BY <1>1 DEF Settle, SettleUpdate, ClashRecorded, Wired
<1>4. PICK o \in Ops : o = Op(t) /\ InReplay(t, o)
  BY <1>1, <1>3, OpIs DEF InReplay
<1>5. queue'[o].status = "none" /\ queue'[o].patch = {} /\ \A x \in Ops \ {o} : queue'[x] = queue[x]
  BY <1>1, <1>4, DeleteType DEF StoreTypes
<1>6. UNCHANGED <<conflicts, edit, home, made>>
  BY DEF Settle, SettleUpdate, ClashRecorded
<1>7. \A x \in Updates : QuietStore(x) /\ QuietEdit(x) /\ HomeKept(x) /\ ConfKept(x)
  BY <1>5, <1>6, OpsAre DEF QuietStore, SameStore, QuietEdit, HomeKept, ConfKept
<1>8. Gone \subseteq Gone'
  BY GoneGrows
<1>9. o \in Updates => SnapOf(t, o) \subseteq conflicts[o] \cup Gone
  <2>1. CASE Settle(t)
    BY <1>1, <1>4, <2>1, OpsAre DEF Settle, Wired, Op
  <2>2. CASE ClashRecorded(t)
    BY <1>4, <2>2 DEF ClashRecorded, EditInv, AtClash
  <2>3. CASE SettleUpdate(t) /\ tab[t].patching = "ok"
    BY <1>4, <2>3 DEF EditInv, AtOk, Gone
  <2>4. QED
    BY <2>1, <2>2, <2>3
<1>10. o \in Updates => queue[o].patch \subseteq conflicts[o] \cup Gone
  <2> SUFFICES ASSUME o \in Updates, NEW e \in queue[o].patch, e \notin Gone PROVE e \in conflicts[o]
    OBVIOUS
  <2>1. e \in Edits
    BY <1>1, <1>4 DEF StoreTypes, Record
  <2>2. Ready(o, e)
    BY <2>1 DEF EditInv, Whole, Holds
  <2>3. e \in SnapOf(t, o)
    BY <1>4, <2>2 DEF Ready
  <2>4. QED
    BY <1>9, <2>3
<1>11. \A x \in Updates : PatchKept(x)
  BY <1>5, <1>6, <1>8, <1>10, OpsAre DEF PatchKept
<1>12. EditKept
  BY <1>6 DEF EditKept
<1>13. QED
  BY <1>2, <1>6, <1>7, <1>11, <1>12, QuietStep

\* The replay stops before an answer.
LEMMA EditsByStop ==
  ASSUME TypeInv, EditInv, [Next]_vars, NEW t \in Tabs, Settle(t), UNCHANGED queue
  PROVE  EditInv'
<1>1. tab \in [Tabs -> Tab]
  BY TypeParts DEF TypeInv
<1>2. \A u \in Tabs : Alike(u) \/ Leaves(u)
  BY ReplayLeaves DEF Alike
<1>3. UNCHANGED <<queue, conflicts, edit, home, made>>
  BY DEF Settle
<1>4. \A o \in Updates : SameStore(o) /\ HomeKept(o) /\ QuietReplay(o)
  BY <1>1, <1>2, <1>3, QuietTabs DEF SameStore, HomeKept
<1>5. QED
  BY <1>2, <1>3, <1>4, IdleFrame

\* An operation is refused: what the replay read is put back, which is all of it.
LEMMA EditsByRefusal ==
  ASSUME TypeInv, EditInv, [Next]_vars, NEW t \in Tabs, Refused(t),
         Settle(t) \/ (SettleUpdate(t) /\ tab[t].patching # "conflict")
  PROVE  EditInv'
<1>1. StoreTypes /\ tab \in [Tabs -> Tab] /\ TabsInv /\ Wired(tab[t])
  BY TypeParts DEF TypeInv, TabsInv
<1>2. \A u \in Tabs : Alike(u) \/ Leaves(u)
  BY ReplayLeaves DEF Alike
<1>3. tab[t].todo # << >>
  BY <1>1 DEF Settle, SettleUpdate, Wired
<1>4. PICK o \in Ops : o = Op(t) /\ InReplay(t, o)
  BY <1>1, <1>3, OpIs DEF InReplay
<1>5. PICK p \in SUBSET Edits, b \in Nat : PutOp(o, "error", p, b) /\ (o \in Updates => p = SnapOf(t, o))
  BY <1>1, <1>4, RefusedIs DEF SnapOf
<1>6. queue'[o].status = "error" /\ queue'[o].patch = p /\ \A x \in Ops \ {o} : queue'[x] = queue[x]
  BY <1>1, <1>5, PutType DEF StoreTypes
<1>7. UNCHANGED <<conflicts, edit, home, made>>
  BY DEF Settle, SettleUpdate
<1>8. task.applied \subseteq task'.applied /\ Gone \subseteq Gone'
  BY GoneGrows
<1>9. \A x \in Updates : OpInv(x) /\ QuietEdit(x) /\ HomeKept(x) /\ ConfKept(x) /\ QuietReplay(x)
  BY <1>1, <1>2, <1>7, QuietTabs DEF EditInv, OpInv, QuietEdit, HomeKept, ConfKept
<1>10. ASSUME NEW x \in Updates, x # o PROVE OpInv(x)' /\ PatchKept(x)
  <2>1. queue'[x] = queue[x]
    BY <1>6, <1>10, OpsAre
  <2>2. QuietStore(x)
    BY <1>7, <2>1 DEF QuietStore, SameStore
  <2>3. QED
    BY <1>8, <1>9, <2>1, <2>2, QuietFrame DEF PatchKept
<1>11. ASSUME o \in Updates PROVE OpInv(o)' /\ PatchKept(o)
  <2>1. queue'[o].patch = SnapOf(t, o)
    BY <1>5, <1>6, <1>11
  <2>2. \A u \in Tabs : InReplay(u, o)' => InReplay(u, o) /\ SnapOf(u, o)' = SnapOf(u, o)
    BY <1>9, <1>11 DEF QuietReplay, InReplay, SnapOf
  <2>3. ASSUME NEW e \in Edits, e \notin Gone, Holds(o, e)
        PROVE  Ready(o, e) /\ e \in SnapOf(t, o)
    BY <1>4, <1>11, <2>3 DEF EditInv, Whole, Ready
  <2>4. ASSUME NEW e \in Edits, e \notin Gone', Holds(o, e)'
        PROVE  Ready(o, e)'
    <3>1. Holds(o, e)
      BY <1>4, <1>7, <2>1, <2>2, <2>4 DEF Holds
    <3>2. Ready(o, e) /\ e \in SnapOf(t, o)
      BY <1>8, <2>3, <2>4, <3>1
    <3>3. QED
      BY <1>7, <2>1, <2>2, <3>2 DEF Ready
  <2>5. Whole(o)'
    BY <2>4 DEF Whole
  <2>6. Known(o)'
    BY <1>4, <1>7, <1>11 DEF EditInv, Known, InUse
  <2>7. Emptied(o)'
    BY <1>6 DEF Emptied
  <2>8. PatchKept(o)
    <3> SUFFICES ASSUME NEW e \in queue[o].patch, e \notin Gone' PROVE e \in queue'[o].patch
      BY DEF PatchKept
    <3>1. e \in Edits
      BY <1>1, <1>4 DEF StoreTypes, Record
    <3>2. e \in SnapOf(t, o)
      BY <1>8, <2>3, <3>1 DEF Holds
    <3>3. QED
      BY <2>1, <3>2
  <2>9. QED
    BY <2>5, <2>6, <2>7, <2>8 DEF OpInv
<1>12. EditKept
  BY <1>7 DEF EditKept
<1>13. \A x \in Updates : OpInv(x)' /\ ConfKept(x) /\ PatchKept(x)
  BY <1>9, <1>10, <1>11
<1>14. QED
  BY <1>2, <1>7, <1>8, <1>12, <1>13, EditFrame

\* A conflict is recorded over the one there is, with all that it holds.
LEMMA EditsByConflict ==
  ASSUME TypeInv, EditInv, [Next]_vars, NEW t \in Tabs, SettleUpdate(t), tab[t].patching = "conflict"
  PROVE  EditInv'
<1>1. StoreTypes /\ tab \in [Tabs -> Tab] /\ TabsInv /\ Wired(tab[t])
  BY TypeParts DEF TypeInv, TabsInv
<1>2. PICK p \in Tab : p = tab[t]
  BY <1>1
<1>3. tab[t].todo # << >> /\ Op(t) \in Updates
  BY <1>1 DEF Wired, Op
<1>4. PICK o \in Updates : o = Op(t) /\ InReplay(t, o)
  BY <1>1, <1>3, OpIs DEF InReplay
<1>5. UNCHANGED <<queue, edit, home, made>> /\ conflicts' = [conflicts EXCEPT ![o] = SnapOf(t, o)]
  BY <1>4 DEF SettleUpdate, SnapOf
<1>6. conflicts'[o] = SnapOf(t, o) /\ \A x \in Updates \ {o} : conflicts'[x] = conflicts[x]
  BY <1>1, <1>5 DEF StoreTypes
<1>7. PICK q : q = [p EXCEPT !.step = "clash", !.patching = "none"]
  OBVIOUS
<1>8. q.todo = p.todo /\ q.snap = p.snap /\ q.patching = "none" /\ q.step = "clash"
  BY <1>7 DEF Tab
<1>9. tab'[t] = q /\ \A u \in Tabs \ {t} : tab'[u] = tab[u]
  BY <1>1, <1>2, <1>7, SetOne DEF SettleUpdate
<1>10. \A u \in Tabs : tab'[u].todo = tab[u].todo /\ tab'[u].snap = tab[u].snap
  BY <1>2, <1>8, <1>9
<1>11. task.applied \subseteq task'.applied /\ Gone \subseteq Gone'
  BY GoneGrows
<1>12. \A x \in Updates : OpInv(x) /\ QuietEdit(x) /\ HomeKept(x) /\ PatchKept(x) /\ QuietReplay(x)
  BY <1>5, <1>10 DEF EditInv, OpInv, QuietEdit, HomeKept, PatchKept, QuietReplay
<1>13. ASSUME NEW x \in Updates, x # o PROVE OpInv(x)' /\ ConfKept(x)
  <2>1. QuietStore(x)
    BY <1>5, <1>6, <1>13 DEF QuietStore, SameStore
  <2>2. QED
    BY <1>6, <1>11, <1>12, <1>13, <2>1, QuietFrame DEF ConfKept
<1>14. OpInv(o)' /\ ConfKept(o)
  <2>1. \A u \in Tabs : (InReplay(u, o)' <=> InReplay(u, o)) /\ SnapOf(u, o)' = SnapOf(u, o)
    BY <1>10 DEF InReplay, SnapOf
  <2>2. ASSUME NEW e \in Edits, e \notin Gone', Holds(o, e)'
        PROVE  Ready(o, e)'
    <3>1. Holds(o, e)
      BY <1>4, <1>5, <1>6, <2>1, <2>2 DEF Holds
    <3>2. Ready(o, e)
      BY <1>11, <2>2, <3>1 DEF EditInv, Whole
    <3>3. QED
      BY <1>5, <2>1, <3>2 DEF Ready
  <2>3. Whole(o)'
    BY <2>2 DEF Whole
  <2>4. Known(o)' /\ Emptied(o)'
    BY <1>4, <1>5 DEF EditInv, Known, InUse, Emptied
  <2>5. ConfKept(o)
    <3> SUFFICES ASSUME NEW e \in conflicts[o], e \notin Gone' PROVE e \in conflicts'[o]
      BY DEF ConfKept
    <3>1. e \in Edits
      BY <1>1 DEF StoreTypes
    <3>2. Ready(o, e)
      BY <1>11, <3>1 DEF EditInv, Whole, Holds
    <3>3. QED
      BY <1>4, <1>6, <3>2 DEF Ready
  <2>6. QED
    BY <2>3, <2>4, <2>5 DEF OpInv
<1>15. AtOk(t)' /\ AtClash(t)'
  <2>1. Op(t)' = o
    BY <1>4, <1>10 DEF Op
  <2>2. SnapOf(t, Op(t))' = SnapOf(t, o)
    BY <1>10, <2>1 DEF SnapOf
  <2>3. QED
    BY <1>6, <1>8, <1>9, <2>1, <2>2 DEF AtOk, AtClash
<1>16. \A u \in Tabs : Alike(u) \/ (AtOk(u)' /\ AtClash(u)')
  BY <1>9, <1>15 DEF Alike
<1>17. EditKept
  BY <1>5 DEF EditKept
<1>18. \A x \in Updates : OpInv(x)' /\ ConfKept(x) /\ PatchKept(x)
  BY <1>12, <1>13, <1>14
<1>19. QED
  BY <1>5, <1>11, <1>16, <1>17, <1>18, EditFrame

LEMMA EditsByAnswer ==
  ASSUME TypeInv, EditInv, [Next]_vars, NEW t \in Tabs, Settle(t) \/ SettleUpdate(t) \/ ClashRecorded(t)
  PROVE  EditInv'
<1>1. CASE Settle(t)
  <2>1. UNCHANGED queue \/ Delete(Op(t)) \/ Refused(t)
    BY <1>1 DEF Settle, Receive, Answers
  <2>2. QED
    BY <1>1, <2>1, EditsByStop, EditsByDelete, EditsByRefusal
<1>2. CASE SettleUpdate(t)
  <2>1. \/ tab[t].patching = "conflict"
        \/ Delete(Op(t)) /\ tab[t].patching = "ok"
        \/ Refused(t) /\ tab[t].patching = "rejected"
    BY <1>2 DEF SettleUpdate
  <2>2. QED
    BY <1>2, <2>1, EditsByConflict, EditsByDelete, EditsByRefusal
<1>3. CASE ClashRecorded(t)
  BY <1>3, EditsByDelete DEF ClashRecorded
<1>4. QED
  BY <1>1, <1>2, <1>3

\* The page is loaded again: an edit on its way to the queue goes with it.
LEMMA EditsByReload ==
  ASSUME TypeInv, EditInv, [Next]_vars, NEW t \in Tabs, Reload(t)
  PROVE  EditInv'
<1>1. StoreTypes
  BY TypeParts DEF TypeInv
<1>2. \A u \in Tabs : Alike(u) \/ Leaves(u)
  BY ReplayLeaves DEF Alike
<1>3. UNCHANGED <<queue, conflicts, home, made>> /\ (edit' = edit \/ edit' = NoOne)
  BY DEF Reload
<1>4. EditKept
  <2> SUFFICES ASSUME edit # NoOne, edit' # edit, NEW e \in edit.patch PROVE SafeNext(e)
    BY DEF EditKept
  <2>1. dropped' = dropped \cup (edit.patch \ queue[edit.op].patch) /\ edit.op \in Updates
    BY <1>1 DEF Reload, StoreTypes, EditType
  <2>2. CASE e \in queue[edit.op].patch
    BY <1>3, <2>1, <2>2 DEF SafeNext
  <2>3. CASE e \notin queue[edit.op].patch
    BY <2>1, <2>3 DEF SafeNext, Gone
  <2>4. QED
    BY <2>2, <2>3
<1>5. \A o \in Updates : QuietStore(o) /\ QuietEdit(o) /\ HomeKept(o) /\ ConfKept(o) /\ PatchKept(o)
  BY <1>3 DEF QuietStore, SameStore, QuietEdit, HomeKept, ConfKept, PatchKept
<1>6. QED
  BY <1>2, <1>3, <1>4, <1>5, QuietStep

\* What the user discards, keeps of the server's or applies again is out of reach.
LEMMA EditsByUser ==
  ASSUME TypeInv, EditInv, [Next]_vars,
         ApplyMineAgain \/ (\E o \in Ops : DiscardOp(o)) \/ \E o \in Updates : KeepServer(o)
  PROVE  EditInv'
<1>1. StoreTypes
  BY TypeParts DEF TypeInv
<1>2. UNCHANGED <<tab, edit, home, made>>
  BY DEF ApplyMineAgain, DiscardOp, KeepServer
<1>3. \A u \in Tabs : Alike(u)
  BY <1>2 DEF Alike
<1>4. Gone \subseteq Gone'
  BY GoneGrows
<1>5. \A x \in Updates : QuietEdit(x) /\ HomeKept(x)
  BY <1>2 DEF QuietEdit, HomeKept
<1>6. EditKept
  BY <1>2 DEF EditKept
<1>7. \A x \in Updates : QuietStore(x) /\ ConfKept(x) /\ PatchKept(x)
  <2>1. ASSUME NEW o \in Ops, DiscardOp(o)
        PROVE  \A x \in Updates : QuietStore(x) /\ ConfKept(x) /\ PatchKept(x)
    <3>1. queue'[o].status = "none" /\ queue'[o].patch = {} /\ \A x \in Ops \ {o} : queue'[x] = queue[x]
      BY <1>1, <2>1, DeleteType DEF DiscardOp, StoreTypes
    <3>2. conflicts' = conflicts /\ queue[o].patch \subseteq Gone'
      BY <2>1 DEF DiscardOp, Gone
    <3>3. QED
      BY <3>1, <3>2, OpsAre DEF QuietStore, SameStore, ConfKept, PatchKept
  <2>2. ASSUME NEW o \in Updates, KeepServer(o)
        PROVE  \A x \in Updates : QuietStore(x) /\ ConfKept(x) /\ PatchKept(x)
    <3>1. conflicts'[o] = {} /\ \A x \in Updates \ {o} : conflicts'[x] = conflicts[x]
      BY <1>1, <2>2 DEF KeepServer, StoreTypes
    <3>2. queue' = queue /\ conflicts[o] \subseteq Gone'
      BY <2>2 DEF KeepServer, Gone
    <3>3. QED
      BY <3>1, <3>2 DEF QuietStore, SameStore, ConfKept, PatchKept
  <2>3. CASE ApplyMineAgain
    <3>1. CASE UNCHANGED conflicts
      BY <2>3, <3>1 DEF ApplyMineAgain, QuietStore, SameStore, ConfKept, PatchKept
    <3>2. CASE ~UNCHANGED conflicts
      <4>1. PICK o \in Updates : Applies(conflicts[o]) /\ conflicts' = [conflicts EXCEPT ![o] = {}]
        BY <1>1, <2>3, <3>2 DEF ApplyMineAgain, StoreTypes
      <4>2. conflicts'[o] = {} /\ \A x \in Updates \ {o} : conflicts'[x] = conflicts[x]
        BY <1>1, <4>1 DEF StoreTypes
      <4>3. queue' = queue /\ conflicts[o] \subseteq Gone'
        BY <2>3, <4>1 DEF ApplyMineAgain, Applies, Gone
      <4>4. QED
        BY <4>2, <4>3 DEF QuietStore, SameStore, ConfKept, PatchKept
    <3>3. QED
      BY <3>1, <3>2
  <2>4. QED
    BY <2>1, <2>2, <2>3
<1>8. QED
  BY <1>2, <1>3, <1>5, <1>6, <1>7, QuietStep

\* So is what is left behind in another workspace.
LEMMA EditsBySwitch ==
  ASSUME TypeInv, EditInv, [Next]_vars, NEW t \in Tabs, NEW n \in Tenants, SwitchWorkspace(t, n)
  PROVE  EditInv'
<1>1. StoreTypes
  BY TypeParts DEF TypeInv
<1>2. \A u \in Tabs : Alike(u)
  BY FormAlike
<1>3. UNCHANGED <<edit, home, made>>
  BY DEF SwitchWorkspace
<1> DEFINE wiped == {o \in Ops : under[o] # n}
<1>4. ASSUME NEW o \in Updates
      PROVE  QuietStore(o) /\ ConfKept(o) /\ PatchKept(o)
  <2>1. o \in Ops /\ queue[o] \in Record
    BY <1>1, OpsAre DEF StoreTypes
  <2>2. /\ queue'[o] = IF o \in wiped THEN [queue[o] EXCEPT !.status = "none", !.patch = {}] ELSE queue[o]
        /\ conflicts'[o] = IF o \in wiped THEN {} ELSE conflicts[o]
    BY <2>1 DEF SwitchWorkspace
  <2>3. CASE o \notin wiped
    BY <2>2, <2>3 DEF QuietStore, SameStore, ConfKept, PatchKept
  <2>4. CASE o \in wiped
    <3>1. queue'[o].status = "none" /\ queue'[o].patch = {} /\ conflicts'[o] = {}
      BY <2>1, <2>2, <2>4 DEF Record
    <3>2. dropped' = dropped \cup {x \in wiped \cap Creates : queue[x].status # "none"}
                             \cup (UNION {queue[x].patch : x \in wiped}) \cup (UNION {conflicts[x] : x \in wiped \cap Updates})
      BY DEF SwitchWorkspace
    <3>3. queue[o].patch \subseteq (UNION {queue[x].patch : x \in wiped}) /\ conflicts[o] \subseteq (UNION {conflicts[x] : x \in wiped \cap Updates})
      BY <2>4
    <3> HIDE DEF wiped
    <3>4. queue[o].patch \subseteq Gone' /\ conflicts[o] \subseteq Gone'
      BY <3>2, <3>3 DEF Gone
    <3>5. QED
      BY <3>1, <3>4 DEF QuietStore, SameStore, ConfKept, PatchKept
  <2>5. QED
    BY <2>3, <2>4
<1>5. \A o \in Updates : QuietEdit(o) /\ HomeKept(o)
  BY <1>3 DEF QuietEdit, HomeKept
<1>6. EditKept
  BY <1>3 DEF EditKept
<1>7. QED
  BY <1>2, <1>3, <1>4, <1>5, <1>6, QuietStep

-----------------------------------------------------------------------------
\* A replay reads what is pending.
LEMMA EditsBySnapshot ==
  ASSUME TypeInv, EditInv, [Next]_vars, NEW t \in Tabs, Snapshot(t)
  PROVE  EditInv'
<1>1. StoreTypes /\ tab \in [Tabs -> Tab] /\ TabsInv /\ Wired(tab[t])
  BY TypeParts DEF TypeInv, TabsInv
<1>2. PICK p \in Tab : p = tab[t]
  BY <1>1
<1>3. UNCHANGED <<queue, conflicts, edit, home, made>>
  BY DEF Snapshot, Unstored
<1>4. p.patching = "none" /\ p.step = "starting"
  BY <1>1, <1>2 DEF Snapshot, Wired
<1> DEFINE ops == {o \in Pending : under[o] = tab[t].scope}
           read(o) == IF o \in ops THEN <<queue[o].patch, queue[o].base>> ELSE <<{}, 0>>
           snap == [o \in Updates |-> read(o)]
<1>5. CASE ops = {}
  <2>1. PICK q : q = [p EXCEPT !.step = "idle"]
    OBVIOUS
  <2>2. q.todo = p.todo /\ q.snap = p.snap /\ q.patching = p.patching /\ q.step = "idle"
    BY <2>1 DEF Tab
  <2>3. Set(t, q)
    BY <1>2, <1>5, <2>1 DEF Snapshot
  <2>4. tab'[t] = q /\ \A u \in Tabs \ {t} : tab'[u] = tab[u]
    BY <1>1, <2>3, SetOne
  <2>5. \A u \in Tabs : Alike(u)
    BY <1>2, <2>2, <2>4 DEF Alike
  <2>6. \A o \in Updates : SameStore(o) /\ HomeKept(o) /\ QuietReplay(o)
    BY <1>1, <1>3, <2>5, QuietTabs DEF SameStore, HomeKept
  <2>7. QED
    BY <1>3, <2>5, <2>6, IdleFrame
<1>6. CASE ops # {}
  <2>1. PICK s \in InOrder(ops) : Set(t, [p EXCEPT !.offline = FALSE, !.step = "next", !.todo = s, !.snap = snap])
    BY <1>2, <1>6 DEF Snapshot
  <2>2. Range(s) \subseteq ops
    <3>1. ops \in SUBSET Ops
      BY DEF Pending
    <3>2. QED
      BY <2>1, <3>1, OrderType
  <2>3. \A o \in Updates : o \in ops => snap[o][1] = queue[o].patch /\ queue[o].status # "none"
    BY DEF Pending
  <2> HIDE DEF snap, ops
  <2>4. PICK q : q = [p EXCEPT !.offline = FALSE, !.step = "next", !.todo = s, !.snap = snap]
    OBVIOUS
  <2>5. q.todo = s /\ q.snap = snap /\ q.patching = "none" /\ q.step = "next"
    BY <1>4, <2>4 DEF Tab
  <2>6. tab'[t] = q /\ \A u \in Tabs \ {t} : tab'[u] = tab[u]
    BY <1>1, <2>1, <2>4, SetOne
  <2>7. AtOk(t)' /\ AtClash(t)'
    BY <2>5, <2>6 DEF AtOk, AtClash
  <2>8. task.applied \subseteq task'.applied /\ Gone \subseteq Gone'
    BY GoneGrows
  <2>9. ASSUME NEW o \in Updates
        PROVE  OpInv(o)'
    <3>1. \A u \in Tabs \ {t} : (InReplay(u, o)' <=> InReplay(u, o)) /\ SnapOf(u, o)' = SnapOf(u, o)
      BY <2>6 DEF InReplay, SnapOf
    <3>2. InReplay(t, o)' => SnapOf(t, o)' = queue[o].patch /\ queue[o].status # "none"
      BY <2>2, <2>3, <2>5, <2>6 DEF InReplay, SnapOf
    <3>3. ASSUME NEW e \in Edits, e \notin Gone', Holds(o, e)'
          PROVE  Ready(o, e)'
      <4>1. Holds(o, e)
        BY <1>3, <3>1, <3>2, <3>3 DEF Holds
      <4>2. Ready(o, e)
        BY <2>8, <3>3, <4>1 DEF EditInv, Whole
      <4>3. QED
        BY <1>3, <3>1, <3>2, <4>2 DEF Ready
    <3>4. Whole(o)'
      BY <3>3 DEF Whole
    <3>5. Known(o)'
      BY <1>3, <3>1, <3>2 DEF EditInv, Known, InUse
    <3>6. Emptied(o)'
      BY <1>3 DEF EditInv, Emptied
    <3>7. QED
      BY <3>4, <3>5, <3>6 DEF OpInv
  <2>10. \A o \in Updates : ConfKept(o) /\ PatchKept(o)
    BY <1>3 DEF ConfKept, PatchKept
  <2>11. \A u \in Tabs : Alike(u) \/ (AtOk(u)' /\ AtClash(u)')
    BY <2>6, <2>7 DEF Alike
  <2>12. EditKept
    BY <1>3 DEF EditKept
  <2>13. QED
    BY <1>3, <2>8, <2>9, <2>10, <2>11, <2>12, EditFrame
<1>7. QED
  BY <1>5, <1>6

\* An edit is merged with all that its operation holds, or starts a new one.
LEMMA EditsByRead ==
  ASSUME TypeInv, EditInv, [Next]_vars, NEW t \in Tabs, NEW e \in Edits, EditOffline(t, e) \/ EditBreaks(t, e)
  PROVE  EditInv'
<1>1. StoreTypes /\ tab \in [Tabs -> Tab] /\ tab[t].scope \in Tenants
  BY TypeParts, TabIs DEF TypeInv
<1>2. PICK seen \in Nat : ReadQueue(t, e, seen)
  BY <1>1 DEF EditOffline, EditBreaks, StoreTypes, TaskType
<1>3. \A u \in Tabs : Alike(u)
  <2>1. CASE EditBreaks(t, e)
    BY <2>1, FormAlike
  <2>2. CASE EditOffline(t, e)
    BY <2>2 DEF EditOffline, Alike
  <2>3. QED
    BY <2>1, <2>2
<1>4. UNCHANGED <<queue, conflicts>>
  BY DEF EditOffline, EditBreaks
<1>5. task.applied \subseteq task'.applied /\ Gone \subseteq Gone'
  BY GoneGrows
<1>6. edit = NoOne /\ made' = made \cup {e} /\ edit' \in EditType
  BY <1>1, <1>2, ReadType
<1>7. \A x \in Updates : OpInv(x) /\ QuietStore(x) /\ QuietReplay(x) /\ ConfKept(x) /\ PatchKept(x)
  BY <1>1, <1>3, <1>4, QuietTabs DEF EditInv, OpInv, QuietStore, SameStore, ConfKept, PatchKept
<1>8. EditKept
  BY <1>6 DEF EditKept
<1>9. \A x \in Updates, u \in Tabs : (InReplay(u, x)' <=> InReplay(u, x)) /\ SnapOf(u, x)' = SnapOf(u, x)
  BY <1>3 DEF Alike, InReplay, SnapOf
<1>10. \E o \in Updates : /\ edit' # NoOne /\ edit'.op = o /\ e \in edit'.patch
                          /\ \A x \in Updates : HomeKept(x) /\ (x # o => QuietEdit(x))
                          /\ home'[o] # NoOne
                          /\ \A d \in Edits \ Gone : Holds(o, d) => d \in edit'.patch
  <2> DEFINE waiting == {o \in Pending \cap Updates : under[o] = tab[t].scope}
  <2>1. CASE waiting # {}
    <3>1. PICK o \in waiting : edit' = [tab |-> t, op |-> o, patch |-> queue[o].patch \cup {e}, base |-> queue[o].base] /\ UNCHANGED <<home, under>>
      BY <1>2, <2>1 DEF ReadQueue, Merged
    <3>2. o \in Updates /\ o \in Ops /\ queue[o].status # "none"
      BY <3>1 DEF Pending
    <3>3. queue[o].patch \in SUBSET Edits /\ queue[o].base \in Nat
      BY <1>1, <3>2 DEF StoreTypes, Record
    <3>4. edit' \in [tab : Tabs, op : Updates, patch : SUBSET Edits, base : Nat]
      BY <3>1, <3>2, <3>3
    <3>5. edit' # NoOne /\ edit'.op = o /\ edit'.patch = queue[o].patch \cup {e}
      BY <3>1, <3>4, OpsAssumption
    <3>6. home'[o] # NoOne /\ \A x \in Updates : HomeKept(x) /\ (x # o => QuietEdit(x))
      BY <3>1, <3>2, <3>5 DEF EditInv, Known, InUse, HomeKept, QuietEdit
    <3>7. \A d \in Edits \ Gone : Holds(o, d) => d \in queue[o].patch
      BY <3>2 DEF EditInv, Whole, Ready
    <3>8. QED
      BY <3>2, <3>5, <3>6, <3>7
  <2>2. CASE waiting = {}
    <3>1. PICK o \in Updates : /\ home[o] = NoOne /\ home' = [home EXCEPT ![o] = tab[t].scope]
                               /\ edit' = [tab |-> t, op |-> o, patch |-> {e}, base |-> seen]
      BY <1>2, <2>2 DEF ReadQueue
    <3>2. o \in Ops
      BY OpsAre
    <3>3. edit' \in [tab : Tabs, op : Updates, patch : SUBSET Edits, base : Nat]
      BY <3>1
    <3>4. edit' # NoOne /\ edit'.op = o /\ edit'.patch = {e}
      BY <3>1, <3>3, OpsAssumption
    <3>5. tab[t].scope # NoOne
      BY <1>1, OpsAssumption
    <3>6. home'[o] = tab[t].scope /\ \A x \in Ops \ {o} : home'[x] = home[x]
      BY <1>1, <3>1, <3>2 DEF StoreTypes
    <3>7. \A x \in Updates : HomeKept(x) /\ (x # o => QuietEdit(x))
      BY <3>4, <3>5, <3>6, OpsAre DEF HomeKept, QuietEdit
    <3>8. ~InUse(o)
      BY <3>1 DEF EditInv, Known
    <3>9. \A d : ~Holds(o, d)
      BY <3>8 DEF InUse, Holds, EditInv, Emptied
    <3>10. QED
      BY <3>4, <3>5, <3>6, <3>7, <3>9
  <2>3. QED
    BY <2>1, <2>2
<1>11. PICK o \in Updates : /\ edit' # NoOne /\ edit'.op = o /\ e \in edit'.patch
                            /\ \A x \in Updates : HomeKept(x) /\ (x # o => QuietEdit(x))
                            /\ home'[o] # NoOne
                            /\ \A d \in Edits \ Gone : Holds(o, d) => d \in edit'.patch
  BY <1>10
<1>12. ASSUME NEW x \in Updates, x # o PROVE OpInv(x)'
  BY <1>5, <1>7, <1>11, <1>12, QuietFrame
<1>13. OpInv(o)'
  <2>1. ASSUME NEW d \in Edits, d \notin Gone', Holds(o, d)'
        PROVE  Ready(o, d)'
    <3>1. Holds(o, d)
      BY <1>4, <1>9, <2>1 DEF Holds
    <3>2. Ready(o, d) /\ d \in edit'.patch
      BY <1>5, <1>11, <2>1, <3>1 DEF EditInv, Whole
    <3>3. QED
      BY <1>4, <1>9, <3>2 DEF Ready
  <2>2. Whole(o)'
    BY <2>1 DEF Whole
  <2>3. Known(o)' /\ Emptied(o)'
    BY <1>4, <1>11 DEF EditInv, Known, Emptied
  <2>4. QED
    BY <2>2, <2>3 DEF OpInv
<1>14. SafeNext(e)
  BY <1>11 DEF SafeNext
<1>15. \A d \in (made' \ made) \cap Edits : SafeNext(d)
  BY <1>6, <1>14
<1>16. QED
  BY <1>3, <1>5, <1>7, <1>8, <1>12, <1>13, <1>15, EditFrame

\* The put has all that its operation holds, but for what a replay has read already.
LEMMA EditsByPut ==
  ASSUME TypeInv, EditInv, [Next]_vars, PutEdit
  PROVE  EditInv'
<1>1. StoreTypes /\ tab \in [Tabs -> Tab]
  BY TypeParts DEF TypeInv
<1>2. edit # NoOne /\ edit' = NoOne /\ UNCHANGED <<conflicts, tab, home, made>>
  BY DEF PutEdit
<1>3. edit.op \in Updates /\ edit.op \in Ops /\ edit.patch \in SUBSET Edits /\ edit.base \in Nat
  BY <1>1, <1>2, OpsAre DEF StoreTypes, EditType
<1>4. PICK o \in Updates, p \in SUBSET Edits : o = edit.op /\ p = edit.patch /\ o \in Ops
  BY <1>3
<1>5. queue'[o].status = "pending" /\ queue'[o].patch = p /\ \A x \in Ops \ {o} : queue'[x] = queue[x]
  <2>1. PICK b \in Nat : PutOp(o, "pending", p, b)
    BY <1>3, <1>4 DEF PutEdit
  <2>2. QED
    BY <1>1, <1>4, <2>1, PutType DEF StoreTypes
<1>6. \A u \in Tabs : Alike(u)
  BY <1>2 DEF Alike
<1>7. task.applied \subseteq task'.applied /\ Gone \subseteq Gone'
  BY GoneGrows
<1>8. \A x \in Updates : OpInv(x) /\ QuietEdit(x) /\ HomeKept(x) /\ QuietReplay(x) /\ ConfKept(x)
  BY <1>1, <1>2, <1>6, QuietTabs DEF EditInv, OpInv, QuietEdit, HomeKept, ConfKept
<1>9. ASSUME NEW x \in Updates, x # o PROVE OpInv(x)' /\ PatchKept(x)
  <2>1. queue'[x] = queue[x]
    BY <1>5, <1>9, OpsAre
  <2>2. QuietStore(x)
    BY <1>2, <2>1 DEF QuietStore, SameStore
  <2>3. QED
    BY <1>7, <1>8, <2>1, <2>2, QuietFrame DEF PatchKept
<1>10. OpInv(o)' /\ PatchKept(o)
  <2>1. \A u \in Tabs : (InReplay(u, o)' <=> InReplay(u, o)) /\ SnapOf(u, o)' = SnapOf(u, o)
    BY <1>2 DEF InReplay, SnapOf
  <2>2. \A d \in Edits \ Gone : Holds(o, d) => Ready(o, d) /\ d \in p
    BY <1>2, <1>4 DEF EditInv, Whole, Ready
  <2>3. ASSUME NEW d \in p, ~Holds(o, d), NEW u \in Tabs, InReplay(u, o)
        PROVE  d \in Gone'
    <3>1. d \notin queue[o].patch
      BY <2>3 DEF Holds
    <3>2. spoilt' = spoilt \cup (edit.patch \ queue[edit.op].patch)
      BY <1>4, <2>3 DEF PutEdit, InReplay
    <3>3. QED
      BY <1>4, <3>1, <3>2 DEF Gone
  <2>4. ASSUME NEW d \in Edits, d \notin Gone', Holds(o, d)'
        PROVE  Ready(o, d)'
    <3>1. Holds(o, d) \/ d \in p
      BY <1>2, <1>5, <2>1, <2>4 DEF Holds
    <3>2. d \in p
      BY <1>7, <2>2, <2>4, <3>1
    <3>3. \A u \in Tabs : InReplay(u, o) => d \in SnapOf(u, o)
      <4>1. CASE Holds(o, d)
        BY <1>7, <2>2, <2>4, <4>1 DEF Ready
      <4>2. CASE ~Holds(o, d)
        BY <2>3, <2>4, <3>2, <4>2
      <4>3. QED
        BY <4>1, <4>2
    <3>4. QED
      BY <1>2, <1>5, <2>1, <3>2, <3>3 DEF Ready
  <2>5. Whole(o)'
    BY <2>4 DEF Whole
  <2>6. home[o] # NoOne
    BY <1>2, <1>4 DEF EditInv, Known, InUse
  <2>7. Known(o)' /\ Emptied(o)'
    BY <1>2, <1>5, <2>6 DEF Known, Emptied
  <2>8. PatchKept(o)
    <3> SUFFICES ASSUME NEW d \in queue[o].patch, d \notin Gone' PROVE d \in queue'[o].patch
      BY DEF PatchKept
    <3>1. d \in Edits /\ Holds(o, d)
      BY <1>1, <1>4 DEF StoreTypes, Record, Holds
    <3>2. QED
      BY <1>5, <1>7, <2>2, <3>1
  <2>9. QED
    BY <2>5, <2>7, <2>8 DEF OpInv
<1>11. EditKept
  BY <1>4, <1>5 DEF EditKept, SafeNext
<1>12. \A x \in Updates : OpInv(x)' /\ ConfKept(x) /\ PatchKept(x)
  BY <1>8, <1>9, <1>10
<1>13. QED
  BY <1>2, <1>6, <1>7, <1>11, <1>12, EditFrame

LEMMA EditsStep == TypeInv /\ EditInv /\ [Next]_vars => EditInv'
  BY EditsByIdleTab, EditsByIdleOthers, EditsByServe, EditsByAnswer, EditsByReload, EditsByUser, EditsBySwitch, EditsBySnapshot,
     EditsByRead, EditsByPut DEF Next, IdleByTab

\* However many tabs, merges, replays, conflicts and reloads: an edit is applied,
\* waiting or in conflict until the user drops it, unless it was merged into an
\* operation while a replay had it.
THEOREM EditsCorrect == Spec => []EditsKept
<1>1. Init => TypeInv /\ EditInv
  <2> SUFFICES ASSUME Init PROVE TypeInv /\ EditInv
    OBVIOUS
  <2>1. TypeInv /\ made = {} /\ edit = NoOne
    BY TypesInitially DEF Init
  <2>2. ASSUME NEW u \in Tabs
        PROVE  tab[u].todo = << >> /\ tab[u].patching = "none" /\ tab[u].step # "clash" /\ \A o : ~InReplay(u, o)
    <3>1. tab[u].todo = << >> /\ tab[u].patching = "none" /\ tab[u].step # "clash"
      BY DEF Init, Loaded
    <3>2. QED
      BY <3>1 DEF InReplay, Range
  <2>3. ASSUME NEW o \in Updates
        PROVE  queue[o].status = "none" /\ queue[o].patch = {} /\ conflicts[o] = {}
    BY OpsAre DEF Init, Empty
  <2>4. \A o \in Updates : Whole(o) /\ Known(o) /\ Emptied(o)
    BY <2>1, <2>2, <2>3 DEF Whole, Holds, Known, InUse, Emptied
  <2>5. QED
    BY <2>1, <2>2, <2>4 DEF EditInv, AtOk, AtClash
<1>2. Spec => [](TypeInv /\ EditInv)
  BY <1>1, TypesStep, EditsStep, PTL DEF Spec
<1>3. EditInv => EditsKept
  BY DEF EditInv, Safe, Gone, EditsKept
<1>4. QED
  BY <1>2, <1>3, PTL
=============================================================================
