---------------------------- MODULE TenantPools ----------------------------
(***************************************************************************)
(* The connection pools of one API process:                                *)
(* database/tenant/tenant-connection-manager.ts.                           *)
(*                                                                         *)
(* JavaScript runs one thing at a time: an action is what runs between two *)
(* awaits.  `pools' is a JavaScript Map, whose order of iteration is the   *)
(* order of insertion; the first entry is the least recently used.         *)
(***************************************************************************)
EXTENDS Naturals, Sequences, FiniteSets

CONSTANTS
  Tenants,
  Requests,   \* users of the pools, one get at a time
  MaxPools,   \* TENANT_POOL_MAX_POOLS
  IdleTtl,    \* TENANT_POOL_IDLE_TTL_SECONDS
  MaxOpened,  \* bound: pools ever created
  MaxTime,    \* bound: the clock
  NoOne       \* nobody

ASSUME TenantPoolsAssumption ==
  /\ MaxPools \in Nat \ {0} /\ IdleTtl \in Nat /\ MaxOpened \in Nat /\ MaxTime \in Nat
  /\ NoOne \notin Requests

VARIABLES
  pool,     \* the pools created; of one that has left the Map, only its state
  pools,    \* the Map, as the sequence of the pools in it
  pending,  \* who opens the pool of a tenant, if anybody does
  req,      \* what each request is doing
  sweep,    \* the idle sweep in progress
  now, down \* the clock; the shutdown hook has run

vars == <<pool, pools, pending, req, sweep, now, down>>

-----------------------------------------------------------------------------
PoolIds == 1..MaxOpened
Unopened == [state |-> "none"]
Ending   == [state |-> "ending"]
Ended    == [state |-> "ended"]
PoolType == [state: {"open"}, tenant: Tenants, lastUsedAt: 0..MaxTime] \cup {Unopened, Ending, Ended}

Idle == [at |-> "idle"]
NoSweep == [at |-> "off"]

Opened == {p \in PoolIds : pool[p] # Unopened}

\* The tenant of the entry at position i of the Map.
KeyAt(i) == pool[pools[i]].tenant
Has(t) == \E i \in 1..Len(pools) : KeyAt(i) = t

\* A request has a client of pool p checked out.
Busy(p) == \E r \in Requests : req[r].at = "query" /\ req[r].pool = p

\* The sequence s without its element at position i.
Without(s, i) == [j \in 1..Len(s) - 1 |-> IF j < i THEN s[j] ELSE s[j + 1]]

\* Mutant: an entry behind the cursor counts as well.
ShiftAlways(i) ==
  IF sweep.at = "ending" THEN [sweep EXCEPT !.cursor = @ - 1] ELSE sweep

\* The cursor of the sweep is the number of entries it has passed.
Shift(i) ==
  IF sweep.at = "ending" /\ i <= sweep.cursor THEN [sweep EXCEPT !.cursor = @ - 1] ELSE sweep

\* evict, up to its await: the entry leaves the Map and its pool is ended.
Evict(i) ==
  /\ pools' = Without(pools, i)
  /\ pool' = [pool EXCEPT ![pools[i]] = Ending]

-----------------------------------------------------------------------------
(* get *)

\* Mutant: the entry stays where it is in the Map.
HitInPlace(r, t) ==
  /\ req[r] = Idle
  /\ \E i \in 1..Len(pools) :
       /\ KeyAt(i) = t
       /\ pools' = pools
       /\ pool' = [pool EXCEPT ![pools[i]].lastUsedAt = now]
       /\ req' = [req EXCEPT ![r] = [at |-> "has", pool |-> pools[i]]]
       /\ sweep' = sweep
  /\ UNCHANGED <<pending, now, down>>

\* The entry goes to the end of the Map.
Hit(r, t) ==
  /\ req[r] = Idle
  /\ \E i \in 1..Len(pools) :
       /\ KeyAt(i) = t
       /\ pools' = Append(Without(pools, i), pools[i])
       /\ pool' = [pool EXCEPT ![pools[i]].lastUsedAt = now]
       /\ req' = [req EXCEPT ![r] = [at |-> "has", pool |-> pools[i]]]
       /\ sweep' = Shift(i)
  /\ UNCHANGED <<pending, now, down>>

\* Somebody opens the pool already: wait for the same promise.
Join(r, t) ==
  /\ req[r] = Idle /\ ~Has(t)
  /\ pending[t] # NoOne
  /\ req' = [req EXCEPT ![r] = [at |-> "waits", opener |-> pending[t]]]
  /\ UNCHANGED <<pool, pools, pending, sweep, now, down>>

Opening(r) == req[r].at \in {"credentials", "evicting"}
RoomForPool ==
  Cardinality(Opened) + Cardinality({r \in Requests : Opening(r)}) < MaxOpened

\* Mutant: nobody looks at pending.
StartAgain(r, t) ==
  /\ RoomForPool
  /\ req[r] = Idle /\ ~Has(t)
  /\ pending' = [pending EXCEPT ![t] = r]
  /\ req' = [req EXCEPT ![r] = [at |-> "credentials", tenant |-> t]]
  /\ UNCHANGED <<pool, pools, sweep, now, down>>

\* open reads the credentials from the platform database.
Start(r, t) ==
  /\ RoomForPool
  /\ req[r] = Idle /\ ~Has(t)
  /\ pending[t] = NoOne
  /\ pending' = [pending EXCEPT ![t] = r]
  /\ req' = [req EXCEPT ![r] = [at |-> "credentials", tenant |-> t]]
  /\ UNCHANGED <<pool, pools, sweep, now, down>>

-----------------------------------------------------------------------------
(* open *)

\* The promise of r settles: pending is cleared, and everybody who waits for it
\* goes on with its pool or its error.
Settle(r, answer) ==
  /\ pending' = [pending EXCEPT ![req[r].tenant] = NoOne]
  /\ req' = [q \in Requests |->
               IF q = r \/ (req[q].at = "waits" /\ req[q].opener = r) THEN answer ELSE req[q]]

\* Mutant: pending is cleared only after a success.
RefusedPending(r) ==
  /\ req[r].at = "credentials"
  /\ pending' = pending
  /\ req' = [q \in Requests |->
               IF q = r \/ (req[q].at = "waits" /\ req[q].opener = r) THEN Idle ELSE req[q]]
  /\ UNCHANGED <<pool, pools, sweep, now, down>>

\* The tenant has no database that is ready, or the read failed.
Refused(r) ==
  /\ req[r].at = "credentials"
  /\ Settle(r, Idle)
  /\ UNCHANGED <<pool, pools, sweep, now, down>>

\* The credentials are there, or the pool that was evicted has ended.
Resumed(r) ==
  \/ req[r].at = "credentials"
  \/ req[r].at = "evicting" /\ pool[req[r].pool] = Ended

\* The Map is full: the least recently used pool goes.
EvictOldest(r) ==
  /\ Resumed(r)
  /\ Len(pools) >= MaxPools
  /\ Evict(1)
  /\ req' = [req EXCEPT ![r] = [at |-> "evicting", tenant |-> req[r].tenant, pool |-> pools[1]]]
  /\ sweep' = Shift(1)
  /\ UNCHANGED <<pending, now, down>>

\* pools.set: a key that is in the Map keeps its position.
MapSet(t, p) ==
  IF Has(t) THEN [i \in 1..Len(pools) |-> IF KeyAt(i) = t THEN p ELSE pools[i]]
            ELSE Append(pools, p)

\* The entry of a new pool; between pools.set and the settling of the promise
\* nothing else can start.
Enter(r) ==
  /\ \E p \in PoolIds :
       /\ pool[p] = Unopened /\ \A q \in PoolIds : pool[q] = Unopened => p <= q
       /\ pool' = [pool EXCEPT ![p] = [state |-> "open", tenant |-> req[r].tenant, lastUsedAt |-> now]]
       /\ pools' = MapSet(req[r].tenant, p)
       /\ Settle(r, [at |-> "has", pool |-> p])
  /\ UNCHANGED <<sweep, now, down>>

\* Mutant: an eviction is taken for room.
OpenOnce(r) ==
  /\ Resumed(r)
  /\ Len(pools) < MaxPools \/ req[r].at = "evicting"
  /\ Enter(r)

Open(r) ==
  /\ Resumed(r)
  /\ Len(pools) < MaxPools
  /\ Enter(r)

-----------------------------------------------------------------------------
(* The pg pool: queries, and the end of a pool *)

Query(r) ==
  /\ req[r].at = "has"
  /\ \/ pool[req[r].pool].state = "open" /\ req' = [req EXCEPT ![r].at = "query"]
     \/ pool[req[r].pool].state # "open" /\ req' = [req EXCEPT ![r] = Idle]  \* "Cannot use a pool after ..."
  /\ UNCHANGED <<pool, pools, pending, sweep, now, down>>

Release(r) ==
  /\ req[r].at = "query"
  /\ req' = [req EXCEPT ![r].at = "has"]
  /\ UNCHANGED <<pool, pools, pending, sweep, now, down>>

Leave(r) ==
  /\ req[r].at = "has"
  /\ req' = [req EXCEPT ![r] = Idle]
  /\ UNCHANGED <<pool, pools, pending, sweep, now, down>>

\* end() waits for the clients that are checked out.
Ends(p) ==
  /\ pool[p] = Ending
  /\ ~Busy(p)
  /\ pool' = [pool EXCEPT ![p] = Ended]
  /\ UNCHANGED <<pools, pending, req, sweep, now, down>>

-----------------------------------------------------------------------------
(* evict from outside, the idle sweep, shutdown *)

\* Suspension and decommission.
EvictTenant(t) ==
  /\ \E i \in 1..Len(pools) : KeyAt(i) = t /\ Evict(i) /\ sweep' = Shift(i)
  /\ UNCHANGED <<pending, req, now, down>>

\* Mutant: the comparison is the wrong way round.
SweepableRecent(i, cutoff) == pool[pools[i]].lastUsedAt > cutoff /\ ~Busy(pools[i])

Sweepable(i, cutoff) == pool[pools[i]].lastUsedAt < cutoff /\ ~Busy(pools[i])

\* From the cursor on to the next entry that is idle, if there is one.
SweepFrom(cursor, cutoff) ==
  \/ \E i \in cursor + 1 .. Len(pools) :
       /\ Sweepable(i, cutoff) /\ \A k \in cursor + 1 .. i - 1 : ~Sweepable(k, cutoff)
       /\ Evict(i)
       /\ sweep' = [at |-> "ending", cutoff |-> cutoff, cursor |-> i - 1, pool |-> pools[i]]
  \/ /\ \A i \in cursor + 1 .. Len(pools) : ~Sweepable(i, cutoff)
     /\ sweep # NoSweep
     /\ sweep' = NoSweep
     /\ UNCHANGED <<pool, pools>>

\* The timer ticks.  One sweep at a time: what it ends has no clients checked
\* out, which takes less than the interval of the timer.
SweepStart ==
  /\ sweep = NoSweep /\ ~down
  /\ now > IdleTtl
  /\ SweepFrom(0, now - IdleTtl)
  /\ UNCHANGED <<pending, req, now, down>>

SweepGoesOn ==
  /\ sweep # NoSweep
  /\ pool[sweep.pool] = Ended
  /\ SweepFrom(sweep.cursor, sweep.cutoff)
  /\ UNCHANGED <<pending, req, now, down>>

\* onApplicationShutdown: no more sweeps, and every entry is evicted.
Shutdown ==
  /\ ~down
  /\ down' = TRUE
  /\ pools' = <<>>
  /\ pool' = [p \in PoolIds |->
                IF \E i \in 1..Len(pools) : pools[i] = p THEN Ending ELSE pool[p]]
  /\ sweep' = IF sweep = NoSweep THEN NoSweep ELSE [sweep EXCEPT !.cursor = 0]
  /\ UNCHANGED <<pending, req, now>>

Tick ==
  /\ now < MaxTime
  /\ now' = now + 1
  /\ UNCHANGED <<pool, pools, pending, req, sweep, down>>

-----------------------------------------------------------------------------
Init ==
  /\ pool = [p \in PoolIds |-> Unopened]
  /\ pools = <<>>
  /\ pending = [t \in Tenants |-> NoOne]
  /\ req = [r \in Requests |-> Idle]
  /\ sweep = NoSweep /\ now = 0 /\ down = FALSE

Get(r) == \E t \in Tenants : Hit(r, t) \/ Join(r, t) \/ Start(r, t)
GoOn(r) == Refused(r) \/ EvictOldest(r) \/ Open(r)

Next ==
  \/ \E r \in Requests : Get(r) \/ GoOn(r) \/ Query(r) \/ Release(r) \/ Leave(r)
  \/ \E p \in PoolIds : Ends(p)
  \/ \E t \in Tenants : EvictTenant(t)
  \/ SweepStart \/ SweepGoesOn \/ Shutdown \/ Tick

Spec == Init /\ [][Next]_vars

\* Promises settle, queries end (they have a statement timeout), and the timer
\* of the sweep ticks.
Fairness ==
  /\ \A r \in Requests : WF_vars(GoOn(r)) /\ WF_vars(Release(r))
  /\ \A p \in PoolIds : WF_vars(Ends(p))
  /\ WF_vars(SweepStart) /\ WF_vars(SweepGoesOn)

FairSpec == Spec /\ Fairness

-----------------------------------------------------------------------------
(* Correctness *)

ReqType ==
  {Idle}
  \cup [at: {"credentials"}, tenant: Tenants]
  \cup [at: {"evicting"}, tenant: Tenants, pool: PoolIds]
  \cup [at: {"has", "query"}, pool: PoolIds]
  \cup [at: {"waits"}, opener: Requests]

TypeOK ==
  /\ pool \in [PoolIds -> PoolType]
  /\ pools \in Seq(PoolIds)
  /\ pending \in [Tenants -> Requests \cup {NoOne}]
  /\ req \in [Requests -> ReqType]
  /\ sweep \in {NoSweep} \cup [at: {"ending"}, cutoff: 0..MaxTime, cursor: Nat, pool: PoolIds]
  /\ now \in 0..MaxTime /\ down \in BOOLEAN

\* "caps the number of open pools (TENANT_POOL_MAX_POOLS)"
\* (tenant-connection-manager.ts:34), however many openings and evictions are
\* in flight at once.
LimitHeld == Len(pools) <= MaxPools

\* "de-duplicates concurrent pool creation for the same tenant"
\* (tenant-connection-manager.ts:37): a tenant has one open pool at most, and
\* every open pool is in the Map, where suspension, the sweep and shutdown find
\* it; none is overwritten and left open for ever.
NothingLeaked ==
  /\ \A p \in Opened : pool[p].state = "open" => \E i \in 1..Len(pools) : pools[i] = p
  /\ \A i \in 1..Len(pools) : pool[pools[i]].state = "open"
  /\ \A i, j \in 1..Len(pools) : KeyAt(i) = KeyAt(j) => i = j

\* "Re-insert to keep Map iteration order == LRU order"
\* (tenant-connection-manager.ts:64), across openings, hits, evictions and
\* sweeps: so what is evicted for room is the least recently used pool.
LruOrder ==
  \A i, j \in 1..Len(pools) :
    i < j => pool[pools[i]].lastUsedAt <= pool[pools[j]].lastUsedAt

\* "closes pools idle longer than TENANT_POOL_IDLE_TTL_SECONDS"
\* (tenant-connection-manager.ts:35): a pool nobody has asked for during that
\* time and nobody holds is closed, whatever other entries are moved and removed
\* while the sweep waits for one to end: again and again none is left.
Forgotten ==
  /\ ~down
  /\ \E i \in 1..Len(pools) :
       /\ pool[pools[i]].lastUsedAt + IdleTtl < now
       /\ \A r \in Requests : ~(req[r].at \in {"has", "query"} /\ req[r].pool = pools[i])
IdlePoolsClosed == Forgotten ~> ~Forgotten

\* Every get ends with a pool or an error, and a tenant whose opening failed
\* can be opened again.
GetsAnswered ==
  \A r \in Requests :
    req[r].at \in {"credentials", "evicting", "waits"}
      ~> req[r].at \in {"has", "idle"}
=============================================================================
