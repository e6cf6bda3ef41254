------------------------- MODULE TenantPoolsProofs -------------------------
(***************************************************************************)
(* Theorems about TenantPools, for any number of tenants, requests and     *)
(* pools.                                                                  *)
(***************************************************************************)
EXTENDS TenantPools, TLAPS

\* Who opens the pool of a tenant is the only one that does, and the tenant is
\* not in the Map until then.
OneOpener ==
  \A r \in Requests :
    Opening(r) => pending[req[r].tenant] = r /\ ~Has(req[r].tenant)

\* No entry was used in the future.
UsedBefore == \A i \in 1..Len(pools) : pool[pools[i]].lastUsedAt <= now

IInv == TypeOK /\ LimitHeld /\ NothingLeaked /\ LruOrder /\ OneOpener /\ UsedBefore

-----------------------------------------------------------------------------
(* The Map *)

\* Where the element at position j was before position i was removed.
Was(i, j) == IF j < i THEN j ELSE j + 1

\* What Without(s, i) is, for a sequence s of elements of S.
WithoutFacts(S, s, i) ==
  /\ Without(s, i) \in Seq(S)
  /\ Len(Without(s, i)) = Len(s) - 1
  /\ \A j \in 1..Len(s) - 1 : /\ Was(i, j) \in 1..Len(s) /\ Was(i, j) # i
                              /\ Without(s, i)[j] = s[Was(i, j)]
  /\ \A k \in 1..Len(s) : k # i => \E j \in 1..Len(s) - 1 : Was(i, j) = k

\* A sequence without one of its elements.
LEMMA WithoutProps ==
  ASSUME NEW S, NEW s \in Seq(S), NEW i \in 1..Len(s)
  PROVE  WithoutFacts(S, s, i)
  <1>1. Len(s) - 1 \in Nat
    OBVIOUS
  <1>2. \A j \in 1..Len(s) - 1 : Was(i, j) \in 1..Len(s) /\ Was(i, j) # i
    BY DEF Was
  <1>3. \A j \in 1..Len(s) - 1 : Without(s, i)[j] = s[Was(i, j)]
    BY DEF Without, Was
  <1>4. Without(s, i) \in Seq(S) /\ Len(Without(s, i)) = Len(s) - 1
    <2>1. \A j \in 1..Len(s) - 1 : (IF j < i THEN s[j] ELSE s[j + 1]) \in S
      OBVIOUS
    <2>2. QED
      BY <1>1, <2>1 DEF Without
  <1>5. \A k \in 1..Len(s) : k # i => \E j \in 1..Len(s) - 1 : Was(i, j) = k
    <2> SUFFICES ASSUME NEW k \in 1..Len(s), k # i
                 PROVE  \E j \in 1..Len(s) - 1 : Was(i, j) = k
      OBVIOUS
    <2>1. CASE k < i
      <3>1. k \in 1..Len(s) - 1 /\ Was(i, k) = k
        BY <2>1 DEF Was
      <3>2. QED
        BY <3>1
    <2>2. CASE k > i
      <3>1. k - 1 \in 1..Len(s) - 1 /\ Was(i, k - 1) = k
        BY <2>2 DEF Was
      <3>2. QED
        BY <3>1
    <2>3. QED
      BY <2>1, <2>2
  <1>6. QED
    BY <1>2, <1>3, <1>4, <1>5 DEF WithoutFacts

\* Where the element at position j was before position i became the last of n.
From(i, j, n) == IF j = n THEN i ELSE Was(i, j)

Moved(s, i) == Append(Without(s, i), s[i])

\* A sequence one element of which has gone to its end.
LEMMA MovedProps ==
  ASSUME NEW S, NEW s \in Seq(S), NEW i \in 1..Len(s)
  PROVE  /\ Moved(s, i) \in Seq(S) /\ Len(Moved(s, i)) = Len(s)
         /\ \A j \in 1..Len(s) : From(i, j, Len(s)) \in 1..Len(s) /\ Moved(s, i)[j] = s[From(i, j, Len(s))]
         /\ \A j, k \in 1..Len(s) : From(i, j, Len(s)) = From(i, k, Len(s)) => j = k
         /\ \A k \in 1..Len(s) : \E j \in 1..Len(s) : From(i, j, Len(s)) = k
  <1>1. /\ Without(s, i) \in Seq(S) /\ Len(Without(s, i)) = Len(s) - 1
        /\ \A j \in 1..Len(s) - 1 : /\ Was(i, j) \in 1..Len(s) /\ Was(i, j) # i
                                    /\ Without(s, i)[j] = s[Was(i, j)]
        /\ \A k \in 1..Len(s) : k # i => \E j \in 1..Len(s) - 1 : Was(i, j) = k
    <2>1. WithoutFacts(S, s, i)
      BY WithoutProps, Zenon
    <2>2. QED
      BY <2>1 DEF WithoutFacts
  <1> DEFINE m == Moved(s, i)
  <1>2. m \in Seq(S) /\ Len(m) = Len(s) /\ m[Len(s)] = s[i]
    BY <1>1 DEF Moved
  <1>3. ASSUME NEW j \in 1..Len(s), j # Len(s)
        PROVE  m[j] = s[Was(i, j)]
    <2>1. j \in 1..Len(s) - 1
      BY <1>3
    <2>2. m[j] = Without(s, i)[j]
      BY <1>1, <2>1 DEF Moved
    <2>3. QED
      BY <1>1, <2>1, <2>2
  <1>4. \A j \in 1..Len(s) : From(i, j, Len(s)) \in 1..Len(s)
    BY DEF From, Was
  <1>5. \A j \in 1..Len(s) : m[j] = s[From(i, j, Len(s))]
    BY <1>2, <1>3 DEF From
  <1>6. ASSUME NEW j \in 1..Len(s), NEW k \in 1..Len(s), From(i, j, Len(s)) = From(i, k, Len(s))
        PROVE  j = k
    <2>1. \A l \in 1..Len(s) : l # Len(s) => From(i, l, Len(s)) = Was(i, l) /\ Was(i, l) # i
      BY DEF From, Was
    <2>2. CASE j = Len(s) \/ k = Len(s)
      BY <1>6, <2>1, <2>2 DEF From
    <2>3. CASE j # Len(s) /\ k # Len(s)
      <3>1. Was(i, j) = Was(i, k)
        BY <1>6, <2>1, <2>3
      <3>2. QED
        BY <3>1 DEF Was
    <2>4. QED
      BY <2>2, <2>3
  <1>7. ASSUME NEW k \in 1..Len(s)
        PROVE  \E j \in 1..Len(s) : From(i, j, Len(s)) = k
    <2>1. CASE k = i
      <3>1. Len(s) \in 1..Len(s) /\ From(i, Len(s), Len(s)) = k
        BY <2>1 DEF From
      <3>2. QED
        BY <3>1
    <2>2. CASE k # i
      <3>1. PICK j \in 1..Len(s) - 1 : Was(i, j) = k
        BY <1>1, <2>2
      <3>2. j \in 1..Len(s) /\ j # Len(s)
        BY <3>1
      <3>3. From(i, j, Len(s)) = k
        BY <3>1, <3>2 DEF From
      <3>4. QED
        BY <3>2, <3>3
    <2>3. QED
      BY <2>1, <2>2
  <1>8. QED
    BY <1>2, <1>4, <1>5, <1>6, <1>7

\* The cursor of a sweep after an entry has left.
LEMMA ShiftType ==
  ASSUME TypeOK, NEW i \in 1..Len(pools)
  PROVE  Shift(i) \in {NoSweep} \cup [at: {"ending"}, cutoff: 0..MaxTime, cursor: Nat, pool: PoolIds]
  <1>1. CASE sweep.at = "ending" /\ i <= sweep.cursor
    <2>1. sweep \in [at: {"ending"}, cutoff: 0..MaxTime, cursor: Nat, pool: PoolIds]
      BY <1>1 DEF TypeOK, NoSweep
    <2>2. sweep.cursor - 1 \in Nat
      BY <1>1, <2>1
    <2>3. QED
      BY <1>1, <2>1, <2>2 DEF Shift
  <1>2. CASE ~(sweep.at = "ending" /\ i <= sweep.cursor)
    BY <1>2 DEF Shift, TypeOK
  <1>3. QED
    BY <1>1, <1>2

\* What evict does to the Map.
LEMMA EvictMap ==
  ASSUME IInv, NEW i \in 1..Len(pools), Evict(i), now' = now
  PROVE  /\ pools' \in Seq(PoolIds) /\ pool' \in [PoolIds -> PoolType]
         /\ Len(pools') = Len(pools) - 1
         /\ NothingLeaked' /\ LruOrder' /\ UsedBefore'
         /\ \A t \in Tenants : Has(t)' => Has(t)
  <1> USE DEF IInv
  <1>1. /\ pools \in Seq(PoolIds) /\ pool \in [PoolIds -> PoolType] /\ pools[i] \in PoolIds
        /\ Ending \in PoolType
    BY DEF TypeOK, PoolType
  <1>2. /\ pools' \in Seq(PoolIds) /\ Len(pools') = Len(pools) - 1
        /\ \A j \in 1..Len(pools') : /\ Was(i, j) \in 1..Len(pools) /\ Was(i, j) # i
                                     /\ pools'[j] = pools[Was(i, j)]
        /\ \A k \in 1..Len(pools) : k # i => \E j \in 1..Len(pools') : Was(i, j) = k
    <2>1. pools' = Without(pools, i)
      BY DEF Evict
    <2>2. /\ Without(pools, i) \in Seq(PoolIds) /\ Len(Without(pools, i)) = Len(pools) - 1
          /\ \A j \in 1..Len(pools) - 1 : /\ Was(i, j) \in 1..Len(pools) /\ Was(i, j) # i
                                          /\ Without(pools, i)[j] = pools[Was(i, j)]
          /\ \A k \in 1..Len(pools) : k # i => \E j \in 1..Len(pools) - 1 : Was(i, j) = k
      <3>1. WithoutFacts(PoolIds, pools, i)
        BY <1>1, WithoutProps, Zenon
      <3>2. QED
        BY <3>1 DEF WithoutFacts
    <2>3. 1..Len(pools') = 1..Len(pools) - 1
      BY <2>1, <2>2
    <2>4. QED
      BY <2>1, <2>2, <2>3
  <1>3. pool' \in [PoolIds -> PoolType]
    BY <1>1 DEF Evict
  <1>4. \A j \in 1..Len(pools') : pools'[j] # pools[i] /\ pool'[pools'[j]] = pool[pools[Was(i, j)]]
    <2> SUFFICES ASSUME NEW j \in 1..Len(pools')
                 PROVE  pools'[j] # pools[i] /\ pool'[pools'[j]] = pool[pools[Was(i, j)]]
      OBVIOUS
    <2>1. Was(i, j) \in 1..Len(pools) /\ Was(i, j) # i /\ pools'[j] = pools[Was(i, j)]
      BY <1>2
    <2>2. pools[Was(i, j)] # pools[i]
      BY <2>1 DEF NothingLeaked, KeyAt
    <2>3. pool' = [pool EXCEPT ![pools[i]] = Ending]
      BY DEF Evict
    <2>4. QED
      BY <1>1, <2>1, <2>2, <2>3
  <1>5. \A j \in 1..Len(pools') : KeyAt(j)' = KeyAt(Was(i, j))
    BY <1>4 DEF KeyAt
  <1>6. NothingLeaked'
    <2>1. ASSUME NEW p \in Opened', pool'[p].state = "open"
          PROVE  \E j \in 1..Len(pools') : pools'[j] = p
      <3>1. p \in PoolIds /\ p # pools[i] /\ pool'[p] = pool[p]
        BY <1>1, <2>1 DEF Opened, Evict, Ending
      <3>2. PICK k \in 1..Len(pools) : pools[k] = p
        BY <2>1, <3>1 DEF NothingLeaked, Opened
      <3>3. k # i
        BY <3>1, <3>2
      <3>4. QED
        BY <1>2, <3>2, <3>3
    <2>2. ASSUME NEW j \in 1..Len(pools')
          PROVE  pool'[pools'[j]].state = "open"
      <3>1. Was(i, j) \in 1..Len(pools) /\ pool'[pools'[j]] = pool[pools[Was(i, j)]]
        BY <1>2, <1>4
      <3>2. QED
        BY <3>1 DEF NothingLeaked
    <2>3. \A j, k \in 1..Len(pools') : KeyAt(j)' = KeyAt(k)' => j = k
      <3>1. \A j, k \in 1..Len(pools') : Was(i, j) = Was(i, k) => j = k
        BY <1>2 DEF Was
      <3>2. QED
        BY <1>2, <1>5, <3>1 DEF NothingLeaked
    <2>4. QED
      BY <2>1, <2>2, <2>3 DEF NothingLeaked
  <1>7. LruOrder'
    <2>1. \A j, k \in 1..Len(pools') : j < k => Was(i, j) < Was(i, k)
      BY <1>2 DEF Was
    <2>2. QED
      BY <1>2, <1>4, <2>1 DEF LruOrder
  <1>8. UsedBefore'
    BY <1>2, <1>4 DEF UsedBefore
  <1>9. \A t \in Tenants : Has(t)' => Has(t)
    BY <1>2, <1>5 DEF Has
  <1>10. QED
    BY <1>2, <1>3, <1>6, <1>7, <1>8, <1>9

\* What a hit does to the Map: the entry is the last one now.
LEMMA HitMap ==
  ASSUME IInv, NEW i \in 1..Len(pools), now' = now,
         pools' = Append(Without(pools, i), pools[i]),
         pool' = [pool EXCEPT ![pools[i]].lastUsedAt = now]
  PROVE  /\ pools' \in Seq(PoolIds) /\ pool' \in [PoolIds -> PoolType]
         /\ Len(pools') = Len(pools)
         /\ NothingLeaked' /\ LruOrder' /\ UsedBefore'
         /\ \A t \in Tenants : Has(t)' => Has(t)
  <1> USE DEF IInv
  <1> DEFINE n == Len(pools)
             Src(j) == From(i, j, n)
  <1>1. /\ pools \in Seq(PoolIds) /\ pool \in [PoolIds -> PoolType] /\ n \in Nat
        /\ now \in 0..MaxTime
    BY DEF TypeOK
  <1>2. \A j \in 1..n : pools[j] \in PoolIds /\ pool[pools[j]].state = "open"
    BY <1>1 DEF NothingLeaked
  <1>3. /\ pools' \in Seq(PoolIds) /\ Len(pools') = n
        /\ \A j \in 1..n : Src(j) \in 1..n /\ pools'[j] = pools[Src(j)]
        /\ \A j, k \in 1..n : Src(j) = Src(k) => j = k
        /\ \A k \in 1..n : \E j \in 1..n : Src(j) = k
    <2>1. pools' = Moved(pools, i)
      BY DEF Moved
    <2>2. QED
      <3>1. /\ Moved(pools, i) \in Seq(PoolIds) /\ Len(Moved(pools, i)) = Len(pools)
            /\ \A j \in 1..Len(pools) :
                 From(i, j, Len(pools)) \in 1..Len(pools) /\ Moved(pools, i)[j] = pools[From(i, j, Len(pools))]
            /\ \A j, k \in 1..Len(pools) : From(i, j, Len(pools)) = From(i, k, Len(pools)) => j = k
            /\ \A k \in 1..Len(pools) : \E j \in 1..Len(pools) : From(i, j, Len(pools)) = k
        BY <1>1, MovedProps, Zenon
      <3>2. QED
        BY <2>1, <3>1
  <1>4. Src(n) = i /\ n \in 1..n /\ \A j \in 1..n : j # n => Src(j) = Was(i, j) /\ Src(j) # i
    BY <1>1 DEF From, Was
  <1>5. 1..Len(pools') = 1..n
    BY <1>3
  <1> HIDE DEF Src, n
  <1>6. pool[pools[i]] \in [state: {"open"}, tenant: Tenants, lastUsedAt: 0..MaxTime]
    <2>1. pools[i] \in PoolIds /\ pool[pools[i]].state = "open"
      BY <1>2 DEF n
    <2>2. QED
      BY <1>1, <2>1 DEF PoolType, Unopened, Ending, Ended
  <1>7. /\ pool'[pools[i]] = [pool[pools[i]] EXCEPT !.lastUsedAt = now]
        /\ \A p \in PoolIds : p # pools[i] => pool'[p] = pool[p]
    BY <1>1, <1>2 DEF n
  <1>8. /\ pool'[pools[i]] \in [state: {"open"}, tenant: Tenants, lastUsedAt: 0..MaxTime]
        /\ pool'[pools[i]].lastUsedAt = now /\ pool'[pools[i]].tenant = pool[pools[i]].tenant
    BY <1>1, <1>6, <1>7
  <1>9. pool' \in [PoolIds -> PoolType]
    BY <1>1, <1>8 DEF PoolType
  <1>10. \A p \in PoolIds : pool[p].state = "open" =>
           pool'[p].state = "open" /\ pool'[p].tenant = pool[p].tenant
    <2>1. pool'[pools[i]].state = "open"
      BY <1>8
    <2>2. QED
      BY <1>7, <1>8, <2>1
  <1>11. ASSUME NEW j \in 1..n
         PROVE  KeyAt(j)' = KeyAt(Src(j)) /\ pool'[pools'[j]].state = "open"
    <2>1. Src(j) \in 1..n /\ pools'[j] = pools[Src(j)]
      BY <1>3
    <2>2. pools[Src(j)] \in PoolIds /\ pool[pools[Src(j)]].state = "open"
      BY <1>2, <2>1 DEF n
    <2>3. QED
      BY <1>10, <2>1, <2>2 DEF KeyAt
  <1>12. ASSUME NEW j \in 1..n, j # n
         PROVE  /\ Was(i, j) \in 1..n
                /\ pool'[pools'[j]].lastUsedAt = pool[pools[Was(i, j)]].lastUsedAt
    <2>1. Was(i, j) \in 1..n /\ Was(i, j) # i /\ pools'[j] = pools[Was(i, j)]
      <3>1. Src(j) \in 1..n /\ pools'[j] = pools[Src(j)]
        BY <1>3
      <3>2. Src(j) = Was(i, j) /\ Src(j) # i
        BY <1>4, <1>12
      <3>3. QED
        BY <3>1, <3>2
    <2>2. pools[Was(i, j)] # pools[i] /\ pools[Was(i, j)] \in PoolIds
      BY <1>2, <2>1 DEF NothingLeaked, KeyAt, n
    <2>3. QED
      BY <1>7, <2>1, <2>2
  <1>13. pool'[pools'[n]].lastUsedAt = now
    BY <1>3, <1>4, <1>8
  <1>14. NothingLeaked'
    <2>1. ASSUME NEW p \in Opened', pool'[p].state = "open"
          PROVE  \E j \in 1..Len(pools') : pools'[j] = p
      <3>1. p \in PoolIds
        BY DEF Opened
      <3>2. pool[p].state = "open" /\ p \in Opened
        BY <1>6, <1>7, <2>1, <3>1 DEF Opened, Unopened
      <3>3. PICK k \in 1..n : pools[k] = p
        BY <3>2 DEF NothingLeaked, n
      <3>4. PICK j \in 1..n : Src(j) = k
        BY <1>3
      <3>5. pools'[j] = p
        BY <1>3, <3>3, <3>4
      <3>6. QED
        BY <1>5, <3>5
    <2>2. \A j \in 1..Len(pools') : pool'[pools'[j]].state = "open"
      BY <1>5, <1>11
    <2>3. ASSUME NEW j \in 1..n, NEW k \in 1..n, KeyAt(j)' = KeyAt(k)'
          PROVE  j = k
      <3>1. KeyAt(Src(j)) = KeyAt(Src(k)) /\ Src(j) \in 1..n /\ Src(k) \in 1..n
        BY <1>3, <1>11, <2>3
      <3>2. Src(j) = Src(k)
        BY <3>1 DEF NothingLeaked, n
      <3>3. QED
        BY <1>3, <3>2
    <2>4. QED
      BY <1>5, <2>1, <2>2, <2>3 DEF NothingLeaked
  <1>15. ASSUME NEW j \in 1..n
         PROVE  pool'[pools'[j]].lastUsedAt <= now
    <2>1. CASE j = n
      <3>1. now <= now
        BY <1>1, TenantPoolsAssumption
      <3>2. pool'[pools'[j]].lastUsedAt = now
        BY <1>13, <2>1, Zenon
      <3>3. QED
        BY <3>1, <3>2, Zenon
    <2>2. CASE j # n
      BY <1>12, <2>2 DEF UsedBefore, n
    <2>3. QED
      BY <2>1, <2>2
  <1>16. ASSUME NEW j \in 1..n, NEW k \in 1..n, j < k
         PROVE  pool'[pools'[j]].lastUsedAt <= pool'[pools'[k]].lastUsedAt
    <2>1. CASE k = n
      BY <1>13, <1>15, <2>1
    <2>2. CASE k # n
      <3>1. j # n
        BY <1>1, <1>16
      <3>2. Was(i, j) < Was(i, k)
        BY <1>16 DEF Was, n
      <3>3. pool[pools[Was(i, j)]].lastUsedAt <= pool[pools[Was(i, k)]].lastUsedAt
        BY <1>12, <2>2, <3>1, <3>2 DEF LruOrder, n
      <3>4. QED
        BY <1>12, <2>2, <3>1, <3>3
    <2>3. QED
      BY <2>1, <2>2
  <1>17. LruOrder' /\ UsedBefore'
    BY <1>5, <1>15, <1>16 DEF LruOrder, UsedBefore
  <1>18. \A t \in Tenants : Has(t)' => Has(t)
    BY <1>3, <1>5, <1>11 DEF Has, n
  <1>19. QED
    BY <1>3, <1>9, <1>14, <1>17, <1>18 DEF n

\* What a new entry does to the Map.
LEMMA EnterMap ==
  ASSUME IInv, NEW p \in PoolIds, NEW t \in Tenants, pool[p] = Unopened, ~Has(t), now' = now,
         pool' = [pool EXCEPT ![p] = [state |-> "open", tenant |-> t, lastUsedAt |-> now]],
         pools' = MapSet(t, p)
  PROVE  /\ pools' \in Seq(PoolIds) /\ pool' \in [PoolIds -> PoolType]
         /\ Len(pools') = Len(pools) + 1
         /\ NothingLeaked' /\ LruOrder' /\ UsedBefore'
         /\ \A u \in Tenants : Has(u)' => Has(u) \/ u = t
  <1> USE DEF IInv
  <1> DEFINE n == Len(pools)
  <1>1. /\ pools \in Seq(PoolIds) /\ pool \in [PoolIds -> PoolType] /\ n \in Nat
        /\ now \in 0..MaxTime
    BY DEF TypeOK
  <1>2. /\ pools' \in Seq(PoolIds) /\ Len(pools') = n + 1 /\ pools'[n + 1] = p
        /\ \A j \in 1..n : pools'[j] = pools[j]
    BY <1>1 DEF MapSet
  <1>3. 1..Len(pools') = 1..n + 1 /\ \A j \in 1..n + 1 : j = n + 1 \/ j \in 1..n
    BY <1>1, <1>2
  <1>4. pool'[p] = [state |-> "open", tenant |-> t, lastUsedAt |-> now]
    BY <1>1
  <1>5. \A q \in PoolIds : q # p => pool'[q] = pool[q]
    BY <1>1
  <1>6. pool' \in [PoolIds -> PoolType]
    BY <1>1 DEF PoolType
  <1>7. ASSUME NEW j \in 1..n
        PROVE  pools[j] \in PoolIds /\ pools[j] # p /\ pool'[pools'[j]] = pool[pools[j]]
    <2>1. pools[j] \in PoolIds /\ pool[pools[j]].state = "open"
      BY <1>1 DEF NothingLeaked
    <2>2. pools[j] # p
      BY <2>1 DEF Unopened
    <2>3. QED
      BY <1>2, <1>5, <2>1, <2>2
  <1>8. pool'[pools'[n + 1]] = [state |-> "open", tenant |-> t, lastUsedAt |-> now]
    BY <1>2, <1>4
  <1>9. pool'[pools'[n + 1]].tenant = t /\ \A j \in 1..n : pool'[pools'[j]].tenant = KeyAt(j)
    BY <1>7, <1>8 DEF KeyAt
  <1>10. \A j \in 1..n : KeyAt(j) # t
    BY DEF Has
  <1> HIDE DEF n
  <1>11. NothingLeaked'
    <2>1. ASSUME NEW q \in Opened', pool'[q].state = "open"
          PROVE  \E j \in 1..Len(pools') : pools'[j] = q
      <3>1. q \in PoolIds
        BY DEF Opened
      <3>2. CASE q = p
        <4>1. n + 1 \in 1..Len(pools')
          BY <1>1, <1>3
        <4>2. QED
          BY <1>2, <3>2, <4>1
      <3>3. CASE q # p
        <4>1. pool[q].state = "open" /\ q \in Opened
          BY <1>5, <2>1, <3>1, <3>3 DEF Opened, Unopened
        <4>2. PICK k \in 1..n : pools[k] = q
          BY <4>1 DEF NothingLeaked, n
        <4>3. k \in 1..Len(pools') /\ pools'[k] = q
          BY <1>1, <1>2, <1>3, <4>2
        <4>4. QED
          BY <4>3
      <3>4. QED
        BY <3>2, <3>3
    <2>2. ASSUME NEW j \in 1..n + 1
          PROVE  pool'[pools'[j]].state = "open"
      <3>1. CASE j = n + 1
        BY <1>8, <3>1
      <3>2. CASE j \in 1..n
        <4>1. pool[pools[j]].state = "open"
          BY <3>2 DEF NothingLeaked, n
        <4>2. QED
          BY <1>7, <3>2, <4>1
      <3>3. QED
        BY <1>3, <3>1, <3>2
    <2>3. ASSUME NEW j \in 1..n + 1, NEW k \in 1..n + 1,
                 pool'[pools'[j]].tenant = pool'[pools'[k]].tenant
          PROVE  j = k
      <3>1. CASE j \in 1..n /\ k \in 1..n
        BY <1>9, <2>3, <3>1 DEF NothingLeaked, n
      <3>2. CASE j = n + 1 /\ k \in 1..n
        BY <1>9, <1>10, <2>3, <3>2
      <3>3. CASE k = n + 1 /\ j \in 1..n
        BY <1>9, <1>10, <2>3, <3>3
      <3>4. QED
        BY <1>3, <3>1, <3>2, <3>3
    <2>4. QED
      BY <1>3, <2>1, <2>2, <2>3 DEF NothingLeaked, KeyAt
  <1>12. ASSUME NEW j \in 1..n + 1
         PROVE  pool'[pools'[j]].lastUsedAt <= now
    <2>1. CASE j = n + 1
      <3>1. now <= now
        BY <1>1, TenantPoolsAssumption
      <3>2. pool'[pools'[j]].lastUsedAt = now
        BY <1>8, <2>1
      <3>3. QED
        BY <3>1, <3>2, Zenon
    <2>2. CASE j \in 1..n
      BY <1>7, <2>2 DEF UsedBefore, n
    <2>3. QED
      BY <1>3, <2>1, <2>2
  <1>13. ASSUME NEW j \in 1..n + 1, NEW k \in 1..n + 1, j < k
         PROVE  pool'[pools'[j]].lastUsedAt <= pool'[pools'[k]].lastUsedAt
    <2>1. CASE k = n + 1
      <3>1. pool'[pools'[k]].lastUsedAt = now
        BY <1>8, <2>1
      <3>2. QED
        BY <1>12, <3>1, Zenon
    <2>2. CASE k \in 1..n
      <3>1. j \in 1..n
        BY <1>1, <1>13, <2>2
      <3>2. QED
        BY <1>7, <1>13, <2>2, <3>1 DEF LruOrder, n
    <2>3. QED
      BY <1>3, <2>1, <2>2
  <1>14. LruOrder' /\ UsedBefore'
    BY <1>3, <1>12, <1>13 DEF LruOrder, UsedBefore
  <1>15. ASSUME NEW u \in Tenants, Has(u)'
         PROVE  Has(u) \/ u = t
    <2>1. PICK j \in 1..n + 1 : pool'[pools'[j]].tenant = u
      BY <1>3, <1>15 DEF Has, KeyAt
    <2>2. CASE j = n + 1
      BY <1>9, <2>1, <2>2
    <2>3. CASE j \in 1..n
      BY <1>9, <2>1, <2>3 DEF Has, n
    <2>4. QED
      BY <1>3, <2>2, <2>3
  <1>16. QED
    BY <1>2, <1>6, <1>11, <1>14, <1>15 DEF n

-----------------------------------------------------------------------------
(* The steps *)

\* Going on with something that is not an opening.
LEMMA OneOpenerKept ==
  ASSUME OneOpener, TypeOK, pending' = pending,
         \A t \in Tenants : Has(t)' => Has(t),
         \A r \in Requests : Opening(r)' => Opening(r) /\ req'[r].tenant = req[r].tenant
  PROVE  OneOpener'
  <1>1. \A r \in Requests : Opening(r) => req[r].tenant \in Tenants
    BY DEF TypeOK, ReqType, Opening, Idle
  <1>2. QED
    BY <1>1 DEF OneOpener

\* A request that hits goes on with a pool that is open.
LEMMA HitInv ==
  ASSUME IInv, NEW r \in Requests, NEW t \in Tenants, Hit(r, t)
  PROVE  IInv'
  <1> USE DEF IInv
  <1>1. PICK i \in 1..Len(pools) :
          /\ pools' = Append(Without(pools, i), pools[i])
          /\ pool' = [pool EXCEPT ![pools[i]].lastUsedAt = now]
          /\ req' = [req EXCEPT ![r] = [at |-> "has", pool |-> pools[i]]]
          /\ sweep' = Shift(i)
    BY DEF Hit
  <1>2. req[r] = Idle /\ pending' = pending /\ now' = now /\ down' = down
    BY DEF Hit
  <1>3. /\ pools' \in Seq(PoolIds) /\ pool' \in [PoolIds -> PoolType]
        /\ Len(pools') = Len(pools)
        /\ NothingLeaked' /\ LruOrder' /\ UsedBefore'
        /\ \A u \in Tenants : Has(u)' => Has(u)
    BY <1>1, <1>2, HitMap
  <1>4. pools[i] \in PoolIds
    BY DEF TypeOK
  <1>5. [at |-> "has", pool |-> pools[i]] \in ReqType
    BY <1>4 DEF ReqType
  <1>6. req' \in [Requests -> ReqType]
    BY <1>1, <1>5 DEF TypeOK
  <1>7. TypeOK'
    BY <1>1, <1>2, <1>3, <1>6, ShiftType DEF TypeOK
  <1>8. \A q \in Requests : Opening(q)' => Opening(q) /\ req'[q].tenant = req[q].tenant
    BY <1>1 DEF Opening, TypeOK
  <1>9. OneOpener'
    BY <1>2, <1>3, <1>8, OneOpenerKept
  <1>10. QED
    BY <1>3, <1>7, <1>9 DEF LimitHeld

\* An opening begins only if nobody else opens the pool of the tenant.
LEMMA StartInv ==
  ASSUME IInv, NEW r \in Requests, NEW t \in Tenants, Start(r, t)
  PROVE  IInv'
  <1> USE DEF IInv
  <1>1. /\ req' = [req EXCEPT ![r] = [at |-> "credentials", tenant |-> t]]
        /\ pending' = [pending EXCEPT ![t] = r] /\ pending[t] = NoOne /\ ~Has(t)
        /\ pool' = pool /\ pools' = pools /\ sweep' = sweep /\ now' = now /\ down' = down
    BY DEF Start
  <1>2. [at |-> "credentials", tenant |-> t] \in ReqType
    BY DEF ReqType
  <1>3. TypeOK'
    BY <1>1, <1>2 DEF TypeOK
  <1>4. \A u : Has(u)' <=> Has(u)
    BY <1>1 DEF Has, KeyAt
  <1>5. ASSUME NEW q \in Requests, Opening(q)'
        PROVE  pending'[req'[q].tenant] = q /\ ~Has(req'[q].tenant)
    <2>1. CASE q = r
      BY <1>1, <2>1 DEF TypeOK
    <2>2. CASE q # r
      <3>1. req'[q] = req[q] /\ Opening(q)
        BY <1>1, <1>5, <2>2 DEF TypeOK, Opening
      <3>2. pending[req[q].tenant] = q /\ ~Has(req[q].tenant)
        BY <3>1 DEF OneOpener
      <3>3. req[q].tenant # t
        BY <1>1, <3>2, TenantPoolsAssumption
      <3>4. QED
        BY <1>1, <3>1, <3>2, <3>3 DEF TypeOK
    <2>3. QED
      BY <2>1, <2>2
  <1>6. OneOpener'
    BY <1>4, <1>5 DEF OneOpener
  <1>7. QED
    BY <1>1, <1>3, <1>6 DEF LimitHeld, NothingLeaked, LruOrder, UsedBefore, Opened, KeyAt

\* The end of an opening leaves the other openings alone.
LEMMA SettleOpener ==
  ASSUME IInv, NEW r \in Requests, Opening(r), NEW answer \in ReqType, Settle(r, answer),
         answer.at \in {"idle", "has"},
         \A u \in Tenants : Has(u)' => Has(u) \/ u = req[r].tenant
  PROVE  OneOpener' /\ pending' \in [Tenants -> Requests \cup {NoOne}] /\ req' \in [Requests -> ReqType]
  <1> USE DEF IInv
  <1>1. /\ pending' = [pending EXCEPT ![req[r].tenant] = NoOne]
        /\ \A q \in Requests : req'[q] = answer \/ (q # r /\ req'[q] = req[q])
        /\ req' \in [Requests -> ReqType]
    BY DEF Settle, TypeOK
  <1>2. ASSUME NEW q \in Requests, Opening(q)'
        PROVE  pending'[req'[q].tenant] = q /\ \E u \in Tenants : u = req'[q].tenant /\ ~Has(u)'
    <2>1. req'[q] = req[q] /\ q # r /\ Opening(q)
      BY <1>1, <1>2 DEF Opening
    <2>2. pending[req[q].tenant] = q /\ pending[req[r].tenant] = r /\ ~Has(req[q].tenant)
      BY <2>1 DEF OneOpener
    <2>3. req[q].tenant \in Tenants
      BY <2>1 DEF Opening, TypeOK, ReqType, Idle
    <2>4. req[q].tenant # req[r].tenant
      BY <2>1, <2>2
    <2>5. QED
      BY <1>1, <2>1, <2>2, <2>3, <2>4 DEF TypeOK
  <1>3. OneOpener'
    BY <1>2 DEF OneOpener, Has
  <1>4. pending' \in [Tenants -> Requests \cup {NoOne}]
    BY <1>1 DEF TypeOK
  <1>5. QED
    BY <1>1, <1>3, <1>4

\* The facts about the Map are kept while nothing is done to it.
LEMMA MapKept ==
  ASSUME IInv, pool' = pool, pools' = pools, now' = now
  PROVE  LimitHeld' /\ NothingLeaked' /\ LruOrder' /\ UsedBefore' /\ \A t \in Tenants : Has(t)' => Has(t)
  BY DEF IInv, LimitHeld, NothingLeaked, LruOrder, UsedBefore, Opened, KeyAt, Has

\* A request that waits, queries or leaves changes nothing but itself.
LEMMA RequestInv ==
  ASSUME IInv, NEW r \in Requests,
         (\E t \in Tenants : Join(r, t)) \/ Query(r) \/ Release(r) \/ Leave(r)
  PROVE  IInv'
  <1> USE DEF IInv
  <1>1. /\ pool' = pool /\ pools' = pools /\ pending' = pending
        /\ sweep' = sweep /\ now' = now /\ down' = down
    BY DEF Join, Query, Release, Leave
  <1>2. PICK a \in ReqType : a.at \in {"idle", "waits", "has", "query"} /\ req' = [req EXCEPT ![r] = a]
    <2>1. Idle \in ReqType
      BY DEF ReqType
    <2>2. ASSUME NEW t \in Tenants, Join(r, t)
          PROVE  \E a \in ReqType : a.at \in {"idle", "waits", "has", "query"} /\ req' = [req EXCEPT ![r] = a]
      <3>1. pending[t] \in Requests
        BY <2>2 DEF Join, TypeOK
      <3>2. [at |-> "waits", opener |-> pending[t]] \in ReqType
        BY <3>1 DEF ReqType
      <3>3. req' = [req EXCEPT ![r] = [at |-> "waits", opener |-> pending[t]]]
        BY <2>2 DEF Join
      <3>4. QED
        BY <3>2, <3>3
    <2>3. CASE Query(r) \/ Release(r)
      <3>1. req[r] \in [at: {"has", "query"}, pool: PoolIds]
        BY <2>3 DEF Query, Release, TypeOK, ReqType, Idle
      <3>2. [req[r] EXCEPT !.at = "query"] \in ReqType /\ [req[r] EXCEPT !.at = "has"] \in ReqType
        BY <3>1 DEF ReqType
      <3>3. /\ [req[r] EXCEPT !.at = "query"].at = "query"
            /\ [req[r] EXCEPT !.at = "has"].at = "has"
        BY <3>1
      <3>4. \/ req' = [req EXCEPT ![r] = [req[r] EXCEPT !.at = "query"]]
            \/ req' = [req EXCEPT ![r] = [req[r] EXCEPT !.at = "has"]]
            \/ req' = [req EXCEPT ![r] = Idle]
        BY <2>3 DEF Query, Release
      <3>5. QED
        BY <2>1, <3>2, <3>3, <3>4 DEF Idle
    <2>4. CASE Leave(r)
      BY <2>1, <2>4 DEF Leave, Idle
    <2>5. QED
      BY <2>2, <2>3, <2>4
  <1>3. TypeOK'
    BY <1>1, <1>2 DEF TypeOK
  <1>4. \A q \in Requests : Opening(q)' => Opening(q) /\ req'[q].tenant = req[q].tenant
    BY <1>2 DEF Opening, TypeOK
  <1>5. OneOpener'
    BY <1>1, <1>4, MapKept, OneOpenerKept
  <1>6. QED
    BY <1>1, <1>3, <1>5, MapKept

\* An opening that fails.
LEMMA RefusedInv ==
  ASSUME IInv, NEW r \in Requests, Refused(r)
  PROVE  IInv'
  <1> USE DEF IInv
  <1>1. /\ pool' = pool /\ pools' = pools /\ sweep' = sweep /\ now' = now /\ down' = down
        /\ Settle(r, Idle) /\ Opening(r)
    BY DEF Refused, Opening
  <1>2. Idle \in ReqType /\ Idle.at = "idle"
    BY DEF ReqType, Idle
  <1>3. OneOpener' /\ pending' \in [Tenants -> Requests \cup {NoOne}] /\ req' \in [Requests -> ReqType]
    BY <1>1, <1>2, MapKept, SettleOpener
  <1>4. TypeOK'
    BY <1>1, <1>3 DEF TypeOK
  <1>5. QED
    BY <1>1, <1>3, <1>4, MapKept

\* Making room: the Map has an entry to evict, and the tenant is still not in it.
LEMMA EvictOldestInv ==
  ASSUME IInv, NEW r \in Requests, EvictOldest(r)
  PROVE  IInv'
  <1> USE DEF IInv
  <1>1. /\ Len(pools) >= MaxPools /\ Evict(1) /\ sweep' = Shift(1) /\ Resumed(r)
        /\ req' = [req EXCEPT ![r] = [at |-> "evicting", tenant |-> req[r].tenant, pool |-> pools[1]]]
        /\ pending' = pending /\ now' = now /\ down' = down
    BY DEF EvictOldest
  <1>2. 1 \in 1..Len(pools)
    BY <1>1, TenantPoolsAssumption DEF TypeOK
  <1>3. /\ pools' \in Seq(PoolIds) /\ pool' \in [PoolIds -> PoolType]
        /\ Len(pools') = Len(pools) - 1
        /\ NothingLeaked' /\ LruOrder' /\ UsedBefore'
        /\ \A t \in Tenants : Has(t)' => Has(t)
    BY <1>1, <1>2, EvictMap
  <1>4. sweep' \in {NoSweep} \cup [at: {"ending"}, cutoff: 0..MaxTime, cursor: Nat, pool: PoolIds]
    BY <1>1, <1>2, ShiftType
  <1>5. req[r].tenant \in Tenants /\ Opening(r)
    BY <1>1 DEF Resumed, Opening, TypeOK, ReqType, Idle
  <1>6. pools[1] \in PoolIds
    BY <1>2 DEF TypeOK
  <1>7. [at |-> "evicting", tenant |-> req[r].tenant, pool |-> pools[1]] \in ReqType
    BY <1>5, <1>6 DEF ReqType
  <1>8. TypeOK'
    BY <1>1, <1>3, <1>4, <1>7 DEF TypeOK
  <1>9. \A q \in Requests : Opening(q)' => Opening(q) /\ req'[q].tenant = req[q].tenant
    BY <1>1, <1>5 DEF Opening, TypeOK
  <1>10. OneOpener'
    BY <1>1, <1>3, <1>9, OneOpenerKept
  <1>11. LimitHeld'
    BY <1>3, TenantPoolsAssumption DEF LimitHeld, TypeOK
  <1>12. QED
    BY <1>3, <1>8, <1>10, <1>11

\* The new entry: there is room for it, and its tenant has no other.
LEMMA OpenInv ==
  ASSUME IInv, NEW r \in Requests, Open(r)
  PROVE  IInv'
  <1> USE DEF IInv
  <1>1. Resumed(r) /\ Len(pools) < MaxPools /\ sweep' = sweep /\ now' = now /\ down' = down
    BY DEF Open, Enter
  <1>2. PICK p \in PoolIds :
          /\ pool[p] = Unopened
          /\ pool' = [pool EXCEPT ![p] = [state |-> "open", tenant |-> req[r].tenant, lastUsedAt |-> now]]
          /\ pools' = MapSet(req[r].tenant, p)
          /\ Settle(r, [at |-> "has", pool |-> p])
    BY DEF Open, Enter
  <1>3. Opening(r) /\ req[r].tenant \in Tenants
    BY <1>1 DEF Resumed, Opening, TypeOK, ReqType, Idle
  <1>4. ~Has(req[r].tenant)
    BY <1>3 DEF OneOpener
  <1>5. PICK t \in Tenants : t = req[r].tenant
    BY <1>3
  <1>6. /\ pools' \in Seq(PoolIds) /\ pool' \in [PoolIds -> PoolType]
        /\ Len(pools') = Len(pools) + 1
        /\ NothingLeaked' /\ LruOrder' /\ UsedBefore'
        /\ \A u \in Tenants : Has(u)' => Has(u) \/ u = t
    BY <1>1, <1>2, <1>4, <1>5, EnterMap
  <1>7. [at |-> "has", pool |-> p] \in ReqType /\ [at |-> "has", pool |-> p].at = "has"
    BY DEF ReqType
  <1>8. OneOpener' /\ pending' \in [Tenants -> Requests \cup {NoOne}] /\ req' \in [Requests -> ReqType]
    BY <1>2, <1>3, <1>5, <1>6, <1>7, SettleOpener
  <1>9. TypeOK'
    BY <1>1, <1>6, <1>8 DEF TypeOK
  <1>10. LimitHeld'
    BY <1>1, <1>6, TenantPoolsAssumption DEF LimitHeld, TypeOK
  <1>11. QED
    BY <1>6, <1>8, <1>9, <1>10

\* Eviction by suspension or by the sweep: the requests are left alone.
LEMMA EvictInv ==
  ASSUME IInv, NEW i \in 1..Len(pools), Evict(i), UNCHANGED <<pending, req, now, down>>,
         sweep' \in {NoSweep} \cup [at: {"ending"}, cutoff: 0..MaxTime, cursor: Nat, pool: PoolIds]
  PROVE  IInv'
  <1> USE DEF IInv
  <1>1. /\ pools' \in Seq(PoolIds) /\ pool' \in [PoolIds -> PoolType]
        /\ Len(pools') = Len(pools) - 1
        /\ NothingLeaked' /\ LruOrder' /\ UsedBefore'
        /\ \A t \in Tenants : Has(t)' => Has(t)
    BY EvictMap
  <1>2. TypeOK'
    BY <1>1 DEF TypeOK
  <1>3. \A q \in Requests : Opening(q)' => Opening(q) /\ req'[q].tenant = req[q].tenant
    BY DEF Opening
  <1>4. OneOpener'
    BY <1>1, <1>3, OneOpenerKept
  <1>5. LimitHeld'
    BY <1>1, TenantPoolsAssumption DEF LimitHeld, TypeOK
  <1>6. QED
    BY <1>1, <1>2, <1>4, <1>5

\* A sweep evicts one entry or stops.
LEMMA SweepInv ==
  ASSUME IInv, SweepStart \/ SweepGoesOn
  PROVE  IInv'
  <1> USE DEF IInv
  <1>1. PICK cursor \in Nat, cutoff \in 0..MaxTime :
          SweepFrom(cursor, cutoff) /\ UNCHANGED <<pending, req, now, down>>
    <2>1. CASE SweepStart
      <3>1. now - IdleTtl \in 0..MaxTime /\ 0 \in Nat
        BY <2>1, TenantPoolsAssumption DEF SweepStart, TypeOK
      <3>2. SweepFrom(0, now - IdleTtl) /\ UNCHANGED <<pending, req, now, down>>
        BY <2>1 DEF SweepStart
      <3>3. QED
        BY <3>1, <3>2
    <2>2. CASE SweepGoesOn
      <3>1. sweep.cursor \in Nat /\ sweep.cutoff \in 0..MaxTime
        BY <2>2 DEF SweepGoesOn, TypeOK
      <3>2. SweepFrom(sweep.cursor, sweep.cutoff) /\ UNCHANGED <<pending, req, now, down>>
        BY <2>2 DEF SweepGoesOn
      <3>3. QED
        BY <3>1, <3>2
    <2>3. QED
      BY <2>1, <2>2
  <1>2. CASE \E i \in cursor + 1 .. Len(pools) :
               Evict(i) /\ sweep' = [at |-> "ending", cutoff |-> cutoff, cursor |-> i - 1, pool |-> pools[i]]
    <2>1. PICK i \in cursor + 1 .. Len(pools) :
            Evict(i) /\ sweep' = [at |-> "ending", cutoff |-> cutoff, cursor |-> i - 1, pool |-> pools[i]]
      BY <1>2
    <2>2. i \in 1..Len(pools) /\ i - 1 \in Nat
      BY <1>1, <2>1 DEF TypeOK
    <2>3. pools[i] \in PoolIds
      BY <2>2 DEF TypeOK
    <2>4. sweep' \in [at: {"ending"}, cutoff: 0..MaxTime, cursor: Nat, pool: PoolIds]
      BY <1>1, <2>1, <2>2, <2>3
    <2>5. QED
      BY <1>1, <2>1, <2>2, <2>4, EvictInv
  <1>3. CASE sweep' = NoSweep /\ UNCHANGED <<pool, pools>>
    <2>1. TypeOK'
      BY <1>1, <1>3 DEF TypeOK
    <2>2. \A q \in Requests : Opening(q)' => Opening(q) /\ req'[q].tenant = req[q].tenant
      BY <1>1 DEF Opening
    <2>3. OneOpener'
      BY <1>1, <1>3, <2>2, MapKept, OneOpenerKept
    <2>4. QED
      BY <1>1, <1>3, <2>1, <2>3, MapKept
  <1>4. QED
    BY <1>1, <1>2, <1>3 DEF SweepFrom

\* A pool that has ended was in the Map no more.
LEMMA EndsInv ==
  ASSUME IInv, NEW p \in PoolIds, Ends(p)
  PROVE  IInv'
  <1> USE DEF IInv
  <1>1. /\ pool[p] = Ending /\ pool' = [pool EXCEPT ![p] = Ended]
        /\ pools' = pools /\ pending' = pending /\ req' = req /\ sweep' = sweep /\ now' = now /\ down' = down
    BY DEF Ends
  <1>2. TypeOK'
    BY <1>1 DEF TypeOK, PoolType
  <1>3. ASSUME NEW i \in 1..Len(pools)
        PROVE  pools[i] \in PoolIds /\ pools[i] # p /\ pool'[pools[i]] = pool[pools[i]]
    <2>1. pools[i] \in PoolIds /\ pool[pools[i]].state = "open"
      BY DEF TypeOK, NothingLeaked
    <2>2. pools[i] # p
      BY <1>1, <2>1 DEF Ending
    <2>3. QED
      BY <1>1, <2>1, <2>2 DEF TypeOK
  <1>4. NothingLeaked'
    <2>1. ASSUME NEW q \in Opened', pool'[q].state = "open"
          PROVE  \E i \in 1..Len(pools) : pools[i] = q
      <3>1. q \in PoolIds /\ q # p /\ pool'[q] = pool[q]
        BY <1>1, <2>1 DEF Opened, TypeOK, Ended
      <3>2. q \in Opened /\ pool[q].state = "open"
        BY <2>1, <3>1 DEF Opened, Unopened
      <3>3. QED
        BY <3>2 DEF NothingLeaked
    <2>2. \A i \in 1..Len(pools) : pool'[pools[i]].state = "open"
      BY <1>3 DEF NothingLeaked
    <2>3. \A i, j \in 1..Len(pools) : pool'[pools[i]].tenant = pool'[pools[j]].tenant => i = j
      BY <1>3 DEF NothingLeaked, KeyAt
    <2>4. QED
      BY <1>1, <2>1, <2>2, <2>3 DEF NothingLeaked, KeyAt
  <1>5. LimitHeld' /\ LruOrder' /\ UsedBefore'
    BY <1>1, <1>3 DEF LimitHeld, LruOrder, UsedBefore
  <1>6. \A t \in Tenants : Has(t)' => Has(t)
    BY <1>1, <1>3 DEF Has, KeyAt
  <1>7. \A q \in Requests : Opening(q)' => Opening(q) /\ req'[q].tenant = req[q].tenant
    BY <1>1 DEF Opening
  <1>8. OneOpener'
    BY <1>1, <1>6, <1>7, OneOpenerKept
  <1>9. QED
    BY <1>2, <1>4, <1>5, <1>8

\* Shutdown empties the Map.
LEMMA ShutdownInv ==
  ASSUME IInv, Shutdown
  PROVE  IInv'
  <1> USE DEF IInv
  <1>1. /\ pools' = <<>> /\ pending' = pending /\ req' = req /\ now' = now /\ down' = TRUE
        /\ pool' = [p \in PoolIds |->
                      IF \E i \in 1..Len(pools) : pools[i] = p THEN Ending ELSE pool[p]]
        /\ sweep' = IF sweep = NoSweep THEN NoSweep ELSE [sweep EXCEPT !.cursor = 0]
    BY DEF Shutdown
  <1>2. pool' \in [PoolIds -> PoolType]
    <2>1. \A p \in PoolIds : pool[p] \in PoolType /\ Ending \in PoolType
      BY DEF TypeOK, PoolType
    <2>2. QED
      BY <1>1, <2>1
  <1>3. sweep' \in {NoSweep} \cup [at: {"ending"}, cutoff: 0..MaxTime, cursor: Nat, pool: PoolIds]
    BY <1>1 DEF TypeOK
  <1>4. TypeOK'
    BY <1>1, <1>2, <1>3 DEF TypeOK
  <1>5. Len(pools') = 0 /\ 1..Len(pools') = {}
    BY <1>1
  <1>6. ASSUME NEW p \in Opened', pool'[p].state = "open"
        PROVE  FALSE
    <2>1. p \in PoolIds
      BY DEF Opened
    <2>2. pool'[p] = pool[p] /\ ~\E i \in 1..Len(pools) : pools[i] = p
      BY <1>1, <1>6, <2>1 DEF Ending
    <2>3. p \in Opened
      BY <1>6, <2>1, <2>2 DEF Opened, Unopened
    <2>4. QED
      BY <1>6, <2>2, <2>3 DEF NothingLeaked
  <1>7. NothingLeaked' /\ LruOrder' /\ UsedBefore'
    BY <1>5, <1>6 DEF NothingLeaked, LruOrder, UsedBefore
  <1>8. LimitHeld'
    BY <1>5, TenantPoolsAssumption DEF LimitHeld
  <1>9. \A t \in Tenants : Has(t)' => Has(t)
    BY <1>5 DEF Has
  <1>10. \A q \in Requests : Opening(q)' => Opening(q) /\ req'[q].tenant = req[q].tenant
    BY <1>1 DEF Opening
  <1>11. OneOpener'
    BY <1>1, <1>9, <1>10, OneOpenerKept
  <1>12. QED
    BY <1>4, <1>7, <1>8, <1>11

-----------------------------------------------------------------------------
(* The invariant *)

\* A process begins with no pools.
LEMMA InitInv == Init => IInv
  <1> SUFFICES ASSUME Init PROVE IInv
    OBVIOUS
  <1>1. TypeOK
    <2>1. Unopened \in PoolType /\ Idle \in ReqType /\ 0 \in 0..MaxTime
      BY TenantPoolsAssumption DEF PoolType, ReqType
    <2>2. pools \in Seq(PoolIds)
      BY DEF Init
    <2>3. QED
      BY <2>1, <2>2 DEF Init, TypeOK
  <1>2. Len(pools) = 0 /\ 1..Len(pools) = {} /\ Opened = {}
    BY DEF Init, Opened
  <1>3. LimitHeld /\ NothingLeaked /\ LruOrder /\ UsedBefore
    BY <1>2, TenantPoolsAssumption DEF LimitHeld, NothingLeaked, LruOrder, UsedBefore
  <1>4. OneOpener
    BY DEF Init, OneOpener, Opening, Idle
  <1>5. QED
    BY <1>1, <1>3, <1>4 DEF IInv

\* Every step keeps the invariant.
LEMMA NextInv == IInv /\ [Next]_vars => IInv'
  <1> SUFFICES ASSUME IInv, [Next]_vars PROVE IInv'
    OBVIOUS
  <1>1. ASSUME NEW r \in Requests, Get(r)
        PROVE  IInv'
    BY <1>1, HitInv, RequestInv, StartInv DEF Get
  <1>2. ASSUME NEW r \in Requests, GoOn(r)
        PROVE  IInv'
    BY <1>2, RefusedInv, EvictOldestInv, OpenInv DEF GoOn
  <1>3. ASSUME NEW r \in Requests, Query(r) \/ Release(r) \/ Leave(r)
        PROVE  IInv'
    BY <1>3, RequestInv
  <1>4. ASSUME NEW p \in PoolIds, Ends(p)
        PROVE  IInv'
    BY <1>4, EndsInv
  <1>5. ASSUME NEW t \in Tenants, EvictTenant(t)
        PROVE  IInv'
    <2>1. PICK i \in 1..Len(pools) : Evict(i) /\ sweep' = Shift(i)
      BY <1>5 DEF EvictTenant
    <2>2. sweep' \in {NoSweep} \cup [at: {"ending"}, cutoff: 0..MaxTime, cursor: Nat, pool: PoolIds]
      BY <2>1, ShiftType DEF IInv
    <2>3. QED
      BY <1>5, <2>1, <2>2, EvictInv DEF EvictTenant
  <1>6. CASE SweepStart \/ SweepGoesOn
    BY <1>6, SweepInv
  <1>7. CASE Shutdown
    BY <1>7, ShutdownInv
  <1>8. CASE Tick
    <2>1. /\ now' = now + 1 /\ now < MaxTime
          /\ pool' = pool /\ pools' = pools /\ pending' = pending /\ req' = req /\ sweep' = sweep /\ down' = down
      BY <1>8 DEF Tick
    <2>2. TypeOK'
      BY <2>1, TenantPoolsAssumption DEF IInv, TypeOK
    <2>3. UsedBefore'
      <3>1. ASSUME NEW i \in 1..Len(pools)
            PROVE  pool[pools[i]].lastUsedAt <= now + 1
        <4>1. pools[i] \in PoolIds /\ pool[pools[i]] \in PoolType /\ pool[pools[i]].state = "open"
          BY DEF IInv, TypeOK, NothingLeaked
        <4>2. pool[pools[i]].lastUsedAt \in 0..MaxTime
          BY <4>1 DEF PoolType, Unopened, Ending, Ended
        <4>3. pool[pools[i]].lastUsedAt <= now /\ now \in 0..MaxTime
          BY DEF IInv, UsedBefore, TypeOK
        <4>4. QED
          BY <4>2, <4>3, TenantPoolsAssumption
      <3>2. QED
        BY <2>1, <3>1 DEF UsedBefore
    <2>4. QED
      BY <2>1, <2>2, <2>3
         DEF IInv, LimitHeld, NothingLeaked, LruOrder, OneOpener, Opening, Opened, KeyAt, Has
  <1>9. CASE UNCHANGED vars
    BY <1>9
       DEF vars, IInv, TypeOK, LimitHeld, NothingLeaked, LruOrder, UsedBefore, OneOpener, Opening, Opened, KeyAt, Has
  <1>10. QED
    BY <1>1, <1>2, <1>3, <1>4, <1>5, <1>6, <1>7, <1>8, <1>9 DEF Next

\* The invariant holds all the time.
LEMMA InvHolds == Spec => []IInv
  BY InitInv, NextInv, PTL DEF Spec

\* get, open, evict, the sweep and shutdown keep every variable in its type.
THEOREM TypeCorrect == Spec => []TypeOK
<1>1. IInv => TypeOK
  BY DEF IInv
<1>2. QED
  BY InvHolds, <1>1, PTL

\* TENANT_POOL_MAX_POOLS is never exceeded, for any number of requests that
\* open pools, evict for room and wait at the same time.
THEOREM LimitCorrect == Spec => []LimitHeld
<1>1. IInv => LimitHeld
  BY DEF IInv
<1>2. QED
  BY InvHolds, <1>1, PTL

\* Concurrent gets of a tenant open one pool, and no open pool is ever lost
\* from the Map.
THEOREM LeakCorrect == Spec => []NothingLeaked
<1>1. IInv => NothingLeaked
  BY DEF IInv
<1>2. QED
  BY InvHolds, <1>1, PTL

\* The first entry of the Map, which eviction takes, is the least recently
\* used one.
THEOREM LruCorrect == Spec => []LruOrder
<1>1. IInv => LruOrder
  BY DEF IInv
<1>2. QED
  BY InvHolds, <1>1, PTL
=============================================================================
