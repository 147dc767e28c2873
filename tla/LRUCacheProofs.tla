--------------------------- MODULE LRUCacheProofs ---------------------------
(***************************************************************************)
(* What holds of auth/cache.go for every set of keys and values, every     *)
(* capacity and every lifetime: the types, that map and list agree, that   *)
(* the capacity holds and that an Add evicts the least recently used.      *)
(***************************************************************************)
EXTENDS LRUCache, FiniteSetTheorems, TLAPS

-----------------------------------------------------------------------------
(* The list operations *)

\* The keys of a list of S are S.
LEMMA ListedKeys ==
    ASSUME NEW l, NEW S, S \subseteq Key, IsListOf(l, S)
    PROVE  Listed(l) = S
BY DEF Listed, IsListOf

\* A push of any key on a list of S is a list of S and that key.
LEMMA PushKeepsList ==
    ASSUME NEW l, NEW S, S \subseteq Key, NEW k, IsListOf(l, S)
    PROVE  IsListOf(PushedToFront(l, k), S \cup {k})
<1> DEFINE new == PushedToFront(l, k)
<1>0. Listed(l) = S
  BY ListedKeys
<1>1. \A i, j : <<i, j>> \in new <=> \/ i # k /\ j # k /\ <<i, j>> \in l
                                     \/ i = k /\ j \in S \cup {k}
  BY <1>0 DEF PushedToFront
<1>2. \A p \in new : p \in (S \cup {k}) \X (S \cup {k})
  BY <1>0 DEF PushedToFront, IsListOf
<1>3. \A j \in S \cup {k} : <<j, j>> \in new
  BY <1>1 DEF IsListOf
<1> HIDE DEF new
<1>4. \A i, j \in S \cup {k} : <<i, j>> \in new \/ <<j, i>> \in new
  BY <1>1 DEF IsListOf
<1>5. \A i, j \in S \cup {k} : <<i, j>> \in new /\ <<j, i>> \in new => i = j
  BY <1>1 DEF IsListOf
<1>6. \A h, i, j \in S \cup {k} :
          <<h, i>> \in new /\ <<i, j>> \in new => <<h, j>> \in new
  BY <1>1 DEF IsListOf
<1>7. new \subseteq (S \cup {k}) \X (S \cup {k})
  BY <1>2
<1> QED
  BY <1>3, <1>4, <1>5, <1>6, <1>7 DEF IsListOf, new

\* Unlinking some keys of a list of S leaves a list of the others.
LEMMA UnlinkKeepsList ==
    ASSUME NEW l, NEW S, NEW T, IsListOf(l, S)
    PROVE  IsListOf(Unlinked(l, T), S \ T)
<1>1. \A i, j : <<i, j>> \in Unlinked(l, T) <=> i \notin T /\ j \notin T /\ <<i, j>> \in l
  BY DEF Unlinked
<1>2. Unlinked(l, T) \subseteq (S \ T) \X (S \ T)
  BY DEF Unlinked, IsListOf
<1> QED
  BY <1>1, <1>2 DEF IsListOf


-----------------------------------------------------------------------------
(* Types *)

\* The map, the list, the clock and the answers always have their types: in
\* particular an entry never carries a birth in the future (cache.go:107-114).
THEOREM TypeCorrect == Spec => []TypeOK
<1>1. Init => TypeOK
  BY BoundsAssumption DEF Init, TypeOK, Reply
<1>2. TypeOK /\ [Next]_vars => TypeOK'
  <2> SUFFICES ASSUME TypeOK, [Next]_vars PROVE TypeOK'
    OBVIOUS
  <2> USE BoundsAssumption DEF TypeOK
  <2>1. ASSUME NEW k \in Key, Use(k)
        PROVE  uses' \in 0 .. MaxUse /\ lastUse' \in [Key -> 0 .. MaxUse]
    BY <2>1 DEF Use
  <2>2. ASSUME NEW k \in Key
        PROVE  PushedToFront(ll, k) \subseteq Key \X Key
    <3>1. {p \in ll : p[1] # k /\ p[2] # k} \subseteq Key \X Key
      OBVIOUS
    <3>2. {<<k, j>> : j \in Listed(ll) \cup {k}} \subseteq Key \X Key
      <4>1. \A j \in Listed(ll) \cup {k} : <<k, j>> \in Key \X Key
        BY DEF Listed
      <4> QED
        BY ONLY <4>1
    <3> QED
      BY <3>1, <3>2 DEF PushedToFront
  <2>3. ASSUME NEW S
        PROVE  /\ Unlinked(ll, S) \subseteq Key \X Key
               /\ DOMAIN Without(S) \subseteq Key
               /\ \A j \in DOMAIN Without(S) : Without(S)[j] \in Entry
    BY DEF Unlinked, Without
  <2>4. ASSUME NEW v \in Value, NEW ttl \in TTL
        PROVE  NewEntry(v, ttl) \in Entry
    BY <2>4 DEF NewEntry, Entry
  <2>5. ASSUME NEW k \in Key, NEW v \in Value, NEW ttl \in TTL, Add(k, v, ttl)
        PROVE  TypeOK'
    <3>1. now' \in 0 .. MaxTime /\ reply' \in Reply
      BY <2>5 DEF Add, Returns, Reply
    <3>2. uses' \in 0 .. MaxUse /\ lastUse' \in [Key -> 0 .. MaxUse]
      BY <2>5, <2>1 DEF Add
    <3>3. CASE Overwrite(k, v, ttl)
      BY <3>1, <3>2, <3>3, <2>2, <2>4 DEF Overwrite
    <3>4. CASE Insert(k, v, ttl)
      <4>1. \A back : Unlinked(PushedToFront(ll, k), {back}) \subseteq Key \X Key
        BY <2>2 DEF Unlinked
      <4>2. ll' \subseteq Key \X Key
        BY <3>4, <2>2, <4>1 DEF Insert
      <4>3. /\ DOMAIN Inserted(k, v, ttl) = DOMAIN cache \cup {k}
            /\ \A j \in DOMAIN cache \cup {k} : Inserted(k, v, ttl)[j] \in Entry
        BY <2>4 DEF Inserted
      <4>4. DOMAIN cache' \subseteq Key /\ \A j \in DOMAIN cache' : cache'[j] \in Entry
        BY <3>4, <4>3 DEF Insert
      <4> QED
        BY <3>1, <3>2, <4>2, <4>4
    <3> QED
      BY <2>5, <3>3, <3>4 DEF Add
  <2>6. ASSUME NEW k \in Key, GetHit(k)
        PROVE  TypeOK'
    <3>1. reply' \in Reply
      BY <2>6 DEF GetHit, Returns, Reply, Entry
    <3> QED
      BY <2>6, <3>1, <2>1, <2>2 DEF GetHit
  <2>7. ASSUME NEW k \in Key, GetMiss(k)
        PROVE  TypeOK'
    BY <2>7 DEF GetMiss, Returns, Reply
  <2>8. ASSUME NEW p \in Pattern, Remove(p)
        PROVE  TypeOK'
    BY <2>8, <2>3 DEF Remove, Returns, Reply
  <2>9. ASSUME Clear
        PROVE  TypeOK'
    BY <2>9, <2>3 DEF Clear, Returns, Reply
  <2>10. ASSUME Purge
         PROVE  TypeOK'
    BY <2>10, <2>3 DEF Purge
  <2>11. ASSUME Tick
         PROVE  TypeOK'
    BY <2>11 DEF Tick
  <2>12. ASSUME UNCHANGED vars
         PROVE  TypeOK'
    BY <2>12 DEF vars
  <2> QED
    BY <2>5, <2>6, <2>7, <2>8, <2>9, <2>10, <2>11, <2>12 DEF Next, Get
<1> QED
  BY <1>1, <1>2, PTL DEF Spec

-----------------------------------------------------------------------------
(* Map and list, capacity, recency *)

\* Uses are numbered, so nothing was used later than now.
UsesCounted == \A k \in Key : lastUse[k] <= uses

IInv == TypeOK /\ ListMatchesMap /\ Capacity /\ RecencyOrder /\ UsesCounted

\* A push of k, used last, on a list in order of use is a list in order of use.
LEMMA PushKeepsRecency ==
    ASSUME TypeOK, ListMatchesMap, RecencyOrder, UsesCounted,
           NEW k \in Key, Use(k)
    PROVE  /\ UsesCounted'
           /\ \A i, j \in DOMAIN cache \cup {k} :
                 <<i, j>> \in PushedToFront(ll, k) /\ i # j => lastUse'[j] < lastUse'[i]
<1>1. /\ uses \in Nat /\ uses' = uses + 1
      /\ \A j \in Key : lastUse[j] \in Nat /\ lastUse[j] <= uses
      /\ \A j \in Key : lastUse'[j] = IF j = k THEN uses + 1 ELSE lastUse[j]
  BY BoundsAssumption DEF TypeOK, Use, UsesCounted
<1>2. UsesCounted'
  BY <1>1 DEF UsesCounted
<1>3. ASSUME NEW i \in DOMAIN cache \cup {k}, NEW j \in DOMAIN cache \cup {k},
             <<i, j>> \in PushedToFront(ll, k), i # j
      PROVE  lastUse'[j] < lastUse'[i]
  <2>1. i \in Key /\ j \in Key
    BY DEF TypeOK
  <2>2. CASE i = k
    BY <1>1, <2>1, <2>2, <1>3
  <2>3. CASE i # k
    <3>1. <<i, j>> \in ll /\ j # k
      BY <1>3, <2>3 DEF PushedToFront
    <3>2. i \in DOMAIN cache /\ j \in DOMAIN cache
      BY <3>1, <2>3
    <3>3. lastUse[j] < lastUse[i]
      BY <3>1, <3>2, <1>3 DEF RecencyOrder
    <3> QED
      BY <1>1, <2>1, <2>3, <3>1, <3>3
  <2> QED
    BY <2>2, <2>3
<1> QED
  BY <1>2, <1>3

\* Dropping the keys T from the map and from the list, with no use counted,
\* keeps the invariant: Remove, Clear and Purge are such steps.
LEMMA DropKeepsInv ==
    ASSUME IInv, TypeOK', NEW T, cache' = Without(T), ll' = Unlinked(ll, T),
           UNCHANGED <<uses, lastUse>>
    PROVE  IInv'
<1>1. DOMAIN cache' = DOMAIN cache \ T
  BY DEF Without
<1>2. ListMatchesMap'
  BY <1>1, UnlinkKeepsList DEF IInv, ListMatchesMap
<1>3. Capacity'
  <2>1. IsFiniteSet(DOMAIN cache)
    BY KeyAssumption, FS_Subset DEF IInv, TypeOK
  <2>2. /\ Cardinality(DOMAIN cache') <= Cardinality(DOMAIN cache)
        /\ Cardinality(DOMAIN cache') \in Nat
        /\ Cardinality(DOMAIN cache) \in Nat
    BY <1>1, <2>1, FS_Subset, FS_CardinalityType
  <2> QED
    BY <2>2, MaxEntriesAssumption DEF IInv, Capacity
<1>4. RecencyOrder'
  <2>1. \A j, k : <<j, k>> \in ll' => <<j, k>> \in ll
    BY DEF Unlinked
  <2> QED
    BY <1>1, <2>1 DEF IInv, RecencyOrder
<1>5. UsesCounted'
  BY DEF IInv, UsesCounted
<1> QED
  BY <1>2, <1>3, <1>4, <1>5 DEF IInv

\* A step that moves k, used last, to the front and keeps the keys of the map.
LEMMA TouchKeepsInv ==
    ASSUME IInv, TypeOK', NEW k \in Key, k \in DOMAIN cache, Use(k),
           DOMAIN cache' = DOMAIN cache, ll' = PushedToFront(ll, k)
    PROVE  IInv'
<1>1. DOMAIN cache \cup {k} = DOMAIN cache
  OBVIOUS
<1>2. ListMatchesMap'
  <2>1. DOMAIN cache \subseteq Key /\ IsListOf(ll, DOMAIN cache)
    BY DEF IInv, TypeOK, ListMatchesMap
  <2>2. IsListOf(PushedToFront(ll, k), DOMAIN cache \cup {k})
    BY <2>1, PushKeepsList
  <2> QED
    BY <1>1, <2>2 DEF ListMatchesMap
<1>3. Capacity'
  BY DEF IInv, Capacity
<1>4. RecencyOrder' /\ UsesCounted'
  BY <1>1, PushKeepsRecency DEF IInv, RecencyOrder
<1> QED
  BY <1>2, <1>3, <1>4 DEF IInv

\* An insertion of a new key, with or without the eviction of the back.
LEMMA InsertKeepsInv ==
    ASSUME IInv, TypeOK', NEW k \in Key, NEW v \in Value, NEW ttl \in TTL,
           Insert(k, v, ttl), Use(k)
    PROVE  IInv'
<1> DEFINE D == DOMAIN cache
           pushed == PushedToFront(ll, k)
<1>1. D \subseteq Key /\ IsListOf(ll, D) /\ k \notin D
  BY DEF IInv, TypeOK, ListMatchesMap, Insert
<1>2. IsListOf(pushed, D \cup {k})
  BY <1>1, PushKeepsList
<1>3. Listed(pushed) = D \cup {k}
  BY <1>1, <1>2, ListedKeys
<1>4. /\ IsFiniteSet(D) /\ IsFiniteSet(D \cup {k})
      /\ Cardinality(D) \in Nat
      /\ Cardinality(D \cup {k}) = Cardinality(D) + 1
  BY <1>1, KeyAssumption, FS_Subset, FS_AddElement, FS_CardinalityType
<1>5. /\ UsesCounted'
      /\ \A i, j \in D \cup {k} : <<i, j>> \in pushed /\ i # j => lastUse'[j] < lastUse'[i]
  BY PushKeepsRecency DEF IInv
<1>6. DOMAIN Inserted(k, v, ttl) = D \cup {k}
  BY DEF Inserted
<1> DEFINE full == MaxEntries # 0 /\ Cardinality(Listed(pushed)) > MaxEntries
<1>7. CASE ~full
  <2>1. DOMAIN cache' = D \cup {k} /\ ll' = pushed
    BY <1>6, <1>7 DEF Insert
  <2>2. Capacity'
    BY <1>3, <1>4, <1>7, <2>1, MaxEntriesAssumption DEF Capacity
  <2>3. ListMatchesMap'
    BY <1>2, <2>1 DEF ListMatchesMap
  <2>4. RecencyOrder'
    BY <1>5, <2>1 DEF RecencyOrder
  <2> QED
    BY <1>5, <2>2, <2>3, <2>4 DEF IInv
<1>8. CASE full
  <2>1. PICK back \in Key : /\ IsBack(pushed, back)
                            /\ ll' = Unlinked(pushed, {back})
                            /\ DOMAIN cache' = (D \cup {k}) \ {back}
    BY <1>8 DEF Insert
  <2>2. back \in D \cup {k}
    BY <1>3, <2>1 DEF IsBack
  <2>3. ListMatchesMap'
    BY <1>2, <2>1, UnlinkKeepsList DEF ListMatchesMap
  <2>4. Cardinality(DOMAIN cache') = Cardinality(D \cup {k}) - 1
    BY <1>4, <2>1, <2>2, FS_RemoveElement, SMTT(30)
  <2>5. Capacity'
    BY <1>4, <2>4, MaxEntriesAssumption DEF IInv, Capacity
  <2>6. \A i, j : <<i, j>> \in ll' => <<i, j>> \in pushed
    BY <2>1 DEF Unlinked
  <2>7. RecencyOrder'
    BY <1>5, <2>1, <2>6 DEF RecencyOrder
  <2> QED
    BY <1>5, <2>3, <2>5, <2>7 DEF IInv
<1> QED
  BY <1>7, <1>8

\* The invariant: map and list agree, the list is in order of use, and no call,
\* expiry or purge lets the map outgrow MaxEntries.
THEOREM Invariant == Spec => []IInv
<1>1. Init => IInv
  <2> SUFFICES ASSUME Init PROVE IInv
    OBVIOUS
  <2>1. DOMAIN cache = {} /\ ll = {}
    BY DEF Init
  <2>2. TypeOK
    BY BoundsAssumption DEF Init, TypeOK, Reply
  <2>3. ListMatchesMap /\ RecencyOrder
    BY <2>1 DEF ListMatchesMap, IsListOf, RecencyOrder
  <2>4. Capacity
    BY <2>1, FS_EmptySet, MaxEntriesAssumption DEF Capacity
  <2>5. UsesCounted
    BY DEF Init, UsesCounted
  <2> QED
    BY <2>2, <2>3, <2>4, <2>5 DEF IInv
<1>2. IInv /\ TypeOK' /\ [Next]_vars => IInv'
  <2> SUFFICES ASSUME IInv, TypeOK', [Next]_vars PROVE IInv'
    OBVIOUS
  <2>1. ASSUME NEW k \in Key, NEW v \in Value, NEW ttl \in TTL, Add(k, v, ttl)
        PROVE  IInv'
    <3>1. CASE Overwrite(k, v, ttl)
      <4>1. DOMAIN cache' = DOMAIN cache
        BY <3>1 DEF Overwrite
      <4> QED
        BY <2>1, <3>1, <4>1, TouchKeepsInv DEF Add, Overwrite
    <3>2. CASE Insert(k, v, ttl)
      BY <2>1, <3>2, InsertKeepsInv DEF Add
    <3> QED
      BY <2>1, <3>1, <3>2 DEF Add
  <2>2. ASSUME NEW k \in Key, GetHit(k)
        PROVE  IInv'
    BY <2>2, TouchKeepsInv DEF GetHit
  <2>3. ASSUME \/ \E k \in Key : GetMiss(k)
               \/ Tick
               \/ UNCHANGED vars
        PROVE  IInv'
    <3>1. UNCHANGED <<cache, ll, uses, lastUse>>
      BY <2>3 DEF GetMiss, Tick, vars
    <3> QED
      BY <3>1 DEF IInv, ListMatchesMap, Capacity, RecencyOrder, UsesCounted
  <2>4. ASSUME NEW p \in Pattern, Remove(p)
        PROVE  IInv'
    BY <2>4, DropKeepsInv DEF Remove
  <2>5. ASSUME Clear
        PROVE  IInv'
    <3>1. \A p \in ll : p[1] \in DOMAIN cache
      BY DEF IInv, ListMatchesMap, IsListOf
    <3>2. Unlinked(ll, DOMAIN cache) = {}
      BY <3>1 DEF Unlinked
    <3> QED
      BY <2>5, <3>2, DropKeepsInv DEF Clear
  <2>6. ASSUME Purge
        PROVE  IInv'
    BY <2>6, DropKeepsInv DEF Purge
  <2> QED
    BY <2>1, <2>2, <2>3, <2>4, <2>5, <2>6 DEF Next, Get
<1> QED
  BY <1>1, <1>2, TypeCorrect, PTL DEF Spec

\* cache.go:11-12: the number of entries never exceeds a MaxEntries that is not zero.
THEOREM CapacityHolds == Spec => []Capacity
<1>1. IInv => Capacity
  BY DEF IInv
<1> QED
  BY <1>1, Invariant, PTL

\* The map and the list of cache.go never disagree.
THEOREM MapAndListAgree == Spec => []ListMatchesMap
<1>1. IInv => ListMatchesMap
  BY DEF IInv
<1> QED
  BY <1>1, Invariant, PTL

\* Only the least recently used entry is ever evicted, across every Get, Add,
\* Remove, purge and expiry that came before.
THEOREM EvictionFollowsRecency == Spec => EvictsLeastRecent
<1> DEFINE A == uses' > uses =>
                   \A k \in DOMAIN cache \ DOMAIN cache', j \in DOMAIN cache' :
                       lastUse'[k] < lastUse'[j]
<1>1. IInv /\ [Next]_vars => A
  <2> SUFFICES ASSUME IInv, [Next]_vars, uses' > uses,
                      NEW gone \in DOMAIN cache \ DOMAIN cache', NEW j \in DOMAIN cache'
               PROVE  lastUse'[gone] < lastUse'[j]
    OBVIOUS
  <2>1. uses' # uses
    BY BoundsAssumption DEF IInv, TypeOK
  <2>2. PICK k \in Key, v \in Value, ttl \in TTL : Insert(k, v, ttl) /\ Use(k)
    BY <2>1 DEF Next, Get, Add, Overwrite, GetHit, GetMiss, Remove, Clear, Purge, Tick, vars
  <2> DEFINE pushed == PushedToFront(ll, k)
  <2>3. DOMAIN Inserted(k, v, ttl) = DOMAIN cache \cup {k}
    BY DEF Inserted
  <2>4. PICK back \in Key : /\ IsBack(pushed, back)
                            /\ DOMAIN cache' = (DOMAIN cache \cup {k}) \ {back}
    BY <2>2, <2>3 DEF Insert
  <2>5. gone = back
    BY <2>4
  <2>6. Listed(pushed) = DOMAIN cache \cup {k}
    <3>1. DOMAIN cache \subseteq Key /\ IsListOf(ll, DOMAIN cache)
      BY DEF IInv, TypeOK, ListMatchesMap
    <3>2. IsListOf(pushed, DOMAIN cache \cup {k})
      BY <3>1, PushKeepsList
    <3> QED
      BY <3>1, <3>2, ListedKeys
  <2>7. <<j, back>> \in pushed /\ j # back
    BY <2>4, <2>6 DEF IsBack
  <2> QED
    BY <2>2, <2>4, <2>5, <2>7, PushKeepsRecency DEF IInv
<1> QED
  BY <1>1, Invariant, PTL DEF Spec, EvictsLeastRecent

-----------------------------------------------------------------------------
(* The cache implements its contract *)

LEMMA StoredKeys == DOMAIN Stored = DOMAIN cache /\ (DOMAIN Stored)' = DOMAIN cache'
BY DEF Stored

\* An entry that a step leaves alone is the same stored value to the caller.
LEMMA StoredSame ==
    ASSUME NEW k, k \in DOMAIN cache, k \in DOMAIN cache', cache'[k] = cache[k]
    PROVE  Stored'[k] = Stored[k]
BY DEF Stored

\* Dead means expired.
LEMMA DeadIsExpired ==
    ASSUME TypeOK, NEW k \in DOMAIN cache
    PROVE  Contract!Dead(k) <=> Expired(k)
<1>1. /\ cache[k].ttl \in Int /\ cache[k].born \in Nat /\ now \in Nat
  <2>1. cache[k] \in Entry /\ now \in 0 .. MaxTime
    BY DEF TypeOK
  <2>2. cache[k].ttl \in TTL /\ cache[k].born \in 0 .. MaxTime
    BY <2>1 DEF Entry
  <2>3. cache[k].ttl \in Int
    BY <2>2, TTLAssumption
  <2>4. cache[k].born \in Nat /\ now \in Nat
    BY <2>1, <2>2, BoundsAssumption
  <2> QED
    BY <2>3, <2>4
<1>2. Stored[k].until = IF cache[k].ttl > 0 THEN cache[k].born + cache[k].ttl ELSE -1
  BY DEF Stored
<1> QED
  BY <1>1, <1>2 DEF Contract!Dead, Contract!Forever, Expired

\* What an insertion evicts is never the key it inserts.
LEMMA BackIsNotFront ==
    ASSUME IInv, NEW k \in Key, k \notin DOMAIN cache, NEW back \in Key,
           IsBack(PushedToFront(ll, k), back),
           MaxEntries # 0, Cardinality(Listed(PushedToFront(ll, k))) > MaxEntries
    PROVE  back # k
<1>1. DOMAIN cache \subseteq Key /\ IsListOf(ll, DOMAIN cache)
  BY DEF IInv, TypeOK, ListMatchesMap
<1>2. Listed(PushedToFront(ll, k)) = DOMAIN cache \cup {k}
  <2>1. IsListOf(PushedToFront(ll, k), DOMAIN cache \cup {k})
    BY <1>1, PushKeepsList
  <2> QED
    BY <1>1, <2>1, ListedKeys
<1>3. DOMAIN cache # {}
  <2>1. Cardinality({k}) = 1
    BY FS_Singleton
  <2>2. {} \cup {k} = {k}
    OBVIOUS
  <2> QED
    BY <1>2, <2>1, <2>2, MaxEntriesAssumption
<1>4. PICK j \in DOMAIN cache : TRUE
  BY <1>3
<1>5. <<j, back>> \in PushedToFront(ll, k)
  BY <1>2, <1>4 DEF IsBack
<1> QED
  BY <1>4, <1>5 DEF PushedToFront

\* An Add stores the value for its lifetime and may only forget other entries.
LEMMA AddIsPut ==
    ASSUME IInv, NEW k \in Key, NEW v \in Value, NEW ttl \in TTL, Add(k, v, ttl)
    PROVE  Contract!Put(k, v, ttl)
<1> DEFINE put == [j \in DOMAIN Stored \cup {k} |->
                      IF j = k THEN [value |-> v, until |-> Contract!Until(ttl)]
                               ELSE Stored[j]]
<1>1. /\ k \in DOMAIN cache'
      /\ DOMAIN cache' \subseteq DOMAIN cache \cup {k}
      /\ cache'[k] = NewEntry(v, ttl)
      /\ \A j \in DOMAIN cache' : j # k => cache'[j] = cache[j]
  <2>1. CASE Overwrite(k, v, ttl)
    BY <2>1 DEF Overwrite
  <2>2. CASE Insert(k, v, ttl)
    BY <2>2, BackIsNotFront DEF Insert, Inserted
  <2> QED
    BY <2>1, <2>2 DEF Add
<1>2. Stored'[k] = [value |-> v, until |-> Contract!Until(ttl)]
  BY <1>1 DEF Stored, NewEntry, Contract!Until, Contract!Forever
<1>3. \A j \in DOMAIN cache' : Stored'[j] = put[j]
  BY <1>1, <1>2, StoredKeys, StoredSame
<1>4. Contract!ShrunkTo(Stored', put, {k})
  BY <1>1, <1>3, StoredKeys DEF Contract!ShrunkTo
<1> QED
  BY <1>4 DEF Contract!Put, Add, Returns

\* A Get answers as the contract's Lookup.
LEMMA GetIsLookup ==
    ASSUME TypeOK, NEW k \in Key, Get(k)
    PROVE  Contract!Lookup(k)
<1>1. k \in DOMAIN cache => /\ Contract!Dead(k) <=> Expired(k)
                            /\ Stored[k].value = cache[k].value
  BY DeadIsExpired DEF Stored
<1>2. UNCHANGED <<now, Stored>>
  BY DEF Get, GetHit, GetMiss, Stored
<1> QED
  BY <1>1, <1>2, StoredKeys DEF Get, GetHit, GetMiss, Returns, Contract!Lookup

\* Dropping the keys T shrinks the store to any set of keys that T spares.
LEMMA DropShrinks ==
    ASSUME NEW T, NEW keep, keep \subseteq DOMAIN cache \ T, cache' = Without(T)
    PROVE  Contract!ShrunkTo(Stored', Stored, keep)
<1>1. DOMAIN cache' = DOMAIN cache \ T /\ \A j \in DOMAIN cache' : cache'[j] = cache[j]
  BY DEF Without
<1>2. \A j \in DOMAIN cache' : Stored'[j] = Stored[j]
  BY <1>1, StoredSame
<1> QED
  BY <1>1, <1>2, StoredKeys DEF Contract!ShrunkTo

\* Every behaviour of cache.go, with its list, capacity and purge, is one of the
\* store its callers reckon with: an answer is what was stored last, unexpired and
\* not removed since, or nothing.
THEOREM CacheImplementsContract == Spec => ImplementsContract
<1>1. Init => Contract!Init
  BY DEF Init, Contract!Init, Stored
<1>2. IInv /\ [Next]_vars => [Contract!Next]_(Contract!vars)
  <2> SUFFICES ASSUME IInv, [Next]_vars PROVE Contract!Next \/ UNCHANGED Contract!vars
    OBVIOUS
  <2>0. TypeOK
    BY DEF IInv
  <2>1. ASSUME NEW k \in Key, NEW v \in Value, NEW ttl \in TTL, Add(k, v, ttl)
        PROVE  Contract!Next
    BY <2>1, AddIsPut DEF Contract!Next
  <2>2. ASSUME NEW k \in Key, Get(k)
        PROVE  Contract!Next
    BY <2>0, <2>2, GetIsLookup DEF Contract!Next
  <2>3. ASSUME NEW p \in Pattern, Remove(p)
        PROVE  Contract!Next
    <3>1. Contract!Target(p) = Removed(p)
      BY StoredKeys DEF Contract!Target, Removed
    <3>2. DOMAIN cache' = DOMAIN cache \ Removed(p)
      BY <2>3 DEF Remove, Without
    <3>3. Contract!ShrunkTo(Stored', Stored, DOMAIN Stored \ Contract!Target(p))
      BY <2>3, <3>1, StoredKeys, DropShrinks DEF Remove
    <3>4. Contract!Invalidate(p)
      BY <2>3, <3>1, <3>2, <3>3, StoredKeys DEF Remove, Returns, Contract!Invalidate
    <3> QED
      BY <3>4 DEF Contract!Next
  <2>4. ASSUME Clear
        PROVE  Contract!Next
    <3>1. Contract!Wipe
      BY <2>4, StoredKeys DEF Clear, Without, Returns, Contract!Wipe
    <3> QED
      BY <3>1 DEF Contract!Next
  <2>5. ASSUME Purge
        PROVE  Contract!Next
    <3> DEFINE dead == {k \in DOMAIN cache : Expired(k)}
    <3>1. cache' = Without(dead) /\ UNCHANGED <<now, reply>>
      BY <2>5 DEF Purge
    <3>2. {k \in DOMAIN Stored : ~Contract!Dead(k)} \subseteq DOMAIN cache \ dead
      BY <2>0, StoredKeys, DeadIsExpired
    <3>3. Contract!Forget
      BY <3>1, <3>2, DropShrinks DEF Contract!Forget
    <3> QED
      BY <3>3 DEF Contract!Next
  <2>6. ASSUME Tick
        PROVE  Contract!Next
    <3>1. Contract!Advance
      BY <2>6 DEF Tick, Stored, Contract!Advance
    <3> QED
      BY <3>1 DEF Contract!Next
  <2>7. ASSUME UNCHANGED vars
        PROVE  UNCHANGED Contract!vars
    BY <2>7 DEF vars, Stored, Contract!vars
  <2> QED
    BY <2>1, <2>2, <2>3, <2>4, <2>5, <2>6, <2>7 DEF Next
<1> QED
  BY <1>1, <1>2, Invariant, PTL DEF Spec, ImplementsContract, Contract!Spec
=============================================================================
