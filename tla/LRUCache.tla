------------------------------ MODULE LRUCache ------------------------------
(***************************************************************************)
(* auth/cache.go: the process-wide cache Gcache, one call at a time.       *)
(* A map from keys to entries and a list of the same keys in order of use; *)
(* Add evicts the back of the list beyond MaxEntries; an entry with a      *)
(* positive ttl is dead ttl seconds after it was stored, and a goroutine   *)
(* purges dead entries every PurgeInterval seconds.                        *)
(*                                                                         *)
(* Calls are atomic here: Add, Remove, Clear and the purge hold the write  *)
(* lock.  Get holds only the read lock although it reorders the list; what *)
(* two overlapping Gets do is the subject of CacheListRace.                *)
(* Left out: the hit counter of an entry, OnEvicted (never set).           *)
(***************************************************************************)
EXTENDS Integers, FiniteSets

CONSTANTS Key, Value, Pattern, MatchedBy, NoValue,
          TTL,         \* the lifetimes given to Add, in seconds; <= 0 means for ever
          MaxEntries,  \* 0 means no limit
          MaxTime,     \* bound on the clock
          MaxUse       \* bound on the number of uses counted

ASSUME KeyAssumption      == IsFiniteSet(Key)
ASSUME PatternAssumption  == MatchedBy \in [Pattern -> SUBSET Key]
ASSUME TTLAssumption      == TTL \subseteq Int
ASSUME MaxEntriesAssumption == MaxEntries \in Nat
ASSUME BoundsAssumption   == MaxTime \in Nat /\ MaxUse \in Nat

VARIABLES now,      \* the clock, time.Now().Unix()
          cache,    \* the map: key -> [value, born, ttl]
          ll,       \* the list: <<j, k>> when j is k or is nearer the front than k
          reply,    \* the call that returned last
          uses,     \* history: the number of hits and Adds so far
          lastUse   \* history: when each key was last hit or added, counted in uses

vars == <<now, cache, ll, reply, uses, lastUse>>

Entry == [value : Value, born : 0 .. MaxTime, ttl : TTL]
Reply == [op    : {"none", "add", "get", "remove", "clear"},
          arg   : Key \cup Pattern \cup {NoValue},
          value : Value \cup {NoValue}]

TypeOK ==
    /\ now \in 0 .. MaxTime
    /\ DOMAIN cache \subseteq Key
    /\ \A k \in DOMAIN cache : cache[k] \in Entry
    /\ ll \subseteq Key \X Key
    /\ reply \in Reply
    /\ uses \in 0 .. MaxUse
    /\ lastUse \in [Key -> 0 .. MaxUse]

-----------------------------------------------------------------------------
(* The list *)

Listed(l) == {k \in Key : <<k, k>> \in l}

PushedToFront(l, k) ==
    {p \in l : p[1] # k /\ p[2] # k} \cup {<<k, j>> : j \in Listed(l) \cup {k}}

Unlinked(l, S) == {p \in l : p[1] \notin S /\ p[2] \notin S}

\* l is a list of the keys S: of two keys exactly one is nearer the front.
IsListOf(l, S) ==
    /\ l \subseteq S \X S
    /\ \A k \in S : <<k, k>> \in l
    /\ \A j, k \in S : <<j, k>> \in l \/ <<k, j>> \in l
    /\ \A j, k \in S : <<j, k>> \in l /\ <<k, j>> \in l => j = k
    /\ \A i, j, k \in S : <<i, j>> \in l /\ <<j, k>> \in l => <<i, k>> \in l

IsBack(l, k) == k \in Listed(l) /\ \A j \in Listed(l) : <<j, k>> \in l

-----------------------------------------------------------------------------
(* The calls *)

Expired(k) == cache[k].ttl > 0 /\ now > cache[k].born + cache[k].ttl

Without(S) == [k \in DOMAIN cache \ S |-> cache[k]]

Returns(op, arg, value) == reply' = [op |-> op, arg |-> arg, value |-> value]

Use(k) ==
    /\ uses < MaxUse
    /\ uses' = uses + 1
    /\ lastUse' = [lastUse EXCEPT ![k] = uses + 1]

\* Mutant: the entry records when it dies where born is expected.
NewEntryStoringDeath(v, ttl) == [value |-> v, born |-> now + ttl, ttl |-> ttl]

NewEntry(v, ttl) == [value |-> v, born |-> now, ttl |-> ttl]

\* Mutant: an overwritten entry keeps its age.
OverwriteKeepingAge(k, v, ttl) ==
    /\ k \in DOMAIN cache
    /\ cache' = [cache EXCEPT ![k].value = v]
    /\ ll' = PushedToFront(ll, k)

\* Add of a key that is in the map: overwritten in place, to the front.
Overwrite(k, v, ttl) ==
    /\ k \in DOMAIN cache
    /\ cache' = [cache EXCEPT ![k] = NewEntry(v, ttl)]
    /\ ll' = PushedToFront(ll, k)

Inserted(k, v, ttl) ==
    [j \in DOMAIN cache \cup {k} |-> IF j = k THEN NewEntry(v, ttl) ELSE cache[j]]

\* Mutant: the list is measured before the push.
InsertMeasuredTooEarly(k, v, ttl) ==
    /\ k \notin DOMAIN cache
    /\ MaxEntries # 0 => Cardinality(Listed(ll)) <= MaxEntries
    /\ cache' = Inserted(k, v, ttl)
    /\ ll' = PushedToFront(ll, k)

\* Add of a new key, then removeOldest when the list has outgrown MaxEntries.
Insert(k, v, ttl) ==
    /\ k \notin DOMAIN cache
    /\ LET pushed == PushedToFront(ll, k)
           full   == MaxEntries # 0 /\ Cardinality(Listed(pushed)) > MaxEntries
       IN  \/ /\ ~full
              /\ cache' = Inserted(k, v, ttl)
              /\ ll' = pushed
           \/ /\ full
              /\ \E back \in Key :
                    /\ IsBack(pushed, back)
                    /\ ll' = Unlinked(pushed, {back})
                    /\ cache' = [j \in (DOMAIN cache \cup {k}) \ {back} |->
                                    Inserted(k, v, ttl)[j]]

Add(k, v, ttl) ==
    /\ Overwrite(k, v, ttl) \/ Insert(k, v, ttl)
    /\ Use(k)
    /\ Returns("add", k, v)
    /\ UNCHANGED now

\* Mutant: a hit does not move the entry to the front.
GetHitInPlace(k) ==
    /\ k \in DOMAIN cache
    /\ ~Expired(k)
    /\ Use(k)
    /\ Returns("get", k, cache[k].value)
    /\ UNCHANGED <<now, cache, ll>>

GetHit(k) ==
    /\ k \in DOMAIN cache
    /\ ~Expired(k)
    /\ ll' = PushedToFront(ll, k)
    /\ Use(k)
    /\ Returns("get", k, cache[k].value)
    /\ UNCHANGED <<now, cache>>

\* An expired entry stays where it is, for the purge or for the next Add.
GetMiss(k) ==
    /\ k \in DOMAIN cache => Expired(k)
    /\ Returns("get", k, NoValue)
    /\ UNCHANGED <<now, cache, ll, uses, lastUse>>

Get(k) == GetHit(k) \/ GetMiss(k)

\* The argument is looked up as a key first and only then compiled as an expression.
Removed(p) == IF p \in DOMAIN cache THEN {p} ELSE MatchedBy[p]

\* Mutant: the entries leave the map but stay in the list.
RemoveFromMapOnly(p) ==
    /\ cache' = Without(Removed(p))
    /\ Returns("remove", p, NoValue)
    /\ UNCHANGED <<now, ll, uses, lastUse>>

Remove(p) ==
    /\ cache' = Without(Removed(p))
    /\ ll' = Unlinked(ll, Removed(p))
    /\ Returns("remove", p, NoValue)
    /\ UNCHANGED <<now, uses, lastUse>>

Clear ==
    /\ cache' = Without(DOMAIN cache)
    /\ ll' = {}
    /\ Returns("clear", NoValue, NoValue)
    /\ UNCHANGED <<now, uses, lastUse>>

\* Mutant: the round starts at the back of the list and stops at a live entry.
PurgeFromTheBack ==
    \E k \in DOMAIN cache :
        /\ IsBack(ll, k) /\ Expired(k)
        /\ cache' = Without({k})
        /\ ll' = Unlinked(ll, {k})
        /\ UNCHANGED <<now, reply, uses, lastUse>>

\* One round of the goroutine started by Start.
Purge ==
    LET dead == {k \in DOMAIN cache : Expired(k)}
    IN  /\ dead # {}
        /\ cache' = Without(dead)
        /\ ll' = Unlinked(ll, dead)
        /\ UNCHANGED <<now, reply, uses, lastUse>>

Tick ==
    /\ now < MaxTime
    /\ now' = now + 1
    /\ UNCHANGED <<cache, ll, reply, uses, lastUse>>

Init ==
    /\ now = 0
    /\ cache = [k \in {} |-> NoValue]
    /\ ll = {}
    /\ reply = [op |-> "none", arg |-> NoValue, value |-> NoValue]
    /\ uses = 0
    /\ lastUse = [k \in Key |-> 0]

Next ==
    \/ \E k \in Key, v \in Value, ttl \in TTL : Add(k, v, ttl)
    \/ \E k \in Key : Get(k)
    \/ \E p \in Pattern : Remove(p)
    \/ Clear
    \/ Purge
    \/ Tick

Spec == Init /\ [][Next]_vars

\* The purge goroutine sleeps between rounds and never ends.
FairSpec == Spec /\ WF_vars(Purge)

-----------------------------------------------------------------------------
(* What the calls must keep true *)

\* The map and the list always hold the same keys.  Every call of cache.go updates
\* the two separately (removeElement, the push and the map store of Add).
ListMatchesMap == IsListOf(ll, DOMAIN cache)

\* cache.go:11-12: no more than MaxEntries entries are kept, whatever the
\* mixture of fresh keys, overwritten keys, expiry and removal.
Capacity == MaxEntries # 0 => Cardinality(DOMAIN cache) <= MaxEntries

\* An Add that has to evict takes the entry whose last hit or store is the
\* longest ago: the list order is the order of use across Get, Add, Remove,
\* purge and expiry.
EvictsLeastRecent ==
    [][uses' > uses =>
          \A k \in DOMAIN cache \ DOMAIN cache', j \in DOMAIN cache' :
              lastUse'[k] < lastUse'[j]]_vars

\* The order of the list is the order of use, so its back is the least recent entry.
RecencyOrder ==
    \A j, k \in DOMAIN cache : <<j, k>> \in ll /\ j # k => lastUse[k] < lastUse[j]

\* Seen through the calls' answers the cache is the store the handlers expect:
\* a Get answers with what was stored last, or with nothing once that is dead or
\* a Remove has covered the key, and only an Add may push a live entry out.
Stored == [k \in DOMAIN cache |->
              [value |-> cache[k].value,
               until |-> IF cache[k].ttl > 0 THEN cache[k].born + cache[k].ttl ELSE -1]]

Contract == INSTANCE CacheContract WITH clock <- now, store <- Stored

ImplementsContract == Contract!Spec

\* A dead entry does not stay for ever, even if nobody asks for its key again:
\* the goroutine of Start frees it (or an Add or Remove does before).
DeadEntriesGo ==
    \A k \in Key : (k \in DOMAIN cache /\ Expired(k)) ~> ~(k \in DOMAIN cache /\ Expired(k))
=============================================================================
