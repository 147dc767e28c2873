---------------------------- MODULE CacheContract ----------------------------
(***************************************************************************)
(* What the handlers rely on when they call auth.Gcache, with no word      *)
(* about lists, recency, capacity or purging: a store that may forget any  *)
(* entry at any time, that serves exactly what was stored last, and only   *)
(* until it is stale or removed.  LRUCache implements this specification.  *)
(***************************************************************************)
EXTENDS Integers

CONSTANTS Key,        \* the strings the handlers build with Sprintf
          Value,      \* what they store: articles and article lists
          Pattern,    \* what is given to Remove: regular expressions
          MatchedBy,  \* MatchedBy[p]: the keys the expression p matches
          TTL,        \* the lifetimes in seconds given with a value; <= 0 means for ever
          NoValue     \* the nil a failed lookup returns

VARIABLES clock,   \* time in seconds
          store,   \* key -> the value stored last and the last second of its life
          reply    \* the call that returned last and its result

vars == <<clock, store, reply>>

Forever == -1

Dead(k) == store[k].until # Forever /\ clock > store[k].until

\* The keys a Remove(p) must make disappear: p itself when p is a stored key,
\* and otherwise everything the expression matches.
Target(p) == IF p \in DOMAIN store THEN {p} ELSE MatchedBy[p]

\* after is the same store with some entries, keep excepted, forgotten.
ShrunkTo(after, before, keep) ==
    /\ keep \subseteq DOMAIN after
    /\ DOMAIN after \subseteq DOMAIN before
    /\ \A k \in DOMAIN after : after[k] = before[k]

Init ==
    /\ clock = 0
    /\ store = [k \in {} |-> NoValue]
    /\ reply = [op |-> "none", arg |-> NoValue, value |-> NoValue]

Advance == clock' = clock + 1 /\ UNCHANGED <<store, reply>>

\* A lifetime is counted from the call that stores the value.
Until(ttl) == IF ttl > 0 THEN clock + ttl ELSE Forever

Put(k, v, ttl) ==
    /\ reply' = [op |-> "add", arg |-> k, value |-> v]
    /\ LET stored == [j \in DOMAIN store \cup {k} |->
                         IF j = k THEN [value |-> v, until |-> Until(ttl)] ELSE store[j]]
       IN  ShrunkTo(store', stored, {k})
    /\ UNCHANGED clock

Lookup(k) ==
    /\ reply' = [op    |-> "get",
                 arg   |-> k,
                 value |-> IF k \in DOMAIN store /\ ~Dead(k) THEN store[k].value ELSE NoValue]
    /\ UNCHANGED <<clock, store>>

Invalidate(p) ==
    /\ reply' = [op |-> "remove", arg |-> p, value |-> NoValue]
    /\ ShrunkTo(store', store, DOMAIN store \ Target(p))
    /\ DOMAIN store' \cap Target(p) = {}
    /\ UNCHANGED clock

Wipe ==
    /\ reply' = [op |-> "clear", arg |-> NoValue, value |-> NoValue]
    /\ DOMAIN store' = {}
    /\ UNCHANGED clock

\* Only an entry that is dead anyway is forgotten outside a call of Put.
Forget ==
    /\ ShrunkTo(store', store, {k \in DOMAIN store : ~Dead(k)})
    /\ UNCHANGED <<clock, reply>>

Next ==
    \/ Advance
    \/ \E k \in Key, v \in Value, ttl \in TTL : Put(k, v, ttl)
    \/ \E k \in Key : Lookup(k)
    \/ \E p \in Pattern : Invalidate(p)
    \/ Wipe
    \/ Forget

Spec == Init /\ [][Next]_vars
=============================================================================
