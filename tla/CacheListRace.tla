--------------------------- MODULE CacheListRace ----------------------------
(***************************************************************************)
(* auth/cache.go: Get reorders the list while it holds the read lock only, *)
(* so Gets overlap.  The list is container/list of the Go releases of the  *)
(* time (before 1.12), where MoveToFront unlinks an element and links it   *)
(* at the front and counts the length down and up again; its statements    *)
(* are the steps here, and the two counts are a read and a write each.     *)
(* Add, Remove and the purge hold the write lock: they are single steps    *)
(* and wait until no Get is under way.                                     *)
(* A nil pointer ends the handler; the deferred unlock still runs.         *)
(***************************************************************************)
EXTENDS Integers, FiniteSets

CONSTANTS Getter, Key,
          Root, Nil,    \* the sentinel element of the list, and the nil pointer
          MaxEntries    \* a natural number, 0 for no limit

VARIABLES cache,      \* the keys in the map; the element of a key is called like it
          next, prev, \* the pointers of the elements and of the sentinel
          linked,     \* the elements whose list pointer is set
          len,        \* the length the list believes it has
          pc, elem,   \* the statement each Get is at, and its element
          tmp         \* the pointer or count it has read

vars == <<cache, next, prev, linked, len, pc, elem, tmp>>

list == <<next, prev, linked, len>>

Element == Key \cup {Root}

-----------------------------------------------------------------------------
(* Get *)

Goto(g, step) == pc' = [pc EXCEPT ![g] = step]

Begin(g, k) ==
    /\ pc[g] = "idle"
    /\ k \in cache
    /\ Goto(g, "check")
    /\ elem' = [elem EXCEPT ![g] = k]
    /\ UNCHANGED <<cache, list, tmp>>

\* if e.list != l || l.root.next == e { return }
Check(g) ==
    /\ pc[g] = "check"
    /\ IF elem[g] \notin linked \/ next[Root] = elem[g]
       THEN Goto(g, "idle")
       ELSE Goto(g, "unlink next")
    /\ UNCHANGED <<cache, list, elem, tmp>>

\* p.next = v, which panics when p is nil.
SetNext(g, p, v, step) ==
    IF p = Nil THEN Goto(g, "idle") /\ UNCHANGED next
               ELSE Goto(g, step) /\ next' = [next EXCEPT ![p] = v]

SetPrev(g, p, v, step) ==
    IF p = Nil THEN Goto(g, "idle") /\ UNCHANGED prev
               ELSE Goto(g, step) /\ prev' = [prev EXCEPT ![p] = v]

\* e.prev.next = e.next
UnlinkNext(g) ==
    /\ pc[g] = "unlink next"
    /\ SetNext(g, prev[elem[g]], next[elem[g]], "unlink prev")
    /\ UNCHANGED <<cache, prev, linked, len, elem, tmp>>

\* e.next.prev = e.prev
UnlinkPrev(g) ==
    /\ pc[g] = "unlink prev"
    /\ SetPrev(g, next[elem[g]], prev[elem[g]], "clear")
    /\ UNCHANGED <<cache, next, linked, len, elem, tmp>>

\* e.next = nil; e.prev = nil; e.list = nil
ClearPointers(g) ==
    /\ pc[g] = "clear"
    /\ Goto(g, "read len-")
    /\ next' = [next EXCEPT ![elem[g]] = Nil]
    /\ prev' = [prev EXCEPT ![elem[g]] = Nil]
    /\ linked' = linked \ {elem[g]}
    /\ UNCHANGED <<cache, len, elem, tmp>>

\* l.len--, and later l.len++
ReadLen(g, from, to) ==
    /\ pc[g] = from
    /\ Goto(g, to)
    /\ tmp' = [tmp EXCEPT ![g] = len]
    /\ UNCHANGED <<cache, list, elem>>

WriteLen(g, from, to, by) ==
    /\ pc[g] = from
    /\ Goto(g, to)
    /\ len' = tmp[g] + by
    /\ tmp' = [tmp EXCEPT ![g] = Nil]
    /\ UNCHANGED <<cache, next, prev, linked, elem>>

\* n := at.next, where at is the sentinel
ReadFront(g) ==
    /\ pc[g] = "read front"
    /\ Goto(g, "front")
    /\ tmp' = [tmp EXCEPT ![g] = next[Root]]
    /\ UNCHANGED <<cache, list, elem>>

\* at.next = e
LinkFront(g) ==
    /\ pc[g] = "front"
    /\ Goto(g, "own prev")
    /\ next' = [next EXCEPT ![Root] = elem[g]]
    /\ UNCHANGED <<cache, prev, linked, len, elem, tmp>>

\* e.prev = at
LinkOwnPrev(g) ==
    /\ pc[g] = "own prev"
    /\ Goto(g, "own next")
    /\ prev' = [prev EXCEPT ![elem[g]] = Root]
    /\ UNCHANGED <<cache, next, linked, len, elem, tmp>>

\* e.next = n
LinkOwnNext(g) ==
    /\ pc[g] = "own next"
    /\ Goto(g, "second")
    /\ next' = [next EXCEPT ![elem[g]] = tmp[g]]
    /\ UNCHANGED <<cache, prev, linked, len, elem, tmp>>

\* n.prev = e
LinkSecond(g) ==
    /\ pc[g] = "second"
    /\ SetPrev(g, tmp[g], elem[g], "own")
    /\ UNCHANGED <<cache, next, linked, len, elem, tmp>>

\* e.list = l
LinkOwn(g) ==
    /\ pc[g] = "own"
    /\ Goto(g, "read len+")
    /\ linked' = linked \cup {elem[g]}
    /\ UNCHANGED <<cache, next, prev, len, elem, tmp>>

Get(g) ==
    \/ \E k \in Key : Begin(g, k)
    \/ Check(g)
    \/ UnlinkNext(g) \/ UnlinkPrev(g) \/ ClearPointers(g)
    \/ ReadLen(g, "read len-", "write len-") \/ WriteLen(g, "write len-", "read front", -1)
    \/ ReadFront(g) \/ LinkFront(g) \/ LinkOwnPrev(g) \/ LinkOwnNext(g) \/ LinkSecond(g)
    \/ LinkOwn(g)
    \/ ReadLen(g, "read len+", "write len+") \/ WriteLen(g, "write len+", "idle", 1)

-----------------------------------------------------------------------------
(* Add and Remove, under the write lock *)

Quiet == \A g \in Getter : pc[g] = "idle"

\* list.Remove of e from the list l: nothing happens when e is not linked.
Taken(e, l) ==
    IF e \in l.linked
    THEN [next   |-> [[l.next EXCEPT ![l.prev[e]] = l.next[e]] EXCEPT ![e] = Nil],
          prev   |-> [[l.prev EXCEPT ![l.next[e]] = l.prev[e]] EXCEPT ![e] = Nil],
          linked |-> l.linked \ {e},
          len    |-> l.len - 1]
    ELSE l

\* list.PushFront.
Pushed(e) ==
    [next   |-> [next EXCEPT ![Root] = e, ![e] = next[Root]],
     prev   |-> [[prev EXCEPT ![next[Root]] = e] EXCEPT ![e] = Root],
     linked |-> linked \cup {e},
     len    |-> len + 1]

Becomes(l) == next' = l.next /\ prev' = l.prev /\ linked' = l.linked /\ len' = l.len

\* PushFront, the map store, and removeOldest when the length says so.  A step that
\* would follow a nil pointer or take the sentinel for an entry is left out.
Add(k) ==
    /\ Quiet
    /\ k \notin cache /\ next[Root] # Nil
    /\ LET pushed == Pushed(k)
           full   == MaxEntries # 0 /\ pushed.len > MaxEntries
           back   == pushed.prev[Root]
       IN  \/ /\ ~full
              /\ Becomes(pushed)
              /\ cache' = cache \cup {k}
           \/ /\ full
              /\ back \in Key /\ pushed.next[back] # Nil /\ pushed.prev[back] # Nil
              /\ Becomes(Taken(back, pushed))
              /\ cache' = (cache \cup {k}) \ {back}
    /\ UNCHANGED <<pc, elem, tmp>>

Remove(k) ==
    /\ Quiet
    /\ k \in cache
    /\ k \in linked => next[k] # Nil /\ prev[k] # Nil
    /\ Becomes(Taken(k, [next |-> next, prev |-> prev, linked |-> linked, len |-> len]))
    /\ cache' = cache \ {k}
    /\ UNCHANGED <<pc, elem, tmp>>

Init ==
    /\ cache = {} /\ linked = {} /\ len = 0
    /\ next = [e \in Element |-> IF e = Root THEN Root ELSE Nil]
    /\ prev = [e \in Element |-> IF e = Root THEN Root ELSE Nil]
    /\ pc = [g \in Getter |-> "idle"]
    /\ elem = [g \in Getter |-> Nil]
    /\ tmp = [g \in Getter |-> Nil]

Next ==
    \/ \E g \in Getter : Get(g)
    \/ \E k \in Key : Add(k) \/ Remove(k)

Spec == Init /\ [][Next]_vars

-----------------------------------------------------------------------------
(* Properties *)

\* cache.go:11-12: MaxEntries is the maximum number of cache entries.
Capacity == MaxEntries # 0 => Cardinality(cache) <= MaxEntries
=============================================================================
