----------------------------- MODULE HitCounter -----------------------------
(***************************************************************************)
(* auth/articles.go: the readers of an article are counted in a map, and   *)
(* ArticleCounter adds the counts to the table every five minutes, in one  *)
(* statement it sends while it holds the lock the readers need.            *)
(***************************************************************************)
EXTENDS Integers

CONSTANTS Request, Article, Nothing,
          MaxHits   \* bound on the hits of an article

ASSUME NothingAssumption == Nothing \notin Article
ASSUME BoundAssumption   == MaxHits \in Nat

VARIABLES started,  \* ArticleCounter has made the map
          counts,   \* the map; 0 is an article that is not in it
          lock,     \* "free", "daemon" during the statement, or "lost"
          asking,   \* the article each request waits for the lock with, or Nothing
          query,    \* what the statement under way adds to each article
          hits,     \* the column hits of the table
          counted,  \* history: the readers of each article that were counted
          failed    \* history: a statement has failed

vars == <<started, counts, lock, asking, query, hits, counted, failed>>

None == [a \in Article |-> 0]

Plus(f, g) == [a \in Article |-> f[a] + g[a]]

TypeOK ==
    /\ started \in BOOLEAN /\ failed \in BOOLEAN
    /\ lock \in {"free", "daemon", "lost"}
    /\ asking \in [Request -> Article \cup {Nothing}]
    /\ \A f \in {counts, query, hits, counted} : f \in [Article -> Nat]
    /\ lock # "daemon" => query = None
    /\ ~started => counts = None

-----------------------------------------------------------------------------

Arrive(r, a) ==
    /\ asking[r] = Nothing
    /\ counted[a] < MaxHits
    /\ asking' = [asking EXCEPT ![r] = a]
    /\ UNCHANGED <<started, counts, lock, query, hits, counted, failed>>

HasLock(r) == asking[r] # Nothing /\ lock = "free"

\* incrCounter.
Count(r) ==
    /\ HasLock(r) /\ started
    /\ counts' = [counts EXCEPT ![asking[r]] = @ + 1]
    /\ counted' = [counted EXCEPT ![asking[r]] = @ + 1]
    /\ asking' = [asking EXCEPT ![r] = Nothing]
    /\ UNCHANGED <<started, lock, query, hits, failed>>

\* Before ArticleCounter has run the map is nil: the assignment panics, net/http ends
\* the request, and the unlock on the next line never runs.
NilMap(r) ==
    /\ HasLock(r) /\ ~started
    /\ lock' = "lost"
    /\ asking' = [asking EXCEPT ![r] = Nothing]
    /\ UNCHANGED <<started, counts, query, hits, counted, failed>>

Start ==
    /\ ~started
    /\ started' = TRUE
    /\ counts' = None
    /\ UNCHANGED <<lock, asking, query, hits, counted, failed>>

\* Mutant: the counts stay in the map.
CollectKeeping ==
    /\ started /\ lock = "free"
    /\ lock' = "daemon"
    /\ query' = counts
    /\ UNCHANGED <<started, counts, asking, hits, counted, failed>>

\* Mutant: with nothing to send the tick ends before the unlock.
CollectOrLeave ==
    /\ started /\ lock = "free"
    /\ lock' = IF counts = None THEN "left" ELSE "daemon"
    /\ query' = counts
    /\ counts' = None
    /\ UNCHANGED <<started, asking, hits, counted, failed>>

\* The statement is put together and the map emptied, under the lock.
Collect ==
    /\ started /\ lock = "free"
    /\ lock' = "daemon"
    /\ query' = counts
    /\ counts' = None
    /\ UNCHANGED <<started, asking, hits, counted, failed>>

\* Mutant: the column is set to the count.
AddedReplacing ==
    /\ lock = "daemon"
    /\ hits' = query
    /\ query' = None
    /\ lock' = "free"
    /\ UNCHANGED <<started, counts, asking, counted, failed>>

\* All UPDATEs of the statement are one transaction of the database.  The answer,
\* and with it an error after the commit, is only logged.
Added ==
    /\ lock = "daemon"
    /\ hits' = Plus(hits, query)
    /\ query' = None
    /\ lock' = "free"
    /\ UNCHANGED <<started, counts, asking, counted, failed>>

\* Mutant: the statement is put together in a variable that outlives the tick.
FailedKeepingQuery ==
    /\ lock = "daemon"
    /\ lock' = "free"
    /\ failed' = TRUE
    /\ UNCHANGED <<started, counts, asking, query, hits, counted>>

\* The statement fails: the counts are gone from the map already.
Failed ==
    /\ lock = "daemon"
    /\ query' = None
    /\ lock' = "free"
    /\ failed' = TRUE
    /\ UNCHANGED <<started, counts, asking, hits, counted>>

Init ==
    /\ started = FALSE /\ lock = "free" /\ failed = FALSE
    /\ asking = [r \in Request |-> Nothing]
    /\ counts = None /\ query = None /\ hits = None /\ counted = None

Next ==
    \/ \E r \in Request, a \in Article : Arrive(r, a)
    \/ \E r \in Request : Count(r) \/ NilMap(r)
    \/ Start \/ Collect \/ Added \/ Failed

Spec == Init /\ [][Next]_vars

\* The ticker ticks, the statement returns in the end, and the mutex is handed to
\* every waiter in turn.
Fairness ==
    /\ WF_vars(Start) /\ SF_vars(Collect) /\ WF_vars(Added \/ Failed)
    /\ \A r \in Request : SF_vars(Count(r) \/ NilMap(r))

FairSpec == Spec /\ Fairness

-----------------------------------------------------------------------------
(* Properties *)

\* A reader is never counted twice, wherever his hit is: in the map, in the statement
\* under way or in the table; and none is lost as long as no statement fails.
HitsAreConserved ==
    \A a \in Article : LET known == hits[a] + query[a] + counts[a]
                       IN  known <= counted[a] /\ (~failed => known = counted[a])

\* Every hit reaches the table, unless a statement fails.
HitsArrive ==
    \A a \in Article, n \in 1 .. MaxHits : counted[a] = n ~> hits[a] >= n \/ failed

\* Every reader gets the lock, unless one came before the map was there.
ReadersGoOn == \A r \in Request : asking[r] # Nothing ~> asking[r] = Nothing \/ lock = "lost"
=============================================================================
