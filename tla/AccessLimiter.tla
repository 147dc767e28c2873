--------------------------- MODULE AccessLimiter ----------------------------
(***************************************************************************)
(* auth/auth.go: the brake on frequent access.  Handlers that log in, post *)
(* or delete, and GetArticle when it has to ask the database, ask LogIPnv  *)
(* for the address of the request; AccessDaemon sweeps old addresses every *)
(* five seconds and pings the database while it holds the same lock.       *)
(* Times are whole seconds; Window is four of them.                        *)
(***************************************************************************)
EXTENDS Integers

CONSTANTS Request, IP, Nobody,
          Window,
          MaxTime   \* bound on the clock

ASSUME WindowAssumption == Window \in Nat
ASSUME BoundAssumption  == MaxTime \in Nat
ASSUME NobodyAssumption == Nobody \notin IP

VARIABLES now,
          started,  \* AccessDaemon has made the map
          ips,      \* the map: address -> time
          lock,     \* "daemon" while AccessDaemon is inside Ping, else "free"
          asking,   \* the address each request waits for the lock with, or Nobody
          verdict,  \* the answer given last
          newer, older  \* history: when each address was let in last, and before that

vars == <<now, started, ips, lock, asking, verdict, newer, older>>

LongAgo == -1 - Window

Verdict == [ip : IP \cup {Nobody}, said : {"none", "accepted", "refused", "panic"}]

TypeOK ==
    /\ now \in 0 .. MaxTime
    /\ started \in BOOLEAN /\ lock \in {"free", "daemon"}
    /\ DOMAIN ips \subseteq IP
    /\ \A ip \in DOMAIN ips : ips[ip] \in 0 .. MaxTime
    /\ asking \in [Request -> IP \cup {Nobody}]
    /\ verdict \in Verdict
    /\ newer \in [IP -> LongAgo .. MaxTime]
    /\ older \in [IP -> LongAgo .. MaxTime]

-----------------------------------------------------------------------------

Old(ip) == now > ips[ip] + Window

Says(r, said) ==
    /\ verdict' = [ip |-> asking[r], said |-> said]
    /\ asking' = [asking EXCEPT ![r] = Nobody]

LetIn(r) ==
    /\ Says(r, "accepted")
    /\ newer' = [newer EXCEPT ![asking[r]] = now]
    /\ older' = [older EXCEPT ![asking[r]] = newer[asking[r]]]

Arrive(r, ip) ==
    /\ asking[r] = Nobody
    /\ asking' = [asking EXCEPT ![r] = ip]
    /\ UNCHANGED <<now, started, ips, lock, verdict, newer, older>>

HasLock(r) == asking[r] # Nobody /\ lock = "free"

\* Mutants: the visit is not noted, or the end of its window is.
FirstVisitNotNoted(r) ==
    /\ HasLock(r) /\ started
    /\ asking[r] \notin DOMAIN ips
    /\ UNCHANGED ips
    /\ LetIn(r)
    /\ UNCHANGED <<now, started, lock>>

FirstVisitNotingTheEnd(r) ==
    /\ HasLock(r) /\ started
    /\ asking[r] \notin DOMAIN ips
    /\ ips' = [ip \in DOMAIN ips \cup {asking[r]} |->
                  IF ip = asking[r] THEN now + Window ELSE ips[ip]]
    /\ LetIn(r)
    /\ UNCHANGED <<now, started, lock>>

\* The address is not in the map: note it and let it in.
FirstVisit(r) ==
    /\ HasLock(r) /\ started
    /\ asking[r] \notin DOMAIN ips
    /\ ips' = [ip \in DOMAIN ips \cup {asking[r]} |->
                  IF ip = asking[r] THEN now ELSE ips[ip]]
    /\ LetIn(r)
    /\ UNCHANGED <<now, started, lock>>

\* Mutant: the unlock is not deferred, so the panic skips it.
NilMapKeepingLock(r) ==
    /\ HasLock(r) /\ ~started
    /\ Says(r, "panic")
    /\ lock' = "lost"
    /\ UNCHANGED <<now, started, ips, newer, older>>

\* Before AccessDaemon has run the map is nil: the assignment panics, the deferred
\* unlock runs, and net/http ends the request.
NilMap(r) ==
    /\ HasLock(r) /\ ~started
    /\ Says(r, "panic")
    /\ UNCHANGED <<now, started, ips, lock, newer, older>>

\* The address is in the map and old: forget it and let it in.
LaterVisit(r) ==
    /\ HasLock(r) /\ started
    /\ asking[r] \in DOMAIN ips /\ Old(asking[r])
    /\ ips' = [ip \in DOMAIN ips \ {asking[r]} |-> ips[ip]]
    /\ LetIn(r)
    /\ UNCHANGED <<now, started, lock>>

\* Mutant: a refused visit is noted too.
TooSoonNoted(r) ==
    /\ HasLock(r) /\ started
    /\ asking[r] \in DOMAIN ips /\ ~Old(asking[r])
    /\ ips' = [ips EXCEPT ![asking[r]] = now]
    /\ Says(r, "refused")
    /\ UNCHANGED <<now, started, lock, newer, older>>

TooSoon(r) ==
    /\ HasLock(r) /\ started
    /\ asking[r] \in DOMAIN ips /\ ~Old(asking[r])
    /\ Says(r, "refused")
    /\ UNCHANGED <<now, started, ips, lock, newer, older>>

LogIPnv(r) == FirstVisit(r) \/ NilMap(r) \/ LaterVisit(r) \/ TooSoon(r)

Start ==
    /\ ~started
    /\ started' = TRUE
    /\ ips' = [ip \in {} |-> 0]
    /\ UNCHANGED <<now, lock, asking, verdict, newer, older>>

\* Mutant: the sweep forgets the recent addresses and keeps the old ones.
SweepReversed ==
    /\ started /\ lock = "free"
    /\ ips' = [ip \in {i \in DOMAIN ips : Old(i)} |-> ips[ip]]
    /\ lock' = "daemon"
    /\ UNCHANGED <<now, started, asking, verdict, newer, older>>

\* A tick of the daemon: the lock is taken, the old addresses go, Ping is called.
Sweep ==
    /\ started /\ lock = "free"
    /\ ips' = [ip \in {i \in DOMAIN ips : ~Old(i)} |-> ips[ip]]
    /\ lock' = "daemon"
    /\ UNCHANGED <<now, started, asking, verdict, newer, older>>

\* Ping returns, with or without an error, and the lock is released.
PingReturns ==
    /\ lock = "daemon"
    /\ lock' = "free"
    /\ UNCHANGED <<now, started, ips, asking, verdict, newer, older>>

Tick ==
    /\ now < MaxTime
    /\ now' = now + 1
    /\ UNCHANGED <<started, ips, lock, asking, verdict, newer, older>>

Init ==
    /\ now = 0
    /\ started = FALSE /\ lock = "free"
    /\ ips = [ip \in {} |-> 0]
    /\ asking = [r \in Request |-> Nobody]
    /\ verdict = [ip |-> Nobody, said |-> "none"]
    /\ newer = [ip \in IP |-> LongAgo]
    /\ older = [ip \in IP |-> LongAgo]

Next ==
    \/ \E r \in Request, ip \in IP : Arrive(r, ip)
    \/ \E r \in Request : LogIPnv(r)
    \/ Start \/ Sweep \/ PingReturns
    \/ Tick

Spec == Init /\ [][Next]_vars

\* The goroutine runs, a ping answers or fails in the end, and the mutex is handed
\* to every waiter in turn.
Fairness ==
    /\ WF_vars(Start) /\ WF_vars(Sweep) /\ WF_vars(PingReturns)
    /\ \A r \in Request : SF_vars(LogIPnv(r))

FairSpec == Spec /\ Fairness

-----------------------------------------------------------------------------
(* Properties *)

LetsIn(ip) == newer'[ip] # newer[ip] \/ older'[ip] # older[ip]

\* Of three requests of one address that are let in, the last comes more than
\* Window after the first, whatever sweeps and refusals happen between them.
ThreeSpanTheWindow == [][\A ip \in IP : LetsIn(ip) => now > older[ip] + Window]_vars

\* A request is refused only within Window of one that was let in: refusals do not
\* prolong each other.
RefusalsAreFresh ==
    [][\A ip \in IP : (\E r \in Request : asking[r] = ip /\ asking'[r] = Nobody
                                          /\ verdict' = [ip |-> ip, said |-> "refused"])
           => now <= newer[ip] + Window]_vars

\* Every request gets an answer, although the daemon keeps the lock during a ping.
EveryRequestIsAnswered == \A r \in Request : asking[r] # Nobody ~> asking[r] = Nobody

\* An address does not stay in the map for ever when it never comes back.
OldAddressesGo ==
    \A ip \in IP : (ip \in DOMAIN ips /\ Old(ip)) ~> ~(ip \in DOMAIN ips /\ Old(ip))
=============================================================================
