------------------------ MODULE AccessLimiterProofs -------------------------
(***************************************************************************)
(* For every window, every set of addresses and any number of requests at  *)
(* once: what the brake of auth/auth.go does bound.                        *)
(***************************************************************************)
EXTENDS AccessLimiter, TLAPS

\* The initial state has its types.
LEMMA InitTyped == Init => TypeOK
<1> SUFFICES ASSUME Init PROVE TypeOK
  OBVIOUS
<1>1. LongAgo \in LongAgo .. MaxTime
  BY WindowAssumption, BoundAssumption DEF LongAgo
<1>2. newer \in [IP -> LongAgo .. MaxTime] /\ older \in [IP -> LongAgo .. MaxTime]
  BY <1>1 DEF Init
<1>3. verdict \in Verdict /\ asking \in [Request -> IP \cup {Nobody}]
  BY DEF Init, Verdict
<1>4. now \in 0 .. MaxTime
  BY BoundAssumption DEF Init
<1>5. DOMAIN ips = {} /\ started \in BOOLEAN /\ lock \in {"free", "daemon"}
  BY DEF Init
<1> QED
  BY <1>2, <1>3, <1>4, <1>5 DEF TypeOK

\* The map, the history of visits and the lock keep their types.
THEOREM TypeCorrect == Spec => []TypeOK
<1> USE WindowAssumption, BoundAssumption, NobodyAssumption DEF LongAgo
<1>1. Init => TypeOK
  BY InitTyped
<1>2. TypeOK /\ [Next]_vars => TypeOK'
  <2> SUFFICES ASSUME TypeOK, [Next]_vars PROVE TypeOK'
    OBVIOUS
  <2> USE DEF TypeOK
  <2>1. ASSUME NEW r \in Request, NEW ip \in IP, Arrive(r, ip)
        PROVE  TypeOK'
    BY <2>1 DEF Arrive
  <2>2. ASSUME NEW r \in Request, HasLock(r), Says(r, "accepted") \/ Says(r, "refused")
                                              \/ Says(r, "panic")
        PROVE  verdict' \in Verdict /\ asking' \in [Request -> IP \cup {Nobody}]
    BY <2>2 DEF HasLock, Says, Verdict
  <2>3. ASSUME NEW r \in Request, HasLock(r), LetIn(r)
        PROVE  newer' \in [IP -> LongAgo .. MaxTime] /\ older' \in [IP -> LongAgo .. MaxTime]
    <3>1. asking[r] \in IP /\ now \in LongAgo .. MaxTime
      BY <2>3 DEF HasLock
    <3> QED
      BY <2>3, <3>1 DEF LetIn
  <2>4. ASSUME NEW r \in Request, FirstVisit(r)
        PROVE  TypeOK'
    <3>1. HasLock(r) /\ LetIn(r)
      BY <2>4 DEF FirstVisit
    <3>2. DOMAIN ips' \subseteq IP /\ \A ip \in DOMAIN ips' : ips'[ip] \in 0 .. MaxTime
      BY <2>4, <3>1 DEF FirstVisit, HasLock
    <3> QED
      BY <2>2, <2>3, <2>4, <3>1, <3>2 DEF FirstVisit, LetIn
  <2>5. ASSUME NEW r \in Request, LaterVisit(r)
        PROVE  TypeOK'
    BY <2>2, <2>3, <2>5 DEF LaterVisit, LetIn
  <2>6. ASSUME NEW r \in Request, NilMap(r) \/ TooSoon(r)
        PROVE  TypeOK'
    BY <2>2, <2>6 DEF NilMap, TooSoon
  <2>7. ASSUME Start \/ Sweep \/ PingReturns \/ Tick
        PROVE  TypeOK'
    <3>1. CASE Start
      BY <3>1 DEF Start
    <3>2. CASE Sweep
      <4>1. DOMAIN ips' \subseteq IP /\ \A ip \in DOMAIN ips' : ips'[ip] \in 0 .. MaxTime
        BY <3>2 DEF Sweep
      <4> QED
        BY <3>2, <4>1 DEF Sweep
    <3>3. CASE PingReturns
      BY <3>3 DEF PingReturns
    <3>4. CASE Tick
      BY <3>4 DEF Tick
    <3> QED
      BY <2>7, <3>1, <3>2, <3>3, <3>4
  <2>8. ASSUME UNCHANGED vars
        PROVE  TypeOK'
    BY <2>8 DEF vars
  <2> QED
    BY <2>1, <2>4, <2>5, <2>6, <2>7, <2>8 DEF Next, LogIPnv
<1> QED
  BY <1>1, <1>2, PTL DEF Spec

\* The map remembers the visit before, and what it does not remember is old: that
\* is what LaterVisit and the sweep leave behind when they drop an address.
Remembers ==
    \A ip \in IP :
        /\ older[ip] <= newer[ip]
        /\ ip \in DOMAIN ips => ips[ip] = newer[ip]
        /\ ip \notin DOMAIN ips => now > older[ip] + Window
        /\ ~started => newer[ip] = LongAgo /\ older[ip] = LongAgo
        /\ newer[ip] <= now

IInv == TypeOK /\ Remembers

\* Whoever is let in by an address it does or does not find in the map comes more
\* than Window after the visit before the last, and the map stays right.
LEMMA LetInIsSpaced ==
    ASSUME IInv, NEW r \in Request, FirstVisit(r) \/ LaterVisit(r)
    PROVE  Remembers' /\ \A ip \in IP : LetsIn(ip) => now > older[ip] + Window
<1> USE WindowAssumption, BoundAssumption
<1> DEFINE me == asking[r]
<1>1. /\ me \in IP /\ started /\ UNCHANGED <<now, started>>
      /\ newer' = [newer EXCEPT ![me] = now]
      /\ older' = [older EXCEPT ![me] = newer[me]]
  BY DEF IInv, TypeOK, FirstVisit, LaterVisit, HasLock, LetIn
<1>2. /\ now \in Int
      /\ \A ip \in IP : newer[ip] \in Int /\ older[ip] \in Int
      /\ \A ip \in IP : /\ newer'[ip] = IF ip = me THEN now ELSE newer[ip]
                        /\ older'[ip] = IF ip = me THEN newer[me] ELSE older[ip]
  BY <1>1 DEF IInv, TypeOK, LongAgo
<1>3. /\ \A ip \in IP : ip # me => /\ ip \in DOMAIN ips' <=> ip \in DOMAIN ips
                                   /\ ip \in DOMAIN ips => ips'[ip] = ips[ip]
      /\ \/ me \notin DOMAIN ips /\ me \in DOMAIN ips' /\ ips'[me] = now
         \/ me \in DOMAIN ips /\ me \notin DOMAIN ips' /\ now > ips[me] + Window
  BY <1>1 DEF FirstVisit, LaterVisit, Old
<1>4. ASSUME NEW ip \in IP, ip # me
      PROVE  /\ older'[ip] <= newer'[ip] /\ newer'[ip] <= now'
             /\ ip \in DOMAIN ips' => ips'[ip] = newer'[ip]
             /\ ip \notin DOMAIN ips' => now' > older'[ip] + Window
             /\ ~LetsIn(ip)
  BY <1>1, <1>2, <1>3, <1>4 DEF IInv, Remembers, LetsIn
<1>5. /\ older'[me] <= newer'[me] /\ newer'[me] <= now'
      /\ me \in DOMAIN ips' => ips'[me] = newer'[me]
      /\ me \notin DOMAIN ips' => now' > older'[me] + Window
      /\ now > older[me] + Window
  BY <1>1, <1>2, <1>3 DEF IInv, Remembers
<1> QED
  BY <1>1, <1>4, <1>5 DEF Remembers

\* The invariant that both theorems rest on.
THEOREM Invariant == Spec => []IInv
<1> USE WindowAssumption, BoundAssumption
<1>1. Init => IInv
  <2>1. Init => TypeOK
    BY InitTyped
  <2>2. Init => Remembers
    BY DEF Init, Remembers, LongAgo
  <2> QED
    BY <2>1, <2>2 DEF IInv
<1>2. IInv /\ TypeOK' /\ [Next]_vars => IInv'
  <2> SUFFICES ASSUME IInv, TypeOK', [Next]_vars PROVE Remembers'
    BY DEF IInv
  <2>1. ASSUME NEW r \in Request, FirstVisit(r) \/ LaterVisit(r)
        PROVE  Remembers'
    BY <2>1, LetInIsSpaced
  <2>2. ASSUME \/ \E r \in Request, ip \in IP : Arrive(r, ip)
               \/ \E r \in Request : NilMap(r) \/ TooSoon(r)
               \/ PingReturns
               \/ UNCHANGED vars
        PROVE  Remembers'
    <3>1. UNCHANGED <<now, started, ips, newer, older>>
      BY <2>2 DEF Arrive, NilMap, TooSoon, PingReturns, vars
    <3> QED
      BY <3>1 DEF IInv, Remembers
  <2>3. ASSUME Start
        PROVE  Remembers'
    <3>1. now \in Nat
      BY DEF IInv, TypeOK
    <3> QED
      BY <2>3, <3>1 DEF Start, IInv, Remembers, LongAgo
  <2>4. ASSUME Sweep
        PROVE  Remembers'
    <3>1. now \in Int /\ \A ip \in IP : newer[ip] \in Int /\ older[ip] \in Int
      BY DEF IInv, TypeOK, LongAgo
    <3>2. /\ UNCHANGED <<now, started, newer, older>>
          /\ \A ip : ip \in DOMAIN ips' <=> ip \in DOMAIN ips /\ ~Old(ip)
          /\ \A ip \in DOMAIN ips' : ips'[ip] = ips[ip]
      BY <2>4 DEF Sweep
    <3> QED
      BY <3>1, <3>2 DEF IInv, Remembers, Old
  <2>5. ASSUME Tick
        PROVE  Remembers'
    <3>1. now \in Int /\ \A ip \in IP : newer[ip] \in Int /\ older[ip] \in Int
      BY DEF IInv, TypeOK, LongAgo
    <3> QED
      BY <2>5, <3>1 DEF Tick, IInv, Remembers
  <2> QED
    BY <2>1, <2>2, <2>3, <2>4, <2>5 DEF Next, LogIPnv
<1> QED
  BY <1>1, <1>2, TypeCorrect, PTL DEF Spec

\* Three requests of one address that are let in span more than Window: the brake
\* lets two through back to back, never three.
THEOREM ThreeAlwaysSpanTheWindow == Spec => ThreeSpanTheWindow
<1> DEFINE A == \A ip \in IP : LetsIn(ip) => now > older[ip] + Window
<1>1. IInv /\ [Next]_vars => A
  <2> SUFFICES ASSUME IInv, [Next]_vars PROVE A
    OBVIOUS
  <2>1. CASE \E r \in Request : FirstVisit(r) \/ LaterVisit(r)
    BY <2>1, LetInIsSpaced
  <2>2. CASE UNCHANGED <<newer, older>>
    BY <2>2 DEF LetsIn
  <2> QED
    BY <2>1, <2>2 DEF Next, LogIPnv, Arrive, NilMap, TooSoon, Start, Sweep, PingReturns,
                      Tick, vars
<1> QED
  BY <1>1, Invariant, PTL DEF Spec, ThreeSpanTheWindow

\* Nobody is refused because of a refusal: each one is within Window of a request of
\* the address that was let in.
THEOREM RefusalsAreAlwaysFresh == Spec => RefusalsAreFresh
<1> DEFINE R == \A ip \in IP :
                   (\E r \in Request : asking[r] = ip /\ asking'[r] = Nobody
                                       /\ verdict' = [ip |-> ip, said |-> "refused"])
                       => now <= newer[ip] + Window
<1>1. IInv /\ [Next]_vars => R
  <2> SUFFICES ASSUME IInv, [Next]_vars, NEW ip \in IP, NEW r \in Request,
                      asking[r] = ip, asking'[r] = Nobody,
                      verdict' = [ip |-> ip, said |-> "refused"]
               PROVE  now <= newer[ip] + Window
    OBVIOUS
  <2>1. asking'[r] # asking[r]
    BY NobodyAssumption
  <2>2. PICK q \in Request : LogIPnv(q) \/ \E i \in IP : Arrive(q, i)
    BY <2>1 DEF Next, Start, Sweep, PingReturns, Tick, vars
  <2>3. ~ \E i \in IP : Arrive(q, i)
    BY <2>1, NobodyAssumption DEF Arrive, IInv, TypeOK
  <2>4. Says(q, "accepted") \/ Says(q, "panic") => FALSE
    BY DEF Says
  <2>5. TooSoon(q)
    BY <2>2, <2>3, <2>4 DEF LogIPnv, FirstVisit, LaterVisit, NilMap, LetIn
  <2>6. asking[q] = ip
    BY <2>5 DEF TooSoon, Says
  <2>7. now \in Int /\ newer[ip] \in Int /\ ips[ip] = newer[ip]
    BY <2>5, <2>6 DEF TooSoon, IInv, TypeOK, Remembers, LongAgo
  <2> QED
    BY <2>5, <2>6, <2>7, WindowAssumption DEF TooSoon, Old
<1> QED
  BY <1>1, Invariant, PTL DEF Spec, RefusalsAreFresh
=============================================================================
