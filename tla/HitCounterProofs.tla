-------------------------- MODULE HitCounterProofs --------------------------
(***************************************************************************)
(* The types of HitCounter and the conservation of hits, for any number of *)
(* requests and articles and any bound on hits.                            *)
(***************************************************************************)
EXTENDS HitCounter, TLAPS

IInv == TypeOK /\ HitsAreConserved

LEMMA InitHolds == Init => IInv
<1> SUFFICES ASSUME Init PROVE IInv
  OBVIOUS
<1>1. None \in [Article -> Nat]
  BY DEF None
<1>2. TypeOK
  BY <1>1 DEF Init, TypeOK
<1>3. HitsAreConserved
  BY DEF Init, HitsAreConserved, None
<1>4. QED
  BY <1>2, <1>3 DEF IInv

LEMMA TypeKept == IInv /\ [Next]_vars => TypeOK'
<1> SUFFICES ASSUME IInv, [Next]_vars PROVE TypeOK'
  OBVIOUS
<1> USE NothingAssumption DEF IInv, TypeOK
<1>1. CASE \E r \in Request, a \in Article : Arrive(r, a)
  BY <1>1 DEF Arrive
<1>2. CASE \E r \in Request : Count(r)
  BY <1>2 DEF Count, HasLock
<1>3. CASE \E r \in Request : NilMap(r)
  BY <1>3 DEF NilMap, HasLock
<1>4. CASE Start
  BY <1>4 DEF Start, None
<1>5. CASE Collect
  BY <1>5 DEF Collect, None
<1>6. CASE Added
  BY <1>6 DEF Added, None, Plus
<1>7. CASE Failed
  BY <1>7 DEF Failed, None
<1>8. CASE UNCHANGED vars
  BY <1>8 DEF vars
<1>9. QED
  BY <1>1, <1>2, <1>3, <1>4, <1>5, <1>6, <1>7, <1>8 DEF Next

LEMMA HitsKept == IInv /\ [Next]_vars => HitsAreConserved'
<1> SUFFICES ASSUME IInv, [Next]_vars,
                    NEW a \in Article
             PROVE  LET known == hits'[a] + query'[a] + counts'[a]
                    IN  known <= counted'[a] /\ (~failed' => known = counted'[a])
  BY DEF HitsAreConserved
<1> USE NothingAssumption DEF IInv, TypeOK, HitsAreConserved
<1>1. CASE \E r \in Request, b \in Article : Arrive(r, b)
  BY <1>1 DEF Arrive
<1>2. CASE \E r \in Request : Count(r)
  <2>1. PICK r \in Request : Count(r)
    BY <1>2
  <2>2. asking[r] \in Article
    BY <2>1 DEF Count, HasLock
  <2>3. /\ counts' = [counts EXCEPT ![asking[r]] = @ + 1]
        /\ counted' = [counted EXCEPT ![asking[r]] = @ + 1]
        /\ UNCHANGED <<hits, query, failed>>
    BY <2>1 DEF Count
  <2>4. CASE a = asking[r]
    BY <2>2, <2>3, <2>4
  <2>5. CASE a # asking[r]
    BY <2>2, <2>3, <2>5
  <2>6. QED
    BY <2>4, <2>5
<1>3. CASE \E r \in Request : NilMap(r)
  BY <1>3 DEF NilMap
<1>4. CASE Start
  BY <1>4 DEF Start
<1>5. CASE Collect
  BY <1>5 DEF Collect, None
<1>6. CASE Added
  BY <1>6 DEF Added, None, Plus
<1>7. CASE Failed
  BY <1>7 DEF Failed, None
<1>8. CASE UNCHANGED vars
  BY <1>8 DEF vars
<1>9. QED
  BY <1>1, <1>2, <1>3, <1>4, <1>5, <1>6, <1>7, <1>8 DEF Next

\* The invariant holds in every state.
THEOREM Invariant == Spec => []IInv
<1>1. IInv /\ [Next]_vars => IInv'
  BY TypeKept, HitsKept DEF IInv
<1>2. QED
  BY InitHolds, <1>1, PTL DEF Spec

\* The map, the statement and the table keep their types; outside the daemon's tick
\* there is no statement.
THEOREM TypeCorrect == Spec => []TypeOK
BY Invariant, PTL DEF IInv

\* articles.go:56-84: no reader is counted twice, and none is lost without a failed
\* statement, for every number of readers and articles.
THEOREM HitsAreAlwaysConserved == Spec => []HitsAreConserved
BY Invariant, PTL DEF IInv
=============================================================================
