--------------------------- MODULE EditingProofs ---------------------------
(***************************************************************************)
(* The types of Editing, the limit on revisions, the lock and the history, *)
(* for any number of handlers, users and updates and any limit.            *)
(***************************************************************************)
EXTENDS Editing, FiniteSetTheorems, TLAPS

USE DEF Idle

Updating(h) == job[h].at \in {"selected", "relocked"}

\* The updates that had read the article unlocked, and those that had read it before the
\* limit was reached, of users whom lock and limit concern.
Eager  == {h \in Handler : Updating(h) /\ job[h].user \notin Moderator /\ ~job[h].seen.locked}
Behind == {h \in Handler : /\ job[h].at = "selected" /\ job[h].user \notin Moderator
                           /\ job[h].seen.rev < MaxRevision}

\* Who has locked the article on the way knows that it is locked.
RelockedInv == \A h \in Handler : job[h].at = "relocked" => job[h].seen.locked

\* While the lock is on, those that got past it and those that still may are no more than
\* there are handlers.
LockInv ==
    /\ late <= Cardinality(Handler)
    /\ row.locked => late + Cardinality(Eager) <= Cardinality(Handler)

\* Past the limit the same holds, and the handler that reached it is not among them.
RevisionInv ==
    IF row.rev < MaxRevision THEN over = 0
    ELSE over + Cardinality(Behind) <= Cardinality(Handler) - 1

\* An update at work has read what the article still says, unless what it says now was
\* written meanwhile.
HistoryInv ==
    /\ HistoryKeeps
    /\ \A h \in Handler : Updating(h) => job[h].seen.content = row.content \/ row.content \in overlap

-----------------------------------------------------------------------------
(* What the counts are made of.                                            *)

LEMMA Counts ==
    /\ Cardinality(Handler) \in Nat /\ Cardinality(Handler) >= 1
    /\ \A S : S \subseteq Handler => IsFiniteSet(S) /\ Cardinality(S) \in Nat
                                     /\ Cardinality(S) <= Cardinality(Handler)
<1>1. Cardinality(Handler) \in Nat /\ Cardinality(Handler) # 0
  BY HandlerAssumption, FS_CardinalityType, FS_EmptySet
<1>2. ASSUME NEW S, S \subseteq Handler
      PROVE  IsFiniteSet(S) /\ Cardinality(S) \in Nat /\ Cardinality(S) <= Cardinality(Handler)
  BY <1>2, HandlerAssumption, FS_Subset, FS_CardinalityType
<1> QED
  BY <1>1, <1>2

\* A set that lost a handler, or that is a part of another.
LEMMA Fewer ==
    ASSUME NEW S, NEW T, S \subseteq Handler, T \subseteq S
    PROVE  /\ Cardinality(T) <= Cardinality(S)
           /\ \A h \in S : h \notin T => Cardinality(T) <= Cardinality(S) - 1
<1>1. IsFiniteSet(S) /\ Cardinality(S) \in Nat
  BY Counts
<1>2. Cardinality(T) <= Cardinality(S)
  BY <1>1, FS_Subset
<1>3. ASSUME NEW h \in S, h \notin T PROVE Cardinality(T) <= Cardinality(S) - 1
  <2>1. IsFiniteSet(S \ {h}) /\ Cardinality(S \ {h}) = Cardinality(S) - 1
    BY <1>1, FS_RemoveElement
  <2>2. T \subseteq S \ {h}
    BY <1>3
  <2> QED
    BY <2>1, <2>2, FS_Subset
<1> QED
  BY <1>2, <1>3

\* What a handler is doing is told by "at".
LEMMA JobIs ==
    ASSUME NEW j \in Job
    PROVE  /\ j.at \in {"selected", "relocked"} => j \in Update
           /\ j.at = "checked" => j \in Delete
  BY DEF Job, Update, Delete

-----------------------------------------------------------------------------
(* Types.                                                                  *)

LEMMA TypeAtFirst == Init => TypeOK
<1> SUFFICES ASSUME Init PROVE TypeOK
  OBVIOUS
<1>1. row \in Row
  <2>1. PICK u \in User : row = [content |-> 0, author |-> u, rev |-> 0,
                                deleted |-> FALSE, locked |-> FALSE]
    BY DEF Init
  <2> QED
    BY <2>1, RevisionAssumption DEF Row
<1>2. job \in [Handler -> Job]
  BY DEF Init, Job
<1>3. 0 \in 0 .. MaxDrafts /\ 0 \in Nat
  BY RevisionAssumption
<1>4. alert \in [op : {"none", "ok", "refused"}, del : BOOLEAN]
  BY DEF Init
<1>5. page \in [User -> BOOLEAN]
  BY DEF Init
<1> QED
  BY <1>1, <1>2, <1>3, <1>4, <1>5 DEF Init, TypeOK

LEMMA TypeStep == TypeOK /\ [Next]_vars => TypeOK'
<1> SUFFICES ASSUME TypeOK, [Next]_vars PROVE TypeOK'
  OBVIOUS
<1> USE RevisionAssumption DEF TypeOK
<1>1. ASSUME NEW h \in Handler, NEW u \in User, Select(h, u) PROVE TypeOK'
  <2>1. [at |-> "selected", user |-> u, content |-> drafts + 1, seen |-> row] \in Job
    BY <1>1 DEF Select, Job, Update
  <2> QED
    BY <1>1, <2>1 DEF Select
<1>2. ASSUME NEW h \in Handler, NEW u \in User, CheckDelete(h, u) PROVE TypeOK'
  <2>1. [at |-> "checked", user |-> u, del |-> ~page[u]] \in Job
    BY <1>2 DEF Job, Delete
  <2> QED
    BY <1>2, <2>1 DEF CheckDelete
<1>3. ASSUME NEW h \in Handler, LockFull(h) PROVE TypeOK'
  <2>1. job[h] \in Update
    BY <1>3, JobIs DEF LockFull
  <2>2. [job[h] EXCEPT !.at = "relocked", !.seen.locked = TRUE] \in Job
    BY <2>1 DEF Job, Update, Row
  <2>3. [row EXCEPT !.locked = TRUE] \in Row
    BY DEF Row
  <2>4. job' \in [Handler -> Job]
    BY <1>3, <2>2 DEF LockFull
  <2> QED
    BY <1>3, <2>3, <2>4 DEF LockFull, Locking
<1>4. ASSUME NEW h \in Handler, Refuse(h) PROVE TypeOK'
  BY <1>4 DEF Refuse, Job
<1>5. ASSUME NEW h \in Handler, Commit(h) PROVE TypeOK'
  <2>1. job[h] \in Update
    BY <1>5, JobIs DEF Commit, Decided
  <2>2. job[h].content \in 0 .. MaxDrafts /\ job[h].user \in User /\ job[h].seen.content \in 0 .. MaxDrafts
    BY <2>1 DEF Update, Row
  <2>3. row' \in Row
    <3>1. row.rev + 1 \in 0 .. MaxRev
      BY <1>5 DEF Commit, Row
    <3>2. row' = [row EXCEPT !.content = job[h].content, !.author = job[h].user, !.rev = row.rev + 1]
      BY <1>5 DEF Commit, Row
    <3> QED
      BY <2>2, <3>1, <3>2 DEF Row
  <2>4. late' \in Nat /\ over' \in Nat
    BY <1>5 DEF Commit
  <2>5. /\ history' \subseteq 0 .. MaxDrafts /\ shown' \subseteq 0 .. MaxDrafts
        /\ overlap' \subseteq shown'
    BY <1>5, <2>2 DEF Commit
  <2>6. job' \in [Handler -> Job]
    BY <1>5 DEF Commit, Job
  <2> QED
    BY <1>5, <2>3, <2>4, <2>5, <2>6 DEF Commit
<1>6. ASSUME NEW h \in Handler, InvertDeleted(h) PROVE TypeOK'
  <2>1. job[h] \in Delete
    BY <1>6, JobIs DEF InvertDeleted
  <2>2. job[h].user \in User /\ job[h].del \in BOOLEAN
    BY <2>1 DEF Delete
  <2>3. row' \in Row /\ job' \in [Handler -> Job]
    BY <1>6 DEF InvertDeleted, Row, Job
  <2>4. page' \in [User -> BOOLEAN]
    BY <1>6, <2>2 DEF InvertDeleted
  <2> QED
    BY <1>6, <2>2, <2>3, <2>4 DEF InvertDeleted
<1>7. ASSUME NEW u \in User, Load(u) PROVE TypeOK'
  BY <1>7 DEF Load, Row
<1>8. ASSUME NEW u \in User, InvertLocked(u) PROVE TypeOK'
  BY <1>8 DEF InvertLocked, Locking, Row
<1>9. CASE UNCHANGED vars
  BY <1>9 DEF vars
<1> QED
  BY <1>1, <1>2, <1>3, <1>4, <1>5, <1>6, <1>7, <1>8, <1>9 DEF Next

\* The row, the jobs and what else the handlers keep stay what they are said to be; in
\* particular what an update has read is a row (Article.go 145-219, 375-455).
THEOREM TypeCorrect == Spec => []TypeOK
<1>1. TypeOK /\ [Next]_vars => TypeOK'
  BY TypeStep
<1> QED
  BY TypeAtFirst, <1>1, PTL DEF Spec

-----------------------------------------------------------------------------
(* What an action does to those the invariants count.                      *)

\* A handler changes its own job only.
LEMMA Others ==
    ASSUME NEW h \in Handler, \A g \in Handler \ {h} : job'[g] = job[g]
    PROVE  Eager' \ {h} = Eager \ {h} /\ Behind' \ {h} = Behind \ {h}
  BY DEF Eager, Behind, Updating

\* A handler that ends is counted no more.
LEMMA Ends ==
    ASSUME TypeOK, NEW h \in Handler, job' = [job EXCEPT ![h] = Idle]
    PROVE  /\ Eager' = Eager \ {h} /\ Behind' = Behind \ {h}
           /\ \A g \in Handler : Updating(g)' => g # h /\ job'[g] = job[g] /\ Updating(g)
<1>1. \A g \in Handler : job'[g] = IF g = h THEN Idle ELSE job[g]
  BY DEF TypeOK
<1>2. ~Updating(h)'
  BY <1>1 DEF Updating
<1>3. h \notin Eager' /\ h \notin Behind'
  BY <1>1, <1>2 DEF Eager, Behind
<1>4. Eager' \ {h} = Eager \ {h} /\ Behind' \ {h} = Behind \ {h}
  BY <1>1, Others
<1> QED
  BY <1>1, <1>2, <1>3, <1>4 DEF Updating

\* Nobody got past the lock who could not before, and it is on only if it was.
LEMMA LockKept ==
    ASSUME TypeOK, LockInv, late' = late, row'.locked => row.locked /\ Eager' \subseteq Eager
    PROVE  LockInv'
<1>1. ASSUME row'.locked PROVE late' + Cardinality(Eager') <= Cardinality(Handler)
  <2>1. Eager \subseteq Handler /\ Eager' \subseteq Handler
    BY DEF Eager
  <2>2. Cardinality(Eager') <= Cardinality(Eager)
    BY <1>1, <2>1, Fewer
  <2>3. Cardinality(Eager) \in Nat /\ Cardinality(Eager') \in Nat /\ Cardinality(Handler) \in Nat
    BY <2>1, Counts
  <2> QED
    BY <1>1, <2>2, <2>3 DEF LockInv, TypeOK
<1> QED
  BY <1>1 DEF LockInv

\* The lock is put on, taken off, or put on again.
LEMMA LockPutOn ==
    ASSUME TypeOK, LockInv, Locking, Eager' \subseteq Eager
    PROVE  LockInv'
<1>1. Eager \subseteq Handler /\ Eager' \subseteq Handler
  BY DEF Eager
<1>2. /\ Cardinality(Eager) \in Nat /\ Cardinality(Eager') \in Nat /\ Cardinality(Handler) \in Nat
      /\ Cardinality(Eager') <= Cardinality(Eager) /\ Cardinality(Eager') <= Cardinality(Handler)
  BY <1>1, Counts, Fewer
<1>3. CASE row.locked
  <2>1. late' = late /\ late + Cardinality(Eager) <= Cardinality(Handler)
    BY <1>3 DEF Locking, LockInv
  <2> QED
    BY <1>2, <2>1 DEF LockInv, TypeOK
<1>4. CASE ~row.locked
  BY <1>2, <1>4 DEF Locking, LockInv
<1> QED
  BY <1>3, <1>4

\* Nobody got past the limit who could not before.
LEMMA RevisionKept ==
    ASSUME TypeOK, RevisionInv, over' = over, row'.rev = row.rev,
           row.rev >= MaxRevision => Behind' \subseteq Behind
    PROVE  RevisionInv'
<1>1. CASE row.rev < MaxRevision
  BY <1>1 DEF RevisionInv
<1>2. CASE ~(row.rev < MaxRevision)
  <2>1. Behind \subseteq Handler /\ Behind' \subseteq Handler
    BY DEF Behind
  <2>2. Behind' \subseteq Behind
    BY <1>2, RevisionAssumption DEF TypeOK, Row
  <2>3. Cardinality(Behind') <= Cardinality(Behind)
    BY <2>1, <2>2, Fewer
  <2>4. Cardinality(Behind) \in Nat /\ Cardinality(Behind') \in Nat /\ Cardinality(Handler) \in Nat
    BY <2>1, Counts
  <2> QED
    BY <1>2, <2>3, <2>4 DEF RevisionInv, TypeOK
<1> QED
  BY <1>1, <1>2

\* The contents stay, and no update has read another one.
LEMMA HistoryKept ==
    ASSUME HistoryInv, UNCHANGED <<history, shown, overlap>>, row'.content = row.content,
           \A h \in Handler : Updating(h)' =>
               \/ Updating(h) /\ job'[h].seen.content = job[h].seen.content
               \/ job'[h].seen.content = row.content
    PROVE  HistoryInv'
  BY DEF HistoryInv, HistoryKeeps

-----------------------------------------------------------------------------
(* The three invariants, action by action.                                 *)

IInv == TypeOK /\ RelockedInv /\ LockInv /\ RevisionInv /\ HistoryInv

LEMMA InvAtFirst == Init => IInv
<1> SUFFICES ASSUME Init PROVE IInv
  OBVIOUS
<1>1. TypeOK
  BY TypeAtFirst
<1>2. \A h \in Handler : ~Updating(h)
  BY DEF Init, Updating
<1>3. row.content = 0 /\ row.rev = 0 /\ ~row.locked
  BY DEF Init
<1>4. Cardinality(Handler) \in Nat /\ Cardinality(Handler) >= 1
  BY Counts
<1>5. LockInv
  BY <1>3, <1>4 DEF Init, LockInv
<1>6. RevisionInv
  <2>1. Behind = {}
    BY <1>2 DEF Behind, Updating
  <2>2. Cardinality(Behind) = 0
    BY <2>1, FS_EmptySet
  <2> QED
    BY <1>4, <2>2 DEF Init, RevisionInv
<1>7. HistoryInv
  BY <1>2, <1>3 DEF Init, HistoryInv, HistoryKeeps
<1> QED
  BY <1>1, <1>2, <1>5, <1>6, <1>7 DEF IInv, RelockedInv, Updating

\* An update reads: locked if the article is, past the limit if it is.
LEMMA SelectStep ==
    ASSUME IInv, NEW h \in Handler, NEW u \in User, Select(h, u)
    PROVE  LockInv' /\ RevisionInv' /\ HistoryInv'
<1>1. \A g \in Handler \ {h} : job'[g] = job[g]
  BY DEF Select, IInv, TypeOK
<1>2. job'[h] = [at |-> "selected", user |-> u, content |-> drafts + 1, seen |-> row]
  BY DEF Select, IInv, TypeOK
<1>3. job'[h].seen = row
  BY <1>2
<1>4. row' = row /\ late' = late /\ over' = over
  BY DEF Select
<1>5. row.locked => Eager' \subseteq Eager
  <2>1. row.locked => h \notin Eager'
    BY <1>3 DEF Eager
  <2> QED
    BY <1>1, <2>1, Others
<1>6. row.rev >= MaxRevision => Behind' \subseteq Behind
  <2>1. row.rev >= MaxRevision => h \notin Behind'
    BY <1>3, RevisionAssumption DEF Behind, IInv, TypeOK, Row
  <2> QED
    BY <1>1, <2>1, Others
<1>7. LockInv'
  BY <1>4, <1>5, LockKept DEF IInv
<1>8. RevisionInv'
  BY <1>4, <1>6, RevisionKept DEF IInv
<1>9. \A g \in Handler : Updating(g)' =>
          \/ Updating(g) /\ job'[g].seen.content = job[g].seen.content
          \/ job'[g].seen.content = row.content
  BY <1>1, <1>3 DEF Updating
<1>10. HistoryInv'
  BY <1>4, <1>9, HistoryKept DEF IInv, Select
<1> QED
  BY <1>7, <1>8, <1>10

\* A deletion at work is counted nowhere.
LEMMA CheckDeleteStep ==
    ASSUME IInv, NEW h \in Handler, NEW u \in User, CheckDelete(h, u)
    PROVE  LockInv' /\ RevisionInv' /\ HistoryInv'
<1>1. \A g \in Handler \ {h} : job'[g] = job[g]
  BY DEF CheckDelete, IInv, TypeOK
<1>2. job'[h].at = "checked"
  BY DEF CheckDelete, IInv, TypeOK
<1>3. ~Updating(h)'
  BY <1>2 DEF Updating
<1>4. Eager' \subseteq Eager /\ Behind' \subseteq Behind
  <2>1. h \notin Eager' /\ h \notin Behind'
    BY <1>2, <1>3 DEF Eager, Behind
  <2> QED
    BY <1>1, <2>1, Others
<1>5. LockInv'
  BY <1>4, LockKept DEF IInv, CheckDelete
<1>6. RevisionInv'
  BY <1>4, RevisionKept DEF IInv, CheckDelete
<1>7. \A g \in Handler : Updating(g)' =>
          Updating(g) /\ job'[g].seen.content = job[g].seen.content
  BY <1>1, <1>3 DEF Updating
<1>8. HistoryInv'
  BY <1>7, HistoryKept DEF IInv, CheckDelete
<1> QED
  BY <1>5, <1>6, <1>8

\* A handler that ends without touching the row's content, revisions or lock.
LEMMA EndStep ==
    ASSUME IInv, NEW h \in Handler, job' = [job EXCEPT ![h] = Idle],
           row'.content = row.content, row'.rev = row.rev, row'.locked = row.locked,
           UNCHANGED <<history, shown, overlap, late, over>>
    PROVE  LockInv' /\ RevisionInv' /\ HistoryInv'
<1>1. /\ Eager' \subseteq Eager /\ Behind' \subseteq Behind
      /\ \A g \in Handler : Updating(g)' => job'[g] = job[g] /\ Updating(g)
  BY Ends DEF IInv
<1>2. LockInv'
  BY <1>1, LockKept DEF IInv
<1>3. RevisionInv'
  BY <1>1, RevisionKept DEF IInv
<1>4. HistoryInv'
  BY <1>1, HistoryKept DEF IInv
<1> QED
  BY <1>2, <1>3, <1>4

\* An update of too many revisions puts the lock on and counts itself out.
LEMMA LockFullStep ==
    ASSUME IInv, NEW h \in Handler, LockFull(h)
    PROVE  LockInv' /\ RevisionInv' /\ HistoryInv'
<1>1. job[h] \in Update /\ job[h].seen \in Row
  BY JobIs DEF LockFull, IInv, TypeOK, Update
<1>2. \A g \in Handler \ {h} : job'[g] = job[g]
  BY DEF LockFull, IInv, TypeOK
<1>3. job'[h] = [job[h] EXCEPT !.at = "relocked", !.seen.locked = TRUE]
  BY DEF LockFull, IInv, TypeOK
<1>4. /\ job'[h].at = "relocked" /\ job'[h].seen.locked
      /\ job'[h].seen.content = job[h].seen.content
  BY <1>1, <1>3 DEF Update, Row
<1>5. Eager' \subseteq Eager /\ Behind' \subseteq Behind
  <2>1. h \notin Eager' /\ h \notin Behind'
    BY <1>4 DEF Eager, Behind
  <2> QED
    BY <1>2, <2>1, Others
<1>6. row'.content = row.content /\ row'.rev = row.rev
  BY DEF LockFull, IInv, TypeOK, Row
<1>7. LockInv'
  BY <1>5, LockPutOn DEF IInv, LockFull
<1>8. RevisionInv'
  BY <1>5, <1>6, RevisionKept DEF IInv, LockFull
<1>9. \A g \in Handler : Updating(g)' =>
          Updating(g) /\ job'[g].seen.content = job[g].seen.content
  BY <1>2, <1>4 DEF Updating, LockFull
<1>10. HistoryInv'
  BY <1>6, <1>9, HistoryKept DEF IInv, LockFull
<1> QED
  BY <1>7, <1>8, <1>10

\* A moderator locks and unlocks; nobody's reading changes.
LEMMA InvertLockedStep ==
    ASSUME IInv, NEW u \in User, InvertLocked(u)
    PROVE  LockInv' /\ RevisionInv' /\ HistoryInv'
<1>1. row'.content = row.content /\ row'.rev = row.rev
  BY DEF InvertLocked, IInv, TypeOK, Row
<1>2. job' = job /\ Eager' = Eager /\ Behind' = Behind
  BY DEF InvertLocked, Eager, Behind, Updating
<1>3. LockInv'
  BY <1>2, LockPutOn DEF IInv, InvertLocked
<1>4. RevisionInv'
  BY <1>1, <1>2, RevisionKept DEF IInv, InvertLocked
<1>5. HistoryInv'
  BY <1>1, <1>2, HistoryKept DEF IInv, InvertLocked, Updating
<1> QED
  BY <1>3, <1>4, <1>5

\* An update is written.  Whom lock and limit concern was among those counted.
LEMMA CommitStep ==
    ASSUME IInv, NEW h \in Handler, Commit(h)
    PROVE  LockInv' /\ RevisionInv' /\ HistoryInv'
<1> DEFINE j == job[h]
<1>1. j \in Update /\ Updating(h) /\ j.seen \in Row
  BY JobIs DEF Commit, Decided, IInv, TypeOK, Update, Updating
<1>2. /\ Eager' = Eager \ {h} /\ Behind' = Behind \ {h}
      /\ \A g \in Handler : Updating(g)' => g # h /\ job'[g] = job[g] /\ Updating(g)
  BY Ends DEF Commit, IInv
<1>3. /\ row'.content = j.content /\ row'.rev = row.rev + 1 /\ row'.locked = row.locked
      /\ row.rev \in Nat
  BY DEF Commit, IInv, TypeOK, Row
<1>4. Eager \subseteq Handler /\ Behind \subseteq Handler
  BY DEF Eager, Behind
<1>5. /\ Cardinality(Eager) \in Nat /\ Cardinality(Behind) \in Nat
      /\ Cardinality(Eager') \in Nat /\ Cardinality(Behind') \in Nat
      /\ Cardinality(Handler) \in Nat /\ Cardinality(Handler) >= 1
      /\ Cardinality(Eager') <= Cardinality(Eager)
      /\ Cardinality(Behind') <= Cardinality(Behind)
      /\ h \in Eager => Cardinality(Eager') <= Cardinality(Eager) - 1
      /\ h \in Behind => Cardinality(Behind') <= Cardinality(Behind) - 1
  BY <1>2, <1>4, Counts, Fewer
<1>6. j.user \notin Moderator => h \in Eager /\ h \in Behind
  <2> SUFFICES ASSUME j.user \notin Moderator PROVE h \in Eager /\ h \in Behind
    OBVIOUS
  <2>1. ~j.seen.locked
    BY DEF Commit, MayEdit
  <2>3. j.at = "selected" /\ j.seen.rev < MaxRevision
    BY <2>1 DEF Commit, Decided, IInv, RelockedInv
  <2>2. h \in Eager
    BY <1>1, <2>1 DEF Eager
  <2> QED
    BY <2>2, <2>3 DEF Behind
<1>7. LockInv'
  <2>1. CASE row.locked /\ j.user \notin Moderator
    <3>1. late' = late + 1
      BY <2>1 DEF Commit
    <3>2. late \in Nat /\ late + Cardinality(Eager) <= Cardinality(Handler)
      BY <2>1 DEF IInv, TypeOK, LockInv
    <3> QED
      BY <1>5, <1>6, <2>1, <3>1, <3>2 DEF LockInv
  <2>2. CASE ~(row.locked /\ j.user \notin Moderator)
    <3>1. late' = late
      BY <2>2 DEF Commit
    <3> QED
      BY <1>2, <1>3, <3>1, LockKept DEF IInv
  <2> QED
    BY <2>1, <2>2
<1>8. RevisionInv'
  <2>1. CASE row.rev < MaxRevision
    <3>1. over' = over /\ over = 0
      BY <1>3, <2>1, RevisionAssumption DEF Commit, IInv, RevisionInv
    <3>2. Behind' \subseteq Handler \ {h}
      BY <1>2, <1>4
    <3>3. Cardinality(Behind') <= Cardinality(Handler) - 1
      BY <3>2, Fewer
    <3> QED
      BY <1>5, <3>1, <3>3 DEF RevisionInv
  <2>2. CASE ~(row.rev < MaxRevision)
    <3>1. ~(row'.rev < MaxRevision) /\ row.rev >= MaxRevision
      BY <1>3, <2>2, RevisionAssumption
    <3>2. over \in Nat /\ over + Cardinality(Behind) <= Cardinality(Handler) - 1
      BY <2>2 DEF IInv, TypeOK, RevisionInv
    <3>3. CASE j.user \notin Moderator
      <4>1. over' = over + 1
        BY <3>1, <3>3 DEF Commit
      <4> QED
        BY <1>5, <1>6, <3>1, <3>2, <3>3, <4>1 DEF RevisionInv
    <3>4. CASE j.user \in Moderator
      <4>1. over' = over
        BY <3>4 DEF Commit
      <4> QED
        BY <1>5, <3>1, <3>2, <4>1 DEF RevisionInv
    <3> QED
      BY <3>3, <3>4
  <2> QED
    BY <2>1, <2>2
<1>9. HistoryInv'
  <2>1. /\ history' = history \cup {j.seen.content} /\ shown' = shown \cup {j.content}
        /\ overlap \subseteq overlap'
    BY DEF Commit
  <2>2. shown \subseteq history \cup {row.content} \cup overlap
    BY DEF IInv, HistoryInv, HistoryKeeps
  <2>3. j.seen.content = row.content \/ row.content \in overlap
    BY <1>1 DEF IInv, HistoryInv
  <2>4. HistoryKeeps'
    BY <1>3, <2>1, <2>2, <2>3 DEF HistoryKeeps
  <2>5. ASSUME NEW g \in Handler, Updating(g)' PROVE row'.content \in overlap'
    <3>1. g \in Handler \ {h} /\ job[g].at \in {"selected", "relocked"}
      BY <1>2, <2>5 DEF Updating
    <3> QED
      BY <1>3, <3>1 DEF Commit
  <2> QED
    BY <2>4, <2>5 DEF HistoryInv
<1> QED
  BY <1>7, <1>8, <1>9

LEMMA RelockedStep == TypeOK /\ RelockedInv /\ [Next]_vars => RelockedInv'
<1> SUFFICES ASSUME TypeOK, RelockedInv, [Next]_vars PROVE RelockedInv'
  OBVIOUS
<1>1. ASSUME NEW h \in Handler, job' = [job EXCEPT ![h] = job'[h]],
             job'[h].at # "relocked" \/ job'[h].seen.locked
      PROVE  RelockedInv'
  <2>1. \A g \in Handler \ {h} : job'[g] = job[g]
    BY <1>1 DEF TypeOK
  <2> QED
    BY <1>1, <2>1 DEF RelockedInv
<1>2. ASSUME NEW h \in Handler, NEW u \in User, Select(h, u) \/ CheckDelete(h, u)
      PROVE  RelockedInv'
  <2>1. job' = [job EXCEPT ![h] = job'[h]] /\ job'[h].at # "relocked"
    BY <1>2 DEF Select, CheckDelete, TypeOK
  <2> QED
    BY <1>1, <2>1
<1>3. ASSUME NEW h \in Handler, LockFull(h) PROVE RelockedInv'
  <2>1. job[h] \in Update /\ job[h].seen \in Row
    BY <1>3, JobIs DEF LockFull, TypeOK, Update
  <2>2. job'[h] = [job[h] EXCEPT !.at = "relocked", !.seen.locked = TRUE]
    BY <1>3 DEF LockFull, TypeOK
  <2>3. job'[h].seen.locked
    BY <2>1, <2>2 DEF Update, Row
  <2>4. job' = [job EXCEPT ![h] = job'[h]]
    BY <1>3, <2>2 DEF LockFull, TypeOK
  <2> QED
    BY <1>1, <2>3, <2>4
<1>4. ASSUME NEW h \in Handler, Refuse(h) \/ Commit(h) \/ InvertDeleted(h) PROVE RelockedInv'
  <2>1. job' = [job EXCEPT ![h] = Idle]
    BY <1>4 DEF Refuse, Commit, InvertDeleted
  <2>2. job' = [job EXCEPT ![h] = job'[h]] /\ job'[h].at = "idle"
    BY <2>1 DEF TypeOK
  <2> QED
    BY <1>1, <2>2
<1>5. ASSUME job' = job PROVE RelockedInv'
  BY <1>5 DEF RelockedInv
<1> QED
  BY <1>2, <1>3, <1>4, <1>5 DEF Next, Load, InvertLocked, vars

LEMMA InvStep == IInv /\ [Next]_vars => IInv'
<1> SUFFICES ASSUME IInv, [Next]_vars PROVE LockInv' /\ RevisionInv' /\ HistoryInv'
  BY TypeStep, RelockedStep DEF IInv
<1>1. ASSUME NEW h \in Handler, NEW u \in User, Select(h, u)
      PROVE  LockInv' /\ RevisionInv' /\ HistoryInv'
  BY <1>1, SelectStep
<1>2. ASSUME NEW h \in Handler, NEW u \in User, CheckDelete(h, u)
      PROVE  LockInv' /\ RevisionInv' /\ HistoryInv'
  BY <1>2, CheckDeleteStep
<1>3. ASSUME NEW h \in Handler, LockFull(h) PROVE LockInv' /\ RevisionInv' /\ HistoryInv'
  BY <1>3, LockFullStep
<1>4. ASSUME NEW h \in Handler, Refuse(h) PROVE LockInv' /\ RevisionInv' /\ HistoryInv'
  BY <1>4, EndStep DEF Refuse
<1>5. ASSUME NEW h \in Handler, Commit(h) PROVE LockInv' /\ RevisionInv' /\ HistoryInv'
  BY <1>5, CommitStep
<1>6. ASSUME NEW h \in Handler, InvertDeleted(h) PROVE LockInv' /\ RevisionInv' /\ HistoryInv'
  <2>1. row'.content = row.content /\ row'.rev = row.rev /\ row'.locked = row.locked
    BY <1>6 DEF InvertDeleted, IInv, TypeOK, Row
  <2> QED
    BY <1>6, <2>1, EndStep DEF InvertDeleted
<1>7. ASSUME UNCHANGED <<row, history, job, shown, overlap, late, over>>
      PROVE  LockInv' /\ RevisionInv' /\ HistoryInv'
  BY <1>7 DEF IInv, LockInv, RevisionInv, HistoryInv, HistoryKeeps, Eager, Behind, Updating
<1>8. ASSUME NEW u \in User, InvertLocked(u) PROVE LockInv' /\ RevisionInv' /\ HistoryInv'
  BY <1>8, InvertLockedStep
<1> QED
  BY <1>1, <1>2, <1>3, <1>4, <1>5, <1>6, <1>7, <1>8 DEF Next, Load, vars

LEMMA Invariant == Spec => []IInv
  BY InvAtFirst, InvStep, PTL DEF Spec

\* However many handlers are at work, no more commits pass the limit than all of them but
\* the one that reached it (Article.go:409-424).
THEOREM LimitHolds == Spec => []RevisionBound
<1>1. IInv => RevisionBound
  <2> SUFFICES ASSUME IInv PROVE RevisionBound
    OBVIOUS
  <2>1. Cardinality(Handler) \in Nat /\ Cardinality(Handler) >= 1
    BY Counts
  <2>2. Behind \subseteq Handler
    BY DEF Behind
  <2>3. Cardinality(Behind) \in Nat
    BY <2>2, Counts
  <2> QED
    BY <2>1, <2>3 DEF IInv, TypeOK, RevisionInv, RevisionBound
<1> QED
  BY <1>1, Invariant, PTL

\* Once an article is locked, each handler writes to it at most once more, and only what it
\* had been let to before (Article.go:422-437).
THEOREM LockHolds == Spec => []LockStops
<1>1. IInv => LockStops
  BY DEF IInv, LockInv, LockStops
<1> QED
  BY <1>1, Invariant, PTL

\* No content is lost but those written while another update was between its read and its
\* write (Article.go:391-437).
THEOREM HistoryIsKept == Spec => []HistoryKeeps
<1>1. IInv => HistoryKeeps
  BY DEF IInv, HistoryInv
<1> QED
  BY <1>1, Invariant, PTL
=============================================================================
