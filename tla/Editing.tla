------------------------------ MODULE Editing -------------------------------
(***************************************************************************)
(* Handlers that change one article: updateArticle, delete / restore, lock *)
(* and top.  Each first reads the row and decides, then changes it with    *)
(* another statement; in between, others do the same.  The cache is left   *)
(* out here, see ArticleCache.                                             *)
(***************************************************************************)
EXTENDS Integers, FiniteSets

CONSTANTS Handler,     \* requests at work at the same time
          User,
          Moderator,   \* those with the privileges EditOthers, DeleteOthers, MakeLocked
          MaxRevision,
          MaxDrafts,   \* bound on updates sent
          MaxRev       \* bound on the revision counter

ASSUME ModeratorAssumption == Moderator \subseteq User
ASSUME HandlerAssumption   == IsFiniteSet(Handler) /\ Handler # {}
ASSUME RevisionAssumption  == MaxRevision \in Nat /\ MaxDrafts \in Nat /\ MaxRev \in Nat

VARIABLES row,      \* the article: [content, author, rev, deleted, locked]
          history,  \* the contents kept in the table history
          job,      \* what each handler is doing
          page,     \* what each user's browser shows: is the article deleted
          alert,    \* what a browser was told last: [op, del]
          drafts,   \* updates sent so far; a content is the number of its update
          shown,    \* history: the contents the article ever had
          overlap,  \* history: those written while another update had already read
          late,     \* history: edits by non-moderators since the lock went on
          over      \* history: commits at or past MaxRevision by non-moderators

vars == <<row, history, job, page, alert, drafts, shown, overlap, late, over>>

Idle == [at |-> "idle"]

Row == [content : 0 .. MaxDrafts, author : User, rev : 0 .. MaxRev,
        deleted : BOOLEAN, locked : BOOLEAN]

Update == [at : {"selected", "relocked"}, user : User, content : 0 .. MaxDrafts, seen : Row]
Delete == [at : {"checked"}, user : User, del : BOOLEAN]
Job    == {Idle} \cup Update \cup Delete

TypeOK ==
    /\ row \in Row
    /\ history \subseteq 0 .. MaxDrafts /\ shown \subseteq 0 .. MaxDrafts
    /\ overlap \subseteq shown
    /\ job \in [Handler -> Job]
    /\ page \in [User -> BOOLEAN]
    /\ alert \in [op : {"none", "ok", "refused"}, del : BOOLEAN]
    /\ drafts \in 0 .. MaxDrafts
    /\ late \in Nat /\ over \in Nat

-----------------------------------------------------------------------------
(* updateArticle *)

\* Mutant: the failure of the SELECT is not looked at, and its zero values are used.
SelectIgnoringFailure(h, u) ==
    /\ job[h] = Idle
    /\ drafts < MaxDrafts
    /\ drafts' = drafts + 1
    /\ job' = [job EXCEPT ![h] = [at |-> "selected", user |-> u, content |-> drafts + 1,
                                  seen |-> [content |-> 0, author |-> 0, rev |-> 0,
                                            deleted |-> FALSE, locked |-> FALSE]]]
    /\ UNCHANGED <<row, history, page, alert, shown, overlap, late, over>>

Select(h, u) ==
    /\ job[h] = Idle
    /\ drafts < MaxDrafts
    /\ drafts' = drafts + 1
    /\ job' = [job EXCEPT ![h] = [at |-> "selected", user |-> u, content |-> drafts + 1,
                                  seen |-> row]]
    /\ UNCHANGED <<row, history, page, alert, shown, overlap, late, over>>

Locking == late' = IF row.locked THEN late ELSE 0

\* Mutant: only the row is left as it is, and the handler goes on as before.
LockFullForgotten(h) ==
    /\ job[h].at = "selected"
    /\ job[h].seen.rev >= MaxRevision
    /\ job' = [job EXCEPT ![h].at = "relocked"]
    /\ UNCHANGED <<row, history, page, alert, drafts, shown, overlap, late, over>>

\* An article of too many revisions is locked before anything else is looked at.
LockFull(h) ==
    /\ job[h].at = "selected"
    /\ job[h].seen.rev >= MaxRevision
    /\ row' = [row EXCEPT !.locked = TRUE]
    /\ Locking
    /\ job' = [job EXCEPT ![h].at = "relocked", ![h].seen.locked = TRUE]
    /\ UNCHANGED <<history, page, alert, drafts, shown, overlap, over>>

Decided(h) ==
    \/ job[h].at = "relocked"
    \/ job[h].at = "selected" /\ job[h].seen.rev < MaxRevision

\* Mutant: the lock is not looked at.
MayEditLocked(h) == job[h].seen.author = job[h].user \/ job[h].user \in Moderator

MayEdit(h) ==
    /\ job[h].seen.author = job[h].user \/ job[h].user \in Moderator
    /\ ~job[h].seen.locked \/ job[h].user \in Moderator

\* Not allowed, cooling down, or the statement failed.
Refuse(h) ==
    /\ Decided(h)
    /\ job' = [job EXCEPT ![h] = Idle]
    /\ UNCHANGED <<row, history, page, alert, drafts, shown, overlap, late, over>>

\* Mutant: the history is given the new content.
CommitKeepingNew(h) ==
    /\ Decided(h) /\ MayEdit(h)
    /\ row.rev < MaxRev
    /\ row' = [row EXCEPT !.content = job[h].content, !.author = job[h].user, !.rev = @ + 1]
    /\ history' = history \cup {job[h].content}
    /\ shown' = shown \cup {job[h].content}
    /\ job' = [job EXCEPT ![h] = Idle]
    /\ UNCHANGED <<page, alert, drafts, overlap, late, over>>

\* update_article replaces the row and keeps in the history the title, content and
\* time that were selected, whatever the row holds by now.
Commit(h) ==
    /\ Decided(h) /\ MayEdit(h)
    /\ row.rev < MaxRev
    /\ LET j == job[h]
       IN  /\ row' = [row EXCEPT !.content = j.content, !.author = j.user, !.rev = @ + 1]
           /\ history' = history \cup {j.seen.content}
           /\ shown' = shown \cup {j.content}
           /\ late' = IF row.locked /\ j.user \notin Moderator THEN late + 1 ELSE late
           /\ over' = IF row.rev >= MaxRevision /\ j.user \notin Moderator THEN over + 1 ELSE over
           /\ overlap' = IF \E g \in Handler \ {h} : job[g].at \in {"selected", "relocked"}
                         THEN overlap \cup {j.content} ELSE overlap
    /\ job' = [job EXCEPT ![h] = Idle]
    /\ UNCHANGED <<page, alert, drafts>>

-----------------------------------------------------------------------------
(* Delete, restore, lock *)

\* The browser loads the article and then offers the opposite of what it shows.
Load(u) ==
    /\ page' = [page EXCEPT ![u] = row.deleted]
    /\ UNCHANGED <<row, history, job, alert, drafts, shown, overlap, late, over>>

\* POST_delete_article_ID_ACTION reads author and lock and decides.
CheckDelete(h, u) ==
    /\ job[h] = Idle
    /\ row.author = u \/ u \in Moderator
    /\ ~row.locked \/ u \in Moderator
    /\ job' = [job EXCEPT ![h] = [at |-> "checked", user |-> u, del |-> ~page[u]]]
    /\ UNCHANGED <<row, history, page, alert, drafts, shown, overlap, late, over>>

\* InvertArticleState(id, "deleted"): whatever ACTION asked for, the flag is inverted;
\* the browser reports what it had asked for and loads the article again.
InvertDeleted(h) ==
    /\ job[h].at = "checked"
    /\ row' = [row EXCEPT !.deleted = ~@]
    /\ alert' = [op |-> "ok", del |-> job[h].del]
    /\ page' = [page EXCEPT ![job[h].user] = ~row.deleted]
    /\ job' = [job EXCEPT ![h] = Idle]
    /\ UNCHANGED <<history, drafts, shown, overlap, late, over>>

\* POST_lock_article_ID.
InvertLocked(u) ==
    /\ u \in Moderator
    /\ row' = [row EXCEPT !.locked = ~@]
    /\ Locking
    /\ UNCHANGED <<history, job, page, alert, drafts, shown, overlap, over>>

Init ==
    /\ row \in {[content |-> 0, author |-> u, rev |-> 0, deleted |-> FALSE, locked |-> FALSE]
                   : u \in User}
    /\ history = {} /\ shown = {0} /\ overlap = {}
    /\ job = [h \in Handler |-> Idle]
    /\ page = [u \in User |-> FALSE]
    /\ alert = [op |-> "none", del |-> FALSE]
    /\ drafts = 0 /\ late = 0 /\ over = 0

Next ==
    \/ \E h \in Handler, u \in User : Select(h, u) \/ CheckDelete(h, u)
    \/ \E h \in Handler : LockFull(h) \/ Refuse(h) \/ Commit(h) \/ InvertDeleted(h)
    \/ \E u \in User : Load(u) \/ InvertLocked(u)

Spec == Init /\ [][Next]_vars

-----------------------------------------------------------------------------
(* Properties *)

\* MaxRevision holds for everyone but moderators up to the requests that had read the
\* article before: those at work at the same time, less the one that filled it.
RevisionBound == over <= Cardinality(Handler) - 1

\* Once the lock is on, only updates that had read the article before still change it.
LockStops == late <= Cardinality(Handler)

\* A content that was the article's and is no more is in the history, unless it was
\* written while another update was between its read and its write.
HistoryKeeps == shown \subseteq history \cup {row.content} \cup overlap

\* templates/article.html:89: the browser says that the article has been deleted when
\* that was asked for, and restored when that was.
AlertTells == [][row'.deleted # row.deleted => alert'.del = row'.deleted]_vars
=============================================================================
