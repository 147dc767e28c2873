------------------------- MODULE ArticleCacheProofs -------------------------
(***************************************************************************)
(* The types of ArticleCache, and that every kind of view settles, for any *)
(* number of readers, writers, users, tags, articles and commits.          *)
(***************************************************************************)
EXTENDS ArticleCache, TLAPS

USE DEF Idle

\* What may be held against a view of k.
Excused(k) ==
    Unlucky \cup CASE k[1] = "tag"     -> {"slipped"}
                   [] k[1] = "reply"   -> {"edited"}
                   [] k[1] = "article" -> {"unborn", "relocked"}
                   [] k[1] \in {"ua", "owa"} /\ k # <<"owa", Anyone>> -> {"handed_over"}
                   [] OTHER            -> {}

\* The kinds of lists the writers' expressions name.
Named(k) == k[1] # "owa_but"

\* The view x of k is right, or about to be removed, or something is held against it.
Settled(k, x) == x.view = View(k, x.hid) \/ Pending(k) \/ x.fault # "none"

Fine(k, x) == /\ x.fault \in Excused(k) \cup {"none"}
              /\ Named(k) => Settled(k, x)

CacheInv  == \A k \in DOMAIN cache : Fine(k, cache[k])
ReaderInv == \A r \in Reader : reading[r].at = "answered" => Fine(reading[r].key, reading[r])

\* No row has been written more often than there were commits, and an article that is
\* anonymous now was posted anonymously.
RowInv ==
    \A a \in DOMAIN articles :
        /\ articles[a].rev <= writes /\ articles[a].children <= writes
        /\ articles[a].author = Anyone => articles[a].oauthor = Anyone

\* An update at work knows who wrote its article first, while there is one.
JobInv ==
    \A w \in Writer : job[w].at \in {"selected", "locking"} =>
        /\ job[w].id < nextId
        /\ job[w].id \in DOMAIN articles => articles[job[w].id].oauthor = job[w].oauthor

\* All of it.  The types of the cache are needed because a fault is noted inside an entry.
IInv == TypeOK /\ CacheInv /\ ReaderInv /\ RowInv /\ JobInv
-----------------------------------------------------------------------------
(* Keys and records.                                                       *)

\* What a key is, told by its kind.
LEMMA KeyIs ==
    ASSUME NEW k \in Key
    PROVE  \/ k = <<"index">>
           \/ \E t \in Tag : k = <<"tag", t>>
           \/ \E u \in User : k = <<"ua", u>>
           \/ \E u \in User : k = <<"owa", u>>
           \/ \E u \in User, t \in Tag : k = <<"owa_but", u, t>>
           \/ \E a \in Article : k = <<"reply", a>>
           \/ \E u \in User, a \in Article : k = <<"article", u, a>>
  BY KeyAssumption DEF AllKeys

\* What a writer or a reader is doing, told by "at".
LEMMA JobIs ==
    ASSUME TypeOK, NEW w \in Writer
    PROVE  /\ job[w].at \in {"selected", "locking"} => job[w] \in Updating
           /\ job[w].at = "committed" => job[w] \in Committed
<1>1. job[w] \in {Idle} \cup Updating \cup Committed
  BY DEF TypeOK
<1> QED
  BY <1>1 DEF Updating, Committed

LEMMA ReadingIs ==
    ASSUME TypeOK, NEW r \in Reader
    PROVE  /\ reading[r].at = "missed" => reading[r] \in Missed
           /\ reading[r].at = "answered" => reading[r] \in Answered
<1>1. reading[r] \in {Idle} \cup Missed \cup Answered
  BY DEF TypeOK
<1> QED
  BY <1>1 DEF Missed, Answered

LEMMA ViewType ==
    ASSUME TypeOK, NEW k, NEW hid
    PROVE  View(k, hid) \in Views
<1>1. ASSUME NEW a \in DOMAIN articles PROVE Line(a) \in InList /\ Page(a) \in OnPage
  <2>1. articles[a] \in Row /\ a \in Article
    BY DEF TypeOK
  <2> QED
    BY <2>1 DEF Row, Line, Page, InList, OnPage
<1>2. Listed(k, hid) \subseteq DOMAIN articles
  BY DEF Listed
<1> QED
  BY <1>1, <1>2 DEF View, Views

\* Noting a fault changes nothing else.
LEMMA BlamedIs ==
    ASSUME NEW F, NEW k, NEW x \in Entry \cup Answered, k \in DOMAIN F => F[k] \in Fault
    PROVE  /\ x \in Entry => Blamed(x, k, F) \in Entry
           /\ x \in Answered => Blamed(x, k, F) \in Answered
           /\ Blamed(x, k, F).view = x.view /\ Blamed(x, k, F).hid = x.hid
           /\ x \in Answered => Blamed(x, k, F).at = "answered" /\ Blamed(x, k, F).key = x.key
           /\ Blamed(x, k, F).fault =
                 IF k \in DOMAIN F /\ x.fault = "none" THEN F[k] ELSE x.fault
<1>1. CASE x \in Entry
  BY <1>1 DEF Blamed, Entry, Answered
<1>2. CASE x \in Answered
  BY <1>2 DEF Blamed, Entry, Answered
<1> QED
  BY <1>1, <1>2

-----------------------------------------------------------------------------
(* What the parts of a write do.                                           *)

\* A view of k that a step leaves right, or about to be removed, or answered for by F.
Safe(k, F) ==
    \/ Pending(k)'
    \/ k \in DOMAIN F /\ F[k] # "none"
    \/ ~Pending(k) /\ \A hid : View(k, hid)' = View(k, hid)

Excuses(F) == \A k \in DOMAIN F \cap Key : F[k] \in Excused(k) \cup {"none"}

LEMMA ExcusesAreFaults ==
    ASSUME NEW k PROVE Excused(k) \cup {"none"} \subseteq Fault
  BY DEF Excused, Fault, Unlucky

LEMMA BlameTypes ==
    ASSUME TypeOK, NEW F, Excuses(F), Blame(F)
    PROVE  /\ DOMAIN cache' \subseteq Key /\ cache' \in [DOMAIN cache' -> Entry]
           /\ reading' \in [Reader -> {Idle} \cup Missed \cup Answered]
<1>1. ASSUME NEW k \in DOMAIN cache PROVE Blamed(cache[k], k, F) \in Entry
  <2>1. cache[k] \in Entry /\ k \in Key
    BY DEF TypeOK
  <2> QED
    BY <2>1, BlamedIs, ExcusesAreFaults DEF Excuses
<1>2. ASSUME NEW r \in Reader, reading[r].at = "answered"
      PROVE  Blamed(reading[r], reading[r].key, F) \in Answered
  <2>1. reading[r] \in Answered /\ reading[r].key \in Key
    BY <1>2, ReadingIs DEF Answered
  <2> QED
    BY <2>1, BlamedIs, ExcusesAreFaults DEF Excuses
<1>3. reading \in [Reader -> {Idle} \cup Missed \cup Answered]
  BY DEF TypeOK
<1>4. \A r \in Reader : reading'[r] \in {Idle} \cup Missed \cup Answered
  BY <1>2, <1>3 DEF Blame
<1> QED
  BY <1>1, <1>4 DEF Blame, TypeOK

LEMMA BlameKeeps ==
    ASSUME TypeOK, CacheInv, ReaderInv, NEW F, Excuses(F), Blame(F),
           \A k \in Key : Named(k) => Safe(k, F)
    PROVE  CacheInv' /\ ReaderInv'
<1>1. ASSUME NEW k \in DOMAIN cache PROVE Fine(k, cache[k])'
  <2>1. cache[k] \in Entry /\ k \in Key /\ Fine(k, cache[k])
    BY DEF TypeOK, CacheInv
  <2>2. cache'[k] = Blamed(cache[k], k, F)
    BY DEF Blame
  <2>3. /\ cache'[k].view = cache[k].view /\ cache'[k].hid = cache[k].hid
        /\ cache'[k].fault = IF k \in DOMAIN F /\ cache[k].fault = "none" THEN F[k]
                             ELSE cache[k].fault
    BY <2>1, <2>2, BlamedIs, ExcusesAreFaults DEF Excuses
  <2>4. cache'[k].fault \in Excused(k) \cup {"none"}
    BY <2>1, <2>3 DEF Excuses, Fine
  <2>5. ASSUME Named(k) PROVE Settled(k, cache[k])'
    BY <2>1, <2>3, <2>5 DEF Fine, Settled, Safe
  <2> QED
    BY <2>4, <2>5 DEF Fine, Named, Excused
<1>2. ASSUME NEW r \in Reader, reading'[r].at = "answered"
      PROVE  Fine(reading[r].key, reading[r])'
  <2>1. reading[r].at = "answered" /\ reading'[r] = Blamed(reading[r], reading[r].key, F)
    BY <1>2 DEF Blame
  <2>2. reading[r] \in Answered /\ reading[r].key \in Key /\ Fine(reading[r].key, reading[r])
    BY <2>1, ReadingIs DEF Answered, ReaderInv
  <2> DEFINE k == reading[r].key
  <2>3. /\ reading'[r].view = reading[r].view /\ reading'[r].hid = reading[r].hid
        /\ reading'[r].key = k
        /\ reading'[r].fault = IF k \in DOMAIN F /\ reading[r].fault = "none" THEN F[k]
                               ELSE reading[r].fault
    BY <2>1, <2>2, BlamedIs, ExcusesAreFaults DEF Excuses
  <2>4. reading'[r].fault \in Excused(k) \cup {"none"}
    BY <2>2, <2>3 DEF Excuses, Fine
  <2>5. ASSUME Named(k) PROVE Settled(reading[r].key, reading[r])'
    BY <2>2, <2>3, <2>5 DEF Fine, Settled, Safe
  <2> QED
    BY <2>3, <2>4, <2>5 DEF Fine, Named, Excused
<1> QED
  BY <1>1, <1>2 DEF CacheInv, ReaderInv, Blame

\* A commit: its keys are pending, and those of the others still are.
LEMMA CommitIs ==
    ASSUME TypeOK, NEW w \in Writer, NEW covers \in SUBSET Key, NEW sure \in BOOLEAN,
           job[w].at # "committed", Commit(w, covers, sure)
    PROVE  /\ writes \in Nat /\ writes' = writes + 1 /\ writes' \in 0 .. MaxWrites
           /\ job' \in [Writer -> {Idle} \cup Updating \cup Committed]
           /\ job'[w].at = "committed" /\ \A v \in Writer : v # w => job'[v] = job[v]
           /\ \A k : Pending(k)' <=> k \in covers \/ Pending(k)
<1>1. writes \in Nat /\ writes' = writes + 1 /\ writes' \in 0 .. MaxWrites
  BY BoundsAssumption DEF TypeOK, Commit
<1> DEFINE new == [at |-> "committed", covers |-> covers, sure |-> sure]
<1>2. new \in Committed /\ job' = [job EXCEPT ![w] = new]
  BY DEF Committed, Commit
<1>3. job' \in [Writer -> {Idle} \cup Updating \cup Committed]
  BY <1>2 DEF TypeOK
<1>4. job'[w] = new /\ \A v \in Writer : v # w => job'[v] = job[v]
  BY <1>2 DEF TypeOK
<1>5. \A k : Pending(k)' <=> k \in covers \/ Pending(k)
  BY <1>4 DEF Pending
<1> QED
  BY <1>1, <1>3, <1>4, <1>5

\* Updates at work are not disturbed while ids are not reused and rows keep their first author.
LEMMA JobsKept ==
    ASSUME TypeOK, JobInv, nextId' \in Int, nextId <= nextId',
           \A v \in Writer : job'[v] = job[v] \/ job'[v].at \notin {"selected", "locking"},
           \A a \in DOMAIN articles' : a < nextId =>
               a \in DOMAIN articles /\ articles'[a].oauthor = articles[a].oauthor
    PROVE  JobInv'
<1> SUFFICES ASSUME NEW v \in Writer, job'[v].at \in {"selected", "locking"}
             PROVE  /\ job'[v].id < nextId'
                    /\ job'[v].id \in DOMAIN articles' =>
                           articles'[job'[v].id].oauthor = job'[v].oauthor
  BY DEF JobInv
<1>1. job'[v] = job[v] /\ job[v] \in Updating
  BY JobIs
<1>2. job[v].id \in Int /\ nextId \in Int /\ job[v].id < nextId
  BY <1>1 DEF TypeOK, JobInv, Updating, Article
<1> QED
  BY <1>1, <1>2 DEF JobInv

\* What a list says of an article, and what it chooses it by, are the same after a step.
LooksSame(a) ==
    /\ articles'[a].tag = articles[a].tag /\ articles'[a].author = articles[a].author
    /\ articles'[a].oauthor = articles[a].oauthor /\ articles'[a].parent = articles[a].parent
    /\ articles'[a].flags = articles[a].flags /\ articles'[a].rev = articles[a].rev

\* The keys of the lists a row is in, whatever its flags.
KeysOf(row) == {<<"index">>, <<"tag", row.tag>>, <<"ua", row.author>>, <<"ua", row.oauthor>>,
                <<"owa", row.author>>, <<"owa", row.oauthor>>, <<"owa", Anyone>>,
                <<"reply", row.parent>>}

LEMMA ListsOf ==
    ASSUME NEW k \in Key, Named(k), NEW b, NEW hid
    PROVE  /\ b \in Listed(k, hid) => b \in DOMAIN articles /\ k \in KeysOf(articles[b])
           /\ b \in Listed(k, hid)' => b \in DOMAIN articles' /\ k \in KeysOf(articles'[b])
<1>1. b \in Listed(k, hid) => b \in DOMAIN articles /\ k \in KeysOf(articles[b])
  BY KeyIs DEF Listed, Wrote, Named, KeysOf
<1>2. b \in Listed(k, hid)' => b \in DOMAIN articles' /\ k \in KeysOf(articles'[b])
  BY KeyIs DEF Listed, Wrote, Named, KeysOf
<1> QED
  BY <1>1, <1>2

\* A step that touches the article b only changes the lists b is in.
LEMMA ListKept ==
    ASSUME NEW k \in Key, k[1] # "article", NEW b, NEW hid,
           \A a : a # b => (a \in DOMAIN articles' <=> a \in DOMAIN articles),
           \A a \in DOMAIN articles : a # b => LooksSame(a),
           b \notin Listed(k, hid), b \notin Listed(k, hid)'
    PROVE  View(k, hid)' = View(k, hid)
<1>1. \A c : c # b => (c \in Listed(k, hid)' <=> c \in Listed(k, hid))
  BY KeyIs DEF Listed, Alive, Wrote, LooksSame
<1>2. Listed(k, hid)' = Listed(k, hid)
  BY <1>1
<1>3. \A a \in Listed(k, hid) : a \in DOMAIN articles /\ a # b
  BY DEF Listed
<1>4. \A a \in Listed(k, hid) : Line(a)' = Line(a)
  BY <1>3 DEF Line, LooksSame
<1> QED
  BY <1>2, <1>4 DEF View

LEMMA PageKept ==
    ASSUME NEW k \in Key, k[1] = "article", NEW hid,
           k[3] \in DOMAIN articles' <=> k[3] \in DOMAIN articles,
           k[3] \in DOMAIN articles => articles'[k[3]] = articles[k[3]]
    PROVE  View(k, hid)' = View(k, hid)
<1>1. DOMAIN articles' \cap {k[3]} = DOMAIN articles \cap {k[3]}
  OBVIOUS
<1>2. \A a \in DOMAIN articles \cap {k[3]} : Page(a)' = Page(a)
  BY DEF Page
<1> QED
  BY <1>1, <1>2 DEF View

-----------------------------------------------------------------------------
(* The readers' steps.                                                     *)

LEMMA InitInv == Init => IInv
  BY BoundsAssumption
     DEF Init, IInv, TypeOK, CacheInv, ReaderInv, RowInv, JobInv, Article

\* A step that leaves the table and the jobs alone leaves every view and what is pending.
LEMMA ViewKept ==
    ASSUME UNCHANGED articles, NEW k, NEW hid
    PROVE  View(k, hid)' = View(k, hid)
<1>1. Listed(k, hid)' = Listed(k, hid)
  BY DEF Listed, Alive, Wrote
<1>2. \A a : Line(a)' = Line(a) /\ Page(a)' = Page(a)
  BY DEF Line, Page
<1> QED
  BY <1>1, <1>2 DEF View

LEMMA PendingKept ==
    ASSUME UNCHANGED job, NEW k
    PROVE  Pending(k)' <=> Pending(k)
  BY DEF Pending

\* So do the steps of the readers.
LEMMA RowsAndJobsKept ==
    ASSUME RowInv, JobInv, UNCHANGED <<articles, job, nextId, writes>>
    PROVE  RowInv' /\ JobInv'
  BY DEF RowInv, JobInv

LEMMA MissStep ==
    ASSUME IInv, NEW r \in Reader, NEW k \in Key, Miss(r, k)
    PROVE  IInv'
<1> DEFINE new == [at |-> "missed", key |-> k, hid |-> hidden]
<1>1. new \in Missed
  BY DEF IInv, TypeOK, Missed
<1>2. reading' = [reading EXCEPT ![r] = new]
  BY DEF Miss
<1>3. TypeOK'
  BY <1>1, <1>2 DEF IInv, TypeOK, Miss
<1>4. CacheInv'
  BY ViewKept, PendingKept DEF IInv, Miss, CacheInv, Fine, Settled
<1>5. ReaderInv'
  BY <1>2, ViewKept, PendingKept DEF IInv, TypeOK, Miss, ReaderInv, Fine, Settled
<1> QED
  BY <1>3, <1>4, <1>5, RowsAndJobsKept DEF IInv, Miss

LEMMA AnswerStep ==
    ASSUME IInv, NEW r \in Reader, Answer(r)
    PROVE  IInv'
<1> DEFINE got(view, fault) == [at |-> "answered", key |-> reading[r].key,
                                hid |-> reading[r].hid, view |-> view, fault |-> fault]
<1>1. reading[r] \in Missed /\ UNCHANGED <<articles, hiddenTags, hidden, cache, job, nextId, writes>>
  BY ReadingIs DEF IInv, Answer
<1>2. PICK view, fault :
          /\ reading' = [reading EXCEPT ![r] = got(view, fault)]
          /\ \/ view = View(reading[r].key, reading[r].hid) /\ fault = "none"
             \/ view = {} /\ fault = "failed"
  BY DEF Answer
<1>3. view \in Views
  BY <1>2, ViewType DEF IInv, Views
<1>4. got(view, fault) \in Answered
  BY <1>1, <1>2, <1>3 DEF Missed, Answered, Fault
<1>5. reading' \in [Reader -> {Idle} \cup Missed \cup Answered]
  BY <1>2, <1>4 DEF IInv, TypeOK
<1>6. TypeOK'
  BY <1>1, <1>5 DEF IInv, TypeOK
<1>7. CacheInv'
  BY <1>1, ViewKept, PendingKept DEF IInv, CacheInv, Fine, Settled
<1>8. reading'[r] = got(view, fault) /\ \A q \in Reader : q # r => reading'[q] = reading[q]
  BY <1>2 DEF IInv, TypeOK
<1>9. Fine(reading[r].key, reading[r])'
  BY <1>1, <1>2, <1>8, ViewKept DEF Fine, Settled, Excused, Unlucky
<1>10. ReaderInv'
  BY <1>1, <1>8, <1>9, ViewKept, PendingKept DEF IInv, ReaderInv, Fine, Settled
<1> QED
  BY <1>1, <1>6, <1>7, <1>10, RowsAndJobsKept DEF IInv

LEMMA FillStep ==
    ASSUME IInv, NEW r \in Reader, Fill(r)
    PROVE  IInv'
<1> DEFINE k == reading[r].key
           new == [view |-> reading[r].view, hid |-> reading[r].hid, fault |-> reading[r].fault]
<1>1. /\ reading[r] \in Answered /\ Fine(reading[r].key, reading[r])
      /\ UNCHANGED <<articles, hiddenTags, hidden, job, nextId, writes>>
  BY ReadingIs DEF IInv, Fill, ReaderInv
<1>2. k \in Key /\ new \in Entry
  BY <1>1 DEF Answered, Entry
<1>3. cache' = [j \in DOMAIN cache \cup {k} |-> IF j = k THEN new ELSE cache[j]]
  BY DEF Fill
<1>4. reading' \in [Reader -> {Idle} \cup Missed \cup Answered]
      /\ \A q \in Reader : reading'[q] = IF q = r THEN Idle ELSE reading[q]
  BY DEF IInv, TypeOK, Fill
<1>5. \A j \in DOMAIN cache : cache[j] \in Entry
  BY DEF IInv, TypeOK
<1>6. DOMAIN cache' \subseteq Key /\ cache' \in [DOMAIN cache' -> Entry]
  BY <1>2, <1>3, <1>5 DEF IInv, TypeOK
<1>7. TypeOK'
  BY <1>1, <1>4, <1>6 DEF IInv, TypeOK
<1>8. ASSUME NEW j \in DOMAIN cache', j = k PROVE Fine(j, cache[j])'
  BY <1>1, <1>3, <1>8, ViewKept, PendingKept DEF Fine, Settled
<1>9. ASSUME NEW j \in DOMAIN cache', j # k PROVE Fine(j, cache[j])'
  BY <1>1, <1>3, <1>9, ViewKept, PendingKept DEF IInv, CacheInv, Fine, Settled
<1>10. ReaderInv'
  BY <1>1, <1>4, ViewKept, PendingKept DEF IInv, ReaderInv, Fine, Settled
<1>11. CacheInv'
  BY <1>8, <1>9 DEF CacheInv
<1> QED
  BY <1>1, <1>7, <1>10, <1>11, RowsAndJobsKept DEF IInv

LEMMA ForgetStep ==
    ASSUME IInv, NEW k \in Key, Forget(k)
    PROVE  IInv'
<1>1. UNCHANGED <<articles, hiddenTags, hidden, reading, job, nextId, writes>>
  BY DEF Forget
<1>2. TypeOK'
  BY DEF IInv, TypeOK, Forget
<1>3. CacheInv' /\ ReaderInv'
  BY <1>1, ViewKept, PendingKept DEF IInv, Forget, CacheInv, ReaderInv, Fine, Settled
<1> QED
  BY <1>1, <1>2, <1>3, RowsAndJobsKept DEF IInv

LEMMA TagsUpdateStep ==
    ASSUME IInv, TagsUpdate
    PROVE  IInv'
<1>1. TypeOK'
  BY DEF IInv, TypeOK, TagsUpdate
<1>2. CacheInv' /\ ReaderInv'
  BY ViewKept, PendingKept DEF IInv, TagsUpdate, CacheInv, ReaderInv, Fine, Settled
<1> QED
  BY <1>1, <1>2, RowsAndJobsKept DEF IInv, TagsUpdate

-----------------------------------------------------------------------------
(* The writers' steps that remove or commit nothing.                       *)

UpdateSelectNew(u, a, t) == [at |-> "selected", id |-> a, user |-> u, tag |-> t,
                             old |-> articles[a].tag, oauthor |-> articles[a].oauthor,
                             full |-> articles[a].rev >= MaxRevision]

LEMMA UpdateSelectStep ==
    ASSUME IInv, NEW w \in Writer, NEW u \in User, NEW a \in Article, NEW t \in Tag,
           UpdateSelect(w, u, a, t)
    PROVE  IInv'
<1> DEFINE new == UpdateSelectNew(u, a, t)
<1>1. articles[a] \in Row /\ a \in DOMAIN articles /\ a < nextId
  BY DEF UpdateSelect, IInv, TypeOK
<1>2. new \in Updating
  BY <1>1 DEF Row, Updating, UpdateSelectNew
<1>3. job' = [job EXCEPT ![w] = new]
  BY DEF UpdateSelect, UpdateSelectNew
<1>4. /\ job' \in [Writer -> {Idle} \cup Updating \cup Committed]
      /\ job'[w] = new /\ \A v \in Writer : v # w => job'[v] = job[v]
  BY <1>2, <1>3 DEF IInv, TypeOK
<1>5. new.at = "selected" /\ new.id = a /\ new.oauthor = articles[a].oauthor
  BY DEF UpdateSelectNew
<1>6. TypeOK'
  BY <1>4 DEF IInv, TypeOK, UpdateSelect
<1>7. \A k : Pending(k)' <=> Pending(k)
  BY <1>4, <1>5 DEF Pending, UpdateSelect
<1>8. CacheInv' /\ ReaderInv'
  BY <1>7, ViewKept DEF IInv, UpdateSelect, CacheInv, ReaderInv, Fine, Settled
<1>9. RowInv'
  BY DEF IInv, RowInv, UpdateSelect
<1>10. JobInv'
  BY <1>1, <1>4, <1>5 DEF IInv, JobInv, UpdateSelect
<1> QED
  BY <1>6, <1>8, <1>9, <1>10 DEF IInv

LEMMA UpdateRefusedStep ==
    ASSUME IInv, NEW w \in Writer, UpdateRefused(w)
    PROVE  IInv'
<1>1. /\ job' \in [Writer -> {Idle} \cup Updating \cup Committed]
      /\ job'[w] = Idle /\ \A v \in Writer : v # w => job'[v] = job[v]
  BY DEF IInv, TypeOK, UpdateRefused
<1>2. TypeOK'
  BY <1>1 DEF IInv, TypeOK, UpdateRefused
<1>3. \A k : Pending(k)' <=> Pending(k)
  BY <1>1 DEF Pending, UpdateRefused, CanFinish
<1>4. CacheInv' /\ ReaderInv'
  BY <1>3, ViewKept DEF IInv, UpdateRefused, CacheInv, ReaderInv, Fine, Settled
<1>5. RowInv'
  BY DEF IInv, RowInv, UpdateRefused
<1>6. JobInv'
  BY <1>1 DEF IInv, JobInv, UpdateRefused
<1> QED
  BY <1>2, <1>4, <1>5, <1>6 DEF IInv

\* The lock shows on the article's page only, which is blamed.
LEMMA LockFullStep ==
    ASSUME IInv, NEW w \in Writer, LockFull(w)
    PROVE  IInv'
<1> DEFINE a == job[w].id
           F == Because("relocked", ArticleKeys(a))
<1>1. job[w] \in Updating /\ UNCHANGED <<hiddenTags, hidden, nextId, writes>>
  BY JobIs DEF IInv, LockFull
<1>2. [job[w] EXCEPT !.at = "locking", !.full = FALSE] \in Updating
  BY <1>1 DEF Updating
<1>3. job' = [job EXCEPT ![w] = [job[w] EXCEPT !.at = "locking", !.full = FALSE]]
  BY DEF IInv, TypeOK, LockFull
<1>4. /\ job' \in [Writer -> {Idle} \cup Updating \cup Committed]
      /\ job'[w] = [job[w] EXCEPT !.at = "locking", !.full = FALSE]
      /\ \A v \in Writer : v # w => job'[v] = job[v]
  BY <1>2, <1>3 DEF IInv, TypeOK
<1>5. job'[w].at = "locking" /\ job'[w].id = a /\ job'[w].oauthor = job[w].oauthor
  BY <1>1, <1>4 DEF Updating
<1>6. \A k : Pending(k)' <=> Pending(k)
  BY <1>4, <1>5 DEF Pending, LockFull
<1>7. CASE UNCHANGED <<articles, cache, reading>>
  <2>1. TypeOK'
    BY <1>1, <1>4, <1>7 DEF IInv, TypeOK
  <2>2. CacheInv' /\ ReaderInv'
    BY <1>1, <1>6, <1>7, ViewKept DEF IInv, CacheInv, ReaderInv, Fine, Settled
  <2>3. RowInv' /\ JobInv'
    BY <1>1, <1>4, <1>5, <1>7 DEF IInv, RowInv, JobInv, LockFull
  <2> QED
    BY <2>1, <2>2, <2>3 DEF IInv
<1>8. CASE /\ a \in DOMAIN articles
           /\ articles' = [articles EXCEPT ![a].flags = @ \cup {"locked"}]
           /\ Blame(F)
  <2> DEFINE row == [articles[a] EXCEPT !.flags = @ \cup {"locked"}]
  <2>1. articles[a] \in Row
    BY <1>8 DEF IInv, TypeOK
  <2>2. row \in Row
    BY <2>1 DEF Row, Flag
  <2>3. /\ articles' = [articles EXCEPT ![a] = row]
    BY <1>8
  <2>4. /\ DOMAIN articles' = DOMAIN articles
        /\ articles'[a] = row /\ \A b \in DOMAIN articles : b # a => articles'[b] = articles[b]
    BY <1>8, <2>3 DEF IInv, TypeOK
  <2>5. articles' \in [DOMAIN articles -> Row]
    BY <2>2, <2>3 DEF IInv, TypeOK
  <2>6. /\ row.tag = articles[a].tag /\ row.author = articles[a].author
        /\ row.oauthor = articles[a].oauthor /\ row.parent = articles[a].parent
        /\ row.rev = articles[a].rev /\ row.children = articles[a].children
        /\ row.flags = articles[a].flags \cup {"locked"}
    BY <2>1 DEF Row
  <2>7. Excuses(F)
    BY DEF Excuses, Because, ArticleKeys, Excused
  <2>8. TypeOK'
    BY <1>1, <1>4, <1>8, <2>4, <2>5, <2>7, BlameTypes DEF IInv, TypeOK
  <2>9. ASSUME NEW k \in Key, Named(k) PROVE Safe(k, F)
    <3>1. CASE k[1] # "article"
      <4>1. \A b \in DOMAIN articles :
               /\ articles'[b].tag = articles[b].tag /\ articles'[b].parent = articles[b].parent
               /\ Alive(b)' <=> Alive(b)
               /\ \A u : Wrote(u, b)' <=> Wrote(u, b)
        <5>1. ASSUME NEW b \in DOMAIN articles
              PROVE  /\ articles'[b].tag = articles[b].tag /\ articles'[b].parent = articles[b].parent
                     /\ articles'[b].author = articles[b].author
                     /\ articles'[b].oauthor = articles[b].oauthor
                     /\ articles'[b].flags \in {articles[b].flags, articles[b].flags \cup {"locked"}}
          BY <2>4, <2>6
        <5> QED
          BY <2>4, <5>1 DEF Alive, Wrote
      <4>2. \A hid : Listed(k, hid)' = Listed(k, hid)
        BY <2>4, <4>1, KeyIs DEF Listed
      <4>3. \A b \in DOMAIN articles : Line(b)' = Line(b)
        BY <2>4, <2>6 DEF Line
      <4>4. \A hid : Listed(k, hid) \subseteq DOMAIN articles
        BY DEF Listed
      <4>5. \A hid : View(k, hid)' = View(k, hid)
        BY <3>1, <4>2, <4>3, <4>4 DEF View
      <4> QED
        BY <4>5, <1>6 DEF Safe
    <3>2. CASE k[1] = "article" /\ k[3] = a
      BY <3>2 DEF Safe, Because, ArticleKeys
    <3>3. CASE k[1] = "article" /\ k[3] # a
      <4>1. \A hid : View(k, hid)' = View(k, hid)
        BY <2>4, <3>3, PageKept
      <4> QED
        BY <4>1, <1>6 DEF Safe
    <3> QED
      BY <3>1, <3>2, <3>3
  <2>10. CacheInv' /\ ReaderInv'
    BY <1>8, <2>7, <2>9, BlameKeeps DEF IInv
  <2>11. RowInv'
    <3>1. RowInv
      BY DEF IInv
    <3>2. \A b \in DOMAIN articles : /\ articles'[b].rev = articles[b].rev
                                     /\ articles'[b].children = articles[b].children
                                     /\ articles'[b].author = articles[b].author
                                     /\ articles'[b].oauthor = articles[b].oauthor
      BY <2>4, <2>6
    <3> QED
      BY <1>1, <2>4, <3>1, <3>2 DEF RowInv
  <2>12. JobInv'
    <3>1. \A v \in Writer : job'[v].at \in {"selected", "locking"} =>
             /\ job[v].at \in {"selected", "locking"} /\ job'[v].id = job[v].id
             /\ job'[v].oauthor = job[v].oauthor
      BY <1>4, <1>5 DEF LockFull
    <3>2. \A b \in DOMAIN articles : articles'[b].oauthor = articles[b].oauthor
      BY <2>4, <2>6
    <3> QED
      BY <1>1, <2>4, <3>1, <3>2 DEF IInv, JobInv
  <2> QED
    BY <2>8, <2>10, <2>11, <2>12 DEF IInv
<1> QED
  BY <1>7, <1>8 DEF LockFull

-----------------------------------------------------------------------------
(* The commits.                                                            *)

LEMMA AllPending ==
    ASSUME TypeOK, CacheInv, ReaderInv, UNCHANGED <<cache, reading>>, \A k \in Key : Pending(k)'
    PROVE  CacheInv' /\ ReaderInv'
<1>1. \A k \in DOMAIN cache : k \in Key
  BY DEF TypeOK
<1>2. \A r \in Reader : reading[r].at = "answered" => reading[r].key \in Key
  BY ReadingIs DEF Answered
<1> QED
  BY <1>1, <1>2 DEF CacheInv, ReaderInv, Fine, Settled

LEMMA DeleteRowStep ==
    ASSUME IInv, NEW w \in Writer, NEW a \in Article, DeleteRow(w, a)
    PROVE  IInv'
<1>1. job[w].at # "committed" /\ UNCHANGED <<hiddenTags, hidden, cache, reading, nextId>>
  BY DEF DeleteRow
<1>2. Commit(w, Key, TRUE)
  BY DEF DeleteRow
<1>3. /\ writes \in Nat /\ writes' = writes + 1 /\ writes' \in 0 .. MaxWrites
      /\ job' \in [Writer -> {Idle} \cup Updating \cup Committed]
      /\ job'[w].at = "committed" /\ \A v \in Writer : v # w => job'[v] = job[v]
      /\ \A k : Pending(k)' <=> k \in Key \/ Pending(k)
  BY <1>1, <1>2, CommitIs DEF IInv
<1>4. articles' = [b \in DOMAIN articles \ {a} |-> articles[b]]
  BY DEF DeleteRow
<1>5. TypeOK'
  BY <1>1, <1>3, <1>4 DEF IInv, TypeOK
<1>6. CacheInv' /\ ReaderInv'
  BY <1>1, <1>3, AllPending DEF IInv
<1>7. \A b \in DOMAIN articles : articles[b].rev \in Nat /\ articles[b].children \in Nat
  BY DEF IInv, TypeOK, Row
<1>8. RowInv'
  BY <1>3, <1>4, <1>7 DEF IInv, RowInv
<1>9. nextId \in Int
  BY DEF IInv, TypeOK
<1>10. JobInv'
  BY <1>1, <1>3, <1>4, <1>9, JobsKept DEF IInv
<1> QED
  BY <1>5, <1>6, <1>8, <1>10 DEF IInv

LEMMA HideTagsStep ==
    ASSUME IInv, NEW w \in Writer, NEW T \in SUBSET Tag, HideTags(w, T)
    PROVE  IInv'
<1>1. job[w].at # "committed" /\ UNCHANGED <<articles, hidden, cache, reading, nextId>>
  BY DEF HideTags
<1>2. Commit(w, Key, FALSE) /\ hiddenTags' = T
  BY DEF HideTags
<1>3. /\ writes \in Nat /\ writes' = writes + 1 /\ writes' \in 0 .. MaxWrites
      /\ job' \in [Writer -> {Idle} \cup Updating \cup Committed]
      /\ job'[w].at = "committed" /\ \A v \in Writer : v # w => job'[v] = job[v]
      /\ \A k : Pending(k)' <=> k \in Key \/ Pending(k)
  BY <1>1, <1>2, CommitIs DEF IInv
<1>4. TypeOK'
  BY <1>1, <1>2, <1>3 DEF IInv, TypeOK
<1>5. CacheInv' /\ ReaderInv'
  BY <1>1, <1>3, AllPending DEF IInv
<1>6. \A b \in DOMAIN articles : articles[b].rev \in Nat /\ articles[b].children \in Nat
  BY DEF IInv, TypeOK, Row
<1>7. RowInv'
  BY <1>1, <1>3, <1>6 DEF IInv, RowInv
<1>8. nextId \in Int
  BY DEF IInv, TypeOK
<1>9. JobInv'
  BY <1>1, <1>3, <1>8, JobsKept DEF IInv
<1> QED
  BY <1>4, <1>5, <1>7, <1>9 DEF IInv

\* One row changes: InvertCommit and UpdateCommit have this in common.
LEMMA RowChanges ==
    ASSUME TypeOK, NEW a \in DOMAIN articles, NEW row \in Row,
           articles' = [articles EXCEPT ![a] = row]
    PROVE  /\ DOMAIN articles' = DOMAIN articles /\ articles' \in [DOMAIN articles' -> Row]
           /\ articles'[a] = row
           /\ \A b \in DOMAIN articles : b # a => articles'[b] = articles[b]
           /\ \A b \in DOMAIN articles : b # a => LooksSame(b)
  BY DEF TypeOK, LooksSame

LEMMA InvertCommitStep ==
    ASSUME IInv, NEW w \in Writer, NEW a \in Article, NEW f \in Flag, InvertCommit(w, a, f)
    PROVE  IInv'
<1> DEFINE old == articles[a]
           row == [old EXCEPT !.flags = IF f \in @ THEN @ \ {f} ELSE @ \cup {f}]
           covers == CoversInvert(old.author, old.oauthor, old.tag, a)
           F == Because("edited", {<<"reply", old.parent>>})
<1>1. /\ job[w].at # "committed" /\ UNCHANGED <<hiddenTags, hidden, nextId>>
      /\ a \in DOMAIN articles /\ old \in Row /\ Blame(F)
  BY DEF InvertCommit, IInv, TypeOK
<1>2. covers \in SUBSET Key
  BY DEF CoversInvert
<1>3. Commit(w, covers, FALSE)
  BY DEF InvertCommit
<1>4. /\ writes \in Nat /\ writes' = writes + 1 /\ writes' \in 0 .. MaxWrites
      /\ job' \in [Writer -> {Idle} \cup Updating \cup Committed]
      /\ job'[w].at = "committed" /\ \A v \in Writer : v # w => job'[v] = job[v]
      /\ \A k : Pending(k)' <=> k \in covers \/ Pending(k)
  BY <1>1, <1>2, <1>3, CommitIs DEF IInv
<1>5. articles' = [articles EXCEPT ![a] = row]
  BY <1>1 DEF InvertCommit
<1>6. row \in Row
  BY <1>1 DEF Row
<1>7. /\ row.tag = old.tag /\ row.author = old.author /\ row.oauthor = old.oauthor
      /\ row.parent = old.parent /\ row.rev = old.rev /\ row.children = old.children
  BY <1>1 DEF Row
<1>8. /\ DOMAIN articles' = DOMAIN articles /\ articles' \in [DOMAIN articles' -> Row]
      /\ articles'[a] = row
      /\ \A b \in DOMAIN articles : b # a => articles'[b] = articles[b]
      /\ \A b \in DOMAIN articles : b # a => LooksSame(b)
  BY <1>1, <1>5, <1>6, RowChanges DEF IInv
<1>9. Excuses(F)
  BY DEF Excuses, Because, Excused
<1>10. TypeOK'
  BY <1>1, <1>4, <1>8, <1>9, BlameTypes DEF IInv, TypeOK
<1>11. ASSUME NEW k \in Key, Named(k), k \notin covers, k \notin DOMAIN F
       PROVE  \A hid : View(k, hid)' = View(k, hid)
  <2>1. CASE k[1] = "article"
    <3>1. k[3] # a
      BY <1>11, <2>1 DEF CoversInvert
    <3> QED
      BY <1>8, <2>1, <3>1, PageKept
  <2>2. CASE k[1] # "article"
    <3>1. KeysOf(row) = KeysOf(old)
      BY <1>7 DEF KeysOf
    <3>2. k \notin KeysOf(old)
      BY <1>11 DEF KeysOf, CoversInvert, Because
    <3>3. \A hid : a \notin Listed(k, hid) /\ a \notin Listed(k, hid)'
      BY <1>8, <1>11, <3>1, <3>2, ListsOf
    <3> QED
      BY <1>8, <2>2, <3>3, ListKept
  <2> QED
    BY <2>1, <2>2
<1>12. \A k \in Key : Named(k) => Safe(k, F)
  BY <1>4, <1>11 DEF Safe, Because
<1>13. CacheInv' /\ ReaderInv'
  BY <1>1, <1>9, <1>12, BlameKeeps DEF IInv
<1>14. \A b \in DOMAIN articles : articles[b].rev \in Nat /\ articles[b].children \in Nat
  BY DEF IInv, TypeOK, Row
<1>15. RowInv'
  <2>1. ASSUME NEW b \in DOMAIN articles
        PROVE  /\ articles'[b].rev = articles[b].rev /\ articles'[b].children = articles[b].children
               /\ articles'[b].author = articles[b].author
               /\ articles'[b].oauthor = articles[b].oauthor
    BY <1>7, <1>8
  <2> QED
    BY <1>4, <1>8, <1>14, <2>1 DEF IInv, RowInv
<1>16. nextId \in Int
  BY DEF IInv, TypeOK
<1>17. JobInv'
  <2>1. \A b \in DOMAIN articles : articles'[b].oauthor = articles[b].oauthor
    BY <1>7, <1>8
  <2>2. \A v \in Writer : job'[v] = job[v] \/ job'[v].at \notin {"selected", "locking"}
    BY <1>4
  <2> QED
    BY <1>1, <1>8, <1>16, <2>1, <2>2, JobsKept DEF IInv
<1> QED
  BY <1>10, <1>13, <1>15, <1>17 DEF IInv

\* The list of a tag between two updates, of an author who is not the first, and of what
\* the article replies to.
LEMMA WhyLeftIs ==
    ASSUME NEW row \in Row, NEW j \in Updating, NEW k \in Key
    PROVE  /\ WhyLeft(k, row, j) \in Excused(k) \cup {"none"}
           /\ k = <<"tag", row.tag>> /\ row.tag \notin {j.tag, j.old} => WhyLeft(k, row, j) # "none"
           /\ /\ k \in {<<"ua", row.author>>, <<"owa", row.author>>}
              /\ row.author \notin {Anyone, j.user, j.oauthor}
              => WhyLeft(k, row, j) # "none"
           /\ k = <<"reply", row.parent>> => WhyLeft(k, row, j) # "none"
<1>1. CASE k = <<"tag", row.tag>>
  BY <1>1 DEF WhyLeft, Excused, Unlucky
<1>2. CASE k = <<"ua", row.author>>
  BY <1>2 DEF WhyLeft, Excused, Unlucky
<1>3. CASE k = <<"owa", row.author>>
  BY <1>3 DEF WhyLeft, Excused, Unlucky
<1>4. CASE k = <<"reply", row.parent>>
  BY <1>4 DEF WhyLeft, Excused, Unlucky
<1>5. CASE k \notin {<<"tag", row.tag>>, <<"ua", row.author>>, <<"owa", row.author>>,
                     <<"reply", row.parent>>}
  BY <1>5 DEF WhyLeft
<1> QED
  BY <1>1, <1>2, <1>3, <1>4, <1>5

LEMMA UpdateCommitStep ==
    ASSUME IInv, NEW w \in Writer, UpdateCommit(w)
    PROVE  IInv'
<1> DEFINE j == job[w]
           a == j.id
           old == articles[a]
           row == [old EXCEPT !.tag = j.tag, !.author = j.user, !.rev = @ + 1]
           covers == CoversUpdate(j.user, j.oauthor, j.tag, j.old, a)
           F == [k \in Key |-> WhyLeft(k, old, j)]
<1>1. /\ j \in Updating /\ UNCHANGED <<hiddenTags, hidden, nextId>>
      /\ a \in DOMAIN articles /\ old \in Row /\ j.user # Anyone
  BY JobIs DEF UpdateCommit, CanFinish, IInv, TypeOK
<1>2. covers \in SUBSET Key /\ j.at # "committed"
  BY DEF CoversUpdate, UpdateCommit, CanFinish
<1>3. Commit(w, covers, FALSE) /\ Blame(F)
  BY DEF UpdateCommit
<1>4. /\ writes \in Nat /\ writes' = writes + 1 /\ writes' \in 0 .. MaxWrites
      /\ job' \in [Writer -> {Idle} \cup Updating \cup Committed]
      /\ job'[w].at = "committed" /\ \A v \in Writer : v # w => job'[v] = job[v]
      /\ \A k : Pending(k)' <=> k \in covers \/ Pending(k)
  BY <1>2, <1>3, CommitIs DEF IInv
<1>5. articles' = [articles EXCEPT ![a] = row]
  BY <1>1 DEF UpdateCommit
<1>6. /\ old.rev <= writes /\ old.children <= writes /\ old.oauthor = j.oauthor
      /\ old.author = Anyone => old.oauthor = Anyone
  BY <1>1 DEF IInv, RowInv, JobInv, UpdateCommit, CanFinish
<1>7. /\ old.rev \in Nat /\ old.children \in Nat /\ old.rev + 1 \in 0 .. MaxWrites
      /\ j.tag \in Tag /\ j.user \in User
  BY <1>1, <1>4, <1>6, BoundsAssumption DEF Row, Updating
<1>8. row \in Row
  BY <1>1, <1>7 DEF Row
<1>9. /\ row.tag = j.tag /\ row.author = j.user /\ row.oauthor = old.oauthor
      /\ row.parent = old.parent /\ row.rev = old.rev + 1 /\ row.children = old.children
  BY <1>1 DEF Row
<1>10. /\ DOMAIN articles' = DOMAIN articles /\ articles' \in [DOMAIN articles' -> Row]
       /\ articles'[a] = row
       /\ \A b \in DOMAIN articles : b # a => articles'[b] = articles[b]
       /\ \A b \in DOMAIN articles : b # a => LooksSame(b)
  BY <1>1, <1>5, <1>8, RowChanges DEF IInv
<1>11. Excuses(F)
  BY <1>1, WhyLeftIs DEF Excuses
<1>12. TypeOK'
  BY <1>1, <1>3, <1>4, <1>10, <1>11, BlameTypes DEF IInv, TypeOK
<1>13. ASSUME NEW k \in Key, k \notin covers, WhyLeft(k, old, j) = "none"
       PROVE  k \notin KeysOf(old) \cup KeysOf(row)
  <2>1. k \notin {<<"index">>, <<"tag", j.tag>>, <<"tag", j.old>>, <<"ua", j.user>>,
                  <<"ua", j.oauthor>>, <<"owa", j.user>>, <<"owa", j.oauthor>>, <<"owa", Anyone>>}
    BY <1>13 DEF CoversUpdate
  <2>2. k # <<"reply", old.parent>>
    BY <1>1, <1>13, WhyLeftIs
  <2>3. k # <<"tag", old.tag>>
    BY <1>1, <1>13, <2>1, WhyLeftIs
  <2>4. old.author = Anyone => old.author = j.oauthor
    BY <1>6
  <2>5. k \notin {<<"ua", old.author>>, <<"owa", old.author>>}
    BY <1>1, <1>13, <2>1, <2>4, WhyLeftIs
  <2> QED
    BY <1>6, <1>9, <2>1, <2>2, <2>3, <2>5 DEF KeysOf
<1>14. ASSUME NEW k \in Key, Named(k), k \notin covers, WhyLeft(k, old, j) = "none"
       PROVE  \A hid : View(k, hid)' = View(k, hid)
  <2>1. CASE k[1] = "article"
    <3>1. k[3] # a
      BY <1>14, <2>1 DEF CoversUpdate
    <3> QED
      BY <1>10, <2>1, <3>1, PageKept
  <2>2. CASE k[1] # "article"
    <3>1. \A hid : a \notin Listed(k, hid) /\ a \notin Listed(k, hid)'
      BY <1>10, <1>13, <1>14, ListsOf
    <3> QED
      BY <1>10, <2>2, <3>1, ListKept
  <2> QED
    BY <2>1, <2>2
<1>15. \A k \in Key : Named(k) => Safe(k, F)
  BY <1>4, <1>14 DEF Safe
<1>16. CacheInv' /\ ReaderInv'
  BY <1>3, <1>11, <1>15, BlameKeeps DEF IInv
<1>17. \A b \in DOMAIN articles : articles[b].rev \in Nat /\ articles[b].children \in Nat
  BY DEF IInv, TypeOK, Row
<1>18. RowInv'
  <2>1. ASSUME NEW b \in DOMAIN articles, b # a
        PROVE  /\ articles'[b].rev <= writes' /\ articles'[b].children <= writes'
               /\ articles'[b].author = Anyone => articles'[b].oauthor = Anyone
    BY <1>4, <1>10, <1>17, <2>1 DEF IInv, RowInv
  <2>2. /\ row.rev <= writes' /\ row.children <= writes'
        /\ row.author = Anyone => row.oauthor = Anyone
    BY <1>1, <1>4, <1>6, <1>7, <1>9
  <2> QED
    BY <1>10, <2>1, <2>2 DEF RowInv
<1>19. nextId \in Int
  BY DEF IInv, TypeOK
<1>20. JobInv'
  <2>1. \A b \in DOMAIN articles : articles'[b].oauthor = articles[b].oauthor
    BY <1>9, <1>10
  <2>2. \A v \in Writer : job'[v] = job[v] \/ job'[v].at \notin {"selected", "locking"}
    BY <1>4
  <2> QED
    BY <1>1, <1>10, <1>19, <2>1, <2>2, JobsKept DEF IInv
<1> QED
  BY <1>12, <1>16, <1>18, <1>20 DEF IInv

LEMMA NewCommitStep ==
    ASSUME IInv, NEW w \in Writer, NEW u \in User, NEW t \in Tag,
           NEW p \in {0} \cup DOMAIN articles, NewCommit(w, u, t, p)
    PROVE  IInv'
<1> DEFINE id == nextId
           row == [tag |-> t, author |-> u, oauthor |-> u, parent |-> p,
                   flags |-> {}, rev |-> 0, children |-> 0]
           covers == CoversNew(u, t, p)
           F == Because("unborn", ArticleKeys(id))
<1>1. /\ job[w].at # "committed" /\ UNCHANGED <<hiddenTags, hidden>>
      /\ id \in Article /\ nextId' = id + 1 /\ Blame(F)
  BY DEF NewCommit, AddArticle
<1>2. covers \in SUBSET Key /\ Commit(w, covers, FALSE)
  BY DEF CoversNew, NewCommit
<1>3. /\ writes \in Nat /\ writes' = writes + 1 /\ writes' \in 0 .. MaxWrites
      /\ job' \in [Writer -> {Idle} \cup Updating \cup Committed]
      /\ job'[w].at = "committed" /\ \A v \in Writer : v # w => job'[v] = job[v]
      /\ \A k : Pending(k)' <=> k \in covers \/ Pending(k)
  BY <1>1, <1>2, CommitIs DEF IInv
<1>4. /\ id \in Nat /\ id \notin DOMAIN articles /\ DOMAIN articles \subseteq Article
      /\ \A b \in DOMAIN articles : articles[b] \in Row /\ b < id
  BY <1>1 DEF IInv, TypeOK, Article
<1>5. p \in 0 .. MaxArticles
  BY <1>4, BoundsAssumption DEF Article
<1>6. row \in Row
  BY <1>5, BoundsAssumption DEF Row
<1>7. /\ DOMAIN articles' = DOMAIN articles \cup {id} /\ articles'[id] = row
      /\ articles' = [b \in DOMAIN articles' |-> articles'[b]]
      /\ \A b \in DOMAIN articles : b # p => articles'[b] = articles[b]
      /\ p \in DOMAIN articles => articles'[p] = [articles[p] EXCEPT !.children = @ + 1]
  BY <1>4 DEF NewCommit, AddArticle
<1>8. \A b \in DOMAIN articles :
          articles[b].rev \in Nat /\ articles[b].children \in Nat /\ articles[b].children <= writes
  BY <1>4 DEF Row, IInv, RowInv
<1>9. ASSUME p \in DOMAIN articles
      PROVE  /\ articles'[p] \in Row /\ LooksSame(p)
             /\ articles'[p].children = articles[p].children + 1
  <2>1. articles[p].children + 1 \in 0 .. MaxWrites
    BY <1>3, <1>8, <1>9, BoundsAssumption
  <2>2. articles[p] \in Row /\ articles'[p] = [articles[p] EXCEPT !.children = articles[p].children + 1]
    BY <1>4, <1>7, <1>9
  <2> QED
    BY <2>1, <2>2 DEF Row, LooksSame
<1>10. \A b \in DOMAIN articles : LooksSame(b)
  BY <1>7, <1>9 DEF LooksSame
<1>11. articles' \in [DOMAIN articles' -> Row]
  BY <1>4, <1>6, <1>7, <1>9
<1>12. Excuses(F)
  BY DEF Excuses, Because, ArticleKeys, Excused
<1>13. TypeOK'
  BY <1>1, <1>3, <1>4, <1>7, <1>11, <1>12, BlameTypes, BoundsAssumption DEF IInv, TypeOK, Article
<1>14. ASSUME NEW k \in Key, Named(k), k \notin covers, k \notin DOMAIN F
       PROVE  \A hid : View(k, hid)' = View(k, hid)
  <2>1. CASE k[1] = "article"
    <3>1. k[3] # id /\ k[3] # p
      BY <1>14, <2>1 DEF CoversNew, Because, ArticleKeys
    <3> QED
      BY <1>7, <2>1, <3>1, PageKept
  <2>2. CASE k[1] # "article"
    <3>1. row.tag = t /\ row.author = u /\ row.oauthor = u /\ row.parent = p
      OBVIOUS
    <3>2. k \notin KeysOf(row)
      BY <1>14, <3>1 DEF KeysOf, CoversNew
    <3>3. \A hid : id \notin Listed(k, hid) /\ id \notin Listed(k, hid)'
      BY <1>4, <1>7, <1>14, <3>2, ListsOf
    <3> QED
      BY <1>7, <1>10, <2>2, <3>3, ListKept
  <2> QED
    BY <2>1, <2>2
<1>15. \A k \in Key : Named(k) => Safe(k, F)
  BY <1>3, <1>14 DEF Safe, Because
<1>16. CacheInv' /\ ReaderInv'
  BY <1>1, <1>12, <1>15, BlameKeeps DEF IInv
<1>17. RowInv'
  <2>1. ASSUME NEW b \in DOMAIN articles
        PROVE  /\ articles'[b].rev <= writes' /\ articles'[b].children <= writes'
               /\ articles'[b].author = Anyone => articles'[b].oauthor = Anyone
    <3>1. articles'[b].children \in {articles[b].children, articles[b].children + 1}
      BY <1>7, <1>9
    <3> QED
      BY <1>3, <1>8, <1>10, <3>1 DEF LooksSame, IInv, RowInv
  <2> QED
    BY <1>3, <1>7, <2>1 DEF RowInv
<1>18. JobInv'
  <2>1. \A b \in DOMAIN articles' : b < id =>
            b \in DOMAIN articles /\ articles'[b].oauthor = articles[b].oauthor
    BY <1>4, <1>7, <1>10 DEF LooksSame
  <2>2. \A v \in Writer : job'[v] = job[v] \/ job'[v].at \notin {"selected", "locking"}
    BY <1>3
  <2> QED
    BY <1>1, <1>4, <2>1, <2>2, JobsKept DEF IInv
<1> QED
  BY <1>13, <1>16, <1>17, <1>18 DEF IInv

-----------------------------------------------------------------------------
(* What follows a commit.                                                  *)

\* A key that is no longer pending was this writer's to remove.
LEMMA WriterDone ==
    ASSUME TypeOK, NEW w \in Writer, job' = [job EXCEPT ![w] = Idle]
    PROVE  /\ job' \in [Writer -> {Idle} \cup Updating \cup Committed]
           /\ \A v \in Writer : job'[v] = job[v] \/ job'[v].at \notin {"selected", "locking"}
           /\ \A k : Pending(k) /\ k \notin job[w].covers => Pending(k)'
<1>1. job'[w] = Idle /\ \A v \in Writer : v # w => job'[v] = job[v]
  BY DEF TypeOK
<1>2. job' \in [Writer -> {Idle} \cup Updating \cup Committed]
  BY DEF TypeOK
<1>3. \A k : Pending(k) /\ k \notin job[w].covers => Pending(k)'
  BY <1>1 DEF Pending
<1> QED
  BY <1>1, <1>2, <1>3

LEMMA InvalidateStep ==
    ASSUME IInv, NEW w \in Writer, Invalidate(w)
    PROVE  IInv'
<1> DEFINE covers == job[w].covers
           F == Because("overtaken", covers)
<1>1. /\ UNCHANGED <<articles, hiddenTags, hidden, nextId, writes>>
      /\ job' = [job EXCEPT ![w] = Idle]
      /\ cache' = [k \in DOMAIN cache \ covers |-> cache[k]]
  BY DEF Invalidate
<1>2. /\ job' \in [Writer -> {Idle} \cup Updating \cup Committed]
      /\ \A v \in Writer : job'[v] = job[v] \/ job'[v].at \notin {"selected", "locking"}
      /\ \A k : Pending(k) /\ k \notin covers => Pending(k)'
  BY <1>1, WriterDone DEF IInv
<1>3. \A k \in DOMAIN F : F[k] = "overtaken" /\ F[k] \in Fault
  BY DEF Because, Fault
<1>4. DOMAIN F = covers
  BY DEF Because
<1>5. ASSUME NEW r \in Reader
      PROVE  /\ reading'[r] \in {Idle} \cup Missed \cup Answered
             /\ reading'[r].at = "answered" => Fine(reading[r].key, reading[r])'
  <2>1. CASE /\ reading[r].at = "answered" /\ reading[r].key \in covers
             /\ reading[r].view # View(reading[r].key, reading[r].hid)
    <3>1. reading'[r] = Blamed(reading[r], reading[r].key, F)
      BY <2>1 DEF Invalidate
    <3>2. reading[r] \in Answered /\ Fine(reading[r].key, reading[r])
      BY <2>1, ReadingIs DEF IInv, ReaderInv
    <3>3. /\ reading'[r] \in Answered /\ reading'[r].key = reading[r].key
          /\ reading'[r].fault = IF reading[r].fault = "none" THEN "overtaken"
                                 ELSE reading[r].fault
      BY <2>1, <3>1, <3>2, <1>3, <1>4, BlamedIs
    <3>4. reading'[r].fault # "none" /\ reading'[r].fault \in Excused(reading[r].key) \cup {"none"}
      BY <3>2, <3>3 DEF Fine, Excused, Unlucky
    <3>5. Fine(reading[r].key, reading[r])'
      BY <3>3, <3>4 DEF Fine, Settled
    <3> QED
      BY <3>3, <3>5
  <2>2. CASE ~ /\ reading[r].at = "answered" /\ reading[r].key \in covers
               /\ reading[r].view # View(reading[r].key, reading[r].hid)
    <3>1. reading'[r] = reading[r]
      BY <2>2 DEF Invalidate
    <3>2. reading[r] \in {Idle} \cup Missed \cup Answered
      BY DEF IInv, TypeOK
    <3>3. ASSUME reading[r].at = "answered" PROVE Fine(reading[r].key, reading[r])'
      <4>1. Fine(reading[r].key, reading[r])
        BY <3>3 DEF IInv, ReaderInv
      <4>2. View(reading[r].key, reading[r].hid)' = View(reading[r].key, reading[r].hid)
        BY <1>1, <3>1, ViewKept
      <4> QED
        BY <1>2, <2>2, <3>1, <3>3, <4>1, <4>2 DEF Fine, Settled
    <3> QED
      BY <3>1, <3>2, <3>3
  <2> QED
    BY <2>1, <2>2
<1>6. reading' \in [Reader -> {Idle} \cup Missed \cup Answered]
  BY <1>5 DEF Invalidate
<1>7. TypeOK'
  BY <1>1, <1>2, <1>6 DEF IInv, TypeOK
<1>8. CacheInv'
  BY <1>1, <1>2, ViewKept DEF IInv, CacheInv, Fine, Settled
<1>9. ReaderInv'
  BY <1>5 DEF ReaderInv
<1>10. RowInv' /\ nextId \in Int
  BY <1>1 DEF IInv, TypeOK, RowInv
<1>11. JobInv'
  BY <1>1, <1>2, <1>10, JobsKept DEF IInv
<1> QED
  BY <1>7, <1>8, <1>9, <1>10, <1>11 DEF IInv

LEMMA LoseAnswerStep ==
    ASSUME IInv, NEW w \in Writer, LoseAnswer(w)
    PROVE  IInv'
<1> DEFINE covers == job[w].covers
           F == Because("lost", covers)
<1>1. /\ UNCHANGED <<articles, hiddenTags, hidden, nextId, writes>> /\ Blame(F)
      /\ job' = [job EXCEPT ![w] = Idle]
  BY DEF LoseAnswer
<1>2. /\ job' \in [Writer -> {Idle} \cup Updating \cup Committed]
      /\ \A v \in Writer : job'[v] = job[v] \/ job'[v].at \notin {"selected", "locking"}
      /\ \A k : Pending(k) /\ k \notin covers => Pending(k)'
  BY <1>1, WriterDone DEF IInv
<1>3. Excuses(F)
  BY DEF Excuses, Because, Excused, Unlucky
<1>4. TypeOK'
  BY <1>1, <1>2, <1>3, BlameTypes DEF IInv, TypeOK
<1>5. \A k \in Key : Named(k) => Safe(k, F)
  BY <1>1, <1>2, ViewKept DEF Safe, Because
<1>6. CacheInv' /\ ReaderInv'
  BY <1>1, <1>3, <1>5, BlameKeeps DEF IInv
<1>7. RowInv' /\ nextId \in Int
  BY <1>1 DEF IInv, TypeOK, RowInv
<1>8. JobInv'
  BY <1>1, <1>2, <1>7, JobsKept DEF IInv
<1> QED
  BY <1>4, <1>6, <1>7, <1>8 DEF IInv

-----------------------------------------------------------------------------
(* The theorems.                                                           *)

LEMMA InvStep == IInv /\ [Next]_vars => IInv'
<1> SUFFICES ASSUME IInv, [Next]_vars PROVE IInv'
  OBVIOUS
<1>1. ASSUME NEW r \in Reader, Read(r) PROVE IInv'
  BY <1>1, MissStep, AnswerStep, FillStep DEF Read
<1>2. ASSUME NEW w \in Writer, Write(w) PROVE IInv'
  BY <1>2, NewCommitStep, InvertCommitStep, UpdateSelectStep, LockFullStep, UpdateRefusedStep,
     UpdateCommitStep, DeleteRowStep, HideTagsStep, InvalidateStep, LoseAnswerStep DEF Write
<1>3. ASSUME NEW k \in Key, Forget(k) PROVE IInv'
  BY <1>3, ForgetStep
<1>4. CASE TagsUpdate
  BY <1>4, TagsUpdateStep
<1>5. CASE UNCHANGED vars
  <2>1. TypeOK'
    BY <1>5 DEF IInv, TypeOK, vars
  <2>2. CacheInv' /\ ReaderInv'
    BY <1>5, ViewKept, PendingKept DEF IInv, CacheInv, ReaderInv, Fine, Settled, vars
  <2> QED
    BY <1>5, <2>1, <2>2, RowsAndJobsKept DEF IInv, vars
<1> QED
  BY <1>1, <1>2, <1>3, <1>4, <1>5 DEF Next

\* The invariant holds of every behaviour.
LEMMA Invariant == Spec => []IInv
  BY InitInv, InvStep, PTL DEF Spec

\* The rows, the entries of the cache (articles.go:210, 385) and the handlers' jobs have
\* their types, no id is used twice, and no row is written more often than was committed.
THEOREM Types == Spec => []TypeOK
<1>1. IInv => TypeOK
  BY DEF IInv
<1> QED
  BY <1>1, Invariant, PTL

\* What is out of date and not about to be removed has something held against it.
LEMMA StaleIsExcused ==
    ASSUME IInv, NEW k \in DOMAIN cache, Named(k), Stale(k)
    PROVE  cache[k].fault \in Excused(k)
  BY DEF IInv, CacheInv, Fine, Settled, Stale, Named

\* Whatever the readers and writers do, and in whatever order, an article's page that is
\* out of date (articles.go:348-429) is about to be removed by the expression of
\* Article.go:352-364, 438-447 or articles.go:440-448, or one of five misfortunes befell it.
THEOREM PagesAlwaysSettle == Spec => []PagesSettle
<1>1. IInv => PagesSettle
  BY StaleIsExcused DEF PagesSettle, StaleOnlyFor, Excused, Named
<1> QED
  BY <1>1, Invariant, PTL

\* The same of the lists of articles.go:89-253: the index and the list of everything are out
\* of date only when a reader was slow, a query failed or an answer was lost; the lists of
\* tags, of authors and of replies in one way each besides.
THEOREM ListsAlwaysSettle == Spec => []ListsSettle
<1>1. IInv => ListsSettle
  <2> SUFFICES ASSUME IInv PROVE ListsSettle
    OBVIOUS
  <2>1. StaleOnlyFor({"index"}, Unlucky)
    BY StaleIsExcused DEF StaleOnlyFor, Excused, Named
  <2>2. <<"owa", Anyone>> \in DOMAIN cache /\ Stale(<<"owa", Anyone>>) =>
            cache[<<"owa", Anyone>>].fault \in Unlucky
    BY StaleIsExcused DEF Excused, Named
  <2>3. StaleOnlyFor({"tag"}, Unlucky \cup {"slipped"})
    BY StaleIsExcused DEF StaleOnlyFor, Excused, Named
  <2>4. StaleOnlyFor({"ua", "owa"}, Unlucky \cup {"handed_over"})
    BY StaleIsExcused DEF StaleOnlyFor, Excused, Named
  <2>5. StaleOnlyFor({"reply"}, Unlucky \cup {"edited"})
    BY StaleIsExcused DEF StaleOnlyFor, Excused, Named
  <2> QED
    BY <2>1, <2>2, <2>3, <2>4, <2>5 DEF ListsSettle
<1> QED
  BY <1>1, Invariant, PTL
=============================================================================
