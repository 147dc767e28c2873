---------------------------- MODULE ArticleCache ----------------------------
(***************************************************************************)
(* The articles in the database and the views of them that handlers keep   *)
(* in Gcache.  A reader that misses asks the database and stores what it   *)
(* got when it returns (the deferred Gcache.Add of GetArticles and         *)
(* GetArticle); a writer changes the database first and removes the views  *)
(* its regular expression names afterwards.  Neither is atomic.            *)
(*                                                                         *)
(* Gcache itself is what CacheContract promises: it may forget any entry.  *)
(* A page number never occurs in an expression, so a key stands for all    *)
(* pages of a list, and for both noEscape variants of an article.          *)
(* Left out: messages; hit and reply counts in lists; the parent's title   *)
(* in a reply's view; privileges and cooldowns, which only refuse.         *)
(***************************************************************************)
EXTENDS Integers, FiniteSets

CONSTANTS Reader, Writer,  \* handlers at work
          User, Anyone,    \* Anyone is user id 0: anonymous, and the "0" of an owa list
          Tag,
          Key,             \* the keys readers ask for, a subset of AllKeys
          MaxRevision,
          MaxArticles, MaxWrites  \* bounds: article ids, commits

Article == 1 .. MaxArticles

AllKeys ==
         {<<"index">>}
    \cup {<<"tag", t>> : t \in Tag}
    \cup {<<"ua", u>> : u \in User}
    \cup {<<"owa", u>> : u \in User}
    \cup {<<"owa_but", u, t>> : u \in User, t \in Tag}
    \cup {<<"reply", a>> : a \in Article}
    \cup {<<"article", u, a>> : u \in User, a \in Article}

ASSUME UserAssumption   == Anyone \in User
ASSUME KeyAssumption    == Key \subseteq AllKeys
ASSUME BoundsAssumption == MaxRevision \in Nat /\ MaxArticles \in Nat /\ MaxWrites \in Nat

VARIABLES articles,  \* the table articles: id -> row
          hiddenTags,\* the tags the table tags calls hidden
          hidden,    \* the copy InitTags made of it, GetSQL
          cache,     \* key -> [view, hid, fault], the fill that stored it
          reading,   \* what each reader is doing
          job,       \* what each writer is doing
          nextId, writes

vars == <<articles, hiddenTags, hidden, cache, reading, job, nextId, writes>>

\* History: why a view may be out of date for good.  "overtaken": stored after the
\* Remove that should have hit it; "failed": the query failed and nothing was stored
\* as the answer; "lost": the commit's answer was lost and no Remove made; "relocked":
\* an update refused for too many revisions locked the article; "unborn": the article
\* did not exist; "slipped": two updates overlapped and the tag between the two is
\* named by neither; "handed_over": the article left an author who is not the first;
\* "edited": the article is a reply, and only new replies touch the parent's list.
Fault == {"none", "overtaken", "failed", "lost", "relocked", "unborn",
          "slipped", "handed_over", "edited"}

Flag == {"deleted", "locked", "stay_top"}

Row == [tag : Tag, author : User, oauthor : User, parent : 0 .. MaxArticles,
        flags : SUBSET Flag, rev : 0 .. MaxWrites, children : 0 .. MaxWrites]

-----------------------------------------------------------------------------
(* What the queries answer *)

Alive(a) == a \in DOMAIN articles /\ "deleted" \notin articles[a].flags

Wrote(u, a) == articles[a].author = u \/ articles[a].oauthor = u

Listed(k, hid) ==
    CASE k[1] = "index"   -> {a \in DOMAIN articles : Alive(a) /\ articles[a].tag \notin hid}
      [] k[1] = "tag"     -> {a \in DOMAIN articles : Alive(a) /\ articles[a].tag = k[2]}
      [] k[1] = "ua"      -> {a \in DOMAIN articles : /\ Alive(a) /\ Wrote(k[2], a)
                                                      /\ articles[a].tag \notin hid}
      [] k[1] = "owa"     -> {a \in DOMAIN articles : k[2] = Anyone \/ Wrote(k[2], a)}
      [] k[1] = "owa_but" -> {a \in DOMAIN articles : /\ k[2] = Anyone \/ Wrote(k[2], a)
                                                      /\ articles[a].tag # k[3]}
      [] k[1] = "reply"   -> {a \in DOMAIN articles : Alive(a) /\ articles[a].parent = k[2]}
      [] OTHER            -> {}

\* One line of a list, and the page of one article.
Line(a) == [id |-> a, rev |-> articles[a].rev, flags |-> articles[a].flags \ {"locked"}]
Page(a) == [id |-> a, rev |-> articles[a].rev, flags |-> articles[a].flags,
            children |-> articles[a].children]

View(k, hid) ==
    IF k[1] = "article" THEN {Page(a) : a \in DOMAIN articles \cap {k[3]}}
                        ELSE {Line(a) : a \in Listed(k, hid)}

-----------------------------------------------------------------------------
(* What the regular expressions given to Remove cover *)

\* newArticle: the article goes to tag t, its author is u, p is what it replies to.
CoversNew(u, t, p) ==
    {k \in Key : \/ k \in {<<"index">>, <<"tag", t>>, <<"ua", u>>, <<"owa", u>>,
                           <<"owa", Anyone>>, <<"reply", p>>}
                 \/ k[1] = "article" /\ k[3] = p}

\* Mutants: the first author or the article itself is forgotten.
CoversUpdateEditorOnly(u, o, t, old, a) ==
    {k \in Key : \/ k \in {<<"index">>, <<"tag", t>>, <<"tag", old>>, <<"ua", u>>,
                           <<"owa", u>>, <<"owa", Anyone>>}
                 \/ k[1] = "article" /\ k[3] = a}

CoversUpdateListsOnly(u, o, t, old, a) ==
    {k \in Key : k \in {<<"index">>, <<"tag", t>>, <<"tag", old>>, <<"ua", u>>, <<"ua", o>>,
                        <<"owa", u>>, <<"owa", o>>, <<"owa", Anyone>>}}

\* updateArticle: from tag old to tag t, by user u, first written by o.
CoversUpdate(u, o, t, old, a) ==
    {k \in Key : \/ k \in {<<"index">>, <<"tag", t>>, <<"tag", old>>, <<"ua", u>>, <<"ua", o>>,
                           <<"owa", u>>, <<"owa", o>>, <<"owa", Anyone>>}
                 \/ k[1] = "article" /\ k[3] = a}

\* InvertArticleState.
CoversInvert(u, o, t, a) ==
    {k \in Key : \/ k \in {<<"index">>, <<"tag", t>>, <<"ua", u>>, <<"ua", o>>,
                           <<"owa", u>>, <<"owa", o>>, <<"owa", Anyone>>}
                 \/ k[1] = "article" /\ k[3] = a}

-----------------------------------------------------------------------------
(* Readers *)

Idle == [at |-> "idle"]

Miss(r, k) ==
    /\ reading[r] = Idle
    /\ k \notin DOMAIN cache
    /\ reading' = [reading EXCEPT ![r] = [at |-> "missed", key |-> k, hid |-> hidden]]
    /\ UNCHANGED <<articles, hiddenTags, hidden, cache, job, nextId, writes>>

\* The query is answered, or fails: GetArticles and GetArticle then return an
\* empty answer, and their deferred Add stores it like any other.
Answer(r) ==
    /\ reading[r].at = "missed"
    /\ LET got(view, fault) == [at |-> "answered", key |-> reading[r].key,
                                hid |-> reading[r].hid, view |-> view, fault |-> fault]
       IN  \/ reading' = [reading EXCEPT ![r] =
                             got(View(reading[r].key, reading[r].hid), "none")]
           \/ reading' = [reading EXCEPT ![r] = got({}, "failed")]
    /\ UNCHANGED <<articles, hiddenTags, hidden, cache, job, nextId, writes>>

Fill(r) ==
    /\ reading[r].at = "answered"
    /\ LET k == reading[r].key
       IN  cache' = [j \in DOMAIN cache \cup {k} |->
                        IF j = k THEN [view  |-> reading[r].view,
                                       hid   |-> reading[r].hid,
                                       fault |-> reading[r].fault]
                                 ELSE cache[j]]
    /\ reading' = [reading EXCEPT ![r] = Idle]
    /\ UNCHANGED <<articles, hiddenTags, hidden, job, nextId, writes>>

\* Eviction or expiry, see CacheContract.
Forget(k) ==
    /\ k \in DOMAIN cache
    /\ cache' = [j \in DOMAIN cache \ {k} |-> cache[j]]
    /\ UNCHANGED <<articles, hiddenTags, hidden, reading, job, nextId, writes>>

-----------------------------------------------------------------------------
(* Writers *)

\* History: from now on the views F names are out of date and nothing will remove
\* them; F says why.
Blamed(x, k, F) ==
    IF k \in DOMAIN F /\ x.fault = "none" THEN [x EXCEPT !.fault = F[k]] ELSE x

Blame(F) ==
    /\ cache' = [k \in DOMAIN cache |-> Blamed(cache[k], k, F)]
    /\ reading' = [r \in Reader |-> IF reading[r].at = "answered"
                                    THEN Blamed(reading[r], reading[r].key, F)
                                    ELSE reading[r]]

Because(fault, ks) == [k \in ks |-> fault]

ArticleKeys(a) == {k \in Key : k[1] = "article" /\ k[3] = a}

Commit(w, covers, sure) ==
    /\ writes < MaxWrites
    /\ writes' = writes + 1
    /\ job' = [job EXCEPT ![w] = [at |-> "committed", covers |-> covers, sure |-> sure]]

\* Mutant: the id of the row is not used up.
AddArticleReusingId(u, t, p) ==
    /\ nextId \in Article
    /\ articles' = [a \in DOMAIN articles \cup {nextId} |->
                       [tag |-> t, author |-> u, oauthor |-> u, parent |-> p,
                        flags |-> {}, rev |-> 0, children |-> 0]]
    /\ UNCHANGED nextId

\* The row new_article inserts, and the parent's count of replies.
AddArticle(u, t, p) ==
    /\ nextId \in Article
    /\ articles' = [a \in DOMAIN articles \cup {nextId} |->
           CASE a = nextId -> [tag |-> t, author |-> u, oauthor |-> u, parent |-> p,
                               flags |-> {}, rev |-> 0, children |-> 0]
             [] a # nextId /\ a = p -> [articles[a] EXCEPT !.children = @ + 1]
             [] OTHER -> articles[a]]
    /\ nextId' = nextId + 1

NewCommit(w, u, t, p) ==
    /\ job[w] = Idle
    /\ AddArticle(u, t, p)
    /\ Commit(w, CoversNew(u, t, p), FALSE)
    /\ Blame(Because("unborn", ArticleKeys(nextId)))
    /\ UNCHANGED <<hiddenTags, hidden>>

InvertCommit(w, a, f) ==
    /\ job[w] = Idle
    /\ a \in DOMAIN articles
    /\ articles' = [articles EXCEPT ![a].flags = IF f \in @ THEN @ \ {f} ELSE @ \cup {f}]
    /\ Commit(w, CoversInvert(articles[a].author, articles[a].oauthor, articles[a].tag, a), FALSE)
    /\ Blame(Because("edited", {<<"reply", articles[a].parent>>}))
    /\ UNCHANGED <<hiddenTags, hidden, nextId>>

\* updateArticle reads the row, and the rest of it works on what it read.
UpdateSelect(w, u, a, t) ==
    /\ job[w] = Idle
    /\ a \in DOMAIN articles
    /\ job' = [job EXCEPT ![w] = [at |-> "selected", id |-> a, user |-> u, tag |-> t,
                                  old |-> articles[a].tag, oauthor |-> articles[a].oauthor,
                                  full |-> articles[a].rev >= MaxRevision]]
    /\ UNCHANGED <<articles, hiddenTags, hidden, cache, reading, nextId, writes>>

\* An article with too many revisions is locked first, whoever asks.
LockFull(w) ==
    /\ job[w].at = "selected" /\ job[w].full
    /\ job' = [job EXCEPT ![w].at = "locking", ![w].full = FALSE]
    /\ LET a == job[w].id
       IN  IF a \in DOMAIN articles /\ "locked" \notin articles[a].flags
           THEN /\ articles' = [articles EXCEPT ![a].flags = @ \cup {"locked"}]
                /\ Blame(Because("relocked", ArticleKeys(a)))
           ELSE UNCHANGED <<articles, cache, reading>>
    /\ UNCHANGED <<hiddenTags, hidden, nextId, writes>>

CanFinish(w) == job[w].at \in {"selected", "locking"} /\ ~job[w].full

\* Not the author, locked, cooling down or failed: no Remove.
UpdateRefused(w) ==
    /\ CanFinish(w)
    /\ job' = [job EXCEPT ![w] = Idle]
    /\ UNCHANGED <<articles, hiddenTags, hidden, cache, reading, nextId, writes>>

\* History: why the view k shows row for good when the job j has updated it.
WhyLeft(k, row, j) ==
    CASE k = <<"tag", row.tag>> /\ row.tag \notin {j.tag, j.old} -> "slipped"
      [] k \in {<<"ua", row.author>>, <<"owa", row.author>>}
         /\ row.author \notin {Anyone, j.user, j.oauthor} -> "handed_over"
      [] k = <<"reply", row.parent>> -> "edited"
      [] OTHER -> "none"

UpdateCommit(w) ==
    /\ CanFinish(w)
    /\ job[w].user # Anyone
    /\ job[w].id \in DOMAIN articles
    /\ LET j      == job[w]
           row    == articles[j.id]
           covers == CoversUpdate(j.user, j.oauthor, j.tag, j.old, j.id)
       IN  /\ articles' = [articles EXCEPT ![j.id].tag = j.tag, ![j.id].author = j.user,
                                           ![j.id].rev = @ + 1]
           /\ Commit(w, covers, FALSE)
           /\ Blame([k \in Key |-> WhyLeft(k, row, j)])
    /\ UNCHANGED <<hiddenTags, hidden, nextId>>

\* The administrator's table pages: rows deleted, or the hidden tags changed by a
\* statement; both clear the whole cache, the second only when it got its answer.
DeleteRow(w, a) ==
    /\ job[w] = Idle
    /\ a \in DOMAIN articles
    /\ articles' = [b \in DOMAIN articles \ {a} |-> articles[b]]
    /\ Commit(w, Key, TRUE)
    /\ UNCHANGED <<hiddenTags, hidden, cache, reading, nextId>>

HideTags(w, T) ==
    /\ job[w] = Idle
    /\ T # hiddenTags
    /\ hiddenTags' = T
    /\ Commit(w, Key, FALSE)
    /\ UNCHANGED <<articles, hidden, cache, reading, nextId>>

\* The Remove, or Clear, that follows a commit.  A reader that holds an answer from
\* before the commit has been overtaken.
Invalidate(w) ==
    /\ job[w].at = "committed"
    /\ LET covers == job[w].covers
       IN  /\ cache' = [k \in DOMAIN cache \ covers |-> cache[k]]
           /\ reading' = [r \in Reader |->
                 IF /\ reading[r].at = "answered"
                    /\ reading[r].key \in covers
                    /\ reading[r].view # View(reading[r].key, reading[r].hid)
                 THEN Blamed(reading[r], reading[r].key, Because("overtaken", covers))
                 ELSE reading[r]]
    /\ job' = [job EXCEPT ![w] = Idle]
    /\ UNCHANGED <<articles, hiddenTags, hidden, nextId, writes>>

\* The connection fails after the commit: the handler reports a failure and
\* removes nothing.
LoseAnswer(w) ==
    /\ job[w].at = "committed" /\ ~job[w].sure
    /\ Blame(Because("lost", job[w].covers))
    /\ job' = [job EXCEPT ![w] = Idle]
    /\ UNCHANGED <<articles, hiddenTags, hidden, nextId, writes>>

\* POST_tags_update: InitTags copies the table; the cache is left alone.
TagsUpdate ==
    /\ hidden # hiddenTags
    /\ hidden' = hiddenTags
    /\ UNCHANGED <<articles, hiddenTags, cache, reading, job, nextId, writes>>

-----------------------------------------------------------------------------

Init ==
    /\ articles = [a \in {} |-> Idle]
    /\ hiddenTags = {} /\ hidden = {}
    /\ cache = [k \in {} |-> Idle]
    /\ reading = [r \in Reader |-> Idle]
    /\ job = [w \in Writer |-> Idle]
    /\ nextId = 1
    /\ writes = 0

Read(r) == (\E k \in Key : Miss(r, k)) \/ Answer(r) \/ Fill(r)

Write(w) ==
    \/ \E u \in User, t \in Tag, p \in {0} \cup DOMAIN articles : NewCommit(w, u, t, p)
    \/ \E a \in Article, f \in Flag : InvertCommit(w, a, f)
    \/ \E u \in User, a \in Article, t \in Tag : UpdateSelect(w, u, a, t)
    \/ LockFull(w) \/ UpdateRefused(w) \/ UpdateCommit(w)
    \/ \E a \in Article : DeleteRow(w, a)
    \/ \E T \in SUBSET Tag : HideTags(w, T)
    \/ Invalidate(w) \/ LoseAnswer(w)

Next ==
    \/ \E r \in Reader : Read(r)
    \/ \E w \in Writer : Write(w)
    \/ \E k \in Key : Forget(k)
    \/ TagsUpdate

Spec == Init /\ [][Next]_vars

-----------------------------------------------------------------------------
(* Properties *)

InList == [id : Article, rev : 0 .. MaxWrites, flags : SUBSET Flag]
OnPage == [id : Article, rev : 0 .. MaxWrites, flags : SUBSET Flag, children : 0 .. MaxWrites]
Views  == SUBSET (InList \cup OnPage)

Entry    == [view : Views, hid : SUBSET Tag, fault : Fault]
Missed   == [at : {"missed"}, key : Key, hid : SUBSET Tag]
Answered == [at : {"answered"}, key : Key, hid : SUBSET Tag, view : Views, fault : Fault]

Updating  == [at : {"selected", "locking"}, id : Article, user : User, tag : Tag,
              old : Tag, oauthor : User, full : BOOLEAN]
Committed == [at : {"committed"}, covers : SUBSET Key, sure : BOOLEAN]

TypeOK ==
    /\ DOMAIN articles \subseteq Article
    /\ articles \in [DOMAIN articles -> Row]
    /\ hiddenTags \subseteq Tag /\ hidden \subseteq Tag
    /\ DOMAIN cache \subseteq Key
    /\ cache \in [DOMAIN cache -> Entry]
    /\ reading \in [Reader -> {Idle} \cup Missed \cup Answered]
    /\ job \in [Writer -> {Idle} \cup Updating \cup Committed]
    /\ nextId \in 1 .. MaxArticles + 1
    /\ writes \in 0 .. MaxWrites
    /\ \A a \in DOMAIN articles : a < nextId  \* ids are not used twice

\* Some writer has committed and is about to remove k.
Pending(k) == \E w \in Writer : job[w].at = "committed" /\ k \in job[w].covers

\* The entry no longer shows what its query would answer, and no writer is about
\* to remove it.
Stale(k) == cache[k].view # View(k, cache[k].hid) /\ ~Pending(k)

StaleOnlyFor(kinds, faults) ==
    \A k \in DOMAIN cache : k[1] \in kinds /\ Stale(k) => cache[k].fault \in faults

\* The index and the list of everything are removed by every writer: out of date they
\* can only be when a slow reader stored its answer after the Remove, the query had
\* failed, or the commit's answer was lost.  In addition, the list of a tag can when two
\* updates of one article overlap; the lists of an author when a third user's update takes
\* an article from an author who is not the first; the replies to an article when a reply
\* is edited, deleted or put on top.
Unlucky == {"overtaken", "failed", "lost"}

ListsSettle ==
    /\ StaleOnlyFor({"index"}, Unlucky)
    /\ <<"owa", Anyone>> \in DOMAIN cache /\ Stale(<<"owa", Anyone>>) =>
           cache[<<"owa", Anyone>>].fault \in Unlucky
    /\ StaleOnlyFor({"tag"}, Unlucky \cup {"slipped"})
    /\ StaleOnlyFor({"ua", "owa"}, Unlucky \cup {"handed_over"})
    /\ StaleOnlyFor({"reply"}, Unlucky \cup {"edited"})

\* The page of an article can, in addition, when it was asked for before the article
\* existed, or when a refused update locked it.
PagesSettle == StaleOnlyFor({"article"}, Unlucky \cup {"unborn", "relocked"})

\* Article.go:355 names the owa lists, with whatever follows the user's id, among
\* those newArticle removes.
FilteredListsSettle == StaleOnlyFor({"owa_but"}, Unlucky)

\* articles.go:114-115: a list of someone's articles shows none of the hidden ones;
\* once no handler is at work, and none was unlucky, the tags the server knows as hidden are not in it.
NoHiddenArticles ==
    (\A r \in Reader : reading[r] = Idle) /\ (\A w \in Writer : job[w] = Idle) =>
        \A k \in DOMAIN cache : k[1] = "ua" /\ cache[k].fault = "none" =>
            \A line \in cache[k].view :
                line.id \in DOMAIN articles => articles[line.id].tag \notin hidden
=============================================================================
