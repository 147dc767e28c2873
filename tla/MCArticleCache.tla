--------------------------- MODULE MCArticleCache ---------------------------
(***************************************************************************)
(* Small instances of ArticleCache for TLC.  Entries of different keys do  *)
(* not influence each other, so every behaviour keeps to one small world:  *)
(* the keys its readers ask for, the users, tags and articles at work, and *)
(* the flags that are inverted.                                            *)
(***************************************************************************)
EXTENDS ArticleCache, TLC

CONSTANTS r1, w1, w2, u0, u1, u2, t1, t2

VARIABLE world

World(keys, users, tags, ids, flags) ==
    [keys |-> keys, users |-> users, tags |-> tags, ids |-> ids, flags |-> flags]

\* On top and deleted make no difference to each other in a list of a tag or an author.
NotOnTop == Flag \ {"stay_top"}

\* Nor does locked, which every other world inverts: two tags are states enough.
DeletedOnly == {"deleted"}

Pages    == World({<<"article", u1, 1>>}, {u0, u1}, {t1}, {1, 2}, Flag)
Whole    == World({<<"index">>, <<"owa", u0>>}, {u1}, {t1}, {1}, Flag)
Tags     == World({<<"tag", t1>>, <<"tag", t2>>}, {u1}, {t1, t2}, {1}, DeletedOnly)
Authors  == World({<<"ua", u1>>, <<"owa", u1>>}, {u1, u2}, {t1}, {1}, NotOnTop)
Replies  == World({<<"reply", 1>>, <<"reply", 2>>}, {u1}, {t1}, {1, 2}, Flag)
Filtered == World({<<"owa_but", u0, t1>>, <<"owa", u0>>}, {u1}, {t1, t2}, {1}, NotOnTop)

Worlds == {Pages, Whole, Tags, Authors, Replies, Filtered}

\* What a configuration gives Key chooses the worlds.
Keys(worlds) == UNION {w.keys : w \in worlds}
ViewKeys     == Keys(Worlds \ {Filtered})
FilteredKeys == Keys({Filtered})
AuthorKeys   == Keys({Authors})

\* A step stays in the world: its job and its rows are of the world's making.
Stays ==
    /\ \A r \in Reader : reading'[r].at = "missed" => reading'[r].key \in world.keys
    /\ \A w \in Writer : job'[w].at = "selected" =>
           job'[w].user \in world.users /\ job'[w].tag \in world.tags
    /\ DOMAIN articles' \subseteq world.ids
    /\ \A a \in DOMAIN articles' : /\ articles'[a].author \in world.users
                                   /\ articles'[a].tag \in world.tags
                                   /\ articles'[a].flags \subseteq world.flags
    /\ hiddenTags' \subseteq world.tags

MCInit == Init /\ world \in {w \in Worlds : w.keys \subseteq Key}
MCNext == Next /\ Stays /\ UNCHANGED world
MCSpec == MCInit /\ [][MCNext]_<<vars, world>>

Writers == Permutations(Writer)
=============================================================================
