# Libay, verified in parts

Libay is a small forum in Go: HTTP handlers (`models/`) over a PostgreSQL
database, with a cache, sessions, a brake on frequent access and two background
goroutines (`auth/`), and a configuration with the list of tags (`conf/`); and the
scripts its pages run in the browser (`assets/main.js`, `assets/editor.js` and the
formatters of `assets/html_beautify/`). This directory holds TLA+ modules translated from its source, TLC configurations that
check them on small instances, and proofs that TLAPS checks for every instance.

`PROJECT.json` lists the components, the runs, the lines each definition stands
for, the hazards the properties are aimed at, and the theorems. A definition whose
comment starts with "Mutant" is never part of a specification: it is a plausible
bug of the definition it precedes, and there to show that a property notices it.

## The system

| Part | State | Operations | Talks to |
| --- | --- | --- | --- |
| Cache `auth.Gcache` (`auth/cache.go`) | map from key to entry, list in order of use, one RWMutex | `Add`, `Get`, `Remove` (a key or a regular expression), `Clear`, `Info`, `GetLowLevelCache`, the purge goroutine | called by every reader and writer of articles, and by the cache page |
| Articles (`auth/articles.go`, `models/Article.go`) | the tables articles and history | `GetArticles`, `GetArticle`; `newArticle`, `updateArticle`, `InvertArticleState` (delete, restore, lock, top) | database, cache, configuration, brake, hit counter |
| Brake on frequent access (`auth/auth.go`) | map from address to time, one mutex | `LogIP`, `LogIPnv`, `AccessDaemon` | login, registration, posting, deleting, `GetArticle`; pings the database |
| Hit counter (`auth/articles.go`) | map from article to count, one mutex | `incrCounter`, `ArticleCounter` | `GetArticle`, database |
| Login and sessions (`auth/auth.go`, `auth/user.go`) | columns of users: password, session, retries, lock; a cookie in the browser | two login phases, registration, logout, `GetUser` | brake, database, files of public keys |
| Configuration and tags (`conf/conf.go`, `models/Admin.go`) | one struct and three values derived from the table tags, one RWMutex | getters, `LoadConfig`, `InitTags`, the update and tags pages | everything; the configuration file, the database |
| Connections (`database/sql`) | at most MaxOpenConns (readme.md: 20) | `Query`, `QueryRow`, `Exec`, `Ping` | everything |
| Administrator's tables (`models/Admin.go`, `auth/util.go`) | none | read, delete rows, run a statement | database, cache |
| Uploads (`models/Upload.go`) | files, the table images, usage per user | image, avatar, file | file system, an external program, database |
| Lists (`models/Page.go`) | none | which page of which list | articles, configuration |
| Cleaning of contents (`auth/util.go`) | none | `ExtractContent`, `CleanString`, `Escape` | articles |
| Templates (`templates/`) | what a browser shows | buttons and their alerts | handlers |
| Promises and requests (`main.js` 8-209) | callbacks and answer of a promise; a request, its timer | `then`, `done`, `join`, `chain`, `ajax` | the server; uploads |
| Uploads by the pages (`main.js` 247-329, 639-714, 873-901) | the files still to come, a sign for the whole page | `uploadImage` from file to caret, `Animation` | requests, the editor's caret |
| Lazy loading (`main.js` 539-590) | elements put into the page | `lazyLoad`, called by the button for formatting | the formatters |
| Gallery (`main.js` 763-869) | index, images asked for, their numbers, a sign | open, close, browse, arrival of an image | one `<img>` whose images overtake each other |
| Base64 (`main.js` 436-525) | none | `decode` | keys and messages |
| Editor (`editor.js`) | instances, the selected one, focus, contents | `addInstance`, `removeInstance`, `saveContent`, mouse, keys, focus | the browser's events |
| Formatter of style sheets (`beautify-css.js`) | level, five modes, output | one step per token | the editor's button |
| Formatter of pages (`beautify-html.js`) | a table of open tags, a level, output | one step per piece of text or tag | the editor's button; the other two for code |
| Formatter of scripts (`beautify.js`) | a stack of frames, lines, the last tokens | one handler per kind of token | the editor's button |

Every request is a goroutine of its own. The hard behaviours are these.

* *Concurrency without transactions.* Handlers read a row, decide, and change it with
  a second statement; they change the database first and the cache afterwards; readers
  that missed store what they got when they return. Anything may happen in between.
* *Locks of the wrong kind.* `Get` reorders a shared list under a read lock; the two
  daemons wait for the database under the lock the requests need; `InitTags` waits for a
  connection under the lock that readers holding connections need.
* *Failures.* Queries fail and the empty answer is cached; a commit succeeds and its
  answer is lost; a count is deleted before it is stored; maps are nil until a goroutine
  has run.
* *Time.* Entries expire, addresses are forgotten, passwords are used once.
* *Events in the browser.* A script runs alone, but time-outs, answers, images and
  loaded scripts come in any order, twice, or never; a handler calls another that
  calls back into the first.
* *Input nobody promised to be well formed.* The formatters get what an author typed:
  brackets that close nothing, elements left open, statements without semicolons.

What makes each part correct:

* cache: map and list agree, the capacity holds, the least recently used entry goes
  first, a value is served only while it is alive and not removed, dead entries go;
* articles and cache: once a change has been made and its Remove has run, no view in
  the cache shows what was there before;
* editing: the history loses nothing, a lock stops edits, the limit on revisions holds;
* brake: an address is let in at a bounded rate, refusals do not feed on each other,
  nobody waits for ever;
* hit counter: no reader is counted twice, none is lost;
* login: a password opens one session, guesses are limited; configuration: a bad update
  changes nothing; connections: no deadlock; uploads: each byte is counted once;
* requests: whoever asks is told once, in the order promised, and is told in the end;
* uploads by the pages: the article gets the images in the order of the files; the sign
  turns while somebody is at work;
* lazy loading: the callback runs when what it uses is there, and once per click;
* gallery: what it shows is what its index says;
* editor: one instance has the focus, and no edit is lost on its way to the form;
* formatters: every piece of the source is printed, once and in its order; the indentation
  is the nesting, the frames unwind with the brackets, and white space is added and taken
  away only where the author would not mind, or where it is written down below.

## The modules

| Module | Models | State | Actions |
| --- | --- | --- | --- |
| `CacheContract` | what handlers rely on: a store that may forget | `clock`, `store` (key to value and last second), `reply` | `Put`, `Lookup`, `Invalidate`, `Wipe`, `Forget`, `Advance` |
| `LRUCache` | `auth/cache.go`, a call at a time | `cache` and `ll` are the map and the list; `uses`, `lastUse` are history | `Add` (`Overwrite` or `Insert` with its eviction), `Get` (`GetHit`, `GetMiss`), `Remove`, `Clear`, `Purge`, `Tick` |
| `CacheListRace` | `Get` statement by statement, several at once | the pointers, the flag and the length of `container/list`, a program counter per Get | one per statement of `MoveToFront`; `Add`, `Remove` in one step, under the write lock |
| `ArticleCache` | handlers, database and cache together | the table, the tags the database and the server know as hidden, the cache, what each reader and writer is doing | `Miss`, `Answer`, `Fill`; `NewCommit`, `InvertCommit`, `UpdateSelect`, `LockFull`, `UpdateCommit`, `UpdateRefused`, `DeleteRow`, `HideTags`; `Invalidate`, `LoseAnswer`; `Forget`, `TagsUpdate` |
| `Editing` | handlers that change one article | the row, the history, what each handler has read, what each browser shows | `Select`, `LockFull`, `Refuse`, `Commit`, `CheckDelete`, `InvertDeleted`, `InvertLocked`, `Load` |
| `AccessLimiter` | the brake and its daemon | `ips` and `lock` are the map and the mutex; `newer`, `older` are history | `Arrive`, `FirstVisit`, `LaterVisit`, `TooSoon`, `NilMap`, `Start`, `Sweep`, `PingReturns`, `Tick` |
| `HitCounter` | the counter and its daemon | `counts` and `lock`; `query` is the statement under way, `hits` the column; `counted`, `failed` are history | `Arrive`, `Count`, `NilMap`, `Start`, `Collect`, `Added`, `Failed` |
| `Ajax` | `Promise`, `join`, `chain`, `ajax` | `callbacks`, `isdone`, `result` of each promise; `xhr`, `timer` of each request; `agenda`, the calls the handler at work has still to make; `told`, `given` are history | `AskEach`, `AskLate`, `AskJoin`, `AskChain`, `AskRelay`; `Then`, `Done`, `Forget`, `Chain` and the callbacks `Apply...`; `Progress`, `Finish`, `Timeout` |
| `Uploads` | `uploadImage` and the sign | `next` and `at` of each batch, `inserted`, `handle` | `Begin`, `Decoded`, `Undecodable`, `Stored`, `Refused`, `Linkless`, `Hang`, `Move` |
| `LazyLoad` | `lazyLoad` | `left` of each call, `elements`, `todo` (an agenda); `ran`, `early`, `overlapped` are history | `LazyLoad`, `Load`, `Next1`, `AppendElement`, `OnLoad`, `LoadFails` |
| `Gallery` | the gallery of an article | `gallery`, `images`, `index`, `loads`, `shown`, `black`, `loadingSign`; `late` is history | `OpenGallery`, `OpenNothing`, `CloseGallery`, `Browse`, `Reload`, `ImageLoads`, `ImageFails` |
| `NicEditor` | the editor and its instances | `nicInstances`, `selectedInstance`, `isFocused`, `focus`, `content`, `value`; `lastEdit` is history | `AddInstance`, `RemoveInstance`, `RemoveThrows`, `SaveContent`, `MouseDown`, `KeyUp`, `FocusComes`, `FocusLeaves`, `Edit` |
| `StringTools` | base64's `decode`, a block at a time | `s`, `i`, `pads`, `x` | `DecodeNothing`, `DecodeOddLength`, `DecodeStarts`, `DecodeBlock`, `DecodeRest` |
| `CssBeautify` | the loop over a sheet's characters | `indentLevel`, `base`, the modes, `output` | one per branch of the loop |
| `HtmlBeautify` | `Parser` and the loop that prints | `tags`, `tagcount`, `parent` (the table), `indent_level`, `newlines`, `printed` | one per kind of token the loop prints |
| `JsBeautify` | `Beautifier` and `Output` | `fmt`, a record of what both keep | one per token; the handlers are functions of `fmt` |

`Client` composes the parts of the pages' scripts, `Formatters` the formatters: a
behaviour works on one part and leaves the others as they begin, for the parts share no
state. `MCLRUCache`, `MCArticleCache`, `MCClient` and `MCFormatter` hold the small
instances. `LRUCacheProofs`, `ArticleCacheProofs`, `EditingProofs`, `AccessLimiterProofs`,
`HitCounterProofs`, `ClientProofs` (of `Ajax`, `Uploads`, `Gallery`, `NicEditor`,
`StringTools` and `LazyLoad`, and of `Client`), `ScriptProofs` (of `JsBeautify`) and
`FormatterProofs` (of `CssBeautify` and `HtmlBeautify`, and of `Formatters`) hold the proofs.

How they fit together: `LRUCache` implements `CacheContract` (`ImplementsContract`, an
INSTANCE with the refinement mapping `Stored`, checked and proved). `ArticleCache`
uses the contract's cache, not the detailed one: an entry stays until it is
overwritten, removed or forgotten, and may be forgotten at any time. So what holds in
`ArticleCache` holds with any capacity and lifetime, the shipped ones (ten entries, no
expiry) included. The exception is `CacheListRace`: where Gets overlap, `LRUCache` and
with it the contract are what the authors of the code meant, not what runs.

The list `ll` of `LRUCache` is a set of pairs, "not behind", instead of a sequence:
`IsListOf` says that it is a total order. That needs no recursion and is what
the proofs work on.

A handler of the browser runs to its end, but what it calls may call back. In `Ajax` and
`LazyLoad` the calls a handler has still to make are a sequence, worked on from its head,
and an event may only come when it is empty. So the order of nested calls is the code's,
without a stack of returns: none of these calls returns anything that is used.

The formatters go through characters or tokens in one loop that ends with the text. A
token is a kind and the white space before it, and a source is a short sequence of them;
what a kind stands for is said where it is declared. Characters inside a token never reach
the state, with one exception: what is in quotes, comments and `url(..)` may hold a
character that has a meaning elsewhere, because `foundNestedPseudoClass`
(beautify-css.js 181-199) looks at all of them. An earlier form of these modules was compared
with the scripts themselves: the same 3392 sheets, 11,792 pages and 21,345 scripts were
given to both, and every output agreed. What was refined since (that look ahead, blanks
behind a newline, indentations of several levels, `*` and `::` of scripts) was read from the
source and not compared.

In `ArticleCache` a key stands for all pages of a list and for both variants of an
article's page, because no expression given to `Remove` names a page or a variant. A
view is what the query answers. An entry also records, as history, the first reason
for which it may be out of date for good (`Fault`): the properties say which reasons
each kind of view is exposed to, and that there is no other.

## The runs

All bounds are named constants.

| Run | Instance | Shows |
| --- | --- | --- |
| `lru_calls` | three keys for two places, two values, lifetimes 1 and for ever, an expression that is also a key, clock to 3, five uses | map and list agree, capacity, eviction by recency, the contract, dead entries go |
| `race_overlap` | two Gets | **violated**: a count of the length is lost, and the cache outgrows MaxEntries for good |
| `cache_views` | five worlds of one or two articles, up to two users and two tags, a reader, two writers, three commits | every kind of view settles, pages (`PagesSettle`) and the four kinds of lists (`ListsSettle`), but for the named reasons |
| `cache_filtered` | the list of all articles but a tag's | **violated**: a new article does not remove it (`.?` in Article.go:357, `.+` in the comment) |
| `cache_hidden` | an author's list | **violated**: stored before the tags are read again, it still shows hidden articles after that |
| `editing_safety` | two handlers, an author and a moderator, a limit of one revision, four updates | how far an old read can reach past the limit and past a lock; what the history may miss |
| `editing_alert` | the same | **violated**: deleting twice restores, and the browser says "deleted" |
| `limiter_brake` | two requests, two addresses, a window of 2, a clock of 6 | three accepted requests span the window; refusals are fresh; all are answered; old addresses go |
| `hits` | two readers, two articles, two hits each | conservation of hits; they arrive; readers go on |
| `client` | three requests; two batches of two files, one move of the caret; two clicks that load three formatters; three images, three asked for; three instances on two elements, two edits; base64 texts of two blocks | each is told once and in order, and in the end; images in order, an honest sign; scripts there when they are used; the gallery's image; one focus, no edit lost; the decoder against the bits |
| `formatter` | sheets, pages and scripts of two pieces and an end or four short ones, statements nested to depth three, five newlines kept | indentation is nesting; as many frames as open brackets; an else stands under its if; each piece is printed once, in its order; which white space comes and goes |
| `increment` | two scripts, a `++` behind a return and one on the line after | **violated**: the `++` is put on the line of the return |

The five worlds of `cache_views` (module `MCArticleCache`) differ in the keys readers
ask for and in the users, tags, articles and flags at work. Entries of different keys do not
influence each other, so nothing is lost by looking at one family of keys at a time. The
flags left out of a world (on top, locked) change a row there and not who sees it.
Three commits are what the longest story needs: an article is posted, and two writers
change it. Writers are interchangeable, which is the symmetry used.

Why the other bounds are enough: two places and three keys make every Add a possible
eviction; clock bounds cover an entry's birth, death and what comes after, and three
windows of the brake; two handlers suffice for every overlap of two, and the bounds of
`Editing` are stated in the number of handlers.

In `client` three requests make a join wait for a second while the third is answered, and
a chain hand on an answer twice; two batches overlap in every order and share the sign; a
second click meets the elements of a first at every stage; of three images the first may
come last; two instances of one textarea are added and removed in turn, beside one of an
element that cannot be removed; a second block shows what the first leaves behind. In
`formatter` the pieces are those that change a mode or a level, white space before them or
none: two of them in any order, in a few surroundings, reach every branch, every pair of
branches and every unbalanced bracket; what depends on more (an else of nested ifs,
elements of one name in each other) has sources of its own, to a depth of three and four.

`client` and `formatter` do not look for deadlocks, because a request, a page's text and a
list of files end. Nor does `hits`: a reader that comes before the
map was made takes the lock of the counter with him, and then the program does stop.
`ReadersGoOn` says that there is no other way.

### What the violated runs say

* **Overlapping Gets** (cache.go:139). `MoveToFront` under `RLock`. The list is that of Go before 1.12, where
  `MoveToFront` counts the length down and up; later ones do not count there, but still
  unlink and link without a lock.
* **Filtered lists** (Article.go:357). Keys such as `1-0:65534-owa` are never matched.
* **Hidden tags** (Admin.go:185). The page that reads tags again leaves the cache alone. The
  statement that hides a tag does empty the cache (Admin.go:103), so the list has to be stored
  between the two.
* **Deleted twice** (articles.go:436). The flag is inverted, whatever ACTION says.
* **An increment after a return** (beautify.js:1241). An operator behind `return`, `case`,
  `do`, `if` or `else` is printed before the newline in front of it is looked at; the
  comment at beautify.js:1361 says that a newline before `++` is preserved.

Three disagreements need no run. `Info` (cache.go:67) prints "waits purging" for every entry
that never expires, because `born + ttl - now` is negative at once when `ttl` is -1, which
readme.md:35 ships. And the brake lets two requests of one address in within its window
(auth.go:193): an address is deleted when it is let in again, so that the next request is
its first; main.go:94 says that rapid access is logged and banned. What holds is `ThreeSpanTheWindow`.
And beautify-css.js 178-180 says "Nested pseudo-class if we are insideRule and the next
special character found opens a new block", where a `;`, `}`, `)` or `{` inside quotes or a
comment is no special character: in `a{b:not([x=";"]){` it ends the search, and the `:` is
printed as that of a declaration. `WhiteSpaceOfSheets` names the case (`Hidden`).

### What `cache_views` says that may surprise

Apart from a slow reader, a failed query and a lost answer, which reach every view:
a page asked for before its article existed stays empty when the article is posted
(`unborn`); an update refused for too many revisions locks the article without
removing its page (`relocked`); of two overlapping updates the tag between the two is named
by neither (`slipped`); the list of an author who is not the first keeps an article a
third user took over (`handed_over`); and the parent's list of replies follows new
replies only (`edited`). With lifetime -1 these stay until the cache has to make room.

### What `client` and `formatter` say that may surprise

The properties of these runs name the exceptions; outside of them the code is as expected.

* Requests: `abort` in the time-out fires `onreadystatechange` with status 0 first, so
  those who wait are told a failure and never ETIMEOUT (main.js 204-206); only who asks
  later is told that. The time-out is taken back at the first byte: a server that begins
  to answer and stops leaves the page waiting for ever.
* Uploads: a file of an image type that cannot be decoded never calls back, nor does a batch
  after one of the exceptions nobody catches: a path in place of a file (`etc.file`, main.js 348,
  hands over strings, whose type is looked at in 659) and an answer that is no error and
  has no link (694). The sign stops for all batches when one of them ends.
  The order of the images (`InsertedInOrder`) is that of time: each goes where the caret is.
* Lazy loading: with a prefix (`__cdn`) click n formats 1 + 3(n - 1) times, and a click
  made before the last one has come to rest may format before the formatter is there.
* Editor: removing an instance of anything but a textarea throws; removed instances go
  on listening to blur.
* Style sheets: names of at-rules are looked up together with the character that ends them,
  so they are only found before a newline (beautify-css.js 312-331); a quoted `url("..")`
  counts a parenthesis down that was not counted up; `a :hover` loses its blank,
  which parted two selectors; a text that holds a `;` or a `)` hides that a `:` is a
  selector's; a brace too many takes the level below zero and leaves the string where it is
  (213-216); every inner `}` ends the rule; an unterminated block prepends its
  indentation to the sheet (441-444).
* Pages: `retrieve_tag` says that it removes the tag "and all ancestors" (522), but the
  descendants stay, and one of them left open hides an outer element of its name;
  newlines are printed behind the piece they are found with; one more than the maximum of
  empty lines is kept.
* Scripts: the newline behind `return` is lost before `(`, a string or `++`, which then
  are returned; a newline before a string, `!` or `{` behind a word is lost; of three ifs
  without braces in each other, or an else if in one, the else stands under the wrong
  if; a `switch` that begins with `default` is taken for an object.

## Fairness

* `LRUCache`: weak fairness of `Purge`. The goroutine of `Start` loops for ever and sleeps
  a fixed time between rounds.
* `AccessLimiter`: weak fairness of `Start` (a goroutine that was started runs), `Sweep` (a
  ticker; the mutex is the only thing it waits for) and `PingReturns` (a ping answers or
  times out); strong fairness of `LogIPnv` for each request, because Go's mutex is handed
  to every waiter in the end even though the daemon takes it again and again.
* `HitCounter`: the same, with strong fairness of `Collect`, which competes with readers.

* `Ajax`: weak fairness of `Handler` (a handler runs to its end) and of each `Timeout` (timers
  go off); none of a server's answer, which is why the time-out matters.
* `Uploads`: weak fairness of a file being decoded or not, and of a request being answered
  or hanging, which is what `Ajax` promises of it.

None is assumed of requests arriving, of readers and writers of articles, or of time.

## What is proved

All theorems hold for every value of the constants the named assumptions allow.

* `LRUCacheProofs`. The inductive invariant joins the types, "the list is a list of the
  map's keys" (`IsListOf`), "the list is ordered by last use" (`RecencyOrder`) and the
  capacity. Each is needed for the others: that the evicted entry is the least recent one
  follows from the order of the list, which is preserved only because list and map hold
  the same keys; that one eviction restores the capacity needs the same, and the
  cardinality of the keys before. Lemmas about the list (`PushKeepsList`, `UnlinkKeepsList`,
  `PushKeepsRecency`) carry the steps. From it: `TypeCorrect`, `MapAndListAgree`,
  `CapacityHolds`, `EvictionFollowsRecency`, and `CacheImplementsContract`, which maps every
  call to the action of the contract and the purge to `Forget`.
* `AccessLimiterProofs`. `ThreeSpanTheWindow` is about a step, and needs to know of an
  address: in the map it carries the time it was let in last; out of the map the time
  it was let in last is more than the window after the time before. `LetInIsSpaced` is
  that invariant's step for the two ways of being let in.
* `HitCounterProofs`. Types, with "no statement is left between ticks" and "no counts before
  the map", and the conservation of hits, which is inductive with them.
* `EditingProofs`. All safety invariants of `Editing`, for any number of handlers. Those that
  passed the lock or the limit are counted together with those that still can because they
  read before (`LockInv`, `RevisionInv`): a commit moves a handler from one count to the
  other, and the handler that reaches the limit is in neither. `HistoryInv` says that an
  update at work has read what the article still says, unless that was written meanwhile.
* `ArticleCacheProofs`. `PagesSettle` and `ListsSettle` for any number of articles, users,
  tags, readers and writers. Neither is inductive. The invariant says of every entry, and of
  every answer a reader still holds, that it is `Fine`: it shows what its query would answer
  now, or a writer that has committed is still to remove it (`Pending`), or it carries one
  of the faults its kind of view may have (`Excused`). A reader that stores late must
  hold something `Fine` too, or it would make an entry worse than all that was stored
  (`ReaderInv`); a writer's list of what to remove reaches every view its commit changes only if
  it knows the first author and the parent (`JobInv`), and what a row has been through
  bounds what views of it may say (`RowInv`: revisions and children never outnumber writes).
* `ClientProofs`, of `Ajax`: `OnceAndInOrder` for any number of requests, answers, aborts and time-outs. The
  argument: a callback is a right to do one thing once (`Right`): to tell a continuation, to
  notify join, to go on with the chain, to have a promise done. It wanders from the
  call of `then` to the promise's callbacks and on to the call of the callback. No two
  calls or callbacks hold the same right and none that is held has been used (`Distinct`,
  `Unused`). `done` hands out every callback and forgets it, so the second `done` of
  a promise, by the handler of the abort or by the time-out, hands out none. The other
  conjuncts say where which right may be (`CallsFit` to `Untouched`) and what join and chain
  have gathered (`ResultsFit`, `GivenFits`, `ChainFits`). The run checked it with three requests
  before it was proved.
* `ClientProofs`, five more parts, which share nothing. Of `NicEditor`: `FocusIsSelected` is
  inductive only together with the types, which say that who is focused has been made: so a
  blur reaches everybody focused, the removed too; that no edit is lost (`EditsAreKept`) needs
  `ContentInv`: at most one instance per element; its content is the last edit; an element
  without one has it as its value. Of `Gallery`: the index is that of the last image asked
  for (`AsksForIndex`); what is shown, unless an earlier image came late, is that one
  (`ShowsIndex`); the sign is behind the last one asked for only (`SignBehindLast`). Of `Uploads`: a
  batch at work is at a file of its own that is an image (`AtAnImage`), without which neither
  the order of the images nor the honesty of the sign is inductive; images of one batch come
  into the article in order however batches mix. Of `StringTools`: for every text, of any
  length, what is decoded are the text's bits, and exactly the ill-formed ones throw
  (`DecodesEveryText`). The invariant of the loop is `BlocksInv`: i is at the
  beginning of a block, everything before it is in the alphabet, and the bytes so far are
  its bits; that the code's shifts and masks give a block's bits (`BlockBits`) is arithmetic of
  24 bits, done by lemmas that take a character apart after its second and its fourth bit.
  Of `LazyLoad`: `ScriptsReadyWhenCalled`, for any sources and any number of calls. Nothing
  runs early where nothing is mistaken for a loaded script (`Plain`), for then a call is at one
  thing at a time, and everything before what is left of it has loaded (`OneByOne`). What
  counts the callbacks is conserved (`RunsAddUp`): every source searched for leads to `_gotoNext`
  once for itself and once for each element of an earlier call, and each of these is on
  the agenda, on its way, has shifted a source, or has run the callback; how many
  elements a source has is a count of its own (`CopiesFit`). Both count members of sequences,
  with lemmas on what appending, taking and changing one does to a count. That no call puts
  a source into the page twice (`SourcesAreLoadedOnce`), though the same sources may be on the
  agenda, in the page and still to be looked for, is `OncePerCall`: what a call has put
  there or is about to is among the sources it has looked for (`Sought`), and the next one is not.
  All of these and that of `Ajax` together are the invariant of `Client` (`ClientTypeCorrect`).
* `FormatterProofs`. For every style sheet, not only the small ones of the run: the tokens are
  printed, each once and in its order (`CssPrintedOnce`), the indentation follows the braces
  (`IndentAlwaysMatches`), and white space is dropped and put in only at the places listed
  (`WhiteSpaceOfEverySheet`). That is less than that the sheet means the same, which is not so.
  No induction over the sheet is needed, since the loop is one: the invariant (`Printed`) splits
  the output at its last token. Up to there it is as it stays; behind it there is white
  space, and only if that token asks for it (`GapIsOpen`). The last token is the one read last,
  or the first of two read at once (`LastIsRead`), so what the code looks at behind itself
  in the source is what it looks at in the output. The excess, a maximum over all that was
  read, is `base - indentLevel` (`Level`), which each brace keeps or raises by one. One lemma per
  printer operation says what it leaves of the output, and one (`PushStep`) that pushing a token
  between two of them keeps the invariant. That the look ahead over characters finds the {
  of a selector (`SelectorFound`) is a comparison of two searches: the tokens' { comes first
  among the characters, too, unless a text holds what ends the search (`Hidden`).
  For every page, its pieces are printed, each once and in its order, and the lines mean the
  same (`PageKeptByTheFormatter`), and the indentation shows
  the nesting (`NestingShownByTheFormatter`). `HtmlLineInv` says of the output what is true in
  the middle of a page: the last piece of it is the last one read (`HtmlShape`), and each two
  neighbours are parted as the page parts them (`LinesKept`); a text read in one step by
  `GetContent` has these properties of its own (`Words`), by induction on its length, and
  `PrintRawIs` puts a text behind an output. That nothing is lost or moved is `InTurn`: the
  pieces of an output are those from one number to another, in their order, which goes with a
  text through `Words` and is joined where a text begins with the piece after the last. For the nesting, `HtmlNestInv` adds a chain of
  keys of the table of tags (`Chain`): from `tags.parent` upwards there is one key for each
  element open (`OpenBehind`), with its name, the level it was recorded at and, of each name, a
  count that grows. So the key that `retrieve_tag` looks for, the greatest of its name, is
  either the last of that name in the chain, and the chain is cut where the page's own
  nesting is (`ChainCut`), or one left open and not in the chain, which is when the table is `misled`;
  from then on nothing is claimed. That the parents met on the way up are exactly the chain
  (`Ancestors`, the least set closed under parents) is shown from both sides.
* `ScriptProofs`. For every script, grammatical or not, the tokens are printed, each once and in its order (`ScriptTokensKept`), and the frames
  are those of the brackets (`FramesMatchBrackets`). Neither is inductive: handlers call
  one another on the record `fmt`, push frames that later handlers pop, and take printed lines up
  again. `JsInv` says of the record that it is `Good` (typed, the two frames of the script
  at the bottom, the tokens so far printed in order) and that the frames that are no
  statements (`Opened`) are two more than `OpenBrackets`. Each function of the model has a lemma:
  it keeps `Opened` (`Keeps`), and if it pushes nothing it is said to unwind
  (`Unwinds`), or it adds one frame (`Opens`) or removes one if one is there (`Closes`). Loops
  (`CloseStatements`, `CloseWhile`, blank lines) are recursive functions over numbers. That no statement is open
  at the end needs no invariant, since the end of the file closes them whatever was left.
  Its newlines mean what they did (`NewlinesKeptByTheFormatter`): `JsLineInv` adds to `JsInv`
  the rule for each token printed (`NewlineRule`, by the lines alone) and what the last token
  leaves behind (`LeftAt`): where it ends the last line, what is remembered of it, and the empty
  line behind a comment to the end of its line. Old pairs stay as they are since a printed token
  never moves (`PairKept`); a new pair is decided by what was left behind and by which handlers
  take no line back (`Keeps`, against `Retains` for the two that trim: a comment at the end of a
  line, and `else` and `catch`, which trim only behind a block).
  In `FormatterProofs`, `EverythingIsPrinted` joins the three for `Formatters`: whichever is at
  work has printed every piece it has read, once and in its order.

Assumed are only the named assumptions on constants: finite sets of keys, natural
numbers, sentinels that are not members, at least one handler in `Editing`, no source twice
in a call of `lazyLoad` (as in the three calls of the templates). `NicEditor` has one more
assumption, in its next-state relation (`OneOfElement`): a page does not make two instances of
one element at a time. Nothing in editor.js asks it, but `removeInstance` and
`instanceById` look instances up by their element; and no page of the site makes an instance
(playground.html:4 only loads the script).

Model-checked only: the two liveness properties of the daemons, `DeadEntriesGo` and the
rest of the liveness, `EverybodyIsTold` and `UploadsEnd` among it (fairness and ENABLED
are out of the prover's reach); `CacheListRace`, whose run is a counterexample;
of `JsReadsTheSame` the part that is not `NewlinesMeanTheSame`: where an else stands, and
what newlines and blanks between words mean (`WordsMeanTheSame`). That holds of the scripts
checked, which are grammatical, and not of any tokens: TLC breaks it with `do if break x`,
`if while` and a string before `function`, so a proof needs JavaScript's grammar.
Recursive functions over numbers (`ContentTo`, `OpenBehind`, `OpenBrackets`) do not need the
induction theorems that take an operator: what holds of all their values is proved by
taking the least number it does not hold of (`WFMin`).

## What is left out, and why

* Messages, search, feeds, history pages, status pages: they read and print.
* The functions of the database `new_article` and `update_article` are not in the
  repository; they are modelled from the calls: what is sent, and how the answer is used.
* Contents, titles and previews are numbers or absent; privileges are a set of
  moderators, or left out where they only refuse.
* In `ArticleCache`: hit and reply counts in lists, the parent's title in a reply's page,
  the total number of articles, and a panic in `incrCounter`, which stores an empty page.
* The walk of the cache page over the live map (Admin.go:263) ends the process when a
  handler writes it meanwhile; there is nothing to say beyond that.
* Cleaning of contents, the pages of a list, login, the configuration's lock, the server's
  side of uploads: planned below.
* Of the pages' scripts: what only writes HTML, titles and previews, drafts kept in the
  browser, the encryption of messages (a vendored library), cookies. Of the editor: styles,
  ranges, the panel and its buttons, which the browser carries out.
* Of the formatters: options the editor does not give, the wrapping of long lines,
  handlebars, E4X, modules, accessors, generators and directives; and the tokenizer of
  scripts, whose tokens are the input of `JsBeautify`.
* A browser that knows neither `XMLHttpRequest` nor `ActiveXObject`: the page's own call of
  `ajax` throws (main.js 148) and nothing is asked. The calls of `uploadImage` in
  playground.html (43, 81) have the parameters of an earlier version.
* In the printer of pages, a text that ends in a newline (beautify-html.js 803-806): unformatted
  elements end in their tag, so only one cut off by the end of the page does.
* Vendored scripts, templates without logic, hashing and captchas.

## The plan from here

1. The rest of `JsReadsTheSame`: a grammar of statements as an assumption on the scripts, and
   with it in `JsLineInv` the frames of an if and of a break.
2. `Login`: the two phases with a password used once, retries and the lock, sessions and
   logout; registration and its key files.
3. `Settings`: the configuration's lock, `InitTags` and the connections: nobody is stuck
   unless `InitTags` waits while readers hold every connection; the update of the
   configuration, its undoing and its file.
4. The server's side of uploads: one image at a time against the thumbnail program, usage.
5. `Lists`: OFFSET and LIMIT with articles on top, the pager, as operators with a
   reference definition; `ExtractContent` over bounded token sequences.
6. A composition of `AccessLimiter`, `HitCounter` and the readers of `ArticleCache` in
   `GetArticle`, whose deferred `Add` also runs when `incrCounter` panics; one of `Uploads`
   with `Ajax` in place of what it assumes of a request.
7. Longer sources for the formatters, and their wrapping of lines.
